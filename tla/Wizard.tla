--------------------------------- MODULE Wizard ---------------------------------
(***************************************************************************)
(* `kongtrol init` (src/cmd/kongtrol/wizard*.go): a walk through profiles, *)
(* policies and security for a first configuration, a menu of the same     *)
(* steps for one that has profiles.  Both edit a document that was read    *)
(* once at the beginning and is written, if at all, at the end; passwords  *)
(* go to the keychain as soon as they are typed.                           *)
(*                                                                         *)
(* Every form can be left with Esc, which gives up the step (in the walk:  *)
(* the wizard, but for the question whether to add a profile), and with    *)
(* Ctrl+C, which gives up the wizard.                                      *)
(*                                                                         *)
(* An entry of the document is marked when the wizard has made it.  Hosts, *)
(* matchers and the like are left out: no step looks at them again.        *)
(***************************************************************************)
EXTENDS SequencesExt

CONSTANTS
    Typed,        \* profile names as they may be typed
    NameOf,       \* per typed name: in lower case, with dashes for spaces
    PolicyNames,  \* policy names as they may be typed, trimmed
    Types,        \* adapters that may be chosen
    Features,     \* kill switch, DNS guard, signed audit log, dashboard
    Files,        \* what kongtrol.yaml may be at first
    MaxEntries    \* bound: entries of the document, of each sort

VARIABLES
    yaml,         \* kongtrol.yaml
    doc,          \* the document that is edited
    existing,     \* the names in the configuration that was read
    wizardAt,     \* the form that is shown, or the step under way
    walk,         \* the walk, not the menu
    known,        \* knownProfiles
    knownPolicies,\* collectPoliciesHuh's
    entered,      \* the profile or policy being added
    added,        \* policies added since the step was entered
    shown,        \* addedProfiles and addedPolicies
    sec,          \* the features that the review will show
    refreshing,   \* profiles whose password is still to be asked for
    secrets,      \* profiles whose password has been set
    dropped,      \* history: policies added in a step that was left with Esc
    twice         \* history: policies added in two visits of the step

docVars == <<yaml, doc, existing, secrets>>
formVars == <<walk, known, knownPolicies, entered, added, shown, sec, refreshing>>
wizardVars == <<docVars, wizardAt, formVars, dropped, twice>>

\* A user name always comes with a password; the other methods of
\* authentication may leave it out.
ByCredentials == {TRUE}
ByMethod == BOOLEAN

\* Which adapters ask for a password: some depending on the method, Tailscale on
\* whether a key is to be kept.
Keyed == [forticlient |-> ByMethod, openvpn |-> ByMethod, tailscale |-> BOOLEAN,
          protonvpn |-> ByCredentials, ciscoanyconnect |-> ByCredentials,
          globalprotect |-> ByCredentials,
          wireguard |-> {FALSE}, cloudflarewarp |-> {FALSE}]

NewProfile(name, keyed) == [name |-> name, keyed |-> keyed, new |-> TRUE]
NewPolicy(name, via) == [name |-> name, via |-> via, new |-> TRUE]

Names(entries) == {e.name : e \in Range(entries)}
NewNames(entries) == {e.name : e \in {x \in Range(entries) : x.new}}

\* No two entries have one name, but for the names in but.
Distinct(entries, but) ==
    \A i, j \in DOMAIN entries :
        entries[i].name = entries[j].name => i = j \/ entries[i].name \in but

\* A configuration that can be loaded as far as names go, if its policies' names
\* in but are left aside.
Loadable(f, but) ==
    /\ Distinct(f.vpns, {})
    /\ \A e \in Range(f.policies) : e.via \in Names(f.vpns)
    /\ Distinct(f.policies, but)

\* A file has its parts, none of them of this wizard's making, and one that is a
\* configuration could be loaded.
ASSUME WizardAssumption ==
    \A f \in Files :
        /\ DOMAIN f = {"form", "vpns", "policies", "on"}
        /\ f.vpns \in Seq(Range(f.vpns)) /\ f.policies \in Seq(Range(f.policies))
        /\ \A e \in Range(f.vpns) \cup Range(f.policies) : ~e.new
        /\ f.form = "good" => Loadable(f, {})

FreshDoc == [form |-> "good", vpns |-> <<>>, policies |-> <<>>, on |-> {}]
Garbled  == [FreshDoc EXCEPT !.form = "garbled"]
Nothing  == [profiles |-> {}, policies |-> {}]

InitWizard ==
    /\ yaml \in Files
    /\ doc = FreshDoc /\ existing = Nothing
    /\ wizardAt = "start" /\ walk = TRUE
    /\ known = {} /\ knownPolicies = {}
    /\ entered = <<>> /\ added = {} /\ shown = Nothing
    /\ sec = {} /\ refreshing = {} /\ secrets = {}
    /\ dropped = {} /\ twice = {}

Turn(from, to) == wizardAt = from /\ wizardAt' = to

\* The walk goes on to the next step, the menu comes up again.
Onward(step) == IF walk THEN step ELSE "menu"
--------------------------------------------------------------------------------
(* Beginning *)

\* loadExistingConfig: a file that is not there, cannot be read or is not YAML
\* counts for nothing; of one that is YAML but not a configuration (form "odd")
\* the document is kept and its names are not known.
LoadExisting ==
    LET read == yaml.form = "good"
    IN  /\ walk' = ~(read /\ yaml.vpns # <<>>)
        /\ Turn("start", IF walk' THEN "profiles" ELSE "menu")
        /\ doc' = IF yaml.form \in {"good", "odd"} THEN yaml ELSE FreshDoc
        /\ existing' = IF read THEN [profiles |-> Names(yaml.vpns),
                                     policies |-> Names(yaml.policies)]
                       ELSE Nothing
        /\ known' = existing'.profiles
        /\ sec' = IF walk' THEN Features ELSE yaml.on
        /\ UNCHANGED <<yaml, secrets, knownPolicies, entered, added, shown, refreshing,
                       dropped, twice>>

\* The first form asks for the language, if it is not known.
Forms == {"start", "menu", "profiles", "profile", "secret", "replace profile",
          "policies", "policy", "replace policy", "security", "choose refresh", "refresh",
          "review"}

\* Ctrl+C: runForm panics, runWizard recovers.
Quit ==
    /\ wizardAt \in Forms
    /\ wizardAt' = "over"
    /\ UNCHANGED <<docVars, formVars, dropped, twice>>

\* Esc: errWizardCancelled.  What a visit of the policies has added stays in the
\* document, and its names are not handed on.
Escape ==
    /\ wizardAt \in Forms \ {"start"}
    /\ wizardAt' = CASE wizardAt = "profiles" -> "open policies"
                     [] walk \/ wizardAt = "menu" -> "over"
                     [] OTHER -> "menu"
    /\ dropped' = dropped \cup added /\ added' = {}
    /\ entered' = <<>> /\ refreshing' = {}
    /\ UNCHANGED <<docVars, walk, known, knownPolicies, shown, sec, twice>>

ChooseAction ==
    /\ \E next \in {"profile", "choose refresh", "open policies", "security", "review", "over"} :
          Turn("menu", next)
    /\ UNCHANGED <<docVars, formVars, dropped, twice>>

\* The walk asks before each profile.
AskProfile ==
    /\ Turn("profiles", "profile") \/ Turn("profiles", "open policies")
    /\ UNCHANGED <<docVars, formVars, dropped, twice>>
--------------------------------------------------------------------------------
(* A profile: addProfileFlow *)

\* collectProfileHuh, up to the password.
CollectProfile ==
    /\ Len(doc.vpns) < MaxEntries
    /\ \E name \in Typed, type \in Types : \E keyed \in Keyed[type] :
          /\ entered' = <<NewProfile(NameOf[name], keyed)>>
          /\ Turn("profile", IF keyed THEN "secret" ELSE "place profile")
    /\ UNCHANGED <<docVars, walk, known, knownPolicies, added, shown, sec, refreshing, dropped, twice>>

\* An empty password is not set; a keychain that refuses it is reported.
CollectCredentials ==
    /\ Turn("secret", "place profile")
    /\ secrets' \in {secrets, secrets \cup {entered[1].name}}
    /\ UNCHANGED <<yaml, doc, existing, formVars, dropped, twice>>

\* A bug: the name is not noted.
Forgotten(e) == known

Noted(e) == known \cup {e.name}

AppendProfile(vpns) ==
    /\ doc' = [doc EXCEPT !.vpns = Append(vpns, entered[1])]
    /\ known' = Noted(entered[1])
    /\ shown' = [shown EXCEPT !.profiles = @ \cup {entered[1].name}]

PlaceProfile ==
    /\ wizardAt = "place profile"
    /\ IF entered[1].name \in known
       THEN /\ Turn("place profile", "replace profile")
            /\ UNCHANGED <<doc, known, shown, entered>>
       ELSE /\ Turn("place profile", Onward("profiles"))
            /\ AppendProfile(doc.vpns)
            /\ entered' = <<>>
    /\ UNCHANGED <<yaml, existing, secrets, walk, knownPolicies, added, sec, refreshing, dropped, twice>>

\* A bug: the entry stays.
LeftIn(entries, name) == entries

\* removeMapping, removePolicyByName: the first entry of that name.
Without(entries, name) == RemoveFirstMatch(entries, LAMBDA e : e.name = name)

ReplaceProfile ==
    /\ Turn("replace profile", Onward("profiles"))
    /\ \/ AppendProfile(Without(doc.vpns, entered[1].name))
       \/ UNCHANGED <<doc, known, shown>>
    /\ entered' = <<>>
    /\ UNCHANGED <<yaml, existing, secrets, walk, knownPolicies, added, sec, refreshing, dropped, twice>>

ProfileStep == CollectProfile \/ CollectCredentials \/ PlaceProfile \/ ReplaceProfile
--------------------------------------------------------------------------------
(* The policies: collectPoliciesHuh *)

\* Only the policies of the file count as known.
OpenPolicies ==
    /\ Turn("open policies", IF known = {} THEN Onward("security") ELSE "policies")
    /\ knownPolicies' = existing.policies
    /\ UNCHANGED <<docVars, walk, known, entered, added, shown, sec, refreshing, dropped, twice>>

AskPolicy ==
    /\ Turn("policies", "policy")
    /\ UNCHANGED <<docVars, formVars, dropped, twice>>

AppendPolicy(policies, e) ==
    /\ doc' = [doc EXCEPT !.policies = Append(policies, e)]
    /\ knownPolicies' = knownPolicies \cup {e.name}
    /\ added' = added \cup {e.name}
    /\ entered' = <<>>

\* A policy without a domain or a network is not taken.
CollectPolicy ==
    /\ Len(doc.policies) < MaxEntries
    /\ \/ /\ Turn("policy", "policies")
          /\ UNCHANGED <<doc, knownPolicies, added, twice, entered>>
       \/ \E name \in PolicyNames, via \in known :
             IF name \in knownPolicies
             THEN /\ Turn("policy", "replace policy")
                  /\ entered' = <<NewPolicy(name, via)>>
                  /\ UNCHANGED <<doc, knownPolicies, added, twice>>
             ELSE /\ Turn("policy", "policies")
                  /\ AppendPolicy(doc.policies, NewPolicy(name, via))
                  /\ twice' = twice \cup ({name} \cap (NewNames(doc.policies) \ added))
    /\ UNCHANGED <<yaml, existing, secrets, walk, known, shown, sec, refreshing, dropped>>

ReplacePolicy ==
    /\ Turn("replace policy", "policies")
    /\ \/ AppendPolicy(Without(doc.policies, entered[1].name), entered[1])
       \/ entered' = <<>> /\ UNCHANGED <<doc, knownPolicies, added>>
    /\ UNCHANGED <<yaml, existing, secrets, walk, known, shown, sec, refreshing, dropped, twice>>

\* A bug: each visit's names take the place of the last visit's.
LastVisitOnly == [shown EXCEPT !.policies = added]

AllVisits == [shown EXCEPT !.policies = @ \cup added]

ClosePolicies ==
    /\ Turn("policies", Onward("security"))
    /\ shown' = AllVisits
    /\ added' = {}
    /\ UNCHANGED <<docVars, walk, known, knownPolicies, entered, sec, refreshing, dropped, twice>>

PoliciesStep == OpenPolicies \/ AskPolicy \/ CollectPolicy \/ ReplacePolicy \/ ClosePolicies
--------------------------------------------------------------------------------
(* Security and passwords *)

\* collectSecurityHuh writes what is chosen; what is not chosen stays as it was.
CollectSecurity ==
    /\ Turn("security", Onward("review"))
    /\ \E chosen \in SUBSET Features :
          /\ doc' = [doc EXCEPT !.on = @ \cup chosen]
          /\ sec' = chosen
    /\ UNCHANGED <<yaml, existing, secrets, walk, known, knownPolicies, entered, added, shown,
                   refreshing, dropped, twice>>

\* refreshCredentialsFlow: a selection among the profiles of the file; those
\* without a password are passed over.
ChooseRefresh ==
    /\ \E chosen \in SUBSET existing.profiles :
          refreshing' = chosen \cap Names(SelectSeq(yaml.vpns, LAMBDA e : e.keyed))
    /\ Turn("choose refresh", IF refreshing' = {} THEN "menu" ELSE "refresh")
    /\ UNCHANGED <<docVars, walk, known, knownPolicies, entered, added, shown, sec, dropped, twice>>

Refresh ==
    /\ \E p \in refreshing :
          /\ refreshing' = refreshing \ {p}
          /\ secrets' \in {secrets, secrets \cup {p}}
    /\ Turn("refresh", IF refreshing' = {} THEN "menu" ELSE "refresh")
    /\ UNCHANGED <<yaml, doc, existing, walk, known, knownPolicies, entered, added, shown, sec,
                   dropped, twice>>
--------------------------------------------------------------------------------
(* The end: reviewAndWrite *)

Confirm ==
    /\ Turn("review", "write") \/ Turn("review", "over")
    /\ UNCHANGED <<docVars, formVars, dropped, twice>>

\* os.WriteFile empties the file before it writes it, and may fail at either.
Truncate ==
    /\ \/ Turn("write", "cut") /\ yaml' = Garbled
       \/ Turn("write", "over") /\ UNCHANGED yaml
    /\ UNCHANGED <<doc, existing, secrets, formVars, dropped, twice>>

WriteDoc ==
    /\ Turn("cut", "over")
    /\ yaml' \in {doc, Garbled}
    /\ UNCHANGED <<doc, existing, secrets, formVars, dropped, twice>>

WizardStep ==
    \/ LoadExisting \/ Quit \/ Escape \/ ChooseAction \/ AskProfile
    \/ ProfileStep \/ PoliciesStep
    \/ CollectSecurity \/ ChooseRefresh \/ Refresh
    \/ Confirm \/ Truncate \/ WriteDoc
--------------------------------------------------------------------------------
(* Properties *)

\* However often profiles and policies are added and replaced, what the wizard
\* saves can be loaded as far as names go: no profile has two entries, every
\* policy's profile is there, and no two policies have one name, unless that
\* name was entered in two visits of the step (semantics.go:15-29, and yaml.v3
\* for a key that comes twice).  A file that could not be decoded stays so.
SavedLoads == yaml.form = "good" => Loadable(yaml, twice)

\* The review names every profile and policy that the wizard is about to write,
\* after any number of visits of the steps, "so the user isn't confirming blind"
\* (wizard.go, renderReviewPanel), and nothing else; only the policies of a
\* visit that was left with Esc are missing.
ReviewShowsAll ==
    wizardAt = "review" =>
        /\ shown.profiles = NewNames(doc.vpns)
        /\ shown.policies \subseteq NewNames(doc.policies)
        /\ NewNames(doc.policies) \subseteq shown.policies \cup dropped
================================================================================
