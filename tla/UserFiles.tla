------------------------------- MODULE UserFiles -------------------------------
(***************************************************************************)
(* The processes of one user and the files they share in ~/.kongtrol: each *)
(* gets the API token as it loads the configuration                        *)
(* (src/cmd/kongtrol/config_load.go:18-37), then opens the audit log       *)
(* (config_load.go:160-176), and then works: the daemon serves requests    *)
(* that edit the preferences, a command edits them itself, both write      *)
(* events; besides, one `logs --follow` and one `doctor --fix`, which wait *)
(* for nobody.  Before all that, `kongtrol init` makes kongtrol.yaml.      *)
(*                                                                         *)
(* The set-up, the token with the edits, and the events touch no common    *)
(* state, so nothing is gained from interleaving them: a behaviour has one *)
(* of them, chosen at its beginning (scene).  Only the writers have        *)
(* events; when they got the token does not matter for these.              *)
(***************************************************************************)
EXTENDS APIToken, Preferences, AuditLog, Wizard

CONSTANT Daemon

VARIABLE scene

vars == <<tokenVars, prefVars, auditVars, wizardVars, scene>>

\* Where the wizard does not run, its file does not matter.
FirstFile == CHOOSE f \in Files : TRUE

Init ==
    /\ InitToken
    /\ InitPreferences
    /\ InitAudit
    /\ InitWizard
    /\ scene \in {"edits", "events", "setup"}
    /\ scene = "setup" \/ yaml = FirstFile

Token(p) ==
    /\ scene = "edits"
    /\ TokenStep(p)
    /\ UNCHANGED <<prefVars, auditVars, wizardVars>>

Log(p) ==
    /\ scene = "events"
    /\ \/ StartLogger(p)
       \/ StartLog(p)
       \/ OpenDay(p) \/ OpenFails(p)
       \/ ListOld(p) \/ (\E d \in Days : RemoveOld(p, d)) \/ Pruned(p)
       \/ WriteLog(p)
    /\ UNCHANGED <<tokenVars, prefVars, wizardVars>>

ProcessOf(e) == IF e \in Requests THEN Daemon ELSE e

Edit(e) ==
    /\ scene = "edits"
    /\ token[ProcessOf(e)] # NoToken
    /\ PreferencesStep(e)
    /\ UNCHANGED <<tokenVars, auditVars, wizardVars>>

Others ==
    /\ scene = "events"
    /\ Midnight \/ DoctorLooks \/ DoctorWrites \/ LogsRead \/ LogsFollow \/ Poll
    /\ UNCHANGED <<tokenVars, prefVars, wizardVars>>

Setup ==
    /\ scene = "setup"
    /\ WizardStep
    /\ UNCHANGED <<tokenVars, prefVars, auditVars>>

Next ==
    /\ \/ \E p \in Procs : Token(p)
       \/ \E p \in Writers : Log(p)
       \/ \E w \in Editors : Edit(w)
       \/ Others
       \/ Setup
    /\ UNCHANGED scene

Spec == Init /\ [][Next]_vars
================================================================================
