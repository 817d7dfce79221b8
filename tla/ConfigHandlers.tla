--------------------------- MODULE ConfigHandlers ---------------------------
(***************************************************************************)
(* What the handlers of internal/api make of a configuration.  Each takes  *)
(* a request and the configuration that was just loaded, and answers the   *)
(* configuration to be saved, or Refused.                                  *)
(*                                                                         *)
(* A configuration has the profiles (vpns: a priority, the credentials     *)
(* that the OS keychain holds for it, an override of the kill switch), the *)
(* policies in order, the groups, the schedule, the two guards' flags and  *)
(* the remaining settings as one value.  Names are equal as written or     *)
(* equal up to case; the code compares them sometimes so, sometimes so.    *)
(***************************************************************************)
EXTENDS PolicyEngine

CONSTANTS
    Fold,           \* a name in lower case, for strings.EqualFold
    RulesWithVars,  \* policies that name environment variables, and what they expand to
    ModesWithVars,  \* the same for the settings
    Refused         \* no configuration: the request is turned down

Modes == {"", "strict", "loose"}

\* A mode has no variable in it.
ASSUME ModesAssumption == Modes \cap DOMAIN ModesWithVars = {}

SameName(a, b) == Fold[a] = Fold[b]

Credentials == {"username", "password"}

\* The fields of a configuration and of a profile in it.
Shaped(cfg) ==
    /\ DOMAIN cfg = {"vpns", "policies", "groups", "schedule", "kill", "dns", "mode"}
    /\ \A p \in DOMAIN cfg.vpns : /\ DOMAIN cfg.vpns[p] = {"priority", "held", "kill"}
                                 /\ cfg.vpns[p].held \subseteq Credentials

FirstOf(S) == CHOOSE i \in S : \A j \in S : i <= j

Without(s, i) == SubSeq(s, 1, i - 1) \o SubSeq(s, i + 1, Len(s))
----------------------------------------------------------------------------
(* config.Validate *)

HasMatcher(rule) == rule.ranges # {} \/ rule.domains # {} \/ rule.apps # {}

ValidPolicies(cfg) ==
    /\ \A i \in DOMAIN cfg.policies : /\ cfg.policies[i].via \in DOMAIN cfg.vpns
                                      /\ HasMatcher(cfg.policies[i])
    /\ \A i, j \in DOMAIN cfg.policies :
          cfg.policies[i].name = cfg.policies[j].name => i = j

ValidReferences(cfg) ==
    /\ \A g \in DOMAIN cfg.groups : cfg.groups[g] \subseteq DOMAIN cfg.vpns
    /\ \A i \in DOMAIN cfg.schedule : /\ cfg.schedule[i].profiles # {}
                                      /\ cfg.schedule[i].profiles \subseteq DOMAIN cfg.vpns

Valid(cfg) == /\ DOMAIN cfg.vpns # {}
              /\ cfg.mode \in Modes
              /\ ValidPolicies(cfg)
              /\ ValidReferences(cfg)

\* A trial copy is validated before the handler goes on.
IfValid(cfg) == IF Valid(cfg) THEN cfg ELSE Refused
----------------------------------------------------------------------------
(* config.Load: os.ExpandEnv, applyDefaults, and then Validate *)

Expanded(x, vars) == IF x \in DOMAIN vars THEN vars[x] ELSE x

Default(mode) == IF mode = "" THEN "strict" ELSE mode

Loaded(cfg) == [cfg EXCEPT !.policies = [i \in DOMAIN @ |-> Expanded(@[i], RulesWithVars)],
                           !.mode = Default(Expanded(@, ModesWithVars))]

Loads(cfg) == Valid(Loaded(cfg))
----------------------------------------------------------------------------
(* Policies *)

PoliciesNamed(cfg, name) == {i \in DOMAIN cfg.policies : SameName(cfg.policies[i].name, name)}

ValidPolicy(rule, cfg) == rule.via \in DOMAIN cfg.vpns /\ HasMatcher(rule)

CreatePolicy(o, cfg) ==
    IF ValidPolicy(o.rule, cfg) /\ PoliciesNamed(cfg, o.rule.name) = {}
    THEN [cfg EXCEPT !.policies = Append(@, o.rule)] ELSE Refused

\* The first policy of that name is replaced; the new name must be free
\* unless it is the old one in another spelling.
UpdatePolicy(o, cfg) ==
    LET found == PoliciesNamed(cfg, o.name)
    IN  IF /\ SameName(o.rule.name, o.name) \/ PoliciesNamed(cfg, o.rule.name) = {}
           /\ ValidPolicy(o.rule, cfg)
           /\ found # {}
        THEN [cfg EXCEPT !.policies[FirstOf(found)] = o.rule] ELSE Refused

\* Every policy of that name goes, the others are kept in order.
OthersThan(policies, name) ==
    LET out[i \in 0..Len(policies)] ==
            IF i = 0 THEN << >>
            ELSE IF SameName(policies[i].name, name) THEN out[i - 1]
                 ELSE Append(out[i - 1], policies[i])
    IN  out[Len(policies)]

DeletePolicy(o, cfg) ==
    IF PoliciesNamed(cfg, o.name) = {} THEN Refused
    ELSE [cfg EXCEPT !.policies = OthersThan(@, o.name)]
----------------------------------------------------------------------------
(* Groups, under their exact names *)

SaveGroup(o, cfg) ==
    IF o.profiles # {} /\ o.profiles \subseteq DOMAIN cfg.vpns
    THEN [cfg EXCEPT !.groups = [g \in DOMAIN @ \cup {o.name} |->
                                    IF g = o.name THEN o.profiles ELSE @[g]]]
    ELSE Refused

CreateGroup(o, cfg) == IF o.name \in DOMAIN cfg.groups THEN Refused ELSE SaveGroup(o, cfg)

UpdateGroup(o, cfg) == IF o.name \in DOMAIN cfg.groups THEN SaveGroup(o, cfg) ELSE Refused

DeleteGroup(o, cfg) ==
    IF o.name \in DOMAIN cfg.groups
    THEN [cfg EXCEPT !.groups = [g \in DOMAIN @ \ {o.name} |-> @[g]]] ELSE Refused
----------------------------------------------------------------------------
(* Profiles *)

\* The old entry's credentials and override are kept, its other fields are not.
SaveVPN(o, cfg) ==
    LET old == IF o.name \in DOMAIN cfg.vpns THEN cfg.vpns[o.name]
               ELSE [priority |-> 0, held |-> {}, kill |-> "inherit"]
        new == [old EXCEPT !.priority = o.priority, !.held = @ \cup o.gives]
    IN  IfValid([cfg EXCEPT !.vpns = [p \in DOMAIN @ \cup {o.name} |->
                                         IF p = o.name THEN new ELSE @[p]]])

CreateVPN(o, cfg) == IF o.name \in DOMAIN cfg.vpns THEN Refused ELSE SaveVPN(o, cfg)

UpdateVPN(o, cfg) == IF o.name \in DOMAIN cfg.vpns THEN SaveVPN(o, cfg) ELSE Refused

\* Policies and groups that name the profile are looked for, the schedule's
\* rules are not.
Referenced(name, cfg) ==
    \/ \E i \in DOMAIN cfg.policies : SameName(cfg.policies[i].via, name)
    \/ \E g \in DOMAIN cfg.groups : \E p \in cfg.groups[g] : SameName(p, name)

DeleteVPN(o, cfg) ==
    IF /\ o.name \in DOMAIN cfg.vpns
       /\ Cardinality(DOMAIN cfg.vpns) > 1
       /\ ~Referenced(o.name, cfg)
    THEN [cfg EXCEPT !.vpns = [p \in DOMAIN @ \ {o.name} |-> @[p]]] ELSE Refused

SetProfileKillSwitch(o, cfg) ==
    IF o.name \in DOMAIN cfg.vpns /\ o.override \in {"inherit", "on", "off"}
    THEN [cfg EXCEPT !.vpns[o.name].kill = o.override] ELSE Refused
----------------------------------------------------------------------------
(* Schedule, guards and settings *)

RulesNamed(cfg, name) == {i \in DOMAIN cfg.schedule : SameName(cfg.schedule[i].name, name)}

CreateScheduleRule(o, cfg) ==
    IF RulesNamed(cfg, o.rule.name) = {}
    THEN IfValid([cfg EXCEPT !.schedule = Append(@, o.rule)]) ELSE Refused

\* Nothing keeps the new name from being another rule's.
UpdateScheduleRule(o, cfg) ==
    LET found == RulesNamed(cfg, o.name)
    IN  IF found = {} THEN Refused
        ELSE IfValid([cfg EXCEPT !.schedule[FirstOf(found)] = o.rule])

DeleteScheduleRule(o, cfg) ==
    LET found == RulesNamed(cfg, o.name)
    IN  IF found = {} THEN Refused
        ELSE [cfg EXCEPT !.schedule = Without(@, FirstOf(found))]

ToggleKillSwitch(o, cfg) == [cfg EXCEPT !.kill = o.enabled]

ToggleDNSGuard(o, cfg)   == [cfg EXCEPT !.dns = o.enabled]

UpdateSettings(o, cfg)   == IfValid([cfg EXCEPT !.mode = o.mode])
----------------------------------------------------------------------------
\* The requests that there are handlers for.
Kinds == {"create policy", "update policy", "delete policy", "create group", "update group",
          "delete group", "create vpn", "update vpn", "delete vpn", "override", "create rule",
          "update rule", "delete rule", "kill switch", "dns guard", "settings", "reload",
          "reload tunnel"}

\* What the handler of request o makes of the configuration it loaded.
Handle(o, cfg) ==
    CASE o.kind = "create policy"   -> CreatePolicy(o, cfg)
      [] o.kind = "update policy"   -> UpdatePolicy(o, cfg)
      [] o.kind = "delete policy"   -> DeletePolicy(o, cfg)
      [] o.kind = "create group"    -> CreateGroup(o, cfg)
      [] o.kind = "update group"    -> UpdateGroup(o, cfg)
      [] o.kind = "delete group"    -> DeleteGroup(o, cfg)
      [] o.kind = "create vpn"      -> CreateVPN(o, cfg)
      [] o.kind = "update vpn"      -> UpdateVPN(o, cfg)
      [] o.kind = "delete vpn"      -> DeleteVPN(o, cfg)
      [] o.kind = "override"        -> SetProfileKillSwitch(o, cfg)
      [] o.kind = "create rule"     -> CreateScheduleRule(o, cfg)
      [] o.kind = "update rule"     -> UpdateScheduleRule(o, cfg)
      [] o.kind = "delete rule"     -> DeleteScheduleRule(o, cfg)
      [] o.kind = "kill switch"     -> ToggleKillSwitch(o, cfg)
      [] o.kind = "dns guard"       -> ToggleDNSGuard(o, cfg)
      [] o.kind = "settings"        -> UpdateSettings(o, cfg)

\* The dashboard's reload and a tunnel's take it as it is.
Reloads(o) == o.kind \in {"reload", "reload tunnel"}

Apply(o, cfg) == IF Reloads(o) THEN cfg ELSE Handle(o, cfg)

\* The credentials a request puts into the keychain before it saves, and
\* those it removes once it has saved.
Gives(o) == IF o.kind \in {"create vpn", "update vpn"} THEN o.gives ELSE {}

Forgets(o, cfg) == IF o.kind = "delete vpn" THEN cfg.vpns[o.name].held ELSE {}
=============================================================================
