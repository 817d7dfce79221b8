--------------------------- MODULE ConfigRegister ---------------------------
(***************************************************************************)
(* What the configuration file promises its users: every accepted request  *)
(* is applied, whole, to the configuration that was in force just before,  *)
(* one request after another; and what somebody typed into the file by     *)
(* hand is noticed between two requests, never in the middle of one.  Only *)
(* a request that another one has overtaken is applied, still whole, to    *)
(* one of the configurations in old, and what came between is lost.        *)
(***************************************************************************)
CONSTANTS
    Apply(_, _), \* what a request makes of a configuration
    Refused,     \* no configuration: the request is turned down
    Operations,  \* the requests that may come
    HandEdits,   \* what may be typed into the file
    Initial      \* the file at first

VARIABLES
    reg,         \* the configuration in force
    old          \* configurations that overtaken requests go by

\* The file after one of the edits by hand, or several.
Edited(cfg) ==
    {[cfg EXCEPT !.policies = e.policies, !.kill = e.kill, !.mode = e.mode] : e \in HandEdits}

Notice == reg' \in Edited(reg)

PerformOn(o, cfg) == /\ Apply(o, cfg) # Refused
                     /\ reg' = Apply(o, cfg)

Perform(o)   == PerformOn(o, reg)
Overwrite(o) == \E cfg \in old : PerformOn(o, cfg)

Init == reg = Initial

Next == Notice \/ \E o \in Operations : Perform(o) \/ Overwrite(o)

Spec == Init /\ [][Next]_reg
=============================================================================
