------------------------------ MODULE MCUserFiles ------------------------------
(* The daemon with two requests and two commands that edit; the daemon and *)
(* one command write events.  The wizard finds no file, one that is not    *)
(* YAML, one that is not a configuration, one without profiles, or one     *)
(* with a profile, its policy and the kill switch.                         *)
EXTENDS UserFiles

CONSTANTS c, d, e, q, r

MCNameOf == [work |-> "work", Work |-> "work", home |-> "home"]

Entry(n) == [name |-> n, keyed |-> TRUE, new |-> FALSE]

Full == [form |-> "good", vpns |-> <<Entry("work")>>, on |-> {"kill_switch"},
         policies |-> <<[name |-> "intranet", via |-> "work", new |-> FALSE]>>]

MCFiles == {[FreshDoc EXCEPT !.form = "none"], Garbled, FreshDoc, Full, [Full EXCEPT !.form = "odd"]}
================================================================================
