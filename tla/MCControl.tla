------------------------------ MODULE MCControl ------------------------------
EXTENDS ControlAPI, TLC

CONSTANTS p1, p2

\* A tunnel, and a group of two.
MCTargets == {<<p1>>, <<p2, p1>>}

\* Days of three minutes; a night over midnight, on the first day.
MCRules == {[profiles |-> {p1}, weekdays |-> {0}, start |-> 1, end |-> 0]}

Symmetry == Permutations(Handlers) \cup Permutations(Attempts)
=============================================================================
