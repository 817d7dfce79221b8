----------------------------- MODULE MCAdapters -----------------------------
(* One profile with an adapter of each type, on each platform. *)
EXTENDS AdapterContract

CONSTANT p1
=============================================================================
