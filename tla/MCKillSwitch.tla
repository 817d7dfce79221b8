---------------------------- MODULE MCKillSwitch ----------------------------
(***************************************************************************)
(* Two goroutines, two protected profiles of which one adapter does not    *)
(* name its interface, and one profile that is not protected.              *)
(***************************************************************************)
EXTENDS KillSwitch

CONSTANTS wg, ovpn, plain, r1, r2
=============================================================================
