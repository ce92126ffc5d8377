---------------------------- MODULE MCDashboard ----------------------------
(***************************************************************************)
(* Small instances of Dashboard for TLC.                                   *)
(***************************************************************************)
EXTENDS Dashboard, TLC

CONSTANTS web, api

TwoPorts == web :> 40000 @@ api :> 40001

\* web's argv has a blank in it, and api's where it is split is the same.
OneMisread == web :> {api} @@ api :> {}

Symmetric == Permutations(Slots)

=============================================================================
