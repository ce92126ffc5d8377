---------------------------- MODULE MCRateLimit ----------------------------
(***************************************************************************)
(* Small instances of RateLimit for TLC.                                   *)
(***************************************************************************)
EXTENDS RateLimit

\* The loop of pruneLocked, which appends what is live to the slice's own front.
ASSUME PruneIsTheLoop ==
    \A n \in 0..4 : \A fails \in [1..n -> Ages] : pruned(fails) = SelectSeq(fails, Live)

=============================================================================
