----------------------------- MODULE MCSession -----------------------------
(***************************************************************************)
(* Small instances of Session, and of Startup under it, for TLC.           *)
(***************************************************************************)
EXTENDS Session, TLC

=============================================================================
