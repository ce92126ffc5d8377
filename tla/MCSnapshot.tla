---------------------------- MODULE MCSnapshot ----------------------------
(***************************************************************************)
(* Small instances of Snapshot for TLC.                                    *)
(***************************************************************************)
EXTENDS Snapshot, TLC

CONSTANTS web, api

\* web without its cwd, or split anew, is what api is.
OneMisread == web :> {api} @@ api :> {}

Symmetric == Permutations(Handlers)

=============================================================================
