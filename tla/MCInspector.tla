---------------------------- MODULE MCInspector ----------------------------
(***************************************************************************)
(* Small instances of Inspector, with Scanner under it, for TLC.           *)
(***************************************************************************)
EXTENDS Inspector

Socket(p, h) == [port |-> p, host |-> h]
ThreeSockets == {Socket(40000, "0.0.0.0"), Socket(40000, "::"), Socket(50000, "127.0.0.1")}

\* One plain program, one with an empty first argument and an empty entry.
web == [argv |-> <<<<2>>, <<3>>>>, cwd |-> "web", env |-> <<<<4>>, <<5, 6>>>>]
api == [argv |-> <<<<>>, <<2>>>>, cwd |-> "api", env |-> <<<<7>>, <<8>>, <<>>, <<9>>>>]
TwoImages == {web, api}

Proc(u, i, a, b) == [born |-> 0, user |-> u, image |-> i, fds |-> <<a, b, Closed>>]
dashboard == Proc("me", web, Socket(40000, "0.0.0.0"), Closed)
DualStack == Proc("me", web, Socket(40000, "0.0.0.0"), Socket(40000, "::"))
Outside   == Proc("me", api, File, Socket(50000, "127.0.0.1"))
Foreign   == Proc("root", web, Socket(40000, "::"), Closed)

Tables == {1 :> dashboard @@ 2 :> p @@ 3 :> q @@ 4 :> NoProcess :
             p \in {DualStack, Outside, Foreign}, q \in {NoProcess, Outside, DualStack}}

=============================================================================
