----------------------------- MODULE Inspector -----------------------------
(***************************************************************************)
(* internal/inspector, asked about a pid that a scan has returned: Inspect *)
(* makes six system calls or more, and between any two of them the process *)
(* may run another program or exit, and another take its pid over.  The    *)
(* environment is parsed out of the kernel's KERN_PROCARGS2 buffer.        *)
(*                                                                         *)
(* A string is a sequence of characters (positive numbers, none of them a  *)
(* space), Nul ends it.                                                    *)
(***************************************************************************)
EXTENDS Scanner

CONSTANTS
    NoCwd,       \* ""
    Failed       \* CmdlineSlice returned an error

Strings == Seq(Nat \ {0})

ASSUME InspectorConstants ==
    \A image \in Images : image.argv \in Seq(Strings) \ {<<>>} /\ image.env \in Seq(Strings)

VARIABLES
    target,      \* the pid asked about
    info         \* ProcInfo as far as it is filled in

insVars == <<target, info>>
vars == <<scanVars, insVars>>

NoInfo == [argv |-> <<>>, cwd |-> NoCwd, born |-> 0, user |-> Me, env |-> <<>>]

Init == ScanInit /\ target = Self /\ info = NoInfo

-----------------------------------------------------------------------------
(* KERN_PROCARGS2: argc; exec_path and its padding, argv and the environment *)

Nul == 0
Terminated(strings) == FlattenSeq([n \in DOMAIN strings |-> Append(strings[n], Nul)])

\* What another process may be given of an image: since macOS 26 the kernel
\* withholds the environment even from the same user.
Procargs(image) ==
    {[argc |-> Len(image.argv),
      buf  |-> <<1, Nul, Nul>> \o Terminated(image.argv \o env)] : env \in {image.env, <<>>}}

\* The first position from pos on whose byte is Nul, or is not.
ToNul(buf, pos) == Min({q \in pos .. Len(buf) : buf[q] = Nul} \cup {Max({pos, Len(buf) + 1})})
ToChar(buf, pos) == Min({q \in pos .. Len(buf) : buf[q] # Nul} \cup {Max({pos, Len(buf) + 1})})

\* (The variants beside some definitions are plausible slips; no specification
\* uses them.)
\* From an argv that runs off the end there is no environment to collect; an
\* empty string ends it.
parseSkipping(args, argc) ==
    LET buf == args.buf
        skipped[i \in 0 .. argc] ==
            IF i = 0 THEN ToChar(buf, ToNul(buf, 1)) ELSE ToNul(buf, skipped[i - 1]) + 1
        collect[pos \in 1 .. Len(buf) + argc + 2] ==
            IF pos > Len(buf) \/ buf[pos] = Nul THEN <<>>
            ELSE <<SubSeq(buf, pos, ToNul(buf, pos) - 1)>> \o collect[ToNul(buf, pos) + 1]
    IN  collect[skipped[argc]]

parseProcargsOneLess(args) == parseSkipping(args, args.argc - 1)

parseProcargs(args) == parseSkipping(args, args.argc)

-----------------------------------------------------------------------------
(* Inspect *)

Filling(from, to, field, val) ==
    /\ Goto(from, to)
    /\ info' = [info EXCEPT ![field] = val]
    /\ UNCHANGED <<worldVars, expired, walkVars, result, target>>

Error(from) == pc = from /\ Fail("inspector") /\ UNCHANGED target /\ info' = NoInfo

Gone == table[target] = NoProcess

BeginInspect ==
    /\ Goto("done", "new") /\ rows # {}
    /\ target' \in {addr.pid : addr \in rows} /\ info' = NoInfo
    /\ expired' = FALSE /\ size' = 0 /\ pids' = {} /\ cur' = Self /\ fds' = {}
    /\ lines' = <<>> /\ partial' = FALSE /\ rows' = {} /\ result' = <<"inspector", "nil">>
    /\ seen' = <<table>> /\ UNCHANGED changes

\* NewProcess looks whether there is such a process and notes when it started.
NewProcess ==
    IF expired \/ Gone THEN Error("new") ELSE Filling("new", "argv", "born", table[target].born)

\* CmdlineSlice; an error or an empty slice leaves it to Cmdline.
ReadArgv ==
    \/ Mine(target) /\ Filling("argv", "cwd", "argv", table[target].image.argv)
    \/ \E none \in {Failed, <<>>} : Filling("argv", "cmdline", "argv", none)

\* The same joined by spaces, and split again.
splitCmdline(argv) == SelectSeq(argv, LAMBDA s : s # <<>>)

ReadCmdline ==
    \/ /\ Mine(target) /\ splitCmdline(table[target].image.argv) # <<>>
       /\ Filling("cmdline", "cwd", "argv", splitCmdline(table[target].image.argv))
    \/ info.argv = Failed /\ Error("cmdline")
    \/ info.argv = <<>> /\ Filling("cmdline", "cwd", "argv", <<>>)

\* Best effort, unless there is no such process.
ReadCwd ==
    \/ Mine(target) /\ Filling("cwd", "start", "cwd", table[target].image.cwd)
    \/ Filling("cwd", "start", "cwd", NoCwd)
    \/ Gone /\ Error("cwd")

\* gopsutil may answer with the time it noted.
ReadStart ==
    \/ Filling("start", "uids", "born", info.born)
    \/ ~Gone /\ Filling("start", "uids", "born", table[target].born)
    \/ Error("start")

ReadUids ==
    \/ ~Gone /\ Filling("uids", "env", "user", table[target].user)
    \/ Error("uids")

\* sysctl refuses the arguments of another user's process.
ReadEnv ==
    IF expired \/ Gone THEN Error("env")
    ELSE \/ ~Mine(target) /\ Filling("env", "done", "env", <<>>)
         \/ /\ Mine(target)
            /\ \E args \in Procargs(table[target].image) :
                 Filling("env", "done", "env", parseProcargs(args))
         \/ Error("env")

Inspect ==
    \/ NewProcess \/ ReadArgv \/ ReadCmdline \/ ReadCwd \/ ReadStart \/ ReadUids \/ ReadEnv

Next == \/ ScanNext /\ UNCHANGED insVars
        \/ BeginInspect \/ Inspect

Spec == Init /\ [][Next]_vars

-----------------------------------------------------------------------------
(* Properties *)

TypeOK ==
    /\ ScanTypeOK
    /\ pc \in {"idle", "pids.size", "pids.fill", "loop", "fd.size", "fd.fill", "lsof",
               "new", "argv", "cmdline", "cwd", "start", "uids", "env", "done"}
    /\ result \in {"none", "libproc", "lsof", "inspector"} \X {"nil", "error"}
    /\ target \in Pids
    /\ DOMAIN info = DOMAIN NoInfo /\ info.born \in 0..MaxChanges /\ info.user \in Users

Plain(image) == image.argv[1] # <<>> /\ \A n \in DOMAIN image.env : image.env[n] # <<>>

\* The environment of an image as readEnv may return it: whole, or none where the
\* kernel withholds it, never a part of it and never an argument; but an empty first
\* argument passes for padding and costs an entry, and an empty entry ends it.
ReadAs(image, env) ==
    IF Plain(image) THEN env \in {image.env, <<>>}
    ELSE \A n \in DOMAIN env : env[n] \in ToSet(image.env)

\* Whatever happens to the pid during the calls, each field of a ProcInfo is that
\* of a process that had the pid meanwhile: all of one process, then, when the pid
\* was one process that ran one program throughout.  A field may be missing without
\* an error (argv, cwd and env are best effort), and argv may be that of the
\* process split at other places.
InspectionIsTrue ==
    pc = "done" /\ result = <<"inspector", "nil">> =>
        LET was == {seen[n][target] : n \in DOMAIN seen} \ {NoProcess}
        IN  /\ info.argv = <<>> \/ \E x \in was : info.argv \in {x.image.argv, splitCmdline(x.image.argv)}
            /\ info.cwd = NoCwd \/ \E x \in was : info.cwd = x.image.cwd
            /\ \E x \in was : info.born = x.born
            /\ \E x \in was : info.user = x.user
            /\ \E x \in was : IF x.user = Me THEN ReadAs(x.image, info.env) ELSE info.env = <<>>

=============================================================================
