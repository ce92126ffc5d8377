------------------------------ MODULE Scanner ------------------------------
(***************************************************************************)
(* internal/scanner over a process table that other programs change at any *)
(* moment.  libproc walks the table one system call at a time: the pids    *)
(* (their number, then the list), each one's user, its descriptors (their  *)
(* number, then the list) and each socket.  lsof is a program that walks   *)
(* it, prints tagged lines and may fail or be killed on the way; Scan      *)
(* parses what it printed.  A scanner remembers nothing: a behaviour is one *)
(* scan of some table.                                                     *)
(*                                                                         *)
(* Torn output of lsof may end inside a line.  Only half a line of a node  *)
(* says something, and something else: a port with fewer digits.           *)
(***************************************************************************)
EXTENDS Integers, Sequences, FiniteSets, SequencesExt

CONSTANTS
    Pids, Self,          \* pids, and os.Getpid()
    Fds, Users, Me,      \* descriptor numbers; users, and os.Getuid()
    Images,              \* what a process runs: argv, cwd and environment
    Sockets,             \* listening sockets a process may open: port and host
    Closed, File,        \* a descriptor that is not open, or no socket
    NoProcess,
    PortMin, PortMax,
    PidSlack, FdSlack,   \* spare slots in the buffers of the two lists
    FirstTables,         \* process tables a first call may find
    MaxChanges           \* bound: steps of other programs

ASSUME ScannerConstants ==
    /\ Pids \subseteq Nat \ {0} /\ IsFiniteSet(Pids) /\ IsFiniteSet(Fds)
    /\ Self \in Pids /\ Me \in Users
    /\ Sockets \subseteq [port : Nat, host : STRING] /\ \A s \in Sockets : s.host # "*"
    /\ Closed \notin Sockets \cup {File} /\ File \notin Sockets
    /\ {PidSlack, FdSlack, MaxChanges} \subseteq Nat

VARIABLES
    seen,        \* the process tables since the call began, the present one last
    changes,     \* how many steps of other programs there were
    pc,
    expired,     \* ctx is done
    size,        \* slots of the buffer about to be filled
    pids,        \* pids not looked at yet
    cur, fds,    \* the pid looked at, and its sockets not looked at yet
    lines,       \* what lsof has printed
    partial,     \* history: lsof left a process out, or was killed
    rows,        \* the addresses found
    result       \* "nil" or "error", the scanner in front; of no use before "done"

worldVars == <<seen, changes>>
walkVars  == <<size, pids, cur, fds, lines, partial, rows>>
scanVars  == <<worldVars, pc, expired, walkVars, result>>

Entries == Sockets \cup {Closed, File}
Process == [born : 0..MaxChanges, user : Users, image : Images, fds : [Fds -> Entries]]
Table   == [Pids -> Process \cup {NoProcess}]

\* What is left of a port whose last digits are missing.
Cuts(port) == {port \div 10, port \div 100, port \div 1000, port \div 10000} \ {0}

Address == [pid : Pids, port : UNION {{s.port} \cup Cuts(s.port) : s \in Sockets},
            host : {s.host : s \in Sockets} \cup {"0.0.0.0"}]

ASSUME ScannerTables ==
    /\ NoProcess \notin Process
    /\ FirstTables \subseteq Table

table == Last(seen)
Alive == {p \in Pids : table[p] # NoProcess}
Open(p) == {f \in Fds : table[p].fds[f] # Closed}

\* The kernel tells a user about the user's own processes.
Mine(p) == table[p] # NoProcess /\ table[p].user = Me

ScanInit ==
    /\ seen \in {<<t>> : t \in FirstTables}
    /\ changes = 0
    /\ pc = "idle" /\ expired = FALSE
    /\ size = 0 /\ pids = {} /\ cur = Self /\ fds = {}
    /\ lines = <<>> /\ partial = FALSE
    /\ rows = {} /\ result = <<"none", "nil">>

Goto(from, to) == pc = from /\ pc' = to

-----------------------------------------------------------------------------
(* Other programs *)

\* A process is forked (with the descriptors of its parent), runs another program
\* or exits; it opens a descriptor or closes one.
Fork(p) ==
    {[parent EXCEPT !.born = changes + 1] : parent \in {table[q] : q \in Alive \ {Self}}}
        \cup [born : {changes + 1}, user : Users, image : Images, fds : {[f \in Fds |-> Closed]}]

Successors(p) ==
    IF table[p] = NoProcess THEN Fork(p)
    ELSE {NoProcess} \cup {[table[p] EXCEPT !.image = i] : i \in Images}
           \cup {[table[p] EXCEPT !.fds[f] = e] : f \in Open(p), e \in {Closed}}
           \cup {[table[p] EXCEPT !.fds[f] = e] : f \in Fds \ Open(p), e \in Entries}

\* (What changes before a call or after it is of no interest here.)
Change ==
    /\ changes < MaxChanges /\ pc \notin {"idle", "done"}
    /\ \E p \in Pids \ {Self} : \E new \in Successors(p) \ {table[p]} :
         seen' = Append(seen, [table EXCEPT ![p] = new])
    /\ changes' = changes + 1
    /\ UNCHANGED <<pc, expired, walkVars, result>>

\* scanBudget, or the caller's ctx.
Expire ==
    /\ pc \notin {"idle", "done"} /\ ~expired /\ expired' = TRUE
    /\ UNCHANGED <<worldVars, pc, walkVars, result>>

-----------------------------------------------------------------------------
(* libproc.  (The variants beside some definitions are plausible slips; no  *)
(* specification uses them.)                                                *)

Fail(who) ==
    /\ pc' = "done" /\ result' = <<who, "error">> /\ rows' = {}
    /\ UNCHANGED <<worldVars, expired, size, pids, cur, fds, lines, partial>>

BeginLibproc ==
    \/ /\ Goto("idle", "pids.size")
       /\ result' = <<"libproc", "nil">>
       /\ UNCHANGED <<worldVars, expired, walkVars>>
    \/ pc = "idle" /\ Fail("libproc")   \* the caller's ctx is done

SlotsInBytes(n, slack) == 4 * n + slack
SlotsExact(n, slack) == n

Slots(n, slack) == n + slack

\* A list that is longer than its buffer is cut.
Fits(S) == Cardinality(S) <= size
Lists(S) == IF Fits(S) THEN {S} ELSE {T \in SUBSET S : Cardinality(T) = size}

ListSize ==
    \/ /\ Goto("pids.size", "pids.fill")
       /\ size' = Slots(Cardinality(Alive), PidSlack)
       /\ UNCHANGED <<worldVars, expired, pids, cur, fds, lines, partial, rows, result>>
    \/ pc = "pids.size" /\ Fail("libproc")

ListFill ==
    \/ /\ Goto("pids.fill", "loop")
       /\ pids' \in Lists(Alive)
       /\ UNCHANGED <<worldVars, expired, size, cur, fds, lines, partial, rows, result>>
    \/ pc = "pids.fill" /\ Fail("libproc")

\* ctx, the skip of the own pid, and pm_get_bsd_uid.
NextPid ==
    /\ pc = "loop" /\ fds = {} /\ pids # {}
    /\ IF expired THEN Fail("libproc")
       ELSE \E p \in pids :
              /\ pids' = pids \ {p}
              /\ IF p # Self /\ Mine(p) THEN pc' = "fd.size" /\ cur' = p
                                        ELSE UNCHANGED <<pc, cur>>
              /\ UNCHANGED <<worldVars, expired, size, fds, lines, partial, rows, result>>

FdSize ==
    /\ pc = "fd.size"
    /\ IF Mine(cur) /\ Open(cur) # {}
       THEN pc' = "fd.fill" /\ size' = Slots(Cardinality(Open(cur)), FdSlack)
       ELSE pc' = "loop" /\ UNCHANGED size
    /\ UNCHANGED <<worldVars, expired, pids, cur, fds, lines, partial, rows, result>>

\* PROX_FDTYPE_SOCKET is looked at in the list.
FdFill ==
    /\ Goto("fd.fill", "loop")
    /\ IF ~Mine(cur) THEN UNCHANGED fds
       ELSE \E L \in Lists(Open(cur)) : fds' = {f \in L : table[cur].fds[f] # File}
    /\ UNCHANGED <<worldVars, expired, size, pids, cur, lines, partial, rows, result>>

InRange(port) == PortMin <= port /\ port <= PortMax

AddressOf(p, f) == [pid |-> p, port |-> table[p].fds[f].port, host |-> table[p].fds[f].host]

InspectFdAnyPort(f) ==
    IF Mine(cur) /\ table[cur].fds[f] \in Sockets THEN {AddressOf(cur, f)} ELSE {}

\* pm_inspect_fd looks at what the descriptor is by now.
InspectFd(f) ==
    IF Mine(cur) /\ table[cur].fds[f] \in Sockets /\ InRange(table[cur].fds[f].port)
    THEN {AddressOf(cur, f)} ELSE {}

NextFd ==
    /\ pc = "loop"
    /\ \E f \in fds : fds' = fds \ {f} /\ rows' = rows \cup InspectFd(f)
    /\ UNCHANGED <<worldVars, pc, expired, size, pids, cur, lines, partial, result>>

EndLibproc ==
    /\ Goto("loop", "done") /\ fds = {} /\ pids = {}
    /\ UNCHANGED <<worldVars, expired, walkVars, result>>

-----------------------------------------------------------------------------
(* lsof *)

BeginLsof ==
    \/ /\ Goto("idle", "lsof")
       /\ pids' = Alive /\ result' = <<"lsof", "nil">>
       /\ UNCHANGED <<worldVars, expired, size, cur, fds, lines, partial, rows>>
    \/ pc = "idle" /\ Fail("lsof")      \* likewise, or no such program

\* The program: -u own user, -iTCP -sTCP:LISTEN, numeric; it names both wildcard
\* addresses alike.  It may fail to look into a process (-b).
Node(s) == [host |-> IF s.host \in {"0.0.0.0", "::"} THEN "*" ELSE s.host, port |-> s.port]

Report(p) ==
    LET open == {f \in Open(p) : table[p].fds[f] \in Sockets}
        file(f) == << <<"f", f>>, <<"P", "TCP">>, <<"n", Node(table[p].fds[f])>> >>
    IN  IF open = {} THEN <<>>
        ELSE << <<"p", p>> >> \o FoldSet(LAMBDA f, out : file(f) \o out, <<>>, open)

Probe ==
    /\ pc = "lsof"
    /\ \E p \in pids :
         /\ pids' = pids \ {p}
         /\ \/ lines' = lines \o (IF Mine(p) THEN Report(p) ELSE <<>>) /\ UNCHANGED partial
            \/ UNCHANGED lines /\ partial' = TRUE
    /\ UNCHANGED <<worldVars, pc, expired, size, cur, fds, rows, result>>

\* "*" is the IPv4 wildcard.
splitHostPort(node) == [node EXCEPT !.host = IF @ = "*" THEN "0.0.0.0" ELSE @]

parseLine(line, acc) ==
    CASE line[1] = "p" -> [acc EXCEPT !.pid = line[2], !.proto = ""]
      [] line[1] = "P" -> [acc EXCEPT !.proto = line[2]]
      [] line[1] = "n" ->
            LET at == splitHostPort(line[2])
            IN  IF acc.pid \in {0, Self} \/ acc.proto # "TCP" \/ ~InRange(at.port) THEN acc
                ELSE [acc EXCEPT !.rows = @ \cup {[pid |-> acc.pid, port |-> at.port, host |-> at.host]}]
      [] OTHER -> acc

parseLsofF(data) ==
    FoldLeft(LAMBDA acc, line : parseLine(line, acc),
             [pid |-> 0, proto |-> "", rows |-> {}], data).rows

\* Exit code 1: nothing matched, or a process could not be looked into.  lsof may
\* give up (2) or be killed by a signal, for which ExitCode is -1, at any point.
Codes == IF pids = {} THEN {IF partial \/ lines = <<>> THEN 1 ELSE 0, 2, -1} ELSE {2, -1}

Halves(line) ==
    IF line[1] # "n" THEN {}
    ELSE {<<"n", [line[2] EXCEPT !.port = port]>> : port \in Cuts(line[2].port)}

\* What had arrived: all of it, or some lines and perhaps half of the next.
Outputs(exit) ==
    IF exit \in {0, 1} THEN {lines}
    ELSE {SubSeq(lines, 1, n) : n \in 0 .. Len(lines)}
           \cup UNION {{Append(SubSeq(lines, 1, n - 1), half) : half \in Halves(lines[n])}
                         : n \in 1 .. Len(lines)}

EndLsof ==
    /\ pc = "lsof"
    /\ IF expired THEN Fail("lsof")
       ELSE \E exit \in Codes : \E out \in Outputs(exit) :
              LET listeners == parseLsofF(out)
              IN  IF exit > 1 /\ listeners = {} THEN Fail("lsof")
                  ELSE /\ pc' = "done" /\ rows' = listeners
                       /\ partial' = (partial \/ exit \notin {0, 1})
                       /\ UNCHANGED <<worldVars, expired, size, pids, cur, fds, lines, result>>

-----------------------------------------------------------------------------

ScanNext ==
    \/ Change \/ Expire
    \/ BeginLibproc \/ ListSize \/ ListFill \/ NextPid \/ FdSize \/ FdFill \/ NextFd \/ EndLibproc
    \/ BeginLsof \/ Probe \/ EndLsof

-----------------------------------------------------------------------------
(* Properties *)

ScanTypeOK ==
    /\ \A n \in DOMAIN seen : seen[n] \in Table
    /\ changes \in 0..MaxChanges /\ Len(seen) <= MaxChanges + 1
    /\ expired \in BOOLEAN /\ partial \in BOOLEAN
    /\ size \in 0 .. Cardinality(Pids) + Cardinality(Fds) + PidSlack + FdSlack
    /\ pids \subseteq Pids /\ cur \in Pids /\ fds \subseteq Fds
    /\ rows \subseteq Address

Scanned == pc = "done" /\ result \in {<<"libproc", "nil">>, <<"lsof", "nil">>}

\* The socket an address stands for; lsof does not tell the wildcards apart, and an
\* lsof that gave up or was killed may have named the first digits of a port only.
Shows(addr, s) ==
    /\ addr.port = s.port \/ (result[1] = "lsof" /\ partial /\ addr.port \in Cuts(s.port))
    /\ addr.host = s.host \/ (result[1] = "lsof" /\ addr.host = "0.0.0.0" /\ s.host = "::")

\* A scan makes nothing up although the table changes under it: every address it
\* returns was listened on, in the range, by a process of this user with that pid,
\* at some moment of the scan, and that process is not the dashboard.  (But the last
\* port of an lsof that failed may be the beginning of one that was listened on.)
RowsAreTrue ==
    Scanned => \A addr \in rows :
        /\ addr.pid # Self /\ InRange(addr.port)
        /\ \E n \in DOMAIN seen :
             /\ seen[n][addr.pid] # NoProcess /\ seen[n][addr.pid].user = Me
             /\ \E f \in Fds : seen[n][addr.pid].fds[f] \in {s \in Sockets : Shows(addr, s)}

\* Processes born, and descriptors a process opened, during the call.
BornAt(p, n) ==
    /\ seen[n][p] # NoProcess
    /\ seen[n - 1][p] = NoProcess \/ seen[n - 1][p].born # seen[n][p].born
OpenedAt(p, f, n) ==
    /\ seen[n][p] # NoProcess /\ seen[n - 1][p] # NoProcess
    /\ seen[n][p].fds[f] # Closed /\ seen[n - 1][p].fds[f] = Closed

Births    == {b \in Pids \X (2 .. Len(seen)) : BornAt(b[1], b[2])}
Opened(p) == {o \in Fds \X (2 .. Len(seen)) : OpenedAt(p, o[1], o[2])}

\* Nor does it miss what was there all the time ("new pids spawned between the two
\* calls don't truncate the result", libproc_darwin.go:241): a socket that one
\* process of this user had open throughout is in the result, if not more processes
\* were born and descriptors opened meanwhile than there are spare slots, or if
\* lsof got to see every process.
NothingMissed ==
    Scanned /\ ~partial
    /\ (result[1] = "libproc" =>
          Cardinality(Births) <= PidSlack /\ \A p \in Pids : Cardinality(Opened(p)) <= FdSlack)
        => \A p \in Pids \ {Self}, f \in Fds, s \in Sockets :
             /\ InRange(s.port)
             /\ \A n \in DOMAIN seen :
                  /\ seen[n][p] # NoProcess /\ seen[n][p].user = Me
                  /\ seen[n][p].fds[f] = s /\ seen[n][p].born = seen[1][p].born
             => \E addr \in rows : addr.pid = p /\ Shows(addr, s)

=============================================================================
