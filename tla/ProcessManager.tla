-------------------------- MODULE ProcessManager --------------------------
(***************************************************************************)
(* internal/process/process.go over a process table.  Kill checks its      *)
(* target against a fresh scan, sends SIGTERM and starts a goroutine that, *)
(* KillGrace later, sends SIGKILL to the same pid if it still answers      *)
(* signal 0.  SpawnDetached starts a remembered command in a session of    *)
(* its own and a goroutine that reaps it.  Between any two of these steps  *)
(* processes start, bind, exit and, when PidsAreReused, take over a pid.   *)
(***************************************************************************)
EXTENDS Integers, FiniteSets

CONSTANTS
    Pids,            \* process identifiers
    SelfPid,         \* the dashboard's own
    SelfApp,         \* the dashboard as a program
    Apps,            \* the other programs: one (cwd, argv) each
    EmptyApp,        \* a remembered entry whose command is empty
    OwnApps,         \* the apps that run under the dashboard's uid
    ListenApps,      \* the apps that bind a TCP port inside PORT_RANGE
    Slots,           \* concurrent callers of Kill, one escalation each
    Spawners,        \* concurrent callers of SpawnDetached, one child each
    NoPid, NoProcess,
    Grace,           \* KillGrace, in clock ticks
    PidsAreReused,   \* environment assumption
    MaxBirths,       \* bound: processes ever started
    MaxClock         \* bound: clock ticks

ASSUME ProcessConstants ==
    /\ Pids \subseteq Nat /\ SelfPid \in Pids /\ SelfPid > 1
    /\ NoPid \notin Pids
    /\ SelfApp \notin Apps /\ EmptyApp \notin Apps \cup {SelfApp}
    /\ OwnApps \subseteq Apps /\ ListenApps \subseteq Apps
    /\ Grace \in Nat
    /\ PidsAreReused \in BOOLEAN
    /\ MaxBirths \in Nat /\ MaxClock \in Nat

VARIABLES
    dash,            \* "up" until the dashboard exits
    os,              \* the process table
    births, clock,
    kpc, kpid, kres, \* Kill: next step, target, result
    epc, epid, due,  \* escalate: next step, target, end of the sleep
    spc, sapp, fds,  \* SpawnDetached: next step, command, /dev/null fds held
    child,           \* the pid a reaper waits for
    sigs,            \* history: signals delivered
    listed           \* history: births of the processes a verify scan reported

osVars    == <<os, births, clock>>
killVars  == <<kpc, kpid, kres>>
escVars   == <<epc, epid, due>>
spawnVars == <<spc, sapp, fds, child>>
history   == <<sigs, listed>>
pmVars    == <<dash, osVars, killVars, escVars, spawnVars, history>>

\* birth tells apart the processes that hold a pid one after the other.
Process ==
    [app : Apps \cup {SelfApp}, birth : 0..MaxBirths, bound : BOOLEAN, zombie : BOOLEAN,
     parent : {"dashboard", "other"}, session : {"dashboard", "own"}]

\* An empty place of the table is not a process.
ASSUME NoProcessIsNone == NoProcess \notin Process

Exists(p) == os[p] # NoProcess
Live(p)   == Exists(p) /\ ~os[p].zombie
Ours(p)   == Exists(p) /\ os[p].app \in OwnApps \cup {SelfApp}

\* What a scan reports: same-uid listeners in range, never the dashboard.
Listed == {p \in Pids \ {SelfPid} : Live(p) /\ Ours(p) /\ os[p].bound}

Init ==
    /\ dash = "up"
    /\ os = [p \in Pids |->
               IF p # SelfPid THEN NoProcess
               ELSE [app |-> SelfApp, birth |-> 0, bound |-> TRUE, zombie |-> FALSE,
                     parent |-> "other", session |-> "dashboard"]]
    /\ births = 0 /\ clock = 0
    /\ kpc = [k \in Slots |-> "idle"]
    /\ kpid = [k \in Slots |-> NoPid]
    /\ kres = [k \in Slots |-> "none"]
    /\ epc = [k \in Slots |-> "none"]
    /\ epid = [k \in Slots |-> NoPid]
    /\ due = [k \in Slots |-> 0]
    /\ spc = [s \in Spawners |-> "idle"]
    /\ sapp = [s \in Spawners |-> EmptyApp]
    /\ fds = [s \in Spawners |-> {}]
    /\ child = [s \in Spawners |-> NoPid]
    /\ sigs = {} /\ listed = {}

-----------------------------------------------------------------------------
(* The operating system *)

Fresh(p) ==
    /\ os[p] = NoProcess /\ p > 1
    /\ births < MaxBirths
    /\ PidsAreReused \/ p = SelfPid + births + 1    \* the kernel counts up

Put(p, app, parent, session) ==
    /\ births' = births + 1
    /\ os' = [os EXCEPT ![p] = [app |-> app, birth |-> births + 1, bound |-> FALSE,
                                zombie |-> FALSE, parent |-> parent, session |-> session]]

\* The table after p exits: a child stays a zombie until its parent waits.
Gone(table, p) ==
    [table EXCEPT ![p] = IF table[p].parent = "dashboard"
                         THEN [table[p] EXCEPT !.zombie = TRUE, !.bound = FALSE]
                         ELSE NoProcess]

Start(p) ==
    /\ Fresh(p)
    /\ \E a \in Apps : Put(p, a, "other", "own")
    /\ UNCHANGED <<dash, clock, killVars, escVars, spawnVars, history>>

Bind(p) ==
    /\ Live(p) /\ ~os[p].bound /\ os[p].app \in ListenApps
    /\ os' = [os EXCEPT ![p].bound = TRUE]
    /\ UNCHANGED <<dash, births, clock, killVars, escVars, spawnVars, history>>

Exit(p) ==
    /\ Live(p) /\ p # SelfPid
    /\ os' = Gone(os, p)
    /\ UNCHANGED <<dash, births, clock, killVars, escVars, spawnVars, history>>

\* Bound: a sleep that starts now ends before the clock does.
TimeLeft(t) == t + Grace <= MaxClock

Tick ==
    /\ clock < MaxClock
    /\ (\A k \in Slots : kpc[k] = "idle") \/ TimeLeft(clock + 1)
    /\ clock' = clock + 1
    /\ UNCHANGED <<dash, os, births, killVars, escVars, spawnVars, history>>

\* kill(2) reaches p: it exists and belongs to the same user.
Deliverable(p) == Ours(p)

Deliver(sig, p) ==
    sigs' = sigs \cup {[sig |-> sig, pid |-> p, birth |-> os[p].birth, at |-> clock]}

-----------------------------------------------------------------------------
(* Kill *)

KillGoto(k, from, to) == kpc[k] = from /\ kpc' = [kpc EXCEPT ![k] = to]
KillAnswer(k, r) == kres' = [kres EXCEPT ![k] = r]

\* (The variants beside some definitions are plausible slips; no specification
\* uses them.)
GuardedInitOnly(p) == p <= 1

Guarded(p) == p = SelfPid \/ p <= 1

\* A call; the two guards answer before any scan or signal.
Kill(k, p) ==
    /\ dash = "up" /\ epc[k] = "none" /\ TimeLeft(clock)
    /\ kpid' = [kpid EXCEPT ![k] = p]
    /\ IF Guarded(p)
       THEN /\ KillGoto(k, "idle", "idle")
            /\ KillAnswer(k, IF p = SelfPid THEN "ErrSelfPID" ELSE "ErrUnknownPID")
       ELSE KillGoto(k, "idle", "verify") /\ KillAnswer(k, "none")
    /\ UNCHANGED <<dash, osVars, escVars, spawnVars, history>>

SkipVerify(k) ==
    /\ KillGoto(k, "verify", "signal")
    /\ UNCHANGED <<dash, osVars, kpid, kres, escVars, spawnVars, history>>

\* The scan may fail or run out of the request's budget.
verifyLive(k) ==
    /\ \/ /\ kpid[k] \in Listed
          /\ KillGoto(k, "verify", "signal") /\ UNCHANGED kres
          /\ listed' = listed \cup {[pid |-> kpid[k], birth |-> os[kpid[k]].birth]}
       \/ /\ kpid[k] \notin Listed
          /\ KillGoto(k, "verify", "idle") /\ KillAnswer(k, "ErrUnknownPID")
          /\ UNCHANGED listed
       \/ /\ KillGoto(k, "verify", "idle") /\ KillAnswer(k, "error")
          /\ UNCHANGED listed
    /\ UNCHANGED <<dash, osVars, kpid, escVars, spawnVars, sigs>>

SigTermLate(k) ==
    /\ KillGoto(k, "signal", "idle")
    /\ Deliverable(kpid[k]) /\ Deliver("SIGTERM", kpid[k])
    /\ KillAnswer(k, "nil")
    /\ epc' = [epc EXCEPT ![k] = "sleep"]
    /\ epid' = [epid EXCEPT ![k] = kpid[k]]
    /\ due' = [due EXCEPT ![k] = clock + Grace + 1]
    /\ UNCHANGED <<dash, osVars, kpid, spawnVars, listed>>

SigTerm(k) ==
    /\ KillGoto(k, "signal", "idle")
    /\ IF Deliverable(kpid[k])
       THEN /\ Deliver("SIGTERM", kpid[k])
            /\ KillAnswer(k, "nil")
            /\ epc' = [epc EXCEPT ![k] = "sleep"]
            /\ epid' = [epid EXCEPT ![k] = kpid[k]]
            /\ due' = [due EXCEPT ![k] = clock + Grace]
       ELSE KillAnswer(k, "error") /\ UNCHANGED <<escVars, sigs>>
    /\ UNCHANGED <<dash, osVars, kpid, spawnVars, listed>>

-----------------------------------------------------------------------------
(* escalate *)

WakeEarly(k) ==
    /\ epc[k] = "sleep"
    /\ epc' = [epc EXCEPT ![k] = IF Deliverable(epid[k]) THEN "kill" ELSE "none"]
    /\ UNCHANGED <<dash, osVars, killVars, epid, due, spawnVars, history>>

\* The sleep ends; isAlive: signal 0 also reaches a zombie.
Wake(k) ==
    /\ epc[k] = "sleep" /\ clock >= due[k]
    /\ epc' = [epc EXCEPT ![k] = IF Deliverable(epid[k]) THEN "kill" ELSE "none"]
    /\ UNCHANGED <<dash, osVars, killVars, epid, due, spawnVars, history>>

SigKillNothing(k) ==
    /\ epc[k] = "kill"
    /\ epc' = [epc EXCEPT ![k] = "none"]
    /\ UNCHANGED <<dash, osVars, killVars, epid, due, spawnVars, history>>

SigKill(k) ==
    /\ epc[k] = "kill"
    /\ epc' = [epc EXCEPT ![k] = "none"]
    /\ IF Deliverable(epid[k])
       THEN /\ Deliver("SIGKILL", epid[k])
            /\ os' = IF Live(epid[k]) THEN Gone(os, epid[k]) ELSE os
       ELSE UNCHANGED <<os, sigs>>
    /\ UNCHANGED <<dash, births, clock, killVars, epid, due, spawnVars, listed>>

-----------------------------------------------------------------------------
(* SpawnDetached and reap *)

SpawnGoto(s, from, to) == spc[s] = from /\ spc' = [spc EXCEPT ![s] = to]

SpawnDetached(s, app) ==
    /\ dash = "up" /\ child[s] = NoPid
    /\ sapp' = [sapp EXCEPT ![s] = app]
    /\ SpawnGoto(s, "idle", IF app = EmptyApp THEN "idle" ELSE "openR")
    /\ UNCHANGED <<dash, osVars, killVars, escVars, fds, child, history>>

OpenDevNullR(s) ==
    /\ \/ SpawnGoto(s, "openR", "openW") /\ fds' = [fds EXCEPT ![s] = {"r"}]
       \/ SpawnGoto(s, "openR", "idle") /\ UNCHANGED fds
    /\ UNCHANGED <<dash, osVars, killVars, escVars, sapp, child, history>>

OpenDevNullW(s) ==
    /\ \/ SpawnGoto(s, "openW", "start") /\ fds' = [fds EXCEPT ![s] = {"r", "w"}]
       \/ SpawnGoto(s, "openW", "idle") /\ fds' = [fds EXCEPT ![s] = {}]
    /\ UNCHANGED <<dash, osVars, killVars, escVars, sapp, child, history>>

StartFailsLeaking(s) ==
    /\ SpawnGoto(s, "start", "idle")
    /\ UNCHANGED <<dash, osVars, killVars, escVars, sapp, fds, child, history>>

StartFails(s) ==
    /\ SpawnGoto(s, "start", "idle")
    /\ fds' = [fds EXCEPT ![s] = {}]
    /\ UNCHANGED <<dash, osVars, killVars, escVars, sapp, child, history>>

StartChildInSession(s, p) ==
    /\ SpawnGoto(s, "start", "idle")
    /\ Fresh(p) /\ Put(p, sapp[s], "dashboard", "dashboard")
    /\ child' = [child EXCEPT ![s] = p]
    /\ UNCHANGED <<dash, clock, killVars, escVars, sapp, fds, history>>

StartChildUnreaped(s, p) ==
    /\ SpawnGoto(s, "start", "idle")
    /\ Fresh(p) /\ Put(p, sapp[s], "dashboard", "own")
    /\ fds' = [fds EXCEPT ![s] = {}]
    /\ UNCHANGED <<dash, clock, killVars, escVars, sapp, child, history>>

\* Setsid: the child leads a session and a process group of its own.
StartChild(s, p) ==
    /\ SpawnGoto(s, "start", "idle")
    /\ Fresh(p) /\ Put(p, sapp[s], "dashboard", "own")
    /\ child' = [child EXCEPT ![s] = p]
    /\ UNCHANGED <<dash, clock, killVars, escVars, sapp, fds, history>>

reap(s) ==
    /\ child[s] # NoPid /\ os[child[s]].zombie
    /\ os' = [os EXCEPT ![child[s]] = NoProcess]
    /\ child' = [child EXCEPT ![s] = NoPid]
    /\ fds' = [fds EXCEPT ![s] = {}]
    /\ UNCHANGED <<dash, births, clock, killVars, escVars, spc, sapp, history>>

-----------------------------------------------------------------------------
(* The dashboard stops: its goroutines and fds are gone, init inherits its  *)
(* children.  A terminal interrupt also reaches everything in its session.  *)

Shutdown ==
    /\ dash = "up" /\ dash' = "down"
    /\ os' = [p \in Pids |->
                IF ~Exists(p) \/ p = SelfPid THEN NoProcess
                ELSE IF os[p].parent = "dashboard"
                        /\ (os[p].zombie \/ os[p].session = "dashboard")
                THEN NoProcess
                ELSE [os[p] EXCEPT !.parent = "other"]]
    /\ kpc' = [k \in Slots |-> "idle"] /\ epc' = [k \in Slots |-> "none"]
    /\ spc' = [s \in Spawners |-> "idle"]
    /\ fds' = [s \in Spawners |-> {}] /\ child' = [s \in Spawners |-> NoPid]
    /\ UNCHANGED <<births, clock, kpid, kres, epid, due, sapp, history>>

-----------------------------------------------------------------------------

World == (\E p \in Pids : Start(p) \/ Bind(p) \/ Exit(p)) \/ Tick

KillStep(k) == verifyLive(k) \/ SigTerm(k)
Escalate(k) == Wake(k) \/ SigKill(k)
SpawnStep(s) == OpenDevNullR(s) \/ OpenDevNullW(s) \/ StartFails(s)
                \/ \E p \in Pids : StartChild(s, p)

Next ==
    \/ World
    \/ \E k \in Slots : (\E p \in Pids : Kill(k, p)) \/ KillStep(k) \/ Escalate(k)
    \/ \E s \in Spawners :
         \/ \E a \in Apps \cup {EmptyApp} : SpawnDetached(s, a)
         \/ SpawnStep(s) \/ reap(s)
    \/ Shutdown

Spec == Init /\ [][Next]_pmVars

-----------------------------------------------------------------------------
(* Properties *)

Signals == [sig : {"SIGTERM", "SIGKILL"}, pid : Pids, birth : 0..MaxBirths, at : 0..MaxClock]

TypeOK ==
    /\ dash \in {"up", "down"}
    /\ os \in [Pids -> Process \cup {NoProcess}]
    /\ births \in 0..MaxBirths /\ clock \in 0..MaxClock
    /\ kpc \in [Slots -> {"idle", "verify", "signal"}]
    /\ kpid \in [Slots -> Pids \cup {NoPid}]
    /\ kres \in [Slots -> {"none", "nil", "error", "ErrSelfPID", "ErrUnknownPID"}]
    /\ epc \in [Slots -> {"none", "sleep", "kill"}]
    /\ epid \in [Slots -> Pids \cup {NoPid}]
    /\ due \in [Slots -> 0..MaxClock]
    /\ spc \in [Spawners -> {"idle", "openR", "openW", "start"}]
    /\ sapp \in [Spawners -> Apps \cup {EmptyApp}]
    /\ fds \in [Spawners -> SUBSET {"r", "w"}]
    /\ child \in [Spawners -> Pids \cup {NoPid}]
    /\ sigs \in SUBSET Signals
    /\ listed \in SUBSET [pid : Pids, birth : 0..MaxBirths]

\* Iron Law 1, "two guards, not one": neither the dashboard nor init is ever
\* signalled, at once or after the grace window, and neither gets as far as the
\* scan that would refuse it as well.
SelfIsNeverTargeted ==
    LET Untouchable == {SelfPid} \cup {p \in Pids : p <= 1}
    IN  /\ \A k \in Slots :
             /\ kpc[k] # "idle" => kpid[k] \notin Untouchable
             /\ epc[k] # "none" => epid[k] \notin Untouchable
        /\ \A s \in sigs : s.pid \notin Untouchable

\* SIGKILL is an escalation: a pid gets one only when Kill sent it SIGTERM a
\* whole grace window earlier, however long the goroutine was descheduled and
\* whoever else is being killed meanwhile.
KillOnlyAfterGrace ==
    \A s \in sigs : s.sig = "SIGKILL" =>
        \E t \in sigs : /\ t.sig = "SIGTERM" /\ t.pid = s.pid
                       /\ t.at + Grace <= s.at

\* SIGTERM goes out only for a pid that a verify scan listed, and what is not
\* checked is the instant between scan and signal: the signalled process was
\* listed, or took the pid over from one that was.
TermFollowsScan ==
    \A s \in sigs : s.sig = "SIGTERM" =>
        \E l \in listed : l.pid = s.pid /\ l.birth <= s.birth

\* Every /dev/null descriptor SpawnDetached opens is closed: it belongs to a
\* start in progress or to a child that was not reaped yet.
FdsFollowChildren ==
    \A s \in Spawners :
        /\ spc[s] = "idle" /\ child[s] = NoPid => fds[s] = {}
        /\ child[s] # NoPid => /\ fds[s] = {"r", "w"}
                              /\ Exists(child[s]) /\ os[child[s]].parent = "dashboard"

\* Iron rule "restart spawns with detached pgid": a running child is not
\* disturbed by the dashboard's end, not even by a terminal interrupt.
ChildrenOutliveDashboard ==
    [][dash' # dash =>
         \A p \in Pids : Live(p) /\ p # SelfPid
             => Live(p)' /\ os'[p].birth = os[p].birth]_pmVars

\* Spec criterion 4, "kill escalates": a process that SIGTERM was delivered to
\* ends, if only by SIGKILL, unless the dashboard goes down first.
TermedGoesAway ==
    \A p \in Pids, b \in 1..MaxBirths :
        (\E s \in sigs : s.sig = "SIGTERM" /\ s.pid = p /\ s.birth = b)
            ~> (dash = "down" \/ ~(Live(p) /\ os[p].birth = b))

\* "Every exec.Cmd MUST .Wait() or be reaped": no zombie stays.
ZombiesAreReaped == \A p \in Pids : (Exists(p) /\ os[p].zombie) ~> ~Exists(p)

\* "No process is killed by the dashboard unless the scanner snapshot lists it"
\* (.tenet/harness/current.md:49): whatever gets SIGKILL was itself reported by
\* a verify scan.
KilledWasListed == \A s \in sigs : s.sig = "SIGKILL" =>
        [pid |-> s.pid, birth |-> s.birth] \in listed

=============================================================================
