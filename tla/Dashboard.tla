----------------------------- MODULE Dashboard -----------------------------
(***************************************************************************)
(* internal/server/mutation_handlers.go: the handlers of POST /kill,       *)
(* /restart and /rename, which join the process manager (extended) and the *)
(* store (what StoreAbs promises; Store implements it).  A kill resolves   *)
(* its port by a scan, inspects the process, has it killed and remembers   *)
(* what it inspected; a rename resolves and inspects alike and labels the  *)
(* program; a restart spawns what a remembered entry names.  All of them   *)
(* run concurrently with each other and with the world.                    *)
(*                                                                         *)
(* Slot k of ProcessManager is the request goroutine k here, and also the  *)
(* spawner k: a slot takes a new kill or restart once its last escalation  *)
(* or child is gone, a bound on how many of them there are.                *)
(***************************************************************************)
EXTENDS ProcessManager, FiniteSetsExt

CONSTANTS
    Ports,           \* the ports of PORT_RANGE
    PortOf,          \* the port each of Apps listens on
    Misread,         \* per app, what an inspection may take it for: the cwd is
                     \* empty, or argv was split from the joined command line
    NoApp,           \* no inspection, or one that failed
    EntryBytes, LabelBytes, MaxStateBytes, \* sizes in state.json, and its limit
    PerKeyRememberedCap, GlobalRememberedCap,
    MaxRequests      \* bound: requests that get past their syntax checks

ASSUME DashboardConstants ==
    /\ Spawners = Slots /\ IsFiniteSet(Slots) /\ IsFiniteSet(Apps)
    /\ PortOf \in [Apps -> Ports]
    /\ Misread \in [Apps -> SUBSET OwnApps]
    /\ NoApp \notin Apps \cup {SelfApp, EmptyApp}
    /\ EntryBytes \subseteq Nat /\ LabelBytes \in Nat /\ MaxStateBytes \in Nat
    /\ PerKeyRememberedCap \in Nat \ {0} /\ GlobalRememberedCap \in Nat \ {0}
    /\ MaxRequests \in Nat

VARIABLES
    hpc, req,          \* per handler: next step, and the request
    tpid, snap,        \* per handler: pid resolved, program inspected
    code,              \* per handler: the last answer
    view, saved, hard, \* the store: in memory, in state.json (see StoreAbs)
    requests,          \* counter for the bound
    asked,             \* history: ports requests named
    born,              \* history: the program each birth runs
    killed,            \* history: SIGTERMs delivered, numbered: to which birth, and
                       \* what the inspection before had read there
    handed             \* history: bytes of all entries and labels the store was given

storeVars == <<view, saved, hard>>
handlerVars == <<hpc, req, tpid, snap, code>>
dashVars == <<pmVars, handlerVars, storeVars, requests, asked, born, killed, handed>>

\* The (cwd, argv) pairs that entries and labels are filed under.
Commands == Apps \cup {EmptyApp}

\* What an inspection of a process that runs a may return.
Readings(a) == {a, EmptyApp} \cup Misread[a]

\* No power failure here: Store checks that.  The limit is what the empty
\* document leaves of it.
S == INSTANCE StoreAbs WITH
    up <- dash = "up", Keys <- Commands,
    Texts <- {"label"}, NoText <- "", Times <- {0}, Ids <- 1..MaxRequests,
    BaseBytes <- 0

NoRequest == [op |-> "none"]
Requests  == [op : {"kill"}, port : Ports] \cup [op : {"restart"}, id : 1..MaxRequests]
             \cup [op : {"rename"}, port : Ports, text : {"label", ""}]

DashInit ==
    /\ Init /\ S!AbsInit
    /\ hpc = [k \in Slots |-> "idle"]
    /\ req = [k \in Slots |-> NoRequest]
    /\ tpid = [k \in Slots |-> NoPid]
    /\ snap = [k \in Slots |-> NoApp]
    /\ code = [k \in Slots |-> 0]
    /\ requests = 0 /\ asked = {}
    /\ born = [b \in 1..MaxBirths |-> NoApp]
    /\ killed = {} /\ handed = 0

HGoto(k, from, to) == hpc[k] = from /\ hpc' = [hpc EXCEPT ![k] = to]
Reply(k, from, status) == HGoto(k, from, "idle") /\ code' = [code EXCEPT ![k] = status]

-----------------------------------------------------------------------------

\* A port that is no number or out of range, a label that is too long or holds a
\* control character, a missing id: answered before anything is looked at.
BadRequest(k) ==
    /\ dash = "up" /\ Reply(k, "idle", 400)
    /\ req' = [req EXCEPT ![k] = NoRequest]
    /\ UNCHANGED <<pmVars, storeVars, tpid, snap, requests, asked, killed, handed>>

Request(k, r) ==
    /\ dash = "up" /\ requests < MaxRequests /\ requests' = requests + 1
    /\ r.op = "kill" => epc[k] = "none" /\ TimeLeft(clock)
    /\ r.op = "restart" => child[k] = NoPid
    /\ HGoto(k, "idle", IF r.op = "restart" THEN "restart" ELSE "resolve")
    /\ req' = [req EXCEPT ![k] = r]
    /\ tpid' = [tpid EXCEPT ![k] = NoPid]
    /\ snap' = [snap EXCEPT ![k] = NoApp]
    /\ code' = [code EXCEPT ![k] = 0]
    /\ asked' = IF r.op = "restart" THEN asked ELSE asked \cup {r.port}
    /\ UNCHANGED <<pmVars, storeVars, killed, handed>>

\* (The variants beside some definitions are plausible slips; no specification
\* uses them.)  The scan reports pids in ascending order; the first on the port is taken.
ListedFirst(on) == Min(on)

resolveAnyPID(port) == Listed

resolvePIDForPort(port) == {p \in Listed : PortOf[os[p].app] = port}

ResolveNotFound(k) ==
    /\ HGoto(k, "resolve", "inspect")
    /\ resolvePIDForPort(req[k].port) = {}
    /\ tpid' = [tpid EXCEPT ![k] = 0]
    /\ UNCHANGED <<pmVars, storeVars, req, snap, code, requests, asked, killed, handed>>

Resolve(k) ==
    LET on == resolvePIDForPort(req[k].port)
    IN  /\ \/ /\ Reply(k, "resolve", 502)              \* the scan failed
              /\ UNCHANGED tpid
           \/ /\ Reply(k, "resolve", 404) /\ on = {}
              /\ UNCHANGED tpid
           \/ /\ HGoto(k, "resolve", "inspect") /\ on # {}
              /\ tpid' = [tpid EXCEPT ![k] = ListedFirst(on)]
              /\ UNCHANGED code
        /\ UNCHANGED <<pmVars, storeVars, req, snap, requests, asked, killed, handed>>

\* What Inspect may return: nothing, or a reading of the program.
Inspect(p) == {NoApp} \cup (IF Live(p) /\ Ours(p) THEN Readings(os[p].app) ELSE {})

InspectTarget(k) ==
    /\ hpc[k] = "inspect"
    /\ snap' \in {[snap EXCEPT ![k] = a] : a \in Inspect(tpid[k])}
    /\ CASE req[k].op = "kill" -> HGoto(k, "inspect", "kill") /\ UNCHANGED code
         [] snap'[k] = NoApp -> Reply(k, "inspect", 502)
         [] OTHER -> HGoto(k, "inspect", "label") /\ UNCHANGED code
    /\ UNCHANGED <<pmVars, storeVars, req, tpid, requests, asked, killed, handed>>

CallKill(k) ==
    /\ HGoto(k, "kill", "killing")
    /\ Kill(k, tpid[k])
    /\ UNCHANGED <<storeVars, req, tpid, snap, code, requests, asked, killed, handed>>

KillReturnsNil(k) ==
    /\ kpc[k] = "idle" /\ kres[k] = "nil"
    /\ IF snap[k] = NoApp
       THEN Reply(k, "killing", 200)
       ELSE HGoto(k, "killing", "remember") /\ UNCHANGED code
    /\ UNCHANGED <<pmVars, storeVars, req, tpid, snap, requests, asked, killed, handed>>

KillReturnsWhatever(k) ==
    /\ kpc[k] = "idle"
    /\ IF snap[k] = NoApp
       THEN Reply(k, "killing", 200)
       ELSE HGoto(k, "killing", "remember") /\ UNCHANGED code
    /\ UNCHANGED <<pmVars, storeVars, req, tpid, snap, requests, asked, killed, handed>>

KillReturns(k) ==
    /\ kpc[k] = "idle"
    /\ CASE kres[k] = "ErrSelfPID" -> Reply(k, "killing", 403)
         [] kres[k] \in {"error", "ErrUnknownPID"} -> Reply(k, "killing", 500)
         [] kres[k] = "nil" /\ snap[k] = NoApp -> Reply(k, "killing", 200)
         [] OTHER -> HGoto(k, "killing", "remember") /\ UNCHANGED code
    /\ UNCHANGED <<pmVars, storeVars, req, tpid, snap, requests, asked, killed, handed>>

\* Entries are numbered in the order they are remembered.
NextId == 1 + Max({0} \cup {e.id : e \in view.remembered})

\* A call of the store: only one that succeeds reaches the file.
StoreCall(call, ok) ==
    /\ UNCHANGED pmVars
    /\ S!Put(call)
    /\ \A e \in view'.remembered \ view.remembered : e.id = NextId
    /\ IF ok THEN saved' = view' ELSE UNCHANGED saved

\* The answer does not depend on Remember's.
RememberKilled(k) ==
    /\ Reply(k, "remember", 200)
    /\ \E ok \in BOOLEAN, bytes \in EntryBytes :
         /\ StoreCall([op |-> "Remember", key |-> snap[k], bytes |-> bytes], ok)
         /\ handed' = handed + bytes
    /\ UNCHANGED <<req, tpid, snap, requests, asked, killed>>

SetLabel(k) ==
    /\ \E ok \in BOOLEAN :
         /\ Reply(k, "label", IF ok THEN 200 ELSE 500)
         /\ StoreCall([op |-> "SetLabel", key |-> snap[k], text |-> req[k].text], ok)
    /\ handed' = IF req[k].text = "" THEN handed ELSE handed + LabelBytes
    /\ UNCHANGED <<req, tpid, snap, requests, asked, killed>>

RestartAnything(k) ==
    /\ HGoto(k, "restart", "spawning")
    /\ \E a \in Apps : SpawnDetached(k, a)
    /\ UNCHANGED <<storeVars, req, tpid, snap, code, requests, asked, killed, handed>>

\* FindRemembered; the entry stays where it is.
Restart(k) ==
    /\ \/ /\ HGoto(k, "restart", "spawning") /\ UNCHANGED code
          /\ \E e \in view.remembered : e.id = req[k].id /\ SpawnDetached(k, e.key)
       \/ /\ Reply(k, "restart", 404) /\ UNCHANGED pmVars
          /\ \A e \in view.remembered : e.id # req[k].id
    /\ UNCHANGED <<storeVars, req, tpid, snap, requests, asked, killed, handed>>

RestartReturns(k) ==
    /\ Reply(k, "spawning", 500) /\ spc[k] = "idle"      \* ErrEmptyCommand
    /\ UNCHANGED <<pmVars, storeVars, req, tpid, snap, requests, asked, killed, handed>>

Spawning(k) ==
    /\ SpawnStep(k)
    /\ IF spc'[k] # "idle" THEN UNCHANGED <<hpc, code>>
       ELSE Reply(k, "spawning", IF child'[k] = NoPid THEN 500 ELSE 202)
    /\ UNCHANGED <<storeVars, req, tpid, snap, requests, asked, killed, handed>>

-----------------------------------------------------------------------------

Killing(k) ==
    /\ KillStep(k)
    /\ killed' = killed \cup
         IF kpc[k] = "signal" /\ kres'[k] = "nil"
         THEN {[n |-> Cardinality(killed) + 1, birth |-> os[kpid[k]].birth, as |-> snap[k]]}
         ELSE {}
    /\ UNCHANGED <<handlerVars, storeVars, requests, asked, handed>>

\* What happens beside the requests.  Bound: the clock leaves time for the kills
\* in progress.
Beside(step) ==
    /\ step
    /\ (\E k \in Slots : req[k].op = "kill" /\ hpc[k] # "idle") => TimeLeft(clock')
    /\ UNCHANGED <<handlerVars, storeVars, requests, asked, killed, handed>>

Elsewhere == Beside(World) \/ \E k \in Slots : Beside(Escalate(k)) \/ Beside(reap(k))

\* The process ends, in the middle of a request or not.
Exits ==
    /\ Shutdown
    /\ S!Stop /\ UNCHANGED <<saved, hard>>
    /\ hpc' = [k \in Slots |-> "idle"] /\ code' = [k \in Slots |-> 0]
    /\ req' = [k \in Slots |-> NoRequest]
    /\ tpid' = [k \in Slots |-> NoPid] /\ snap' = [k \in Slots |-> NoApp]
    /\ UNCHANGED <<requests, asked, killed, handed>>

Handle(k) ==
    \/ Resolve(k) \/ InspectTarget(k) \/ CallKill(k) \/ KillReturns(k)
    \/ RememberKilled(k) \/ SetLabel(k)
    \/ Restart(k) \/ Spawning(k) \/ RestartReturns(k)

Record ==
    born' = [b \in 1..MaxBirths |->
               IF \E p \in Pids : os'[p] # NoProcess /\ os'[p].birth = b
               THEN (CHOOSE x \in {os'[p] : p \in Pids} : x # NoProcess /\ x.birth = b).app
               ELSE born[b]]

DashNext ==
    /\ \/ \E k \in Slots : BadRequest(k) \/ (\E r \in Requests : Request(k, r))
                           \/ Handle(k) \/ Killing(k)
       \/ Elsewhere \/ Exits
    /\ Record

DashSpec == DashInit /\ [][DashNext]_dashVars

\* Request goroutines are scheduled; scans, inspections and file operations
\* end, by themselves or by the request's budget; time passes, and the goroutines
\* that escalate and reap are scheduled too.  Nothing obliges a process to start,
\* bind or exit, or a client to ask for anything.
DashFairness ==
    /\ WF_dashVars(Beside(Tick) /\ Record)
    /\ \A k \in Slots :
         /\ WF_dashVars(Handle(k) /\ Record) /\ WF_dashVars(Killing(k) /\ Record)
         /\ WF_dashVars(Beside(Escalate(k)) /\ Record) /\ WF_dashVars(Beside(reap(k)) /\ Record)

DashFairSpec == DashSpec /\ DashFairness

-----------------------------------------------------------------------------
(* Properties *)

DashTypeOK ==
    /\ TypeOK
    /\ hpc \in [Slots -> {"idle", "resolve", "inspect", "kill", "killing", "remember",
                          "label", "restart", "spawning"}]
    /\ req \in [Slots -> Requests \cup {NoRequest}]
    /\ tpid \in [Slots -> Pids \cup {NoPid}]
    /\ snap \in [Slots -> Commands \cup {NoApp}]
    /\ code \in [Slots -> {0, 200, 202, 400, 403, 404, 500, 502}]
    /\ view \in S!persisted /\ saved \in S!persisted /\ hard \in S!persisted
    /\ requests \in 0..MaxRequests
    /\ asked \in SUBSET Ports
    /\ born \in [1..MaxBirths -> Apps \cup {NoApp}]
    /\ killed \in SUBSET [n : 1..MaxRequests, birth : 1..MaxBirths, as : Commands \cup {NoApp}]
    /\ handed \in Nat

Entries(a) == {e \in view.remembered \cup saved.remembered : e.key = a}

\* The SIGTERMs delivered to processes that a was read from, rightly or not.
Paid(a) == {t \in killed : t.as = a /\ a \in Readings(born[t.birth])}

\* "If the kill fails ... a remembered row would be a phantom", and "moves row to
\* `remembered`" (.tenet/spec/2026-04-17-port-manager.md:79): however requests for
\* one port overlap, whatever fails and whatever inspections misread, a command
\* has at most as many remembered entries, in memory or on disk, as SIGTERMs were
\* delivered to processes it was read from; and a kill that answers 200 has its
\* entry in memory, if the inspection succeeded, whether or not the write did,
\* unless the list is full of what more kills than that have left, or all that
\* the store was ever given, labels included, is too much for the file.
EntriesMatchKills ==
    /\ \A a \in Commands : Cardinality(Entries(a)) <= Cardinality(Paid(a))
    /\ \A k \in Slots :
        req[k].op = "kill" /\ hpc[k] = "idle" /\ code[k] = 200 /\ snap[k] # NoApp
            => \/ \E e \in view.remembered : e.key = snap[k]
               \/ /\ Cardinality(killed) > GlobalRememberedCap
                  /\ Cardinality(view.remembered) = GlobalRememberedCap
               \/ handed > MaxStateBytes

\* What a request does, it does to the port it names: every process signalled,
\* at once or after the grace window, listens on a port that some request named,
\* and every command remembered or labelled was read from one that does, though
\* pids are resolved, inspected, verified and signalled at four different moments.
ActsOnAskedPorts ==
    /\ \A s \in sigs : born[s.birth] \in Apps /\ PortOf[born[s.birth]] \in asked
    /\ \A a \in Commands :
         (Entries(a) # {} \/ \E l \in view.labels \cup saved.labels : l.key = a)
            => \E x \in Apps : a \in Readings(x) /\ PortOf[x] \in asked

\* "Caller-supplied cwd or argv is not accepted": the dashboard starts only what
\* an inspection read from a process that got a SIGTERM after it.  That need not
\* be what the process ran: a lost cwd or a badly split argv is started as it was
\* read, and may never have run before.
ChildrenWereKilled ==
    \A k \in Slots : child[k] # NoPid => Paid(os[child[k]].app) # {}

\* Every request is answered (or the dashboard ends), whatever fails under it.
RequestsAnswered == \A k \in Slots : hpc[k] # "idle" ~> hpc[k] = "idle"

=============================================================================
