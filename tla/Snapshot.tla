----------------------------- MODULE Snapshot -----------------------------
(***************************************************************************)
(* The ports page.  GET /ports, /ports.json and the fragment that ends a   *)
(* mutation all run buildSnapshot: a scan, then BuildViewModels, which     *)
(* inspects the listeners in goroutines of their own, MaxParallelInspect   *)
(* at a time, and looks each label up in the store.  If the request's      *)
(* budget lasted, the rows go to the one cache that requests fall back on  *)
(* when theirs did not.  Requests overlap freely: a lock covers only one   *)
(* look into the cache or the store.                                       *)
(*                                                                         *)
(* A pid listens on one port, its own.  The identity a label hangs on (cwd *)
(* and argv) is a program; one that is read without its cwd, or with argv  *)
(* split at other places, passes for another.  A row whose inspection failed says whether it  *)
(* Failed or was Cut short by ctx: the page shows both alike, the          *)
(* properties tell them apart.                                             *)
(***************************************************************************)
EXTENDS Integers, FiniteSets

CONSTANTS
    Handlers,            \* requests in flight at a time
    Pids, Apps, Labels,
    Misread,             \* per program, what else an inspection may take it for
    NoApp,               \* nothing listens with this pid
    Failed, Cut,         \* instead of a program: not inspected; no time was left
    NoRows,              \* the nil slice
    MaxParallelInspect,
    MaxChanges,          \* bound: programs that start, exit or take over a pid
    MaxRenames,          \* bound: labels set
    MaxRequests          \* bound: requests made

ASSUME SnapshotConstants ==
    /\ Pids \subseteq Nat /\ IsFiniteSet(Pids)
    /\ MaxParallelInspect \in Nat \ {0}
    /\ {MaxChanges, MaxRenames, MaxRequests} \subseteq Nat
    /\ {NoApp, Failed, Cut} \cap Apps = {} /\ Failed # Cut
    /\ Misread \in [Apps -> SUBSET Apps]

NoLabel == "no label"
Names == Labels \cup {NoLabel}

VARIABLES
    runs,        \* per pid: the program that listens
    labels,      \* the store: per program, its label
    pc,          \* per handler: next step
    ctxErr,      \* per handler: ctx.Err()
    todo,        \* per handler: listeners the loop has not reached
    sem,         \* per handler: slots taken in the semaphore
    insp,        \* per handler: pids whose goroutine has not inspected yet
    found,       \* per handler: inspected, label not looked up yet
    rows,        \* per handler: rows built, or about to be rendered
    scanError,   \* per handler: the X-Scan-Error header
    cache,       \* snapshotCache.rows
    left,        \* what remains of the bounds
    held,        \* history, per request: what each pid was while it was built
    meant,       \* history, per request: the labels each program had meanwhile
    hadCache,    \* history, per request: the cache was filled when it began
    lost         \* history, per request: listeners that its scan left out

world == <<runs, labels>>
build == <<todo, sem, insp, found>>
history == <<held, meant, hadCache, lost>>
vars == <<world, pc, ctxErr, build, rows, scanError, cache, left, history>>

Row == [pid : Pids, app : Apps \cup {Failed, Cut}, label : Names]
Listening == {p \in Pids : runs[p] # NoApp}
Readings(a) == {a} \cup Misread[a]

\* BuildViewModels returns a slice that it made, even with no rows in it.
ASSUME NilIsNoTable == \A table \in SUBSET Row : table # NoRows

\* A request that failed needs no history.
NoneHeld == [p \in Pids |-> {}]
NoneMeant == [a \in Apps |-> {}]
Building(h) == pc[h] \in {"scan", "build"}

Init ==
    /\ runs \in [Pids -> Apps \cup {NoApp}]
    /\ labels = [a \in Apps |-> NoLabel]
    /\ pc = [h \in Handlers |-> "idle"]
    /\ ctxErr = [h \in Handlers |-> "nil"]
    /\ todo = [h \in Handlers |-> {}] /\ sem = [h \in Handlers |-> 0]
    /\ insp = [h \in Handlers |-> {}] /\ found = [h \in Handlers |-> {}]
    /\ rows = [h \in Handlers |-> NoRows]
    /\ scanError = [h \in Handlers |-> "none"]
    /\ cache = NoRows
    /\ left = [changes |-> MaxChanges, renames |-> MaxRenames, requests |-> MaxRequests]
    /\ held = [h \in Handlers |-> NoneHeld] /\ meant = [h \in Handlers |-> NoneMeant]
    /\ hadCache = [h \in Handlers |-> FALSE] /\ lost = [h \in Handlers |-> {}]

Goto(h, from, to) == pc[h] = from /\ pc' = [pc EXCEPT ![h] = to]

-----------------------------------------------------------------------------
(* The world: programs start, exit and take over a pid, at any moment *)

Change ==
    /\ left.changes > 0 /\ left' = [left EXCEPT !.changes = @ - 1]
    /\ \E p \in Pids, a \in Apps \cup {NoApp} :
         /\ runs[p] # a
         /\ runs' = [runs EXCEPT ![p] = a]
         /\ held' = [h \in Handlers |->
                       IF Building(h) THEN [held[h] EXCEPT ![p] = @ \cup {a}] ELSE held[h]]
    /\ UNCHANGED <<labels, pc, ctxErr, build, rows, scanError, cache, meant, hadCache, lost>>

\* The scan budget runs out, or the client hangs up.
Expire(h) ==
    /\ Building(h) /\ ctxErr[h] = "nil"
    /\ \E e \in {"deadline", "canceled"} : ctxErr' = [ctxErr EXCEPT ![h] = e]
    /\ UNCHANGED <<world, pc, build, rows, scanError, cache, left, history>>

-----------------------------------------------------------------------------
(* A request up to its scan.  (The variants beside some definitions are    *)
(* plausible slips; no specification uses them.)                           *)

Begin(h) ==
    /\ left.requests > 0
    /\ Goto(h, "idle", "scan")
    /\ rows' = [rows EXCEPT ![h] = NoRows]
    /\ scanError' = [scanError EXCEPT ![h] = "none"]
    /\ held' = [held EXCEPT ![h] = [p \in Pids |-> {runs[p]}]]
    /\ hadCache' = [hadCache EXCEPT ![h] = cache # NoRows]
    /\ lost' = [lost EXCEPT ![h] = {}]
    /\ UNCHANGED <<runs, ctxErr, build, cache>>

Poll(h) ==
    /\ Begin(h)
    /\ meant' = [meant EXCEPT ![h] = [a \in Apps |-> {labels[a]}]]
    /\ left' = [left EXCEPT !.requests = @ - 1]
    /\ UNCHANGED labels

\* A rename from its SetLabel on, with the fragment that answers it; how it came
\* by the program is Dashboard's.  Everyone else sees the label from here on.
Rename(h) ==
    /\ Begin(h)
    /\ left.renames > 0
    /\ left' = [left EXCEPT !.requests = @ - 1, !.renames = @ - 1]
    /\ \E a \in Apps : \E l \in Names \ {labels[a]} :      \* else it is a Poll
         /\ labels' = [labels EXCEPT ![a] = l]
         /\ meant' = [g \in Handlers |->
              CASE g = h -> [b \in Apps |-> {labels'[b]}]
                [] g # h /\ Building(g) -> [meant[g] EXCEPT ![a] = @ \cup {l}]
                [] OTHER -> meant[g]]

FailsCanceled(h, from) ==
    /\ Goto(h, from, "fallback")
    /\ scanError' = [scanError EXCEPT ![h] = IF ctxErr[h] = "nil" THEN "error" ELSE ctxErr[h]]
    /\ ctxErr' = [ctxErr EXCEPT ![h] = "nil"]
    /\ held' = [held EXCEPT ![h] = NoneHeld] /\ meant' = [meant EXCEPT ![h] = NoneMeant]
    /\ UNCHANGED <<world, build, rows, cache, left, hadCache, lost>>

\* buildSnapshot returned an error; its context ended with it.
Fails(h, from) ==
    /\ Goto(h, from, "fallback")
    /\ scanError' = [scanError EXCEPT ![h] = IF ctxErr[h] = "deadline" THEN "timeout" ELSE "error"]
    /\ ctxErr' = [ctxErr EXCEPT ![h] = "nil"]
    /\ held' = [held EXCEPT ![h] = NoneHeld] /\ meant' = [meant EXCEPT ![h] = NoneMeant]
    /\ UNCHANGED <<world, build, rows, cache, left, hadCache, lost>>

\* A scan may fail for reasons of its own; it always does once its time is up.
ScanFails(h) == Fails(h, "scan")

ScanCached(h) ==
    /\ Goto(h, "scan", "build") /\ ctxErr[h] = "nil"
    /\ todo' = [todo EXCEPT ![h] = IF cache = NoRows THEN Listening ELSE {r.pid : r \in cache}]
    /\ rows' = [rows EXCEPT ![h] = {}]
    /\ UNCHANGED <<world, ctxErr, sem, insp, found, scanError, cache, left, history>>

\* What listens; or less, when lsof failed half way and its output passes for good.
Scan(h) ==
    /\ Goto(h, "scan", "build") /\ ctxErr[h] = "nil"
    /\ todo' \in {[todo EXCEPT ![h] = listed] : listed \in SUBSET Listening}
    /\ lost' = [lost EXCEPT ![h] = Listening \ todo'[h]]
    /\ rows' = [rows EXCEPT ![h] = {}]
    /\ UNCHANGED <<world, ctxErr, sem, insp, found, scanError, cache, left, held, meant, hadCache>>

-----------------------------------------------------------------------------
(* BuildViewModels *)

\* The loop takes a slot of the semaphore (it waits for one with no look at ctx)
\* and starts a goroutine, in the order of the ports.  (Its skip of the dashboard's
\* own pid finds nothing to skip: the scan leaves that out.)
Dispatch(h) ==
    /\ pc[h] = "build" /\ sem[h] < MaxParallelInspect
    /\ sem' = [sem EXCEPT ![h] = @ + 1]
    /\ \E p \in todo[h] :
         /\ \A q \in todo[h] : p <= q
         /\ todo' = [todo EXCEPT ![h] = @ \ {p}]
         /\ insp' = [insp EXCEPT ![h] = @ \cup {p}]
    /\ UNCHANGED <<world, pc, ctxErr, found, rows, scanError, cache, left, history>>

BareRowKeepsSlot(h, p, why) ==
    /\ rows' = [rows EXCEPT ![h] = @ \cup {[pid |-> p, app |-> why, label |-> NoLabel]}]
    /\ UNCHANGED <<found, sem>>

\* buildOne's early return, with its deferred release of the slot.
BareRow(h, p, why) ==
    /\ rows' = [rows EXCEPT ![h] = @ \cup {[pid |-> p, app |-> why, label |-> NoLabel]}]
    /\ sem' = [sem EXCEPT ![h] = @ - 1]
    /\ UNCHANGED found

\* Inspect looks at ctx first, then at whatever process has the pid by now; a
\* system call may fail on one that is there, too.  (One step: that a pid may change
\* hands between the calls, and the fields be of two processes, is Inspector's.)
Inspect(h, p) ==
    /\ p \in insp[h] /\ insp' = [insp EXCEPT ![h] = @ \ {p}]
    /\ \/ ctxErr[h] # "nil" /\ BareRow(h, p, Cut)
       \/ ctxErr[h] = "nil" /\ BareRow(h, p, Failed)
       \/ /\ ctxErr[h] = "nil" /\ runs[p] # NoApp
          /\ \E a \in Readings(runs[p]) :
               found' = [found EXCEPT ![h] = @ \cup {[pid |-> p, app |-> a]}]
          /\ UNCHANGED <<rows, sem>>
    /\ UNCHANGED <<world, pc, ctxErr, todo, scanError, cache, left, history>>

\* st.Label, under the store's lock.
Label(h, f) ==
    /\ f \in found[h] /\ found' = [found EXCEPT ![h] = @ \ {f}]
    /\ rows' = [rows EXCEPT ![h] = @ \cup {[pid |-> f.pid, app |-> f.app, label |-> labels[f.app]]}]
    /\ sem' = [sem EXCEPT ![h] = @ - 1]
    /\ UNCHANGED <<world, pc, ctxErr, todo, insp, scanError, cache, left, history>>

\* wg.Wait, then buildSnapshot's look at ctx.
Built(h) == pc[h] = "build" /\ todo[h] = {} /\ insp[h] = {} /\ found[h] = {}

JoinUnchecked(h) ==
    /\ Built(h) /\ Goto(h, "build", "set")
    /\ UNCHANGED <<world, ctxErr, build, rows, scanError, cache, left, history>>

Join(h) ==
    /\ Built(h) /\ ctxErr[h] = "nil" /\ Goto(h, "build", "set")
    /\ UNCHANGED <<world, ctxErr, build, rows, scanError, cache, left, history>>

JoinFails(h) == Built(h) /\ ctxErr[h] # "nil" /\ Fails(h, "build")

-----------------------------------------------------------------------------
(* The cache, and the answer *)

Set(h) ==
    /\ Goto(h, "set", "idle")
    /\ cache' = rows[h]
    /\ UNCHANGED <<world, ctxErr, build, rows, scanError, left, history>>

FallbackPartial(h) ==
    /\ Goto(h, "fallback", "idle")
    /\ UNCHANGED <<world, ctxErr, build, rows, scanError, cache, left, history>>

\* Get: the rows of the failed build, if any, are dropped.
Fallback(h) ==
    /\ Goto(h, "fallback", "idle")
    /\ rows' = [rows EXCEPT ![h] = cache]
    /\ UNCHANGED <<world, ctxErr, build, scanError, cache, left, history>>

-----------------------------------------------------------------------------

Worker(h) == (\E p \in insp[h] : Inspect(h, p)) \/ (\E f \in found[h] : Label(h, f))

Handle(h) == \/ Scan(h) \/ ScanFails(h) \/ Dispatch(h) \/ Join(h) \/ JoinFails(h)
             \/ Set(h) \/ Fallback(h)

Next == \/ Change
        \/ \E h \in Handlers : Poll(h) \/ Rename(h) \/ Expire(h) \/ Handle(h) \/ Worker(h)

Spec == Init /\ [][Next]_vars

-----------------------------------------------------------------------------
(* Properties *)

TypeOK ==
    /\ runs \in [Pids -> Apps \cup {NoApp}] /\ labels \in [Apps -> Names]
    /\ pc \in [Handlers -> {"idle", "scan", "build", "set", "fallback"}]
    /\ ctxErr \in [Handlers -> {"nil", "deadline", "canceled"}]
    /\ todo \in [Handlers -> SUBSET Pids] /\ insp \in [Handlers -> SUBSET Pids]
    /\ sem \in [Handlers -> 0..MaxParallelInspect]
    /\ \A h \in Handlers : found[h] \subseteq [pid : Pids, app : Apps]
    /\ \A h \in Handlers : rows[h] = NoRows \/ rows[h] \subseteq Row
    /\ scanError \in [Handlers -> {"none", "timeout", "error"}]
    /\ cache = NoRows \/ cache \subseteq Row
    /\ lost \in [Handlers -> SUBSET Pids]
    /\ left \in [changes : 0..MaxChanges, renames : 0..MaxRenames, requests : 0..MaxRequests]

Answered(h) == pc[h] = "idle" /\ (rows[h] # NoRows \/ scanError[h] # "none")
Unmarked(h) == Answered(h) /\ scanError[h] = "none"

\* An answer without X-Scan-Error leaves nothing out but what lsof did: a program
\* that listened while it was built and was listed has exactly one row, with a label that what was
\* read of it had meanwhile unless it could not be inspected; and the answer to a
\* rename knows that rename, whatever polls store in the cache beside it.
UnmarkedIsComplete ==
    \A h \in Handlers : Unmarked(h) =>
        \A p \in Pids \ lost[h], a \in Apps : held[h][p] = {a} =>
            \E r \in rows[h] :
                /\ {q \in rows[h] : q.pid = p} = {r}
                /\ (r.app \in Readings(a) /\ r.label \in meant[h][r.app]) \/ r.app = Failed

\* Nor does it make anything up: a row is of a pid that listened, names what may be
\* read of a program that this pid was and a label filed under that while the answer
\* was built, and does not leave them out for want of time.  (A reading without its
\* cwd may be that of two programs, and show the label of the other.)
UnmarkedIsTrue ==
    \A h \in Handlers : Unmarked(h) =>
        \A r \in rows[h] :
            /\ held[h][r.pid] # {NoApp} /\ r.app # Cut
            /\ r.app # Failed =>
                 /\ \E a \in held[h][r.pid] \ {NoApp} : r.app \in Readings(a)
                 /\ r.label \in meant[h][r.app]

\* "A timeout can return last-known-good data instead of a blank UI": a request
\* that fails after some request had succeeded still shows rows, and rows an
\* exhausted budget left half done are never shown or cached.
FailureShowsLastGood ==
    LET Whole(R) == \A r \in R : r.app # Cut
    IN  /\ cache # NoRows => Whole(cache)
        /\ \A h \in Handlers : Answered(h) =>
             /\ hadCache[h] => rows[h] # NoRows
             /\ rows[h] # NoRows => Whole(rows[h])

\* The loop, which waits for a slot, the handler, which waits for the goroutines,
\* and the goroutines never wait in a circle: as long as something is left to do,
\* some step of the build can do it, whether budget is left or not.
NobodyWaitsForEver ==
    \A h \in Handlers : pc[h] = "build" /\ ~Built(h) =>
        \/ insp[h] # {} \/ found[h] # {}
        \/ todo[h] # {} /\ sem[h] < MaxParallelInspect

=============================================================================
