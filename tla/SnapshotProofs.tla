-------------------------- MODULE SnapshotProofs --------------------------
(***************************************************************************)
(* What a request for the ports page is answered with, for every number    *)
(* of requests, pids, programs and inspection slots.                       *)
(***************************************************************************)
EXTENDS Snapshot, FiniteSetTheorems, TLAPS

(***************************************************************************)
(* The domains of what the requests write, beside TypeOK's.                *)
(***************************************************************************)
Shape ==
    /\ todo \in [Handlers -> SUBSET Pids] /\ insp \in [Handlers -> SUBSET Pids]
    /\ found \in [Handlers -> SUBSET [pid : Pids, app : Apps]]
    /\ rows \in [Handlers -> {NoRows} \cup SUBSET Row]
    /\ pc \in [Handlers -> {"idle", "scan", "build", "set", "fallback"}]
    /\ ctxErr \in [Handlers -> {"nil", "deadline", "canceled"}]
    /\ scanError \in [Handlers -> {"none", "timeout", "error"}]
    /\ cache \in {NoRows} \cup SUBSET Row
    /\ runs \in [Pids -> Apps \cup {NoApp}] /\ labels \in [Apps -> Names]
    /\ lost \in [Handlers -> SUBSET Pids]

HistoryShape ==
    /\ held \in [Handlers -> [Pids -> SUBSET (Apps \cup {NoApp})]]
    /\ meant \in [Handlers -> [Apps -> SUBSET Names]]
    /\ hadCache \in [Handlers -> BOOLEAN]

(***************************************************************************)
(* A build's goroutines: outside the build there are none, each holds one  *)
(* slot, and no listener is in two places: waiting for the loop, for its   *)
(* inspection, for its label, or in a row.                                 *)
(***************************************************************************)
NoJobs(h) == todo[h] = {} /\ insp[h] = {} /\ found[h] = {}

OneEach(h) ==
    /\ todo[h] \cap insp[h] = {}
    /\ \A f \in found[h] : f.pid \notin todo[h] \cup insp[h]
    /\ \A r \in rows[h] : r.pid \notin todo[h] \cup insp[h]
    /\ \A f \in found[h], r \in rows[h] : f.pid # r.pid
    /\ \A f, g \in found[h] : f.pid = g.pid => f = g
    /\ \A r, s \in rows[h] : r.pid = s.pid => r = s

Jobs(h) ==
    /\ pc[h] # "build" => NoJobs(h)
    /\ IsFiniteSet(insp[h]) /\ IsFiniteSet(found[h])
    /\ sem[h] = Cardinality(insp[h]) + Cardinality(found[h])
    /\ pc[h] \in {"build", "set"} => rows[h] # NoRows /\ OneEach(h)

(***************************************************************************)
(* The history of a request is the truth about the time it was built in:   *)
(* as long as it is, what is now is in it.                                 *)
(***************************************************************************)
ReadOf(h, p, a) == \E x \in Apps : x \in held[h][p] /\ a \in Readings(x)

Witnessed(h) ==
    /\ Building(h) => /\ \A p \in Pids : runs[p] \in held[h][p]
                      /\ \A a \in Apps : labels[a] \in meant[h][a]
    /\ \A f \in found[h] : ReadOf(h, f.pid, f.app)

\* The rows of a request that are under way to become its answer, or are it.
Good(h) == pc[h] \in {"build", "set"} \/ Unmarked(h)

TrueRow(h, r) == r.app \in Apps => ReadOf(h, r.pid, r.app) /\ r.label \in meant[h][r.app]

Covered(h, p) ==
    \/ p \in todo[h] \cup insp[h]
    \/ \E f \in found[h] : f.pid = p
    \/ \E r \in rows[h] : r.pid = p

\* It covers every listener that listened all the time and was listed, and no pid that
\* never did.
True(h) ==
    Good(h) =>
      /\ \A r \in rows[h] : TrueRow(h, r)
      /\ \A r, s \in rows[h] : r.pid = s.pid => r = s
      /\ \A p \in Pids : Covered(h, p) => \E a \in Apps : a \in held[h][p]
      /\ \A p \in Pids \ lost[h], a \in Apps : held[h][p] = {a} => Covered(h, p)

(***************************************************************************)
(* Rows cut short are neither cached nor answered with: they are there     *)
(* only once the budget is gone, and then the build fails.                 *)
(***************************************************************************)
Whole(R) == \A r \in R : r.app # Cut

Served(h) ==
    /\ hadCache[h] => cache # NoRows
    /\ Answered(h) /\ hadCache[h] => rows[h] # NoRows
    /\ pc[h] \in {"idle", "set"} /\ rows[h] # NoRows => Whole(rows[h])
    /\ pc[h] = "build" /\ ctxErr[h] = "nil" => Whole(rows[h])
    /\ pc[h] \in {"scan", "build", "set"} => scanError[h] = "none"
    /\ pc[h] = "fallback" => scanError[h] # "none"

LastGood == (cache # NoRows => Whole(cache)) /\ \A h \in Handlers : Served(h)

(***************************************************************************)
(* A step is one of these.                                                 *)
(***************************************************************************)
LEMMA Steps ==
    ASSUME [Next]_vars,
           NEW P,
           UNCHANGED vars => P,
           Change => P,
           \A h \in Handlers : Poll(h) \/ Rename(h) => P,
           \A h \in Handlers : Expire(h) => P,
           \A h \in Handlers : Scan(h) => P,
           \A h \in Handlers : ScanFails(h) \/ JoinFails(h) => P,
           \A h \in Handlers : Dispatch(h) => P,
           \A h \in Handlers : Join(h) => P,
           \A h \in Handlers : Set(h) => P,
           \A h \in Handlers : Fallback(h) => P,
           \A h \in Handlers, p \in Pids : Inspect(h, p) => P,
           \A h \in Handlers : (\E f \in found[h] : Label(h, f)) => P,
           Shape
    PROVE  P
  BY DEF Next, Handle, Worker, Shape

(***************************************************************************)
(* Every step keeps the domains.                                           *)
(***************************************************************************)
LEMMA ShapeInductive == Shape /\ (\A h \in Handlers : Jobs(h)) /\ [Next]_vars => Shape'
<1> SUFFICES ASSUME Shape, \A h \in Handlers : Jobs(h), [Next]_vars PROVE Shape'
  OBVIOUS
<1> USE DEF Shape, Goto, world, build, history
<1>1. ASSUME UNCHANGED vars  PROVE Shape'
  BY <1>1 DEF vars
<1>2. ASSUME Change  PROVE Shape'
  BY <1>2 DEF Change
<1>3. ASSUME NEW h \in Handlers, Poll(h) \/ Rename(h)  PROVE Shape'
  BY <1>3 DEF Poll, Rename, Begin, Names
<1>4. ASSUME NEW h \in Handlers, Expire(h)  PROVE Shape'
  BY <1>4 DEF Expire
<1>5. ASSUME NEW h \in Handlers, Scan(h)  PROVE Shape'
  BY <1>5 DEF Scan, Listening
<1>6. ASSUME NEW h \in Handlers, ScanFails(h) \/ JoinFails(h)  PROVE Shape'
  BY <1>6 DEF ScanFails, JoinFails, Fails
<1>7. ASSUME NEW h \in Handlers, Dispatch(h)  PROVE Shape'
  BY <1>7 DEF Dispatch
<1>8. ASSUME NEW h \in Handlers, Join(h)  PROVE Shape'
  BY <1>8 DEF Join
<1>9. ASSUME NEW h \in Handlers, Set(h)  PROVE Shape'
  BY <1>9 DEF Set
<1>10. ASSUME NEW h \in Handlers, Fallback(h)  PROVE Shape'
  BY <1>10 DEF Fallback
<1>11. ASSUME NEW h \in Handlers, NEW p \in Pids, Inspect(h, p)  PROVE Shape'
  <2>1. rows[h] \in SUBSET Row
    BY <1>11 DEF Inspect, Jobs, NoJobs
  <2>2. runs[p] # NoApp => Readings(runs[p]) \subseteq Apps
    BY SnapshotConstants DEF Readings
  <2> QED
    BY <1>11, <2>1, <2>2 DEF Inspect, BareRow, Row, Names
<1>12. ASSUME NEW h \in Handlers, \E f \in found[h] : Label(h, f)  PROVE Shape'
  <2>1. rows[h] \in SUBSET Row
    BY <1>12 DEF Jobs, NoJobs
  <2> QED
    BY <1>12, <2>1 DEF Label, Row, Names
<1> QED
  BY <1>1, <1>2, <1>3, <1>4, <1>5, <1>6, <1>7, <1>8, <1>9, <1>10, <1>11, <1>12, Steps

(***************************************************************************)
(* Jobs(g) reads nothing but what the request g builds.                    *)
(***************************************************************************)
LEMMA JobsFrame ==
    ASSUME NEW g \in Handlers, Jobs(g),
           pc'[g] = pc[g], todo'[g] = todo[g], insp'[g] = insp[g], found'[g] = found[g],
           sem'[g] = sem[g], rows'[g] = rows[g]
    PROVE  Jobs(g)'
  BY DEF Jobs, NoJobs, OneEach

(***************************************************************************)
(* A job more or less.                                                     *)
(***************************************************************************)
LEMMA OneMore ==
    ASSUME NEW S, IsFiniteSet(S), NEW x, x \notin S, NEW T, T = S \cup {x}
    PROVE  IsFiniteSet(T) /\ Cardinality(T) = Cardinality(S) + 1
<1>1. IsFiniteSet(S \cup {x}) /\ Cardinality(S \cup {x}) = Cardinality(S) + 1
  BY FS_AddElement
<1> QED
  BY <1>1

\* One element less, one less counted.
LEMMA OneLess ==
    ASSUME NEW S, IsFiniteSet(S), NEW x \in S, NEW T, T = S \ {x}
    PROVE  IsFiniteSet(T) /\ Cardinality(T) = Cardinality(S) - 1
<1>1. IsFiniteSet(S \ {x}) /\ Cardinality(S \ {x}) = Cardinality(S) - 1
  BY FS_RemoveElement
<1> QED
  BY <1>1

(***************************************************************************)
(* Every step keeps the books of the builds.                               *)
(***************************************************************************)
LEMMA JobsInductive ==
    Shape /\ sem \in [Handlers -> Int] /\ (\A h \in Handlers : Jobs(h)) /\ [Next]_vars
        => (\A h \in Handlers : Jobs(h))'
<1> SUFFICES ASSUME Shape, sem \in [Handlers -> Int], \A h \in Handlers : Jobs(h), [Next]_vars,
                    NEW g \in Handlers
             PROVE  Jobs(g)'
  OBVIOUS
<1> USE DEF Shape, Goto, world, build, history
<1>1. ASSUME UNCHANGED vars  PROVE Jobs(g)'
  BY <1>1, JobsFrame DEF vars
<1>2. ASSUME Change  PROVE Jobs(g)'
  BY <1>2, JobsFrame DEF Change
<1>3. ASSUME NEW h \in Handlers, Poll(h) \/ Rename(h)  PROVE Jobs(g)'
  <2>1. CASE g = h
    BY <1>3, <2>1 DEF Poll, Rename, Begin, Jobs, NoJobs
  <2>2. CASE g # h
    BY <1>3, <2>2, JobsFrame DEF Poll, Rename, Begin
  <2> QED
    BY <2>1, <2>2
<1>4. ASSUME NEW h \in Handlers, Expire(h)  PROVE Jobs(g)'
  BY <1>4, JobsFrame DEF Expire
<1>5. ASSUME NEW h \in Handlers, Scan(h)  PROVE Jobs(g)'
  <2>1. CASE g = h
    BY <1>5, <2>1, NilIsNoTable DEF Scan, Jobs, NoJobs, OneEach
  <2>2. CASE g # h
    BY <1>5, <2>2, JobsFrame DEF Scan
  <2> QED
    BY <2>1, <2>2
<1>6. ASSUME NEW h \in Handlers, ScanFails(h) \/ JoinFails(h)  PROVE Jobs(g)'
  <2>1. CASE g = h
    BY <1>6, <2>1 DEF ScanFails, JoinFails, Fails, Built, Jobs, NoJobs
  <2>2. CASE g # h
    BY <1>6, <2>2, JobsFrame DEF ScanFails, JoinFails, Fails
  <2> QED
    BY <2>1, <2>2
<1>7. ASSUME NEW h \in Handlers, Dispatch(h)  PROVE Jobs(g)'
  <2>1. CASE g = h
    <3>1. PICK p \in todo[g] : todo'[g] = todo[g] \ {p} /\ insp'[g] = insp[g] \cup {p}
      BY <1>7, <2>1 DEF Dispatch
    <3>2. /\ pc[g] = "build" /\ pc' = pc /\ found' = found /\ rows' = rows
          /\ sem'[g] = sem[g] + 1
      BY <1>7, <2>1 DEF Dispatch
    <3>3. p \notin insp[g] /\ OneEach(g) /\ IsFiniteSet(insp[g])
      BY <3>1, <3>2 DEF Jobs, OneEach
    <3>4. IsFiniteSet(insp'[g]) /\ Cardinality(insp'[g]) = Cardinality(insp[g]) + 1
      BY <3>1, <3>3, OneMore
    <3>5. OneEach(g)'
      BY <3>1, <3>2, <3>3 DEF OneEach
    <3>6. Cardinality(insp[g]) \in Nat /\ Cardinality(found[g]) \in Nat
      BY FS_CardinalityType DEF Jobs
    <3> QED
      BY <3>2, <3>4, <3>5, <3>6 DEF Jobs
  <2>2. CASE g # h
    BY <1>7, <2>2, JobsFrame DEF Dispatch
  <2> QED
    BY <2>1, <2>2
<1>8. ASSUME NEW h \in Handlers, Join(h)  PROVE Jobs(g)'
  <2>1. CASE g = h
    BY <1>8, <2>1 DEF Join, Built, Jobs, NoJobs, OneEach
  <2>2. CASE g # h
    BY <1>8, <2>2, JobsFrame DEF Join
  <2> QED
    BY <2>1, <2>2
<1>9. ASSUME NEW h \in Handlers, Set(h)  PROVE Jobs(g)'
  <2>1. CASE g = h
    BY <1>9, <2>1 DEF Set, Jobs, NoJobs
  <2>2. CASE g # h
    BY <1>9, <2>2, JobsFrame DEF Set
  <2> QED
    BY <2>1, <2>2
<1>10. ASSUME NEW h \in Handlers, Fallback(h)  PROVE Jobs(g)'
  <2>1. CASE g = h
    BY <1>10, <2>1 DEF Fallback, Jobs, NoJobs
  <2>2. CASE g # h
    BY <1>10, <2>2, JobsFrame DEF Fallback
  <2> QED
    BY <2>1, <2>2
<1>11. ASSUME NEW h \in Handlers, NEW p \in Pids, Inspect(h, p)  PROVE Jobs(g)'
  <2>1. CASE g = h
    <3>1. /\ p \in insp[g] /\ insp'[g] = insp[g] \ {p}
          /\ pc' = pc /\ todo' = todo /\ pc[g] = "build"
      BY <1>11, <2>1 DEF Inspect, Jobs, NoJobs
    <3>2. /\ rows[g] \in SUBSET Row /\ rows[g] # NoRows /\ OneEach(g)
          /\ IsFiniteSet(insp[g]) /\ IsFiniteSet(found[g])
          /\ sem[g] = Cardinality(insp[g]) + Cardinality(found[g])
      BY <3>1 DEF Jobs
    <3>3. IsFiniteSet(insp'[g]) /\ Cardinality(insp'[g]) = Cardinality(insp[g]) - 1
      BY <3>1, <3>2, OneLess
    <3>4. Cardinality(insp[g]) \in Nat /\ Cardinality(found[g]) \in Nat
      BY <3>2, FS_CardinalityType
    <3>5. ASSUME NEW why \in {Cut, Failed}, BareRow(g, p, why)  PROVE Jobs(g)'
      <4>1. /\ rows'[g] = rows[g] \cup {[pid |-> p, app |-> why, label |-> NoLabel]}
            /\ sem'[g] = sem[g] - 1 /\ found' = found
        BY <3>5, <3>2 DEF BareRow
      <4>2. rows'[g] \in SUBSET Row
        BY <3>2, <4>1 DEF Row, Names
      <4>3. OneEach(g)'
        BY <3>1, <3>2, <4>1 DEF OneEach, Row
      <4> QED
        BY <3>1, <3>2, <3>3, <3>4, <4>1, <4>2, <4>3, NilIsNoTable DEF Jobs
    <3>6. ASSUME NEW a, found' = [found EXCEPT ![g] = @ \cup {[pid |-> p, app |-> a]}],
                 UNCHANGED <<rows, sem>>
          PROVE  Jobs(g)'
      <4>1. [pid |-> p, app |-> a] \notin found[g]
        BY <3>1, <3>2 DEF OneEach
      <4>2. /\ found'[g] = found[g] \cup {[pid |-> p, app |-> a]}
            /\ rows' = rows /\ sem' = sem
        BY <3>6
      <4>3. IsFiniteSet(found'[g]) /\ Cardinality(found'[g]) = Cardinality(found[g]) + 1
        BY <3>2, <4>1, <4>2, OneMore
      <4>4. OneEach(g)'
        BY <3>1, <3>2, <4>2 DEF OneEach
      <4> QED
        BY <3>1, <3>2, <3>3, <3>4, <4>2, <4>3, <4>4 DEF Jobs
    <3> QED
      BY <1>11, <2>1, <3>5, <3>6 DEF Inspect
  <2>2. CASE g # h
    BY <1>11, <2>2, JobsFrame DEF Inspect, BareRow
  <2> QED
    BY <2>1, <2>2
<1>12. ASSUME NEW h \in Handlers, \E f \in found[h] : Label(h, f)  PROVE Jobs(g)'
  <2>1. CASE g = h
    <3>1. PICK f \in found[g] : Label(g, f)
      BY <1>12, <2>1
    <3> DEFINE r == [pid |-> f.pid, app |-> f.app, label |-> labels[f.app]]
    <3>2. /\ found'[g] = found[g] \ {f} /\ rows'[g] = rows[g] \cup {r}
          /\ pc' = pc /\ todo' = todo /\ insp' = insp /\ sem'[g] = sem[g] - 1
      BY <3>1 DEF Label
    <3>3. pc[g] = "build"
      BY <3>1 DEF Jobs, NoJobs
    <3>4. /\ rows[g] \in SUBSET Row /\ rows[g] # NoRows /\ OneEach(g)
          /\ IsFiniteSet(insp[g]) /\ IsFiniteSet(found[g])
          /\ sem[g] = Cardinality(insp[g]) + Cardinality(found[g])
      BY <3>3 DEF Jobs
    <3>5. IsFiniteSet(found'[g]) /\ Cardinality(found'[g]) = Cardinality(found[g]) - 1
      BY <3>1, <3>2, <3>4, OneLess
    <3>6. Cardinality(insp[g]) \in Nat /\ Cardinality(found[g]) \in Nat
      BY <3>4, FS_CardinalityType
    <3>7. rows'[g] \in SUBSET Row
      BY <3>1, <3>2, <3>4 DEF Row, Names
    <3>8. OneEach(g)'
      BY <3>1, <3>2, <3>4 DEF OneEach, Row
    <3> QED
      BY <3>2, <3>3, <3>4, <3>5, <3>6, <3>7, <3>8, NilIsNoTable DEF Jobs
  <2>2. CASE g # h
    BY <1>12, <2>2, JobsFrame DEF Label
  <2> QED
    BY <2>1, <2>2
<1> QED
  BY <1>1, <1>2, <1>3, <1>4, <1>5, <1>6, <1>7, <1>8, <1>9, <1>10, <1>11, <1>12, Steps

(***************************************************************************)
(* The semaphore never has more slots taken than it has, and the bounds    *)
(* are bounds.                                                             *)
(***************************************************************************)
Limits ==
    /\ sem \in [Handlers -> 0 .. MaxParallelInspect]
    /\ left \in [changes : 0..MaxChanges, renames : 0..MaxRenames, requests : 0..MaxRequests]

\* The semaphore and the budgets stay within their bounds.
LEMMA LimitsInductive ==
    ASSUME Shape, \A h \in Handlers : Jobs(h), (\A h \in Handlers : Jobs(h))', Limits, [Next]_vars
    PROVE  Limits'
<1> USE SnapshotConstants DEF Limits, Goto, world, build, history
<1>0. \A g \in Handlers : sem'[g] >= 0
  <2> TAKE g \in Handlers
  <2>1. Cardinality(insp'[g]) \in Nat /\ Cardinality(found'[g]) \in Nat
    BY FS_CardinalityType DEF Jobs
  <2> QED
    BY <2>1 DEF Jobs
<1>1. ASSUME UNCHANGED vars  PROVE Limits'
  BY <1>1 DEF vars
<1>2. ASSUME Change  PROVE Limits'
  BY <1>2 DEF Change
<1>3. ASSUME NEW h \in Handlers, Poll(h) \/ Rename(h)  PROVE Limits'
  <2>1. sem' = sem /\ left.requests > 0
    BY <1>3 DEF Poll, Rename, Begin
  <2>2. CASE Poll(h)
    BY <2>1, <2>2 DEF Poll
  <2>3. CASE Rename(h)
    <3>1. left.renames > 0 /\ left' = [left EXCEPT !.requests = left.requests - 1,
                                                  !.renames = left.renames - 1]
      BY <2>3 DEF Rename
    <3>2. left' = [changes |-> left.changes, renames |-> left.renames - 1,
                   requests |-> left.requests - 1]
      BY <3>1
    <3>3. left.changes \in 0..MaxChanges /\ left.renames - 1 \in 0..MaxRenames
          /\ left.requests - 1 \in 0..MaxRequests
      BY <2>1, <3>1
    <3> QED
      BY <2>1, <3>2, <3>3
  <2> QED
    BY <1>3, <2>2, <2>3
<1>4. ASSUME NEW h \in Handlers, Expire(h)  PROVE Limits'
  BY <1>4 DEF Expire
<1>5. ASSUME NEW h \in Handlers, Scan(h)  PROVE Limits'
  BY <1>5 DEF Scan
<1>6. ASSUME NEW h \in Handlers, ScanFails(h) \/ JoinFails(h)  PROVE Limits'
  BY <1>6 DEF ScanFails, JoinFails, Fails
<1>7. ASSUME NEW h \in Handlers, Dispatch(h)  PROVE Limits'
  BY <1>7 DEF Dispatch
<1>8. ASSUME NEW h \in Handlers, Join(h)  PROVE Limits'
  BY <1>8 DEF Join
<1>9. ASSUME NEW h \in Handlers, Set(h)  PROVE Limits'
  BY <1>9 DEF Set
<1>10. ASSUME NEW h \in Handlers, Fallback(h)  PROVE Limits'
  BY <1>10 DEF Fallback
<1>11. ASSUME NEW h \in Handlers, NEW p \in Pids, Inspect(h, p)  PROVE Limits'
  BY <1>0, <1>11 DEF Inspect, BareRow
<1>12. ASSUME NEW h \in Handlers, \E f \in found[h] : Label(h, f)  PROVE Limits'
  BY <1>0, <1>12 DEF Label
<1> QED
  BY <1>1, <1>2, <1>3, <1>4, <1>5, <1>6, <1>7, <1>8, <1>9, <1>10, <1>11, <1>12, Steps

(***************************************************************************)
(* In every reachable state the domains are kept, and the builds are in    *)
(* order.                                                                  *)
(***************************************************************************)
BuildInv == Shape /\ (\A h \in Handlers : Jobs(h)) /\ Limits

\* No build is under way at first.
LEMMA InitialBuilds == Init => BuildInv
<1> SUFFICES ASSUME Init PROVE BuildInv
  OBVIOUS
<1>1. Shape
  BY DEF Init, Shape, Names
<1>2. ASSUME NEW h \in Handlers  PROVE Jobs(h)
  BY FS_EmptySet DEF Init, Jobs, NoJobs
<1>3. Limits
  BY SnapshotConstants DEF Init, Limits
<1> QED
  BY <1>1, <1>2, <1>3 DEF BuildInv

\* The three parts together.
LEMMA BuildStep == BuildInv /\ [Next]_vars => BuildInv'
<1> SUFFICES ASSUME BuildInv, [Next]_vars PROVE BuildInv'
  OBVIOUS
<1>1. Shape'
  BY ShapeInductive DEF BuildInv
<1>2. sem \in [Handlers -> Int]
  BY SnapshotConstants DEF BuildInv, Limits
<1>3. (\A h \in Handlers : Jobs(h))'
  BY <1>2, JobsInductive DEF BuildInv
<1>4. Limits'
  BY <1>3, LimitsInductive DEF BuildInv
<1> QED
  BY <1>1, <1>3, <1>4 DEF BuildInv

\* Builds are in order in every reachable state.
LEMMA BuildsInOrder == Spec => []BuildInv
  BY InitialBuilds, BuildStep, PTL DEF Spec

(***************************************************************************)
(* Every variable stays in its domain: among others the semaphore of a     *)
(* build, which the goroutines release, is never released twice and never  *)
(* passes MaxParallelInspect.                                              *)
(***************************************************************************)
THEOREM TypeCorrect == Spec => []TypeOK
<1>1. BuildInv => TypeOK
  BY DEF BuildInv, Shape, Limits, TypeOK
<1> QED
  BY <1>1, BuildsInOrder, PTL

(***************************************************************************)
(* The loop that waits for a slot, the handler that waits for the          *)
(* goroutines and the goroutines never wait in a circle, whatever          *)
(* MaxParallelInspect is: a taken slot is held by a goroutine that can go  *)
(* on.                                                                     *)
(***************************************************************************)
THEOREM BuildsNeverStall == Spec => []NobodyWaitsForEver
<1>1. BuildInv => NobodyWaitsForEver
  <2> SUFFICES ASSUME BuildInv, NEW h \in Handlers, pc[h] = "build", ~Built(h),
                      insp[h] = {}, found[h] = {}
               PROVE  todo[h] # {} /\ sem[h] < MaxParallelInspect
    BY DEF NobodyWaitsForEver
  <2>1. sem[h] = 0
    BY FS_EmptySet DEF BuildInv, Jobs
  <2> QED
    BY <2>1, SnapshotConstants DEF Built
<1> QED
  BY <1>1, BuildsInOrder, PTL

(***************************************************************************)
(* Served(g) reads nothing but the request g and whether there is a cache. *)
(***************************************************************************)
LEMMA ServedFrame ==
    ASSUME NEW g \in Handlers, Served(g),
           pc'[g] = pc[g], ctxErr'[g] = ctxErr[g], rows'[g] = rows[g],
           scanError'[g] = scanError[g], hadCache'[g] = hadCache[g],
           cache # NoRows => cache' # NoRows
    PROVE  Served(g)'
  BY DEF Served, Answered, Whole

(***************************************************************************)
(* Every step keeps what is shown whole.                                   *)
(***************************************************************************)
LEMMA LastGoodInductive ==
    ASSUME Shape, HistoryShape, \A h \in Handlers : Jobs(h), LastGood, [Next]_vars
    PROVE  LastGood'
<1> USE DEF Goto, world, build, history
<1>a. /\ Shape /\ cache # NoRows => Whole(cache)
      /\ \A g \in Handlers : Served(g)
  BY DEF LastGood
<1>b. ASSUME cache' = cache, NEW h \in Handlers, Served(h)',
             \A g \in Handlers \ {h} :
                /\ pc'[g] = pc[g] /\ ctxErr'[g] = ctxErr[g] /\ rows'[g] = rows[g]
                /\ scanError'[g] = scanError[g] /\ hadCache'[g] = hadCache[g]
      PROVE  LastGood'
  <2>1. ASSUME NEW g \in Handlers \ {h}  PROVE Served(g)'
    BY <1>a, <1>b, ServedFrame
  <2> QED
    BY <1>a, <1>b, <2>1 DEF LastGood, Whole
<1>1. ASSUME UNCHANGED vars  PROVE LastGood'
  BY <1>1 DEF vars, LastGood, Served, Answered, Whole
<1>2. ASSUME Change  PROVE LastGood'
  BY <1>2 DEF Change, LastGood, Served, Answered, Whole
<1>3. ASSUME NEW h \in Handlers, Poll(h) \/ Rename(h)  PROVE LastGood'
  <2>1. Served(h)'
    BY <1>3 DEF Poll, Rename, Begin, Shape, HistoryShape, Served, Answered
  <2> QED
    BY <1>3, <1>b, <2>1 DEF Poll, Rename, Begin, Shape, HistoryShape
<1>4. ASSUME NEW h \in Handlers, Expire(h)  PROVE LastGood'
  <2>1. Served(h)'
    BY <1>a, <1>4 DEF Expire, Building, Shape, Served, Answered
  <2> QED
    BY <1>4, <1>b, <2>1 DEF Expire, Shape
<1>5. ASSUME NEW h \in Handlers, Scan(h)  PROVE LastGood'
  <2>1. Served(h)'
    BY <1>a, <1>5 DEF Scan, Shape, Served, Answered, Whole
  <2> QED
    BY <1>5, <1>b, <2>1 DEF Scan, Shape
<1>6. ASSUME NEW h \in Handlers, ScanFails(h) \/ JoinFails(h)  PROVE LastGood'
  <2>1. Served(h)'
    BY <1>a, <1>6 DEF ScanFails, JoinFails, Fails, Shape, Served, Answered
  <2> QED
    BY <1>6, <1>b, <2>1 DEF ScanFails, JoinFails, Fails, Shape
<1>7. ASSUME NEW h \in Handlers, Dispatch(h)  PROVE LastGood'
  BY <1>7, <1>a, ServedFrame DEF Dispatch, LastGood, Whole
<1>8. ASSUME NEW h \in Handlers, Join(h)  PROVE LastGood'
  <2>1. Served(h)'
    BY <1>a, <1>8 DEF Join, Shape, Served, Answered, Whole
  <2> QED
    BY <1>8, <1>b, <2>1 DEF Join, Shape
<1>9. ASSUME NEW h \in Handlers, Set(h)  PROVE LastGood'
  <2>1. /\ cache' = rows[h] /\ pc[h] = "set" /\ pc' = [pc EXCEPT ![h] = "idle"]
        /\ UNCHANGED <<ctxErr, rows, scanError, hadCache>>
    BY <1>9 DEF Set
  <2>2. rows[h] # NoRows /\ Whole(rows[h])
    BY <1>a, <2>1 DEF Jobs, Served
  <2>3. Served(h)'
    BY <1>a, <2>1, <2>2 DEF Shape, Served, Answered, Whole
  <2>4. ASSUME NEW g \in Handlers \ {h}  PROVE Served(g)'
    BY <1>a, <2>1, <2>2, ServedFrame DEF Shape
  <2> QED
    BY <2>1, <2>2, <2>3, <2>4 DEF LastGood, Whole
<1>10. ASSUME NEW h \in Handlers, Fallback(h)  PROVE LastGood'
  <2>1. Served(h)'
    BY <1>a, <1>10 DEF Fallback, Shape, Served, Answered, Whole
  <2> QED
    BY <1>10, <1>b, <2>1 DEF Fallback, Shape
<1>11. ASSUME NEW h \in Handlers, NEW p \in Pids, Inspect(h, p)  PROVE LastGood'
  <2>1. pc[h] = "build" /\ rows[h] \in SUBSET Row
    BY <1>11 DEF Inspect, Jobs, NoJobs, Shape
  <2>2. /\ UNCHANGED <<cache, pc, ctxErr, scanError, hadCache>>
        /\ \A g \in Handlers \ {h} : rows'[g] = rows[g]
    BY <1>11 DEF Inspect, BareRow, Shape
  <2>3. ctxErr[h] = "nil" => \A r \in rows'[h] : r \in rows[h] \/ r.app = Failed
    BY <1>11, <2>1 DEF Inspect, BareRow, Shape
  <2>4. Served(h)'
    BY <1>a, <2>1, <2>2, <2>3, SnapshotConstants DEF Served, Answered, Whole
  <2> QED
    BY <1>b, <2>2, <2>4
<1>12. ASSUME NEW h \in Handlers, \E f \in found[h] : Label(h, f)  PROVE LastGood'
  <2>1. PICK f \in found[h] : Label(h, f)
    BY <1>12
  <2>2. pc[h] = "build" /\ rows[h] \in SUBSET Row /\ f.app \in Apps
    BY <2>1 DEF Jobs, NoJobs, Shape
  <2>3. /\ UNCHANGED <<cache, pc, ctxErr, scanError, hadCache>>
        /\ \A g \in Handlers \ {h} : rows'[g] = rows[g]
    BY <2>1 DEF Label, Shape
  <2>4. \A r \in rows'[h] : r \in rows[h] \/ r.app = f.app
    BY <2>1, <2>2 DEF Label, Shape
  <2>5. Served(h)'
    BY <1>a, <2>2, <2>3, <2>4, SnapshotConstants DEF Served, Answered, Whole
  <2> QED
    BY <1>b, <2>3, <2>5
<1> QED
  BY <1>1, <1>2, <1>3, <1>4, <1>5, <1>6, <1>7, <1>8, <1>9, <1>10, <1>11, <1>12, Steps

(***************************************************************************)
(* Nobody else's step disturbs what the history of the request g says of   *)
(* its rows: it only adds to a history of a request that is under way.     *)
(***************************************************************************)
LEMMA TrueFrame ==
    ASSUME NEW g \in Handlers, Shape, HistoryShape, Jobs(g), Witnessed(g), True(g),
           pc'[g] = pc[g], rows'[g] = rows[g], scanError'[g] = scanError[g], lost'[g] = lost[g],
           todo'[g] = todo[g], insp'[g] = insp[g], found'[g] = found[g],
           \A p \in Pids : held[g][p] \subseteq held'[g][p],
           \A a \in Apps : meant[g][a] \subseteq meant'[g][a],
           ~ Building(g) => held'[g] = held[g] /\ meant'[g] = meant[g],
           Building(g) => /\ \A p \in Pids : runs'[p] \in held'[g][p]
                          /\ \A a \in Apps : labels'[a] \in meant'[g][a]
    PROVE  Witnessed(g)' /\ True(g)'
<1>1. Witnessed(g)'
  <2>1. \A f \in found[g] : f.pid \in Pids
    BY DEF Shape
  <2> QED
    BY <2>1 DEF Witnessed, Building, ReadOf
<1>2. \A p \in Pids : Covered(g, p)' <=> Covered(g, p)
  BY DEF Covered
<1>3. ASSUME Good(g), NEW r \in rows[g], TrueRow(g, r)  PROVE TrueRow(g, r)'
  <2>1. r \in Row
    BY <1>3 DEF Good, Unmarked, Answered, Jobs, Shape
  <2> QED
    BY <1>3, <2>1 DEF Row, TrueRow, ReadOf
<1>4. Good(g)' <=> Good(g)
  BY DEF Good, Unmarked, Answered
<1>5. ASSUME NEW p \in Pids, NEW a \in Apps, held'[g][p] = {a}  PROVE held[g][p] = {a}
  BY <1>5 DEF Witnessed
<1> QED
  BY <1>1, <1>2, <1>3, <1>4, <1>5 DEF True

(***************************************************************************)
(* Every step keeps the histories' domains.                                *)
(***************************************************************************)
LEMMA HistoryInductive == Shape /\ HistoryShape /\ [Next]_vars => HistoryShape'
<1> SUFFICES ASSUME Shape, HistoryShape, [Next]_vars PROVE HistoryShape'
  OBVIOUS
<1> USE DEF HistoryShape, Goto, world, build, history
<1>1. ASSUME UNCHANGED vars  PROVE HistoryShape'
  BY <1>1 DEF vars
<1>2. ASSUME Change  PROVE HistoryShape'
  BY <1>2 DEF Change
<1>3. ASSUME NEW h \in Handlers, Poll(h) \/ Rename(h)  PROVE HistoryShape'
  <2>1. held' = [held EXCEPT ![h] = [p \in Pids |-> {runs[p]}]]
        /\ hadCache' = [hadCache EXCEPT ![h] = cache # NoRows]
    BY <1>3 DEF Poll, Rename, Begin
  <2>2. held' \in [Handlers -> [Pids -> SUBSET (Apps \cup {NoApp})]]
    BY <2>1 DEF Shape
  <2>3. CASE Poll(h)
    BY <2>1, <2>2, <2>3 DEF Poll, Shape
  <2>4. CASE Rename(h)
    <3>1. PICK a \in Apps, l \in Names :
            /\ labels' = [labels EXCEPT ![a] = l]
            /\ meant' = [g \in Handlers |->
                 CASE g = h -> [b \in Apps |-> {labels'[b]}]
                   [] g # h /\ Building(g) -> [meant[g] EXCEPT ![a] = @ \cup {l}]
                   [] OTHER -> meant[g]]
      BY <2>4 DEF Rename
    <3>2. [b \in Apps |-> {labels'[b]}] \in [Apps -> SUBSET Names]
      BY <3>1 DEF Shape
    <3>3. \A g \in Handlers : [meant[g] EXCEPT ![a] = @ \cup {l}] \in [Apps -> SUBSET Names]
      OBVIOUS
    <3>4. meant' \in [Handlers -> [Apps -> SUBSET Names]]
      BY <3>1, <3>2, <3>3
    <3> QED
      BY <2>1, <2>2, <3>4
  <2> QED
    BY <1>3, <2>3, <2>4
<1>4. ASSUME NEW h \in Handlers, Expire(h)  PROVE HistoryShape'
  BY <1>4 DEF Expire
<1>5. ASSUME NEW h \in Handlers, Scan(h)  PROVE HistoryShape'
  BY <1>5 DEF Scan
<1>6. ASSUME NEW h \in Handlers, ScanFails(h) \/ JoinFails(h)  PROVE HistoryShape'
  <2>1. /\ NoneHeld \in [Pids -> SUBSET (Apps \cup {NoApp})]
        /\ NoneMeant \in [Apps -> SUBSET Names]
    BY DEF NoneHeld, NoneMeant
  <2>2. /\ held' = [held EXCEPT ![h] = NoneHeld] /\ meant' = [meant EXCEPT ![h] = NoneMeant]
        /\ UNCHANGED hadCache
    BY <1>6 DEF ScanFails, JoinFails, Fails
  <2> QED
    BY <2>1, <2>2
<1>7. ASSUME NEW h \in Handlers, Dispatch(h)  PROVE HistoryShape'
  BY <1>7 DEF Dispatch
<1>8. ASSUME NEW h \in Handlers, Join(h)  PROVE HistoryShape'
  BY <1>8 DEF Join
<1>9. ASSUME NEW h \in Handlers, Set(h)  PROVE HistoryShape'
  BY <1>9 DEF Set
<1>10. ASSUME NEW h \in Handlers, Fallback(h)  PROVE HistoryShape'
  BY <1>10 DEF Fallback
<1>11. ASSUME NEW h \in Handlers, NEW p \in Pids, Inspect(h, p)  PROVE HistoryShape'
  BY <1>11 DEF Inspect
<1>12. ASSUME NEW h \in Handlers, \E f \in found[h] : Label(h, f)  PROVE HistoryShape'
  BY <1>12 DEF Label
<1> QED
  BY <1>1, <1>2, <1>3, <1>4, <1>5, <1>6, <1>7, <1>8, <1>9, <1>10, <1>11, <1>12, Steps

(***************************************************************************)
(* Every step keeps the rows true and complete: those of the request that  *)
(* takes it, and by TrueFrame everyone else's.                             *)
(***************************************************************************)
LEMMA TrueInductive ==
    ASSUME Shape, HistoryShape, LastGood, [Next]_vars,
           \A h \in Handlers : Jobs(h) /\ Witnessed(h) /\ True(h),
           (\A h \in Handlers : Jobs(h))'
    PROVE  (\A h \in Handlers : Witnessed(h) /\ True(h))'
<1> SUFFICES ASSUME NEW g \in Handlers  PROVE (Witnessed(g) /\ True(g))'
  OBVIOUS
<1> USE DEF Goto, world, build, history
<1> DEFINE Q == (Witnessed(g) /\ True(g))'
           Calm == /\ pc'[g] = pc[g] /\ rows'[g] = rows[g] /\ scanError'[g] = scanError[g]
                   /\ lost'[g] = lost[g]
                   /\ todo'[g] = todo[g] /\ insp'[g] = insp[g] /\ found'[g] = found[g]
<1>0. Jobs(g) /\ Witnessed(g) /\ True(g) /\ Jobs(g)' /\ Served(g)
  BY DEF LastGood
<1>a. ASSUME Calm, UNCHANGED <<held, meant, runs, labels>>  PROVE Q
  BY <1>0, <1>a, TrueFrame DEF Witnessed
<1>1. ASSUME UNCHANGED vars  PROVE Q
  BY <1>1, <1>a DEF vars
<1>2. ASSUME Change  PROVE Q
  <2>1. PICK q \in Pids, b \in Apps \cup {NoApp} :
          /\ runs' = [runs EXCEPT ![q] = b]
          /\ held' = [h \in Handlers |->
                       IF Building(h) THEN [held[h] EXCEPT ![q] = @ \cup {b}] ELSE held[h]]
    BY <1>2 DEF Change
  <2>2. Calm /\ UNCHANGED <<labels, meant>>
    BY <1>2 DEF Change
  <2>3. \A p \in Pids : held[g][p] \subseteq held'[g][p]
    BY <2>1 DEF HistoryShape
  <2>4. Building(g) => \A p \in Pids : runs'[p] \in held'[g][p]
    BY <1>0, <2>1 DEF HistoryShape, Shape, Witnessed
  <2> QED
    BY <1>0, <2>1, <2>2, <2>3, <2>4, TrueFrame DEF Witnessed
<1>3. ASSUME NEW h \in Handlers, Poll(h) \/ Rename(h)  PROVE Q
  <2>1. CASE g = h
    <3>1. /\ pc[g] = "idle" /\ pc'[g] = "scan" /\ found'[g] = found[g]
          /\ runs' = runs /\ held'[g] = [p \in Pids |-> {runs[p]}]
      BY <1>3, <2>1 DEF Poll, Rename, Begin, Shape, HistoryShape
    <3>2. found[g] = {}
      BY <1>0, <3>1 DEF Jobs, NoJobs
    <3>3. CASE Poll(h)
      <4>1. labels' = labels /\ meant'[g] = [a \in Apps |-> {labels[a]}]
        BY <2>1, <3>3 DEF Poll, HistoryShape
      <4> QED
        BY <3>1, <3>2, <4>1 DEF Witnessed, True, Good, Unmarked, Answered, Building
    <3>4. CASE Rename(h)
      <4>1. meant'[g] = [a \in Apps |-> {labels'[a]}]
        BY <2>1, <3>4 DEF Rename
      <4> QED
        BY <3>1, <3>2, <4>1 DEF Witnessed, True, Good, Unmarked, Answered, Building
    <3> QED
      BY <1>3, <3>3, <3>4
  <2>2. CASE g # h
    <3>1. Calm /\ runs' = runs /\ held'[g] = held[g]
      BY <1>3, <2>2 DEF Poll, Rename, Begin, Shape, HistoryShape
    <3>2. CASE Poll(h)
      <4>1. labels' = labels /\ meant'[g] = meant[g]
        BY <2>2, <3>2 DEF Poll, HistoryShape
      <4> QED
        BY <1>0, <3>1, <4>1, TrueFrame DEF Witnessed
    <3>3. CASE Rename(h)
      <4>1. PICK a \in Apps, l \in Names :
              /\ labels' = [labels EXCEPT ![a] = l]
              /\ meant'[g] = IF Building(g) THEN [meant[g] EXCEPT ![a] = @ \cup {l}] ELSE meant[g]
        BY <2>2, <3>3 DEF Rename
      <4>2. \A b \in Apps : meant[g][b] \subseteq meant'[g][b]
        BY <4>1 DEF HistoryShape
      <4>3. Building(g) => \A b \in Apps : labels'[b] \in meant'[g][b]
        BY <1>0, <4>1 DEF HistoryShape, Shape, Witnessed
      <4> QED
        BY <1>0, <3>1, <4>1, <4>2, <4>3, TrueFrame DEF Witnessed
    <3> QED
      BY <1>3, <3>2, <3>3
  <2> QED
    BY <2>1, <2>2
<1>4. ASSUME NEW h \in Handlers, Expire(h)  PROVE Q
  BY <1>4, <1>a DEF Expire
<1>5. ASSUME NEW h \in Handlers, Scan(h)  PROVE Q
  <2>1. CASE g = h
    <3>1. /\ pc[g] = "scan" /\ pc'[g] = "build" /\ todo'[g] \subseteq Listening /\ rows'[g] = {}
          /\ lost'[g] = Listening \ todo'[g]
          /\ UNCHANGED <<runs, labels, insp, found, held, meant>>
      BY <1>5, <2>1 DEF Scan, Shape, HistoryShape
    <3>2. Witnessed(g)' /\ Building(g)
      BY <1>0, <3>1 DEF Witnessed, Building, ReadOf
    <3>3. insp[g] = {} /\ found[g] = {}
      BY <1>0, <3>1 DEF Jobs, NoJobs
    <3>4. \A p \in Pids : Covered(g, p)' <=> p \in todo'[g]
      BY <3>1, <3>3 DEF Covered
    <3>5. \A p \in Pids : runs[p] \in held[g][p] /\ runs[p] \in Apps \cup {NoApp}
      BY <1>0, <3>2 DEF Witnessed, Shape
    <3>6. \A p \in Pids \ lost'[g], a \in Apps : held[g][p] = {a} => p \in todo'[g]
      BY <3>1, <3>5, SnapshotConstants DEF Listening
    <3>7. \A p \in Listening : runs[p] \in Apps /\ runs[p] \in held[g][p]
      BY <3>5 DEF Listening
    <3> QED
      BY <3>1, <3>2, <3>4, <3>6, <3>7 DEF True
  <2>2. CASE g # h
    BY <1>5, <1>a, <2>2 DEF Scan, Shape
  <2> QED
    BY <2>1, <2>2
<1>6. ASSUME NEW h \in Handlers, ScanFails(h) \/ JoinFails(h)  PROVE Q
  <2>1. CASE g = h
    <3>1. pc'[g] = "fallback" /\ found'[g] = found[g]
      BY <1>6, <2>1 DEF ScanFails, JoinFails, Fails, Shape
    <3>2. found[g] = {}
      BY <1>0, <3>1 DEF Jobs, NoJobs
    <3> QED
      BY <3>1, <3>2 DEF Witnessed, True, Good, Unmarked, Answered, Building
  <2>2. CASE g # h
    BY <1>6, <1>0, <2>2, TrueFrame DEF ScanFails, JoinFails, Fails, Shape, HistoryShape, Witnessed
  <2> QED
    BY <2>1, <2>2
<1>7. ASSUME NEW h \in Handlers, Dispatch(h)  PROVE Q
  <2>1. CASE g = h
    <3>1. /\ todo'[g] \cup insp'[g] = todo[g] \cup insp[g]
          /\ UNCHANGED <<runs, labels, pc, found, rows, scanError, held, meant, lost>>
      BY <1>7, <2>1 DEF Dispatch, Shape
    <3>2. \A p \in Pids : Covered(g, p)' <=> Covered(g, p)
      BY <3>1 DEF Covered
    <3>3. Witnessed(g)' /\ (Good(g)' <=> Good(g))
      BY <1>0, <3>1 DEF Witnessed, Building, Good, Unmarked, Answered, ReadOf
    <3>4. \A r \in rows[g] : TrueRow(g, r)' <=> TrueRow(g, r)
      BY <3>1 DEF TrueRow, ReadOf
    <3> QED
      BY <1>0, <3>1, <3>2, <3>3, <3>4 DEF True
  <2>2. CASE g # h
    BY <1>7, <1>a, <2>2 DEF Dispatch, Shape
  <2> QED
    BY <2>1, <2>2
<1>8. ASSUME NEW h \in Handlers, Join(h) \/ Set(h)  PROVE Q
  <2>1. CASE g = h
    <3>1. /\ pc[g] \in {"build", "set"} /\ pc'[g] \in {"set", "idle"}
          /\ UNCHANGED <<runs, labels, todo, insp, found, rows, held, meant, lost>>
      BY <1>8, <2>1 DEF Join, Set, Shape
    <3>2. \A p \in Pids : Covered(g, p)' <=> Covered(g, p)
      BY <3>1 DEF Covered
    <3>3. Witnessed(g)' /\ Good(g)
      BY <1>0, <3>1 DEF Witnessed, Building, Good, ReadOf
    <3>4. \A r \in rows[g] : TrueRow(g, r)' <=> TrueRow(g, r)
      BY <3>1 DEF TrueRow, ReadOf
    <3> QED
      BY <1>0, <3>1, <3>2, <3>3, <3>4 DEF True
  <2>2. CASE g # h
    BY <1>8, <1>a, <2>2 DEF Join, Set, Shape
  <2> QED
    BY <2>1, <2>2
<1>9. ASSUME NEW h \in Handlers, Fallback(h)  PROVE Q
  <2>1. CASE g = h
    <3>1. /\ pc[g] = "fallback" /\ pc'[g] = "idle" /\ scanError' = scanError
          /\ found' = found /\ held' = held
      BY <1>9, <2>1 DEF Fallback, Shape
    <3>2. scanError[g] # "none" /\ found[g] = {}
      BY <1>0, <3>1 DEF Served, Jobs, NoJobs
    <3> QED
      BY <3>1, <3>2 DEF Witnessed, True, Good, Unmarked, Answered, Building
  <2>2. CASE g # h
    BY <1>9, <1>a, <2>2 DEF Fallback, Shape
  <2> QED
    BY <2>1, <2>2
<1>10. ASSUME NEW h \in Handlers, NEW q \in Pids, Inspect(h, q)  PROVE Q
  <2>1. CASE g = h
    <3>1. /\ q \in insp[g] /\ insp'[g] = insp[g] \ {q} /\ pc[g] = "build"
          /\ UNCHANGED <<runs, labels, pc, todo, held, meant, lost>>
      BY <1>0, <1>10, <2>1 DEF Inspect, Jobs, NoJobs, Shape
    <3>2. /\ Good(g) /\ Good(g)' /\ Building(g) /\ Building(g)'
          /\ rows[g] \in SUBSET Row /\ OneEach(g)'
      BY <1>0, <3>1 DEF Good, Building, Jobs, Shape
    <3>3. ASSUME NEW why \in {Cut, Failed}, BareRow(g, q, why)  PROVE Q
      <4>1. /\ rows'[g] = rows[g] \cup {[pid |-> q, app |-> why, label |-> NoLabel]}
            /\ found' = found
        BY <3>2, <3>3 DEF BareRow, Shape
      <4>2. \A p \in Pids : Covered(g, p)' <=> Covered(g, p)
        <5> SUFFICES ASSUME NEW p \in Pids  PROVE Covered(g, p)' <=> Covered(g, p)
          OBVIOUS
        <5>1. (\E r \in rows'[g] : r.pid = p) <=> (\E r \in rows[g] : r.pid = p) \/ p = q
          BY <4>1, [pid |-> q, app |-> why, label |-> NoLabel].pid = q, Zenon
        <5>2. p \in todo'[g] \cup insp'[g] \/ p = q <=> p \in todo[g] \cup insp[g]
          BY <3>1
        <5> QED
          BY <4>1, <5>1, <5>2, Zenon DEF Covered
      <4>3. \A r \in rows'[g] : TrueRow(g, r)'
        <5> TAKE r \in rows'[g]
        <5>1. CASE r \in rows[g]
          BY <1>0, <3>1, <3>2, <5>1 DEF True, TrueRow, ReadOf
        <5>2. CASE r = [pid |-> q, app |-> why, label |-> NoLabel]
          BY <5>2, SnapshotConstants DEF TrueRow
        <5> QED
          BY <4>1, <5>1, <5>2
      <4>4. Witnessed(g)'
        BY <1>0, <3>1, <3>2, <4>1 DEF Witnessed, ReadOf
      <4>5. \A r, s \in rows'[g] : r.pid = s.pid => r = s
        BY <3>2 DEF OneEach
      <4> QED
        BY <1>0, <3>1, <3>2, <4>2, <4>3, <4>4, <4>5 DEF True
    <3>4. ASSUME runs[q] # NoApp, NEW a \in Readings(runs[q]),
                 found' = [found EXCEPT ![g] = @ \cup {[pid |-> q, app |-> a]}],
                 UNCHANGED <<rows, sem>>
          PROVE  Q
      <4>1. /\ found'[g] = found[g] \cup {[pid |-> q, app |-> a]}
            /\ rows' = rows
        BY <3>4 DEF Shape
      <4>2. \A p \in Pids : Covered(g, p)' <=> Covered(g, p)
        <5> SUFFICES ASSUME NEW p \in Pids  PROVE Covered(g, p)' <=> Covered(g, p)
          OBVIOUS
        <5>1. (\E f \in found'[g] : f.pid = p) <=> (\E f \in found[g] : f.pid = p) \/ p = q
          BY <4>1, [pid |-> q, app |-> a].pid = q, Zenon
        <5>2. p \in todo'[g] \cup insp'[g] \/ p = q <=> p \in todo[g] \cup insp[g]
          BY <3>1
        <5> QED
          BY <4>1, <5>1, <5>2, Zenon DEF Covered
      <4>3. \A r \in rows[g] : TrueRow(g, r)' <=> TrueRow(g, r)
        BY <3>1 DEF TrueRow, ReadOf
      <4>4. Witnessed(g)'
        <5>1. runs[q] \in held[g][q] /\ runs[q] \in Apps
          BY <1>0, <3>2, <3>4 DEF Witnessed, Shape
        <5>2. ReadOf(g, q, a)
          BY <3>4, <5>1 DEF ReadOf
        <5> QED
          BY <1>0, <3>1, <3>2, <4>1, <5>2 DEF Witnessed, ReadOf
      <4> QED
        BY <1>0, <3>1, <3>2, <4>1, <4>2, <4>3, <4>4 DEF True
    <3> QED
      BY <1>10, <2>1, <3>3, <3>4 DEF Inspect
  <2>2. CASE g # h
    BY <1>10, <1>a, <2>2 DEF Inspect, BareRow, Shape
  <2> QED
    BY <2>1, <2>2
<1>11. ASSUME NEW h \in Handlers, \E f \in found[h] : Label(h, f)  PROVE Q
  <2>1. CASE g = h
    <3>1. PICK f \in found[g] : Label(g, f)
      BY <1>11, <2>1
    <3> DEFINE n == [pid |-> f.pid, app |-> f.app, label |-> labels[f.app]]
    <3>2. /\ pc[g] = "build" /\ f.pid \in Pids /\ f.app \in Apps
          /\ UNCHANGED <<runs, labels, pc, todo, insp, held, meant, lost>>
      BY <1>0, <3>1 DEF Label, Jobs, NoJobs, Shape
    <3>3. /\ Good(g) /\ Good(g)' /\ Building(g) /\ Building(g)'
          /\ rows[g] \in SUBSET Row /\ OneEach(g)'
      BY <1>0, <3>2 DEF Good, Building, Jobs, Shape
    <3>4. found'[g] = found[g] \ {f} /\ rows'[g] = rows[g] \cup {n}
      BY <3>1, <3>3 DEF Label, Shape
    <3>5. \A p \in Pids : Covered(g, p)' <=> Covered(g, p)
      <4> SUFFICES ASSUME NEW p \in Pids  PROVE Covered(g, p)' <=> Covered(g, p)
        OBVIOUS
      <4>1. (\E r \in rows'[g] : r.pid = p) <=> (\E r \in rows[g] : r.pid = p) \/ p = f.pid
        BY <3>4, n.pid = f.pid, Zenon
      <4>2. (\E e \in found'[g] : e.pid = p) \/ p = f.pid <=> \E e \in found[g] : e.pid = p
        BY <3>1, <3>4
      <4> QED
        BY <3>2, <4>1, <4>2, Zenon DEF Covered
    <3>6. Witnessed(g)'
      BY <1>0, <3>2, <3>3, <3>4 DEF Witnessed, ReadOf
    <3>7. ReadOf(g, f.pid, f.app) /\ labels[f.app] \in meant[g][f.app]
      BY <1>0, <3>1, <3>2, <3>3 DEF Witnessed
    <3>8. \A r \in rows'[g] : TrueRow(g, r)'
      <4> TAKE r \in rows'[g]
      <4>1. CASE r \in rows[g]
        BY <1>0, <3>2, <3>3, <4>1 DEF True, TrueRow, ReadOf
      <4>2. CASE r = n
        BY <3>2, <3>7, <4>2 DEF TrueRow, ReadOf
      <4> QED
        BY <3>4, <4>1, <4>2
    <3>9. \A r, s \in rows'[g] : r.pid = s.pid => r = s
      BY <3>3 DEF OneEach
    <3> QED
      BY <1>0, <3>2, <3>3, <3>5, <3>6, <3>8, <3>9 DEF True
  <2>2. CASE g # h
    BY <1>11, <1>a, <2>2 DEF Label, Shape
  <2> QED
    BY <2>1, <2>2
<1> QED
  BY <1>1, <1>2, <1>3, <1>4, <1>5, <1>6, <1>7, <1>8, <1>9, <1>10, <1>11, Steps

(***************************************************************************)
(* The whole invariant of the page.                                        *)
(***************************************************************************)
AnswerInv ==
    /\ BuildInv /\ HistoryShape /\ LastGood
    /\ \A h \in Handlers : Witnessed(h) /\ True(h)

\* And so are the answers.
LEMMA AnswersInOrder == Spec => []AnswerInv
<1>1. Init => AnswerInv
  <2> SUFFICES ASSUME Init PROVE HistoryShape /\ LastGood /\ BuildInv
                                 /\ \A h \in Handlers : Witnessed(h) /\ True(h)
    BY DEF AnswerInv
  <2>1. BuildInv
    BY InitialBuilds
  <2>2. HistoryShape
    BY DEF Init, HistoryShape, NoneHeld, NoneMeant
  <2>3. LastGood
    BY DEF Init, LastGood, Served, Answered
  <2>4. \A h \in Handlers : Witnessed(h) /\ True(h)
    BY DEF Init, Witnessed, True, Good, Unmarked, Answered, Building
  <2> QED
    BY <2>1, <2>2, <2>3, <2>4
<1>2. AnswerInv /\ [Next]_vars => AnswerInv'
  <2> SUFFICES ASSUME AnswerInv, [Next]_vars PROVE AnswerInv'
    OBVIOUS
  <2>1. BuildInv'
    BY BuildStep DEF AnswerInv
  <2>2. HistoryShape' /\ LastGood'
    BY HistoryInductive, LastGoodInductive DEF AnswerInv, BuildInv
  <2>3. (\A h \in Handlers : Witnessed(h) /\ True(h))'
    BY <2>1, TrueInductive DEF AnswerInv, BuildInv
  <2> QED
    BY <2>1, <2>2, <2>3 DEF AnswerInv
<1> QED
  BY <1>1, <1>2, PTL DEF Spec

(***************************************************************************)
(* A request that fails after some request had succeeded still shows rows, *)
(* and rows that an exhausted budget left half done are neither shown nor  *)
(* cached (snapshotCache's "a timeout can return last-known-good data").   *)
(***************************************************************************)
THEOREM LastGoodIsShown == Spec => []FailureShowsLastGood
<1>1. AnswerInv => FailureShowsLastGood
  BY DEF AnswerInv, LastGood, Served, Answered, Whole, FailureShowsLastGood
<1> QED
  BY <1>1, AnswersInOrder, PTL

(***************************************************************************)
(* An answer without X-Scan-Error makes nothing up: each row is of a pid   *)
(* that listened, with what may be read of a program that it was and a     *)
(* label filed under that while the answer was built, however requests,    *)
(* renames and programs overlap.                                           *)
(***************************************************************************)
THEOREM AnswersAreTrue == Spec => []UnmarkedIsTrue
<1>1. AnswerInv => UnmarkedIsTrue
  <2> SUFFICES ASSUME AnswerInv, NEW h \in Handlers, Unmarked(h), NEW r \in rows[h]
               PROVE  /\ held[h][r.pid] # {NoApp} /\ r.app # Cut
                      /\ r.app # Failed =>
                           /\ \E a \in held[h][r.pid] \ {NoApp} : r.app \in Readings(a)
                           /\ r.label \in meant[h][r.app]
    BY DEF UnmarkedIsTrue
  <2>1. /\ True(h) /\ Good(h) /\ Whole(rows[h]) /\ r \in Row
    BY DEF AnswerInv, BuildInv, Shape, LastGood, Served, Good, Unmarked, Answered
  <2>2. \E a \in Apps : a \in held[h][r.pid]
    BY <2>1 DEF True, Covered, Row
  <2>3. r.app # Cut /\ (r.app \in Apps \/ r.app = Failed)
    BY <2>1 DEF Whole, Row
  <2>4. held[h][r.pid] # {NoApp}
    BY <2>2, SnapshotConstants
  <2>5. TrueRow(h, r)
    BY <2>1 DEF True
  <2> QED
    BY <2>3, <2>4, <2>5, SnapshotConstants DEF TrueRow, ReadOf
<1> QED
  BY <1>1, AnswersInOrder, PTL

(***************************************************************************)
(* An answer without X-Scan-Error leaves nothing out but what lsof did: a  *)
(* program that listened while it was built and was listed has exactly one *)
(* row, with a label that what was read of it had meanwhile unless its     *)
(* inspection failed.                                                      *)
(***************************************************************************)
THEOREM AnswersAreComplete == Spec => []UnmarkedIsComplete
<1>1. AnswerInv => UnmarkedIsComplete
  <2> SUFFICES ASSUME AnswerInv, NEW h \in Handlers, Unmarked(h),
                      NEW p \in Pids \ lost[h], NEW a \in Apps, held[h][p] = {a}
               PROVE  \E r \in rows[h] :
                        /\ {q \in rows[h] : q.pid = p} = {r}
                        /\ (r.app \in Readings(a) /\ r.label \in meant[h][r.app]) \/ r.app = Failed
    BY DEF UnmarkedIsComplete
  <2>1. /\ True(h) /\ Good(h) /\ Whole(rows[h]) /\ rows[h] \in SUBSET Row /\ NoJobs(h)
    BY DEF AnswerInv, BuildInv, Shape, LastGood, Served, Good, Unmarked, Answered, Jobs
  <2>2. PICK r \in rows[h] : r.pid = p
    BY <2>1 DEF True, Covered, NoJobs
  <2>3. {q \in rows[h] : q.pid = p} = {r}
    BY <2>1, <2>2 DEF True
  <2>4. r.app \in Apps \/ r.app = Failed
    BY <2>1 DEF Whole, Row
  <2>5. r.app \in Apps => r.app \in Readings(a) /\ r.label \in meant[h][r.app]
    BY <2>1, <2>2 DEF True, TrueRow, ReadOf
  <2> QED
    BY <2>2, <2>3, <2>4, <2>5
<1> QED
  BY <1>1, AnswersInOrder, PTL

=============================================================================
