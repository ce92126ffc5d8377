----------------------- MODULE ProcessManagerProofs -----------------------
(***************************************************************************)
(* Who may be signalled, and when, for every number of pids, callers and   *)
(* clock ticks and any grace window.                                       *)
(***************************************************************************)
EXTENDS ProcessManager, TLAPS

(***************************************************************************)
(* The part of the type invariant that the arguments below read: the       *)
(* domains of what the callers of Kill and the escalations write.          *)
(***************************************************************************)
Shape ==
    /\ clock \in Nat
    /\ kpc \in [Slots -> {"idle", "verify", "signal"}]
    /\ kpid \in [Slots -> Pids \cup {NoPid}]
    /\ epc \in [Slots -> {"none", "sleep", "kill"}]
    /\ epid \in [Slots -> Pids \cup {NoPid}]
    /\ due \in [Slots -> Nat]

(***************************************************************************)
(* A call of Kill that passed the guards holds a pid that may be targeted, *)
(* and so does every escalation and every signal; an escalation that is    *)
(* under way owes its end to a SIGTERM sent a grace window before, and is  *)
(* past it once it goes for SIGKILL.                                       *)
(***************************************************************************)
Spared(p) == p = SelfPid \/ p <= 1

Targets ==
    /\ \A k \in Slots : kpc[k] # "idle" => kpid[k] \in Pids /\ ~Spared(kpid[k])
    /\ \A k \in Slots : epc[k] # "none" => epid[k] \in Pids /\ ~Spared(epid[k])
    /\ \A s \in sigs : s.pid \in Pids /\ ~Spared(s.pid) /\ s.at \in Nat

Patience ==
    /\ \A k \in Slots : epc[k] # "none" =>
         \E t \in sigs : t.sig = "SIGTERM" /\ t.pid = epid[k] /\ t.at + Grace <= due[k]
    /\ \A k \in Slots : epc[k] = "kill" => due[k] <= clock
    /\ KillOnlyAfterGrace

SignalInv == Shape /\ Targets /\ Patience

sigVars == <<clock, kpc, kpid, epc, epid, due, sigs>>

(***************************************************************************)
(* The invariant reads nothing but sigVars.                                *)
(***************************************************************************)
LEMMA SignalFrame == SignalInv /\ UNCHANGED sigVars => SignalInv'
  BY DEF SignalInv, Shape, Targets, Patience, KillOnlyAfterGrace, sigVars

(***************************************************************************)
(* No step breaks the signal invariant.                                    *)
(***************************************************************************)
LEMMA SignalInductive == SignalInv /\ [Next]_pmVars => SignalInv'
<1> SUFFICES ASSUME SignalInv, [Next]_pmVars PROVE SignalInv'
  OBVIOUS
<1> USE DEF SignalInv
<1>1. CASE UNCHANGED pmVars
  BY <1>1, SignalFrame DEF sigVars, pmVars, osVars, killVars, escVars, history
<1>2. ASSUME NEW p \in Pids, Start(p) \/ Bind(p) \/ Exit(p)  PROVE SignalInv'
  BY <1>2, SignalFrame DEF sigVars, Start, Bind, Exit, Put, osVars, killVars, escVars, history
<1>3. CASE Tick
  <2> USE <1>3 DEF Tick, killVars, escVars, history
  <2>1. Shape'
    BY DEF Shape
  <2>2. Targets'
    BY DEF Targets
  <2>3. Patience'
    BY DEF Shape, Patience, KillOnlyAfterGrace
  <2> QED
    BY <2>1, <2>2, <2>3
<1>4. ASSUME NEW k \in Slots, NEW p \in Pids, Kill(k, p)  PROVE SignalInv'
  <2> USE <1>4 DEF Kill, KillGoto, KillAnswer, osVars, escVars, history
  <2>1. Shape'
    BY DEF Shape
  <2>2. Targets'
    BY DEF Shape, Targets, Guarded, Spared
  <2>3. Patience'
    BY DEF Patience, KillOnlyAfterGrace
  <2> QED
    BY <2>1, <2>2, <2>3
<1>5. ASSUME NEW k \in Slots, verifyLive(k)  PROVE SignalInv'
  <2> USE <1>5 DEF verifyLive, KillGoto, KillAnswer, osVars, escVars, history
  <2>1. Shape'
    BY DEF Shape
  <2>2. Targets'
    BY DEF Shape, Targets
  <2>3. Patience'
    BY DEF Patience, KillOnlyAfterGrace
  <2> QED
    BY <2>1, <2>2, <2>3
<1>6. ASSUME NEW k \in Slots, SigTerm(k)  PROVE SignalInv'
  <2>1. CASE ~Deliverable(kpid[k])
    <3> USE <1>6, <2>1 DEF SigTerm, KillGoto, osVars, escVars, history
    <3>1. Shape'
      BY DEF Shape
    <3>2. Targets'
      BY DEF Shape, Targets
    <3>3. Patience'
      BY DEF Patience, KillOnlyAfterGrace
    <3> QED
      BY <3>1, <3>2, <3>3
  <2>2. CASE Deliverable(kpid[k])
    <3> DEFINE t == [sig |-> "SIGTERM", pid |-> kpid[k], birth |-> os[kpid[k]].birth,
                     at |-> clock]
    <3>1. /\ kpc[k] = "signal" /\ kpc' = [kpc EXCEPT ![k] = "idle"]
          /\ sigs' = sigs \cup {t}
          /\ epc' = [epc EXCEPT ![k] = "sleep"]
          /\ epid' = [epid EXCEPT ![k] = kpid[k]]
          /\ due' = [due EXCEPT ![k] = clock + Grace]
          /\ UNCHANGED <<kpid, clock>>
      BY <1>6, <2>2 DEF SigTerm, KillGoto, Deliver, osVars, history
    <3>2. kpid[k] \in Pids /\ ~Spared(kpid[k])
      BY <3>1 DEF Targets
    <3>3. t.sig = "SIGTERM" /\ t.pid = kpid[k] /\ t.at = clock
      OBVIOUS
    <3> HIDE DEF t
    <3>4. Shape'
      BY <3>1, <3>2, ProcessConstants DEF Shape
    <3>5. Targets'
      BY <3>1, <3>2, <3>3 DEF Shape, Targets
    <3>6. Patience'
      <4>1. \A j \in Slots : epc'[j] # "none" =>
              \E u \in sigs' : u.sig = "SIGTERM" /\ u.pid = epid'[j] /\ u.at + Grace <= due'[j]
        <5> SUFFICES ASSUME NEW j \in Slots, epc'[j] # "none"
                     PROVE  \E u \in sigs' : u.sig = "SIGTERM" /\ u.pid = epid'[j]
                                             /\ u.at + Grace <= due'[j]
          OBVIOUS
        <5>1. CASE j = k
          <6>1. t \in sigs' /\ epid'[j] = kpid[k] /\ due'[j] = clock + Grace
            BY <3>1, <5>1 DEF Shape
          <6>2. t.at + Grace <= due'[j]
            BY <6>1, <3>3, ProcessConstants DEF Shape
          <6> QED
            BY <6>1, <6>2, <3>3
        <5>2. CASE j # k
          BY <3>1, <5>2 DEF Shape, Patience
        <5> QED
          BY <5>1, <5>2
      <4>2. \A j \in Slots : epc'[j] = "kill" => due'[j] <= clock'
        BY <3>1 DEF Shape, Patience
      <4>3. KillOnlyAfterGrace'
        BY <3>1, <3>3 DEF Patience, KillOnlyAfterGrace
      <4> QED
        BY <4>1, <4>2, <4>3 DEF Patience
    <3> QED
      BY <3>4, <3>5, <3>6
  <2> QED
    BY <2>1, <2>2
<1>7. ASSUME NEW k \in Slots, Wake(k)  PROVE SignalInv'
  <2> USE <1>7 DEF Wake, osVars, killVars, history
  <2>1. Shape'
    BY DEF Shape
  <2>2. Targets'
    BY DEF Shape, Targets
  <2>3. Patience'
    BY DEF Shape, Patience, KillOnlyAfterGrace
  <2> QED
    BY <2>1, <2>2, <2>3
<1>8. ASSUME NEW k \in Slots, SigKill(k)  PROVE SignalInv'
  <2> DEFINE s == [sig |-> "SIGKILL", pid |-> epid[k], birth |-> os[epid[k]].birth,
                   at |-> clock]
  <2>1. /\ epc[k] = "kill" /\ epc' = [epc EXCEPT ![k] = "none"]
        /\ sigs' = sigs \cup {s} \/ sigs' = sigs
        /\ UNCHANGED <<clock, kpc, kpid, epid, due>>
    BY <1>8 DEF SigKill, Deliver, killVars
  <2>2. s.sig = "SIGKILL" /\ s.pid = epid[k] /\ s.at = clock
    OBVIOUS
  <2> HIDE DEF s
  <2>3. Shape'
    BY <2>1 DEF Shape
  <2>4. Targets'
    BY <2>1, <2>2 DEF Shape, Targets
  <2>5. KillOnlyAfterGrace'
    <3>1. PICK t \in sigs : t.sig = "SIGTERM" /\ t.pid = epid[k] /\ t.at + Grace <= due[k]
      BY <2>1 DEF Patience
    <3>2. due[k] <= clock
      BY <2>1 DEF Patience
    <3>3. t.at + Grace <= clock
      BY <3>1, <3>2, ProcessConstants DEF Shape, Targets
    <3> QED
      BY <2>1, <2>2, <3>1, <3>3 DEF Patience, KillOnlyAfterGrace
  <2>6. Patience'
    BY <2>1, <2>5 DEF Shape, Patience
  <2> QED
    BY <2>3, <2>4, <2>6
<1>9. ASSUME NEW s \in Spawners, NEW p \in Pids \cup {NoPid}, NEW a \in Apps \cup {EmptyApp},
             SpawnDetached(s, a) \/ OpenDevNullR(s) \/ OpenDevNullW(s) \/ StartFails(s)
             \/ StartChild(s, p) \/ reap(s)
      PROVE  SignalInv'
  BY <1>9, SignalFrame DEF sigVars, SpawnDetached, OpenDevNullR, OpenDevNullW, StartFails,
     StartChild, Put, reap, osVars, killVars, escVars, history
<1>10. CASE Shutdown
  <2> USE <1>10 DEF Shutdown, history
  <2>1. Shape'
    BY DEF Shape
  <2>2. Targets'
    BY DEF Targets
  <2>3. Patience'
    BY DEF Patience, KillOnlyAfterGrace
  <2> QED
    BY <2>1, <2>2, <2>3
<1> QED
  BY <1>1, <1>2, <1>3, <1>4, <1>5, <1>6, <1>7, <1>8, <1>9, <1>10
  DEF Next, World, KillStep, Escalate, SpawnStep

(***************************************************************************)
(* The signal invariant holds in every reachable state.                    *)
(***************************************************************************)
LEMMA SignalsInvariant == Spec => []SignalInv
<1>1. Init => SignalInv
  BY DEF Init, SignalInv, Shape, Targets, Patience, KillOnlyAfterGrace
<1> QED
  BY <1>1, SignalInductive, PTL DEF Spec

(***************************************************************************)
(* The dashboard and init are never signalled, whatever calls, escalations *)
(* and processes overlap.                                                  *)
(***************************************************************************)
THEOREM SelfIsSafe == Spec => []SelfIsNeverTargeted
<1>1. SignalInv => SelfIsNeverTargeted
  BY DEF SignalInv, Targets, Spared, SelfIsNeverTargeted
<1> QED
  BY <1>1, SignalsInvariant, PTL

(***************************************************************************)
(* SIGKILL is only ever an escalation, a whole grace window after SIGTERM. *)
(***************************************************************************)
THEOREM EscalationIsPatient == Spec => []KillOnlyAfterGrace
<1>1. SignalInv => KillOnlyAfterGrace
  BY DEF SignalInv, Patience
<1> QED
  BY <1>1, SignalsInvariant, PTL

-----------------------------------------------------------------------------
(***************************************************************************)
(* Type correctness needs to know that a call of Kill in progress leaves   *)
(* time for its sleep, whose pid it holds, and that only a real command    *)
(* reaches exec.                                                           *)
(***************************************************************************)
TypeInv ==
    /\ TypeOK
    /\ \A k \in Slots : kpc[k] # "idle" => kpid[k] \in Pids /\ TimeLeft(clock)
    /\ \A k \in Slots : epc[k] # "none" => epid[k] \in Pids
    /\ \A s \in Spawners : spc[s] # "idle" => sapp[s] \in Apps

Table == [Pids -> Process \cup {NoProcess}]

(***************************************************************************)
(* A process stays one, born when it was, when it binds, becomes a zombie  *)
(* or gets another parent.                                                 *)
(***************************************************************************)
LEMMA ProcessUpdates ==
    ASSUME NEW r \in Process
    PROVE  LET bound  == [r EXCEPT !.bound = TRUE]
               zombie == [r EXCEPT !.zombie = TRUE, !.bound = FALSE]
               orphan == [r EXCEPT !.parent = "other"]
           IN  \A q \in {bound, zombie, orphan} : q \in Process /\ q.birth = r.birth /\ q.app = r.app
  BY DEF Process

(***************************************************************************)
(* A new process is one, and it is younger than every other.               *)
(***************************************************************************)
LEMMA NewProcess ==
    ASSUME os \in Table, births \in 0..MaxBirths, NEW p \in Pids, Fresh(p),
           NEW a \in Apps, NEW parent \in {"dashboard", "other"}, Put(p, a, parent, "own")
    PROVE  /\ os' \in Table /\ births' \in 0..MaxBirths /\ births' = births + 1
           /\ os'[p] \in Process /\ os'[p].birth = births + 1
           /\ os'[p].app = a /\ os'[p].parent = parent /\ os'[p].session = "own"
           /\ \A q \in Pids \ {p} : os'[q] = os[q]
<1> DEFINE r == [app |-> a, birth |-> births + 1, bound |-> FALSE, zombie |-> FALSE,
                 parent |-> parent, session |-> "own"]
<1>1. births + 1 \in 0..MaxBirths
  BY ProcessConstants DEF Fresh
<1>2. /\ r \in Process /\ r.birth = births + 1 /\ r.app = a
      /\ r.parent = parent /\ r.session = "own"
  BY <1>1 DEF Process
<1>3. os' = [os EXCEPT ![p] = r] /\ births' = births + 1
  BY DEF Put
<1> HIDE DEF r
<1> QED
  BY <1>1, <1>2, <1>3 DEF Table

(***************************************************************************)
(* The table after an exit: nobody is born, and nobody else is touched.    *)
(***************************************************************************)
LEMMA AfterExit ==
    ASSUME os \in Table, NEW p \in Pids, Exists(p)
    PROVE  /\ Gone(os, p) \in Table
           /\ \A q \in Pids : Gone(os, p)[q] # NoProcess =>
                 Exists(q) /\ Gone(os, p)[q].birth = os[q].birth /\ Gone(os, p)[q].app = os[q].app
<1>1. os[p] \in Process
  BY DEF Table, Exists
<1> DEFINE z == [os[p] EXCEPT !.zombie = TRUE, !.bound = FALSE]
<1>2. z \in Process /\ z.birth = os[p].birth /\ z.app = os[p].app
  BY <1>1, ProcessUpdates
<1>3. Gone(os, p) = [os EXCEPT ![p] = IF os[p].parent = "dashboard" THEN z ELSE NoProcess]
  BY DEF Gone
<1> HIDE DEF z
<1> QED
  BY <1>1, <1>2, <1>3 DEF Table, Exists

(***************************************************************************)
(* The type invariant in five parts, each of which reads the variables of  *)
(* one part of the state (and the clock).                                  *)
(***************************************************************************)
WorldType == dash \in {"up", "down"} /\ os \in Table /\ births \in 0..MaxBirths
             /\ clock \in 0..MaxClock
KillType ==
    /\ kpc \in [Slots -> {"idle", "verify", "signal"}]
    /\ kpid \in [Slots -> Pids \cup {NoPid}]
    /\ kres \in [Slots -> {"none", "nil", "error", "ErrSelfPID", "ErrUnknownPID"}]
    /\ \A k \in Slots : kpc[k] # "idle" => kpid[k] \in Pids /\ TimeLeft(clock)
EscalateType ==
    /\ epc \in [Slots -> {"none", "sleep", "kill"}]
    /\ epid \in [Slots -> Pids \cup {NoPid}]
    /\ due \in [Slots -> 0..MaxClock]
    /\ \A k \in Slots : epc[k] # "none" => epid[k] \in Pids
SpawnType ==
    /\ spc \in [Spawners -> {"idle", "openR", "openW", "start"}]
    /\ sapp \in [Spawners -> Apps \cup {EmptyApp}]
    /\ fds \in [Spawners -> SUBSET {"r", "w"}]
    /\ child \in [Spawners -> Pids \cup {NoPid}]
    /\ \A s \in Spawners : spc[s] # "idle" => sapp[s] \in Apps
HistoryType == sigs \in SUBSET Signals
               /\ listed \in SUBSET [pid : Pids, birth : 0..MaxBirths]

(***************************************************************************)
(* The five parts are the invariant.                                       *)
(***************************************************************************)
LEMMA TypeParts ==
    /\ TypeInv <=> WorldType /\ KillType /\ EscalateType /\ SpawnType /\ HistoryType
    /\ TypeInv' <=> WorldType' /\ KillType' /\ EscalateType' /\ SpawnType' /\ HistoryType'
  BY DEF TypeInv, TypeOK, WorldType, KillType, EscalateType, SpawnType, HistoryType, Table

(***************************************************************************)
(* A part whose variables do not change stays as it is.                    *)
(***************************************************************************)
LEMMA TypeFrames ==
    /\ KillType /\ UNCHANGED <<killVars, clock>> => KillType'
    /\ EscalateType /\ UNCHANGED escVars => EscalateType'
    /\ SpawnType /\ UNCHANGED spawnVars => SpawnType'
    /\ HistoryType /\ UNCHANGED history => HistoryType'
  BY DEF KillType, EscalateType, SpawnType, HistoryType, killVars, escVars, spawnVars,
         history, TimeLeft

(***************************************************************************)
(* A signal that is delivered is recorded with the target's birth.         *)
(***************************************************************************)
LEMMA DeliverType ==
    ASSUME WorldType, HistoryType, NEW sig \in {"SIGTERM", "SIGKILL"}, NEW p \in Pids,
           Deliverable(p), Deliver(sig, p), UNCHANGED listed
    PROVE  HistoryType'
<1>1. os[p] \in Process
  BY DEF WorldType, Table, Deliverable, Ours, Exists
<1>2. os[p].birth \in 0..MaxBirths
  BY <1>1 DEF Process
<1>3. [sig |-> sig, pid |-> p, birth |-> os[p].birth, at |-> clock] \in Signals
  BY <1>2 DEF Signals, WorldType
<1> QED
  BY <1>3 DEF HistoryType, Deliver

(***************************************************************************)
(* The steps of the operating system keep the types.                       *)
(***************************************************************************)
LEMMA WorldKeepsTypes == TypeInv /\ World => TypeInv'
<1> SUFFICES ASSUME TypeInv, World PROVE TypeInv'
  OBVIOUS
<1> USE TypeParts, TypeFrames
<1>1. ASSUME NEW p \in Pids, Start(p)  PROVE TypeInv'
  <2>1. WorldType'
    BY <1>1, NewProcess DEF Start, WorldType
  <2> QED
    BY <1>1, <2>1 DEF Start
<1>2. ASSUME NEW p \in Pids, Bind(p)  PROVE TypeInv'
  <2>1. os[p] \in Process
    BY <1>2 DEF Bind, Live, Exists, WorldType, Table
  <2>2. [os[p] EXCEPT !.bound = TRUE] \in Process
    BY <2>1, ProcessUpdates
  <2>3. WorldType'
    BY <1>2, <2>2 DEF Bind, WorldType, Table
  <2> QED
    BY <1>2, <2>3 DEF Bind
<1>3. ASSUME NEW p \in Pids, Exit(p)  PROVE TypeInv'
  <2>1. WorldType'
    BY <1>3, AfterExit DEF Exit, Live, WorldType
  <2> QED
    BY <1>3, <2>1 DEF Exit
<1>4. CASE Tick
  <2>1. WorldType'
    BY <1>4, ProcessConstants DEF Tick, WorldType
  <2>2. KillType'
    BY <1>4 DEF Tick, KillType, killVars, TimeLeft
  <2> QED
    BY <1>4, <2>1, <2>2 DEF Tick
<1> QED
  BY <1>1, <1>2, <1>3, <1>4 DEF World

(***************************************************************************)
(* So do the steps of Kill.                                                *)
(***************************************************************************)
LEMMA KillKeepsTypes ==
    ASSUME TypeInv, NEW k \in Slots, NEW p \in Pids, Kill(k, p) \/ verifyLive(k) \/ SigTerm(k)
    PROVE  TypeInv'
<1> USE TypeParts, TypeFrames
<1>1. CASE Kill(k, p)
  <2>1. KillType'
    BY <1>1 DEF Kill, KillGoto, KillAnswer, KillType, osVars, TimeLeft
  <2> QED
    BY <1>1, <2>1 DEF Kill, osVars, WorldType
<1>2. CASE verifyLive(k)
  <2>1. KillType'
    BY <1>2 DEF verifyLive, KillGoto, KillAnswer, KillType, osVars, TimeLeft
  <2>2. HistoryType'
    <3>1. kpid[k] \in Pids
      BY <1>2 DEF verifyLive, KillGoto, KillType
    <3>2. CASE kpid[k] \in Listed /\ listed' = listed \cup {[pid |-> kpid[k], birth |-> os[kpid[k]].birth]}
      <4>1. os[kpid[k]] \in Process
        BY <3>1, <3>2 DEF Listed, Live, Exists, WorldType, Table
      <4>2. os[kpid[k]].birth \in 0..MaxBirths
        BY <4>1 DEF Process
      <4> QED
        BY <1>2, <3>1, <3>2, <4>2 DEF verifyLive, HistoryType
    <3>3. CASE UNCHANGED listed
      BY <1>2, <3>3 DEF verifyLive, HistoryType
    <3> QED
      BY <1>2, <3>2, <3>3 DEF verifyLive
  <2> QED
    BY <1>2, <2>1, <2>2 DEF verifyLive, osVars, WorldType
<1>3. CASE SigTerm(k)
  <2>1. kpid[k] \in Pids /\ TimeLeft(clock)
    BY <1>3 DEF SigTerm, KillGoto, KillType
  <2>2. KillType'
    BY <1>3 DEF SigTerm, KillGoto, KillAnswer, KillType, osVars, TimeLeft
  <2>3. WorldType'
    BY <1>3 DEF SigTerm, WorldType, osVars
  <2>4. CASE Deliverable(kpid[k])
    <3>1. EscalateType'
      BY <1>3, <2>1, <2>4, ProcessConstants DEF SigTerm, EscalateType, WorldType, TimeLeft
    <3>2. HistoryType'
      BY <1>3, <2>1, <2>4, DeliverType DEF SigTerm
    <3> QED
      BY <1>3, <2>2, <2>3, <3>1, <3>2 DEF SigTerm
  <2>5. CASE ~Deliverable(kpid[k])
    BY <1>3, <2>2, <2>3, <2>5 DEF SigTerm, history
  <2> QED
    BY <2>4, <2>5
<1> QED
  BY <1>1, <1>2, <1>3

(***************************************************************************)
(* So do the steps of an escalation.                                       *)
(***************************************************************************)
LEMMA EscalateKeepsTypes ==
    ASSUME TypeInv, NEW k \in Slots, Escalate(k)
    PROVE  TypeInv'
<1> USE TypeParts, TypeFrames
<1>1. CASE Wake(k)
  <2>1. EscalateType'
    BY <1>1 DEF Wake, EscalateType
  <2> QED
    BY <1>1, <2>1 DEF Wake, osVars, WorldType
<1>2. CASE SigKill(k)
  <2>1. epid[k] \in Pids
    BY <1>2 DEF SigKill, EscalateType
  <2>2. EscalateType'
    BY <1>2 DEF SigKill, EscalateType
  <2>3. WorldType'
    BY <1>2, <2>1, AfterExit DEF SigKill, WorldType, Live, Deliverable
  <2>4. HistoryType'
    BY <1>2, <2>1, DeliverType DEF SigKill, HistoryType
  <2> QED
    BY <1>2, <2>2, <2>3, <2>4 DEF SigKill
<1> QED
  BY <1>1, <1>2 DEF Escalate

(***************************************************************************)
(* So do the steps of SpawnDetached and reap.                              *)
(***************************************************************************)
LEMMA SpawnKeepsTypes ==
    ASSUME TypeInv, NEW s \in Spawners,
           (\E a \in Apps \cup {EmptyApp} : SpawnDetached(s, a)) \/ SpawnStep(s) \/ reap(s)
    PROVE  TypeInv'
<1> USE TypeParts, TypeFrames
<1>1. ASSUME NEW a \in Apps \cup {EmptyApp}, SpawnDetached(s, a)  PROVE TypeInv'
  <2>1. SpawnType'
    BY <1>1 DEF SpawnDetached, SpawnGoto, SpawnType
  <2> QED
    BY <1>1, <2>1 DEF SpawnDetached, osVars, WorldType
<1>2. CASE OpenDevNullR(s) \/ OpenDevNullW(s) \/ StartFails(s)
  <2>1. SpawnType'
    BY <1>2 DEF OpenDevNullR, OpenDevNullW, StartFails, SpawnGoto, SpawnType
  <2> QED
    BY <1>2, <2>1 DEF OpenDevNullR, OpenDevNullW, StartFails, osVars, WorldType
<1>3. ASSUME NEW p \in Pids, StartChild(s, p)  PROVE TypeInv'
  <2>1. sapp[s] \in Apps
    BY <1>3 DEF StartChild, SpawnGoto, SpawnType
  <2>2. WorldType'
    BY <1>3, <2>1, NewProcess DEF StartChild, WorldType
  <2>3. SpawnType'
    BY <1>3 DEF StartChild, SpawnGoto, SpawnType
  <2> QED
    BY <1>3, <2>2, <2>3 DEF StartChild
<1>4. CASE reap(s)
  <2>1. WorldType'
    BY <1>4 DEF reap, WorldType, Table
  <2>2. SpawnType'
    BY <1>4 DEF reap, SpawnType
  <2> QED
    BY <1>4, <2>1, <2>2 DEF reap
<1> QED
  BY <1>1, <1>2, <1>3, <1>4 DEF SpawnStep

(***************************************************************************)
(* So does the end of the dashboard.                                       *)
(***************************************************************************)
LEMMA ShutdownKeepsTypes == TypeInv /\ Shutdown => TypeInv'
<1> SUFFICES ASSUME TypeInv, Shutdown PROVE TypeInv'
  OBVIOUS
<1> USE TypeParts
<1>1. ASSUME NEW p \in Pids  PROVE os'[p] \in Process \cup {NoProcess}
  <2>1. CASE ~Exists(p) \/ p = SelfPid
    BY <2>1 DEF Shutdown
  <2>2. CASE Exists(p) /\ p # SelfPid
    <3>1. os[p] \in Process
      BY <2>2 DEF WorldType, Table, Exists
    <3>2. [os[p] EXCEPT !.parent = "other"] \in Process
      BY <3>1, ProcessUpdates
    <3>3. os'[p] \in {NoProcess, [os[p] EXCEPT !.parent = "other"]}
      BY <2>2 DEF Shutdown
    <3> QED
      BY <3>2, <3>3
  <2> QED
    BY <2>1, <2>2
<1>2. WorldType'
  <2>1. os' = [p \in Pids |-> os'[p]]
    BY DEF Shutdown
  <2> HIDE DEF Shutdown
  <2>2. os' \in Table
    BY <1>1, <2>1 DEF Table
  <2> QED
    BY <2>2 DEF Shutdown, WorldType
<1>3. KillType' /\ EscalateType' /\ SpawnType' /\ HistoryType'
  BY DEF Shutdown, KillType, EscalateType, SpawnType, HistoryType, history
<1> QED
  BY <1>2, <1>3

(***************************************************************************)
(* Type correctness of the process table, the calls, the escalations, the  *)
(* spawns and the record of signals.                                       *)
(***************************************************************************)
LEMMA TypesInitially == Init => TypeInv
<1> SUFFICES ASSUME Init PROVE TypeInv
  OBVIOUS
<1>1. WorldType
  BY ProcessConstants DEF Init, WorldType, Table, Process
<1>2. KillType /\ EscalateType /\ SpawnType /\ HistoryType
  BY ProcessConstants DEF Init, KillType, EscalateType, SpawnType, HistoryType
<1> QED
  BY <1>1, <1>2, TypeParts

\* Every step keeps the types.
LEMMA TypesInductive == TypeInv /\ [Next]_pmVars => TypeInv'
<1> SUFFICES ASSUME TypeInv, [Next]_pmVars PROVE TypeInv'
  OBVIOUS
<1>1. CASE UNCHANGED pmVars
  BY <1>1, TypeParts, TypeFrames DEF pmVars, osVars, WorldType
<1> QED
  BY <1>1, WorldKeepsTypes, KillKeepsTypes, EscalateKeepsTypes, SpawnKeepsTypes,
     ShutdownKeepsTypes, ProcessConstants DEF Next, KillStep

\* The types hold in every reachable state.
LEMMA TypesInvariant == Spec => []TypeInv
  BY TypesInitially, TypesInductive, PTL DEF Spec

(***************************************************************************)
(* The type invariant the runs check.                                      *)
(***************************************************************************)
THEOREM TypeCorrect == Spec => []TypeOK
<1>1. TypeInv => TypeOK
  BY DEF TypeInv
<1> QED
  BY <1>1, TypesInvariant, PTL

-----------------------------------------------------------------------------
(***************************************************************************)
(* One step of the process table, for one pid: it stays free, keeps its    *)
(* process, loses it, or gets one that is younger than all and runs one of *)
(* the programs.                                                           *)
(***************************************************************************)
Evolves(p) ==
    \/ os'[p] = NoProcess
    \/ Exists(p) /\ os'[p].birth = os[p].birth /\ os'[p].app = os[p].app /\ births' >= births
    \/ /\ os'[p].birth = births + 1 /\ os'[p].app \in Apps /\ births' = births + 1
       /\ PidsAreReused \/ p = SelfPid + births + 1

(***************************************************************************)
(* Every step, whoever takes it, lets every pid evolve like that.          *)
(***************************************************************************)
LEMMA TableEvolves ==
    ASSUME TypeInv, [Next]_pmVars, NEW p \in Pids
    PROVE  Evolves(p) /\ births' \in 0..MaxBirths /\ births' >= births
<1> USE TypeParts
<1>0. births \in 0..MaxBirths /\ MaxBirths \in Nat /\ os \in Table
  BY ProcessConstants DEF WorldType
<1>1. CASE UNCHANGED <<os, births>>
  BY <1>0, <1>1 DEF Evolves, Exists
<1>2. ASSUME NEW q \in Pids, Start(q)  PROVE Evolves(p) /\ births' \in 0..MaxBirths /\ births' >= births
  <2>1. PICK a \in Apps : Put(q, a, "other", "own")
    BY <1>2 DEF Start
  <2> QED
    BY <1>0, <1>2, <2>1, NewProcess DEF Start, Fresh, Evolves, Exists
<1>3. ASSUME NEW q \in Pids, Bind(q)  PROVE Evolves(p) /\ births' \in 0..MaxBirths /\ births' >= births
  <2>1. os[q] \in Process
    BY <1>0, <1>3 DEF Bind, Live, Exists, Table
  <2>2. [os[q] EXCEPT !.bound = TRUE].birth = os[q].birth
        /\ [os[q] EXCEPT !.bound = TRUE].app = os[q].app
    BY <2>1, ProcessUpdates
  <2> QED
    BY <1>0, <1>3, <2>2 DEF Bind, Live, Evolves, Exists, Table
<1>4. ASSUME NEW q \in Pids, Exit(q)  PROVE Evolves(p) /\ births' \in 0..MaxBirths /\ births' >= births
  BY <1>0, <1>4, AfterExit DEF Exit, Live, Evolves
<1>5. ASSUME NEW k \in Slots, SigKill(k)  PROVE Evolves(p) /\ births' \in 0..MaxBirths /\ births' >= births
  <2>1. epid[k] \in Pids
    BY <1>5 DEF SigKill, EscalateType
  <2>2. CASE Live(epid[k]) /\ os' = Gone(os, epid[k])
    BY <1>0, <1>5, <2>1, <2>2, AfterExit DEF SigKill, Live, Evolves
  <2>3. CASE UNCHANGED os
    BY <1>0, <1>1, <1>5, <2>3 DEF SigKill
  <2> QED
    BY <1>5, <2>2, <2>3 DEF SigKill
<1>6. ASSUME NEW s \in Spawners, NEW q \in Pids, StartChild(s, q)
      PROVE  Evolves(p) /\ births' \in 0..MaxBirths /\ births' >= births
  <2>1. sapp[s] \in Apps
    BY <1>6 DEF StartChild, SpawnGoto, SpawnType
  <2> QED
    BY <1>0, <1>6, <2>1, NewProcess DEF StartChild, Fresh, Evolves, Exists
<1>7. ASSUME NEW s \in Spawners, reap(s)  PROVE Evolves(p) /\ births' \in 0..MaxBirths /\ births' >= births
  BY <1>0, <1>7 DEF reap, Evolves, Exists, Table
<1>8. CASE Shutdown
  <2>1. births' = births
    BY <1>8 DEF Shutdown
  <2>2. CASE os'[p] = os[p] \/ os'[p] = NoProcess
    BY <1>0, <2>1, <2>2 DEF Evolves, Exists
  <2>3. CASE Exists(p) /\ os'[p] = [os[p] EXCEPT !.parent = "other"]
    <3>1. os[p] \in Process
      BY <1>0, <2>3 DEF Exists, Table
    <3>2. [os[p] EXCEPT !.parent = "other"].birth = os[p].birth
          /\ [os[p] EXCEPT !.parent = "other"].app = os[p].app
      BY <3>1, ProcessUpdates
    <3>3. os'[p].birth = os[p].birth /\ os'[p].app = os[p].app
      BY <2>3, <3>2
    <3> QED
      BY <1>0, <2>1, <2>3, <3>3 DEF Evolves
  <2> QED
    BY <1>8, <2>2, <2>3 DEF Shutdown
<1> QED
  BY <1>1, <1>2, <1>3, <1>4, <1>5, <1>6, <1>7, <1>8
  DEF Next, World, KillStep, Escalate, SpawnStep, Tick, Kill, verifyLive, SigTerm, Wake,
      SpawnDetached, OpenDevNullR, OpenDevNullW, StartFails, pmVars, osVars

(***************************************************************************)
(* What a scan listed is not younger than what holds the pid now, and a    *)
(* call that is about to signal had its pid listed.                        *)
(***************************************************************************)
ScanInv ==
    /\ \A p \in Pids : Exists(p) => os[p].birth <= births
    /\ \A l \in listed : /\ l.birth <= births
                         /\ Exists(l.pid) => l.birth <= os[l.pid].birth
    /\ \A k \in Slots : kpc[k] = "signal" => \E l \in listed : l.pid = kpid[k]
    /\ TermFollowsScan

(***************************************************************************)
(* No step breaks the scan invariant.                                      *)
(***************************************************************************)
LEMMA ScanInductive == TypeInv /\ TypeInv' /\ ScanInv /\ [Next]_pmVars => ScanInv'
<1> SUFFICES ASSUME TypeInv, TypeInv', ScanInv, [Next]_pmVars PROVE ScanInv'
  OBVIOUS
<1> USE TypeParts
<1>1. births \in Nat /\ births' \in Nat /\ births' >= births
  BY TableEvolves, ProcessConstants DEF WorldType
<1>2. \A p \in Pids : Exists(p) => os[p] \in Process /\ os[p].birth \in Nat
  BY ProcessConstants DEF WorldType, Table, Exists, Process
<1>3. \A l \in listed : l.pid \in Pids /\ l.birth \in Nat
  BY ProcessConstants DEF HistoryType
<1>4. (\A p \in Pids : Exists(p) => os[p].birth <= births)'
  BY <1>1, <1>2, TableEvolves DEF ScanInv, Exists, Evolves
<1>5. \A l \in listed : l.birth <= births' /\ (Exists(l.pid)' => l.birth <= os'[l.pid].birth)
  BY <1>1, <1>2, <1>3, TableEvolves DEF ScanInv, Exists, Evolves
<1>6. CASE UNCHANGED <<listed, sigs>> /\ \A k \in Slots : kpc'[k] = "signal" => kpc[k] = "signal" /\ kpid'[k] = kpid[k]
  BY <1>4, <1>5, <1>6 DEF ScanInv, TermFollowsScan
<1>7. ASSUME NEW k \in Slots, verifyLive(k)  PROVE ScanInv'
  <2>1. UNCHANGED <<os, births, sigs, kpid>>
    BY <1>7 DEF verifyLive, osVars
  <2>2. CASE UNCHANGED listed
    <3>1. \A j \in Slots : kpc'[j] = "signal" => kpc[j] = "signal" \/ (j = k /\ kpid[k] \in Listed)
      BY <1>7 DEF verifyLive, KillGoto, KillType
    <3>2. kpid[k] \in Listed /\ kpc'[k] = "signal" => \E l \in listed : l.pid = kpid[k]
      <4> SUFFICES ASSUME kpid[k] \in Listed, kpc'[k] = "signal"
                   PROVE  \E l \in listed : l.pid = kpid[k]
        OBVIOUS
      <4> DEFINE n == [pid |-> kpid[k], birth |-> os[kpid[k]].birth]
      <4>1. kpc'[k] # "idle"
        OBVIOUS
      <4>2. listed' = listed \cup {n}
        BY <1>7, <4>1 DEF verifyLive, KillGoto, KillType
      <4>3. n \in listed /\ n.pid = kpid[k]
        BY <2>2, <4>2
      <4> QED
        BY <4>3
    <3> QED
      BY <1>4, <1>5, <2>1, <2>2, <3>1, <3>2 DEF ScanInv, TermFollowsScan
  <2>3. CASE kpid[k] \in Listed /\ listed' = listed \cup {[pid |-> kpid[k], birth |-> os[kpid[k]].birth]}
    <3> DEFINE n == [pid |-> kpid[k], birth |-> os[kpid[k]].birth]
    <3>1. n \in listed' /\ n.pid = kpid[k] /\ n.birth = os[kpid[k]].birth
      BY <2>3
    <3>2. kpid[k] \in Pids /\ Exists(kpid[k])
      BY <2>3 DEF Listed, Live
    <3>3. n.birth <= births' /\ n.birth <= os'[n.pid].birth
      BY <1>2, <2>1, <3>1, <3>2 DEF ScanInv
    <3>4. \A j \in Slots : kpc'[j] = "signal" => kpc[j] = "signal" \/ j = k
      BY <1>7 DEF verifyLive, KillGoto, KillType
    <3>5. listed' = listed \cup {n}
      BY <2>3
    <3> HIDE DEF n
    <3>6. \A j \in Slots : kpc'[j] = "signal" => \E l \in listed' : l.pid = kpid'[j]
      BY <2>1, <3>1, <3>4, <3>5 DEF ScanInv
    <3>7. TermFollowsScan'
      BY <2>1, <3>5 DEF ScanInv, TermFollowsScan
    <3>8. ASSUME NEW l \in listed'
          PROVE  l.birth <= births' /\ (Exists(l.pid)' => l.birth <= os'[l.pid].birth)
      <4>1. CASE l \in listed
        BY <1>5, <4>1
      <4>2. CASE l = n
        BY <3>3, <4>2 DEF Exists
      <4> QED
        BY <3>5, <4>1, <4>2
    <3> QED
      BY <1>4, <3>6, <3>7, <3>8 DEF ScanInv
  <2> QED
    BY <1>7, <2>2, <2>3 DEF verifyLive
<1>8. ASSUME NEW k \in Slots, SigTerm(k)  PROVE ScanInv'
  <2>1. UNCHANGED <<os, births, listed, kpid>>
    BY <1>8 DEF SigTerm, osVars
  <2>2. \A j \in Slots : kpc'[j] = "signal" => kpc[j] = "signal"
    BY <1>8 DEF SigTerm, KillGoto, KillType
  <2>3. CASE Deliverable(kpid[k])
    <3> DEFINE t == [sig |-> "SIGTERM", pid |-> kpid[k], birth |-> os[kpid[k]].birth,
                     at |-> clock]
    <3>1. sigs' = sigs \cup {t}
      BY <1>8, <2>3 DEF SigTerm, Deliver
    <3>2. PICK l \in listed : l.pid = kpid[k]
      BY <1>8 DEF SigTerm, KillGoto, ScanInv
    <3>3. l.birth <= os[kpid[k]].birth
      BY <2>3, <3>2 DEF ScanInv, Deliverable, Ours
    <3>4. t.pid = kpid[k] /\ t.birth = os[kpid[k]].birth
      OBVIOUS
    <3> HIDE DEF t
    <3>5. TermFollowsScan'
      BY <2>1, <3>1, <3>2, <3>3, <3>4 DEF ScanInv, TermFollowsScan
    <3> QED
      BY <1>4, <1>5, <2>1, <2>2, <3>5 DEF ScanInv
  <2>4. CASE ~Deliverable(kpid[k])
    BY <1>6, <1>8, <2>1, <2>2, <2>4 DEF SigTerm
  <2> QED
    BY <2>3, <2>4
<1>9. ASSUME NEW k \in Slots, SigKill(k)  PROVE ScanInv'
  <2>1. UNCHANGED <<listed, kpc, kpid>>
    BY <1>9 DEF SigKill, killVars
  <2>2. \A t \in sigs' : t.sig = "SIGTERM" => t \in sigs
    BY <1>9 DEF SigKill, Deliver
  <2>3. TermFollowsScan'
    BY <2>1, <2>2 DEF ScanInv, TermFollowsScan
  <2> QED
    BY <1>4, <1>5, <2>1, <2>3 DEF ScanInv
<1>10. ASSUME NEW k \in Slots, NEW p \in Pids, Kill(k, p)  PROVE ScanInv'
  <2>1. \A j \in Slots : kpc'[j] = "signal" => kpc[j] = "signal" /\ kpid'[j] = kpid[j]
    BY <1>10 DEF Kill, KillGoto, KillType
  <2> QED
    BY <1>6, <1>10, <2>1 DEF Kill, history
<1>11. CASE UNCHANGED <<kpc, kpid, listed, sigs>>
  BY <1>6, <1>11
<1>12. CASE Shutdown
  BY <1>6, <1>12 DEF Shutdown, history
<1> QED
  BY <1>7, <1>8, <1>9, <1>10, <1>11, <1>12
  DEF Next, World, Start, Bind, Exit, Tick, KillStep, Escalate, Wake, SpawnStep, SpawnDetached,
      OpenDevNullR, OpenDevNullW, StartFails, StartChild, reap, pmVars, killVars, history

(***************************************************************************)
(* Every reachable state satisfies the scan invariant.                     *)
(***************************************************************************)
LEMMA ScanInvariant == Spec => []ScanInv
<1>1. Init => ScanInv
  BY ProcessConstants DEF Init, ScanInv, TermFollowsScan, Exists
<1> QED
  BY <1>1, TypesInvariant, ScanInductive, PTL DEF Spec

(***************************************************************************)
(* SIGTERM goes only to a process that a verify scan listed, or to one     *)
(* that took the pid over from it.                                         *)
(***************************************************************************)
THEOREM TermsAreListed == Spec => []TermFollowsScan
<1>1. ScanInv => TermFollowsScan
  BY DEF ScanInv
<1> QED
  BY <1>1, ScanInvariant, PTL

(***************************************************************************)
(* When no pid is handed out twice, a pid names one process for ever, so   *)
(* what escalation reaches is what the scan listed.                        *)
(***************************************************************************)
ListedPid(p) == \E l \in listed : l.pid = p

KillsInv ==
    /\ \A p \in Pids : Exists(p) /\ p # SelfPid => os[p].birth = p - SelfPid
    /\ \A l \in listed : l.pid # SelfPid /\ l.birth = l.pid - SelfPid
    /\ \A k \in Slots : epc[k] # "none" => ListedPid(epid[k])
    /\ KilledWasListed

(***************************************************************************)
(* No step breaks it.                                                      *)
(***************************************************************************)
LEMMA KillsInductive ==
    ASSUME ~PidsAreReused, TypeInv, TypeInv', ScanInv, KillsInv, [Next]_pmVars
    PROVE  KillsInv'
<1> USE TypeParts
<1>1. births \in Nat /\ SelfPid \in Nat /\ Pids \subseteq Nat
  BY ProcessConstants DEF WorldType
<1>2. (\A p \in Pids : Exists(p) /\ p # SelfPid => os[p].birth = p - SelfPid)'
  <2> SUFFICES ASSUME NEW p \in Pids, p # SelfPid, os'[p] # NoProcess
               PROVE  os'[p].birth = p - SelfPid
    BY DEF Exists
  <2>1. \/ Exists(p) /\ os'[p].birth = os[p].birth
        \/ os'[p].birth = births + 1 /\ p = SelfPid + births + 1
    BY TableEvolves DEF Evolves
  <2>2. p = SelfPid + births + 1 => p - SelfPid = births + 1
    BY <1>1
  <2> QED
    BY <2>1, <2>2 DEF KillsInv
<1>3. \A l \in listed : l.pid \in Pids /\ l = [pid |-> l.pid, birth |-> l.birth]
  BY DEF HistoryType
<1>4. CASE UNCHANGED <<listed, sigs>> /\ \A k \in Slots : epc'[k] # "none" => epc[k] # "none" /\ epid'[k] = epid[k]
  BY <1>2, <1>4 DEF KillsInv, KilledWasListed, ListedPid
<1>5. ASSUME NEW k \in Slots, verifyLive(k)  PROVE KillsInv'
  <2>1. UNCHANGED <<os, sigs, epc, epid>>
    BY <1>5 DEF verifyLive, osVars, escVars
  <2>2. CASE UNCHANGED listed
    BY <1>4, <2>1, <2>2
  <2>3. CASE kpid[k] \in Listed /\ listed' = listed \cup {[pid |-> kpid[k], birth |-> os[kpid[k]].birth]}
    <3>1. kpid[k] \in Pids /\ kpid[k] # SelfPid /\ os[kpid[k]].birth = kpid[k] - SelfPid
      BY <2>3 DEF Listed, Live, KillsInv
    <3>2. listed \subseteq listed'
      BY <2>3
    <3>3. \A l \in listed' : l.pid # SelfPid /\ l.birth = l.pid - SelfPid
      BY <2>3, <3>1 DEF KillsInv
    <3>4. (\A j \in Slots : epc[j] # "none" => ListedPid(epid[j]))'
      BY <2>1, <3>2 DEF KillsInv, ListedPid
    <3>5. KilledWasListed'
      BY <2>1, <3>2 DEF KillsInv, KilledWasListed
    <3> QED
      BY <1>2, <3>3, <3>4, <3>5 DEF KillsInv, ListedPid
  <2> QED
    BY <1>5, <2>2, <2>3 DEF verifyLive
<1>6. ASSUME NEW k \in Slots, SigTerm(k)  PROVE KillsInv'
  <2>1. UNCHANGED <<os, listed>>
    BY <1>6 DEF SigTerm, osVars
  <2>2. ListedPid(kpid[k])
    BY <1>6 DEF SigTerm, KillGoto, ScanInv, ListedPid
  <2>3. \A s \in sigs' : s.sig = "SIGKILL" => s \in sigs
    BY <1>6 DEF SigTerm, Deliver
  <2>4. \A j \in Slots : epc'[j] # "none" => epid'[j] = kpid[k] \/ (epc[j] # "none" /\ epid'[j] = epid[j])
    BY <1>6 DEF SigTerm, EscalateType, escVars
  <2> QED
    BY <1>2, <2>1, <2>2, <2>3, <2>4 DEF KillsInv, KilledWasListed, ListedPid
<1>7. ASSUME NEW k \in Slots, SigKill(k)  PROVE KillsInv'
  <2>1. UNCHANGED <<listed, epid>> /\ \A j \in Slots : epc'[j] # "none" => epc[j] # "none"
    BY <1>7 DEF SigKill, EscalateType
  <2>2. PICK l \in listed : l.pid = epid[k]
    BY <1>7 DEF SigKill, KillsInv, ListedPid
  <2>3. CASE Deliverable(epid[k])
    <3> DEFINE t == [sig |-> "SIGKILL", pid |-> epid[k], birth |-> os[epid[k]].birth, at |-> clock]
    <3>1. sigs' = sigs \cup {t}
      BY <1>7, <2>3 DEF SigKill, Deliver
    <3>2. t.pid = l.pid /\ t.birth = l.birth
      BY <1>3, <2>2, <2>3 DEF KillsInv, Deliverable, Ours
    <3> HIDE DEF t
    <3>3. [pid |-> t.pid, birth |-> t.birth] \in listed
      BY <1>3, <3>2
    <3>4. KilledWasListed'
      BY <2>1, <3>1, <3>3 DEF KillsInv, KilledWasListed
    <3> QED
      BY <1>2, <2>1, <3>4 DEF KillsInv, ListedPid
  <2>4. CASE ~Deliverable(epid[k])
    BY <1>4, <1>7, <2>1, <2>4 DEF SigKill
  <2> QED
    BY <2>3, <2>4
<1>8. ASSUME NEW k \in Slots, Wake(k)  PROVE KillsInv'
  <2>1. UNCHANGED <<listed, sigs, epid>> /\ \A j \in Slots : epc'[j] # "none" => epc[j] # "none"
    BY <1>8 DEF Wake, EscalateType, history
  <2> QED
    BY <1>4, <2>1
<1>9. CASE UNCHANGED <<epc, epid, listed, sigs>>
  BY <1>4, <1>9
<1>10. CASE Shutdown
  BY <1>4, <1>10 DEF Shutdown, history
<1> QED
  BY <1>5, <1>6, <1>7, <1>8, <1>9, <1>10
  DEF Next, World, Start, Bind, Exit, Tick, KillStep, Escalate, Kill, SpawnStep, SpawnDetached,
      OpenDevNullR, OpenDevNullW, StartFails, StartChild, reap, pmVars, escVars, history

(***************************************************************************)
(* While pids are not reused, everything that gets SIGKILL was itself      *)
(* listed by a verify scan: pm_pid_reuse needs a pid that changes hands.   *)
(***************************************************************************)
THEOREM KillsAreListed == ASSUME ~PidsAreReused PROVE Spec => []KilledWasListed
<1>1. Init => KillsInv
  BY DEF Init, KillsInv, KilledWasListed, Exists
<1>2. KillsInv => KilledWasListed
  BY DEF KillsInv
<1>3. TypeInv /\ TypeInv' /\ ScanInv /\ KillsInv /\ [Next]_pmVars => KillsInv'
  BY KillsInductive
<1>4. Spec => []ScanInv
  BY ScanInvariant
<1> QED
  BY <1>1, <1>2, <1>3, <1>4, TypesInvariant, PTL DEF Spec

-----------------------------------------------------------------------------
(***************************************************************************)
(* The /dev/null descriptors of a spawner follow the step it is at, and    *)
(* its child is in the table, a child of the dashboard in a session of its *)
(* own, until its reaper takes it away.  A reaper takes away nobody else's *)
(* child: no two wait for the same pid.                                    *)
(***************************************************************************)
OurChild(p) == Exists(p) /\ os[p].parent = "dashboard"

FdsMatch(s) ==
    /\ spc[s] = "idle" /\ child[s] = NoPid => fds[s] = {}
    /\ spc[s] = "openR" => fds[s] = {} /\ child[s] = NoPid
    /\ spc[s] = "openW" => fds[s] = {"r"} /\ child[s] = NoPid
    /\ spc[s] = "start" => fds[s] = {"r", "w"} /\ child[s] = NoPid
    /\ child[s] # NoPid => fds[s] = {"r", "w"}

ChildInv ==
    /\ \A s \in Spawners : FdsMatch(s)
    /\ \A s \in Spawners : child[s] # NoPid => OurChild(child[s])
    /\ \A s, t \in Spawners : child[s] # NoPid /\ child[s] = child[t] => s = t
    /\ \A p \in Pids : OurChild(p) => os[p].session = "own"

(***************************************************************************)
(* A step of the world or of an escalation: the dashboard's children stay  *)
(* in the table and nobody joins them.                                     *)
(***************************************************************************)
ChildrenStay ==
    \A p \in Pids :
        /\ OurChild(p) => OurChild(p)'
        /\ OurChild(p)' => OurChild(p) /\ os'[p].session = os[p].session

(***************************************************************************)
(* Such a step cannot break the invariant.                                 *)
(***************************************************************************)
LEMMA ChildFrame ==
    ASSUME SpawnType, ChildInv, ChildrenStay, UNCHANGED spawnVars
    PROVE  ChildInv'
<1>1. UNCHANGED <<spc, fds, child>>
  BY DEF spawnVars
<1>2. \A s \in Spawners : child[s] # NoPid => child[s] \in Pids
  BY DEF SpawnType
<1>3. (\A s \in Spawners : FdsMatch(s))'
  BY <1>1 DEF ChildInv, FdsMatch
<1>4. (\A s \in Spawners : child[s] # NoPid => OurChild(child[s]))'
  <2> SUFFICES ASSUME NEW s \in Spawners, child[s] # NoPid PROVE OurChild(child[s])'
    BY <1>1
  <2>1. PICK p \in Pids : p = child[s]
    BY <1>2
  <2>2. OurChild(p)'
    BY <2>1 DEF ChildInv, ChildrenStay
  <2> QED
    BY <1>1, <2>1, <2>2 DEF OurChild, Exists
<1>5. (\A s, t \in Spawners : child[s] # NoPid /\ child[s] = child[t] => s = t)'
  BY <1>1 DEF ChildInv
<1>6. (\A p \in Pids : OurChild(p) => os[p].session = "own")'
  BY DEF ChildInv, ChildrenStay
<1> QED
  BY <1>3, <1>4, <1>5, <1>6 DEF ChildInv

(***************************************************************************)
(* An exit keeps the dashboard's children: as zombies.                     *)
(***************************************************************************)
LEMMA ExitKeepsChildren ==
    ASSUME os \in Table, NEW p \in Pids, Exists(p), os' = Gone(os, p)
    PROVE  ChildrenStay
<1>1. os[p] \in Process /\ NoProcess \notin Process
  BY NoProcessIsNone DEF Table, Exists
<1> DEFINE z == [os[p] EXCEPT !.zombie = TRUE, !.bound = FALSE]
<1>2. z \in Process /\ z.parent = os[p].parent /\ z.session = os[p].session
  BY <1>1 DEF Process
<1>3. os' = [os EXCEPT ![p] = IF os[p].parent = "dashboard" THEN z ELSE NoProcess]
  BY DEF Gone
<1> HIDE DEF z
<1> QED
  BY <1>1, <1>2, <1>3 DEF Table, ChildrenStay, OurChild, Exists

(***************************************************************************)
(* The steps of the world that touch the table leave its children alone.   *)
(***************************************************************************)
LEMMA WorldKeepsChildren ==
    ASSUME TypeInv, NEW p \in Pids, Start(p) \/ Bind(p) \/ Exit(p)
    PROVE  ChildrenStay
<1>0. os \in Table /\ births \in 0..MaxBirths
  BY TypeParts DEF WorldType
<1>1. CASE Start(p)
  <2>1. PICK a \in Apps : Put(p, a, "other", "own")
    BY <1>1 DEF Start
  <2>2. ~Exists(p) /\ os'[p].parent = "other" /\ \A q \in Pids \ {p} : os'[q] = os[q]
    BY <1>0, <1>1, <2>1, NewProcess DEF Start, Fresh, Exists
  <2> QED
    BY <2>2 DEF ChildrenStay, OurChild, Exists
<1>2. CASE Bind(p)
  <2>1. os[p] \in Process /\ NoProcess \notin Process
    BY <1>0, <1>2, NoProcessIsNone DEF Bind, Live, Exists, Table
  <2> DEFINE b == [os[p] EXCEPT !.bound = TRUE]
  <2>2. b \in Process /\ b.parent = os[p].parent /\ b.session = os[p].session
    BY <2>1 DEF Process
  <2>3. os' = [os EXCEPT ![p] = b]
    BY <1>2 DEF Bind
  <2> HIDE DEF b
  <2> QED
    BY <1>0, <2>1, <2>2, <2>3 DEF Table, ChildrenStay, OurChild, Exists
<1>3. CASE Exit(p)
  BY <1>0, <1>3, ExitKeepsChildren DEF Exit, Live
<1> QED
  BY <1>1, <1>2, <1>3

(***************************************************************************)
(* No step breaks the invariant about children.                            *)
(***************************************************************************)
LEMMA ChildInductive == TypeInv /\ ChildInv /\ [Next]_pmVars => ChildInv'
<1> SUFFICES ASSUME TypeInv, ChildInv, [Next]_pmVars PROVE ChildInv'
  OBVIOUS
<1>0. os \in Table /\ births \in 0..MaxBirths /\ SpawnType /\ EscalateType /\ NoPid \notin Pids
  BY TypeParts, ProcessConstants DEF WorldType
<1>1. CASE UNCHANGED <<os, spawnVars>>
  <2>1. ChildrenStay
    BY <1>1 DEF ChildrenStay, OurChild, Exists
  <2> QED
    BY <1>0, <1>1, <2>1, ChildFrame
<1>2. ASSUME NEW p \in Pids, Start(p) \/ Bind(p) \/ Exit(p)  PROVE ChildInv'
  BY <1>0, <1>2, WorldKeepsChildren, ChildFrame DEF Start, Bind, Exit
<1>3. ASSUME NEW k \in Slots, SigKill(k)  PROVE ChildInv'
  <2>1. epid[k] \in Pids /\ UNCHANGED spawnVars
    BY <1>0, <1>3 DEF SigKill, EscalateType
  <2>2. CASE UNCHANGED os
    BY <1>1, <2>1, <2>2
  <2>3. CASE Live(epid[k]) /\ os' = Gone(os, epid[k])
    BY <1>0, <2>1, <2>3, ExitKeepsChildren, ChildFrame DEF Live
  <2> QED
    BY <1>3, <2>2, <2>3 DEF SigKill
<1>4. ASSUME NEW s \in Spawners, UNCHANGED <<os, child>>,
             \A t \in Spawners : t # s => spc'[t] = spc[t] /\ fds'[t] = fds[t],
             FdsMatch(s)'
      PROVE  ChildInv'
  <2>1. (\A t \in Spawners : FdsMatch(t))'
    BY <1>4 DEF ChildInv, FdsMatch
  <2> QED
    BY <1>4, <2>1 DEF ChildInv, OurChild, Exists
<1>5. ASSUME NEW s \in Spawners, NEW a \in Apps \cup {EmptyApp}, SpawnDetached(s, a)  PROVE ChildInv'
  <2>1. FdsMatch(s)'
    BY <1>0, <1>5 DEF SpawnDetached, SpawnGoto, SpawnType, ChildInv, FdsMatch
  <2> QED
    BY <1>0, <1>4, <1>5, <2>1 DEF SpawnDetached, SpawnGoto, SpawnType, osVars
<1>6. ASSUME NEW s \in Spawners, OpenDevNullR(s) \/ OpenDevNullW(s) \/ StartFails(s)  PROVE ChildInv'
  <2>1. FdsMatch(s)'
    BY <1>0, <1>6 DEF OpenDevNullR, OpenDevNullW, StartFails, SpawnGoto, SpawnType, ChildInv, FdsMatch
  <2> QED
    BY <1>0, <1>4, <1>6, <2>1
    DEF OpenDevNullR, OpenDevNullW, StartFails, SpawnGoto, SpawnType, osVars
<1>7. ASSUME NEW s \in Spawners, NEW p \in Pids, StartChild(s, p)  PROVE ChildInv'
  <2>1. sapp[s] \in Apps
    BY <1>0, <1>7 DEF StartChild, SpawnGoto, SpawnType
  <2>2. /\ ~Exists(p) /\ os'[p] \in Process
        /\ os'[p].parent = "dashboard" /\ os'[p].session = "own"
        /\ \A q \in Pids \ {p} : os'[q] = os[q]
    BY <1>0, <1>7, <2>1, NewProcess DEF StartChild, Fresh, Exists
  <2>3. OurChild(p)' /\ \A q \in Pids \ {p} : OurChild(q)' <=> OurChild(q)
    BY <2>2, NoProcessIsNone DEF OurChild, Exists
  <2>4. /\ spc[s] = "start" /\ spc' = [spc EXCEPT ![s] = "idle"]
        /\ child' = [child EXCEPT ![s] = p] /\ fds' = fds
    BY <1>7 DEF StartChild, SpawnGoto
  <2>5. \A t \in Spawners : child[t] # p
    BY <1>0, <2>2 DEF ChildInv, OurChild
  <2>6. (\A t \in Spawners : FdsMatch(t))'
    BY <1>0, <2>4 DEF SpawnType, ChildInv, FdsMatch
  <2>7. \A t \in Spawners : child'[t] = (IF t = s THEN p ELSE child[t])
    BY <1>0, <2>4 DEF SpawnType
  <2>8. (\A t \in Spawners : child[t] # NoPid => OurChild(child[t]))'
    <3> SUFFICES ASSUME NEW t \in Spawners, child'[t] # NoPid PROVE OurChild(child[t])'
      OBVIOUS
    <3>1. CASE t = s
      BY <2>3, <2>7, <3>1 DEF OurChild, Exists
    <3>2. CASE t # s
      <4>1. PICK q \in Pids : q = child[t] /\ q # p /\ child'[t] = q
        BY <1>0, <2>5, <2>7, <3>2 DEF SpawnType
      <4>2. OurChild(q)'
        BY <2>3, <2>7, <4>1, <3>2 DEF ChildInv
      <4> QED
        BY <4>1, <4>2 DEF OurChild, Exists
    <3> QED
      BY <3>1, <3>2
  <2>9. (\A t, u \in Spawners : child[t] # NoPid /\ child[t] = child[u] => t = u)'
    BY <2>5, <2>7 DEF ChildInv
  <2>10. (\A q \in Pids : OurChild(q) => os[q].session = "own")'
    BY <2>2, <2>3 DEF ChildInv
  <2> QED
    BY <2>6, <2>8, <2>9, <2>10 DEF ChildInv
<1>8. ASSUME NEW s \in Spawners, reap(s)  PROVE ChildInv'
  <2>1. PICK p \in Pids : p = child[s]
    BY <1>0, <1>8 DEF reap, SpawnType
  <2>2. /\ os' = [os EXCEPT ![p] = NoProcess] /\ UNCHANGED spc
        /\ child' = [child EXCEPT ![s] = NoPid] /\ fds' = [fds EXCEPT ![s] = {}]
    BY <1>8, <2>1 DEF reap
  <2>3. /\ \A t \in Spawners : child'[t] = (IF t = s THEN NoPid ELSE child[t])
        /\ \A t \in Spawners : fds'[t] = (IF t = s THEN {} ELSE fds[t])
    BY <1>0, <2>2 DEF SpawnType
  <2>4. ~OurChild(p)' /\ \A q \in Pids \ {p} : os'[q] = os[q] /\ (OurChild(q)' <=> OurChild(q))
    BY <1>0, <2>2 DEF Table, OurChild, Exists
  <2>5. (\A t \in Spawners : FdsMatch(t))'
    <3>1. spc[s] = "idle"
      BY <1>0, <2>1 DEF SpawnType, ChildInv, FdsMatch
    <3> QED
      BY <2>2, <2>3, <3>1 DEF ChildInv, FdsMatch
  <2>6. (\A t \in Spawners : child[t] # NoPid => OurChild(child[t]))'
    <3> SUFFICES ASSUME NEW t \in Spawners, child'[t] # NoPid PROVE OurChild(child[t])'
      OBVIOUS
    <3>1. t # s /\ child'[t] = child[t]
      BY <2>3
    <3>2. PICK q \in Pids : q = child[t] /\ q # p /\ child'[t] = q
      BY <1>0, <1>8, <2>1, <3>1 DEF SpawnType, ChildInv
    <3>3. OurChild(q)'
      BY <2>4, <3>1, <3>2 DEF ChildInv
    <3> QED
      BY <3>2, <3>3 DEF OurChild, Exists
  <2>7. (\A t, u \in Spawners : child[t] # NoPid /\ child[t] = child[u] => t = u)'
    BY <2>3 DEF ChildInv
  <2>8. (\A q \in Pids : OurChild(q) => os[q].session = "own")'
    BY <2>4 DEF ChildInv
  <2> QED
    BY <2>5, <2>6, <2>7, <2>8 DEF ChildInv
<1>9. CASE Shutdown
  <2>1. \A s \in Spawners : spc'[s] = "idle" /\ fds'[s] = {} /\ child'[s] = NoPid
    BY <1>9 DEF Shutdown
  <2>2. \A p \in Pids : ~OurChild(p)'
    <3> SUFFICES ASSUME NEW p \in Pids, OurChild(p)' PROVE FALSE
      OBVIOUS
    <3>1. Exists(p) /\ os'[p] = [os[p] EXCEPT !.parent = "other"]
      BY <1>9 DEF Shutdown, OurChild, Exists
    <3>2. os[p] \in Process
      BY <1>0, <3>1 DEF Table, Exists
    <3>3. os'[p].parent = "other"
      BY <3>1, <3>2 DEF Process
    <3> QED
      BY <3>3 DEF OurChild
  <2> QED
    BY <2>1, <2>2 DEF ChildInv, FdsMatch
<1> QED
  BY <1>1, <1>2, <1>3, <1>5, <1>6, <1>7, <1>8, <1>9
  DEF Next, World, KillStep, Escalate, SpawnStep, Tick, Kill, verifyLive, SigTerm, Wake,
      pmVars, osVars

(***************************************************************************)
(* Every reachable state satisfies it.                                     *)
(***************************************************************************)
LEMMA ChildInvariant == Spec => []ChildInv
<1>1. Init => ChildInv
  BY ProcessConstants DEF Init, ChildInv, FdsMatch, OurChild, Exists
<1> QED
  BY <1>1, TypesInvariant, ChildInductive, PTL DEF Spec

(***************************************************************************)
(* Every /dev/null descriptor that a start opened is closed, on the error  *)
(* paths as well as by the reaper, and a reaper's child is there to be     *)
(* waited for.                                                             *)
(***************************************************************************)
THEOREM DescriptorsAreClosed == Spec => []FdsFollowChildren
<1>1. ChildInv => FdsFollowChildren
  BY DEF ChildInv, FdsMatch, OurChild, FdsFollowChildren
<1> QED
  BY <1>1, ChildInvariant, PTL

(***************************************************************************)
(* The end of the dashboard, orderly or by a terminal interrupt, disturbs  *)
(* no process but itself: what it restarted runs in a session of its own.  *)
(***************************************************************************)
THEOREM ChildrenSurvive == Spec => ChildrenOutliveDashboard
<1> DEFINE Undisturbed == dash' # dash =>
               \A p \in Pids : Live(p) /\ p # SelfPid => Live(p)' /\ os'[p].birth = os[p].birth
<1>1. TypeInv /\ ChildInv /\ [Next]_pmVars => [Undisturbed]_pmVars
  <2> SUFFICES ASSUME TypeInv, ChildInv, Next, dash' # dash,
                      NEW p \in Pids, Live(p), p # SelfPid
               PROVE  Live(p)' /\ os'[p].birth = os[p].birth
    OBVIOUS
  <2>1. Shutdown
    BY DEF Next, World, Start, Bind, Exit, Tick, KillStep, Escalate, Wake, SigKill, Kill,
           verifyLive, SigTerm, SpawnStep, SpawnDetached, OpenDevNullR, OpenDevNullW,
           StartFails, StartChild, reap
  <2>2. os[p] \in Process /\ NoProcess \notin Process /\ ~os[p].zombie
    BY TypeParts, NoProcessIsNone DEF WorldType, Table, Live, Exists
  <2>3. os'[p] = [os[p] EXCEPT !.parent = "other"]
    BY <2>1 DEF Shutdown, Live, ChildInv, OurChild
  <2> DEFINE o == [os[p] EXCEPT !.parent = "other"]
  <2>4. o \in Process /\ o.birth = os[p].birth /\ o.zombie = os[p].zombie
    BY <2>2 DEF Process
  <2> QED
    BY <2>2, <2>3, <2>4 DEF Live, Exists
<1>2. Spec => [][Undisturbed]_pmVars
  BY <1>1, TypesInvariant, ChildInvariant, PTL DEF Spec
<1> QED
  BY <1>2 DEF ChildrenOutliveDashboard

=============================================================================
