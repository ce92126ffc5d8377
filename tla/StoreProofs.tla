---------------------------- MODULE StoreProofs ----------------------------
(***************************************************************************)
(* Theorems about Store, for every set of goroutines, keys and labels,     *)
(* every cap and size limit and any number of calls and stops.             *)
(***************************************************************************)
EXTENDS Store, FiniteSetTheorems, WellFoundedInduction, TLAPS

(***************************************************************************)
(* Setting or clearing a label keeps the label table a table of labels.    *)
(***************************************************************************)
LEMMA RelabelType ==
    ASSUME NEW L \in SUBSET labelEntry, NEW key \in Keys,
           NEW text \in Texts \cup {NoText}, NEW at \in Times
    PROVE  Relabel(L, key, text, at) \in SUBSET labelEntry
<1>1. CASE text = NoText
  BY <1>1 DEF Relabel
<1>2. CASE text # NoText
  <2>1. [key |-> key, text |-> text, at |-> at] \in labelEntry
    BY <1>2 DEF labelEntry
  <2> QED
    BY <1>2, <2>1 DEF Relabel
<1> QED
  BY <1>1, <1>2

(***************************************************************************)
(* A call tagged with an operation carries that operation's arguments.     *)
(***************************************************************************)
LEMMA CallFields ==
    ASSUME NEW c \in Calls
    PROVE  /\ c.op = "SetLabel" => c.key \in Keys /\ c.text \in Texts \cup {NoText}
           /\ c.op = "Remember" => c.key \in Keys /\ c.bytes \in EntryBytes
BY DEF Calls, SetLabelCalls, RememberCalls, DeleteCalls

(***************************************************************************)
(* A goroutine moves to a known point with a known answer.                 *)
(***************************************************************************)
LEMMA PointsAndAnswers ==
    ASSUME TypeOK, NEW t \in Threads
    PROVE  /\ \A from, to \in Points : Goto(t, from, to) => pc' \in [Threads -> Points]
           /\ \A r \in Answers : Answer(t, r) => res' \in [Threads -> Answers]
BY DEF TypeOK, Goto, Answer

(***************************************************************************)
(* The constants the actions write have the types of their variables.      *)
(***************************************************************************)
LEMMA ConstantTypes ==
    /\ Empty \in persisted
    /\ NoTmp \in File
    /\ \A b \in Body, s \in BOOLEAN : [body |-> b, synced |-> s] \in File
    /\ persisted \subseteq Body /\ Torn \in Body /\ NoFile \in Body
    /\ \A f \in File : f.body \in Body /\ f.synced \in BOOLEAN /\ Settled(f) \in Body
<1>1. Empty \in persisted
  BY DEF Empty, persisted
<1> QED
  BY <1>1 DEF NoTmp, File, Body, Settled

(***************************************************************************)
(* A counter below its bound can be counted up.                            *)
(***************************************************************************)
LEMMA CountUp ==
    ASSUME NEW M \in Nat, NEW n \in 0..M, n < M
    PROVE  n + 1 \in 0..M
OBVIOUS

(***************************************************************************)
(* The bounds the model puts on calls and stops are natural numbers, and   *)
(* no goroutine stands for the free mutex.                                 *)
(***************************************************************************)
LEMMA Bounds == MaxCalls \in Nat /\ MaxStops \in Nat /\ NoThread \notin Threads
BY StoreConstants

(***************************************************************************)
(* The type invariant is inductive.                                        *)
(***************************************************************************)
LEMMA TypeInductive == TypeOK /\ [Next]_vars => TypeOK'
<1> SUFFICES ASSUME TypeOK, [Next]_vars
             PROVE  TypeOK'
  OBVIOUS
<1>0. /\ "idle" \in Points /\ "lock" \in Points /\ "persist" \in Points
      /\ "open" \in Points /\ "write" \in Points /\ "sync" \in Points
      /\ "close" \in Points /\ "rename" \in Points /\ "cleanup" \in Points
      /\ "return" \in Points
      /\ "none" \in Answers /\ "nil" \in Answers /\ "error" \in Answers
      /\ "nil, not persisted" \in Answers /\ "ErrLabelTooLong" \in Answers
  BY DEF Points, InFlight, Answers
<1> USE DEF TypeOK, boundVars, fileVars
<1>1. ASSUME NEW t \in Threads, BeginCall(t)
      PROVE  TypeOK'
  <2>1. pc' \in [Threads -> Points] /\ res' \in [Threads -> Answers]
    BY <1>0, <1>1, PointsAndAnswers DEF BeginCall
  <2>2. call' \in [Threads -> Calls \cup {NoCall}]
    BY <1>1 DEF BeginCall
  <2>3. calls' \in 0..MaxCalls
    BY <1>1, Bounds, CountUp DEF BeginCall
  <2> QED
    BY <1>1, <2>1, <2>2, <2>3 DEF BeginCall
<1>2. ASSUME NEW t \in Threads, SetLabelTooLong(t)
      PROVE  TypeOK'
  BY <1>0, <1>2, PointsAndAnswers, ConstantTypes DEF SetLabelTooLong
<1>3. ASSUME NEW t \in Threads, Read(t)
      PROVE  TypeOK'
  BY <1>3 DEF Read
<1>4. ASSUME NEW t \in Threads, SetLabel(t)
      PROVE  TypeOK'
  <2>1. call[t] \in Calls /\ call[t].op = "SetLabel"
    BY <1>4 DEF SetLabel, Lock
  <2>2. PICK at \in Times : data' =
            [data EXCEPT !.labels = Relabel(data.labels, call[t].key, call[t].text, at)]
    BY <1>4 DEF SetLabel
  <2>3. data.labels \in SUBSET labelEntry
    BY DEF persisted
  <2>4. Relabel(data.labels, call[t].key, call[t].text, at) \in SUBSET labelEntry
    BY <2>1, <2>3, CallFields, RelabelType
  <2>5. data' \in persisted
    BY <2>2, <2>4 DEF persisted
  <2> QED
    BY <1>0, <1>4, <2>5, PointsAndAnswers DEF SetLabel, Lock
<1>5. ASSUME NEW t \in Threads, Remember(t)
      PROVE  TypeOK'
  <2> DEFINE r == [id |-> nextId, key |-> call[t].key, bytes |-> call[t].bytes]
             R == evictGlobalLocked(evictPerKeyLocked(data.remembered \cup {r}, r.key))
  <2>1. call[t] \in Calls /\ call[t].op = "Remember" /\ nextId \in Ids
    BY <1>5 DEF Remember, Lock
  <2>2. r \in Remembered
    BY <2>1, CallFields DEF Remembered
  <2>3. R \subseteq data.remembered \cup {r}
    BY DEF evictGlobalLocked, evictPerKeyLocked
  <2>4. data' = [data EXCEPT !.remembered = R]
    BY <1>5 DEF Remember
  <2>5. data' \in persisted
    BY <2>2, <2>3, <2>4 DEF persisted
  <2>6. nextId' \in Nat
    BY <1>5 DEF Remember
  <2> QED
    BY <1>0, <1>5, <2>5, <2>6, PointsAndAnswers DEF Remember, Lock
<1>6. ASSUME NEW t \in Threads, RememberNoULID(t)
      PROVE  TypeOK'
  BY <1>0, <1>6, PointsAndAnswers, ConstantTypes DEF RememberNoULID, Lock
<1>7. ASSUME NEW t \in Threads, DeleteRemembered(t)
      PROVE  TypeOK'
  <2>1. data' \in persisted
    BY <1>7 DEF DeleteRemembered, persisted
  <2> QED
    BY <1>0, <1>7, <2>1, PointsAndAnswers DEF DeleteRemembered, Lock
<1>8. ASSUME NEW t \in Threads, DeleteRememberedMissing(t)
      PROVE  TypeOK'
  BY <1>0, <1>8, PointsAndAnswers, ConstantTypes DEF DeleteRememberedMissing, Lock
<1>9. ASSUME NEW t \in Threads, EvictOldestRemembered(t)
      PROVE  TypeOK'
  <2>1. data' \in persisted
    BY <1>9 DEF EvictOldestRemembered, persisted
  <2> QED
    BY <1>9, <2>1 DEF EvictOldestRemembered
<1>10. ASSUME NEW t \in Threads, evictOldestLabelLocked(t)
       PROVE  TypeOK'
  <2>1. PICK l \in Oldest(data.labels) : data' = [data EXCEPT !.labels = data.labels \ {l}]
    BY <1>10 DEF evictOldestLabelLocked
  <2>2. data' \in persisted
    BY <2>1 DEF persisted
  <2> QED
    BY <1>10, <2>2 DEF evictOldestLabelLocked
<1>11. ASSUME NEW t \in Threads, Marshal(t)
       PROVE  TypeOK'
  BY <1>0, <1>11, PointsAndAnswers, ConstantTypes DEF Marshal
<1>12. ASSUME NEW t \in Threads, OpenTmp(t)
       PROVE  TypeOK'
  BY <1>0, <1>12, PointsAndAnswers, ConstantTypes DEF OpenTmp
<1>13. ASSUME NEW t \in Threads, WriteTmp(t)
       PROVE  TypeOK'
  BY <1>0, <1>13, PointsAndAnswers, ConstantTypes DEF WriteTmp
<1>14. ASSUME NEW t \in Threads, SyncTmp(t)
       PROVE  TypeOK'
  BY <1>0, <1>14, PointsAndAnswers DEF SyncTmp, File
<1>15. ASSUME NEW t \in Threads, CloseTmp(t)
       PROVE  TypeOK'
  BY <1>0, <1>15, PointsAndAnswers, ConstantTypes DEF CloseTmp
<1>16. ASSUME NEW t \in Threads, Rename(t)
       PROVE  TypeOK'
  BY <1>0, <1>16, PointsAndAnswers, ConstantTypes DEF Rename
<1>17. ASSUME NEW t \in Threads, RemoveTmp(t)
       PROVE  TypeOK'
  BY <1>0, <1>17, PointsAndAnswers, ConstantTypes DEF RemoveTmp
<1>18. ASSUME NEW t \in Threads, Return(t)
       PROVE  TypeOK'
  BY <1>0, <1>18, PointsAndAnswers, ConstantTypes DEF Return
<1>19. CASE Flush
  BY <1>19, ConstantTypes DEF Flush
<1>20. ASSUME ForgetMemory
       PROVE  /\ TypeOK!1' /\ TypeOK!2' /\ TypeOK!3' /\ TypeOK!4' /\ TypeOK!5'
              /\ TypeOK!6' /\ TypeOK!7' /\ TypeOK!9' /\ TypeOK!10'
  <2>1. stops' \in 0..MaxStops
    BY <1>20, Bounds, CountUp DEF ForgetMemory
  <2> QED
    BY <1>0, <1>20, <2>1, ConstantTypes DEF ForgetMemory
<1>21. CASE Crash
  BY <1>20, <1>21 DEF Crash
<1>22. CASE PowerLoss
  BY <1>20, <1>22, ConstantTypes DEF PowerLoss
<1>24. CASE Open
  <2>1. data' \in persisted
    BY <1>24, ConstantTypes DEF Open, Hydrated, Body
  <2> QED
    BY <1>24, <2>1 DEF Open
<1>23. CASE UNCHANGED vars
  BY <1>23 DEF vars
<1> QED
  BY <1>1, <1>2, <1>3, <1>4, <1>5, <1>6, <1>7, <1>8, <1>9, <1>10, <1>11, <1>12,
     <1>13, <1>14, <1>15, <1>16, <1>17, <1>18, <1>19, <1>21, <1>22, <1>23, <1>24
     DEF Next, Acquire, Proceed

(***************************************************************************)
(* Type correctness of s.data, the mutex, every goroutine and the files.   *)
(***************************************************************************)
THEOREM TypeCorrect == Spec => []TypeOK
<1>1. Init => TypeOK
  BY Bounds, ConstantTypes DEF Init, TypeOK, Points, Answers
<1> QED
  BY <1>1, TypeInductive, PTL DEF Spec

-----------------------------------------------------------------------------
(* Durability.  AckIsDurable and FileIsWhole are not inductive: what Rename *)
(* moves into place depends on every earlier step of writeAtomic, and that  *)
(* memory has not moved on meanwhile depends on the mutex.                  *)

\* Exactly the goroutine that holds s.mu is inside its critical section, and
\* a process that is down has none.
Exclusive ==
    \A t \in Threads :
        /\ pc[t] \in InFlight <=> mu = t
        /\ mode # "up" => pc[t] = "idle"

\* How far writeAtomic got: the marshalled state is the one in memory, the
\* temporary file holds it once written and is synced before it is renamed.
WriteProgress ==
    \A t \in Threads :
        /\ pc[t] \in {"open", "write", "sync", "close", "rename"} => buf = data
        /\ pc[t] \in {"sync", "close", "rename"} => tmp.body = buf
        /\ pc[t] \in {"close", "rename"} => tmp.synced

\* state.json only ever receives whole, synced files.
Committed ==
    /\ disk.body # Torn /\ disk.synced
    /\ hard # Torn /\ mode # "broken"

DurableInv == Exclusive /\ WriteProgress /\ Committed /\ AckIsDurable

(***************************************************************************)
(* No step breaks the durability invariant.                                *)
(***************************************************************************)
LEMMA DurableInductive == TypeOK /\ DurableInv /\ [Next]_vars => DurableInv'
<1> SUFFICES ASSUME TypeOK, DurableInv, [Next]_vars
             PROVE  DurableInv'
  OBVIOUS
<1>0. /\ pc \in [Threads -> Points] /\ res \in [Threads -> Answers]
      /\ NoThread \notin Threads /\ buf # Torn /\ Torn # NoFile
  BY StoreConstants DEF TypeOK
<1> USE <1>0 DEF DurableInv, Exclusive, WriteProgress, Committed, AckIsDurable,
                 InFlight, Goto, Answer, boundVars, fileVars
<1>1. ASSUME NEW t \in Threads, BeginCall(t)
      PROVE  DurableInv'
  BY <1>1 DEF BeginCall
<1>2. ASSUME NEW t \in Threads, SetLabelTooLong(t)
      PROVE  DurableInv'
  BY <1>2 DEF SetLabelTooLong
<1>3. ASSUME NEW t \in Threads, Read(t)
      PROVE  DurableInv'
  BY <1>3 DEF Read
<1>4. ASSUME NEW t \in Threads, SetLabel(t)
      PROVE  DurableInv'
  BY <1>4 DEF SetLabel, Lock
<1>5. ASSUME NEW t \in Threads, Remember(t)
      PROVE  DurableInv'
  BY <1>5 DEF Remember, Lock
<1>6. ASSUME NEW t \in Threads, RememberNoULID(t)
      PROVE  DurableInv'
  BY <1>6 DEF RememberNoULID, Lock
<1>7. ASSUME NEW t \in Threads, DeleteRemembered(t)
      PROVE  DurableInv'
  BY <1>7 DEF DeleteRemembered, Lock
<1>8. ASSUME NEW t \in Threads, DeleteRememberedMissing(t)
      PROVE  DurableInv'
  BY <1>8 DEF DeleteRememberedMissing, Lock
<1>9. ASSUME NEW t \in Threads, EvictOldestRemembered(t)
      PROVE  DurableInv'
  BY <1>9 DEF EvictOldestRemembered
<1>10. ASSUME NEW t \in Threads, evictOldestLabelLocked(t)
       PROVE  DurableInv'
  BY <1>10 DEF evictOldestLabelLocked
<1>11. ASSUME NEW t \in Threads, Marshal(t)
       PROVE  DurableInv'
  BY <1>11 DEF Marshal
<1>12. ASSUME NEW t \in Threads, OpenTmp(t)
       PROVE  DurableInv'
  BY <1>12 DEF OpenTmp
<1>13. ASSUME NEW t \in Threads, WriteTmp(t)
       PROVE  DurableInv'
  BY <1>13 DEF WriteTmp
<1>14. ASSUME NEW t \in Threads, SyncTmp(t)
       PROVE  DurableInv'
  <2>1. tmp.body = buf /\ tmp \in File
    BY <1>14 DEF SyncTmp, TypeOK
  <2>2. tmp'.body = tmp.body /\ (pc'[t] = "close" => tmp'.synced)
    BY <1>14, <2>1 DEF SyncTmp, File
  <2> QED
    BY <1>14, <2>1, <2>2 DEF SyncTmp
<1>15. ASSUME NEW t \in Threads, CloseTmp(t)
       PROVE  DurableInv'
  BY <1>15 DEF CloseTmp
<1>16. ASSUME NEW t \in Threads, Rename(t)
       PROVE  DurableInv'
  BY <1>16 DEF Rename
<1>17. ASSUME NEW t \in Threads, RemoveTmp(t)
       PROVE  DurableInv'
  BY <1>17 DEF RemoveTmp
<1>18. ASSUME NEW t \in Threads, Return(t)
       PROVE  DurableInv'
  BY <1>18 DEF Return
<1>19. CASE Flush
  BY <1>19 DEF Flush, Settled
<1>20. CASE Crash
  BY <1>20 DEF Crash, ForgetMemory
<1>21. CASE PowerLoss
  BY <1>21 DEF PowerLoss, ForgetMemory, Settled
<1>22. CASE Open
  BY <1>22 DEF Open
<1>23. CASE UNCHANGED vars
  BY <1>23 DEF vars
<1> QED
  BY <1>1, <1>2, <1>3, <1>4, <1>5, <1>6, <1>7, <1>8, <1>9, <1>10, <1>11, <1>12, <1>13, <1>14, <1>15, <1>16, <1>17, <1>18, <1>19, <1>20, <1>21, <1>22, <1>23
     DEF Next, Acquire, Proceed

(***************************************************************************)
(* Every reachable state satisfies the durability invariant.               *)
(***************************************************************************)
LEMMA Durable == Spec => []DurableInv
<1>1. Init => DurableInv
  BY StoreConstants DEF Init, DurableInv, Exclusive, WriteProgress, Committed,
     AckIsDurable, InFlight, NoTmp
<1> QED
  BY <1>1, TypeCorrect, DurableInductive, PTL DEF Spec

(***************************************************************************)
(* A crash at any step of writeAtomic, or a power failure, leaves          *)
(* state.json missing or whole, and Open accepts it.                       *)
(***************************************************************************)
THEOREM CommittedFileIsWhole == Spec => []FileIsWhole
<1>1. DurableInv => FileIsWhole
  BY DEF DurableInv, Committed, FileIsWhole, Settled
<1> QED
  BY <1>1, Durable, PTL

(***************************************************************************)
(* A mutating call that returns nil after persisting has put exactly the   *)
(* state in memory into state.json.                                        *)
(***************************************************************************)
THEOREM AcknowledgedIsDurable == Spec => []AckIsDurable
<1>1. DurableInv => AckIsDurable
  BY DEF DurableInv
<1> QED
  BY <1>1, Durable, PTL

-----------------------------------------------------------------------------
(* Retention.                                                               *)

\* Entries are told apart by their positions, all of them below next.
Ordered(R, next) ==
    /\ IsFiniteSet(R)
    /\ \A e, f \in R : e.id = f.id => e = f
    /\ \A e \in R : e.id < next

Capped(R) ==
    /\ Cardinality(R) <= GlobalRememberedCap
    /\ \A k \in Keys : Cardinality({e \in R : e.key = k}) <= PerKeyRememberedCap

(***************************************************************************)
(* If every entry of a finite set has fewer than n newer ones, the set has *)
(* at most n entries: its oldest entry has all the others after it.        *)
(***************************************************************************)
LEMMA NewerThanOldest ==
    ASSUME NEW S \in SUBSET Remembered, IsFiniteSet(S),
           \A e, f \in S : e.id = f.id => e = f,
           NEW n \in Nat,
           \A e \in S : Cardinality({f \in S : f.id > e.id}) < n
    PROVE  Cardinality(S) <= n
<1>1. CASE S = {}
  BY <1>1, FS_EmptySet
<1>2. CASE S # {}
  <2> DEFINE T == {e.id : e \in S}
  <2>0. \A e \in S : e.id \in Nat
    BY SizesAreNaturals DEF Remembered
  <2>1. T \subseteq Nat /\ T # {}
    BY <1>2, <2>0
  <2>2. PICK m \in T : \A y \in T : ~ (<<y, m>> \in OpToRel(<, Nat))
    BY <2>1, NatLessThanWellFounded, WFMin
  <2>3. \A y \in T : ~ (y < m)
    BY <2>1, <2>2 DEF OpToRel
  <2>4. PICK e \in S : e.id = m
    OBVIOUS
  <2>5. \A f \in S \ {e} : f.id > e.id
    <3> TAKE f \in S \ {e}
    <3>1. f.id # e.id /\ f.id \in T /\ f.id \in Nat /\ e.id \in Nat
      BY <2>1, <2>4
    <3> QED
      BY <2>3, <2>4, <3>1
  <2>6. {f \in S : f.id > e.id} = S \ {e}
    <3>1. e.id \in Nat
      BY <2>1
    <3> QED
      BY <2>5, <3>1
  <2>7. Cardinality(S \ {e}) = Cardinality(S) - 1
    BY FS_RemoveElement
  <2>8. Cardinality(S) - 1 < n
    BY <2>6, <2>7
  <2> QED
    BY <2>8, FS_CardinalityType
<1> QED
  BY <1>1, <1>2

(***************************************************************************)
(* A subset of a retained set is retained.                                 *)
(***************************************************************************)
LEMMA CappedSubset ==
    ASSUME NEW R, IsFiniteSet(R), Capped(R), NEW Q \in SUBSET R
    PROVE  IsFiniteSet(Q) /\ Capped(Q)
<1>1. IsFiniteSet(Q) /\ Cardinality(Q) <= Cardinality(R)
  BY FS_Subset
<1>2. Cardinality(Q) \in Nat /\ Cardinality(R) \in Nat
  BY <1>1, FS_CardinalityType
<1>3. ASSUME NEW k \in Keys
      PROVE  Cardinality({e \in Q : e.key = k}) <= PerKeyRememberedCap
  <2> DEFINE A == {e \in Q : e.key = k}
             B == {e \in R : e.key = k}
  <2>1. IsFiniteSet(B) /\ B \subseteq R
    BY FS_Subset
  <2>2. IsFiniteSet(A) /\ Cardinality(A) <= Cardinality(B) /\ A \subseteq B
    BY <2>1, FS_Subset
  <2>3. Cardinality(A) \in Nat /\ Cardinality(B) \in Nat
    BY <2>1, <2>2, FS_CardinalityType
  <2>4. Cardinality(B) <= PerKeyRememberedCap
    BY DEF Capped
  <2> QED
    BY <2>2, <2>3, <2>4, SizesAreNaturals
<1> QED
  BY <1>1, <1>2, <1>3, SizesAreNaturals DEF Capped

(***************************************************************************)
(* Remember restores both caps: appending a new entry to a retained set    *)
(* and evicting, per key and then over all keys, gives a retained set.     *)
(***************************************************************************)
LEMMA EvictionRestoresCaps ==
    ASSUME NEW R \in SUBSET Remembered, NEW r \in Remembered,
           Ordered(R, r.id),
           \A k \in Keys : Cardinality({e \in R : e.key = k}) <= PerKeyRememberedCap
    PROVE  LET Q == evictGlobalLocked(evictPerKeyLocked(R \cup {r}, r.key))
           IN  Q \subseteq R \cup {r} /\ IsFiniteSet(Q) /\ Capped(Q)
<1> DEFINE A == R \cup {r}
           P == evictPerKeyLocked(A, r.key)
           Q == evictGlobalLocked(P)
<1>1. IsFiniteSet(A) /\ A \in SUBSET Remembered
  BY FS_AddElement DEF Ordered
<1>2. \A e, f \in A : e.id = f.id => e = f
  <2>1. r.id \in Nat /\ \A e \in R : e.id \in Nat /\ e.id < r.id
    BY SizesAreNaturals DEF Ordered, Remembered
  <2>2. \A e \in R : e.id # r.id
    BY <2>1
  <2>3. \A e, f \in R : e.id = f.id => e = f
    BY DEF Ordered
  <2> QED
    BY <2>2, <2>3
<1>3. P \subseteq A /\ Q \subseteq P
  BY DEF evictPerKeyLocked, evictGlobalLocked
<1>4. IsFiniteSet(P) /\ IsFiniteSet(Q)
  BY <1>1, <1>3, FS_Subset
<1>5. Cardinality(Q) <= GlobalRememberedCap
  <2>1. ASSUME NEW e \in Q
        PROVE  Cardinality({f \in Q : f.id > e.id}) < GlobalRememberedCap
    <3> DEFINE X == {f \in Q : f.id > e.id}
               Y == {f \in P : f.id > e.id}
    <3>1. IsFiniteSet(Y) /\ Y \subseteq P
      BY <1>4, FS_Subset
    <3>5. X \in SUBSET Y
      BY <1>3
    <3> HIDE DEF X, Y
    <3>2. IsFiniteSet(X) /\ Cardinality(X) <= Cardinality(Y)
      BY <3>1, <3>5, FS_Subset
    <3>3. Cardinality(X) \in Nat /\ Cardinality(Y) \in Nat
      BY <3>1, <3>2, FS_CardinalityType
    <3>4. Cardinality(Y) < GlobalRememberedCap
      BY DEF evictGlobalLocked, Y
    <3>6. Cardinality(X) < GlobalRememberedCap
      BY <3>2, <3>3, <3>4, SizesAreNaturals
    <3> QED
      BY <3>6 DEF X
  <2>2. Q \in SUBSET Remembered /\ \A e, f \in Q : e.id = f.id => e = f
    BY <1>1, <1>2, <1>3
  <2> QED
    BY <1>4, <2>1, <2>2, NewerThanOldest, SizesAreNaturals
<1>6. ASSUME NEW k \in Keys
      PROVE  Cardinality({e \in Q : e.key = k}) <= PerKeyRememberedCap
  <2> DEFINE K == {e \in Q : e.key = k}
  <2>1. IsFiniteSet(K) /\ K \subseteq Q
    BY <1>4, FS_Subset
  <2>2. CASE k = r.key
    <3>1. ASSUME NEW e \in K
          PROVE  Cardinality({f \in K : f.id > e.id}) < PerKeyRememberedCap
      <4> DEFINE X == {f \in K : f.id > e.id}
                 Y == {f \in A : f.key = r.key /\ f.id > e.id}
      <4>1. IsFiniteSet(Y) /\ Y \subseteq A
        BY <1>1, FS_Subset
      <4>5. X \in SUBSET Y
        BY <1>3, <2>2
      <4> HIDE DEF X, Y
      <4>2. IsFiniteSet(X) /\ Cardinality(X) <= Cardinality(Y)
        BY <4>1, <4>5, FS_Subset
      <4>3. Cardinality(X) \in Nat /\ Cardinality(Y) \in Nat
        BY <4>1, <4>2, FS_CardinalityType
      <4>4. Cardinality(Y) < PerKeyRememberedCap
        BY <1>3, <2>2 DEF evictPerKeyLocked, Y
      <4>6. Cardinality(X) < PerKeyRememberedCap
        BY <4>2, <4>3, <4>4, SizesAreNaturals
      <4> QED
        BY <4>6 DEF X
    <3>2. K \in SUBSET Remembered /\ \A e, f \in K : e.id = f.id => e = f
      BY <1>1, <1>2, <1>3, <2>1
    <3> QED
      BY <2>1, <3>1, <3>2, NewerThanOldest, SizesAreNaturals
  <2>3. CASE k # r.key
    <3> DEFINE B == {e \in R : e.key = k}
    <3>1. K \subseteq B
      BY <1>3, <2>3
    <3>2. IsFiniteSet(B)
      BY FS_Subset DEF Ordered
    <3>3. Cardinality(K) <= Cardinality(B)
      BY <3>1, <3>2, FS_Subset
    <3>4. Cardinality(K) \in Nat /\ Cardinality(B) \in Nat
      BY <2>1, <3>2, FS_CardinalityType
    <3>5. Cardinality(B) <= PerKeyRememberedCap
      OBVIOUS
    <3> QED
      BY <3>3, <3>4, <3>5, SizesAreNaturals
  <2> QED
    BY <2>2, <2>3
<1>7. Q \subseteq A
  BY <1>3
<1> QED
  BY <1>4, <1>5, <1>6, <1>7 DEF Capped

Kept(d, next) ==
    Ordered(d.remembered, next) /\ Capped(d.remembered) /\ Fits(d)

\* The caps hold in memory from Remember on; the size limit holds everywhere in
\* a call but in persistLocked's loop; files hold what memory held at Marshal.
RetentionInv ==
    /\ Ordered(data.remembered, nextId) /\ Capped(data.remembered)
    /\ \A t \in Threads : pc[t] \in InFlight \ {"persist"} => Fits(data)
    /\ mu = NoThread => Fits(data)
    /\ Capped(seen.remembered) /\ Fits(seen)
    /\ disk.body \in persisted => Kept(disk.body, nextId)
    /\ hard \in persisted => Kept(hard, nextId)

(***************************************************************************)
(* Dropping entries, and giving out further positions, keeps a set         *)
(* ordered.                                                                *)
(***************************************************************************)
LEMMA OrderedSubset ==
    ASSUME NEW n \in Nat, NEW m \in Nat, n <= m,
           NEW R \in SUBSET Remembered, Ordered(R, n), NEW Q \in SUBSET R
    PROVE  Ordered(Q, m)
<1>1. \A e \in R : e.id \in Nat
  BY SizesAreNaturals DEF Remembered
<1>2. IsFiniteSet(Q)
  BY FS_Subset DEF Ordered
<1> QED
  BY <1>1, <1>2 DEF Ordered

(***************************************************************************)
(* The empty state is retained and fits.                                   *)
(***************************************************************************)
LEMMA EmptyKept == ASSUME NEW n \in Nat PROVE Kept(Empty, n)
<1>1. IsFiniteSet({}) /\ Cardinality({}) = 0
  BY FS_EmptySet
<1>2. \A k : {e \in {} : e.key = k} = {}
  OBVIOUS
<1>3. Capped({})
  BY <1>1, <1>2, SizesAreNaturals DEF Capped
<1>4. Ordered({}, n)
  BY <1>1 DEF Ordered
<1> QED
  BY <1>3, <1>4, EmptyStateFits DEF Kept, Empty

(***************************************************************************)
(* No step breaks the retention invariant.                                 *)
(***************************************************************************)
LEMMA RetentionInductive ==
    TypeOK /\ DurableInv /\ RetentionInv /\ [Next]_vars => RetentionInv'
<1> SUFFICES ASSUME TypeOK, DurableInv, RetentionInv, [Next]_vars
             PROVE  RetentionInv'
  OBVIOUS
<1>0. /\ pc \in [Threads -> Points] /\ nextId \in Nat
      /\ NoThread \notin Threads /\ NoFile \notin persisted /\ Torn \notin persisted
      /\ data \in persisted /\ data.remembered \in SUBSET Remembered
  BY StoreConstants DEF TypeOK, persisted
<1>a. \A t \in Threads : pc[t] \in InFlight <=> mu = t
  BY DEF DurableInv, Exclusive
<1>b. ASSUME NEW Q \in SUBSET data.remembered
      PROVE  Ordered(Q, nextId) /\ Capped(Q)
  BY <1>0, OrderedSubset, CappedSubset DEF RetentionInv, Ordered
<1> USE <1>0, <1>a DEF RetentionInv, InFlight, Goto, Answer, boundVars, fileVars
<1>1. ASSUME NEW t \in Threads, BeginCall(t)
      PROVE  RetentionInv'
  BY <1>1 DEF BeginCall
<1>2. ASSUME NEW t \in Threads, SetLabelTooLong(t)
      PROVE  RetentionInv'
  BY <1>2 DEF SetLabelTooLong
<1>3. ASSUME NEW t \in Threads, Read(t)
      PROVE  RetentionInv'
  BY <1>3 DEF Read
<1>4. ASSUME NEW t \in Threads, SetLabel(t)
      PROVE  RetentionInv'
  <2>1. data'.remembered = data.remembered
    BY <1>4 DEF SetLabel, persisted
  <2> QED
    BY <1>4, <2>1 DEF SetLabel, Lock
<1>5. ASSUME NEW t \in Threads, Remember(t)
      PROVE  RetentionInv'
  <2> DEFINE r == [id |-> nextId, key |-> call[t].key, bytes |-> call[t].bytes]
             R == data.remembered
             Q == evictGlobalLocked(evictPerKeyLocked(R \cup {r}, r.key))
  <2>1. r \in Remembered
    BY <1>5, CallFields DEF Remember, Lock, Remembered, TypeOK
  <2>2. data'.remembered = Q
    BY <1>5 DEF Remember, persisted
  <2>3. \A k \in Keys : Cardinality({e \in R : e.key = k}) <= PerKeyRememberedCap
    BY DEF Capped
  <2>4. Q \subseteq R \cup {r} /\ IsFiniteSet(Q) /\ Capped(Q)
    <3>1. Ordered(R, r.id) /\ R \in SUBSET Remembered
      OBVIOUS
    <3> HIDE DEF r
    <3> QED
      BY <2>1, <2>3, <3>1, EvictionRestoresCaps
  <2>5. Ordered(R, nextId)
    OBVIOUS
  <2>6. \A e \in Remembered : e.id \in Nat
    BY SizesAreNaturals DEF Remembered
  <2>7. Ordered(Q, nextId + 1)
    <3>1. \A e \in Q : e \in R \/ e = r
      BY <2>4
    <3>2. \A e \in R : e.id < nextId /\ e.id \in Nat
      BY <2>5, <2>6 DEF Ordered
    <3>3. \A e, f \in Q : e.id = f.id => e = f
      BY <2>5, <3>1, <3>2 DEF Ordered
    <3>4. \A e \in Q : e.id < nextId + 1
      BY <3>1, <3>2
    <3> HIDE DEF Q
    <3> QED
      BY <2>4, <3>3, <3>4 DEF Ordered
  <2>8. ASSUME NEW d \in persisted, Kept(d, nextId)
        PROVE  Kept(d, nextId + 1)
    BY <2>8, OrderedSubset DEF Kept, persisted
  <2>9. nextId' = nextId + 1 /\ UNCHANGED <<disk, hard, seen>> /\ mu' = t
        /\ pc' = [pc EXCEPT ![t] = "persist"] /\ mu = NoThread
    BY <1>5 DEF Remember, Lock
  <2> HIDE DEF Q
  <2> QED
    BY <2>2, <2>4, <2>7, <2>8, <2>9
<1>6. ASSUME NEW t \in Threads, RememberNoULID(t)
      PROVE  RetentionInv'
  BY <1>6 DEF RememberNoULID, Lock
<1>7. ASSUME NEW t \in Threads, DeleteRemembered(t)
      PROVE  RetentionInv'
  <2>1. data'.remembered \in SUBSET data.remembered
    BY <1>7 DEF DeleteRemembered, persisted
  <2> QED
    BY <1>7, <1>b, <2>1 DEF DeleteRemembered, Lock
<1>8. ASSUME NEW t \in Threads, DeleteRememberedMissing(t)
      PROVE  RetentionInv'
  BY <1>8 DEF DeleteRememberedMissing, Lock
<1>9. ASSUME NEW t \in Threads, EvictOldestRemembered(t)
      PROVE  RetentionInv'
  <2>1. data'.remembered \in SUBSET data.remembered
    BY <1>9 DEF EvictOldestRemembered, persisted
  <2> QED
    BY <1>9, <1>b, <2>1 DEF EvictOldestRemembered
<1>10. ASSUME NEW t \in Threads, evictOldestLabelLocked(t)
       PROVE  RetentionInv'
  <2>1. data'.remembered = data.remembered
    BY <1>10 DEF evictOldestLabelLocked, persisted
  <2> QED
    BY <1>10, <2>1 DEF evictOldestLabelLocked
<1>11. ASSUME NEW t \in Threads, Marshal(t)
       PROVE  RetentionInv'
  BY <1>11 DEF Marshal
<1>12. ASSUME NEW t \in Threads, OpenTmp(t)
       PROVE  RetentionInv'
  BY <1>12 DEF OpenTmp
<1>13. ASSUME NEW t \in Threads, WriteTmp(t)
       PROVE  RetentionInv'
  BY <1>13 DEF WriteTmp
<1>14. ASSUME NEW t \in Threads, SyncTmp(t)
       PROVE  RetentionInv'
  BY <1>14 DEF SyncTmp
<1>15. ASSUME NEW t \in Threads, CloseTmp(t)
       PROVE  RetentionInv'
  BY <1>15 DEF CloseTmp
<1>16. ASSUME NEW t \in Threads, Rename(t)
       PROVE  RetentionInv'
  <2>1. disk' = disk \/ disk'.body = data
    BY <1>16 DEF Rename, DurableInv, WriteProgress
  <2> QED
    BY <1>16, <2>1 DEF Rename, Kept
<1>17. ASSUME NEW t \in Threads, RemoveTmp(t)
       PROVE  RetentionInv'
  BY <1>17 DEF RemoveTmp
<1>18. ASSUME NEW t \in Threads, Return(t)
       PROVE  RetentionInv'
  BY <1>18 DEF Return
<1>19. CASE Flush
  BY <1>19 DEF Flush, Settled
<1>20. ASSUME ForgetMemory
       PROVE  /\ Ordered(data.remembered, nextId)' /\ Capped(data.remembered)'
              /\ Fits(data)' /\ Capped(seen.remembered)' /\ Fits(seen)'
              /\ nextId' = nextId
  BY <1>20, EmptyKept DEF ForgetMemory, Kept, Empty
<1>21. CASE Crash
  BY <1>20, <1>21 DEF Crash
<1>22. CASE PowerLoss
  BY <1>20, <1>22 DEF PowerLoss, Settled
<1>23. CASE Open
  <2>1. disk.body \in persisted \/ disk.body = NoFile
    BY DEF DurableInv, Committed, TypeOK, File, Body
  <2>2. CASE disk.body = NoFile
    BY <1>23, <2>2, EmptyKept DEF Open, Hydrated, Kept, Empty
  <2>3. CASE disk.body \in persisted
    BY <1>23, <2>3 DEF Open, Hydrated, Kept
  <2> QED
    BY <2>1, <2>2, <2>3
<1>24. CASE UNCHANGED vars
  BY <1>24 DEF vars
<1> QED
  BY <1>1, <1>2, <1>3, <1>4, <1>5, <1>6, <1>7, <1>8, <1>9, <1>10, <1>11, <1>12,
     <1>13, <1>14, <1>15, <1>16, <1>17, <1>18, <1>19, <1>21, <1>22, <1>23, <1>24
     DEF Next, Acquire, Proceed

(***************************************************************************)
(* Every reachable state satisfies the retention invariant.                *)
(***************************************************************************)
LEMMA Retention == Spec => []RetentionInv
<1>1. Init => RetentionInv
  BY EmptyKept, StoreConstants DEF Init, RetentionInv, Kept, NoTmp, Empty, InFlight
<1> QED
  BY <1>1, TypeCorrect, Durable, RetentionInductive, PTL DEF Spec

(***************************************************************************)
(* The retention caps and the file limit hold for what every reader is     *)
(* given, for state.json at all times, and for memory between calls.       *)
(***************************************************************************)
THEOREM RetentionHolds == Spec => []EveryCopyBounded
<1>1. TypeOK /\ RetentionInv => EveryCopyBounded
  BY DEF TypeOK, RetentionInv, EveryCopyBounded, Bounded, Capped, Kept, File, Body
<1> QED
  BY <1>1, TypeCorrect, Retention, PTL

-----------------------------------------------------------------------------
(* Eviction goes by age.                                                   *)

(***************************************************************************)
(* Within a call, what left memory since the call found it is older than   *)
(* what stayed; of a label whose key the call does not set, only once no   *)
(* remembered entry is left.                                               *)
(***************************************************************************)
EntriesByAge ==
    \A e \in prev.remembered \ data.remembered :
        \A f \in prev.remembered \cap data.remembered : f.key = e.key => f.id > e.id

LabelsByAge(c) ==
    \A l \in prev.labels \ data.labels :
        \/ c.op = "SetLabel" /\ c.key = l.key
        \/ data.remembered = {} /\ \A m \in data.labels : l.at <= m.at

AgeInv ==
    \A t \in Threads : pc[t] \in InFlight /\ call[t].op # "DeleteRemembered" =>
        EntriesByAge /\ LabelsByAge(call[t])

(***************************************************************************)
(* Both caps of Remember drop the oldest entries of a key.                 *)
(***************************************************************************)
LEMMA EvictionTakesOldest ==
    ASSUME NEW A \in SUBSET Remembered, IsFiniteSet(A),
           \A e, f \in A : e.id = f.id => e = f, NEW key,
           NEW e \in A, e \notin evictGlobalLocked(evictPerKeyLocked(A, key)),
           NEW f \in evictGlobalLocked(evictPerKeyLocked(A, key)), f.key = e.key
    PROVE  f.id > e.id
<1> DEFINE P == evictPerKeyLocked(A, key)
           Newer(S, g) == {h \in S : h.id > g.id}
           Same(g) == {h \in A : h.key = key /\ h.id > g.id}
<1>1. P \subseteq A /\ f \in P
  BY DEF evictGlobalLocked, evictPerKeyLocked
<1>2. IsFiniteSet(P) /\ e.id \in Nat /\ f.id \in Nat /\ \A g \in A : g.id \in Nat
  <2>1. \A g \in A : g.id \in Nat
    BY SizesAreNaturals DEF Remembered
  <2> HIDE DEF P
  <2>2. IsFiniteSet(P)
    BY <1>1, FS_Subset
  <2> QED
    BY <1>1, <2>1, <2>2
<1>3. e # f
  OBVIOUS
<1>4. f.id # e.id
  BY <1>1, <1>3
<1>5. CASE e \in P
  <2>1. ~(Cardinality(Newer(P, e)) < GlobalRememberedCap)
    BY <1>5 DEF evictGlobalLocked
  <2>2. Cardinality(Newer(P, f)) < GlobalRememberedCap
    BY DEF evictGlobalLocked
  <2>3. SUFFICES ASSUME f.id < e.id PROVE FALSE
    BY <1>2, <1>4
  <2>4. Newer(P, e) \subseteq Newer(P, f)
    BY <1>1, <1>2, <2>3
  <2>5. IsFiniteSet(Newer(P, f))
    BY <1>2, FS_Subset
  <2> HIDE DEF Newer, P
  <2>6. /\ Cardinality(Newer(P, e)) <= Cardinality(Newer(P, f))
        /\ Cardinality(Newer(P, e)) \in Nat /\ Cardinality(Newer(P, f)) \in Nat
    BY <2>4, <2>5, FS_Subset, FS_CardinalityType
  <2> QED
    BY <2>1, <2>2, <2>6, SizesAreNaturals
<1>6. CASE e \notin P
  <2>1. e.key = key /\ ~(Cardinality(Same(e)) < PerKeyRememberedCap)
    BY <1>6 DEF evictPerKeyLocked
  <2>2. Cardinality(Same(f)) < PerKeyRememberedCap
    BY <1>1, <2>1 DEF evictPerKeyLocked
  <2>3. SUFFICES ASSUME f.id < e.id PROVE FALSE
    BY <1>2, <1>4
  <2>4. Same(e) \subseteq Same(f)
    BY <1>2, <2>3
  <2>5. IsFiniteSet(Same(f))
    BY FS_Subset
  <2> HIDE DEF Same
  <2>6. /\ Cardinality(Same(e)) <= Cardinality(Same(f))
        /\ Cardinality(Same(e)) \in Nat /\ Cardinality(Same(f)) \in Nat
    BY <2>4, <2>5, FS_Subset, FS_CardinalityType
  <2> QED
    BY <2>1, <2>2, <2>6, SizesAreNaturals
<1> QED
  BY <1>5, <1>6

(***************************************************************************)
(* No step breaks the invariant about age.                                 *)
(***************************************************************************)
LEMMA AgeInductive ==
    TypeOK /\ DurableInv /\ RetentionInv /\ AgeInv /\ [Next]_vars => AgeInv'
<1> SUFFICES ASSUME TypeOK, DurableInv, RetentionInv, AgeInv, [Next]_vars
             PROVE  AgeInv'
  OBVIOUS
<1>0. /\ pc \in [Threads -> Points] /\ NoThread \notin Threads
      /\ data \in persisted /\ prev \in persisted
      /\ \A t \in Threads : pc[t] \in InFlight <=> mu = t
  BY StoreConstants DEF TypeOK, DurableInv, Exclusive
<1>1. ASSUME UNCHANGED <<data, prev, call>>,
             \A t \in Threads : pc'[t] \in InFlight => pc[t] \in InFlight
      PROVE  AgeInv'
  BY <1>1 DEF AgeInv, EntriesByAge, LabelsByAge
<1>2. ASSUME NEW t \in Threads, mu = NoThread, prev' = data, pc' = [pc EXCEPT ![t] = pc'[t]],
             call'[t].op = "DeleteRemembered" \/ (EntriesByAge' /\ LabelsByAge(call[t])')
      PROVE  AgeInv'
  BY <1>0, <1>2 DEF AgeInv
<1>3. ASSUME NEW t \in Threads, BeginCall(t)  PROVE AgeInv'
  BY <1>0, <1>3 DEF BeginCall, Goto, InFlight, TypeOK, AgeInv, EntriesByAge, LabelsByAge
<1>4. ASSUME NEW t \in Threads, SetLabelTooLong(t) \/ Read(t)  PROVE AgeInv'
  BY <1>1, <1>4 DEF SetLabelTooLong, Read
<1>5. ASSUME NEW t \in Threads, SetLabel(t)  PROVE AgeInv'
  <2>1. /\ mu = NoThread /\ prev' = data /\ call' = call /\ call[t].op = "SetLabel"
        /\ pc' = [pc EXCEPT ![t] = "persist"]
    BY <1>5 DEF SetLabel, Lock, Goto
  <2>2. PICK at \in Times :
            data' = [data EXCEPT !.labels = Relabel(data.labels, call[t].key, call[t].text, at)]
    BY <1>5 DEF SetLabel
  <2>3. data'.remembered = data.remembered
        /\ data'.labels = Relabel(data.labels, call[t].key, call[t].text, at)
    BY <1>0, <2>2 DEF persisted
  <2>4. EntriesByAge' /\ LabelsByAge(call[t])'
    BY <2>1, <2>3 DEF EntriesByAge, LabelsByAge, Relabel
  <2> QED
    BY <1>0, <1>2, <2>1, <2>4
<1>6. ASSUME NEW t \in Threads, Remember(t)  PROVE AgeInv'
  <2> DEFINE r == [id |-> nextId, key |-> call[t].key, bytes |-> call[t].bytes]
             A == data.remembered \cup {r}
  <2>1. /\ mu = NoThread /\ prev' = data /\ call' = call /\ call[t].op = "Remember"
        /\ pc' = [pc EXCEPT ![t] = "persist"]
        /\ data' = [data EXCEPT !.remembered = evictGlobalLocked(evictPerKeyLocked(A, r.key))]
    BY <1>6 DEF Remember, Lock, Goto
  <2>2. data'.labels = data.labels
        /\ data'.remembered = evictGlobalLocked(evictPerKeyLocked(A, r.key))
    BY <1>0, <2>1 DEF persisted
  <2>3. r \in Remembered
    BY <1>6, CallFields DEF Remember, Lock, Remembered, TypeOK
  <2>4. A \in SUBSET Remembered /\ IsFiniteSet(A) /\ \A e, f \in A : e.id = f.id => e = f
    <3>1. IsFiniteSet(A) /\ A \in SUBSET Remembered
      BY <1>0, <2>3, FS_AddElement DEF RetentionInv, Ordered, persisted
    <3>2. \A e \in data.remembered : e.id \in Nat /\ e.id < nextId
      BY <1>0, SizesAreNaturals DEF RetentionInv, Ordered, Remembered, persisted
    <3>3. r.id = nextId /\ nextId \in Nat
      BY DEF TypeOK
    <3>4. \A e \in data.remembered : e.id # r.id
      BY <3>2, <3>3
    <3> HIDE DEF r
    <3> QED
      BY <3>1, <3>4 DEF RetentionInv, Ordered
  <2> HIDE DEF r
  <2>5. EntriesByAge'
    <3> SUFFICES ASSUME NEW e \in data.remembered \ data'.remembered,
                        NEW f \in data.remembered \cap data'.remembered, f.key = e.key
                 PROVE  f.id > e.id
      BY <2>1 DEF EntriesByAge
    <3>1. e \in A /\ e \notin evictGlobalLocked(evictPerKeyLocked(A, r.key))
          /\ f \in evictGlobalLocked(evictPerKeyLocked(A, r.key))
      BY <2>2
    <3> HIDE DEF A
    <3> QED
      BY <2>4, <3>1, EvictionTakesOldest
  <2>6. LabelsByAge(call[t])'
    BY <2>1, <2>2 DEF LabelsByAge
  <2> QED
    BY <1>0, <1>2, <2>1, <2>5, <2>6
<1>7. ASSUME NEW t \in Threads, RememberNoULID(t)  PROVE AgeInv'
  <2>1. EntriesByAge' /\ LabelsByAge(call[t])'
    BY <1>7 DEF RememberNoULID, Lock, EntriesByAge, LabelsByAge
  <2> QED
    BY <1>0, <1>2, <1>7, <2>1 DEF RememberNoULID, Lock, Goto
<1>8. ASSUME NEW t \in Threads, DeleteRemembered(t) \/ DeleteRememberedMissing(t)  PROVE AgeInv'
  BY <1>0, <1>2, <1>8 DEF DeleteRemembered, DeleteRememberedMissing, Lock, Goto
<1>9. ASSUME NEW t \in Threads, EvictOldestRemembered(t)  PROVE AgeInv'
  <2>1. /\ data.remembered # {} /\ UNCHANGED <<prev, call, pc>> /\ pc[t] = "persist"
        /\ data'.labels = data.labels
        /\ data'.remembered = {e \in data.remembered : \E f \in data.remembered : f.id < e.id}
    BY <1>0, <1>9 DEF EvictOldestRemembered, persisted
  <2>2. ASSUME NEW u \in Threads, pc[u] \in InFlight, call[u].op # "DeleteRemembered"
        PROVE  EntriesByAge' /\ LabelsByAge(call[u])'
    <3>1. EntriesByAge /\ LabelsByAge(call[u])
      BY <2>2 DEF AgeInv
    <3>2. LabelsByAge(call[u])'
      BY <2>1, <3>1 DEF LabelsByAge
    <3>3. EntriesByAge'
      <4> SUFFICES ASSUME NEW e \in prev.remembered \ data'.remembered,
                          NEW f \in prev.remembered \cap data'.remembered, f.key = e.key
                   PROVE  f.id > e.id
        BY <2>1 DEF EntriesByAge
      <4>1. f \in data.remembered
        BY <2>1
      <4>2. CASE e \notin data.remembered
        BY <3>1, <4>1, <4>2 DEF EntriesByAge
      <4>3. CASE e \in data.remembered
        <5>1. e.id \in Nat /\ f.id \in Nat /\ ~(f.id < e.id)
          BY <1>0, <2>1, <4>1, <4>3, SizesAreNaturals DEF Remembered, persisted
        <5>2. f.id # e.id
          BY <4>1, <4>3 DEF RetentionInv, Ordered
        <5> QED
          BY <5>1, <5>2
      <4> QED
        BY <4>2, <4>3
    <3> QED
      BY <3>2, <3>3
  <2> QED
    BY <2>1, <2>2 DEF AgeInv
<1>10. ASSUME NEW t \in Threads, evictOldestLabelLocked(t)  PROVE AgeInv'
  <2>1. PICK l \in Oldest(data.labels) : data' = [data EXCEPT !.labels = @ \ {l}]
    BY <1>10 DEF evictOldestLabelLocked
  <2>2. /\ data.remembered = {} /\ UNCHANGED <<prev, call, pc>>
        /\ data'.remembered = {} /\ data'.labels = data.labels \ {l}
    BY <1>0, <1>10, <2>1 DEF evictOldestLabelLocked, persisted
  <2>3. \A m \in data.labels : l.at <= m.at
    BY <2>1 DEF Oldest
  <2>4. EntriesByAge'
    BY <2>2 DEF EntriesByAge
  <2>5. ASSUME NEW u \in Threads, pc[u] \in InFlight, call[u].op # "DeleteRemembered"
        PROVE  LabelsByAge(call[u])'
    BY <2>2, <2>3, <2>5 DEF AgeInv, LabelsByAge
  <2> QED
    BY <2>2, <2>4, <2>5 DEF AgeInv
<1>11. ASSUME NEW t \in Threads,
              Marshal(t) \/ OpenTmp(t) \/ WriteTmp(t) \/ SyncTmp(t) \/ CloseTmp(t)
              \/ Rename(t) \/ RemoveTmp(t)
       PROVE  AgeInv'
  BY <1>0, <1>1, <1>11
  DEF Marshal, OpenTmp, WriteTmp, SyncTmp, CloseTmp, Rename, RemoveTmp, Goto, InFlight
<1>12. ASSUME NEW t \in Threads, Return(t)  PROVE AgeInv'
  <2>1. \A u \in Threads : pc'[u] \notin InFlight
    BY <1>0, <1>12 DEF Return, Goto, InFlight
  <2> QED
    BY <2>1 DEF AgeInv
<1>13. CASE Crash \/ PowerLoss
  <2>1. \A u \in Threads : pc'[u] \notin InFlight
    BY <1>13 DEF Crash, PowerLoss, ForgetMemory, InFlight
  <2> QED
    BY <2>1 DEF AgeInv
<1>14. CASE Open
  <2>1. \A u \in Threads : pc'[u] \notin InFlight
    BY <1>14 DEF Open, DurableInv, Exclusive, InFlight
  <2> QED
    BY <2>1 DEF AgeInv
<1>15. CASE Flush \/ UNCHANGED vars
  BY <1>1, <1>15 DEF Flush, vars
<1> QED
  BY <1>3, <1>4, <1>5, <1>6, <1>7, <1>8, <1>9, <1>10, <1>11, <1>12, <1>13, <1>14, <1>15
  DEF Next, Acquire, Proceed

(***************************************************************************)
(* Whatever limit a call runs into, it evicts the oldest first.            *)
(***************************************************************************)
THEOREM EvictionIsByAge == Spec => []OldestGoFirst
<1>1. Init => AgeInv
  BY DEF Init, AgeInv, InFlight
<1>2. AgeInv => OldestGoFirst
  BY DEF AgeInv, EntriesByAge, LabelsByAge, OldestGoFirst, InFlight
<1> QED
  BY <1>1, <1>2, TypeCorrect, Durable, Retention, AgeInductive, PTL DEF Spec

-----------------------------------------------------------------------------
(* The store implements StoreAbs.                                          *)

(***************************************************************************)
(* StoreAbs reads the same sizes and cardinalities as Store.               *)
(***************************************************************************)
LEMMA SameOperators ==
    /\ \A S : Abs!Cardinality(S) = Cardinality(S)
    /\ \A d : Abs!Fits(d) <=> Fits(d)
    /\ \A L, key, text, at : Abs!Relabel(L, key, text, at) = Relabel(L, key, text, at)
    /\ Abs!Calls = Calls /\ Abs!Empty = Empty
<1>1. \A S : Abs!Cardinality(S) = Cardinality(S)
  BY DEF Abs!Cardinality, Cardinality
<1>2. \A d : Abs!Fits(d) <=> Fits(d)
  BY <1>1 DEF Abs!Fits, Fits, Abs!Bytes, Bytes, Abs!MapThenSumSet, Abs!MapThenFoldSet,
             MapThenSumSet, MapThenFoldSet
<1> QED
  BY <1>1, <1>2 DEF Abs!Relabel, Relabel, Abs!Calls, Calls, Abs!SetLabelCalls, SetLabelCalls,
     Abs!RememberCalls, RememberCalls, Abs!DeleteCalls, DeleteCalls, Abs!Empty, Empty

(***************************************************************************)
(* T holds the newest entries of R, however many.                          *)
(***************************************************************************)
NewestPart(T, R) == T \in SUBSET R /\ \A e \in T, f \in R \ T : e.id > f.id

Entries(R) ==
    R \in SUBSET Remembered /\ IsFiniteSet(R) /\ \A e, f \in R : e.id = f.id => e = f

(***************************************************************************)
(* Positions are natural numbers.                                          *)
(***************************************************************************)
LEMMA Positions == ASSUME NEW R, Entries(R) PROVE \A e \in R : e.id \in Nat
  BY SizesAreNaturals DEF Entries, Remembered

(***************************************************************************)
(* Of two such parts one contains the other: equally large, they are       *)
(* equal.                                                                  *)
(***************************************************************************)
LEMMA PartsAreNested ==
    ASSUME NEW R, Entries(R), NEW T, NEW U, NewestPart(T, R), NewestPart(U, R),
           Cardinality(T) = Cardinality(U)
    PROVE  T = U
<1>1. IsFiniteSet(T) /\ IsFiniteSet(U)
  BY FS_Subset DEF Entries, NewestPart
<1>2. T \subseteq U \/ U \subseteq T
  <2> SUFFICES ASSUME NEW e \in T \ U, NEW f \in U \ T PROVE FALSE
    OBVIOUS
  <2>1. e.id > f.id /\ f.id > e.id /\ e.id \in Nat /\ f.id \in Nat
    BY Positions DEF NewestPart
  <2> QED
    BY <2>1
<1> QED
  BY <1>1, <1>2, FS_Subset

(***************************************************************************)
(* A set of entries that is not empty has an oldest.                       *)
(***************************************************************************)
LEMMA OldestExists ==
    ASSUME NEW R, Entries(R), R # {}
    PROVE  \E e \in R : \A f \in R \ {e} : f.id > e.id
<1> DEFINE T == {e.id : e \in R}
<1>1. T \subseteq Nat /\ T # {}
  BY Positions
<1>2. PICK m \in T : \A y \in T : ~ (<<y, m>> \in OpToRel(<, Nat))
  BY <1>1, NatLessThanWellFounded, WFMin
<1>3. \A y \in T : ~ (y < m)
  BY <1>1, <1>2 DEF OpToRel
<1>4. PICK e \in R : e.id = m
  OBVIOUS
<1>5. ASSUME NEW f \in R \ {e}  PROVE f.id > e.id
  <2>1. f.id # e.id /\ f.id \in Nat /\ e.id \in Nat /\ ~(f.id < e.id)
    BY <1>3, <1>4, Positions DEF Entries
  <2> QED
    BY <2>1
<1> QED
  BY <1>5

(***************************************************************************)
(* There is such a part of every size: from a larger one, leave out the    *)
(* oldest.                                                                 *)
(***************************************************************************)
LEMMA OldestLeft ==
    ASSUME NEW R, Entries(R), NEW T, NewestPart(T, R), T # {}
    PROVE  \E e \in T : /\ NewestPart(T \ {e}, R)
                        /\ Cardinality(T \ {e}) = Cardinality(T) - 1
                        /\ \A f \in T \ {e} : f.id > e.id
<1>1. Entries(T)
  BY FS_Subset DEF Entries, NewestPart
<1>2. PICK e \in T : \A f \in T \ {e} : f.id > e.id
  BY <1>1, OldestExists
<1>3. NewestPart(T \ {e}, R)
  BY <1>2 DEF NewestPart
<1>4. Cardinality(T \ {e}) = Cardinality(T) - 1
  BY <1>1, FS_RemoveElement DEF Entries
<1> QED
  BY <1>2, <1>3, <1>4

(***************************************************************************)
(* So every size up to the whole occurs.                                   *)
(***************************************************************************)
LEMMA PartOfEverySize ==
    ASSUME NEW R, Entries(R), NEW n \in 0..Cardinality(R)
    PROVE  \E T : NewestPart(T, R) /\ Cardinality(T) = n
<1> DEFINE c == Cardinality(R)
           HasPart(m) == \E T : NewestPart(T, R) /\ Cardinality(T) = m
           Gaps == {k \in 0..c : ~HasPart(c - k)}
<1>1. c \in Nat
  BY FS_CardinalityType DEF Entries
<1>2. HasPart(c)
  BY DEF NewestPart
<1>3. ASSUME Gaps # {}  PROVE FALSE
  <2>0. Gaps \subseteq Nat
    BY <1>1
  <2>1. PICK k \in Gaps : \A j \in Gaps : ~(<<j, k>> \in OpToRel(<, Nat))
    BY <1>3, <2>0, NatLessThanWellFounded, WFMin
  <2>2. k \in 0..c /\ ~HasPart(c - k) /\ \A j \in Gaps : ~(j < k)
    BY <2>0, <2>1 DEF OpToRel
  <2> HIDE DEF HasPart
  <2>3. k # 0
    BY <1>1, <1>2, <2>2
  <2>4. k - 1 \in 0..c /\ k - 1 < k /\ c - (k - 1) = (c - k) + 1 /\ c - k \in Nat
    BY <1>1, <2>2, <2>3
  <2>5. HasPart(c - (k - 1))
    BY <2>2, <2>4
  <2>6. PICK T : NewestPart(T, R) /\ Cardinality(T) = (c - k) + 1
    BY <2>4, <2>5 DEF HasPart
  <2>7. T # {}
    BY <2>4, <2>6, FS_EmptySet
  <2>8. PICK e \in T : NewestPart(T \ {e}, R) /\ Cardinality(T \ {e}) = Cardinality(T) - 1
    BY <2>6, <2>7, OldestLeft
  <2>9. Cardinality(T \ {e}) = c - k
    BY <2>4, <2>6, <2>8
  <2> QED
    BY <2>2, <2>8, <2>9 DEF HasPart
<1> HIDE DEF HasPart
<1>4. c - n \in 0..c /\ c - (c - n) = n
  BY <1>1
<1>5. HasPart(n)
  BY <1>3, <1>4
<1> QED
  BY <1>5 DEF HasPart

(***************************************************************************)
(* Newest is that part.                                                    *)
(***************************************************************************)
LEMMA NewestIs ==
    ASSUME NEW R, Entries(R), NEW n \in Nat, NEW T, NewestPart(T, R),
           Cardinality(T) = IF Cardinality(R) < n THEN Cardinality(R) ELSE n
    PROVE  Abs!Newest(R, n) = T
<1> DEFINE N == Abs!Newest(R, n)
<1>1. \E U \in SUBSET R : /\ Cardinality(U) = (IF Cardinality(R) < n THEN Cardinality(R) ELSE n)
                          /\ \A e \in U, f \in R \ U : e.id > f.id
  BY DEF NewestPart
<1>2. /\ N \in SUBSET R /\ \A e \in N, f \in R \ N : e.id > f.id
      /\ Cardinality(N) = IF Cardinality(R) < n THEN Cardinality(R) ELSE n
  BY <1>1, SameOperators DEF Abs!Newest
<1> HIDE DEF N
<1>3. NewestPart(N, R)
  BY <1>2 DEF NewestPart
<1>4. N = T
  BY <1>2, <1>3, PartsAreNested
<1> QED
  BY <1>4 DEF N

(***************************************************************************)
(* With no more than the whole asked for, it has the size asked for.       *)
(***************************************************************************)
LEMMA NewestSize ==
    ASSUME NEW R, Entries(R), NEW n \in 0..Cardinality(R)
    PROVE  NewestPart(Abs!Newest(R, n), R) /\ Cardinality(Abs!Newest(R, n)) = n
<1>1. PICK T : NewestPart(T, R) /\ Cardinality(T) = n
  BY PartOfEverySize
<1>2. Cardinality(R) \in Nat /\ n \in Nat
  BY FS_CardinalityType DEF Entries
<1>3. Cardinality(T) = IF Cardinality(R) < n THEN Cardinality(R) ELSE n
  BY <1>1, <1>2
<1> QED
  BY <1>1, <1>2, <1>3, NewestIs

(***************************************************************************)
(* The entries with fewer than n newer ones are the n newest.              *)
(***************************************************************************)
LEMMA TopIsNewest ==
    ASSUME NEW R, Entries(R), NEW n \in Nat
    PROVE  {e \in R : Cardinality({f \in R : f.id > e.id}) < n} = Abs!Newest(R, n)
<1> DEFINE c == Cardinality(R)
           m == IF c < n THEN c ELSE n
           Newer(e) == {f \in R : f.id > e.id}
<1>1. c \in Nat /\ m \in 0..c /\ m \in Nat
  BY FS_CardinalityType DEF Entries
<1>2. PICK T : NewestPart(T, R) /\ Cardinality(T) = m
  BY <1>1, PartOfEverySize
<1>3. IsFiniteSet(T) /\ T \in SUBSET R
  BY <1>2, FS_Subset DEF Entries, NewestPart
<1>4. ASSUME NEW e \in T  PROVE Cardinality(Newer(e)) < n
  <2>1. \A f \in Newer(e) : f \in T \ {e}
    <3> SUFFICES ASSUME NEW f \in R, f.id > e.id PROVE f \in T \ {e}
      OBVIOUS
    <3>1. e.id \in Nat /\ f.id \in Nat
      BY <1>3, Positions
    <3>2. ~(e.id > f.id) /\ f # e
      BY <3>1
    <3> QED
      BY <1>2, <3>2 DEF NewestPart
  <2>2. Newer(e) \subseteq T \ {e}
    BY <2>1
  <2>3. IsFiniteSet(T \ {e}) /\ Cardinality(T \ {e}) = m - 1
    BY <1>2, <1>3, FS_RemoveElement, FS_Subset
  <2> HIDE DEF Newer
  <2>4. Cardinality(Newer(e)) <= m - 1 /\ Cardinality(Newer(e)) \in Nat
    BY <2>2, <2>3, FS_Subset, FS_CardinalityType
  <2> QED
    BY <1>1, <2>4
<1>5. ASSUME NEW e \in R \ T  PROVE ~(Cardinality(Newer(e)) < n)
  <2>1. T \subseteq Newer(e) /\ T # R
    BY <1>2, <1>3 DEF NewestPart
  <2>2. IsFiniteSet(R) /\ IsFiniteSet(Newer(e))
    BY FS_Subset DEF Entries
  <2> HIDE DEF Newer
  <2>3. m <= Cardinality(Newer(e)) /\ Cardinality(Newer(e)) \in Nat
    BY <1>2, <2>1, <2>2, FS_Subset, FS_CardinalityType
  <2>4. m # c
    BY <1>2, <1>3, <2>1, <2>2, FS_Subset
  <2> QED
    BY <1>1, <2>3, <2>4
<1>6. {e \in R : Cardinality(Newer(e)) < n} = T
  <2> HIDE DEF Newer
  <2> QED
    BY <1>3, <1>4, <1>5
<1>7. Abs!Newest(R, n) = T
  BY <1>2, NewestIs
<1> QED
  BY <1>6, <1>7

(***************************************************************************)
(* Remember's two loops implement the retention policy.                    *)
(***************************************************************************)
LEMMA EvictionIsRetain ==
    ASSUME NEW A, Entries(A), NEW key
    PROVE  evictGlobalLocked(evictPerKeyLocked(A, key)) = Abs!Retain(A, key)
<1> DEFINE same == {e \in A : e.key = key}
           P == evictPerKeyLocked(A, key)
<1>1. Entries(same)
  BY FS_Subset DEF Entries
<1>2. {e \in same : Cardinality({f \in same : f.id > e.id}) < PerKeyRememberedCap}
        = Abs!Newest(same, PerKeyRememberedCap)
  <2> HIDE DEF same
  <2> QED
    BY <1>1, TopIsNewest, SizesAreNaturals
<1>3. \A e : {f \in same : f.id > e.id} = {f \in A : f.key = key /\ f.id > e.id}
  OBVIOUS
<1>4. P = (A \ same)
            \cup {e \in same : Cardinality({f \in same : f.id > e.id}) < PerKeyRememberedCap}
  BY <1>3 DEF evictPerKeyLocked
<1>5. P \subseteq A
  BY DEF evictPerKeyLocked
<1> HIDE DEF same, P
<1>6. Entries(P)
  BY <1>5, FS_Subset DEF Entries
<1>7. evictGlobalLocked(P) = Abs!Newest(P, GlobalRememberedCap)
  BY <1>6, TopIsNewest, SizesAreNaturals DEF evictGlobalLocked
<1> QED
  BY <1>2, <1>4, <1>7 DEF Abs!Retain, P, same

(***************************************************************************)
(* persistLocked's loop: what is left of the state w the call aimed at is  *)
(* its newest entries with all labels, or no entries and its newest        *)
(* labels, and everything larger that the policy would prefer was tried    *)
(* and did not fit.                                                        *)
(***************************************************************************)
Tidy(w) == w \in persisted /\ Entries(w.remembered) /\ IsFiniteSet(w.labels)

WithEntries(w, T) == [w EXCEPT !.remembered = T]
OnlyLabels(L) == [labels |-> L, remembered |-> {}]

TooManyEntries(w, n) ==
    \A T : NewestPart(T, w.remembered) /\ Cardinality(T) > n => ~Fits(WithEntries(w, T))

EntriesLeft(w, d) ==
    /\ d.labels = w.labels /\ NewestPart(d.remembered, w.remembered)
    /\ TooManyEntries(w, Cardinality(d.remembered))

NewestLabels(L, K) == L \in SUBSET K /\ \A l \in L, m \in K \ L : m.at <= l.at

LabelsLeft(w, d) ==
    /\ d.remembered = {} /\ NewestLabels(d.labels, w.labels)
    /\ \A T : NewestPart(T, w.remembered) => ~Fits(WithEntries(w, T))
    /\ \A L \in SUBSET w.labels :
         Cardinality(L) > Cardinality(d.labels) => ~Fits(OnlyLabels(L))

LeftOf(w, d) == EntriesLeft(w, d) \/ LabelsLeft(w, d)

(***************************************************************************)
(* Updating a component of the state.                                      *)
(***************************************************************************)
LEMMA StateFields ==
    ASSUME NEW w \in persisted
    PROVE  /\ \A T : WithEntries(w, T).remembered = T
           /\ \A d \in persisted : d.labels = w.labels => d = WithEntries(w, d.remembered)
           /\ w.remembered = {} => w = OnlyLabels(w.labels)
  BY DEF persisted, WithEntries, OnlyLabels

(***************************************************************************)
(* Before the loop everything is left.                                     *)
(***************************************************************************)
LEMMA AllLeft == ASSUME NEW w, Tidy(w) PROVE LeftOf(w, w)
<1>1. \A T : NewestPart(T, w.remembered) =>
          Cardinality(T) <= Cardinality(w.remembered) /\ Cardinality(T) \in Nat
  BY FS_Subset, FS_CardinalityType DEF NewestPart, Tidy, Entries
<1>2. Cardinality(w.remembered) \in Nat
  BY FS_CardinalityType DEF Tidy, Entries
<1>3. TooManyEntries(w, Cardinality(w.remembered))
  BY <1>1, <1>2 DEF TooManyEntries
<1> QED
  BY <1>3 DEF LeftOf, EntriesLeft, NewestPart

(***************************************************************************)
(* Dropping the oldest entry of a state that does not fit.                 *)
(***************************************************************************)
LEMMA DropEntry ==
    ASSUME NEW w, Tidy(w), NEW d \in persisted, LeftOf(w, d),
           ~Fits(d), d.remembered # {},
           NEW d2 \in persisted, d2.labels = d.labels,
           d2.remembered = {e \in d.remembered : \E f \in d.remembered : f.id < e.id}
    PROVE  LeftOf(w, d2)
<1> DEFINE R == w.remembered
           T == d.remembered
           U == d2.remembered
<1>1. EntriesLeft(w, d) /\ NewestPart(T, R) /\ d.labels = w.labels /\ Entries(R)
  BY DEF LeftOf, EntriesLeft, LabelsLeft, Tidy
<1>2. PICK e \in T : /\ NewestPart(T \ {e}, R) /\ Cardinality(T \ {e}) = Cardinality(T) - 1
                     /\ \A f \in T \ {e} : f.id > e.id
  BY <1>1, OldestLeft
<1>3. \A f \in T : f.id \in Nat
  BY <1>1, Positions DEF NewestPart
<1>4. U = T \ {e}
  BY <1>2, <1>3
<1>5. Cardinality(T) \in Nat
  BY <1>1, FS_Subset, FS_CardinalityType DEF Entries, NewestPart
<1>6. TooManyEntries(w, Cardinality(U))
  <2> SUFFICES ASSUME NEW S, NewestPart(S, R), Cardinality(S) > Cardinality(U)
               PROVE  ~Fits(WithEntries(w, S))
    BY DEF TooManyEntries
  <2>1. Cardinality(S) \in Nat
    BY <1>1, FS_Subset, FS_CardinalityType DEF Entries, NewestPart
  <2>2. CASE Cardinality(S) > Cardinality(T)
    BY <1>1, <2>2 DEF EntriesLeft, TooManyEntries
  <2>3. CASE Cardinality(S) = Cardinality(T)
    <3>1. S = T
      BY <1>1, <2>3, PartsAreNested
    <3>2. WithEntries(w, S) = d
      BY <1>1, <3>1, StateFields DEF Tidy
    <3> QED
      BY <3>2
  <2> HIDE DEF U, T
  <2> QED
    BY <1>2, <1>4, <1>5, <2>1, <2>2, <2>3
<1> QED
  BY <1>1, <1>2, <1>4, <1>6 DEF LeftOf, EntriesLeft

(***************************************************************************)
(* Dropping a label of a state that does not fit, once no entry is left.   *)
(***************************************************************************)
LEMMA DropLabel ==
    ASSUME NEW w, Tidy(w), NEW d \in persisted, LeftOf(w, d),
           ~Fits(d), d.remembered = {}, NEW l \in Oldest(d.labels),
           NEW d2 \in persisted, d2.labels = d.labels \ {l}, d2.remembered = {}
    PROVE  LeftOf(w, d2)
<1>1. l \in d.labels /\ \A m \in d.labels : l.at <= m.at
  BY DEF Oldest
<1>2. NewestLabels(d.labels, w.labels) /\ IsFiniteSet(w.labels)
  BY DEF LeftOf, EntriesLeft, LabelsLeft, NewestLabels, Tidy
<1>3. IsFiniteSet(d.labels) /\ Cardinality(d.labels) \in Nat
      /\ Cardinality(d2.labels) = Cardinality(d.labels) - 1
  BY <1>1, <1>2, FS_Subset, FS_RemoveElement, FS_CardinalityType DEF NewestLabels
<1>4. NewestLabels(d2.labels, w.labels)
  BY <1>1, <1>2 DEF NewestLabels
<1>5. ASSUME NEW T, NewestPart(T, w.remembered)  PROVE ~Fits(WithEntries(w, T))
  <2>1. CASE LabelsLeft(w, d)
    BY <1>5, <2>1 DEF LabelsLeft
  <2>2. CASE EntriesLeft(w, d)
    <3>1. IsFiniteSet(T) /\ Cardinality(T) \in Nat /\ Cardinality({}) = 0
      BY <1>5, FS_Subset, FS_CardinalityType, FS_EmptySet DEF NewestPart, Tidy, Entries
    <3>2. CASE Cardinality(T) > 0
      BY <1>5, <2>2, <3>1, <3>2 DEF EntriesLeft, TooManyEntries
    <3>3. CASE Cardinality(T) = 0
      <4>1. T = {}
        BY <3>1, <3>3, FS_EmptySet
      <4>2. WithEntries(w, T) = d
        BY <2>2, <4>1, StateFields DEF EntriesLeft, Tidy
      <4> QED
        BY <4>2
    <3> QED
      BY <3>1, <3>2, <3>3
  <2> QED
    BY <2>1, <2>2 DEF LeftOf
<1>6. ASSUME NEW L \in SUBSET w.labels, Cardinality(L) > Cardinality(d2.labels)
      PROVE  ~Fits(OnlyLabels(L))
  <2>1. IsFiniteSet(L) /\ Cardinality(L) \in Nat /\ Cardinality(L) <= Cardinality(w.labels)
    BY <1>2, FS_Subset, FS_CardinalityType
  <2>2. CASE Cardinality(L) = Cardinality(d.labels)
    <3>1. Bytes(OnlyLabels(L)) = Bytes(d)
      BY <2>2 DEF Bytes, OnlyLabels
    <3> QED
      BY <3>1 DEF Fits
  <2>3. CASE Cardinality(L) > Cardinality(d.labels)
    <3>1. ~EntriesLeft(w, d)
      BY <1>3, <2>1, <2>3 DEF EntriesLeft
    <3> QED
      BY <2>3, <3>1 DEF LeftOf, LabelsLeft
  <2> QED
    BY <1>3, <1>6, <2>1, <2>2, <2>3
<1> QED
  BY <1>4, <1>5, <1>6 DEF LeftOf, LabelsLeft

(***************************************************************************)
(* When the loop ends, what is left is the largest part of w that fits.    *)
(***************************************************************************)
LEMMA LeftIsShrunk ==
    ASSUME NEW w, Tidy(w), NEW d \in persisted, LeftOf(w, d), Fits(d)
    PROVE  d \in Abs!Shrunk(w)
<1> DEFINE R == w.remembered
           byEntries == {WithEntries(w, Abs!Newest(R, n)) : n \in 0..Cardinality(R)}
           byLabels  == {OnlyLabels(L) : L \in {M \in SUBSET w.labels :
                                   \A l \in M, m \in w.labels \ M : m.at <= l.at}}
           whole     == {x \in byEntries : Fits(x)}
           part      == {x \in byLabels : Fits(x)}
<1>1. Abs!Shrunk(w) = IF whole # {}
         THEN {x \in whole : \A y \in whole : Cardinality(y.remembered) <= Cardinality(x.remembered)}
         ELSE {x \in part : \A y \in part : Cardinality(y.labels) <= Cardinality(x.labels)}
  BY SameOperators DEF Abs!Shrunk, WithEntries, OnlyLabels
<1>2. Entries(R) /\ Cardinality(R) \in Nat
  BY FS_CardinalityType DEF Tidy, Entries
<1>3. ASSUME NEW x \in byEntries
      PROVE  \E T : /\ NewestPart(T, R) /\ x = WithEntries(w, T) /\ x.remembered = T
                    /\ Cardinality(T) \in Nat
  <2>1. PICK n \in 0..Cardinality(R) : x = WithEntries(w, Abs!Newest(R, n))
    OBVIOUS
  <2>2. NewestPart(Abs!Newest(R, n), R) /\ Cardinality(Abs!Newest(R, n)) = n
    BY <1>2, NewestSize
  <2>3. x.remembered = Abs!Newest(R, n)
    BY <2>1, StateFields DEF Tidy
  <2> QED
    BY <1>2, <2>1, <2>2, <2>3
<1>4. CASE EntriesLeft(w, d)
  <2>1. NewestPart(d.remembered, R) /\ d.labels = w.labels
    BY <1>4 DEF EntriesLeft
  <2> DEFINE c == Cardinality(d.remembered)
  <2>2. c \in 0..Cardinality(R) /\ c \in Nat
    BY <1>2, <2>1, FS_Subset, FS_CardinalityType DEF Entries, NewestPart
  <2>3. d.remembered = Abs!Newest(R, c)
    BY <1>2, <2>1, <2>2, NewestSize, PartsAreNested
  <2>4. d = WithEntries(w, Abs!Newest(R, c))
    BY <2>1, <2>3, StateFields DEF Tidy
  <2>5. d \in whole
    BY <2>2, <2>4
  <2>6. ASSUME NEW y \in whole  PROVE Cardinality(y.remembered) <= c
    <3>1. PICK T : /\ NewestPart(T, R) /\ y = WithEntries(w, T) /\ y.remembered = T
                   /\ Cardinality(T) \in Nat
      BY <1>3
    <3>2. ~(Cardinality(T) > c)
      BY <1>4, <3>1 DEF EntriesLeft, TooManyEntries
    <3> QED
      BY <2>2, <3>1, <3>2
  <2> HIDE DEF whole
  <2> QED
    BY <1>1, <2>5, <2>6
<1>5. CASE LabelsLeft(w, d)
  <2>1. whole = {}
    BY <1>3, <1>5 DEF LabelsLeft
  <2>2. d = OnlyLabels(d.labels)
    BY <1>5, StateFields DEF LabelsLeft
  <2>3. d \in part
    BY <1>5, <2>2 DEF LabelsLeft, NewestLabels
  <2>4. ASSUME NEW y \in part  PROVE Cardinality(y.labels) <= Cardinality(d.labels)
    <3>1. PICK L \in SUBSET w.labels : y = OnlyLabels(L) /\ Fits(y)
      OBVIOUS
    <3>2. y.labels = L
      BY <3>1 DEF OnlyLabels
    <3>3. ~(Cardinality(L) > Cardinality(d.labels))
      BY <1>5, <3>1 DEF LabelsLeft
    <3>4. Cardinality(L) \in Nat /\ Cardinality(d.labels) \in Nat
      BY <1>5, FS_Subset, FS_CardinalityType DEF Tidy, LabelsLeft, NewestLabels
    <3> QED
      BY <3>2, <3>3, <3>4
  <2> HIDE DEF whole, part
  <2> QED
    BY <1>1, <2>1, <2>3, <2>4
<1> QED
  BY <1>4, <1>5 DEF LeftOf

(***************************************************************************)
(* Every copy of the state has finitely many labels.                       *)
(***************************************************************************)
LabelsFinite ==
    /\ IsFiniteSet(data.labels)
    /\ \A b \in {disk.body, hard} \cap persisted : IsFiniteSet(b.labels)

(***************************************************************************)
(* Labels come one by one.                                                 *)
(***************************************************************************)
LEMMA RelabelFinite ==
    ASSUME NEW L, IsFiniteSet(L), NEW key, NEW text, NEW at
    PROVE  IsFiniteSet(Relabel(L, key, text, at))
<1> DEFINE M == {l \in L : l.key # key}
           l0 == [key |-> key, text |-> text, at |-> at]
<1>1. IsFiniteSet(M)
  BY FS_Subset
<1> HIDE DEF M
<1>2. IsFiniteSet(M \cup {l0}) /\ M \cup {} = M
  BY <1>1, FS_AddElement
<1> QED
  BY <1>1, <1>2 DEF Relabel, M

(***************************************************************************)
(* No step makes a table of labels infinite.                               *)
(***************************************************************************)
LEMMA FiniteInductive ==
    TypeOK /\ DurableInv /\ LabelsFinite /\ [Next]_vars => LabelsFinite'
<1> SUFFICES ASSUME TypeOK, DurableInv, LabelsFinite, [Next]_vars PROVE LabelsFinite'
  OBVIOUS
<1>0. data \in persisted /\ IsFiniteSet(Empty.labels) /\ Empty \in persisted
  BY FS_EmptySet, ConstantTypes DEF TypeOK, Empty
<1>1. ASSUME NEW t \in Threads, SetLabel(t)  PROVE LabelsFinite'
  <2>1. PICK at \in Times :
            data' = [data EXCEPT !.labels = Relabel(data.labels, call[t].key, call[t].text, at)]
    BY <1>1 DEF SetLabel
  <2>2. data'.labels = Relabel(data.labels, call[t].key, call[t].text, at)
    BY <1>0, <2>1 DEF persisted
  <2>3. IsFiniteSet(data'.labels)
    BY <2>2, RelabelFinite DEF LabelsFinite
  <2> QED
    BY <1>1, <2>3 DEF SetLabel, LabelsFinite, fileVars
<1>2. ASSUME NEW t \in Threads, Remember(t) \/ DeleteRemembered(t) \/ EvictOldestRemembered(t)
      PROVE  LabelsFinite'
  <2>1. data'.labels = data.labels
    BY <1>0, <1>2 DEF Remember, DeleteRemembered, EvictOldestRemembered, persisted
  <2> QED
    BY <1>2, <2>1 DEF Remember, DeleteRemembered, EvictOldestRemembered, LabelsFinite, fileVars
<1>3. ASSUME NEW t \in Threads, evictOldestLabelLocked(t)  PROVE LabelsFinite'
  <2>1. data'.labels \in SUBSET data.labels
    BY <1>0, <1>3 DEF evictOldestLabelLocked, persisted
  <2>2. IsFiniteSet(data'.labels)
    BY <2>1, FS_Subset DEF LabelsFinite
  <2> QED
    BY <1>3, <2>2 DEF evictOldestLabelLocked, LabelsFinite, fileVars
<1>4. ASSUME NEW t \in Threads, Rename(t)  PROVE LabelsFinite'
  <2>1. disk' = disk \/ disk'.body = data
    BY <1>4 DEF Rename, Goto, DurableInv, WriteProgress
  <2> QED
    BY <1>4, <2>1 DEF Rename, LabelsFinite
<1>5. CASE Flush
  BY <1>5 DEF Flush, Settled, LabelsFinite, DurableInv, Committed
<1>6. CASE Crash
  BY <1>0, <1>6 DEF Crash, ForgetMemory, LabelsFinite, fileVars
<1>7. CASE PowerLoss
  BY <1>0, <1>7 DEF PowerLoss, ForgetMemory, Settled, LabelsFinite, DurableInv, Committed
<1>8. CASE Open
  <2>1. disk.body \in persisted \/ disk.body = NoFile
    BY DEF DurableInv, Committed, TypeOK, File, Body
  <2> QED
    BY <1>0, <1>8, <2>1 DEF Open, Hydrated, LabelsFinite, fileVars
<1>9. CASE UNCHANGED <<data, disk, hard>>
  BY <1>9 DEF LabelsFinite
<1> QED
  BY <1>1, <1>2, <1>3, <1>4, <1>5, <1>6, <1>7, <1>8, <1>9
  DEF Next, Acquire, Proceed, BeginCall, SetLabelTooLong, Read, RememberNoULID,
      DeleteRememberedMissing, Marshal, OpenTmp, WriteTmp, SyncTmp, CloseTmp, RemoveTmp, Return,
      fileVars, vars

(***************************************************************************)
(* What a call changes in memory before persistLocked is a state it may    *)
(* aim at.                                                                 *)
(***************************************************************************)
LEMMA CallsHitTargets ==
    ASSUME TypeOK, RetentionInv, NEW t \in Threads,
           SetLabel(t) \/ Remember(t) \/ DeleteRemembered(t)
    PROVE  call[t] \in Calls /\ data' \in Abs!Targets(call[t], data)
<1>0. data \in persisted /\ nextId \in Nat /\ Entries(data.remembered)
  BY DEF TypeOK, RetentionInv, Ordered, Entries, persisted
<1>1. call[t] \in Calls
  BY DEF TypeOK, SetLabel, Remember, DeleteRemembered, Lock
<1>2. CASE SetLabel(t)
  <2>1. call[t].op = "SetLabel"
    BY <1>2 DEF SetLabel, Lock
  <2>2. PICK at \in Times :
            data' = [data EXCEPT !.labels = Relabel(data.labels, call[t].key, call[t].text, at)]
    BY <1>2 DEF SetLabel
  <2>3. Abs!Targets(call[t], data) = {[data EXCEPT !.labels =
            Relabel(data.labels, call[t].key, call[t].text, x)] : x \in Times}
    BY <2>1, SameOperators DEF Abs!Targets
  <2> QED
    BY <1>1, <2>2, <2>3
<1>3. CASE Remember(t)
  <2> DEFINE r(i) == [id |-> i, key |-> call[t].key, bytes |-> call[t].bytes]
             A == data.remembered \cup {r(nextId)}
  <2>1. call[t].op = "Remember" /\ nextId \in Ids /\ r(nextId).key = call[t].key
    BY <1>3 DEF Remember, Lock
  <2>2. data' = [data EXCEPT !.remembered =
                    evictGlobalLocked(evictPerKeyLocked(A, call[t].key))]
    BY <1>3, <2>1 DEF Remember
  <2>3. \A e \in data.remembered : e.id < nextId /\ e.id \in Nat
    BY <1>0, Positions DEF RetentionInv, Ordered
  <2>4. Entries(A)
    <3>1. r(nextId) \in Remembered
      BY <1>1, <2>1, CallFields DEF Remembered
    <3>2. r(nextId).id = nextId
      OBVIOUS
    <3> HIDE DEF r
    <3>3. \A e \in data.remembered : e.id # r(nextId).id
      BY <1>0, <2>3, <3>2
    <3>4. IsFiniteSet(A)
      BY <1>0, FS_AddElement DEF Entries
    <3> QED
      BY <1>0, <3>1, <3>3, <3>4 DEF Entries
  <2>5. evictGlobalLocked(evictPerKeyLocked(A, call[t].key)) = Abs!Retain(A, call[t].key)
    <3> HIDE DEF A
    <3> QED
      BY <2>4, EvictionIsRetain
  <2>6. Abs!Targets(call[t], data) =
          {[data EXCEPT !.remembered = Abs!Retain(data.remembered \cup {r(i)}, call[t].key)]
              : i \in {j \in Ids : \A e \in data.remembered : e.id < j}}
    BY <2>1 DEF Abs!Targets
  <2>7. nextId \in {j \in Ids : \A e \in data.remembered : e.id < j}
    BY <2>1, <2>3
  <2> HIDE DEF r
  <2> QED
    BY <1>1, <2>2, <2>5, <2>6, <2>7
<1>4. CASE DeleteRemembered(t)
  <2>1. call[t].op = "DeleteRemembered"
        /\ data' = [data EXCEPT !.remembered = {e \in data.remembered : e.id # call[t].id}]
    BY <1>4 DEF DeleteRemembered, Lock
  <2> QED
    BY <1>1, <2>1 DEF Abs!Targets
<1> QED
  BY <1>2, <1>3, <1>4

(***************************************************************************)
(* How far a call is from its outcome: in persistLocked's loop it has part *)
(* of a target left, after it an outcome, and when it fails before         *)
(* changing anything the state it found.                                   *)
(***************************************************************************)
Writing == {"open", "write", "sync", "close", "rename", "cleanup"}

Progress(t) ==
    /\ pc[t] \in {"lock", "persist"} \cup Writing => res[t] # "nil"
    /\ pc[t] \in {"persist"} \cup Writing => call[t] \in Calls
    /\ pc[t] = "persist" =>
         \E w \in Abs!Targets(call[t], prev) : Tidy(w) /\ LeftOf(w, data)
    /\ pc[t] \in Writing => data \in Abs!Outcomes(call[t], prev)
    /\ pc[t] = "return" /\ res[t] # "nil" =>
         data = prev \/ (call[t] \in Calls /\ data \in Abs!Outcomes(call[t], prev))

CallInv == \A t \in Threads : Progress(t)

(***************************************************************************)
(* No step breaks it.                                                      *)
(***************************************************************************)
LEMMA CallInductive ==
    /\ TypeOK /\ TypeOK' /\ DurableInv /\ RetentionInv /\ RetentionInv'
    /\ LabelsFinite' /\ CallInv /\ [Next]_vars
    => CallInv'
<1> SUFFICES ASSUME TypeOK, TypeOK', DurableInv, RetentionInv, RetentionInv',
                    LabelsFinite', CallInv, [Next]_vars
             PROVE  CallInv'
  OBVIOUS
<1>0. /\ pc \in [Threads -> Points] /\ res \in [Threads -> Answers] /\ NoThread \notin Threads
      /\ data \in persisted /\ data' \in persisted
      /\ \A t \in Threads : pc[t] \in InFlight <=> mu = t
      /\ Writing \subseteq InFlight /\ "return" \in InFlight /\ "persist" \in InFlight
      /\ "lock" \notin InFlight /\ "idle" \notin InFlight
  BY StoreConstants DEF TypeOK, DurableInv, Exclusive, Writing, InFlight
<1>t. Tidy(data')
  BY <1>0 DEF RetentionInv, Ordered, LabelsFinite, Tidy, Entries, persisted
<1>1. ASSUME NEW t \in Threads, UNCHANGED <<data, prev>>, pc'[t] = pc[t], res'[t] = res[t],
             call'[t] = call[t], Progress(t)
      PROVE  Progress(t)'
  BY <1>1 DEF Progress
<1>2. ASSUME UNCHANGED <<data, prev, pc, res, call>>  PROVE CallInv'
  BY <1>1, <1>2 DEF CallInv
<1>3. ASSUME NEW t \in Threads, pc[t] \in InFlight \/ mu = NoThread,
             \A u \in Threads : u # t => pc'[u] = pc[u] /\ res'[u] = res[u],
             Progress(t)'
      PROVE  CallInv'
  <2> SUFFICES ASSUME NEW u \in Threads, u # t PROVE Progress(u)'
    BY <1>3 DEF CallInv
  <2>1. pc'[u] = pc[u] /\ res'[u] = res[u] /\ pc[u] \notin InFlight
    BY <1>0, <1>3
  <2>2. Progress(u)
    BY DEF CallInv
  <2> QED
    BY <1>0, <2>1, <2>2 DEF Progress
<1>4. ASSUME NEW t \in Threads, BeginCall(t)  PROVE CallInv'
  <2> SUFFICES ASSUME NEW u \in Threads PROVE Progress(u)'
    BY DEF CallInv
  <2>1. CASE u # t
    <3>1. UNCHANGED <<data, prev>> /\ pc'[u] = pc[u] /\ res'[u] = res[u] /\ call'[u] = call[u]
      BY <1>0, <1>4, <2>1 DEF BeginCall, Goto, Answer, TypeOK
    <3> QED
      BY <1>1, <3>1 DEF CallInv
  <2>2. CASE u = t
    BY <1>0, <1>4, <2>2 DEF BeginCall, Goto, Answer, Progress, Writing
  <2> QED
    BY <2>1, <2>2
<1>5. ASSUME NEW t \in Threads, SetLabelTooLong(t)  PROVE CallInv'
  <2> SUFFICES ASSUME NEW u \in Threads PROVE Progress(u)'
    BY DEF CallInv
  <2>1. CASE u # t
    BY <1>0, <1>1, <1>5, <2>1 DEF SetLabelTooLong, Answer, CallInv
  <2>2. CASE u = t
    BY <1>5, <2>2 DEF SetLabelTooLong, Progress, Writing
  <2> QED
    BY <2>1, <2>2
<1>6. ASSUME NEW t \in Threads, Read(t)  PROVE CallInv'
  BY <1>2, <1>6 DEF Read
<1>7. ASSUME NEW t \in Threads, SetLabel(t) \/ Remember(t) \/ DeleteRemembered(t)  PROVE CallInv'
  <2>1. /\ mu = NoThread /\ prev' = data /\ call' = call /\ res' = res
        /\ pc[t] = "lock" /\ pc' = [pc EXCEPT ![t] = "persist"]
    BY <1>7 DEF SetLabel, Remember, DeleteRemembered, Lock, Goto
  <2>2. call[t] \in Calls /\ data' \in Abs!Targets(call[t], data)
    BY <1>7, CallsHitTargets
  <2>3. LeftOf(data', data')
    BY <1>t, AllLeft
  <2>4. res[t] # "nil"
    BY <2>1 DEF CallInv, Progress
  <2>5. \E w \in Abs!Targets(call[t], prev') : Tidy(w) /\ LeftOf(w, data')
    BY <1>t, <2>1, <2>2, <2>3
  <2>6. Progress(t)'
    BY <1>0, <2>1, <2>2, <2>4, <2>5 DEF Progress, Writing
  <2> QED
    BY <1>0, <1>3, <2>1, <2>6
<1>8. ASSUME NEW t \in Threads, RememberNoULID(t) \/ DeleteRememberedMissing(t)  PROVE CallInv'
  <2>1. Progress(t)'
    BY <1>0, <1>8 DEF RememberNoULID, DeleteRememberedMissing, Lock, Goto, Answer, Progress, Writing
  <2> QED
    BY <1>0, <1>3, <1>8, <2>1 DEF RememberNoULID, DeleteRememberedMissing, Lock, Goto, Answer
<1>9. ASSUME NEW t \in Threads, pc[t] = "persist", UNCHANGED <<pc, res, call, prev>>,
             \A w : Tidy(w) /\ LeftOf(w, data) => LeftOf(w, data')
      PROVE  CallInv'
  <2>1. PICK w \in Abs!Targets(call[t], prev) : Tidy(w) /\ LeftOf(w, data)
    BY <1>9 DEF CallInv, Progress
  <2>2. res[t] # "nil" /\ call[t] \in Calls
    BY <1>9 DEF CallInv, Progress
  <2>3. \E x \in Abs!Targets(call[t], prev) : Tidy(x) /\ LeftOf(x, data')
    BY <1>9, <2>1
  <2>4. Progress(t)'
    BY <1>9, <2>2, <2>3 DEF Progress, Writing
  <2> QED
    BY <1>0, <1>3, <1>9, <2>4
<1>10. ASSUME NEW t \in Threads, EvictOldestRemembered(t)  PROVE CallInv'
  <2>1. /\ ~Fits(data) /\ data.remembered # {} /\ data'.labels = data.labels
        /\ data'.remembered = {e \in data.remembered : \E f \in data.remembered : f.id < e.id}
    BY <1>0, <1>10 DEF EvictOldestRemembered, persisted
  <2>2. \A w : Tidy(w) /\ LeftOf(w, data) => LeftOf(w, data')
    BY <1>0, <2>1, DropEntry
  <2> QED
    BY <1>9, <1>10, <2>2 DEF EvictOldestRemembered
<1>11. ASSUME NEW t \in Threads, evictOldestLabelLocked(t)  PROVE CallInv'
  <2>1. PICK l \in Oldest(data.labels) : data' = [data EXCEPT !.labels = @ \ {l}]
    BY <1>11 DEF evictOldestLabelLocked
  <2>2. /\ ~Fits(data) /\ data.remembered = {}
        /\ data'.labels = data.labels \ {l} /\ data'.remembered = {}
    BY <1>0, <1>11, <2>1 DEF evictOldestLabelLocked, persisted
  <2>3. \A w : Tidy(w) /\ LeftOf(w, data) => LeftOf(w, data')
    BY <1>0, <2>1, <2>2, DropLabel
  <2> QED
    BY <1>9, <1>11, <2>3 DEF evictOldestLabelLocked
<1>12. ASSUME NEW t \in Threads, Marshal(t)  PROVE CallInv'
  <2>1. /\ pc[t] = "persist" /\ pc' = [pc EXCEPT ![t] = "open"]
        /\ Fits(data) /\ UNCHANGED <<data, prev, res, call>>
    BY <1>12 DEF Marshal, Goto
  <2>2. PICK w \in Abs!Targets(call[t], prev) : Tidy(w) /\ LeftOf(w, data)
    BY <2>1 DEF CallInv, Progress
  <2>3. data \in Abs!Shrunk(w)
    BY <1>0, <2>1, <2>2, LeftIsShrunk
  <2>4. data \in Abs!Outcomes(call[t], prev)
    BY <2>2, <2>3 DEF Abs!Outcomes
  <2>5. res[t] # "nil" /\ call[t] \in Calls
    BY <2>1 DEF CallInv, Progress
  <2>6. Progress(t)'
    BY <1>0, <2>1, <2>4, <2>5 DEF Progress, Writing
  <2> QED
    BY <1>0, <1>3, <2>1, <2>6
<1>13. ASSUME NEW t \in Threads,
              OpenTmp(t) \/ WriteTmp(t) \/ SyncTmp(t) \/ CloseTmp(t) \/ Rename(t) \/ RemoveTmp(t)
       PROVE  CallInv'
  <2>1. /\ pc[t] \in Writing /\ UNCHANGED <<data, prev, call>>
        /\ \A u \in Threads : u # t => pc'[u] = pc[u] /\ res'[u] = res[u]
    BY <1>0, <1>13
    DEF OpenTmp, WriteTmp, SyncTmp, CloseTmp, Rename, RemoveTmp, Goto, Answer, Writing
  <2>2. pc'[t] = "return" \/ (pc'[t] \in Writing /\ res' = res)
    BY <1>0, <1>13
    DEF OpenTmp, WriteTmp, SyncTmp, CloseTmp, Rename, RemoveTmp, Goto, Answer, Writing
  <2>3. res[t] # "nil" /\ call[t] \in Calls /\ data \in Abs!Outcomes(call[t], prev)
    BY <2>1 DEF CallInv, Progress
  <2>4. Progress(t)'
    BY <2>1, <2>2, <2>3 DEF Progress, Writing
  <2> QED
    BY <1>0, <1>3, <2>1, <2>4
<1>14. ASSUME NEW t \in Threads, Return(t)  PROVE CallInv'
  <2>1. /\ pc[t] = "return" /\ pc' = [pc EXCEPT ![t] = "idle"] /\ res' = res
    BY <1>14 DEF Return, Goto
  <2>2. Progress(t)'
    BY <1>0, <2>1 DEF Progress, Writing
  <2> QED
    BY <1>0, <1>3, <2>1, <2>2
<1>15. CASE Crash \/ PowerLoss
  BY <1>15 DEF Crash, PowerLoss, ForgetMemory, CallInv, Progress, Writing
<1>16. CASE Open
  BY <1>16 DEF Open, DurableInv, Exclusive, CallInv, Progress, Writing
<1>17. CASE Flush \/ UNCHANGED vars
  BY <1>2, <1>17 DEF Flush, vars
<1> QED
  BY <1>4, <1>5, <1>6, <1>7, <1>8, <1>10, <1>11, <1>12, <1>13, <1>14, <1>15, <1>16, <1>17
  DEF Next, Acquire, Proceed

(***************************************************************************)
(* Every reachable state satisfies it.                                     *)
(***************************************************************************)
LEMMA CallInvariant == Spec => [](LabelsFinite /\ CallInv)
<1>1. Init => LabelsFinite /\ CallInv
  BY FS_EmptySet, StoreConstants
  DEF Init, LabelsFinite, CallInv, Progress, Writing, NoTmp, Empty
<1> QED
  BY <1>1, TypeCorrect, Durable, Retention, FiniteInductive, CallInductive, PTL DEF Spec

(***************************************************************************)
(* What readers are shown, whichever goroutine is in a call.               *)
(***************************************************************************)
Shown ==
    /\ (\A t \in Threads : pc[t] \notin InFlight) => View = data
    /\ \A t \in Threads : pc[t] \in InFlight => View = IF res[t] # "nil" THEN prev ELSE data

(***************************************************************************)
(* One goroutine at most is in a call.                                     *)
(***************************************************************************)
LEMMA ReadersAreShown == (DurableInv => Shown) /\ (DurableInv' => Shown')
  BY StoreConstants DEF DurableInv, Exclusive, Shown, View

(***************************************************************************)
(* A step of the store that neither moves the files nor changes what       *)
(* readers are shown is invisible to StoreAbs.                             *)
(***************************************************************************)
Invisible == UNCHANGED <<mode, View, disk, hard>>

(***************************************************************************)
(* Every step of the store is a step of StoreAbs or a stutter: a call      *)
(* takes effect when it is renamed into place, or when it returns an       *)
(* error.                                                                  *)
(***************************************************************************)
LEMMA StepsSimulate ==
    ASSUME TypeOK, TypeOK', DurableInv, DurableInv', CallInv, [Next]_vars
    PROVE  [Abs!AbsNext]_(Abs!absVars)
<1>0. /\ pc \in [Threads -> Points] /\ res \in [Threads -> Answers]
      /\ NoThread \notin Threads /\ NoFile \notin persisted
      /\ data \in persisted
      /\ \A t \in Threads : pc[t] \in InFlight <=> mu = t
      /\ \A t \in Threads : mode # "up" => pc[t] = "idle"
      /\ disk.body # Torn /\ disk.synced
  BY StoreConstants DEF TypeOK, DurableInv, Exclusive, Committed
<1>s. Shown /\ Shown'
  BY ReadersAreShown
<1>1. ASSUME Invisible  PROVE [Abs!AbsNext]_(Abs!absVars)
  BY <1>1 DEF Invisible, Abs!absVars
<1>2. ASSUME NEW t \in Threads, BeginCall(t) \/ SetLabelTooLong(t) \/ Read(t)
      PROVE  [Abs!AbsNext]_(Abs!absVars)
  <2>1. UNCHANGED <<mode, disk, hard, data, prev>>
    BY <1>2 DEF BeginCall, SetLabelTooLong, Read, boundVars, fileVars
  <2>2. \A u \in Threads : /\ pc'[u] \in InFlight <=> pc[u] \in InFlight
                           /\ pc[u] \in InFlight => res'[u] = res[u]
    BY <1>0, <1>2 DEF BeginCall, SetLabelTooLong, Read, Goto, Answer, InFlight
  <2>3. UNCHANGED View
    BY <1>s, <2>1, <2>2 DEF Shown
  <2> QED
    BY <1>1, <2>1, <2>3 DEF Invisible
<1>3. ASSUME NEW t \in Threads, Acquire(t)  PROVE [Abs!AbsNext]_(Abs!absVars)
  <2>1. /\ UNCHANGED <<mode, disk, hard>> /\ mu = NoThread /\ prev' = data
        /\ pc[t] = "lock" /\ pc'[t] \in InFlight
    BY <1>0, <1>3 DEF Acquire, SetLabel, Remember, RememberNoULID, DeleteRemembered,
       DeleteRememberedMissing, Lock, Goto, boundVars, fileVars, InFlight
  <2>2. View = data
    BY <1>0, <1>s, <2>1 DEF Shown
  <2>3. res'[t] # "nil"
    <3>1. res[t] # "nil"
      BY <2>1 DEF CallInv, Progress
    <3> QED
      BY <1>0, <1>3, <3>1 DEF Acquire, SetLabel, Remember, RememberNoULID, DeleteRemembered,
         DeleteRememberedMissing, Answer
  <2>4. View' = data
    BY <1>s, <2>1, <2>3 DEF Shown
  <2> QED
    BY <1>1, <2>1, <2>2, <2>4 DEF Invisible
<1>4. ASSUME NEW t \in Threads, pc[t] \in InFlight, pc'[t] \in InFlight,
             res[t] # "nil", res'[t] # "nil", UNCHANGED <<mode, disk, hard, prev>>
      PROVE  [Abs!AbsNext]_(Abs!absVars)
  <2>1. UNCHANGED View
    BY <1>4, <1>s DEF Shown
  <2> QED
    BY <1>1, <1>4, <2>1 DEF Invisible
<1>5. ASSUME NEW t \in Threads,
             EvictOldestRemembered(t) \/ evictOldestLabelLocked(t) \/ Marshal(t) \/ OpenTmp(t)
             \/ WriteTmp(t) \/ SyncTmp(t) \/ CloseTmp(t) \/ RemoveTmp(t)
             \/ (Rename(t) /\ UNCHANGED <<disk, res>>)
      PROVE  [Abs!AbsNext]_(Abs!absVars)
  <2>1. /\ pc[t] \in {"persist"} \cup Writing /\ pc'[t] \in InFlight
        /\ UNCHANGED <<mode, disk, hard, prev>>
    BY <1>0, <1>5 DEF EvictOldestRemembered, evictOldestLabelLocked, Marshal, OpenTmp, WriteTmp,
       SyncTmp, CloseTmp, Rename, RemoveTmp, Goto, boundVars, fileVars, Writing, InFlight
  <2>2. res[t] # "nil"
    BY <2>1 DEF CallInv, Progress
  <2>3. res'[t] # "nil"
    BY <1>0, <1>5, <2>2 DEF EvictOldestRemembered, evictOldestLabelLocked, Marshal, OpenTmp,
       WriteTmp, SyncTmp, CloseTmp, Rename, RemoveTmp, Answer
  <2>4. pc[t] \in InFlight
    BY <2>1 DEF Writing, InFlight
  <2> QED
    BY <1>4, <2>1, <2>2, <2>3, <2>4
<1>6. ASSUME NEW t \in Threads, Rename(t), pc'[t] = "return"
      PROVE  [Abs!AbsNext]_(Abs!absVars)
  <2>1. /\ pc[t] = "rename" /\ res'[t] = "nil" /\ disk' = tmp
        /\ UNCHANGED <<mode, data, prev, hard>>
    BY <1>0, <1>6 DEF Rename, Goto, Answer, boundVars
  <2>2. tmp.body = data
    BY <2>1 DEF DurableInv, WriteProgress
  <2>3. /\ call[t] \in Calls /\ data \in Abs!Outcomes(call[t], prev) /\ res[t] # "nil"
    BY <2>1 DEF CallInv, Progress, Writing
  <2>4. View = prev
    BY <1>s, <2>1, <2>3 DEF Shown, InFlight
  <2>5. View' = data
    BY <1>6, <1>s, <2>1 DEF Shown, InFlight
  <2>6. Hydrated(disk'.body) = data
    BY <1>0, <2>1, <2>2 DEF Hydrated
  <2>7. mode = "up"
    BY <1>0, <2>1
  <2>8. Abs!Put(call[t])
    BY <2>1, <2>3, <2>4, <2>5, <2>6, <2>7 DEF Abs!Put
  <2> QED
    BY <2>3, <2>8, SameOperators DEF Abs!AbsNext
<1>7. ASSUME NEW t \in Threads, Return(t)  PROVE [Abs!AbsNext]_(Abs!absVars)
  <2>1. /\ pc[t] = "return" /\ pc' = [pc EXCEPT ![t] = "idle"]
        /\ UNCHANGED <<mode, data, disk, hard>>
    BY <1>7 DEF Return, Goto, boundVars, fileVars
  <2>2. \A u \in Threads : pc'[u] \notin InFlight
    BY <1>0, <2>1 DEF InFlight
  <2>3. View' = data
    BY <1>s, <2>1, <2>2 DEF Shown
  <2>4. View = IF res[t] # "nil" THEN prev ELSE data
    BY <1>s, <2>1 DEF Shown, InFlight
  <2>5. CASE View = data
    BY <1>1, <2>1, <2>3, <2>5 DEF Invisible
  <2>6. CASE View # data
    <3>1. View = prev /\ call[t] \in Calls /\ data \in Abs!Outcomes(call[t], prev)
      BY <2>1, <2>4, <2>6 DEF CallInv, Progress
    <3>2. mode = "up"
      BY <1>0, <2>1
    <3>3. Abs!Put(call[t])
      BY <2>1, <2>3, <3>1, <3>2 DEF Abs!Put
    <3> QED
      BY <3>1, <3>3, SameOperators DEF Abs!AbsNext
  <2> QED
    BY <2>5, <2>6
<1>8. CASE Flush
  <2>1. hard' = disk.body /\ UNCHANGED <<mode, disk, data, prev, pc, res>>
    BY <1>0, <1>8 DEF Flush, Settled, boundVars
  <2>2. UNCHANGED View
    BY <2>1 DEF View
  <2>3. Abs!Flush
    BY <2>1, <2>2 DEF Abs!Flush
  <2> QED
    BY <2>3 DEF Abs!AbsNext
<1>9. ASSUME ForgetMemory  PROVE mode' # "up" /\ View' = Empty
  BY <1>9 DEF ForgetMemory, View, InFlight
<1>10. CASE Crash
  <2>1. Abs!Stop
    BY <1>9, <1>10, SameOperators DEF Crash, fileVars, Abs!Stop
  <2> QED
    BY <2>1 DEF Abs!AbsNext
<1>11. CASE PowerLoss
  <2>1. PICK b \in {hard, disk.body} : hard' = b /\ disk' = [body |-> b, synced |-> TRUE]
    BY <1>0, <1>11 DEF PowerLoss, Settled
  <2>2. disk'.body = b
    BY <2>1
  <2>3. Abs!Stop
    BY <1>9, <1>11, <2>1, <2>2, SameOperators DEF PowerLoss, Abs!Stop
  <2> QED
    BY <2>3 DEF Abs!AbsNext
<1>12. CASE Open
  <2>1. mode = "down" /\ mode' = "up" /\ data' = Hydrated(disk.body) /\ UNCHANGED <<disk, hard, pc>>
    BY <1>0, <1>12 DEF Open, fileVars
  <2>2. \A u \in Threads : pc'[u] \notin InFlight
    BY <1>0, <2>1 DEF InFlight
  <2>3. View' = data'
    BY <1>s, <2>2 DEF Shown
  <2>4. Abs!Start
    BY <2>1, <2>3 DEF Abs!Start
  <2> QED
    BY <2>4 DEF Abs!AbsNext
<1>13. CASE UNCHANGED vars
  BY <1>1, <1>13 DEF vars, fileVars, boundVars, Invisible, View
<1>14. ASSUME NEW t \in Threads, Rename(t)
       PROVE  pc'[t] = "return" \/ UNCHANGED <<disk, res>>
  BY <1>0, <1>14 DEF Rename, Goto
<1> QED
  BY <1>2, <1>3, <1>5, <1>6, <1>7, <1>8, <1>10, <1>11, <1>12, <1>13, <1>14
  DEF Next, Proceed

(***************************************************************************)
(* The store implements StoreAbs: to its readers and to a restart every    *)
(* call is atomic, whatever goroutines, file errors, crashes and power     *)
(* failures interleave, and what a call evicts is exactly what the         *)
(* retention policy and the size limit ask for.                            *)
(***************************************************************************)
THEOREM StoreImplementsAbs == Spec => ImplementsStoreAbs
<1>1. Init => Abs!AbsInit
  <2> SUFFICES ASSUME Init PROVE Abs!AbsInit
    OBVIOUS
  <2>1. View = Empty
    BY DEF Init, View, InFlight
  <2> QED
    BY <2>1, SameOperators DEF Init, Abs!AbsInit, Hydrated, NoTmp
<1>2. TypeOK /\ TypeOK' /\ DurableInv /\ DurableInv' /\ CallInv /\ [Next]_vars
        => [Abs!AbsNext]_(Abs!absVars)
  BY StepsSimulate
<1>3. Spec => [](TypeOK /\ DurableInv /\ CallInv)
  BY TypeCorrect, Durable, CallInvariant, PTL
<1>4. Spec => Abs!AbsSpec
  BY <1>1, <1>2, <1>3, PTL DEF Spec, Abs!AbsSpec
<1> QED
  BY <1>4 DEF ImplementsStoreAbs

=============================================================================
