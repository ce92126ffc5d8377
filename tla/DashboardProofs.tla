-------------------------- MODULE DashboardProofs --------------------------
(***************************************************************************)
(* What requests do to processes and to the store, for any number of       *)
(* requests, programs, ports and pids.                                     *)
(***************************************************************************)
EXTENDS Dashboard, ProcessManagerProofs, FiniteSetTheorems, WellFoundedInduction

-----------------------------------------------------------------------------
(* What entries weigh.  The sum of their sizes takes them out one by one,   *)
(* in an order fixed by CHOOSE.                                             *)

Pick(s) == CHOOSE x \in s : TRUE

Weight(R) == S!MapThenSumSet(LAMBDA e : e.bytes, R)

Summand(g, s) == IF s = {} THEN 0 ELSE Pick(s).bytes + g[s \ {Pick(s)}]

IsSum(D, g) == g = [s \in SUBSET D |-> Summand(g, s)]

(***************************************************************************)
(* Weight in these terms.                                                  *)
(***************************************************************************)
LEMMA WeightIsIterated ==
    ASSUME NEW R
    PROVE  Weight(R) = (CHOOSE g : IsSum(R, g))[R]
  BY DEF Weight, S!MapThenSumSet, S!MapThenFoldSet, IsSum, Summand, Pick

(***************************************************************************)
(* What holds of 0 and of n + 1 when it holds of n, for a set of numbers.  *)
(***************************************************************************)
LEMMA Counting ==
    ASSUME NEW T \in SUBSET Nat, 0 \in T, \A n \in T : n + 1 \in T
    PROVE  T = Nat
<1> DEFINE U == Nat \ T
<1>1. ASSUME U # {}  PROVE FALSE
  <2>1. PICK m \in U : \A j \in U : ~(<<j, m>> \in OpToRel(<, Nat))
    BY <1>1, NatLessThanWellFounded, WFMin
  <2>2. \A j \in U : ~(j < m)
    BY <2>1 DEF OpToRel
  <2>0. m \in Nat /\ m # 0
    BY <2>1
  <2>3. m - 1 \in Nat /\ m - 1 < m /\ (m - 1) + 1 = m
    BY <2>0
  <2>4. m - 1 \in T
    BY <2>2, <2>3
  <2> QED
    BY <2>1, <2>3, <2>4
<1> QED
  BY <1>1

(***************************************************************************)
(* Taking an element out of a finite set.                                  *)
(***************************************************************************)
LEMMA PickOne ==
    ASSUME NEW s, IsFiniteSet(s), s # {}
    PROVE  /\ Pick(s) \in s /\ IsFiniteSet(s \ {Pick(s)})
           /\ Cardinality(s \ {Pick(s)}) = Cardinality(s) - 1
           /\ Cardinality(s) \in Nat \ {0} /\ Cardinality(s) - 1 \in Nat
<1>1. Pick(s) \in s
  BY DEF Pick
<1>2. IsFiniteSet(s \ {Pick(s)}) /\ Cardinality(s \ {Pick(s)}) = Cardinality(s) - 1
  BY <1>1, FS_RemoveElement
<1>3. Cardinality(s) \in Nat /\ Cardinality(s) # 0
  BY FS_CardinalityType, FS_EmptySet
<1> QED
  BY <1>1, <1>2, <1>3

(***************************************************************************)
(* The partial sums exist: a function that is right for all sets of at     *)
(* most n arguments gives one that is right for n + 1.                     *)
(***************************************************************************)
LEMMA SumsExist ==
    ASSUME NEW D, IsFiniteSet(D)
    PROVE  \E g : IsSum(D, g)
<1> DEFINE RightTo(g, n) == /\ g = [s \in SUBSET D |-> g[s]]
                            /\ \A s \in SUBSET D : Cardinality(s) <= n => g[s] = Summand(g, s)
           T == {n \in Nat : \E g : RightTo(g, n)}
<1>0. \A s \in SUBSET D : IsFiniteSet(s) /\ Cardinality(s) \in Nat
  BY FS_Subset, FS_CardinalityType
<1>1. 0 \in T
  <2> DEFINE g == [s \in SUBSET D |-> 0]
  <2>1. \A s \in SUBSET D : Cardinality(s) <= 0 => s = {}
    BY <1>0, FS_EmptySet
  <2>2. RightTo(g, 0)
    BY <2>1 DEF Summand
  <2> QED
    BY <2>2
<1>2. ASSUME NEW n \in T  PROVE n + 1 \in T
  <2>1. PICK g : RightTo(g, n)
    OBVIOUS
  <2> DEFINE h == [s \in SUBSET D |-> IF Cardinality(s) <= n THEN g[s] ELSE Summand(g, s)]
  <2>2. ASSUME NEW s \in SUBSET D, Cardinality(s) <= n + 1  PROVE h[s] = Summand(h, s)
    <3>1. h[s] = Summand(g, s)
      BY <2>1
    <3>2. CASE s = {}
      BY <3>1, <3>2 DEF Summand
    <3>3. CASE s # {}
      <4> DEFINE r == s \ {Pick(s)}
      <4>1. r \in SUBSET D /\ Cardinality(r) <= n
        BY <1>0, <2>2, <3>3, PickOne
      <4> HIDE DEF r
      <4>2. h[r] = g[r]
        BY <4>1
      <4> QED
        BY <3>1, <3>3, <4>2 DEF Summand, r
    <3> QED
      BY <3>2, <3>3
  <2>3. RightTo(h, n + 1)
    BY <2>2
  <2>4. n + 1 \in Nat
    OBVIOUS
  <2> HIDE DEF RightTo, h
  <2> QED
    BY <2>3, <2>4
<1>3. T = Nat
  <2> HIDE DEF T
  <2>1. T \in SUBSET Nat
    BY DEF T
  <2> QED
    BY <1>1, <1>2, <2>1, Counting
<1>4. PICK g : RightTo(g, Cardinality(D))
  BY <1>0, <1>3
<1>5. \A s \in SUBSET D : Cardinality(s) <= Cardinality(D)
  BY FS_Subset
<1>6. IsSum(D, g)
  BY <1>4, <1>5 DEF IsSum
<1> QED
  BY <1>6

(***************************************************************************)
(* Two ways to sum agree on what both sum.                                 *)
(***************************************************************************)
LEMMA SumsAgree ==
    ASSUME NEW D, NEW E, IsFiniteSet(E), E \in SUBSET D, NEW g, NEW h, IsSum(D, g), IsSum(E, h)
    PROVE  g[E] = h[E]
<1> DEFINE T == {n \in Nat : \A s \in SUBSET E : Cardinality(s) <= n => g[s] = h[s]}
<1>0. \A s \in SUBSET E : IsFiniteSet(s) /\ Cardinality(s) \in Nat
  BY FS_Subset, FS_CardinalityType
<1>1. \A s \in SUBSET E : g[s] = Summand(g, s) /\ h[s] = Summand(h, s)
  BY DEF IsSum
<1>2. 0 \in T
  <2>1. \A s \in SUBSET E : Cardinality(s) <= 0 => s = {}
    BY <1>0, FS_EmptySet
  <2> QED
    BY <1>1, <2>1 DEF Summand
<1>3. ASSUME NEW n \in T  PROVE n + 1 \in T
  <2>0. g[{}] = h[{}]
    BY <1>1 DEF Summand
  <2> SUFFICES ASSUME NEW s \in SUBSET E, Cardinality(s) <= n + 1, s # {} PROVE g[s] = h[s]
    BY <2>0
  <2> DEFINE r == s \ {Pick(s)}
  <2>1. r \in SUBSET E /\ Cardinality(r) <= n
    BY <1>0, PickOne
  <2>2. g[r] = h[r]
    BY <2>1
  <2> QED
    BY <1>1, <2>2 DEF Summand
<1>4. T = Nat
  <2> HIDE DEF T
  <2>1. T \in SUBSET Nat
    BY DEF T
  <2> QED
    BY <1>2, <1>3, <2>1, Counting
<1> QED
  BY <1>0, <1>4

(***************************************************************************)
(* One entry is taken out at a time.                                       *)
(***************************************************************************)
LEMMA WeightStep ==
    ASSUME NEW s, IsFiniteSet(s)
    PROVE  Weight(s) = IF s = {} THEN 0 ELSE Pick(s).bytes + Weight(s \ {Pick(s)})
<1> DEFINE g == CHOOSE x : IsSum(s, x)
           r == s \ {Pick(s)}
           h == CHOOSE x : IsSum(r, x)
<1>1. IsFiniteSet(r) /\ r \in SUBSET s
  BY FS_RemoveElement
<1>2. IsSum(s, g) /\ IsSum(r, h)
  BY <1>1, SumsExist
<1>3. Weight(s) = g[s] /\ Weight(r) = h[r]
  BY WeightIsIterated
<1> HIDE DEF g, h
<1>4. g[r] = h[r]
  BY <1>1, <1>2, SumsAgree
<1>5. g[s] = Summand(g, s)
  BY <1>2 DEF IsSum
<1> QED
  BY <1>3, <1>4, <1>5 DEF Summand

(***************************************************************************)
(* Any entry may be taken out first.                                       *)
(***************************************************************************)
LEMMA WeightOfRest ==
    ASSUME NEW D, IsFiniteSet(D), \A e \in D : e.bytes \in Nat
    PROVE  \A s \in SUBSET D : /\ Weight(s) \in Nat
                               /\ \A x \in s : Weight(s) = x.bytes + Weight(s \ {x})
<1> DEFINE Good(s) == Weight(s) \in Nat /\ \A x \in s : Weight(s) = x.bytes + Weight(s \ {x})
           T == {n \in Nat : \A s \in SUBSET D : Cardinality(s) <= n => Good(s)}
<1>0. \A s \in SUBSET D : IsFiniteSet(s) /\ Cardinality(s) \in Nat
  BY FS_Subset, FS_CardinalityType
<1>1. 0 \in T
  <2>1. \A s \in SUBSET D : Cardinality(s) <= 0 => s = {}
    BY <1>0, FS_EmptySet
  <2>2. Weight({}) = 0
    BY FS_EmptySet, WeightStep
  <2>3. Good({})
    BY <2>2
  <2> HIDE DEF Good
  <2> QED
    BY <2>1, <2>3
<1>2. ASSUME NEW n \in T  PROVE n + 1 \in T
  <2> SUFFICES ASSUME NEW s \in SUBSET D, Cardinality(s) <= n + 1, s # {} PROVE Good(s)
    <3>1. Good({})
      BY <1>1, FS_EmptySet
    <3> HIDE DEF Good
    <3> QED
      BY <3>1
  <2> DEFINE p == Pick(s)
             r == s \ {p}
  <2>1. p \in s /\ r \in SUBSET D /\ Cardinality(r) <= n /\ IsFiniteSet(s) /\ Cardinality(s) \in Nat
    BY <1>0, PickOne
  <2>2. Good(r) /\ p.bytes \in Nat
    BY <2>1
  <2>3. Weight(s) = p.bytes + Weight(r)
    BY <2>1, WeightStep
  <2> HIDE DEF p
  <2>4. ASSUME NEW x \in s, x # p  PROVE Weight(s) = x.bytes + Weight(s \ {x})
    <3> DEFINE u == s \ {x}
               v == r \ {x}
    <3>1. Weight(r) = x.bytes + Weight(v)
      BY <2>2, <2>4
    <3>2. u \in SUBSET D /\ Cardinality(u) = Cardinality(s) - 1 /\ p \in u /\ v = u \ {p}
      BY <2>1, <2>4, FS_RemoveElement
    <3>3. Cardinality(u) <= n
      <4> HIDE DEF u
      <4> QED
        BY <2>1, <3>2
    <3>4. Good(u)
      BY <3>2, <3>3
    <3>5. Weight(u) = p.bytes + Weight(v)
      BY <3>2, <3>4
    <3>6. v \in SUBSET D /\ Cardinality(v) <= n
      <4>1. v \in SUBSET r /\ IsFiniteSet(r) /\ v \in SUBSET D
        BY <1>0, <2>1
      <4>2. Cardinality(v) <= Cardinality(r) /\ Cardinality(v) \in Nat /\ Cardinality(r) \in Nat
        BY <1>0, <2>1, <4>1, FS_Subset
      <4> HIDE DEF v, r
      <4> QED
        BY <2>1, <4>1, <4>2
    <3>7. Weight(v) \in Nat
      BY <3>6
    <3>8. x.bytes \in Nat
      BY <2>4
    <3> HIDE DEF u, v, r
    <3>9. Weight(s) = x.bytes + Weight(u)
      BY <2>2, <2>3, <3>1, <3>5, <3>7, <3>8
    <3> QED
      BY <3>9 DEF u
  <2>5. Weight(s) \in Nat
    BY <2>2, <2>3
  <2>6. Weight(s) = p.bytes + Weight(s \ {p})
    BY <2>3
  <2> HIDE DEF r
  <2> QED
    BY <2>4, <2>5, <2>6
<1>3. T = Nat
  <2> HIDE DEF T
  <2>1. T \in SUBSET Nat
    BY DEF T
  <2> QED
    BY <1>1, <1>2, <2>1, Counting
<1> QED
  BY <1>0, <1>3

(***************************************************************************)
(* A part weighs no more than the whole.                                   *)
(***************************************************************************)
LEMMA WeightOfPart ==
    ASSUME NEW D, IsFiniteSet(D), \A e \in D : e.bytes \in Nat, NEW P \in SUBSET D
    PROVE  Weight(P) \in Nat /\ Weight(D) \in Nat /\ Weight(P) <= Weight(D)
<1> DEFINE T == {n \in Nat : \A s \in SUBSET D : P \subseteq s /\ Cardinality(s) <= n => Weight(P) <= Weight(s)}
<1>0. /\ \A s \in SUBSET D : IsFiniteSet(s) /\ Cardinality(s) \in Nat
      /\ \A s \in SUBSET D : /\ Weight(s) \in Nat
                             /\ \A x \in s : Weight(s) = x.bytes + Weight(s \ {x})
  <2>1. \A s \in SUBSET D : IsFiniteSet(s) /\ Cardinality(s) \in Nat
    BY FS_Subset, FS_CardinalityType
  <2> QED
    BY <2>1, WeightOfRest
<1>1. 0 \in T
  <2>1. \A s \in SUBSET D : Cardinality(s) <= 0 => s = {}
    BY <1>0, FS_EmptySet
  <2>2. \A s \in SUBSET D : P \subseteq s /\ s = {} => P = s
    OBVIOUS
  <2> QED
    BY <1>0, <2>1, <2>2
<1>2. ASSUME NEW n \in T  PROVE n + 1 \in T
  <2> SUFFICES ASSUME NEW s \in SUBSET D, P \subseteq s, Cardinality(s) <= n + 1
               PROVE  Weight(P) <= Weight(s)
    OBVIOUS
  <2>1. CASE P = s
    BY <1>0, <2>1
  <2>2. CASE P # s
    <3>1. PICK x \in s : x \notin P
      BY <2>2
    <3> DEFINE r == s \ {x}
    <3>2. r \in SUBSET D /\ P \subseteq r /\ Cardinality(r) = Cardinality(s) - 1
      BY <1>0, <3>1, FS_RemoveElement
    <3>3. Weight(s) = x.bytes + Weight(r) /\ x.bytes \in Nat /\ Weight(r) \in Nat /\ Weight(P) \in Nat
      BY <1>0, <3>1, <3>2
    <3> HIDE DEF r
    <3>4. Weight(P) <= Weight(r)
      BY <1>0, <3>2
    <3> QED
      BY <3>3, <3>4
  <2> QED
    BY <2>1, <2>2
<1>3. T = Nat
  <2> HIDE DEF T
  <2>1. T \in SUBSET Nat
    BY DEF T
  <2> QED
    BY <1>1, <1>2, <2>1, Counting
<1>4. Cardinality(D) \in T /\ D \in SUBSET D
  BY <1>0, <1>3
<1> QED
  BY <1>0, <1>4

-----------------------------------------------------------------------------
(* What the store promises, read off StoreAbs.                              *)

(***************************************************************************)
(* StoreAbs counts as this module does.                                    *)
(***************************************************************************)
LEMMA SameCardinality == \A R : S!Cardinality(R) = Cardinality(R)
  BY DEF S!Cardinality, Cardinality

Dated(R) ==
    R \in SUBSET S!Remembered /\ IsFiniteSet(R) /\ \A e, f \in R : e.id = f.id => e = f

Tidy(v) == v \in S!persisted /\ Dated(v.remembered) /\ IsFiniteSet(v.labels)

\* What the caps leave.
Capped(R) == /\ Cardinality(R) <= GlobalRememberedCap
             /\ \A a : Cardinality({e \in R : e.key = a}) <= PerKeyRememberedCap

Recent(T, R) == T \in SUBSET R /\ \A e \in T, f \in R \ T : e.id > f.id

(***************************************************************************)
(* The shape of entries and states.                                        *)
(***************************************************************************)
LEMMA StoreShape ==
    /\ \A e \in S!Remembered : /\ e.id \in Nat /\ e.id \in 1..MaxRequests
                               /\ e.key \in Commands /\ e.bytes \in EntryBytes /\ e.bytes \in Nat
    /\ \A v \in S!persisted : \A T :
         /\ [v EXCEPT !.remembered = T] = [labels |-> v.labels, remembered |-> T]
         /\ [v EXCEPT !.labels = T] = [labels |-> T, remembered |-> v.remembered]
         /\ [v EXCEPT !.remembered = v.remembered] = v
    /\ \A L, R : /\ [labels |-> L, remembered |-> R].labels = L
                 /\ [labels |-> L, remembered |-> R].remembered = R
  BY DashboardConstants DEF S!Remembered, S!persisted

(***************************************************************************)
(* More labels take more room.                                             *)
(***************************************************************************)
LEMMA LabelsWeigh ==
    ASSUME NEW n \in Nat, NEW m \in Nat, n <= m
    PROVE  LabelBytes * n \in Nat /\ LabelBytes * m \in Nat /\ LabelBytes * n <= LabelBytes * m
<1>1. LabelBytes \in Nat /\ m - n \in Nat /\ m = n + (m - n)
  BY DashboardConstants
<1>2. LabelBytes * m = LabelBytes * n + LabelBytes * (m - n)
  BY <1>1
<1>3. LabelBytes * n \in Nat /\ LabelBytes * m \in Nat /\ LabelBytes * (m - n) \in Nat
  BY <1>1
<1> QED
  BY <1>2, <1>3

(***************************************************************************)
(* The size of a state, and what adding to it or leaving some of it out    *)
(* does to that.                                                           *)
(***************************************************************************)
LEMMA SizeOf ==
    ASSUME NEW v, Tidy(v)
    PROVE  /\ S!Bytes(v) = LabelBytes * Cardinality(v.labels) + Weight(v.remembered)
           /\ S!Bytes(v) \in Nat /\ (S!Fits(v) <=> S!Bytes(v) <= MaxStateBytes)
<1>1. Cardinality(v.labels) \in Nat
  BY FS_CardinalityType DEF Tidy
<1>2. LabelBytes * Cardinality(v.labels) \in Nat
  BY <1>1, LabelsWeigh
<1>3. \A e \in v.remembered : e.bytes \in Nat
  BY StoreShape DEF Tidy, Dated
<1>4. Weight(v.remembered) \in Nat
  BY <1>3, WeightOfPart DEF Tidy, Dated
<1>5. S!Bytes(v) = 0 + LabelBytes * Cardinality(v.labels) + Weight(v.remembered)
  BY SameCardinality DEF S!Bytes, Weight
<1> QED
  BY <1>2, <1>4, <1>5 DEF S!Fits

\* A state with no more labels than v, n bytes of new entries, and entries of v.
LEMMA SizeOfPart ==
    ASSUME NEW v, Tidy(v), NEW w, Tidy(w), Cardinality(w.labels) <= Cardinality(v.labels),
           NEW R, Dated(R), w.remembered \in SUBSET R
    PROVE  S!Bytes(w) <= LabelBytes * Cardinality(v.labels) + Weight(R)
<1>1. Cardinality(w.labels) \in Nat /\ Cardinality(v.labels) \in Nat
  BY FS_CardinalityType DEF Tidy
<1>2. /\ LabelBytes * Cardinality(w.labels) \in Nat /\ LabelBytes * Cardinality(v.labels) \in Nat
      /\ LabelBytes * Cardinality(w.labels) <= LabelBytes * Cardinality(v.labels)
  BY <1>1, LabelsWeigh
<1>3. \A e \in R : e.bytes \in Nat
  BY StoreShape DEF Dated
<1>4. Weight(w.remembered) \in Nat /\ Weight(R) \in Nat /\ Weight(w.remembered) <= Weight(R)
  BY <1>3, WeightOfPart DEF Dated
<1>5. S!Bytes(w) = LabelBytes * Cardinality(w.labels) + Weight(w.remembered)
  BY SizeOf
<1> QED
  BY <1>2, <1>4, <1>5

(***************************************************************************)
(* Of the newest entries there is a set of every size.                     *)
(***************************************************************************)
LEMMA RecentSize ==
    ASSUME NEW R, Dated(R), NEW n \in 0..Cardinality(R)
    PROVE  \E T : Recent(T, R) /\ Cardinality(T) = n
<1> DEFINE c == Cardinality(R)
           Has(m) == \E T : Recent(T, R) /\ Cardinality(T) = m
           U == {k \in Nat : k <= c => Has(c - k)}
<1>0. c \in Nat /\ \A e \in R : e.id \in Nat
  BY FS_CardinalityType, StoreShape DEF Dated
<1>1. 0 \in U
  <2>1. Has(c)
    BY DEF Recent
  <2> HIDE DEF Has
  <2> QED
    BY <1>0, <2>1
<1>2. ASSUME NEW k \in U, k + 1 <= c  PROVE Has(c - (k + 1))
  <2>1. PICK T : Recent(T, R) /\ Cardinality(T) = c - k
    BY <1>0, <1>2
  <2>2. IsFiniteSet(T) /\ T # {} /\ T \in SUBSET R
    BY <1>0, <1>2, <2>1, FS_Subset, FS_EmptySet DEF Recent, Dated
  <2> DEFINE I == {e.id : e \in T}
  <2>3. PICK m \in I : \A j \in I : ~(<<j, m>> \in OpToRel(<, Nat))
    <3>1. I \subseteq Nat /\ I # {}
      BY <1>0, <2>2
    <3> QED
      BY <3>1, NatLessThanWellFounded, WFMin
  <2>4. PICK e \in T : e.id = m
    OBVIOUS
  <2>5. \A f \in T \ {e} : f.id > e.id
    <3> SUFFICES ASSUME NEW f \in T \ {e} PROVE f.id > e.id
      OBVIOUS
    <3>1. ~(f.id < e.id) /\ f.id \in Nat /\ e.id \in Nat /\ f.id # e.id
      BY <1>0, <2>2, <2>3, <2>4 DEF OpToRel, Dated
    <3> QED
      BY <3>1
  <2>6. Recent(T \ {e}, R)
    BY <2>1, <2>5 DEF Recent
  <2>7. Cardinality(T \ {e}) = c - (k + 1)
    <3>1. Cardinality(T \ {e}) = Cardinality(T) - 1
      BY <2>2, <2>4, FS_RemoveElement
    <3> HIDE DEF c
    <3> QED
      BY <1>0, <2>1, <3>1
  <2> QED
    BY <2>6, <2>7
<1>3. ASSUME NEW k \in U  PROVE k + 1 \in U
  <2> HIDE DEF Has
  <2> QED
    BY <1>2, <1>3
<1>4. U = Nat
  <2> HIDE DEF U
  <2>1. U \in SUBSET Nat
    BY DEF U
  <2> QED
    BY <1>1, <1>3, <2>1, Counting
<1> HIDE DEF Has
<1>5. c - n \in U /\ c - n <= c /\ c - (c - n) = n
  BY <1>0, <1>4
<1>6. Has(n)
  BY <1>5
<1> QED
  BY <1>6 DEF Has

(***************************************************************************)
(* Newest takes them: all of them when there are no more than asked for.   *)
(***************************************************************************)
LEMMA NewestTaken ==
    ASSUME NEW R, Dated(R), NEW n \in Nat
    PROVE  /\ Recent(S!Newest(R, n), R)
           /\ Cardinality(S!Newest(R, n)) = IF Cardinality(R) < n THEN Cardinality(R) ELSE n
           /\ Cardinality(R) <= n => S!Newest(R, n) = R
<1> DEFINE N == S!Newest(R, n)
           c == Cardinality(R)
           m == IF c < n THEN c ELSE n
<1>1. c \in Nat /\ m \in 0..c
  BY FS_CardinalityType DEF Dated
<1>2. PICK T : Recent(T, R) /\ Cardinality(T) = m
  BY <1>1, RecentSize
<1>3. \E U \in SUBSET R : /\ Cardinality(U) = m
                          /\ \A e \in U, f \in R \ U : e.id > f.id
  BY <1>2 DEF Recent
<1>4. /\ N \in SUBSET R /\ \A e \in N, f \in R \ N : e.id > f.id
      /\ Cardinality(N) = m
  BY <1>3, SameCardinality DEF S!Newest
<1> HIDE DEF N
<1>5. c <= n => m = c
  BY <1>1
<1>6. c <= n => N = R
  BY <1>4, <1>5, FS_Subset DEF Dated
<1> QED
  BY <1>4, <1>6 DEF Recent, N

(***************************************************************************)
(* What fits is not shrunk.                                                *)
(***************************************************************************)
LEMMA NothingIsShrunk == ASSUME NEW v, Tidy(v), S!Fits(v) PROVE S!Shrunk(v) = {v}
<1> DEFINE c == Cardinality(v.remembered)
           R == v.remembered
           byEntries == {[v EXCEPT !.remembered = S!Newest(R, n)] : n \in 0..c}
           whole == {w \in byEntries : S!Fits(w)}
<1>1. c \in Nat /\ v \in S!persisted /\ Dated(R)
  BY FS_CardinalityType DEF Tidy, Dated
<1>2. \A n \in 0..c : /\ [v EXCEPT !.remembered = S!Newest(R, n)].remembered = S!Newest(R, n)
                      /\ Cardinality(S!Newest(R, n)) <= c
                      /\ Cardinality(S!Newest(R, n)) = c => S!Newest(R, n) = R
  <2> SUFFICES ASSUME NEW n \in 0..c
               PROVE  /\ [v EXCEPT !.remembered = S!Newest(R, n)].remembered = S!Newest(R, n)
                      /\ Cardinality(S!Newest(R, n)) <= c
                      /\ Cardinality(S!Newest(R, n)) = c => S!Newest(R, n) = R
    OBVIOUS
  <2>1. n \in Nat /\ n <= c
    BY <1>1
  <2>2. /\ Recent(S!Newest(R, n), R)
        /\ Cardinality(S!Newest(R, n)) = IF c < n THEN c ELSE n
        /\ c <= n => S!Newest(R, n) = R
    BY <1>1, <2>1, NewestTaken
  <2>3. [v EXCEPT !.remembered = S!Newest(R, n)].remembered = S!Newest(R, n)
    BY <1>1, StoreShape
  <2> HIDE DEF c, R
  <2> QED
    BY <1>1, <2>1, <2>2, <2>3
<1>3. v \in byEntries
  <2>1. S!Newest(R, c) = R
    BY <1>1, NewestTaken
  <2>2. [v EXCEPT !.remembered = R] = v
    BY <1>1, StoreShape
  <2> QED
    BY <1>1, <2>1, <2>2
<1>4. v \in whole
  BY <1>3
<1>5. S!Shrunk(v) = {w \in whole : \A x \in whole :
                       Cardinality(x.remembered) <= Cardinality(w.remembered)}
  BY <1>4, SameCardinality DEF S!Shrunk
<1>6. \A w \in whole : Cardinality(w.remembered) <= c
  BY <1>2
<1>7. ASSUME NEW w \in whole, c <= Cardinality(w.remembered)  PROVE w = v
  <2>1. PICK n \in 0..c : w = [v EXCEPT !.remembered = S!Newest(R, n)]
    BY <1>7
  <2>2. Cardinality(w.remembered) = Cardinality(S!Newest(R, n))
        /\ Cardinality(S!Newest(R, n)) <= c
    BY <1>2, <2>1
  <2>3. IsFiniteSet(S!Newest(R, n))
    <3>1. n \in Nat
      BY <1>1
    <3>2. S!Newest(R, n) \in SUBSET R
      BY <1>1, <3>1, NewestTaken DEF Recent
    <3> QED
      BY <1>1, <3>2, FS_Subset DEF Dated
  <2>4. Cardinality(S!Newest(R, n)) \in Nat
    BY <2>3, FS_CardinalityType
  <2>5. Cardinality(S!Newest(R, n)) = c
    <3> HIDE DEF c, R
    <3> QED
      BY <1>1, <1>7, <2>2, <2>4
  <2>6. S!Newest(R, n) = R
    BY <1>2, <2>5
  <2> QED
    BY <1>1, <2>1, <2>6, StoreShape
<1>8. Cardinality(v.remembered) = c
  OBVIOUS
<1>9. v \in S!Shrunk(v)
  BY <1>4, <1>5, <1>6, <1>8
<1>10. \A w \in S!Shrunk(v) : w \in whole /\ c <= Cardinality(w.remembered)
  BY <1>4, <1>5, <1>8
<1> HIDE DEF whole, c
<1> QED
  BY <1>7, <1>9, <1>10

(***************************************************************************)
(* What does not fit is cut down to a part of itself.                      *)
(***************************************************************************)
LEMMA ShrunkIsPart ==
    ASSUME NEW v, Tidy(v), NEW w \in S!Shrunk(v)
    PROVE  Tidy(w) /\ w.labels \in SUBSET v.labels /\ w.remembered \in SUBSET v.remembered
<1> DEFINE R == v.remembered
           byEntries == {[v EXCEPT !.remembered = S!Newest(R, n)] : n \in 0..Cardinality(R)}
           byLabels == {[labels |-> L, remembered |-> {}]
                          : L \in {M \in SUBSET v.labels : \A l \in M, m \in v.labels \ M : m.at <= l.at}}
<1>0. v \in S!persisted /\ Dated(R) /\ IsFiniteSet(v.labels) /\ Cardinality(R) \in Nat
      /\ v.labels \in SUBSET S!labelEntry
  BY FS_CardinalityType DEF Tidy, Dated, S!persisted
<1>1. w \in byEntries \/ w \in byLabels
  <2>1. byEntries = {[v EXCEPT !.remembered = S!Newest(v.remembered, n)] : n \in 0..S!Cardinality(v.remembered)}
    BY SameCardinality
  <2> HIDE DEF byEntries, byLabels
  <2> QED
    BY <2>1 DEF S!Shrunk, byLabels
<1>2. \E L, T : w = [labels |-> L, remembered |-> T] /\ L \in SUBSET v.labels /\ T \in SUBSET R
  <2>1. ASSUME NEW n \in 0..Cardinality(R), w = [v EXCEPT !.remembered = S!Newest(R, n)]
        PROVE  <1>2
    <3>1. n \in Nat
      BY <1>0
    <3>2. S!Newest(R, n) \in SUBSET R
      BY <1>0, <3>1, NewestTaken DEF Recent
    <3>3. w = [labels |-> v.labels, remembered |-> S!Newest(R, n)]
      BY <1>0, <2>1, StoreShape
    <3> QED
      BY <3>2, <3>3
  <2>2. ASSUME NEW L \in SUBSET v.labels, w = [labels |-> L, remembered |-> {}]  PROVE <1>2
    BY <2>2
  <2> QED
    BY <1>1, <2>1, <2>2
<1>3. PICK L, T : w = [labels |-> L, remembered |-> T] /\ L \in SUBSET v.labels /\ T \in SUBSET R
  BY <1>2
<1>4. w.labels = L /\ w.remembered = T
  BY <1>3, StoreShape
<1>5. Dated(T) /\ IsFiniteSet(L) /\ T \in SUBSET S!Remembered
  BY <1>0, <1>3, FS_Subset DEF Dated
<1>6. w \in S!persisted
  BY <1>0, <1>3, <1>5 DEF S!persisted
<1> QED
  BY <1>3, <1>4, <1>5, <1>6 DEF Tidy

(***************************************************************************)
(* An entry that is dated after all others joins them.                     *)
(***************************************************************************)
LEMMA JoinDated ==
    ASSUME NEW R, Dated(R), NEW r \in S!Remembered, \A e \in R : e.id < r.id
    PROVE  Dated(R \cup {r}) /\ r \notin R /\ Cardinality(R \cup {r}) = Cardinality(R) + 1
<1>1. \A e \in R \cup {r} : e.id \in Nat
  BY StoreShape DEF Dated
<1>2. r \notin R
  BY <1>1
<1>3. \A e, f \in R \cup {r} : e.id = f.id => e = f
  <2> SUFFICES ASSUME NEW e \in R \cup {r}, NEW f \in R \cup {r}, e.id = f.id PROVE e = f
    OBVIOUS
  <2> QED
    BY <1>1 DEF Dated
<1>4. IsFiniteSet(R \cup {r}) /\ Cardinality(R \cup {r}) = Cardinality(R) + 1
  BY <1>2, FS_AddElement DEF Dated
<1> QED
  BY <1>2, <1>3, <1>4 DEF Dated

(***************************************************************************)
(* What is dropped for the entries' number is older than what stays.       *)
(***************************************************************************)
LEMMA NewestKeepsTheLast ==
    ASSUME NEW R, Dated(R), NEW n \in Nat \ {0}, NEW r \in R, \A e \in R : e.id <= r.id
    PROVE  r \in S!Newest(R, n)
<1>1. Recent(S!Newest(R, n), R)
      /\ Cardinality(S!Newest(R, n)) = IF Cardinality(R) < n THEN Cardinality(R) ELSE n
  BY NewestTaken
<1>2. Cardinality(R) \in Nat /\ Cardinality(R) # 0
  BY FS_CardinalityType, FS_EmptySet DEF Dated
<1>3. S!Newest(R, n) # {}
  BY <1>1, <1>2, FS_EmptySet
<1>4. PICK e \in S!Newest(R, n) : TRUE
  BY <1>3
<1>5. e \in R /\ e.id \in Nat /\ r.id \in Nat /\ e.id <= r.id
  BY <1>1, <1>4, StoreShape DEF Recent, Dated
<1>6. r \notin S!Newest(R, n) => e.id > r.id
  BY <1>1, <1>4 DEF Recent
<1> QED
  BY <1>5, <1>6

(***************************************************************************)
(* A subset of entries is as well dated as they are.                       *)
(***************************************************************************)
LEMMA PartDated ==
    ASSUME NEW R, Dated(R), NEW T \in SUBSET R
    PROVE  Dated(T) /\ Cardinality(T) <= Cardinality(R)
  BY FS_Subset DEF Dated

(***************************************************************************)
(* Retention keeps the caps and the entry that was just added, and a key   *)
(* disappears only from a full list, which stays full.                     *)
(***************************************************************************)
LEMMA Retained ==
    ASSUME NEW R, Dated(R), Capped(R), NEW r \in S!Remembered, \A e \in R : e.id < r.id
    PROVE  LET W == S!Retain(R \cup {r}, r.key)
           IN  /\ W \in SUBSET (R \cup {r}) /\ r \in W
               /\ Dated(W) /\ Capped(W) /\ Cardinality(W) <= Cardinality(R) + 1
               /\ \/ \A e \in R : \E f \in W : f.key = e.key
                  \/ Cardinality(R) = GlobalRememberedCap
               /\ Cardinality(R) = GlobalRememberedCap => Cardinality(W) = GlobalRememberedCap
<1> DEFINE A == R \cup {r}
           same == {e \in A : e.key = r.key}
           old == {e \in R : e.key = r.key}
           kept == S!Newest(same, PerKeyRememberedCap)
           Q == (A \ same) \cup kept
           W == S!Newest(Q, GlobalRememberedCap)
<1>1. Dated(A) /\ r \in A /\ r \notin R /\ Cardinality(A) = Cardinality(R) + 1
  BY JoinDated
<1>2. \A e \in A : e.id <= r.id
  <2>1. \A e \in A : e.id \in Nat
    BY <1>1, StoreShape DEF Dated
  <2> QED
    BY <2>1
<1>3. Dated(same) /\ r \in same
  BY <1>1, PartDated
<1>4. PerKeyRememberedCap \in Nat \ {0} /\ GlobalRememberedCap \in Nat \ {0}
  BY DashboardConstants
<1>5. r \in kept
  BY <1>2, <1>3, <1>4, NewestKeepsTheLast
<1>6. /\ kept \in SUBSET same
      /\ Cardinality(kept) = IF Cardinality(same) < PerKeyRememberedCap THEN Cardinality(same)
                             ELSE PerKeyRememberedCap
  BY <1>3, <1>4, NewestTaken DEF Recent
<1>7. Q \in SUBSET A /\ r \in Q
  BY <1>5, <1>6
<1>8. Dated(Q) /\ Cardinality(Q) <= Cardinality(A)
  BY <1>1, <1>7, PartDated
<1>9. r \in W
  BY <1>2, <1>4, <1>7, <1>8, NewestKeepsTheLast
<1>10. /\ W \in SUBSET Q /\ (Cardinality(Q) <= GlobalRememberedCap => W = Q)
       /\ Cardinality(W) = IF Cardinality(Q) < GlobalRememberedCap THEN Cardinality(Q)
                           ELSE GlobalRememberedCap
  <2> HIDE DEF Q
  <2>1. /\ Recent(W, Q) /\ (Cardinality(Q) <= GlobalRememberedCap => W = Q)
        /\ Cardinality(W) = IF Cardinality(Q) < GlobalRememberedCap THEN Cardinality(Q)
                            ELSE GlobalRememberedCap
    BY <1>4, <1>8, NewestTaken
  <2> QED
    BY <2>1 DEF Recent
<1>11. Dated(W) /\ Cardinality(W) <= Cardinality(Q)
  BY <1>8, <1>10, PartDated
<1>12. Cardinality(R) \in Nat /\ Cardinality(Q) \in Nat /\ Cardinality(W) \in Nat
  BY <1>8, <1>11, FS_CardinalityType DEF Dated
<1>13. W = S!Retain(R \cup {r}, r.key)
  BY DEF S!Retain
<1>14. \A e \in R : \E f \in Q : f.key = e.key
  BY <1>7
<1>15. Cardinality(R) <= Cardinality(Q)
  <2>1. Dated(old) /\ IsFiniteSet(old) /\ Cardinality(old) \in Nat
    BY PartDated, FS_CardinalityType DEF Dated
  <2>2. same = old \cup {r} /\ r \notin old /\ A \ same = R \ old
    BY <1>1
  <2>3. Cardinality(same) = Cardinality(old) + 1
    BY <2>1, <2>2, FS_AddElement
  <2>4. Cardinality(old) <= Cardinality(kept)
    <3>1. Cardinality(old) <= PerKeyRememberedCap
      BY DEF Capped
    <3> HIDE DEF old, same, kept
    <3> QED
      BY <1>4, <1>6, <2>1, <2>3, <3>1
  <2>5. IsFiniteSet(R) /\ R \cap old = old
    BY DEF Dated
  <2>6. IsFiniteSet(R \ old) /\ Cardinality(R \ old) = Cardinality(R) - Cardinality(old)
    <3>1. IsFiniteSet(R \ old) /\ Cardinality(R \ old) = Cardinality(R) - Cardinality(R \cap old)
      BY <2>5, FS_Difference
    <3> HIDE DEF old
    <3> QED
      BY <2>5, <3>1
  <2>7. IsFiniteSet(kept) /\ Cardinality(kept) \in Nat /\ (R \ old) \cap kept = {}
    <3>1. IsFiniteSet(kept)
      BY <1>3, <1>6, FS_Subset DEF Dated
    <3>2. (R \ old) \cap kept = {}
      BY <1>6
    <3> QED
      BY <3>1, <3>2, FS_CardinalityType
  <2> HIDE DEF old, same, kept
  <2>8. Cardinality(Q) = Cardinality(R \ old) + Cardinality(kept) - Cardinality({})
    BY <2>2, <2>6, <2>7, FS_Union
  <2>9. Cardinality({}) = 0
    BY FS_EmptySet
  <2> QED
    BY <1>12, <2>1, <2>4, <2>6, <2>7, <2>8, <2>9
<1>16. Capped(W)
  <2>1. ASSUME NEW a  PROVE Cardinality({e \in W : e.key = a}) <= PerKeyRememberedCap
    <3> DEFINE now == {e \in W : e.key = a}
               was == {e \in R : e.key = a}
    <3>1. CASE a = r.key
      <4>1. now \in SUBSET kept
        BY <1>10, <3>1
      <4>2. Dated(kept)
        BY <1>3, <1>6, PartDated
      <4> HIDE DEF now, kept, same
      <4>3. Cardinality(now) <= Cardinality(kept) /\ Dated(now)
        BY <4>1, <4>2, PartDated
      <4>4. Cardinality(now) \in Nat /\ Cardinality(kept) \in Nat /\ Cardinality(same) \in Nat
        BY <1>3, <4>2, <4>3, FS_CardinalityType DEF Dated
      <4>5. Cardinality(now) <= PerKeyRememberedCap
        BY <1>4, <1>6, <4>3, <4>4
      <4> QED
        BY <4>5 DEF now
    <3>2. CASE a # r.key
      <4>1. now \in SUBSET was
        BY <1>7, <1>10, <3>2
      <4>2. Dated(was) /\ Cardinality(was) <= PerKeyRememberedCap
        BY PartDated DEF Capped
      <4> HIDE DEF now, was
      <4>3. Cardinality(now) <= Cardinality(was) /\ Dated(now)
        BY <4>1, <4>2, PartDated
      <4>4. Cardinality(now) \in Nat /\ Cardinality(was) \in Nat
        BY <4>2, <4>3, FS_CardinalityType DEF Dated
      <4>5. Cardinality(now) <= PerKeyRememberedCap
        BY <1>4, <4>2, <4>3, <4>4
      <4> QED
        BY <4>5 DEF now
    <3> QED
      BY <3>1, <3>2
  <2>2. Cardinality(W) <= GlobalRememberedCap
    <3> HIDE DEF W, Q
    <3> QED
      BY <1>4, <1>10, <1>12
  <2> QED
    BY <2>1, <2>2 DEF Capped
<1>0. Cardinality(R) <= GlobalRememberedCap
  BY DEF Capped
<1> HIDE DEF W, Q, kept, same, old, A
<1>17. Cardinality(W) <= Cardinality(R) + 1
  BY <1>1, <1>8, <1>11, <1>12
<1>18. Cardinality(R) = GlobalRememberedCap => Cardinality(W) = GlobalRememberedCap
  BY <1>4, <1>10, <1>12, <1>15
<1>19. Cardinality(R) # GlobalRememberedCap => W = Q
  BY <1>0, <1>1, <1>4, <1>8, <1>10, <1>12
<1>20. W \in SUBSET (R \cup {r})
  BY <1>7, <1>10 DEF A
<1>21. (\A e \in R : \E f \in W : f.key = e.key) \/ Cardinality(R) = GlobalRememberedCap
  BY <1>14, <1>19
<1> QED
  BY <1>9, <1>11, <1>13, <1>16, <1>17, <1>18, <1>20, <1>21

(***************************************************************************)
(* What the two calls of the store leave in memory, for an entry of n      *)
(* bytes and a label that takes n bytes.                                   *)
(***************************************************************************)
Joined(w, v, key, n) ==
    /\ Tidy(w) /\ Capped(w.remembered) /\ w.labels \in SUBSET v.labels
    /\ \E r \in S!Remembered :
         /\ r.key = key /\ w.remembered \in SUBSET (v.remembered \cup {r})
         /\ S!Bytes(v) + n <= MaxStateBytes => r \in w.remembered
    /\ Cardinality(w.remembered) <= Cardinality(v.remembered) + 1
    /\ S!Bytes(w) <= S!Bytes(v) + n
    /\ S!Bytes(v) + n <= MaxStateBytes =>
         /\ \/ \A e \in v.remembered : \E f \in w.remembered : f.key = e.key
            \/ Cardinality(v.remembered) = GlobalRememberedCap
         /\ Cardinality(v.remembered) = GlobalRememberedCap =>
              Cardinality(w.remembered) = GlobalRememberedCap

Labelled(w, v, key, n) ==
    /\ Tidy(w) /\ Capped(w.remembered) /\ w.remembered \in SUBSET v.remembered
    /\ \A l \in w.labels : l \in v.labels \/ l.key = key
    /\ S!Bytes(w) <= S!Bytes(v) + n
    /\ S!Bytes(v) + n <= MaxStateBytes => w.remembered = v.remembered

(***************************************************************************)
(* A part of capped entries is capped.                                     *)
(***************************************************************************)
LEMMA PartCapped ==
    ASSUME NEW R, Dated(R), Capped(R), NEW T \in SUBSET R
    PROVE  Capped(T)
<1>0. GlobalRememberedCap \in Nat /\ PerKeyRememberedCap \in Nat
  BY DashboardConstants
<1>1. Cardinality(T) <= GlobalRememberedCap
  <2>1. Dated(T) /\ Cardinality(T) <= Cardinality(R)
    BY PartDated
  <2>2. Cardinality(T) \in Nat /\ Cardinality(R) \in Nat
    BY <2>1, FS_CardinalityType DEF Dated
  <2> QED
    BY <1>0, <2>1, <2>2 DEF Capped
<1>2. ASSUME NEW a  PROVE Cardinality({e \in T : e.key = a}) <= PerKeyRememberedCap
  <2> DEFINE now == {e \in T : e.key = a}
             was == {e \in R : e.key = a}
  <2>1. now \in SUBSET was /\ was \in SUBSET R
    OBVIOUS
  <2>2. Cardinality(was) <= PerKeyRememberedCap
    BY DEF Capped
  <2> HIDE DEF now, was
  <2>3. Dated(was) /\ Dated(now) /\ Cardinality(now) <= Cardinality(was)
    BY <2>1, PartDated
  <2>4. Cardinality(now) \in Nat /\ Cardinality(was) \in Nat
    BY <2>3, FS_CardinalityType DEF Dated
  <2>5. Cardinality(now) <= PerKeyRememberedCap
    BY <1>0, <2>2, <2>3, <2>4
  <2> QED
    BY <2>5 DEF now
<1> QED
  BY <1>1, <1>2 DEF Capped

(***************************************************************************)
(* A call of Remember.                                                     *)
(***************************************************************************)
LEMMA RememberOutcome ==
    ASSUME NEW v, Tidy(v), Capped(v.remembered), NEW key \in Commands, NEW n \in EntryBytes,
           NEW w \in S!Outcomes([op |-> "Remember", key |-> key, bytes |-> n], v)
    PROVE  Joined(w, v, key, n)
<1> DEFINE call == [op |-> "Remember", key |-> key, bytes |-> n]
           entry(i) == [id |-> i, key |-> key, bytes |-> n]
           next(i) == S!Retain(v.remembered \cup {entry(i)}, key)
<1>0. Dated(v.remembered) /\ v \in S!persisted /\ v.labels \in SUBSET S!labelEntry
      /\ IsFiniteSet(v.labels) /\ n \in Nat /\ MaxStateBytes \in Nat
  BY DashboardConstants DEF Tidy, S!persisted
<1>1. PICK t \in S!Targets(call, v) : w \in S!Shrunk(t)
  BY DEF S!Outcomes
<1>2. S!Targets(call, v) =
        {[v EXCEPT !.remembered = next(i)] : i \in {j \in 1..MaxRequests : \A e \in v.remembered : e.id < j}}
  BY DEF S!Targets
<1>3. PICK i \in 1..MaxRequests : /\ \A e \in v.remembered : e.id < i
                                  /\ t = [v EXCEPT !.remembered = next(i)]
  BY <1>1, <1>2
<1> DEFINE r == entry(i)
           W == next(i)
<1>4. r \in S!Remembered /\ r.id = i /\ r.key = key /\ r.bytes = n
  BY DEF S!Remembered
<1> HIDE DEF entry
<1>5. /\ W \in SUBSET (v.remembered \cup {r}) /\ r \in W
      /\ Dated(W) /\ Capped(W) /\ Cardinality(W) <= Cardinality(v.remembered) + 1
      /\ \/ \A e \in v.remembered : \E f \in W : f.key = e.key
         \/ Cardinality(v.remembered) = GlobalRememberedCap
      /\ Cardinality(v.remembered) = GlobalRememberedCap => Cardinality(W) = GlobalRememberedCap
  <2>1. W = S!Retain(v.remembered \cup {r}, r.key)
    BY <1>4
  <2>2. \A e \in v.remembered : e.id < r.id
    BY <1>3, <1>4
  <2> HIDE DEF W, r
  <2> QED
    BY <1>0, <1>4, <2>1, <2>2, Retained
<1>6. t = [labels |-> v.labels, remembered |-> W]
  BY <1>0, <1>3, StoreShape
<1> DEFINE R == v.remembered \cup {r}
<1>7. Dated(R) /\ r \notin v.remembered
  BY <1>0, <1>3, <1>4, JoinDated
<1>8. Weight(R) = n + Weight(v.remembered) /\ Weight(v.remembered) \in Nat
  <2>1. \A e \in R : e.bytes \in Nat
    BY <1>7, StoreShape DEF Dated
  <2>2. R \ {r} = v.remembered /\ R \in SUBSET R /\ v.remembered \in SUBSET R /\ r \in R
    BY <1>7
  <2> HIDE DEF R, r
  <2>3. Weight(R) = r.bytes + Weight(R \ {r}) /\ Weight(v.remembered) \in Nat
    BY <1>7, <2>1, <2>2, WeightOfRest DEF Dated
  <2> QED
    BY <1>4, <2>2, <2>3
<1> HIDE DEF W, r
<1>9. t.labels = v.labels /\ t.remembered = W
  BY <1>6, StoreShape
<1>10. t \in S!persisted
  BY <1>0, <1>5, <1>6 DEF S!persisted, Dated
<1>11. Tidy(t)
  BY <1>0, <1>5, <1>9, <1>10 DEF Tidy
<1>12. Tidy(w) /\ w.labels \in SUBSET v.labels /\ w.remembered \in SUBSET W
  BY <1>1, <1>9, <1>11, ShrunkIsPart
<1> DEFINE room == LabelBytes * Cardinality(v.labels) + Weight(v.remembered)
<1>13. S!Bytes(v) = room /\ room \in Nat
       /\ LabelBytes * Cardinality(v.labels) + Weight(R) = room + n
  <2>1. Cardinality(v.labels) \in Nat
    BY <1>0, FS_CardinalityType
  <2>2. LabelBytes * Cardinality(v.labels) \in Nat
    BY <2>1, LabelsWeigh
  <2> HIDE DEF R
  <2> QED
    BY <1>0, <1>8, <2>2, SizeOf
<1> HIDE DEF room
<1>14. S!Bytes(t) <= room + n /\ S!Bytes(w) <= room + n
  <2>0. W \in SUBSET R /\ w.remembered \in SUBSET R
    BY <1>5, <1>12
  <2>1. /\ Cardinality(t.labels) <= Cardinality(v.labels)
        /\ Cardinality(w.labels) <= Cardinality(v.labels)
    BY <1>0, <1>9, <1>12, FS_Subset
  <2> HIDE DEF R
  <2> QED
    BY <1>7, <1>9, <1>11, <1>12, <1>13, <2>0, <2>1, SizeOfPart
<1>15. S!Bytes(v) + n <= MaxStateBytes => w = t
  <2>1. S!Bytes(t) \in Nat /\ (S!Fits(t) <=> S!Bytes(t) <= MaxStateBytes)
    BY <1>11, SizeOf
  <2>2. S!Bytes(v) + n <= MaxStateBytes => S!Fits(t)
    BY <1>0, <1>13, <1>14, <2>1
  <2> QED
    BY <1>1, <1>11, <2>2, NothingIsShrunk
<1>16. Capped(w.remembered)
  BY <1>5, <1>12, PartCapped
<1>17. Cardinality(w.remembered) <= Cardinality(v.remembered) + 1
  <2>1. Cardinality(w.remembered) <= Cardinality(W) /\ Dated(w.remembered)
    BY <1>5, <1>12, PartDated
  <2>2. Cardinality(w.remembered) \in Nat /\ Cardinality(W) \in Nat /\ Cardinality(v.remembered) \in Nat
    BY <1>0, <1>5, <2>1, FS_CardinalityType DEF Dated
  <2> QED
    BY <1>5, <2>1, <2>2
<1>18. w.remembered \in SUBSET (v.remembered \cup {r})
  BY <1>5, <1>12
<1>19. /\ w = t => r \in w.remembered
       /\ w = t => /\ \/ \A e \in v.remembered : \E f \in w.remembered : f.key = e.key
                      \/ Cardinality(v.remembered) = GlobalRememberedCap
                   /\ Cardinality(v.remembered) = GlobalRememberedCap =>
                        Cardinality(w.remembered) = GlobalRememberedCap
  BY <1>5, <1>9
<1>20. S!Bytes(w) <= S!Bytes(v) + n
  BY <1>13, <1>14
<1> QED
  BY <1>4, <1>12, <1>15, <1>16, <1>17, <1>18, <1>19, <1>20 DEF Joined

(***************************************************************************)
(* A label changes the labels only, by one at most, and what that takes.   *)
(***************************************************************************)
LEMMA Relabelled ==
    ASSUME NEW v, Tidy(v), Capped(v.remembered), NEW t, Tidy(t), t.remembered = v.remembered,
           NEW key, \A l \in t.labels : l \in v.labels \/ l.key = key,
           NEW n, \/ n = 0 /\ Cardinality(t.labels) <= Cardinality(v.labels)
                  \/ n = LabelBytes /\ Cardinality(t.labels) <= Cardinality(v.labels) + 1,
           NEW w \in S!Shrunk(t)
    PROVE  Labelled(w, v, key, n)
<1> DEFINE c == Cardinality(v.labels)
           d == Cardinality(t.labels)
           weight == Weight(v.remembered)
<1>0. /\ Dated(v.remembered) /\ IsFiniteSet(v.labels) /\ IsFiniteSet(t.labels)
      /\ c \in Nat /\ d \in Nat /\ LabelBytes \in Nat /\ MaxStateBytes \in Nat
  BY FS_CardinalityType, DashboardConstants DEF Tidy
<1>1. Tidy(w) /\ w.labels \in SUBSET t.labels /\ w.remembered \in SUBSET v.remembered
  BY ShrunkIsPart
<1>2. \A e \in v.remembered : e.bytes \in Nat
  BY <1>0, StoreShape DEF Dated
<1>3. weight \in Nat
  BY <1>0, <1>2, WeightOfPart DEF Dated
<1>4. S!Bytes(v) = LabelBytes * c + weight /\ S!Bytes(v) \in Nat
  BY SizeOf
<1>5. S!Bytes(t) = LabelBytes * d + weight /\ S!Bytes(t) \in Nat
      /\ (S!Fits(t) <=> S!Bytes(t) <= MaxStateBytes)
  BY SizeOf
<1>6. S!Bytes(w) <= LabelBytes * d + Weight(t.remembered)
  <2>1. Cardinality(w.labels) <= d
    BY <1>0, <1>1, FS_Subset
  <2> QED
    BY <1>0, <1>1, <2>1, SizeOfPart
<1>7. LabelBytes * c \in Nat /\ LabelBytes * d \in Nat /\ LabelBytes * d <= LabelBytes * c + n /\ n \in Nat
  <2> HIDE DEF c, d
  <2>1. CASE n = 0 /\ d <= c
    <3>1. LabelBytes * c \in Nat /\ LabelBytes * d \in Nat /\ LabelBytes * d <= LabelBytes * c
      BY <1>0, <2>1, LabelsWeigh
    <3> QED
      BY <2>1, <3>1
  <2>2. CASE n = LabelBytes /\ d <= c + 1
    <3>1. c + 1 \in Nat
      BY <1>0
    <3>2. LabelBytes * (c + 1) \in Nat /\ LabelBytes * d \in Nat /\ LabelBytes * d <= LabelBytes * (c + 1)
      BY <1>0, <2>2, <3>1, LabelsWeigh
    <3>3. LabelBytes * (c + 1) = LabelBytes * c + LabelBytes
      BY <1>0
    <3>4. LabelBytes * c \in Nat
      BY <1>0, LabelsWeigh
    <3> QED
      BY <1>0, <2>2, <3>2, <3>3, <3>4
  <2> QED
    BY <2>1, <2>2 DEF c, d
<1>8. Weight(t.remembered) = weight
  OBVIOUS
<1> HIDE DEF c, d, weight
<1>9. S!Bytes(t) <= S!Bytes(v) + n /\ S!Bytes(w) <= S!Bytes(v) + n
  <2>1. S!Bytes(w) \in Nat
    BY <1>1, SizeOf
  <2>2. PICK x \in Nat : x = LabelBytes * c
    BY <1>7
  <2>3. PICK y \in Nat : y = LabelBytes * d
    BY <1>7
  <2>4. y <= x + n
    BY <1>7, <2>2, <2>3
  <2> QED
    BY <1>3, <1>4, <1>5, <1>6, <1>7, <1>8, <2>1, <2>2, <2>3, <2>4
<1>10. S!Bytes(v) + n <= MaxStateBytes => w = t
  <2>1. S!Bytes(v) + n <= MaxStateBytes => S!Fits(t)
    BY <1>0, <1>4, <1>5, <1>7, <1>9
  <2> QED
    BY <2>1, NothingIsShrunk
<1>11. Capped(w.remembered)
  BY <1>0, <1>1, PartCapped
<1> QED
  BY <1>1, <1>9, <1>10, <1>11 DEF Labelled

\* Setting one label adds at most one.
LEMMA OneMore ==
    ASSUME NEW A, IsFiniteSet(A), NEW x, NEW B \in SUBSET (A \cup {x})
    PROVE  IsFiniteSet(B) /\ Cardinality(B) <= Cardinality(A) + 1
<1>1. IsFiniteSet(A \cup {x}) /\ Cardinality(A \cup {x}) <= Cardinality(A) + 1
  <2>1. IsFiniteSet(A \cup {x})
        /\ Cardinality(A \cup {x}) = IF x \in A THEN Cardinality(A) ELSE Cardinality(A) + 1
    BY FS_AddElement
  <2>2. Cardinality(A) \in Nat
    BY FS_CardinalityType
  <2> QED
    BY <2>1, <2>2
<1>2. IsFiniteSet(B) /\ Cardinality(B) <= Cardinality(A \cup {x})
  BY <1>1, FS_Subset
<1>3. Cardinality(A) \in Nat /\ Cardinality(B) \in Nat /\ Cardinality(A \cup {x}) \in Nat
  BY <1>1, <1>2, FS_CardinalityType
<1> QED
  BY <1>1, <1>2, <1>3

LabelSize(text) == IF text = "" THEN 0 ELSE LabelBytes

\* Which is a number.
LEMMA LabelSizes ==
    \A text : /\ LabelSize(text) \in Nat
              /\ LabelSize(text) = IF text = "" THEN 0 ELSE LabelBytes
  BY DashboardConstants DEF LabelSize

(***************************************************************************)
(* A call of SetLabel.                                                     *)
(***************************************************************************)
LEMMA LabelOutcome ==
    ASSUME NEW v, Tidy(v), Capped(v.remembered), NEW key \in Commands, NEW text \in {"label", ""},
           NEW w \in S!Outcomes([op |-> "SetLabel", key |-> key, text |-> text], v)
    PROVE  Labelled(w, v, key, LabelSize(text)) /\ LabelSize(text) \in Nat
<1> DEFINE call == [op |-> "SetLabel", key |-> key, text |-> text]
           label == [key |-> key, text |-> text, at |-> 0]
           N == {l \in v.labels : l.key # key} \cup (IF text = "" THEN {} ELSE {label})
<1>0. /\ Dated(v.remembered) /\ IsFiniteSet(v.labels) /\ v \in S!persisted
      /\ v.labels \in SUBSET S!labelEntry /\ v.remembered \in SUBSET S!Remembered
      /\ LabelBytes \in Nat
  BY DashboardConstants DEF Tidy, S!persisted
<1>1. PICK t \in S!Targets(call, v) : w \in S!Shrunk(t)
  BY DEF S!Outcomes
<1>2. t = [v EXCEPT !.labels = N]
  <2>1. S!Targets(call, v) = {[v EXCEPT !.labels = N] : at \in {0}}
    BY DEF S!Targets, S!Relabel
  <2> QED
    BY <1>1, <2>1
<1>3. text # "" => label \in S!labelEntry /\ label.key = key
  BY DEF S!labelEntry
<1> HIDE DEF label
<1>4. N \in SUBSET S!labelEntry /\ \A l \in N : l \in v.labels \/ l.key = key
  BY <1>0, <1>3
<1>5. N \in SUBSET (v.labels \cup {label}) /\ (text = "" => N \in SUBSET v.labels)
  OBVIOUS
<1> HIDE DEF N
<1>6. t = [labels |-> N, remembered |-> v.remembered]
  BY <1>0, <1>2, StoreShape
<1>7. t.labels = N /\ t.remembered = v.remembered
  BY <1>6, StoreShape
<1>8. t \in S!persisted
  BY <1>0, <1>4, <1>6 DEF S!persisted
<1>9. IsFiniteSet(N) /\ Cardinality(N) <= Cardinality(v.labels) + 1
  BY <1>0, <1>5, OneMore
<1>10. Tidy(t)
  BY <1>0, <1>7, <1>8, <1>9 DEF Tidy
<1>11. CASE text = ""
  <2>1. Cardinality(N) <= Cardinality(v.labels)
    BY <1>0, <1>5, <1>11, FS_Subset
  <2>2. LabelSize(text) = 0
    BY <1>11, LabelSizes
  <2>3. Labelled(w, v, key, 0)
    BY <1>1, <1>4, <1>7, <1>10, <2>1, Relabelled
  <2> QED
    BY <2>2, <2>3, LabelSizes
<1>12. CASE text # ""
  <2>1. LabelSize(text) = LabelBytes
    BY <1>12, LabelSizes
  <2>2. Cardinality(t.labels) <= Cardinality(v.labels) + 1
    BY <1>7, <1>9
  <2>3. \A l \in t.labels : l \in v.labels \/ l.key = key
    BY <1>4, <1>7
  <2>4. Labelled(w, v, key, LabelBytes)
    BY <1>1, <1>7, <1>10, <2>2, <2>3, Relabelled
  <2> QED
    BY <2>1, <2>4, LabelSizes
<1> QED
  BY <1>11, <1>12

-----------------------------------------------------------------------------
(* Every step of the dashboard is a step of the process manager, or none.   *)

AtTarget == {"inspect", "kill", "killing", "remember", "label"}

(***************************************************************************)
(* Where a handler may be, and what it holds there: a step goes with the   *)
(* request it serves, the pid it acts on was resolved and is not the       *)
(* dashboard's, a call of Kill is for that pid, and a handler that calls   *)
(* the store has inspected something.                                      *)
(***************************************************************************)
HandlerTypes ==
    /\ hpc \in [Slots -> {"idle", "resolve", "inspect", "kill", "killing", "remember",
                          "label", "restart", "spawning"}]
    /\ req \in [Slots -> Requests \cup {NoRequest}]
    /\ tpid \in [Slots -> Pids \cup {NoPid}]
    /\ snap \in [Slots -> Commands \cup {NoApp}]
    /\ code \in [Slots -> {0, 200, 202, 400, 403, 404, 500, 502}]

Step(k) ==
    /\ hpc[k] \in {"resolve", "inspect"} => req[k].op \in {"kill", "rename"}
    /\ hpc[k] \in {"kill", "killing", "remember"} => req[k].op = "kill"
    /\ hpc[k] = "label" => req[k].op = "rename"
    /\ hpc[k] \in AtTarget => tpid[k] \in Pids \ {SelfPid}
    /\ hpc[k] \in {"remember", "label"} => snap[k] # NoApp
    /\ kpc[k] # "idle" => hpc[k] = "killing" /\ kpid[k] = tpid[k]
    /\ hpc[k] = "killing" /\ kpc[k] = "idle" => kres[k] # "none"

HandlerInv == HandlerTypes /\ \A k \in Slots : Step(k)

StoreInv ==
    Tidy(view) /\ Tidy(saved) /\ hard \in S!persisted /\ Capped(view.remembered)

(***************************************************************************)
(* The kinds of requests.                                                  *)
(***************************************************************************)
LEMMA RequestShape ==
    /\ \A r \in Requests : /\ r.op \in {"kill", "restart", "rename"}
                           /\ r.op # "restart" => r.port \in Ports
                           /\ r.op = "rename" => r.text \in {"label", ""}
    /\ \A r \in Requests \cup {NoRequest} : r.op # "none" => r \in Requests
<1>1. NoRequest.op = "none"
  BY DEF NoRequest
<1>2. \A r \in [op : {"kill"}, port : Ports] : r.op = "kill" /\ r.port \in Ports
  OBVIOUS
<1>3. \A r \in [op : {"restart"}, id : 1..MaxRequests] : r.op = "restart"
  OBVIOUS
<1>4. \A r \in [op : {"rename"}, port : Ports, text : {"label", ""}] :
        r.op = "rename" /\ r.port \in Ports /\ r.text \in {"label", ""}
  OBVIOUS
<1> QED
  BY <1>1, <1>2, <1>3, <1>4 DEF Requests

(***************************************************************************)
(* The first pid listed on a port is listed on it.                         *)
(***************************************************************************)
LEMMA FirstIsListed ==
    ASSUME NEW port, resolvePIDForPort(port) # {}
    PROVE  ListedFirst(resolvePIDForPort(port)) \in resolvePIDForPort(port)
<1> DEFINE on == resolvePIDForPort(port)
<1>1. on \subseteq Nat /\ on # {}
  BY ProcessConstants DEF resolvePIDForPort, Listed
<1> HIDE DEF on
<1>2. PICK m \in on : \A j \in on : ~(<<j, m>> \in OpToRel(<, Nat))
  BY <1>1, NatLessThanWellFounded, WFMin
<1>3. \A j \in on : m <= j
  <2> SUFFICES ASSUME NEW j \in on PROVE m <= j
    OBVIOUS
  <2>1. m \in Nat /\ j \in Nat /\ ~(j < m)
    BY <1>1, <1>2 DEF OpToRel
  <2> QED
    BY <2>1
<1>4. Min(on) \in on
  BY <1>3 DEF Min
<1> QED
  BY <1>4 DEF on, ListedFirst

(***************************************************************************)
(* A step that leaves the process manager alone does.                      *)
(***************************************************************************)
LEMMA DashStepIsStep ==
    ASSUME HandlerInv, StoreInv, [DashNext]_dashVars
    PROVE  [Next]_pmVars
<1>0. Spawners = Slots
  BY DashboardConstants
<1>1. CASE UNCHANGED dashVars
  BY <1>1 DEF dashVars
<1>2. ASSUME NEW k \in Slots,
             BadRequest(k) \/ (\E r \in Requests : Request(k, r)) \/ Resolve(k) \/ InspectTarget(k) \/ KillReturns(k)
             \/ RememberKilled(k) \/ SetLabel(k) \/ RestartReturns(k)
      PROVE  UNCHANGED pmVars
  BY <1>2 DEF BadRequest, Request, Resolve, InspectTarget, KillReturns, RememberKilled, SetLabel,
              RestartReturns, StoreCall
<1>3. ASSUME NEW k \in Slots, CallKill(k)  PROVE Next
  <2>1. tpid[k] \in Pids
    BY <1>3 DEF CallKill, HGoto, HandlerInv, Step, AtTarget
  <2> QED
    BY <1>3, <2>1 DEF CallKill, Next
<1>4. ASSUME NEW k \in Slots, Restart(k)  PROVE Next \/ UNCHANGED pmVars
  <2>1. \A e \in view.remembered : e.key \in Apps \cup {EmptyApp}
    BY StoreShape DEF StoreInv, Tidy, Dated, Commands
  <2> QED
    BY <1>0, <1>4, <2>1 DEF Restart, Next
<1>5. ASSUME NEW k \in Slots, Spawning(k) \/ Killing(k)  PROVE Next
  BY <1>0, <1>5 DEF Spawning, Killing, Next
<1>6. CASE Elsewhere
  BY <1>0, <1>6 DEF Elsewhere, Beside, Next
<1>7. CASE Exits
  BY <1>7 DEF Exits, Next
<1> QED
  BY <1>1, <1>2, <1>3, <1>4, <1>5, <1>6, <1>7 DEF DashNext, Handle

(***************************************************************************)
(* Whatever an inspection reads could be a program's command.              *)
(***************************************************************************)
LEMMA ReadingsAreCommands == \A a \in Apps : a \in Readings(a) /\ Readings(a) \subseteq Commands
<1>1. Misread \in [Apps -> SUBSET OwnApps] /\ OwnApps \subseteq Apps
  BY DashboardConstants, ProcessConstants
<1> QED
  BY <1>1 DEF Readings, Commands

(***************************************************************************)
(* What runs is one of the programs, unless it is the dashboard itself,    *)
(* which was there from the beginning.                                     *)
(***************************************************************************)
ProgramInv ==
    \A p \in Pids : Exists(p) => /\ p # SelfPid => os[p].birth # 0
                                 /\ os[p].birth # 0 => os[p].app \in Apps

\* Programs keep to their places, whatever the process manager does.
LEMMA ProgramInductive == TypeInv /\ ProgramInv /\ [Next]_pmVars => ProgramInv'
<1> SUFFICES ASSUME TypeInv, ProgramInv, [Next]_pmVars PROVE ProgramInv'
  OBVIOUS
<1>1. births \in Nat
  BY TypeParts DEF WorldType
<1> QED
  BY <1>1, TableEvolves DEF ProgramInv, Evolves, Exists

(***************************************************************************)
(* How the two handlers that call the store end.                           *)
(***************************************************************************)
LEMMA StoreAnswers ==
    ASSUME NEW k
    PROVE  /\ RememberKilled(k) => /\ hpc[k] = "remember" /\ hpc' = [hpc EXCEPT ![k] = "idle"]
                                   /\ code' = [code EXCEPT ![k] = 200] /\ UNCHANGED <<req, tpid, snap>>
           /\ SetLabel(k) => /\ hpc[k] = "label" /\ hpc' = [hpc EXCEPT ![k] = "idle"]
                             /\ \E c \in {200, 500} : code' = [code EXCEPT ![k] = c]
                             /\ UNCHANGED <<req, tpid, snap>>
<1>1. ASSUME RememberKilled(k)
      PROVE  /\ hpc[k] = "remember" /\ hpc' = [hpc EXCEPT ![k] = "idle"]
             /\ code' = [code EXCEPT ![k] = 200] /\ UNCHANGED <<req, tpid, snap>>
  <2>1. Reply(k, "remember", 200) /\ UNCHANGED <<req, tpid, snap>>
    BY <1>1 DEF RememberKilled
  <2> QED
    BY <2>1 DEF Reply, HGoto
<1>2. ASSUME SetLabel(k)
      PROVE  /\ hpc[k] = "label" /\ hpc' = [hpc EXCEPT ![k] = "idle"]
             /\ \E c \in {200, 500} : code' = [code EXCEPT ![k] = c]
             /\ UNCHANGED <<req, tpid, snap>>
  <2>1. (\E ok \in BOOLEAN : Reply(k, "label", IF ok THEN 200 ELSE 500)) /\ UNCHANGED <<req, tpid, snap>>
    BY <1>2 DEF SetLabel
  <2> QED
    BY <2>1 DEF Reply, HGoto
<1> QED
  BY <1>1, <1>2

(***************************************************************************)
(* A handler whose variables do not change stays where it was.             *)
(***************************************************************************)
Idles(k) == /\ hpc'[k] = hpc[k] /\ req'[k] = req[k] /\ tpid'[k] = tpid[k] /\ snap'[k] = snap[k]
            /\ kpc'[k] = kpc[k] /\ kpid'[k] = kpid[k] /\ kres'[k] = kres[k]

\* A kill that nobody calls stays as it is.
LEMMA IdlesFrame ==
    ASSUME NEW k \in Slots, Step(k), Idles(k)
    PROVE  Step(k)'
  BY DEF Step, Idles

(***************************************************************************)
(* No step of the dashboard takes a handler out of that order.             *)
(***************************************************************************)
LEMMA HandlerInductive ==
    ASSUME TypeInv, ProgramInv, HandlerInv, [DashNext]_dashVars
    PROVE  HandlerInv'
<1> USE TypeParts
<1>0. Spawners = Slots
  BY DashboardConstants
<1>1. CASE UNCHANGED <<handlerVars, killVars>>
  BY <1>1 DEF HandlerInv, HandlerTypes, Step, handlerVars, killVars
<1>2. CASE Elsewhere
  <2>1. UNCHANGED <<handlerVars, killVars>>
    BY <1>2 DEF Elsewhere, Beside, World, Start, Bind, Exit, Tick, Escalate, Wake, SigKill, reap
  <2> QED
    BY <1>1, <2>1
<1>3. CASE Exits
  <2>1. HandlerTypes'
    BY <1>3 DEF Exits, HandlerInv, HandlerTypes
  <2>2. \A j \in Slots : Step(j)'
    BY <1>3 DEF Exits, Shutdown, HandlerInv, Step, AtTarget
  <2> QED
    BY <2>1, <2>2 DEF HandlerInv
<1> SUFFICES ASSUME NEW k \in Slots,
                    \/ BadRequest(k) \/ (\E r \in Requests : Request(k, r)) \/ Handle(k) \/ Killing(k)
             PROVE  HandlerInv'
  <2>1. UNCHANGED dashVars => UNCHANGED <<handlerVars, killVars>>
    BY DEF dashVars, pmVars
  <2> QED
    BY <1>1, <1>2, <1>3, <2>1 DEF DashNext
<1>11. CASE BadRequest(k)
  <2>1. HandlerTypes'
    BY <1>11 DEF BadRequest, Reply, HGoto, HandlerInv, HandlerTypes
  <2>2. \A j \in Slots : Step(j)'
    BY <1>11 DEF BadRequest, Reply, HGoto, HandlerInv, HandlerTypes, Step, AtTarget, pmVars, killVars
  <2> QED
    BY <2>1, <2>2 DEF HandlerInv
<1>4. ASSUME NEW r \in Requests, Request(k, r)  PROVE HandlerInv'
  <2>1. HandlerTypes'
    BY <1>4 DEF Request, HGoto, HandlerInv, HandlerTypes
  <2>2. \A j \in Slots : Step(j)'
    <3>1. \A j \in Slots \ {k} : Idles(j)
      BY <1>4 DEF Request, HGoto, HandlerInv, HandlerTypes, Idles, pmVars, killVars
    <3>2. hpc[k] = "idle" /\ kpc'[k] = "idle" /\ req'[k] = r
          /\ hpc'[k] = IF r.op = "restart" THEN "restart" ELSE "resolve"
      BY <1>4 DEF Request, HGoto, HandlerInv, HandlerTypes, Step, pmVars, killVars
    <3>3. Step(k)'
      BY <3>2, RequestShape DEF Step, AtTarget
    <3> QED
      BY <3>1, <3>3, IdlesFrame DEF HandlerInv
  <2> QED
    BY <2>1, <2>2 DEF HandlerInv
<1>5. CASE Resolve(k)
  <2>1. resolvePIDForPort(req[k].port) # {} =>
          ListedFirst(resolvePIDForPort(req[k].port)) \in Pids \ {SelfPid}
    BY FirstIsListed DEF resolvePIDForPort, Listed
  <2>2. HandlerTypes'
    BY <1>5, <2>1 DEF Resolve, Reply, HGoto, HandlerInv, HandlerTypes
  <2>3. \A j \in Slots : Step(j)'
    BY <1>5, <2>1 DEF Resolve, Reply, HGoto, HandlerInv, HandlerTypes, Step, AtTarget, pmVars, killVars
  <2> QED
    BY <2>2, <2>3 DEF HandlerInv
<1>6. CASE InspectTarget(k)
  <2>1. PICK a \in Inspect(tpid[k]) : snap' = [snap EXCEPT ![k] = a]
    BY <1>6 DEF InspectTarget
  <2>2. tpid[k] \in Pids /\ tpid[k] # SelfPid
    BY <1>6 DEF InspectTarget, HandlerInv, Step, AtTarget
  <2>3. a \in Commands \cup {NoApp}
    <3>1. CASE a = NoApp
      BY <3>1
    <3>2. CASE a # NoApp
      <4>1. os[tpid[k]].app \in Apps /\ a \in Readings(os[tpid[k]].app)
        BY <2>1, <2>2, <3>2 DEF Inspect, Live, ProgramInv
      <4> QED
        BY <4>1, ReadingsAreCommands
    <3> QED
      BY <3>1, <3>2
  <2>4. HandlerTypes'
    BY <1>6, <2>1, <2>3 DEF InspectTarget, Reply, HGoto, HandlerInv, HandlerTypes
  <2>5. \A j \in Slots : Step(j)'
    BY <1>6, <2>1, <2>3 DEF InspectTarget, Reply, HGoto, HandlerInv, HandlerTypes, Step, AtTarget, pmVars, killVars
  <2> QED
    BY <2>4, <2>5 DEF HandlerInv
<1>7. CASE CallKill(k)
  <2>1. HandlerTypes'
    BY <1>7 DEF CallKill, HGoto, HandlerInv, HandlerTypes
  <2>2. \A j \in Slots : Step(j)'
    BY <1>7 DEF CallKill, Kill, KillGoto, KillAnswer, HGoto, HandlerInv, HandlerTypes, Step, AtTarget, KillType
  <2> QED
    BY <2>1, <2>2 DEF HandlerInv
<1>8. CASE KillReturns(k)
  <2>1. HandlerTypes'
    BY <1>8 DEF KillReturns, Reply, HGoto, HandlerInv, HandlerTypes
  <2>2. \A j \in Slots : Step(j)'
    BY <1>8 DEF KillReturns, Reply, HGoto, HandlerInv, HandlerTypes, Step, AtTarget, KillType, pmVars, killVars
  <2> QED
    BY <2>1, <2>2 DEF HandlerInv
<1>9. CASE RememberKilled(k) \/ SetLabel(k) \/ RestartReturns(k) \/ Restart(k) \/ Spawning(k)
  <2>1. UNCHANGED <<killVars, req, tpid, snap>>
    BY <1>9 DEF RememberKilled, SetLabel, StoreCall, RestartReturns, Restart, Spawning, SpawnStep, OpenDevNullR,
                OpenDevNullW, StartFails, StartChild, SpawnDetached, pmVars
  <2>2. \/ UNCHANGED <<hpc, code>>
        \/ /\ hpc[k] \in {"remember", "label", "spawning", "restart"}
           /\ \/ hpc' = [hpc EXCEPT ![k] = "idle"] /\ \E c \in {200, 202, 404, 500} : code' = [code EXCEPT ![k] = c]
              \/ hpc' = [hpc EXCEPT ![k] = "spawning"] /\ UNCHANGED code
    <3>1. CASE RestartReturns(k)
      BY <3>1 DEF RestartReturns, Reply, HGoto
    <3>2. CASE RememberKilled(k) \/ SetLabel(k)
      BY <3>2, StoreAnswers
    <3>3. CASE Restart(k)
      BY <3>3 DEF Restart, Reply, HGoto
    <3>4. CASE Spawning(k)
      BY <3>4 DEF Spawning, Reply, HGoto
    <3> QED
      BY <1>9, <3>1, <3>2, <3>3, <3>4
  <2>3. HandlerTypes'
    BY <2>1, <2>2 DEF HandlerInv, HandlerTypes
  <2>4. \A j \in Slots : Step(j)'
    BY <2>1, <2>2 DEF HandlerInv, HandlerTypes, Step, AtTarget, killVars
  <2> QED
    BY <2>3, <2>4 DEF HandlerInv
<1>10. CASE Killing(k)
  <2>1. HandlerTypes'
    BY <1>10 DEF Killing, HandlerInv, HandlerTypes, handlerVars
  <2>2. \A j \in Slots : Step(j)'
    BY <1>10 DEF Killing, KillStep, verifyLive, SigTerm, KillGoto, KillAnswer, HandlerInv, Step, KillType, handlerVars
  <2> QED
    BY <2>1, <2>2 DEF HandlerInv
<1> QED
  BY <1>4, <1>5, <1>6, <1>7, <1>8, <1>9, <1>10, <1>11 DEF Handle

(***************************************************************************)
(* The empty state is one, and takes no room.                              *)
(***************************************************************************)
LEMMA EmptyIsTidy == /\ Tidy(S!Empty) /\ S!Empty \in S!persisted /\ Capped(S!Empty.remembered)
                     /\ S!Empty.remembered = {} /\ S!Empty.labels = {} /\ S!Bytes(S!Empty) = 0
<1>1. S!Empty.remembered = {} /\ S!Empty.labels = {} /\ S!Empty \in S!persisted
  BY DEF S!Empty, S!persisted
<1>2. Tidy(S!Empty)
  BY <1>1, FS_EmptySet DEF Tidy, Dated
<1>3. Cardinality({}) = 0 /\ \A a : {e \in {} : e.key = a} = {}
  BY FS_EmptySet
<1>4. Capped({})
  BY <1>3, DashboardConstants DEF Capped
<1>5. S!Bytes(S!Empty) = LabelBytes * Cardinality(S!Empty.labels) + Weight(S!Empty.remembered)
  BY <1>2, SizeOf
<1>6. Weight({}) = 0 /\ LabelBytes \in Nat
  BY FS_EmptySet, WeightStep, DashboardConstants
<1>7. S!Bytes(S!Empty) = 0
  BY <1>1, <1>3, <1>5, <1>6
<1> QED
  BY <1>1, <1>2, <1>4, <1>7

(***************************************************************************)
(* Remembering adds one entry of some size for the program, labelling      *)
(* touches one label, and both keep the store tidy and count what they     *)
(* hand to it.                                                             *)
(***************************************************************************)
LEMMA StoreSteps ==
    ASSUME HandlerInv, StoreInv, NEW k \in Slots
    PROVE  /\ RememberKilled(k) \/ SetLabel(k) =>
                /\ snap[k] \in Commands /\ UNCHANGED hard
                /\ saved' = view' \/ UNCHANGED saved
           /\ RememberKilled(k) =>
                \E n \in EntryBytes : Joined(view', view, snap[k], n) /\ handed' = handed + n
           /\ SetLabel(k) =>
                \E n \in Nat : Labelled(view', view, snap[k], n)
                               /\ (handed' = handed + n \/ (n = 0 /\ handed' = handed))
<1>1. ASSUME RememberKilled(k)
      PROVE  /\ \E n \in EntryBytes : Joined(view', view, snap[k], n) /\ handed' = handed + n
             /\ snap[k] \in Commands /\ UNCHANGED hard
             /\ saved' = view' \/ UNCHANGED saved
  <2>1. snap[k] \in Commands
    BY <1>1 DEF RememberKilled, Reply, HGoto, HandlerInv, HandlerTypes, Step
  <2>2. PICK ok \in BOOLEAN, bytes \in EntryBytes :
          /\ StoreCall([op |-> "Remember", key |-> snap[k], bytes |-> bytes], ok)
          /\ handed' = handed + bytes
    BY <1>1 DEF RememberKilled
  <2>3. S!Put([op |-> "Remember", key |-> snap[k], bytes |-> bytes]) /\ (saved' = view' \/ UNCHANGED saved)
    BY <2>2 DEF StoreCall
  <2>4. view' \in S!Outcomes([op |-> "Remember", key |-> snap[k], bytes |-> bytes], view) /\ UNCHANGED hard
    BY <2>3 DEF S!Put
  <2>5. Joined(view', view, snap[k], bytes)
    BY <2>1, <2>4, RememberOutcome DEF StoreInv
  <2> QED
    BY <2>1, <2>2, <2>3, <2>4, <2>5
<1>2. ASSUME SetLabel(k)
      PROVE  /\ \E n \in Nat : Labelled(view', view, snap[k], n)
                               /\ (handed' = handed + n \/ (n = 0 /\ handed' = handed))
             /\ snap[k] \in Commands /\ UNCHANGED hard
             /\ saved' = view' \/ UNCHANGED saved
  <2>1. snap[k] \in Commands
    <3>1. hpc[k] = "label"
      BY <1>2, StoreAnswers
    <3> QED
      BY <3>1 DEF HandlerInv, HandlerTypes, Step
  <2>0. req[k].text \in {"label", ""}
    <3>1. hpc[k] = "label"
      BY <1>2 DEF SetLabel, Reply, HGoto
    <3>2. req[k] \in Requests \cup {NoRequest} /\ req[k].op = "rename"
      BY <3>1 DEF HandlerInv, HandlerTypes, Step
    <3> QED
      BY <3>2, RequestShape
  <2>2. PICK ok \in BOOLEAN : StoreCall([op |-> "SetLabel", key |-> snap[k], text |-> req[k].text], ok)
    BY <1>2 DEF SetLabel
  <2>3. S!Put([op |-> "SetLabel", key |-> snap[k], text |-> req[k].text]) /\ (saved' = view' \/ UNCHANGED saved)
    BY <2>2 DEF StoreCall
  <2>4. view' \in S!Outcomes([op |-> "SetLabel", key |-> snap[k], text |-> req[k].text], view) /\ UNCHANGED hard
    BY <2>3 DEF S!Put
  <2>5. Labelled(view', view, snap[k], LabelSize(req[k].text)) /\ LabelSize(req[k].text) \in Nat
    BY <2>0, <2>1, <2>4, LabelOutcome DEF StoreInv
  <2>6. handed' = IF req[k].text = "" THEN handed ELSE handed + LabelBytes
    BY <1>2 DEF SetLabel
  <2>7. handed' = handed + LabelSize(req[k].text) \/ (LabelSize(req[k].text) = 0 /\ handed' = handed)
    BY <2>6, LabelSizes
  <2> QED
    BY <2>1, <2>3, <2>4, <2>5, <2>7
<1> QED
  BY <1>1, <1>2

(***************************************************************************)
(* No step of the dashboard leaves an untidy state.                        *)
(***************************************************************************)
LEMMA StoreInductive ==
    ASSUME HandlerInv, StoreInv, [DashNext]_dashVars
    PROVE  StoreInv'
<1>1. CASE UNCHANGED storeVars
  BY <1>1 DEF StoreInv, storeVars
<1>2. ASSUME NEW k \in Slots, RememberKilled(k) \/ SetLabel(k)  PROVE StoreInv'
  BY <1>2, StoreSteps DEF StoreInv, Joined, Labelled
<1>3. CASE Exits
  BY <1>3, EmptyIsTidy DEF Exits, S!Stop, StoreInv
<1> QED
  BY <1>1, <1>2, <1>3 DEF DashNext, Handle, Elsewhere, Beside, BadRequest, Request, Resolve, InspectTarget,
     CallKill, KillReturns, Restart, Spawning, RestartReturns, Killing, dashVars

(***************************************************************************)
(* What is in memory takes no more room than what the store was given.     *)
(***************************************************************************)
RoomInv == handed \in Nat /\ S!Bytes(view) <= handed

\* Nothing else grows it, and nothing is ever taken back.
LEMMA RoomInductive ==
    ASSUME HandlerInv, StoreInv, StoreInv', RoomInv, [DashNext]_dashVars
    PROVE  RoomInv' /\ handed <= handed'
<1>0. handed \in Nat /\ S!Bytes(view) \in Nat /\ S!Bytes(view) <= handed /\ S!Bytes(view') \in Nat
  BY SizeOf DEF RoomInv, StoreInv
<1>1. CASE UNCHANGED <<storeVars, handed>>
  BY <1>0, <1>1 DEF RoomInv, storeVars
<1>2. ASSUME NEW k \in Slots, RememberKilled(k) \/ SetLabel(k)  PROVE RoomInv' /\ handed <= handed'
  <2>1. \E n \in Nat : S!Bytes(view') <= S!Bytes(view) + n /\ (handed' = handed + n \/ (n = 0 /\ handed' = handed))
    BY <1>2, StoreSteps, DashboardConstants DEF Joined, Labelled
  <2>2. handed' \in Nat /\ S!Bytes(view') <= handed' /\ handed <= handed'
    BY <1>0, <2>1
  <2> QED
    BY <2>2 DEF RoomInv
<1>3. CASE Exits
  <2>1. view' = S!Empty /\ handed' = handed
    BY <1>3 DEF Exits, S!Stop
  <2> QED
    BY <1>0, <2>1, EmptyIsTidy DEF RoomInv
<1> QED
  BY <1>1, <1>2, <1>3 DEF DashNext, Handle, Elsewhere, Beside, BadRequest, Request, Resolve, InspectTarget,
     CallKill, KillReturns, Restart, Spawning, RestartReturns, Killing, dashVars

(***************************************************************************)
(* The process manager's invariants are the dashboard's as well.           *)
(***************************************************************************)
BaseInv == /\ TypeInv /\ SignalInv /\ ScanInv /\ ChildInv /\ ProgramInv /\ HandlerInv
           /\ StoreInv /\ RoomInv

\* A step of the dashboard is one of its process manager and keeps all of that.
LEMMA BaseInductive == BaseInv /\ [DashNext]_dashVars => BaseInv' /\ [Next]_pmVars /\ handed <= handed'
<1> SUFFICES ASSUME BaseInv, [DashNext]_dashVars PROVE BaseInv' /\ [Next]_pmVars /\ handed <= handed'
  OBVIOUS
<1>1. [Next]_pmVars
  BY DashStepIsStep DEF BaseInv
<1>2. TypeInv'
  BY <1>1, TypesInductive DEF BaseInv
<1>3. StoreInv'
  BY StoreInductive DEF BaseInv
<1> QED
  BY <1>1, <1>2, <1>3, SignalInductive, ScanInductive, ChildInductive, ProgramInductive, HandlerInductive,
     RoomInductive DEF BaseInv

(***************************************************************************)
(* Every reachable state satisfies them.                                   *)
(***************************************************************************)
LEMMA BaseInvariant == DashSpec => []BaseInv
<1>1. DashInit => BaseInv
  <2> SUFFICES ASSUME DashInit PROVE BaseInv
    OBVIOUS
  <2>1. Init
    BY DEF DashInit
  <2>2. SignalInv
    BY <2>1 DEF Init, SignalInv, Shape, Targets, Patience, KillOnlyAfterGrace
  <2>3. ScanInv
    BY <2>1, ProcessConstants DEF Init, ScanInv, TermFollowsScan, Exists
  <2>4. ChildInv
    BY <2>1, ProcessConstants DEF Init, ChildInv, FdsMatch, OurChild, Exists
  <2>5. ProgramInv
    BY <2>1, ProcessConstants DEF Init, ProgramInv, Exists
  <2>6. HandlerInv
    BY <2>1 DEF Init, DashInit, HandlerInv, HandlerTypes, Step, AtTarget
  <2>7. StoreInv /\ RoomInv
    BY EmptyIsTidy DEF DashInit, S!AbsInit, StoreInv, RoomInv
  <2> QED
    BY <2>1, <2>2, <2>3, <2>4, <2>5, <2>6, <2>7, TypesInitially DEF BaseInv
<1> QED
  BY <1>1, BaseInductive, PTL DEF DashSpec

-----------------------------------------------------------------------------
(* Four kinds of steps, for the counts: a request comes in, a SIGTERM is    *)
(* delivered, a kill is remembered, or none of these.                       *)

(***************************************************************************)
(* The kills that may still signal, and those that did and are about to    *)
(* be remembered.                                                          *)
(***************************************************************************)
Aiming == {k \in Slots : /\ req[k].op = "kill"
                         /\ \/ hpc[k] \in {"resolve", "inspect", "kill"}
                            \/ hpc[k] = "killing" /\ kpc[k] # "idle"}

Owing == {k \in Slots : /\ snap[k] # NoApp
                        /\ \/ hpc[k] = "remember"
                           \/ hpc[k] = "killing" /\ kpc[k] = "idle" /\ kres[k] = "nil"}

Remembers == view.remembered \cup saved.remembered

StoreShrinks == Remembers' \in SUBSET Remembers /\ view'.remembered \in SUBSET view.remembered

NobodyOwes == \A j \in Owing' : j \in Owing /\ snap'[j] = snap[j]

Comes(k) ==
    /\ requests' = requests + 1 /\ requests < MaxRequests
    /\ Aiming' \in SUBSET (Aiming \cup {k})
    /\ NobodyOwes /\ StoreShrinks /\ UNCHANGED killed

\* The SIGTERM handler k delivers.
Sent(k) == [n |-> Cardinality(killed) + 1, birth |-> os[tpid[k]].birth, as |-> snap[k]]

Terminates(k) ==
    /\ k \in Aiming \ Owing /\ hpc[k] = "killing" /\ Deliverable(tpid[k])
    /\ killed' = killed \cup {Sent(k)}
    /\ Aiming' \in SUBSET (Aiming \ {k}) /\ Owing' \in SUBSET (Owing \cup {k})
    /\ UNCHANGED <<os, snap, view, saved, requests>>

Joins(k) ==
    /\ k \in Owing /\ Owing' \in SUBSET (Owing \ {k}) /\ Aiming' \in SUBSET Aiming
    /\ \E n \in EntryBytes : Joined(view', view, snap[k], n) /\ handed' = handed + n
    /\ saved' = view' \/ UNCHANGED saved
    /\ UNCHANGED <<snap, requests, killed>>

Counts == /\ Aiming' \in SUBSET Aiming
          /\ NobodyOwes /\ StoreShrinks /\ UNCHANGED <<killed, requests>>

(***************************************************************************)
(* A kill that is remembered was about to be.                              *)
(***************************************************************************)
LEMMA RememberJoins ==
    ASSUME BaseInv, NEW k \in Slots, RememberKilled(k)
    PROVE  Joins(k)
<1> USE DEF BaseInv
<1>1. hpc[k] = "remember" /\ hpc' = [hpc EXCEPT ![k] = "idle"] /\ UNCHANGED <<killVars, req, snap, killed, requests>>
  BY DEF RememberKilled, Reply, HGoto, StoreCall, pmVars
<1>2. k \in Owing /\ Owing' \in SUBSET (Owing \ {k}) /\ Aiming' \in SUBSET Aiming
  BY <1>1 DEF Owing, Aiming, HandlerInv, HandlerTypes, Step, killVars
<1> QED
  BY <1>1, <1>2, StoreSteps DEF Joins

(***************************************************************************)
(* Every step is of one of the four kinds.                                 *)
(***************************************************************************)
LEMMA StepKinds ==
    ASSUME BaseInv, [DashNext]_dashVars
    PROVE  Counts \/ \E k \in Slots : Comes(k) \/ Terminates(k) \/ Joins(k)
<1> USE TypeParts DEF BaseInv
<1>0. Spawners = Slots
  BY DashboardConstants
<1>1. CASE UNCHANGED <<handlerVars, killVars, storeVars, killed, requests>>
  BY <1>1 DEF Counts, Aiming, NobodyOwes, Owing, StoreShrinks, Remembers, handlerVars, killVars, storeVars
<1>2. CASE Elsewhere
  <2>1. UNCHANGED <<handlerVars, killVars, storeVars, killed, requests>>
    BY <1>2 DEF Elsewhere, Beside, World, Start, Bind, Exit, Tick, Escalate, Wake, SigKill, reap
  <2> QED
    BY <1>1, <2>1
<1>3. CASE Exits
  <2>1. Aiming' = {} /\ Owing' = {}
    BY <1>3 DEF Exits, Aiming, Owing
  <2>2. view' = S!Empty /\ UNCHANGED <<saved, killed, requests>>
    BY <1>3 DEF Exits, S!Stop
  <2> QED
    BY <2>1, <2>2, EmptyIsTidy DEF Counts, NobodyOwes, StoreShrinks, Remembers
<1> SUFFICES ASSUME NEW k \in Slots,
                    \/ BadRequest(k) \/ (\E r \in Requests : Request(k, r)) \/ Handle(k) \/ Killing(k)
             PROVE  Counts \/ \E j \in Slots : Comes(j) \/ Terminates(j) \/ Joins(j)
  <2>1. UNCHANGED dashVars => UNCHANGED <<handlerVars, killVars, storeVars, killed, requests>>
    BY DEF dashVars, pmVars
  <2> QED
    BY <1>1, <1>2, <1>3, <2>1 DEF DashNext
<1>4. CASE BadRequest(k)
  BY <1>4 DEF BadRequest, Reply, HGoto, Counts, Aiming, NobodyOwes, Owing, StoreShrinks, Remembers, NoRequest,
              storeVars, pmVars, killVars, HandlerInv, HandlerTypes
<1>5. ASSUME NEW r \in Requests, Request(k, r)  PROVE Comes(k)
  BY <1>5 DEF Request, HGoto, Comes, Aiming, NobodyOwes, Owing, StoreShrinks, Remembers,
              storeVars, pmVars, killVars, HandlerInv, HandlerTypes
<1>6. CASE Resolve(k) \/ InspectTarget(k) \/ CallKill(k) \/ KillReturns(k)
  <2>1. UNCHANGED <<req, storeVars, killed, requests>>
    BY <1>6 DEF Resolve, InspectTarget, CallKill, KillReturns
  <2>2. Aiming' \in SUBSET Aiming
    BY <1>6 DEF Resolve, InspectTarget, CallKill, KillReturns, Reply, HGoto, Aiming, HandlerInv, HandlerTypes, Step,
                Kill, KillGoto, KillType, pmVars, killVars
  <2>3. NobodyOwes
    <3>1. CASE Resolve(k)
      BY <3>1 DEF Resolve, Reply, HGoto, NobodyOwes, Owing, HandlerInv, HandlerTypes, pmVars, killVars
    <3>2. CASE InspectTarget(k)
      BY <3>2 DEF InspectTarget, Reply, HGoto, NobodyOwes, Owing, HandlerInv, HandlerTypes, pmVars, killVars
    <3>3. CASE CallKill(k)
      BY <3>3 DEF CallKill, Kill, KillGoto, KillAnswer, KillType, HGoto, NobodyOwes, Owing, HandlerInv, HandlerTypes
    <3>4. CASE KillReturns(k)
      BY <3>4 DEF KillReturns, Reply, HGoto, KillType, NobodyOwes, Owing, HandlerInv, HandlerTypes, Step, pmVars, killVars
    <3> QED
      BY <1>6, <3>1, <3>2, <3>3, <3>4
  <2> QED
    BY <2>1, <2>2, <2>3 DEF Counts, StoreShrinks, Remembers, storeVars
<1>7. CASE RememberKilled(k)
  BY <1>7, RememberJoins
<1>8. CASE SetLabel(k)
  <2>1. hpc[k] = "label" /\ hpc' = [hpc EXCEPT ![k] = "idle"] /\ UNCHANGED <<killVars, req, snap, killed, requests>>
    BY <1>8 DEF SetLabel, Reply, HGoto, StoreCall, pmVars
  <2>2. NobodyOwes /\ Aiming' \in SUBSET Aiming
    BY <2>1 DEF NobodyOwes, Owing, Aiming, HandlerInv, HandlerTypes, killVars
  <2>3. StoreShrinks
    BY <1>8, StoreSteps DEF Labelled, StoreShrinks, Remembers
  <2> QED
    BY <2>1, <2>2, <2>3 DEF Counts
<1>9. CASE Restart(k) \/ Spawning(k) \/ RestartReturns(k)
  <2>1. UNCHANGED <<req, snap, killVars, storeVars, killed, requests>>
    BY <1>9 DEF Restart, Spawning, RestartReturns, SpawnDetached, SpawnStep, OpenDevNullR,
                OpenDevNullW, StartFails, StartChild, pmVars
  <2>2. hpc' = hpc \/ hpc' = [hpc EXCEPT ![k] = "idle"] \/ hpc' = [hpc EXCEPT ![k] = "spawning"]
    BY <1>9 DEF Restart, Spawning, RestartReturns, Reply, HGoto
  <2> QED
    BY <2>1, <2>2 DEF Counts, StoreShrinks, Remembers, NobodyOwes, Owing, Aiming, storeVars, killVars,
                      HandlerInv, HandlerTypes
<1>10. CASE Killing(k)
  <2>1. kpc[k] # "idle" /\ hpc[k] = "killing" /\ req[k].op = "kill" /\ kpid[k] = tpid[k]
        /\ tpid[k] \in Pids \ {SelfPid}
    BY <1>10 DEF Killing, KillStep, verifyLive, SigTerm, KillGoto, HandlerInv, Step, AtTarget
  <2>2. k \in Aiming \ Owing
    BY <2>1 DEF Aiming, Owing
  <2>3. UNCHANGED <<handlerVars, storeVars, requests, os>>
    BY <1>10 DEF Killing, KillStep, verifyLive, SigTerm, osVars
  <2>4. CASE kpc[k] = "signal" /\ kres'[k] = "nil"
    <3>1. SigTerm(k) /\ Deliverable(kpid[k])
      BY <1>10, <2>4 DEF Killing, KillStep, verifyLive, SigTerm, KillGoto, KillAnswer, KillType
    <3>3. Aiming' \in SUBSET (Aiming \ {k}) /\ Owing' \in SUBSET (Owing \cup {k})
      <4>1. kpc' = [kpc EXCEPT ![k] = "idle"] /\ kres' = [kres EXCEPT ![k] = "nil"]
        BY <3>1 DEF SigTerm, KillGoto, KillAnswer
      <4>2. UNCHANGED <<hpc, req, snap>>
        BY <2>3 DEF handlerVars
      <4>3. Aiming' \in SUBSET (Aiming \ {k})
        BY <2>1, <4>1, <4>2 DEF Aiming, KillType
      <4>4. Owing' \in SUBSET (Owing \cup {k})
        BY <4>1, <4>2 DEF Owing, KillType
      <4> QED
        BY <4>3, <4>4
    <3>2. killed' = killed \cup {Sent(k)}
      BY <1>10, <2>1, <2>4 DEF Killing, Sent
    <3> QED
      BY <2>1, <2>2, <2>3, <3>1, <3>2, <3>3 DEF Terminates, handlerVars, storeVars
  <2>5. CASE ~(kpc[k] = "signal" /\ kres'[k] = "nil")
    <3>1. UNCHANGED killed
      BY <1>10, <2>5 DEF Killing
    <3>2. Aiming' \in SUBSET Aiming
      BY <1>10, <2>2, <2>3 DEF Killing, KillStep, verifyLive, SigTerm, KillGoto, Aiming, KillType, handlerVars
    <3>3. NobodyOwes
      BY <1>10, <2>1, <2>3, <2>5 DEF Killing, KillStep, verifyLive, SigTerm, KillGoto, KillAnswer, NobodyOwes, Owing, KillType, handlerVars
    <3> QED
      BY <2>3, <3>1, <3>2, <3>3 DEF Counts, StoreShrinks, Remembers, storeVars
  <2> QED
    BY <2>4, <2>5
<1> QED
  BY <1>4, <1>5, <1>6, <1>7, <1>8, <1>9, <1>10 DEF Handle

(***************************************************************************)
(* Sets of slots are finite, and smaller ones have no more elements.       *)
(***************************************************************************)
LEMMA SlotSets ==
    /\ \A A \in SUBSET Slots : IsFiniteSet(A) /\ Cardinality(A) \in Nat
    /\ \A A \in SUBSET Slots : \A B \in SUBSET A : Cardinality(B) <= Cardinality(A)
    /\ \A A \in SUBSET Slots : \A k \in A :
         /\ Cardinality(A \ {k}) + 1 <= Cardinality(A)
         /\ \A B \in SUBSET (A \ {k}) : Cardinality(B) + 1 <= Cardinality(A)
    /\ \A A \in SUBSET Slots : \A k \in Slots : \A B \in SUBSET (A \cup {k}) : Cardinality(B) <= Cardinality(A) + 1
<1>1. \A A \in SUBSET Slots : IsFiniteSet(A) /\ Cardinality(A) \in Nat
  BY DashboardConstants, FS_Subset, FS_CardinalityType
<1>2. \A A \in SUBSET Slots : \A B \in SUBSET A : Cardinality(B) <= Cardinality(A)
  BY <1>1, FS_Subset
<1>3. \A A \in SUBSET Slots : \A k \in A :
         /\ Cardinality(A \ {k}) + 1 <= Cardinality(A)
         /\ \A B \in SUBSET (A \ {k}) : Cardinality(B) + 1 <= Cardinality(A)
  <2> SUFFICES ASSUME NEW A \in SUBSET Slots, NEW k \in A, NEW B \in SUBSET (A \ {k})
               PROVE  /\ Cardinality(A \ {k}) + 1 <= Cardinality(A)
                      /\ Cardinality(B) + 1 <= Cardinality(A)
    OBVIOUS
  <2>1. Cardinality(A \ {k}) = Cardinality(A) - 1
    BY <1>1, FS_RemoveElement
  <2>2. Cardinality(B) <= Cardinality(A \ {k})
    BY <1>2
  <2>3. Cardinality(A) \in Nat /\ Cardinality(B) \in Nat
    BY <1>1
  <2> QED
    BY <2>1, <2>2, <2>3
<1>4. \A A \in SUBSET Slots : \A k \in Slots : \A B \in SUBSET (A \cup {k}) : Cardinality(B) <= Cardinality(A) + 1
  <2> SUFFICES ASSUME NEW A \in SUBSET Slots, NEW k \in Slots, NEW B \in SUBSET (A \cup {k})
               PROVE  Cardinality(B) <= Cardinality(A) + 1
    OBVIOUS
  <2>1. Cardinality(A \cup {k}) <= Cardinality(A) + 1
    BY <1>1, FS_AddElement
  <2>2. Cardinality(B) <= Cardinality(A \cup {k})
    BY <1>2
  <2>3. Cardinality(A) \in Nat /\ Cardinality(B) \in Nat /\ Cardinality(A \cup {k}) \in Nat
    BY <1>1
  <2> QED
    BY <2>1, <2>2, <2>3
<1> QED
  BY <1>1, <1>2, <1>3, <1>4

-----------------------------------------------------------------------------
(* Types, and the bound on what is sent: a kill that is under way signals   *)
(* at most once.                                                           *)

CountInv ==
    /\ requests \in 0..MaxRequests /\ asked \in SUBSET Ports
    /\ born \in [1..MaxBirths -> Apps \cup {NoApp}]
    /\ killed \in SUBSET [n : 1..MaxRequests, birth : 1..MaxBirths, as : Commands \cup {NoApp}]
    /\ IsFiniteSet(killed) /\ \A t \in killed : t.n <= Cardinality(killed)
    /\ Cardinality(killed) + Cardinality(Aiming) <= requests

(***************************************************************************)
(* A SIGTERM that is delivered is one more.                                *)
(***************************************************************************)
LEMMA SentIsNew ==
    ASSUME BaseInv, CountInv, NEW k \in Slots, Terminates(k)
    PROVE  /\ Sent(k) \in [n : 1..MaxRequests, birth : 1..MaxBirths, as : Commands \cup {NoApp}]
           /\ Sent(k).n = Cardinality(killed) + 1 /\ Sent(k).as = snap[k]
           /\ Sent(k).birth = os[tpid[k]].birth /\ Sent(k) \notin killed
           /\ IsFiniteSet(killed') /\ Cardinality(killed') = Cardinality(killed) + 1
<1>0. /\ Cardinality(killed) \in Nat /\ MaxRequests \in Nat /\ requests \in 0..MaxRequests
      /\ IsFiniteSet(killed)
  BY FS_CardinalityType, DashboardConstants DEF CountInv
<1>1. Cardinality(Aiming) \in Nat /\ Cardinality(Aiming) # 0
  <2>1. Aiming \in SUBSET Slots /\ Aiming # {}
    BY DEF Aiming, Terminates
  <2>2. IsFiniteSet(Aiming) /\ Cardinality(Aiming) \in Nat
    BY <2>1, SlotSets
  <2> QED
    BY <2>1, <2>2, FS_EmptySet
<1>2. Cardinality(killed) + 1 \in 1..MaxRequests
  <2>1. Cardinality(killed) + Cardinality(Aiming) <= requests
    BY DEF CountInv
  <2> QED
    BY <1>0, <1>1, <2>1
<1>3. os[tpid[k]].birth \in 1..MaxBirths
  <2>1. Exists(tpid[k]) /\ tpid[k] \in Pids \ {SelfPid}
    BY DEF Terminates, BaseInv, HandlerInv, Step, AtTarget, Deliverable, Ours
  <2>2. os[tpid[k]] \in Process
    BY <2>1, TypeParts DEF BaseInv, WorldType, Table, Exists
  <2>3. os[tpid[k]].birth \in 0..MaxBirths /\ os[tpid[k]].birth # 0 /\ MaxBirths \in Nat
    BY <2>1, <2>2, ProcessConstants DEF Process, BaseInv, ProgramInv
  <2> QED
    BY <2>3
<1>4. snap[k] \in Commands \cup {NoApp}
  BY DEF BaseInv, HandlerInv, HandlerTypes
<1>5. Sent(k).n = Cardinality(killed) + 1 /\ Sent(k).as = snap[k] /\ Sent(k).birth = os[tpid[k]].birth
      /\ Sent(k) \in [n : 1..MaxRequests, birth : 1..MaxBirths, as : Commands \cup {NoApp}]
  BY <1>2, <1>3, <1>4 DEF Sent
<1>6. Sent(k) \notin killed
  <2>1. \A t \in killed : t.n <= Cardinality(killed)
    BY DEF CountInv
  <2> QED
    BY <1>0, <1>5, <2>1
<1>7. IsFiniteSet(killed \cup {Sent(k)}) /\ Cardinality(killed \cup {Sent(k)}) = Cardinality(killed) + 1
  BY <1>0, <1>6, FS_AddElement
<1> QED
  BY <1>5, <1>6, <1>7 DEF Terminates

\* A SIGTERM moves a kill from those under way to those counted.
LEMMA CountInductive ==
    ASSUME BaseInv, BaseInv', CountInv, [DashNext]_dashVars
    PROVE  CountInv'
<1>0. /\ MaxRequests \in Nat /\ requests \in 0..MaxRequests /\ Cardinality(killed) \in Nat
      /\ Aiming \in SUBSET Slots /\ Aiming' \in SUBSET Slots
      /\ Cardinality(Aiming) \in Nat /\ Cardinality(Aiming') \in Nat
      /\ Cardinality(killed) + Cardinality(Aiming) <= requests
  <2>1. Aiming \in SUBSET Slots /\ Aiming' \in SUBSET Slots
    BY DEF Aiming
  <2> QED
    BY <2>1, SlotSets, FS_CardinalityType, DashboardConstants DEF CountInv
<1>1. asked' \in SUBSET Ports
  <2>1. ASSUME NEW k \in Slots, NEW r \in Requests, Request(k, r)  PROVE asked' \in SUBSET Ports
    BY <2>1, RequestShape DEF Request, CountInv
  <2>2. CASE UNCHANGED asked
    BY <2>2 DEF CountInv
  <2> QED
    BY <2>1, <2>2 DEF DashNext, BadRequest, Handle, Resolve, InspectTarget, CallKill, KillReturns, RememberKilled,
       SetLabel, Restart, Spawning, RestartReturns, Killing, Elsewhere, Beside, Exits, dashVars
<1>2. born' \in [1..MaxBirths -> Apps \cup {NoApp}]
  <2>1. CASE UNCHANGED born
    BY <2>1 DEF CountInv
  <2>2. CASE Record
    <3>1. ASSUME NEW b \in 1..MaxBirths, \E p \in Pids : os'[p] # NoProcess /\ os'[p].birth = b
          PROVE  (CHOOSE x \in {os'[p] : p \in Pids} : x # NoProcess /\ x.birth = b).app \in Apps
      <4>1. \E x \in {os'[p] : p \in Pids} : x # NoProcess /\ x.birth = b
        BY <3>1
      <4>2. PICK p \in Pids : /\ os'[p] # NoProcess /\ os'[p].birth = b
                              /\ os'[p] = CHOOSE x \in {os'[q] : q \in Pids} : x # NoProcess /\ x.birth = b
        BY <4>1
      <4>3. b # 0
        OBVIOUS
      <4> QED
        BY <4>2, <4>3 DEF BaseInv, ProgramInv, Exists
    <3> QED
      BY <2>2, <3>1 DEF Record, CountInv
  <2> QED
    BY <2>1, <2>2 DEF DashNext, dashVars
<1>3. /\ requests' \in 0..MaxRequests
      /\ killed' \in SUBSET [n : 1..MaxRequests, birth : 1..MaxBirths, as : Commands \cup {NoApp}]
      /\ IsFiniteSet(killed') /\ \A t \in killed' : t.n <= Cardinality(killed')
      /\ Cardinality(killed') + Cardinality(Aiming') <= requests'
  <2>1. CASE /\ UNCHANGED killed /\ requests' \in 0..MaxRequests
             /\ Cardinality(Aiming') - Cardinality(Aiming) <= requests' - requests
    <3>1. Cardinality(killed) + Cardinality(Aiming') <= requests'
      BY <1>0, <2>1
    <3> QED
      BY <2>1, <3>1 DEF CountInv
  <2>2. CASE Counts
    <3>1. Cardinality(Aiming') <= Cardinality(Aiming)
      BY <1>0, <2>2, SlotSets DEF Counts
    <3> QED
      BY <1>0, <2>1, <2>2, <3>1 DEF Counts
  <2>3. ASSUME NEW k \in Slots, Comes(k)  PROVE <1>3!:
    <3>1. Cardinality(Aiming') <= Cardinality(Aiming) + 1
      BY <1>0, <2>3, SlotSets DEF Comes
    <3> QED
      BY <1>0, <2>1, <2>3, <3>1 DEF Comes
  <2>4. ASSUME NEW k \in Slots, Joins(k)  PROVE <1>3!:
    <3>1. Cardinality(Aiming') <= Cardinality(Aiming)
      BY <1>0, <2>4, SlotSets DEF Joins
    <3> QED
      BY <1>0, <2>1, <2>4, <3>1 DEF Joins
  <2>5. ASSUME NEW k \in Slots, Terminates(k)  PROVE <1>3!:
    <3>1. Cardinality(Aiming') + 1 <= Cardinality(Aiming)
      BY <1>0, <2>5, SlotSets DEF Terminates
    <3>2. requests' = requests /\ killed' = killed \cup {Sent(k)}
      BY <2>5 DEF Terminates
    <3>3. /\ Sent(k) \in [n : 1..MaxRequests, birth : 1..MaxBirths, as : Commands \cup {NoApp}]
          /\ Sent(k).n = Cardinality(killed) + 1
          /\ IsFiniteSet(killed') /\ Cardinality(killed') = Cardinality(killed) + 1
      BY <2>5, SentIsNew
    <3>4. Cardinality(killed') + Cardinality(Aiming') <= requests'
      BY <1>0, <3>1, <3>2, <3>3
    <3>5. \A t \in killed : t.n \in Nat /\ t.n <= Cardinality(killed)
      BY DEF CountInv
    <3>6. \A t \in killed' : t.n <= Cardinality(killed')
      BY <1>0, <3>2, <3>3, <3>5
    <3> QED
      BY <1>0, <3>2, <3>3, <3>4, <3>6 DEF CountInv
  <2> QED
    BY <2>2, <2>3, <2>4, <2>5, StepKinds
<1> QED
  BY <1>1, <1>2, <1>3 DEF CountInv

\* So there are no more SIGTERMs than there were requests.
LEMMA CountInvariant == DashSpec => []CountInv
<1>1. DashInit => CountInv
  <2> SUFFICES ASSUME DashInit PROVE CountInv
    OBVIOUS
  <2>1. Aiming = {} /\ killed = {}
    BY DEF DashInit, Aiming
  <2>2. Cardinality(Aiming) = 0 /\ Cardinality(killed) = 0 /\ IsFiniteSet(killed)
    BY <2>1, FS_EmptySet
  <2> QED
    BY <2>1, <2>2, DashboardConstants DEF DashInit, CountInv
<1> QED
  BY <1>1, CountInductive, BaseInductive, BaseInvariant, PTL DEF DashSpec

(***************************************************************************)
(* Type correctness of requests, handlers, histories and the store: what   *)
(* is sent is numbered by requests.                                        *)
(***************************************************************************)
THEOREM DashTypeCorrect == DashSpec => []DashTypeOK
<1>1. BaseInv /\ CountInv => DashTypeOK
  BY DEF BaseInv, TypeInv, HandlerInv, HandlerTypes, StoreInv, RoomInv, Tidy, CountInv, DashTypeOK
<1> QED
  BY <1>1, BaseInvariant, CountInvariant, PTL

-----------------------------------------------------------------------------
(* When no pid is handed out twice, a pid names one program for ever: what  *)
(* was resolved, inspected, verified and signalled at different moments is  *)
(* the same.                                                                *)

PlaceInv == \A p \in Pids : Exists(p) => os[p].birth = p - SelfPid

\* A pid that is never handed out twice tells the birth of its process.
LEMMA PlaceInductive ==
    ASSUME ~PidsAreReused, TypeInv, PlaceInv, [Next]_pmVars
    PROVE  PlaceInv'
<1>1. births \in Nat /\ SelfPid \in Nat /\ Pids \subseteq Nat
  BY ProcessConstants, TypeParts DEF WorldType
<1> SUFFICES ASSUME NEW p \in Pids, os'[p] # NoProcess PROVE os'[p].birth = p - SelfPid
  BY DEF PlaceInv, Exists
<1>2. \/ Exists(p) /\ os'[p].birth = os[p].birth
      \/ os'[p].birth = births + 1 /\ p = SelfPid + births + 1
  BY TableEvolves DEF Evolves
<1>3. p - SelfPid = births + 1 <=> p = SelfPid + births + 1
  BY <1>1
<1> QED
  BY <1>2, <1>3 DEF PlaceInv

(***************************************************************************)
(* The history of births names the program of every process.               *)
(***************************************************************************)
BornInv ==
    /\ \A p \in Pids : Exists(p) /\ p # SelfPid => born[p - SelfPid] = os[p].app
    /\ \A b \in 1..MaxBirths : born[b] # NoApp => b <= births

BornStays == \A b \in 1..MaxBirths : born[b] # NoApp => born'[b] = born[b]

\* A birth belongs to one program for ever.
LEMMA BornInductive ==
    ASSUME BaseInv, BaseInv', CountInv, PlaceInv, PlaceInv', BornInv, [DashNext]_dashVars
    PROVE  BornInv' /\ BornStays
<1> USE TypeParts
<1>0. /\ births \in Nat /\ births' \in Nat /\ SelfPid \in Nat /\ Pids \subseteq Nat /\ MaxBirths \in Nat
      /\ [Next]_pmVars
  BY ProcessConstants, BaseInductive DEF BaseInv, WorldType
<1>1. CASE UNCHANGED dashVars
  BY <1>1 DEF dashVars, pmVars, osVars, BornInv, BornStays, Exists
<1>2. CASE Record
  <2>1. \A p \in Pids, b \in 1..MaxBirths :
          os'[p] # NoProcess /\ os'[p].birth = b => p - SelfPid = b
    BY DEF PlaceInv, Exists
  <2>2. ASSUME NEW p \in Pids, NEW b \in 1..MaxBirths, os'[p] # NoProcess, os'[p].birth = b
        PROVE  born'[b] = os'[p].app
    <3>1. \A q \in Pids : os'[q] # NoProcess /\ os'[q].birth = b => q = p
      <4> SUFFICES ASSUME NEW q \in Pids, os'[q] # NoProcess, os'[q].birth = b PROVE q = p
        OBVIOUS
      <4>1. q - SelfPid = b /\ p - SelfPid = b /\ p \in Nat /\ q \in Nat
        BY <1>0, <2>1, <2>2
      <4> QED
        BY <1>0, <4>1
    <3>2. (CHOOSE x \in {os'[q] : q \in Pids} : x # NoProcess /\ x.birth = b) = os'[p]
      BY <2>2, <3>1
    <3> QED
      BY <1>2, <2>2, <3>2 DEF Record
  <2>3. \A b \in 1..MaxBirths :
          (\A p \in Pids : ~(os'[p] # NoProcess /\ os'[p].birth = b)) => born'[b] = born[b]
    BY <1>2 DEF Record
  <2>4. ASSUME NEW p \in Pids, Exists(p)', p # SelfPid  PROVE born'[p - SelfPid] = os'[p].app
    <3>1. os'[p] # NoProcess /\ os'[p] \in Process
      BY <2>4 DEF Exists, BaseInv, WorldType, Table
    <3>2. os'[p].birth = p - SelfPid /\ os'[p].birth \in 0..MaxBirths /\ os'[p].birth # 0
      BY <2>4, <3>1 DEF PlaceInv, BaseInv, ProgramInv, Process
    <3>3. p - SelfPid \in 1..MaxBirths
      BY <1>0, <3>2
    <3> QED
      BY <2>2, <3>1, <3>2, <3>3
  <2>5. ASSUME NEW b \in 1..MaxBirths, born'[b] # NoApp  PROVE b <= births'
    <3>1. CASE \E p \in Pids : os'[p] # NoProcess /\ os'[p].birth = b
      BY <3>1 DEF BaseInv, ScanInv, Exists
    <3>2. CASE born'[b] = born[b]
      <4>1. CASE \E p \in Pids : TRUE
        <5>1. b <= births /\ births <= births'
          BY <1>0, <2>5, <3>2, <4>1, TableEvolves DEF BaseInv, BornInv
        <5> QED
          BY <1>0, <5>1
      <4> QED
        BY <4>1, ProcessConstants
    <3> QED
      BY <2>3, <3>1, <3>2
  <2>6. ASSUME NEW b \in 1..MaxBirths, born[b] # NoApp  PROVE born'[b] = born[b]
    <3>1. ASSUME NEW p \in Pids, os'[p] # NoProcess, os'[p].birth = b  PROVE born'[b] = born[b]
      <4>1. b <= births /\ p - SelfPid = b /\ p # SelfPid
        BY <1>0, <2>1, <2>6, <3>1 DEF BornInv
      <4>2. Exists(p) /\ os'[p].app = os[p].app
        <5>1. Evolves(p)
          BY <1>0, TableEvolves DEF BaseInv
        <5> QED
          BY <1>0, <3>1, <4>1, <5>1 DEF Evolves
      <4>3. born[b] = os[p].app
        BY <4>1, <4>2 DEF BornInv
      <4> QED
        BY <2>2, <3>1, <4>2, <4>3
    <3> QED
      BY <2>3, <3>1
  <2> QED
    BY <2>4, <2>5, <2>6 DEF BornInv, BornStays
<1> QED
  BY <1>1, <1>2 DEF DashNext

(***************************************************************************)
(* A process that is there has a place in the history of births.           *)
(***************************************************************************)
LEMMA PlaceOf ==
    ASSUME BaseInv, PlaceInv, BornInv, NEW p \in Pids, Exists(p), p # SelfPid
    PROVE  /\ os[p].birth = p - SelfPid /\ p - SelfPid \in 1..MaxBirths
           /\ born[p - SelfPid] = os[p].app /\ os[p].app \in Apps
<1>1. os[p] \in Process
  BY TypeParts DEF BaseInv, WorldType, Table, Exists
<1>2. os[p].birth \in 0..MaxBirths /\ os[p].birth # 0 /\ os[p].birth = p - SelfPid
  BY <1>1 DEF Process, BaseInv, ProgramInv, PlaceInv
<1> QED
  BY <1>2, ProcessConstants DEF BornInv, BaseInv, ProgramInv

(***************************************************************************)
(* Everything a request leads to is about a port that was asked for: the   *)
(* pid it resolved and what it inspected there, the escalations, the       *)
(* signals and the store.                                                  *)
(***************************************************************************)
AskedBirth(b) == b \in 1..MaxBirths /\ born[b] \in Apps /\ PortOf[born[b]] \in asked

AskedPid(p) == p \in Pids /\ AskedBirth(p - SelfPid)

AskedKey(a) == a \in Commands => \E x \in Apps : a \in Readings(x) /\ PortOf[x] \in asked

Aim(k) ==
    /\ hpc[k] \in {"resolve"} \cup AtTarget => req[k].port \in asked
    /\ hpc[k] = "resolve" => snap[k] = NoApp
    /\ hpc[k] \in AtTarget => /\ AskedPid(tpid[k])
                              /\ snap[k] \in {NoApp} \cup Readings(born[tpid[k] - SelfPid])

AskedStore == /\ \A e \in Remembers : AskedKey(e.key)
              /\ \A l \in view.labels \cup saved.labels : AskedKey(l.key)

AimInv ==
    /\ \A k \in Slots : Aim(k)
    /\ \A k \in Slots : epc[k] # "none" => AskedPid(epid[k])
    /\ \A s \in sigs : AskedBirth(s.birth)
    /\ AskedStore

(***************************************************************************)
(* What was asked for stays asked for.                                     *)
(***************************************************************************)
AskedGrows == BornStays /\ asked \subseteq asked'

\* In these terms, for births, pids and keys.
LEMMA AskedFrame ==
    ASSUME AskedGrows
    PROVE  /\ \A b : AskedBirth(b) => AskedBirth(b)' /\ born'[b] = born[b]
           /\ \A p : AskedPid(p) => AskedPid(p)' /\ born'[p - SelfPid] = born[p - SelfPid]
           /\ \A a : AskedKey(a) => AskedKey(a)'
<1>1. NoApp \notin Apps
  BY DashboardConstants
<1>2. \A b : AskedBirth(b) => AskedBirth(b)' /\ born'[b] = born[b]
  BY <1>1 DEF AskedGrows, BornStays, AskedBirth
<1> QED
  BY <1>2 DEF AskedPid, AskedKey, AskedGrows, Readings, Commands

\* A handler that keeps its target, or drops it, keeps its aim.
LEMMA AimFrame ==
    ASSUME AskedGrows, NEW k \in Slots, Aim(k),
           hpc'[k] \in AtTarget => hpc[k] \in AtTarget,
           hpc'[k] = "resolve" => hpc[k] = "resolve",
           hpc'[k] \in {"resolve"} \cup AtTarget =>
             req'[k] = req[k] /\ tpid'[k] = tpid[k] /\ snap'[k] = snap[k]
    PROVE  Aim(k)'
<1>1. CASE hpc'[k] = "resolve"
  BY <1>1 DEF Aim, AtTarget, AskedGrows
<1>2. CASE hpc'[k] \in AtTarget
  <2>1. hpc[k] \in AtTarget /\ AskedPid(tpid[k]) /\ req[k].port \in asked
        /\ snap[k] \in {NoApp} \cup Readings(born[tpid[k] - SelfPid])
    BY <1>2 DEF Aim
  <2>2. AskedPid(tpid[k])' /\ born'[tpid[k] - SelfPid] = born[tpid[k] - SelfPid]
    BY <1>2, <2>1, AskedFrame DEF AskedPid
  <2>3. tpid'[k] = tpid[k] /\ snap'[k] = snap[k] /\ req'[k].port \in asked'
    BY <1>2, <2>1 DEF AskedGrows
  <2> QED
    BY <2>1, <2>2, <2>3 DEF Aim
<1> QED
  BY <1>1, <1>2 DEF Aim

(***************************************************************************)
(* A handler's own steps keep its aim.                                     *)
(***************************************************************************)
LEMMA AimInductive ==
    ASSUME BaseInv, PlaceInv, BornInv, BornStays, \A k \in Slots : Aim(k), [DashNext]_dashVars
    PROVE  AskedGrows /\ \A k \in Slots : Aim(k)'
<1> USE TypeParts DEF BaseInv
<1>0. AskedGrows
  <2>1. ASSUME NEW k \in Slots, NEW r \in Requests, Request(k, r)  PROVE asked \subseteq asked'
    BY <2>1 DEF Request
  <2>2. ASSUME NEW k \in Slots, BadRequest(k) \/ Handle(k)  PROVE asked' = asked
    BY <2>2 DEF BadRequest, Handle, Resolve, InspectTarget, CallKill, KillReturns, RememberKilled, SetLabel,
       Restart, Spawning, RestartReturns
  <2>3. ASSUME NEW k \in Slots, Killing(k)  PROVE asked' = asked
    BY <2>3 DEF Killing
  <2>4. CASE Elsewhere \/ Exits
    BY <2>4 DEF AskedGrows, Elsewhere, Beside, Exits
  <2>5. CASE UNCHANGED dashVars
    BY <2>5 DEF AskedGrows, dashVars
  <2> QED
    BY <2>1, <2>2, <2>3, <2>4, <2>5 DEF AskedGrows, DashNext
<1>1. CASE UNCHANGED handlerVars
  BY <1>0, <1>1, AimFrame DEF handlerVars
<1>2. CASE Exits
  BY <1>0, <1>2 DEF Exits, Aim, AtTarget
<1> SUFFICES ASSUME NEW k \in Slots,
                    BadRequest(k) \/ (\E r \in Requests : Request(k, r)) \/ Handle(k)
             PROVE  \A j \in Slots : Aim(j)'
  BY <1>0, <1>1, <1>2 DEF DashNext, Elsewhere, Beside, Killing, dashVars
<1>10. RememberKilled(k) \/ SetLabel(k) => hpc' = [hpc EXCEPT ![k] = "idle"] /\ UNCHANGED <<req, tpid, snap>>
  BY StoreAnswers
<1>3. ASSUME NEW j \in Slots \ {k}  PROVE Aim(j)'
  <2>1. hpc'[j] = hpc[j] /\ req'[j] = req[j] /\ tpid'[j] = tpid[j] /\ snap'[j] = snap[j]
    <3>1. CASE RememberKilled(k) \/ SetLabel(k)
      BY <1>10, <3>1 DEF HandlerInv, HandlerTypes
    <3>2. CASE ~(RememberKilled(k) \/ SetLabel(k))
      BY <3>2 DEF BadRequest, Request, Handle, Resolve, InspectTarget, CallKill, KillReturns,
           Restart, Spawning, RestartReturns, Reply, HGoto, HandlerInv, HandlerTypes
    <3> QED
      BY <3>1, <3>2
  <2> QED
    BY <1>0, <2>1, AimFrame
<1> SUFFICES Aim(k)'
  BY <1>3
<1>4. CASE hpc'[k] \notin {"resolve"} \cup AtTarget
  BY <1>4 DEF Aim
<1>5. ASSUME NEW r \in Requests, Request(k, r)  PROVE Aim(k)'
  <2>1. req'[k] = r /\ snap'[k] = NoApp /\ asked' = (IF r.op = "restart" THEN asked ELSE asked \cup {r.port})
        /\ hpc'[k] = IF r.op = "restart" THEN "restart" ELSE "resolve"
    BY <1>5 DEF Request, HGoto, HandlerInv, HandlerTypes
  <2> QED
    BY <2>1 DEF Aim, AtTarget
<1>6. CASE Resolve(k) /\ hpc'[k] = "inspect"
  <2>0. PICK p : p = ListedFirst(resolvePIDForPort(req[k].port))
    OBVIOUS
  <2> DEFINE on == resolvePIDForPort(req[k].port)
  <2>1. on # {} /\ tpid'[k] = p /\ UNCHANGED <<req, snap, asked>> /\ hpc[k] = "resolve"
    BY <1>6, <2>0 DEF Resolve, Reply, HGoto, HandlerInv, HandlerTypes
  <2>2. p \in on
    BY <2>0, <2>1, FirstIsListed
  <2>3. p \in Pids /\ p # SelfPid /\ Exists(p) /\ PortOf[os[p].app] = req[k].port
    BY <2>2 DEF resolvePIDForPort, Listed, Live
  <2>4. AskedPid(p)
    BY <2>1, <2>3, PlaceOf DEF AskedPid, AskedBirth, Aim
  <2>5. AskedPid(p)'
    BY <1>0, <2>4, AskedFrame
  <2>6. snap[k] = NoApp
    BY <2>1 DEF Aim
  <2> QED
    BY <1>6, <2>1, <2>5, <2>6 DEF Aim, AskedGrows
<1>7. CASE InspectTarget(k) /\ hpc'[k] \in AtTarget
  <2>1. PICK a \in Inspect(tpid[k]) : snap' = [snap EXCEPT ![k] = a]
    BY <1>7 DEF InspectTarget
  <2>2. hpc[k] = "inspect" /\ UNCHANGED <<req, tpid, asked>>
    BY <1>7 DEF InspectTarget
  <2>3. tpid[k] \in Pids /\ tpid[k] # SelfPid /\ AskedPid(tpid[k]) /\ req[k].port \in asked
    BY <2>2 DEF HandlerInv, Step, Aim, AtTarget
  <2>4. a \in {NoApp} \cup Readings(born[tpid[k] - SelfPid])
    BY <2>1, <2>3, PlaceOf DEF Inspect, Live
  <2>5. AskedPid(tpid[k])' /\ born'[tpid[k] - SelfPid] = born[tpid[k] - SelfPid]
    BY <1>0, <2>2, <2>3, AskedFrame DEF AskedPid
  <2>6. snap'[k] = a
    BY <2>1 DEF HandlerInv, HandlerTypes
  <2> QED
    BY <1>7, <2>2, <2>3, <2>4, <2>5, <2>6 DEF Aim, AskedGrows, AtTarget
<1>8. CASE CallKill(k) \/ KillReturns(k)
  <2>1. hpc[k] \in AtTarget /\ hpc'[k] \in AtTarget \cup {"idle"} /\ UNCHANGED <<req, tpid, snap>>
    BY <1>8 DEF CallKill, KillReturns, Reply, HGoto, HandlerInv, HandlerTypes, AtTarget
  <2> QED
    BY <1>0, <2>1, AimFrame DEF AtTarget
<1>9. hpc'[k] \in {"resolve"} \cup AtTarget =>
        \/ \E r \in Requests : Request(k, r)
        \/ Resolve(k) /\ hpc'[k] = "inspect"
        \/ InspectTarget(k) /\ hpc'[k] \in AtTarget
        \/ CallKill(k) \/ KillReturns(k)
        \/ Spawning(k) /\ UNCHANGED handlerVars
  <2>1. CASE RememberKilled(k) \/ SetLabel(k)
    BY <1>10, <2>1 DEF HandlerInv, HandlerTypes, AtTarget
  <2>2. CASE ~(RememberKilled(k) \/ SetLabel(k))
    BY <2>2 DEF BadRequest, Handle, Resolve, InspectTarget, Restart, Spawning, RestartReturns, Reply, HGoto,
         HandlerInv, HandlerTypes, AtTarget, handlerVars
  <2> QED
    BY <2>1, <2>2
<1> QED
  BY <1>1, <1>4, <1>5, <1>6, <1>7, <1>8, <1>9

(***************************************************************************)
(* A signal that is delivered goes to what was asked for.                  *)
(***************************************************************************)
LEMMA AskedSignal ==
    ASSUME BaseInv, PlaceInv, BornInv, AskedGrows, \A s \in sigs : AskedBirth(s.birth),
           NEW p \in Pids, p # SelfPid, AskedPid(p), Deliverable(p), NEW sig, Deliver(sig, p)
    PROVE  \A s \in sigs' : AskedBirth(s.birth)'
<1>1. os[p].birth = p - SelfPid
  BY PlaceOf DEF Deliverable, Ours
<1>2. AskedBirth(os[p].birth)
  BY <1>1 DEF AskedPid
<1>3. \A s \in sigs' : AskedBirth(s.birth)
  BY <1>2 DEF Deliver
<1> QED
  BY <1>3, AskedFrame

(***************************************************************************)
(* No step signals, remembers or labels anything else.                     *)
(***************************************************************************)
LEMMA AskedInductive ==
    ASSUME BaseInv, PlaceInv, BornInv, BornStays, AimInv, [DashNext]_dashVars
    PROVE  AimInv'
<1> USE TypeParts
<1>0. AskedGrows /\ \A k \in Slots : Aim(k)'
  BY AimInductive DEF AimInv
<1>1. ASSUME NEW k \in Slots, hpc[k] \in AtTarget
      PROVE  AskedPid(tpid[k]) /\ AskedKey(snap[k])
  <2>1. AskedPid(tpid[k]) /\ snap[k] \in {NoApp} \cup Readings(born[tpid[k] - SelfPid])
    BY <1>1 DEF AimInv, Aim
  <2>2. NoApp \notin Commands
    BY DashboardConstants DEF Commands
  <2> QED
    BY <2>1, <2>2 DEF AskedPid, AskedBirth, AskedKey
<1>2. AskedStore'
  <2>1. CASE UNCHANGED storeVars
    <3>1. UNCHANGED <<view, saved>>
      BY <2>1 DEF storeVars
    <3> QED
      BY <1>0, <3>1, AskedFrame DEF AimInv, AskedStore, Remembers
  <2>2. ASSUME NEW k \in Slots, RememberKilled(k)  PROVE AskedStore'
    <3>1. AskedKey(snap[k])
      BY <1>1, <2>2 DEF RememberKilled, Reply, HGoto, AtTarget
    <3>2. (\E n \in EntryBytes : Joined(view', view, snap[k], n)) /\ (saved' = view' \/ UNCHANGED saved)
      BY <2>2, StoreSteps DEF BaseInv
    <3>3. /\ \A e \in view'.remembered \cup saved'.remembered : AskedKey(e.key)
          /\ \A l \in view'.labels \cup saved'.labels : AskedKey(l.key)
      BY <3>1, <3>2 DEF Joined, AimInv, AskedStore, Remembers
    <3> QED
      BY <1>0, <3>3, AskedFrame DEF AskedStore, Remembers
  <2>3. ASSUME NEW k \in Slots, SetLabel(k)  PROVE AskedStore'
    <3>1. AskedKey(snap[k])
      BY <1>1, <2>3 DEF SetLabel, Reply, HGoto, AtTarget
    <3>2. (\E n \in Nat : Labelled(view', view, snap[k], n)) /\ (saved' = view' \/ UNCHANGED saved)
      BY <2>3, StoreSteps DEF BaseInv
    <3>3. /\ \A e \in view'.remembered \cup saved'.remembered : AskedKey(e.key)
          /\ \A l \in view'.labels \cup saved'.labels : AskedKey(l.key)
      BY <3>1, <3>2 DEF Labelled, AimInv, AskedStore, Remembers
    <3> QED
      BY <1>0, <3>3, AskedFrame DEF AskedStore, Remembers
  <2>4. CASE Exits
    <3>1. view' = S!Empty /\ saved' = saved
      BY <2>4 DEF Exits, S!Stop
    <3>2. /\ \A e \in view'.remembered \cup saved'.remembered : AskedKey(e.key)
          /\ \A l \in view'.labels \cup saved'.labels : AskedKey(l.key)
      BY <3>1, EmptyIsTidy DEF AimInv, AskedStore, Remembers
    <3> QED
      BY <1>0, <3>2, AskedFrame DEF AskedStore, Remembers
  <2> QED
    BY <2>1, <2>2, <2>3, <2>4 DEF DashNext, Handle, Elsewhere, Beside, BadRequest, Request, Resolve, InspectTarget,
       CallKill, KillReturns, Restart, Spawning, RestartReturns, Killing, dashVars
<1>3. (\A k \in Slots : epc[k] # "none" => AskedPid(epid[k]))' /\ (\A s \in sigs : AskedBirth(s.birth))'
  <2>1. CASE sigs' = sigs /\ epid' = epid /\ \A k \in Slots : epc'[k] # "none" => epc[k] # "none"
    BY <1>0, <2>1, AskedFrame DEF AimInv
  <2>2. ASSUME NEW k \in Slots, Killing(k)  PROVE <1>3!:
    <3>1. CASE verifyLive(k)
      BY <2>1, <3>1 DEF verifyLive, escVars
    <3>2. CASE SigTerm(k)
      <4>1. hpc[k] = "killing" /\ kpid[k] = tpid[k] /\ tpid[k] \in Pids \ {SelfPid}
        BY <3>2 DEF SigTerm, KillGoto, BaseInv, HandlerInv, Step, AtTarget
      <4>2. AskedPid(kpid[k])
        BY <1>1, <4>1 DEF AtTarget
      <4>3. CASE Deliverable(kpid[k])
        <5>1. \A s \in sigs' : AskedBirth(s.birth)'
          BY <1>0, <3>2, <4>1, <4>2, <4>3, AskedSignal DEF SigTerm, AimInv
        <5>2. \A j \in Slots : epc'[j] # "none" =>
                (epid'[j] = kpid[k] \/ (epc[j] # "none" /\ epid'[j] = epid[j]))
          BY <3>2, <4>3 DEF SigTerm, BaseInv, EscalateType
        <5>3. \A j \in Slots : epc'[j] # "none" => AskedPid(epid'[j])
          BY <4>2, <5>2 DEF AimInv
        <5>4. \A j \in Slots : epc'[j] # "none" => AskedPid(epid[j])'
          BY <1>0, <5>3, AskedFrame DEF AskedPid
        <5> QED
          BY <5>1, <5>4
      <4>4. CASE ~Deliverable(kpid[k])
        BY <2>1, <3>2, <4>4 DEF SigTerm, escVars
      <4> QED
        BY <4>3, <4>4
    <3> QED
      BY <2>2, <3>1, <3>2 DEF Killing, KillStep
  <2>3. ASSUME NEW k \in Slots, Wake(k)  PROVE <1>3!:
    BY <2>1, <2>3 DEF Wake, BaseInv, EscalateType, history
  <2>4. ASSUME NEW k \in Slots, SigKill(k)  PROVE <1>3!:
    <3>1. epid[k] \in Pids /\ epid[k] # SelfPid /\ AskedPid(epid[k])
      BY <2>4 DEF SigKill, BaseInv, SignalInv, Targets, Spared, AimInv
    <3>2. epid' = epid /\ \A j \in Slots : epc'[j] # "none" => epc[j] # "none"
      BY <2>4 DEF SigKill, BaseInv, EscalateType
    <3>3. CASE Deliverable(epid[k])
      <4>1. \A s \in sigs' : AskedBirth(s.birth)'
        BY <1>0, <2>4, <3>1, <3>3, AskedSignal DEF SigKill, AimInv
      <4> QED
        BY <1>0, <3>2, <4>1, AskedFrame DEF AimInv
    <3>4. CASE ~Deliverable(epid[k])
      BY <2>1, <2>4, <3>2, <3>4 DEF SigKill
    <3> QED
      BY <3>3, <3>4
  <2>5. CASE Exits
    BY <2>1, <2>5 DEF Exits, Shutdown, history
  <2>6. CASE UNCHANGED <<epc, epid, sigs>>
    BY <2>1, <2>6
  <2> QED
    <3>1. ASSUME NEW k \in Slots, BadRequest(k) \/ (\E r \in Requests : Request(k, r)) \/ Handle(k)
          PROVE  UNCHANGED <<epc, epid, sigs>>
      BY <3>1 DEF Handle, BadRequest, Request, Resolve, InspectTarget, CallKill, Kill, KillReturns, RememberKilled,
         SetLabel, StoreCall, Restart, SpawnDetached, Spawning, SpawnStep, OpenDevNullR, OpenDevNullW, StartFails,
         StartChild, RestartReturns, pmVars, escVars, history
    <3>2. CASE Elsewhere
      BY <2>3, <2>4, <2>6, <3>2 DEF Elsewhere, Beside, World, Start, Bind, Exit, Tick, Escalate, reap, escVars, history
    <3>3. CASE UNCHANGED dashVars
      BY <2>6, <3>3 DEF dashVars, pmVars, escVars, history
    <3> QED
      BY <2>2, <2>5, <2>6, <3>1, <3>2, <3>3 DEF DashNext
<1> QED
  BY <1>0, <1>2, <1>3 DEF AimInv

(***************************************************************************)
(* What an inspection had read of a process that got a SIGTERM is a        *)
(* reading of what it runs.                                                *)
(***************************************************************************)
ReadInv == \A t \in killed : born[t.birth] \in Apps /\ t.as \in {NoApp} \cup Readings(born[t.birth])

\* Nobody else is killed for it.
LEMMA ReadInductive ==
    ASSUME BaseInv, CountInv, PlaceInv, BornInv, BornStays, AimInv, ReadInv, [DashNext]_dashVars
    PROVE  ReadInv'
<1>0. NoApp \notin Apps /\ \A t \in killed : t.birth \in 1..MaxBirths
  BY DashboardConstants DEF CountInv
<1>1. \A t \in killed : born'[t.birth] \in Apps /\ t.as \in {NoApp} \cup Readings(born'[t.birth])
  <2> SUFFICES ASSUME NEW t \in killed PROVE born'[t.birth] = born[t.birth]
    BY DEF ReadInv
  <2> QED
    BY <1>0 DEF ReadInv, BornStays
<1>2. CASE UNCHANGED killed
  BY <1>1, <1>2 DEF ReadInv, Readings
<1>3. ASSUME NEW k \in Slots, Terminates(k)  PROVE ReadInv'
  <2>1. tpid[k] \in Pids \ {SelfPid} /\ Exists(tpid[k]) /\ hpc[k] \in AtTarget
    BY <1>3 DEF Terminates, BaseInv, HandlerInv, Step, AtTarget, Deliverable, Ours
  <2>2. /\ os[tpid[k]].birth = tpid[k] - SelfPid /\ tpid[k] - SelfPid \in 1..MaxBirths
        /\ born[tpid[k] - SelfPid] \in Apps
    BY <2>1, PlaceOf
  <2>3. snap[k] \in {NoApp} \cup Readings(born[tpid[k] - SelfPid])
    BY <2>1 DEF AimInv, Aim
  <2>4. born'[tpid[k] - SelfPid] = born[tpid[k] - SelfPid]
    BY <1>0, <2>2 DEF BornStays
  <2>5. Sent(k).birth = tpid[k] - SelfPid /\ Sent(k).as = snap[k] /\ killed' = killed \cup {Sent(k)}
    BY <1>3, <2>2, SentIsNew DEF Terminates
  <2>6. born'[Sent(k).birth] \in Apps /\ Sent(k).as \in {NoApp} \cup Readings(born'[Sent(k).birth])
    BY <2>2, <2>3, <2>4, <2>5
  <2> QED
    BY <1>1, <2>5, <2>6 DEF ReadInv, Readings
<1> QED
  BY <1>2, <1>3, StepKinds DEF Counts, Comes, Joins

NoReuseInv == PlaceInv /\ BornInv /\ AimInv /\ ReadInv

\* Without reuse of pids, a handler aims at what it asked about throughout.
LEMMA NoReuseInvariant == ASSUME ~PidsAreReused PROVE DashSpec => []NoReuseInv
<1>1. DashInit => NoReuseInv
  <2> SUFFICES ASSUME DashInit PROVE NoReuseInv
    OBVIOUS
  <2>1. Init
    BY DEF DashInit
  <2>2. PlaceInv /\ BornInv
    BY <2>1, ProcessConstants DEF DashInit, Init, PlaceInv, BornInv, Exists
  <2>3. \A k \in Slots : Aim(k)
    BY DEF DashInit, Aim, AtTarget
  <2>4. AskedStore /\ ReadInv
    BY EmptyIsTidy DEF DashInit, S!AbsInit, AskedStore, Remembers, ReadInv
  <2> QED
    BY <2>1, <2>2, <2>3, <2>4 DEF Init, NoReuseInv, AimInv
<1>2. BaseInv /\ BaseInv' /\ CountInv /\ NoReuseInv /\ [DashNext]_dashVars => NoReuseInv'
  <2> SUFFICES ASSUME BaseInv, BaseInv', CountInv, NoReuseInv, [DashNext]_dashVars PROVE NoReuseInv'
    OBVIOUS
  <2>1. PlaceInv'
    BY BaseInductive, PlaceInductive DEF BaseInv, NoReuseInv
  <2>2. BornInv' /\ BornStays
    BY <2>1, BornInductive DEF NoReuseInv
  <2> QED
    BY <2>1, <2>2, AskedInductive, ReadInductive DEF NoReuseInv
<1> QED
  BY <1>1, <1>2, BaseInvariant, CountInvariant, PTL DEF DashSpec

(***************************************************************************)
(* While pids are not reused, whatever is signalled listens on a port that *)
(* a request named, and whatever is remembered or labelled was read from   *)
(* something that does.                                                    *)
(***************************************************************************)
THEOREM PortsWereAsked == ASSUME ~PidsAreReused PROVE DashSpec => []ActsOnAskedPorts
<1>1. NoReuseInv => ActsOnAskedPorts
  <2> SUFFICES ASSUME NoReuseInv PROVE ActsOnAskedPorts
    OBVIOUS
  <2>1. \A s \in sigs : born[s.birth] \in Apps /\ PortOf[born[s.birth]] \in asked
    BY DEF NoReuseInv, AimInv, AskedBirth
  <2>2. \A a \in Commands :
         (Entries(a) # {} \/ \E l \in view.labels \cup saved.labels : l.key = a) => AskedKey(a)
    BY DEF NoReuseInv, AimInv, AskedStore, Entries, Remembers
  <2> QED
    BY <2>1, <2>2 DEF ActsOnAskedPorts, AskedKey
<1> QED
  BY <1>1, NoReuseInvariant, PTL

-----------------------------------------------------------------------------
(* The books balance: every entry was paid for by a SIGTERM.                *)

(***************************************************************************)
(* A command's entries, and the kills that are about to add one, are at    *)
(* most as many as the SIGTERMs sent after it was read; so are all         *)
(* together.                                                               *)
(***************************************************************************)
SentAs(a) == {t \in killed : t.as = a}

Owed(a) == {k \in Owing : snap[k] = a}

BookInv ==
    /\ \A a \in Commands : Cardinality(Entries(a)) + Cardinality(Owed(a)) <= Cardinality(SentAs(a))
    /\ Cardinality(view.remembered) + Cardinality(Owing) <= Cardinality(killed)

SentGrow == /\ \A a : SentAs(a) \subseteq SentAs(a)'
            /\ Cardinality(killed) <= Cardinality(killed')

(***************************************************************************)
(* SIGTERMs that were sent are finitely many.                              *)
(***************************************************************************)
LEMMA SentIsFinite ==
    ASSUME CountInv
    PROVE  /\ IsFiniteSet(killed) /\ Cardinality(killed) \in Nat
           /\ \A a : IsFiniteSet(SentAs(a)) /\ Cardinality(SentAs(a)) \in Nat
<1>1. IsFiniteSet(killed)
  BY DEF CountInv
<1>2. \A a : IsFiniteSet(SentAs(a))
  BY <1>1, FS_Subset DEF SentAs
<1> QED
  BY <1>1, <1>2, FS_CardinalityType

(***************************************************************************)
(* What is counted is finite.                                              *)
(***************************************************************************)
LEMMA BooksAreFinite ==
    ASSUME StoreInv
    PROVE  /\ IsFiniteSet(view.remembered) /\ Cardinality(view.remembered) \in Nat
           /\ \A a : IsFiniteSet(Entries(a)) /\ Cardinality(Entries(a)) \in Nat
           /\ Owing \in SUBSET Slots /\ \A a : Owed(a) \in SUBSET Slots
<1>1. IsFiniteSet(view.remembered) /\ IsFiniteSet(saved.remembered)
  BY DEF StoreInv, Tidy, Dated
<1>2. IsFiniteSet(view.remembered \cup saved.remembered)
  BY <1>1, FS_Union
<1>3. \A a : IsFiniteSet(Entries(a))
  BY <1>2, FS_Subset DEF Entries
<1> QED
  BY <1>1, <1>3, FS_CardinalityType DEF Owing, Owed

(***************************************************************************)
(* And stays finite.                                                       *)
(***************************************************************************)
LEMMA BooksStayFinite ==
    ASSUME StoreInv'
    PROVE  /\ Cardinality(view'.remembered) \in Nat
           /\ \A a : IsFiniteSet(Entries(a)') /\ Cardinality(Entries(a)') \in Nat
<1>1. IsFiniteSet(view'.remembered) /\ IsFiniteSet(saved'.remembered)
  BY DEF StoreInv, Tidy, Dated
<1>2. IsFiniteSet(view'.remembered \cup saved'.remembered)
  BY <1>1, FS_Union
<1>3. \A a : IsFiniteSet(Entries(a)')
  BY <1>2, FS_Subset DEF Entries
<1> QED
  BY <1>1, <1>3, FS_CardinalityType

(***************************************************************************)
(* A SIGTERM pays for the entry it may lead to.                            *)
(***************************************************************************)
LEMMA TerminationPays ==
    ASSUME BaseInv, BaseInv', CountInv, BookInv, NEW k \in Slots, Terminates(k)
    PROVE  BookInv' /\ SentGrow
<1>0. /\ k \in Aiming /\ k \notin Owing /\ Owing' \in SUBSET (Owing \cup {k})
      /\ snap' = snap /\ view' = view /\ saved' = saved
      /\ killed' = killed \cup {Sent(k)}
  BY DEF Terminates
<1>1. /\ Sent(k).as = snap[k] /\ Sent(k) \notin killed
      /\ Cardinality(killed') = Cardinality(killed) + 1
  BY SentIsNew
<1>2. ASSUME NEW a
      PROVE  /\ SentAs(a) \subseteq SentAs(a)'
             /\ Cardinality(SentAs(a)) \in Nat
             /\ a = snap[k] => Cardinality(SentAs(a)') = Cardinality(SentAs(a)) + 1
             /\ a # snap[k] => SentAs(a)' = SentAs(a)
  <2>1. IsFiniteSet(SentAs(a)) /\ Cardinality(SentAs(a)) \in Nat
    BY SentIsFinite
  <2>2. SentAs(a)' = IF a = snap[k] THEN SentAs(a) \cup {Sent(k)} ELSE SentAs(a)
    BY <1>0, <1>1 DEF SentAs
  <2>3. Sent(k) \notin SentAs(a)
    BY <1>1 DEF SentAs
  <2>4. Cardinality(SentAs(a) \cup {Sent(k)}) = Cardinality(SentAs(a)) + 1
    BY <2>1, <2>3, FS_AddElement
  <2> QED
    BY <2>1, <2>2, <2>4
<1>3. Cardinality(killed) \in Nat
  BY SentIsFinite
<1>4. SentGrow
  BY <1>1, <1>2, <1>3 DEF SentGrow
<1>5. ASSUME NEW a \in Commands
      PROVE  Cardinality(Entries(a)') + Cardinality(Owed(a)') <= Cardinality(SentAs(a)')
  <2>1. Entries(a)' = Entries(a)
    BY <1>0 DEF Entries
  <2>2. Owed(a)' \in SUBSET (Owed(a) \cup {k}) /\ (a # snap[k] => Owed(a)' \in SUBSET Owed(a))
    BY <1>0 DEF Owed
  <2>3. Owed(a) \in SUBSET Slots /\ Owed(a)' \in SUBSET Slots /\ Cardinality(Entries(a)) \in Nat
    BY BooksAreFinite DEF BaseInv, Owed, Owing
  <2>4. /\ Cardinality(Owed(a)') <= Cardinality(Owed(a)) + 1
        /\ a # snap[k] => Cardinality(Owed(a)') <= Cardinality(Owed(a))
        /\ Cardinality(Owed(a)) \in Nat /\ Cardinality(Owed(a)') \in Nat
    BY <2>2, <2>3, SlotSets
  <2>5. Cardinality(Entries(a)) + Cardinality(Owed(a)) <= Cardinality(SentAs(a))
    BY DEF BookInv
  <2>6. Cardinality(Entries(a)') = Cardinality(Entries(a))
    BY <2>1
  <2>7. CASE a = snap[k]
    <3>1. Cardinality(SentAs(a)') = Cardinality(SentAs(a)) + 1 /\ Cardinality(SentAs(a)) \in Nat
      BY <1>2, <2>7
    <3> QED
      BY <2>3, <2>4, <2>5, <2>6, <3>1
  <2>8. CASE a # snap[k]
    <3>1. Cardinality(SentAs(a)') = Cardinality(SentAs(a)) /\ Cardinality(SentAs(a)) \in Nat
      BY <1>2, <2>8
    <3> QED
      BY <2>3, <2>4, <2>5, <2>6, <2>8, <3>1
  <2> QED
    BY <2>7, <2>8
<1>6. Cardinality(view'.remembered) + Cardinality(Owing') <= Cardinality(killed')
  <2>1. Owing \in SUBSET Slots /\ Owing' \in SUBSET Slots /\ Cardinality(view.remembered) \in Nat
    BY BooksAreFinite DEF BaseInv, Owing
  <2>2. /\ Cardinality(Owing') <= Cardinality(Owing) + 1
        /\ Cardinality(Owing) \in Nat /\ Cardinality(Owing') \in Nat
    BY <1>0, <2>1, SlotSets
  <2>3. Cardinality(view.remembered) + Cardinality(Owing) <= Cardinality(killed)
    BY DEF BookInv
  <2>4. Cardinality(view'.remembered) = Cardinality(view.remembered)
    BY <1>0
  <2> QED
    BY <1>1, <1>3, <2>1, <2>2, <2>3, <2>4
<1> QED
  BY <1>4, <1>5, <1>6 DEF BookInv

(***************************************************************************)
(* An entry is paid for by a kill whose handler then owes none.            *)
(***************************************************************************)
LEMMA RememberingPays ==
    ASSUME BaseInv, BaseInv', CountInv, BookInv, NEW k \in Slots, Joins(k)
    PROVE  BookInv' /\ SentGrow
<1>0. /\ k \in Owing /\ Owing' \in SUBSET (Owing \ {k})
      /\ snap' = snap /\ killed' = killed
      /\ saved' = view' \/ saved' = saved
  BY DEF Joins
<1>a. PICK n \in EntryBytes : Joined(view', view, snap[k], n)
  BY DEF Joins
<1>1. PICK r \in S!Remembered : r.key = snap[k] /\ view'.remembered \in SUBSET (view.remembered \cup {r})
  BY <1>a DEF Joined
<1>2. Cardinality(view'.remembered) <= Cardinality(view.remembered) + 1
  BY <1>a DEF Joined
<1>b. Cardinality(killed) \in Nat /\ Cardinality(killed') = Cardinality(killed)
      /\ \A a : SentAs(a)' = SentAs(a) /\ Cardinality(SentAs(a)) \in Nat
  BY <1>0, SentIsFinite DEF SentAs
<1>3. SentGrow
  BY <1>b DEF SentGrow
<1>4. ASSUME NEW a \in Commands  PROVE Cardinality(Entries(a)') + Cardinality(Owed(a)') <= Cardinality(SentAs(a)')
  <2>1. Entries(a)' \in SUBSET (Entries(a) \cup {r}) /\ (a # snap[k] => Entries(a)' \in SUBSET Entries(a))
    BY <1>0, <1>1 DEF Entries
  <2>2. /\ IsFiniteSet(Entries(a)) /\ Cardinality(Entries(a)) \in Nat
        /\ IsFiniteSet(Entries(a)') /\ Cardinality(Entries(a)') \in Nat
    BY BooksAreFinite, BooksStayFinite DEF BaseInv
  <2>3. IsFiniteSet(Entries(a) \cup {r}) /\ Cardinality(Entries(a) \cup {r}) \in Nat
        /\ Cardinality(Entries(a) \cup {r}) <= Cardinality(Entries(a)) + 1
    <3>1. IsFiniteSet(Entries(a) \cup {r})
      BY <2>2, FS_AddElement
    <3>2. Cardinality(Entries(a) \cup {r}) = Cardinality(Entries(a))
          \/ Cardinality(Entries(a) \cup {r}) = Cardinality(Entries(a)) + 1
      BY <2>2, FS_AddElement
    <3> QED
      BY <2>2, <3>1, <3>2
  <2>4. Cardinality(Entries(a)') <= Cardinality(Entries(a) \cup {r})
    BY <2>1, <2>3, FS_Subset
  <2>5. a # snap[k] => Cardinality(Entries(a)') <= Cardinality(Entries(a))
    BY <2>1, <2>2, FS_Subset
  <2>6. /\ Owed(a) \in SUBSET Slots /\ Owed(a)' \in SUBSET Owed(a)
        /\ a = snap[k] => k \in Owed(a) /\ Owed(a)' \in SUBSET (Owed(a) \ {k})
    BY <1>0 DEF Owed, Owing
  <2>7. /\ Cardinality(Owed(a)') <= Cardinality(Owed(a))
        /\ a = snap[k] => Cardinality(Owed(a)') + 1 <= Cardinality(Owed(a))
        /\ Cardinality(Owed(a)) \in Nat /\ Cardinality(Owed(a)') \in Nat
    <3>1. Owed(a)' \in SUBSET Slots
      BY <2>6
    <3> QED
      BY <2>6, <3>1, SlotSets
  <2>8. /\ Cardinality(Entries(a)) + Cardinality(Owed(a)) <= Cardinality(SentAs(a))
        /\ Cardinality(SentAs(a)') = Cardinality(SentAs(a)) /\ Cardinality(SentAs(a)) \in Nat
    BY <1>b DEF BookInv
  <2> QED
    BY <2>2, <2>3, <2>4, <2>5, <2>7, <2>8
<1>5. /\ Owing \in SUBSET Slots /\ Owing' \in SUBSET Slots
      /\ Cardinality(view.remembered) \in Nat /\ Cardinality(view'.remembered) \in Nat
  BY BooksAreFinite, BooksStayFinite DEF BaseInv, Owing
<1>6. /\ Cardinality(Owing') + 1 <= Cardinality(Owing)
      /\ Cardinality(Owing) \in Nat /\ Cardinality(Owing') \in Nat
  BY <1>0, <1>5, SlotSets
<1>7. Cardinality(view.remembered) + Cardinality(Owing) <= Cardinality(killed)
  BY DEF BookInv
<1>8. Cardinality(view'.remembered) + Cardinality(Owing') <= Cardinality(killed')
  BY <1>2, <1>5, <1>6, <1>7, <1>b
<1> QED
  BY <1>3, <1>4, <1>8 DEF BookInv

(***************************************************************************)
(* No other step changes the balance.                                      *)
(***************************************************************************)
LEMMA OthersKeepBooks ==
    ASSUME BaseInv, BaseInv', CountInv, BookInv, NobodyOwes, StoreShrinks, UNCHANGED killed
    PROVE  BookInv' /\ SentGrow
<1>b. Cardinality(killed) \in Nat /\ Cardinality(killed') = Cardinality(killed)
      /\ \A a : SentAs(a)' = SentAs(a) /\ Cardinality(SentAs(a)) \in Nat
  BY SentIsFinite DEF SentAs
<1>1. SentGrow
  BY <1>b DEF SentGrow
<1>2. ASSUME NEW a \in Commands  PROVE Cardinality(Entries(a)') + Cardinality(Owed(a)') <= Cardinality(SentAs(a)')
  <2>1. Entries(a)' \in SUBSET Entries(a)
    BY DEF StoreShrinks, Remembers, Entries
  <2>2. /\ IsFiniteSet(Entries(a)) /\ Cardinality(Entries(a)) \in Nat /\ Cardinality(Entries(a)') \in Nat
    BY BooksAreFinite, BooksStayFinite DEF BaseInv
  <2>3. Cardinality(Entries(a)') <= Cardinality(Entries(a))
    BY <2>1, <2>2, FS_Subset
  <2>4. Owed(a) \in SUBSET Slots /\ Owed(a)' \in SUBSET Owed(a) /\ Owed(a)' \in SUBSET Slots
    BY DEF NobodyOwes, Owed, Owing
  <2>5. /\ Cardinality(Owed(a)') <= Cardinality(Owed(a))
        /\ Cardinality(Owed(a)) \in Nat /\ Cardinality(Owed(a)') \in Nat
    BY <2>4, SlotSets
  <2>6. /\ Cardinality(Entries(a)) + Cardinality(Owed(a)) <= Cardinality(SentAs(a))
        /\ Cardinality(SentAs(a)') = Cardinality(SentAs(a)) /\ Cardinality(SentAs(a)) \in Nat
    BY <1>b DEF BookInv
  <2> QED
    BY <2>2, <2>3, <2>5, <2>6
<1>3. /\ Owing \in SUBSET Slots /\ Owing' \in SUBSET Owing /\ Owing' \in SUBSET Slots
      /\ IsFiniteSet(view.remembered)
      /\ Cardinality(view.remembered) \in Nat /\ Cardinality(view'.remembered) \in Nat
  BY BooksAreFinite, BooksStayFinite DEF BaseInv, Owing, NobodyOwes
<1>4. Cardinality(view'.remembered) <= Cardinality(view.remembered)
  BY <1>3, FS_Subset DEF StoreShrinks
<1>5. /\ Cardinality(Owing') <= Cardinality(Owing)
      /\ Cardinality(Owing) \in Nat /\ Cardinality(Owing') \in Nat
  BY <1>3, SlotSets
<1>6. Cardinality(view.remembered) + Cardinality(Owing) <= Cardinality(killed)
  BY DEF BookInv
<1>7. Cardinality(view'.remembered) + Cardinality(Owing') <= Cardinality(killed')
  BY <1>3, <1>4, <1>5, <1>6, <1>b
<1> QED
  BY <1>1, <1>2, <1>7 DEF BookInv

(***************************************************************************)
(* So the books balance after every step.                                  *)
(***************************************************************************)
LEMMA BookInductive ==
    ASSUME BaseInv, BaseInv', CountInv, BookInv, [DashNext]_dashVars
    PROVE  BookInv' /\ SentGrow
  BY StepKinds, TerminationPays, RememberingPays, OthersKeepBooks DEF Counts, Comes

\* The books balance in every reachable state.
LEMMA BookInvariant == DashSpec => []BookInv
<1>1. DashInit => BookInv
  <2> SUFFICES ASSUME DashInit PROVE BookInv
    OBVIOUS
  <2>1. Owing = {} /\ view.remembered = {} /\ saved.remembered = {} /\ killed = {}
    BY EmptyIsTidy DEF DashInit, S!AbsInit, Owing
  <2>2. \A a : Entries(a) = {} /\ Owed(a) = {} /\ SentAs(a) = {}
    BY <2>1 DEF Entries, Owed, SentAs
  <2> QED
    BY <2>1, <2>2, FS_EmptySet DEF BookInv
<1>2. BaseInv /\ BaseInv' /\ CountInv /\ BookInv /\ [DashNext]_dashVars => BookInv'
  BY BookInductive
<1> QED
  BY <1>1, <1>2, BaseInvariant, CountInvariant, PTL DEF DashSpec

(***************************************************************************)
(* A kill that was answered with 200 is in memory, or was pushed out by    *)
(* more kills than GlobalRememberedCap, or the store was given too much.   *)
(***************************************************************************)
Answered(k) == req[k].op = "kill" /\ hpc[k] = "idle" /\ code[k] = 200 /\ snap[k] # NoApp

InMemory(a) == \/ \E e \in view.remembered : e.key = a
               \/ /\ Cardinality(killed) > GlobalRememberedCap
                  /\ Cardinality(view.remembered) = GlobalRememberedCap
               \/ handed > MaxStateBytes

AnswerInv == \A k \in Slots : Answered(k) => InMemory(snap[k])

(***************************************************************************)
(* Only RememberKilled answers a kill whose inspection succeeded with 200. *)
(***************************************************************************)
LEMMA AnswerSteps ==
    ASSUME BaseInv, [DashNext]_dashVars, NEW k \in Slots, Answered(k)'
    PROVE  (Answered(k) /\ snap'[k] = snap[k]) \/ RememberKilled(k)
<1> USE DEF BaseInv
<1>1. CASE /\ hpc'[k] = hpc[k] /\ req'[k] = req[k] /\ snap'[k] = snap[k] /\ code'[k] = code[k]
  BY <1>1 DEF Answered
<1>2. CASE Exits
  BY <1>2 DEF Exits, Answered
<1>3. CASE UNCHANGED handlerVars
  BY <1>1, <1>3 DEF handlerVars
<1>4. ASSUME NEW j \in Slots \ {k}, BadRequest(j) \/ (\E r \in Requests : Request(j, r)) \/ Handle(j)
      PROVE  /\ hpc'[k] = hpc[k] /\ req'[k] = req[k] /\ snap'[k] = snap[k] /\ code'[k] = code[k]
  <2>1. CASE RememberKilled(j) \/ SetLabel(j)
    <3>1. UNCHANGED <<req, snap>> /\ hpc' = [hpc EXCEPT ![j] = "idle"] /\ \E c \in {200, 500} : code' = [code EXCEPT ![j] = c]
      BY <2>1, StoreAnswers
    <3> QED
      BY <3>1 DEF HandlerInv, HandlerTypes
  <2>2. CASE ~(RememberKilled(j) \/ SetLabel(j))
    BY <1>4, <2>2 DEF BadRequest, Request, Handle, Resolve, InspectTarget, CallKill, KillReturns,
              Restart, Spawning, RestartReturns, Reply, HGoto, HandlerInv, HandlerTypes
  <2> QED
    BY <2>1, <2>2
<1>5. ASSUME BadRequest(k) \/ (\E r \in Requests : Request(k, r)) \/ Resolve(k) \/ InspectTarget(k) \/ CallKill(k)
             \/ RestartReturns(k) \/ Restart(k)
      PROVE  ~Answered(k)'
  BY <1>5 DEF BadRequest, Request, Resolve, InspectTarget, CallKill, Restart, RestartReturns, Reply, HGoto,
              HandlerInv, HandlerTypes, Answered
<1>6. ASSUME KillReturns(k)  PROVE ~Answered(k)'
  BY <1>6 DEF KillReturns, Reply, HGoto, HandlerInv, HandlerTypes, Answered
<1>7. ASSUME SetLabel(k)  PROVE ~Answered(k)'
  BY <1>7 DEF SetLabel, Reply, HGoto, HandlerInv, Step, Answered
<1>8. ASSUME Spawning(k)  PROVE ~Answered(k)' \/ UNCHANGED handlerVars
  <2>1. CASE spc'[k] # "idle"
    BY <1>8, <2>1 DEF Spawning, handlerVars
  <2>2. CASE spc'[k] = "idle"
    BY <1>8, <2>2 DEF Spawning, Reply, HGoto, HandlerInv, HandlerTypes, Answered
  <2> QED
    BY <2>1, <2>2
<1> QED
  BY <1>1, <1>2, <1>3, <1>4, <1>5, <1>6, <1>7, <1>8
  DEF DashNext, Handle, Elsewhere, Beside, Killing, dashVars

(***************************************************************************)
(* Remembering another kill pushes an entry out for one of these reasons   *)
(* only, and does not undo them.                                           *)
(***************************************************************************)
LEMMA OthersMayPush ==
    ASSUME BaseInv, BaseInv', CountInv, BookInv, NEW k \in Slots, Joins(k), NEW a
    PROVE  InMemory(a) => InMemory(a)'
<1>0. PICK n \in EntryBytes : Joined(view', view, snap[k], n) /\ handed' = handed + n
  BY DEF Joins
<1>1. /\ n \in Nat /\ MaxStateBytes \in Nat /\ handed \in Nat /\ S!Bytes(view) \in Nat
      /\ S!Bytes(view) <= handed
  BY SizeOf, DashboardConstants DEF BaseInv, RoomInv, StoreInv
<1>2. /\ Cardinality(killed) \in Nat /\ Cardinality(view.remembered) \in Nat /\ killed' = killed
      /\ GlobalRememberedCap \in Nat
  BY SentIsFinite, BooksAreFinite, DashboardConstants DEF BaseInv, Joins
<1>3. CASE S!Bytes(view) + n > MaxStateBytes \/ handed > MaxStateBytes
  <2>1. handed' > MaxStateBytes
    BY <1>0, <1>1, <1>3
  <2> QED
    BY <2>1 DEF InMemory
<1>4. CASE S!Bytes(view) + n <= MaxStateBytes /\ handed <= MaxStateBytes
  <2>1. /\ \/ \A e \in view.remembered : \E f \in view'.remembered : f.key = e.key
           \/ Cardinality(view.remembered) = GlobalRememberedCap
        /\ Cardinality(view.remembered) = GlobalRememberedCap =>
             Cardinality(view'.remembered) = GlobalRememberedCap
    BY <1>0, <1>4 DEF Joined
  <2>2. Cardinality(killed) > Cardinality(view.remembered)
    <3>1. Owing \in SUBSET Slots /\ Owing # {}
      BY DEF Owing, Joins
    <3>2. IsFiniteSet(Owing) /\ Cardinality(Owing) \in Nat
      BY <3>1, SlotSets
    <3>3. Cardinality(Owing) # 0
      BY <3>1, <3>2, FS_EmptySet
    <3>4. Cardinality(view.remembered) + Cardinality(Owing) <= Cardinality(killed)
      BY DEF BookInv
    <3> QED
      BY <1>2, <3>2, <3>3, <3>4
  <2>3. CASE Cardinality(view.remembered) = GlobalRememberedCap
    BY <1>2, <2>1, <2>2, <2>3 DEF InMemory
  <2>4. CASE Cardinality(view.remembered) # GlobalRememberedCap
    <3>1. ~(handed > MaxStateBytes)
      BY <1>1, <1>4
    <3> QED
      BY <2>1, <2>4, <3>1 DEF InMemory
  <2> QED
    BY <2>3, <2>4
<1> QED
  BY <1>1, <1>3, <1>4

\* Nor does a label, which may take the room of an entry.
LEMMA LabelsMayPush ==
    ASSUME BaseInv, BaseInv', CountInv, NEW k \in Slots, SetLabel(k), NEW a
    PROVE  InMemory(a) => InMemory(a)'
<1>0. PICK n \in Nat : Labelled(view', view, snap[k], n) /\ (handed' = handed + n \/ (n = 0 /\ handed' = handed))
  BY StoreSteps DEF BaseInv
<1>1. /\ MaxStateBytes \in Nat /\ handed \in Nat /\ S!Bytes(view) \in Nat
      /\ S!Bytes(view) <= handed /\ killed' = killed
  BY SizeOf, DashboardConstants DEF BaseInv, RoomInv, StoreInv, SetLabel
<1>2. CASE S!Bytes(view) + n > MaxStateBytes \/ handed > MaxStateBytes
  <2>1. handed' > MaxStateBytes
    BY <1>0, <1>1, <1>2
  <2> QED
    BY <2>1 DEF InMemory
<1>3. CASE S!Bytes(view) + n <= MaxStateBytes /\ handed <= MaxStateBytes
  <2>1. view'.remembered = view.remembered /\ ~(handed > MaxStateBytes)
    BY <1>0, <1>1, <1>3 DEF Labelled
  <2> QED
    BY <1>1, <2>1 DEF InMemory
<1> QED
  BY <1>1, <1>2, <1>3

\* A handler that has answered keeps its entry in memory.
LEMMA AnswerInductive ==
    ASSUME BaseInv, BaseInv', CountInv, CountInv', BookInv, SentGrow, AnswerInv, [DashNext]_dashVars
    PROVE  AnswerInv'
<1> SUFFICES ASSUME NEW k \in Slots, Answered(k)', NEW a, a = snap'[k] PROVE InMemory(a)'
  BY DEF AnswerInv, InMemory
<1>0. handed \in Nat /\ handed' \in Nat /\ handed <= handed' /\ MaxStateBytes \in Nat
      /\ Cardinality(killed) \in Nat /\ Cardinality(killed') \in Nat /\ Cardinality(killed) <= Cardinality(killed')
      /\ GlobalRememberedCap \in Nat
  BY BaseInductive, SentIsFinite, FS_CardinalityType, DashboardConstants DEF BaseInv, RoomInv, SentGrow, CountInv
<1>1. CASE RememberKilled(k)
  <2>1. Joins(k)
    BY <1>1, RememberJoins
  <2>2. PICK n \in EntryBytes : Joined(view', view, snap[k], n) /\ handed' = handed + n
    BY <2>1 DEF Joins
  <2>3. snap' = snap
    BY <2>1 DEF Joins
  <2>4. n \in Nat /\ S!Bytes(view) \in Nat /\ S!Bytes(view) <= handed
    BY SizeOf, DashboardConstants DEF BaseInv, RoomInv, StoreInv
  <2>5. CASE S!Bytes(view) + n <= MaxStateBytes
    BY <2>2, <2>3, <2>5 DEF Joined, InMemory
  <2>6. CASE ~(S!Bytes(view) + n <= MaxStateBytes)
    <3>1. handed' > MaxStateBytes
      BY <1>0, <2>2, <2>4, <2>6
    <3> QED
      BY <3>1 DEF InMemory
  <2> QED
    BY <2>5, <2>6
<1>2. ASSUME Answered(k), snap'[k] = snap[k]  PROVE InMemory(a)'
  <2>0. InMemory(a)
    BY <1>2 DEF AnswerInv
  <2>1. ASSUME NEW j \in Slots, RememberKilled(j)  PROVE InMemory(a)'
    <3>1. Joins(j)
      BY <2>1, RememberJoins
    <3> QED
      BY <1>2, <2>0, <3>1, OthersMayPush
  <2>2. ASSUME NEW j \in Slots, SetLabel(j)  PROVE InMemory(a)'
    BY <1>2, <2>0, <2>2, LabelsMayPush
  <2>3. CASE Exits
    BY <2>3 DEF Exits, Answered
  <2>4. CASE UNCHANGED view
    <3>1. Cardinality(killed) > GlobalRememberedCap => Cardinality(killed') > GlobalRememberedCap
      BY <1>0
    <3>2. handed > MaxStateBytes => handed' > MaxStateBytes
      BY <1>0
    <3> QED
      BY <1>2, <2>0, <2>4, <3>1, <3>2 DEF InMemory
  <2> QED
    BY <2>1, <2>2, <2>3, <2>4 DEF DashNext, Handle, Elsewhere, Beside, BadRequest, Request, Resolve, InspectTarget,
       CallKill, KillReturns, Restart, Spawning, RestartReturns, Killing, dashVars, storeVars
<1> QED
  BY <1>1, <1>2, AnswerSteps

(***************************************************************************)
(* What is being spawned, and what runs as a child, was read before a      *)
(* SIGTERM.                                                                *)
(***************************************************************************)
Terminated(a) == a \in Apps /\ SentAs(a) # {}

SpawnInv ==
    /\ \A k \in Slots : spc[k] # "idle" => Terminated(sapp[k])
    /\ \A k \in Slots : child[k] # NoPid => Terminated(os[child[k]].app)

(***************************************************************************)
(* What a restart finds was.                                               *)
(***************************************************************************)
LEMMA RememberedWasTerminated ==
    ASSUME BaseInv, CountInv, BookInv, NEW e \in view.remembered, e.key # EmptyApp
    PROVE  Terminated(e.key)
<1>1. e.key \in Commands /\ e.key \in Apps
  BY StoreShape DEF BaseInv, StoreInv, Tidy, Dated, Commands
<1>2. e \in Entries(e.key)
  BY DEF Entries
<1>3. IsFiniteSet(Entries(e.key)) /\ Cardinality(Entries(e.key)) \in Nat /\ Cardinality(Entries(e.key)) # 0
  BY <1>2, BooksAreFinite, FS_EmptySet DEF BaseInv
<1>4. Owed(e.key) \in SUBSET Slots
  BY DEF Owed, Owing
<1>5. Cardinality(Owed(e.key)) \in Nat /\ Cardinality(SentAs(e.key)) \in Nat
  BY <1>4, SlotSets, SentIsFinite
<1>6. Cardinality(Entries(e.key)) + Cardinality(Owed(e.key)) <= Cardinality(SentAs(e.key))
  BY <1>1 DEF BookInv
<1>7. Cardinality(SentAs(e.key)) # 0
  BY <1>3, <1>5, <1>6
<1>8. SentAs(e.key) # {}
  BY <1>7, FS_EmptySet
<1> QED
  BY <1>1, <1>8 DEF Terminated

(***************************************************************************)
(* A child that stays is the process it was.                               *)
(***************************************************************************)
LEMMA ChildStays ==
    ASSUME ~PidsAreReused, BaseInv, BaseInv', PlaceInv, [Next]_pmVars, NEW k \in Slots, child[k] # NoPid,
           child'[k] = child[k]
    PROVE  os'[child[k]].app = os[child[k]].app
<1>0. Slots = Spawners /\ births \in Nat /\ SelfPid \in Nat /\ Pids \subseteq Nat
  BY DashboardConstants, ProcessConstants, TypeParts DEF BaseInv, WorldType
<1>1. Exists(child[k]) /\ child[k] \in Pids
  BY <1>0, TypeParts DEF BaseInv, ChildInv, OurChild, SpawnType
<1>2. os'[child[k]] # NoProcess
  BY <1>0 DEF BaseInv, ChildInv, OurChild, Exists
<1>3. os[child[k]].birth = child[k] - SelfPid /\ os[child[k]].birth <= births
  BY <1>1 DEF PlaceInv, BaseInv, ScanInv
<1>4. child[k] # SelfPid + births + 1
  BY <1>0, <1>1, <1>3
<1>5. Evolves(child[k])
  BY <1>1, TableEvolves DEF BaseInv
<1> QED
  BY <1>2, <1>4, <1>5 DEF Evolves

\* No step starts a child of a program that was not killed.
LEMMA SpawnInductive ==
    ASSUME ~PidsAreReused, BaseInv, BaseInv', CountInv, PlaceInv, BookInv, SentGrow, SpawnInv, [DashNext]_dashVars
    PROVE  SpawnInv'
<1> USE TypeParts
<1>0. /\ Slots = Spawners /\ [Next]_pmVars
      /\ \A a : Terminated(a) => Terminated(a)'
  BY DashboardConstants, BaseInductive DEF Terminated, SentGrow
<1>1. ASSUME NEW k \in Slots, child'[k] = child[k], child[k] # NoPid  PROVE Terminated(os[child[k]].app)'
  <2>1. Terminated(os[child[k]].app)
    BY <1>1 DEF SpawnInv
  <2>2. os'[child[k]].app = os[child[k]].app
    BY <1>0, <1>1, ChildStays
  <2> QED
    BY <1>0, <1>1, <2>1, <2>2 DEF Terminated
<1>2. CASE UNCHANGED spawnVars
  BY <1>0, <1>1, <1>2 DEF SpawnInv, spawnVars, Terminated
<1>3. CASE Exits
  BY <1>0, <1>3 DEF Exits, Shutdown, SpawnInv
<1>4. ASSUME NEW k \in Slots, reap(k)  PROVE SpawnInv'
  <2>1. UNCHANGED <<spc, sapp>> /\ child' = [child EXCEPT ![k] = NoPid] /\ child \in [Slots -> Pids \cup {NoPid}]
    BY <1>0, <1>4 DEF reap, BaseInv, SpawnType
  <2>2. \A j \in Slots : child'[j] # NoPid => child'[j] = child[j]
    BY <2>1
  <2> QED
    BY <1>0, <1>1, <2>1, <2>2 DEF SpawnInv, Terminated
<1>5. ASSUME NEW k \in Slots, Restart(k), ~UNCHANGED pmVars  PROVE SpawnInv'
  <2>1. PICK e \in view.remembered : SpawnDetached(k, e.key)
    BY <1>5 DEF Restart
  <2>2. /\ spc \in [Slots -> {"idle", "openR", "openW", "start"}] /\ sapp \in [Slots -> Apps \cup {EmptyApp}]
        /\ child' = child
        /\ sapp' = [sapp EXCEPT ![k] = e.key]
        /\ spc' = [spc EXCEPT ![k] = IF e.key = EmptyApp THEN "idle" ELSE "openR"]
    BY <1>0, <2>1 DEF SpawnDetached, SpawnGoto, BaseInv, SpawnType
  <2>3. e.key # EmptyApp => Terminated(e.key)
    BY RememberedWasTerminated
  <2>4. \A j \in Slots : spc'[j] # "idle" => Terminated(sapp'[j])
    BY <2>2, <2>3 DEF SpawnInv
  <2> QED
    BY <1>0, <1>1, <2>2, <2>4 DEF SpawnInv, Terminated
<1>6. ASSUME NEW k \in Slots, SpawnStep(k)  PROVE SpawnInv'
  <2>1. /\ spc \in [Slots -> {"idle", "openR", "openW", "start"}] /\ child \in [Slots -> Pids \cup {NoPid}]
        /\ UNCHANGED sapp /\ spc[k] # "idle"
        /\ \A j \in Slots : spc'[j] # "idle" => spc[j] # "idle"
    BY <1>0, <1>6 DEF SpawnStep, OpenDevNullR, OpenDevNullW, StartFails, StartChild, SpawnGoto, BaseInv, SpawnType
  <2>2. \A j \in Slots : spc'[j] # "idle" => Terminated(sapp'[j])
    BY <2>1 DEF SpawnInv
  <2>3. CASE UNCHANGED child
    BY <1>0, <1>1, <2>2, <2>3 DEF SpawnInv, Terminated
  <2>4. ASSUME NEW p \in Pids, StartChild(k, p)  PROVE SpawnInv'
    <3>1. sapp[k] \in Apps /\ Terminated(sapp[k])
      BY <2>1 DEF SpawnInv, Terminated
    <3>2. os'[p].app = sapp[k]
      BY <2>4, <3>1, NewProcess DEF StartChild, BaseInv, WorldType
    <3>3. child' = [child EXCEPT ![k] = p]
      BY <2>4 DEF StartChild
    <3>4. \A j \in Slots : child'[j] # NoPid => Terminated(os[child[j]].app)'
      <4> SUFFICES ASSUME NEW j \in Slots, child'[j] # NoPid PROVE Terminated(os[child[j]].app)'
        OBVIOUS
      <4>1. CASE j = k
        BY <1>0, <2>1, <3>1, <3>2, <3>3, <4>1 DEF Terminated
      <4>2. CASE j # k
        BY <1>1, <2>1, <3>3, <4>2
      <4> QED
        BY <4>1, <4>2
    <3> QED
      BY <1>0, <2>2, <3>4 DEF SpawnInv, Terminated
  <2> QED
    BY <1>6, <2>3, <2>4 DEF SpawnStep, OpenDevNullR, OpenDevNullW, StartFails
<1>7. ASSUME NEW k \in Slots, BadRequest(k) \/ (\E r \in Requests : Request(k, r))  PROVE UNCHANGED spawnVars
  BY <1>7 DEF BadRequest, Request, pmVars
<1>8. ASSUME NEW k \in Slots, Handle(k)  PROVE SpawnInv'
  <2>1. CASE Restart(k)
    BY <1>2, <1>5, <2>1 DEF pmVars
  <2>2. CASE Spawning(k)
    BY <1>6, <2>2 DEF Spawning
  <2>3. CASE ~Restart(k) /\ ~Spawning(k)
    BY <1>2, <1>8, <2>3 DEF Handle, Resolve, InspectTarget, CallKill, Kill, KillReturns, RememberKilled, SetLabel,
       StoreCall, RestartReturns, pmVars
  <2> QED
    BY <2>1, <2>2, <2>3
<1>9. ASSUME NEW k \in Slots, Killing(k)  PROVE UNCHANGED spawnVars
  BY <1>9 DEF Killing, KillStep, verifyLive, SigTerm
<1>10. CASE Elsewhere
  BY <1>2, <1>4, <1>10 DEF Elsewhere, Beside, World, Start, Bind, Exit, Tick, Escalate, Wake, SigKill
<1>11. CASE UNCHANGED dashVars
  BY <1>2, <1>11 DEF dashVars, pmVars
<1> QED
  BY <1>2, <1>3, <1>7, <1>8, <1>9, <1>10, <1>11 DEF DashNext

(***************************************************************************)
(* Every reachable state satisfies both.                                   *)
(***************************************************************************)
LEMMA AnswersInvariant == DashSpec => []AnswerInv
<1>1. DashInit => AnswerInv
  BY DashboardConstants DEF DashInit, Init, AnswerInv, Answered, NoRequest
<1>2. BaseInv /\ BaseInv' /\ CountInv /\ CountInv' /\ BookInv /\ AnswerInv /\ [DashNext]_dashVars => AnswerInv'
  BY BookInductive, AnswerInductive
<1> QED
  BY <1>1, <1>2, BaseInvariant, CountInvariant, BookInvariant, PTL DEF DashSpec

\* The second one only while pids are not reused.
LEMMA SpawnsInvariant == ASSUME ~PidsAreReused PROVE DashSpec => []SpawnInv
<1>1. DashInit => SpawnInv
  BY DashboardConstants DEF DashInit, Init, SpawnInv
<1>2. BaseInv /\ BaseInv' /\ CountInv /\ NoReuseInv /\ BookInv /\ SpawnInv /\ [DashNext]_dashVars => SpawnInv'
  BY BookInductive, SpawnInductive DEF NoReuseInv
<1> QED
  BY <1>1, <1>2, BaseInvariant, CountInvariant, NoReuseInvariant, BookInvariant, PTL DEF DashSpec

(***************************************************************************)
(* A SIGTERM sent after a command was read pays for that command.          *)
(***************************************************************************)
LEMMA SentIsPaid == ASSUME NoReuseInv, NEW a \in Commands PROVE Paid(a) = SentAs(a)
<1>1. a # NoApp
  BY DashboardConstants DEF Commands
<1> QED
  BY <1>1 DEF NoReuseInv, ReadInv, Paid, SentAs

(***************************************************************************)
(* While pids are not reused, a command has at most as many entries as     *)
(* SIGTERMs were delivered to processes it was read from, and a kill that  *)
(* answered 200 is remembered unless a cap or the file's limit was passed, *)
(* however requests overlap, whatever inspections misread and whatever     *)
(* fails.                                                                  *)
(***************************************************************************)
THEOREM EntriesArePaidFor == ASSUME ~PidsAreReused PROVE DashSpec => []EntriesMatchKills
<1>1. BaseInv /\ CountInv /\ BookInv /\ NoReuseInv /\ AnswerInv => EntriesMatchKills
  <2> SUFFICES ASSUME BaseInv, CountInv, BookInv, NoReuseInv, AnswerInv PROVE EntriesMatchKills
    OBVIOUS
  <2>1. ASSUME NEW a \in Commands  PROVE Cardinality(Entries(a)) <= Cardinality(Paid(a))
    <3>1. Owed(a) \in SUBSET Slots
      BY DEF Owed, Owing
    <3>2. Cardinality(Owed(a)) \in Nat /\ Cardinality(Entries(a)) \in Nat /\ Cardinality(SentAs(a)) \in Nat
      BY <3>1, SlotSets, BooksAreFinite, SentIsFinite DEF BaseInv
    <3>3. Cardinality(Entries(a)) + Cardinality(Owed(a)) <= Cardinality(SentAs(a))
      BY DEF BookInv
    <3>4. Cardinality(Entries(a)) <= Cardinality(SentAs(a))
      BY <3>2, <3>3
    <3> QED
      BY <3>4, SentIsPaid
  <2> QED
    BY <2>1 DEF EntriesMatchKills, AnswerInv, Answered, InMemory
<1> QED
  BY <1>1, BaseInvariant, CountInvariant, BookInvariant, NoReuseInvariant, AnswersInvariant, PTL

(***************************************************************************)
(* While pids are not reused, the dashboard starts only what an inspection *)
(* read from a process that then got a SIGTERM.                            *)
(***************************************************************************)
THEOREM OnlyKilledAreRestarted == ASSUME ~PidsAreReused PROVE DashSpec => []ChildrenWereKilled
<1>1. SpawnInv /\ NoReuseInv => ChildrenWereKilled
  <2> SUFFICES ASSUME SpawnInv, NoReuseInv, NEW k \in Slots, child[k] # NoPid
               PROVE  Paid(os[child[k]].app) # {}
    BY DEF ChildrenWereKilled
  <2>1. Terminated(os[child[k]].app)
    BY DEF SpawnInv
  <2>2. os[child[k]].app \in Commands /\ SentAs(os[child[k]].app) # {}
    BY <2>1 DEF Terminated, Commands
  <2> QED
    BY <2>2, SentIsPaid
<1> QED
  BY <1>1, SpawnsInvariant, NoReuseInvariant, PTL

=============================================================================
