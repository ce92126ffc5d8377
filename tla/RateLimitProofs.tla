-------------------------- MODULE RateLimitProofs --------------------------
(***************************************************************************)
(* The login rate limit for every window, capacity, number of IPs and      *)
(* requests in flight.                                                     *)
(***************************************************************************)
EXTENDS RateLimit, FiniteSetTheorems, NaturalsInduction, TLAPS

\* Failures are recorded in the order of time: the oldest comes first.
Sorted(fails) == \A m, n \in DOMAIN fails : m <= n => fails[n] <= fails[m]

Slices == {fails \in Seq(Ages) : Sorted(fails)}

\* A function on 1 .. n is a sequence of that length.
LEMMA SliceOfLength ==
    ASSUME NEW S, NEW n \in Nat, NEW g \in [1 .. n -> S]
    PROVE  g \in Seq(S) /\ Len(g) = n /\ DOMAIN g = 1 .. n /\ (g = <<>> <=> n = 0)
<1>1. g \in Seq(S) /\ DOMAIN g = 1 .. n
  OBVIOUS
<1>2. Len(g) = n
  BY <1>1
<1> QED
  BY <1>1, <1>2

\* What a slice is made of.
LEMMA SliceType ==
    ASSUME NEW f \in Slices
    PROVE  /\ f \in Seq(Ages) /\ Len(f) \in Nat /\ DOMAIN f = 1 .. Len(f)
           /\ \A n \in 1 .. Len(f) : f[n] \in Ages /\ f[n] \in Nat /\ f[n] <= Window
           /\ \A m, n \in 1 .. Len(f) : m <= n => f[n] <= f[m]
  BY RateLimitConstants DEF Slices, Sorted, Ages

(***************************************************************************)
(* In a slice, the live failures are those behind some place.              *)
(***************************************************************************)
LEMMA LiveAreBehind ==
    ASSUME NEW f \in Slices
    PROVE  \E m \in 0 .. Len(f) : \A n \in 1 .. Len(f) : Live(f[n]) <=> n > m
<1> DEFINE D == {k \in 1 .. Len(f) + 1 : k = Len(f) + 1 \/ Live(f[k])}
<1>1. Len(f) \in Nat
  BY SliceType
<1>2. D \subseteq Nat /\ Len(f) + 1 \in D
  BY <1>1
<1>3. PICK d \in D : \A e \in D : ~ (<<e, d>> \in OpToRel(<, Nat))
  BY <1>2, NatLessThanWellFounded, WFMin
<1>4. \A e \in D : d <= e
  <2> HIDE DEF D
  <2>1. \A e \in D : ~ (e < d)
    BY <1>2, <1>3 DEF OpToRel
  <2> QED
    BY <1>2, <2>1
<1>5. d \in 1 .. Len(f) + 1 /\ (d = Len(f) + 1 \/ Live(f[d]))
  OBVIOUS
<1>6. ASSUME NEW n \in 1 .. Len(f)  PROVE Live(f[n]) <=> n > d - 1
  <2>1. ASSUME Live(f[n])  PROVE n > d - 1
    <3>1. n \in D
      BY <1>1, <2>1
    <3> QED
      BY <1>4, <1>5, <3>1
  <2>2. ASSUME n > d - 1  PROVE Live(f[n])
    <3>1. d \in 1 .. Len(f) /\ d <= n /\ Live(f[d])
      BY <1>1, <1>5, <2>2
    <3>2. f[n] <= f[d] /\ f[n] \in Nat /\ f[d] \in Nat
      BY <3>1, SliceType
    <3> QED
      BY <3>1, <3>2, RateLimitConstants DEF Live
  <2> QED
    BY <2>1, <2>2
<1>7. d - 1 \in 0 .. Len(f)
  BY <1>1, <1>5
<1> QED
  BY <1>6, <1>7

\* How many numbers there are above m up to n.
LEMMA Between ==
    ASSUME NEW m \in Nat, NEW n \in Nat, m <= n
    PROVE  IsFiniteSet(m + 1 .. n) /\ Cardinality(m + 1 .. n) = n - m
<1>1. m + 1 \in Int /\ n \in Int
  OBVIOUS
<1>2. IsFiniteSet(m + 1 .. n)
      /\ Cardinality(m + 1 .. n) = IF m + 1 > n THEN 0 ELSE n - (m + 1) + 1
  BY <1>1, FS_Interval
<1> QED
  BY <1>2

(***************************************************************************)
(* Pruning a slice leaves what lies behind that place, in its order.       *)
(***************************************************************************)
LEMMA PrunedIsBehind ==
    ASSUME NEW f \in Slices, NEW m \in 0 .. Len(f),
           \A n \in 1 .. Len(f) : Live(f[n]) <=> n > m
    PROVE  pruned(f) = [k \in 1 .. Len(f) - m |-> f[m + k]]
<1> DEFINE live == {n \in DOMAIN f : Live(f[n])}
<1>1. Len(f) \in Nat /\ m \in Nat /\ Len(f) - m \in Nat /\ DOMAIN f = 1 .. Len(f)
  BY SliceType
<1>2. live = m + 1 .. Len(f) /\ m <= Len(f)
  BY <1>1
<1> HIDE DEF live
<1>3. Cardinality(live) = Len(f) - m
  BY <1>1, <1>2, Between
<1>4. ASSUME NEW k \in 1 .. Len(f) - m
      PROVE  (CHOOSE n \in live : Cardinality({x \in live : x <= n}) = k) = m + k
  <2>1. ASSUME NEW n \in live  PROVE Cardinality({x \in live : x <= n}) = n - m
    <3>1. {x \in live : x <= n} = m + 1 .. n
      BY <1>1, <1>2
    <3>2. n \in Nat /\ m <= n
      BY <1>1, <1>2
    <3> QED
      BY <1>1, <3>1, <3>2, Between
  <2>2. m + k \in live
    BY <1>1, <1>2
  <2>3. \A n \in live : Cardinality({x \in live : x <= n}) = k <=> n = m + k
    BY <1>1, <1>2, <2>1
  <2> QED
    BY <2>2, <2>3
<1>5. pruned(f) = [k \in 1 .. Cardinality(live) |->
                     f[CHOOSE n \in live : Cardinality({x \in live : x <= n}) = k]]
  BY DEF pruned, live
<1> QED
  BY <1>3, <1>4, <1>5

(***************************************************************************)
(* What pruning leaves is live, in order, and not more.                    *)
(***************************************************************************)
LEMMA PrunedType ==
    ASSUME NEW f \in Slices
    PROVE  /\ pruned(f) \in Slices /\ pruned(f) \in Seq(0 .. Window - 1)
           /\ Len(pruned(f)) \in Nat /\ Len(pruned(f)) <= Len(f)
           /\ pruned(f) = <<>> <=> (f = <<>> \/ ~ Live(Newest(f)))
           /\ pruned(f) # <<>> => Newest(pruned(f)) = Newest(f)
<1>1. PICK m \in 0 .. Len(f) : \A n \in 1 .. Len(f) : Live(f[n]) <=> n > m
  BY LiveAreBehind
<1> DEFINE g == [k \in 1 .. Len(f) - m |-> f[m + k]]
<1>2. pruned(f) = g
  BY <1>1, PrunedIsBehind
<1>3. Len(f) \in Nat /\ m \in Nat /\ Len(f) - m \in Nat
  BY SliceType
<1>4. \A k \in 1 .. Len(f) - m : g[k] = f[m + k] /\ f[m + k] \in 0 .. Window - 1 /\ f[m + k] \in Ages
  <2> TAKE k \in 1 .. Len(f) - m
  <2>1. m + k \in 1 .. Len(f) /\ m + k > m
    BY <1>3
  <2> QED
    BY <1>1, <2>1, SliceType, RateLimitConstants DEF Live
<1>5. /\ g \in Seq(0 .. Window - 1) /\ g \in Seq(Ages) /\ Len(g) = Len(f) - m
      /\ DOMAIN g = 1 .. Len(f) - m /\ (g = <<>> <=> Len(f) - m = 0)
  <2>1. g \in [1 .. Len(f) - m -> 0 .. Window - 1] /\ g \in [1 .. Len(f) - m -> Ages]
    BY <1>4
  <2> HIDE DEF g
  <2>2. g \in Seq(0 .. Window - 1) /\ Len(g) = Len(f) - m
        /\ DOMAIN g = 1 .. Len(f) - m /\ (g = <<>> <=> Len(f) - m = 0)
    BY <1>3, <2>1, SliceOfLength
  <2>3. g \in Seq(Ages)
    BY <1>3, <2>1, SliceOfLength
  <2> QED
    BY <2>2, <2>3
<1> HIDE DEF g
<1>6. Sorted(g)
  <2> SUFFICES ASSUME NEW a \in 1 .. Len(f) - m, NEW b \in 1 .. Len(f) - m, a <= b
               PROVE  g[b] <= g[a]
    BY <1>5 DEF Sorted
  <2>1. m + a \in 1 .. Len(f) /\ m + b \in 1 .. Len(f) /\ m + a <= m + b
    BY <1>3
  <2>2. f[m + b] <= f[m + a]
    BY <2>1, SliceType
  <2> QED
    BY <1>4, <2>2
<1>7. g = <<>> <=> Len(f) = m
  BY <1>3, <1>5
<1>8. Len(f) = m <=> (f = <<>> \/ ~ Live(Newest(f)))
  <2>1. f = <<>> <=> Len(f) = 0
    BY SliceType
  <2> QED
    BY <1>1, <1>3, <2>1 DEF Newest
<1>9. g # <<>> => Newest(g) = Newest(f)
  <2> SUFFICES ASSUME g # <<>> PROVE g[Len(g)] = f[Len(f)]
    BY DEF Newest
  <2>1. Len(g) \in 1 .. Len(f) - m /\ m + Len(g) = Len(f)
    BY <1>3, <1>5
  <2> QED
    BY <1>4, <2>1
<1> QED
  BY <1>2, <1>3, <1>5, <1>6, <1>7, <1>8, <1>9 DEF Slices

(***************************************************************************)
(* Pruning leaves a slice alone that is live as a whole.                   *)
(***************************************************************************)
LEMMA LiveStays ==
    ASSUME NEW f \in Slices, f \in Seq(0 .. Window - 1)
    PROVE  pruned(f) = f
<1>1. \A n \in 1 .. Len(f) : Live(f[n]) <=> n > 0
  BY RateLimitConstants DEF Live
<1>2. Len(f) \in Nat /\ f = [k \in 1 .. Len(f) |-> f[k]]
  BY SliceType
<1>3. pruned(f) = [k \in 1 .. Len(f) - 0 |-> f[0 + k]]
  BY <1>1, <1>2, PrunedIsBehind
<1> QED
  BY <1>2, <1>3

(***************************************************************************)
(* A failure is recorded behind the older ones.                            *)
(***************************************************************************)
LEMMA RecordedType ==
    ASSUME NEW f \in Slices
    PROVE  /\ Append(f, 0) \in Slices /\ Append(f, 0) # <<>>
           /\ f \in Seq(0 .. Window - 1) => Append(f, 0) \in Seq(0 .. Window - 1)
           /\ Len(Append(f, 0)) = Len(f) + 1
<1>1. 0 \in Ages /\ 0 \in 0 .. Window - 1
  BY RateLimitConstants DEF Ages
<1>2. f \in Seq(Ages) /\ Len(f) \in Nat
  BY SliceType
<1>3. /\ Append(f, 0) \in Seq(Ages) /\ Len(Append(f, 0)) = Len(f) + 1
      /\ DOMAIN Append(f, 0) = 1 .. Len(f) + 1
      /\ \A n \in 1 .. Len(f) : Append(f, 0)[n] = f[n]
      /\ Append(f, 0)[Len(f) + 1] = 0
  BY <1>1, <1>2
<1>4. Sorted(Append(f, 0))
  <2> SUFFICES ASSUME NEW a \in 1 .. Len(f) + 1, NEW b \in 1 .. Len(f) + 1, a <= b
               PROVE  Append(f, 0)[b] <= Append(f, 0)[a]
    BY <1>3 DEF Sorted
  <2>1. CASE b \in 1 .. Len(f)
    <3>1. a \in 1 .. Len(f)
      BY <1>2, <2>1
    <3> QED
      BY <1>3, <2>1, <3>1, SliceType
  <2>2. CASE b = Len(f) + 1
    <3>1. Append(f, 0)[a] \in Nat
      BY <1>1, <1>2, <1>3, SliceType
    <3> QED
      BY <1>3, <2>2, <3>1
  <2> QED
    BY <1>2, <2>1, <2>2
<1>5. Append(f, 0) # <<>>
  BY <1>2, <1>3
<1>6. f \in Seq(0 .. Window - 1) => Append(f, 0) \in Seq(0 .. Window - 1)
  BY <1>1
<1> QED
  BY <1>3, <1>4, <1>5, <1>6 DEF Slices

(***************************************************************************)
(* Time passes for all failures of a slice alike.                          *)
(***************************************************************************)
LEMMA OlderType ==
    ASSUME NEW f \in Slices
    PROVE  /\ Older(f) \in Slices /\ Len(Older(f)) = Len(f) /\ (Older(f) = <<>> <=> f = <<>>)
           /\ \A n \in 1 .. Len(f) :
                Older(f)[n] = IF f[n] < Window THEN f[n] + 1 ELSE Window
<1> DEFINE g == Older(f)
<1>1. Len(f) \in Nat /\ DOMAIN f = 1 .. Len(f)
  BY SliceType
<1>2. \A n \in 1 .. Len(f) : g[n] = IF f[n] < Window THEN f[n] + 1 ELSE Window
  BY <1>1 DEF Older
<1>3. g \in [1 .. Len(f) -> Ages]
  <2>1. \A n \in 1 .. Len(f) : (IF f[n] < Window THEN f[n] + 1 ELSE Window) \in Ages
    BY SliceType, RateLimitConstants DEF Ages
  <2> QED
    BY <1>1, <2>1 DEF Older
<1> HIDE DEF g
<1>4. g \in Seq(Ages) /\ Len(g) = Len(f) /\ DOMAIN g = 1 .. Len(f) /\ (g = <<>> <=> Len(f) = 0)
  BY <1>1, <1>3, SliceOfLength
<1>5. Sorted(g)
  <2> SUFFICES ASSUME NEW a \in 1 .. Len(f), NEW b \in 1 .. Len(f), a <= b
               PROVE  g[b] <= g[a]
    BY <1>4 DEF Sorted
  <2>1. f[b] <= f[a] /\ f[a] \in Nat /\ f[b] \in Nat /\ f[a] <= Window
    BY SliceType
  <2> QED
    BY <1>2, <2>1, RateLimitConstants
<1>6. f = <<>> <=> Len(f) = 0
  BY SliceType
<1> QED
  BY <1>2, <1>4, <1>5, <1>6 DEF Slices, g

(***************************************************************************)
(* It does not matter whether a slice is pruned before time passes.        *)
(***************************************************************************)
LEMMA PrunedOlder ==
    ASSUME NEW f \in Slices
    PROVE  pruned(Older(pruned(f))) = pruned(Older(f))
<1>1. PICK m \in 0 .. Len(f) : \A n \in 1 .. Len(f) : Live(f[n]) <=> n > m
  BY LiveAreBehind
<1>2. PICK l \in 0 .. Len(f) : \A n \in 1 .. Len(f) : Live(Older(f)[n]) <=> n > l
  BY OlderType, LiveAreBehind
<1>3. Len(f) \in Nat /\ m \in Nat /\ l \in Nat
  BY SliceType
<1>4. m <= l
  <2> SUFFICES ASSUME l < m PROVE FALSE
    BY <1>3
  <2>1. m \in 1 .. Len(f) /\ ~ Live(f[m]) /\ Live(Older(f)[m])
    BY <1>1, <1>2, <1>3
  <2>2. f[m] \in Nat /\ f[m] <= Window
    BY <2>1, SliceType
  <2> QED
    BY <2>1, <2>2, OlderType, RateLimitConstants DEF Live
<1> DEFINE p == pruned(f)
           g == [k \in 1 .. Len(f) - m |-> f[m + k]]
<1>5. p = g /\ p \in Slices
  BY <1>1, PrunedIsBehind, PrunedType
<1>6. Len(p) = Len(f) - m
  BY <1>1, <1>3, <1>5
<1>7. \A k \in 1 .. Len(f) - m : p[k] = f[m + k]
  BY <1>5
<1> HIDE DEF p
<1>8. \A k \in 1 .. Len(f) - m : Older(p)[k] = Older(f)[m + k]
  <2> TAKE k \in 1 .. Len(f) - m
  <2>1. m + k \in 1 .. Len(f)
    BY <1>3
  <2>2. Older(f)[m + k] = IF f[m + k] < Window THEN f[m + k] + 1 ELSE Window
    BY <2>1, OlderType
  <2>3. Older(p)[k] = IF p[k] < Window THEN p[k] + 1 ELSE Window
    BY <1>5, <1>6, OlderType
  <2> QED
    BY <1>7, <2>2, <2>3
<1>9. l - m \in 0 .. Len(Older(p)) /\ Len(Older(p)) = Len(f) - m /\ Older(p) \in Slices
  BY <1>3, <1>4, <1>5, <1>6, OlderType
<1>10. \A n \in 1 .. Len(Older(p)) : Live(Older(p)[n]) <=> n > l - m
  <2> TAKE n \in 1 .. Len(Older(p))
  <2>1. m + n \in 1 .. Len(f) /\ n \in 1 .. Len(f) - m
    BY <1>3, <1>9
  <2>2. Live(Older(f)[m + n]) <=> m + n > l
    BY <1>2, <2>1
  <2> QED
    BY <1>3, <1>8, <2>1, <2>2
<1>11. pruned(Older(p)) = [k \in 1 .. Len(Older(p)) - (l - m) |-> Older(p)[(l - m) + k]]
  BY <1>9, <1>10, PrunedIsBehind
<1>12. pruned(Older(f)) = [k \in 1 .. Len(f) - l |-> Older(f)[l + k]]
  BY <1>2, OlderType, PrunedIsBehind
<1>13. Len(Older(p)) - (l - m) = Len(f) - l
  BY <1>3, <1>9
<1>14. \A k \in 1 .. Len(f) - l : Older(p)[(l - m) + k] = Older(f)[l + k]
  <2> TAKE k \in 1 .. Len(f) - l
  <2>1. (l - m) + k \in 1 .. Len(f) - m /\ m + ((l - m) + k) = l + k
    BY <1>3, <1>4
  <2> QED
    BY <1>8, <2>1
<1> QED
  BY <1>11, <1>12, <1>13, <1>14 DEF p

-----------------------------------------------------------------------------
(* The map                                                                  *)

LEMMA KnownIsFinite ==
    ASSUME NEW F
    PROVE  IsFiniteSet(Known(F)) /\ Cardinality(Known(F)) \in Nat
<1>1. Known(F) \in SUBSET IPs /\ IsFiniteSet(IPs)
  BY RateLimitConstants DEF Known
<1> QED
  BY <1>1, FS_Subset, FS_CardinalityType

\* The counters that a sweep of the map keeps.
Alive(F) == {ip \in IPs : pruned(F[ip]) # <<>>}

(***************************************************************************)
(* Pruning one slice and sweeping the map only empty slices in which       *)
(* nothing is live.                                                        *)
(***************************************************************************)
LEMMA PruneType ==
    ASSUME NEW F \in [IPs -> Slices], NEW ip \in IPs
    PROVE  /\ Prune(F, ip) \in [IPs -> Slices] /\ Prune(F, ip)[ip] = pruned(F[ip])
           /\ \A j \in IPs \ {ip} : Prune(F, ip)[j] = F[j]
           /\ Known(Prune(F, ip)) \subseteq Known(F)
           /\ ip \in Known(Prune(F, ip)) <=> ip \in Alive(F)
<1>1. pruned(F[ip]) \in Slices
  BY PrunedType
<1>2. /\ Prune(F, ip) \in [IPs -> Slices] /\ Prune(F, ip)[ip] = pruned(F[ip])
      /\ \A j \in IPs \ {ip} : Prune(F, ip)[j] = F[j]
  BY <1>1 DEF Prune
<1>3. F[ip] = <<>> => pruned(F[ip]) = <<>>
  BY PrunedType
<1> QED
  BY <1>2, <1>3 DEF Known, Alive

\* What the sweep leaves: the IPs that have a live failure, as they were.
LEMMA SweepType ==
    ASSUME NEW F \in [IPs -> Slices], NEW ip \in IPs, ip \notin Alive(F)
    PROVE  LET S == sweepExpired(Prune(F, ip))
           IN  /\ S \in [IPs -> Slices] /\ S[ip] = <<>> /\ Known(S) = Alive(F)
               /\ \A j \in IPs : S[j] = F[j] \/ S[j] = <<>>
               /\ \A j \in Alive(F) : S[j] = F[j]
<1> DEFINE P == Prune(F, ip)
           S == sweepExpired(P)
<1>0. /\ P \in [IPs -> Slices] /\ P[ip] = <<>>
      /\ \A j \in IPs \ {ip} : P[j] = F[j]
  BY PruneType DEF Alive
<1> HIDE DEF P
<1>1. <<>> \in Slices
  BY DEF Slices, Sorted
<1>2. \A j \in IPs : S[j] = IF P[j] # <<>> /\ Live(Newest(P[j])) THEN P[j] ELSE <<>>
  BY DEF sweepExpired
<1>3. S \in [IPs -> Slices]
  BY <1>0, <1>1 DEF sweepExpired
<1>4. ASSUME NEW j \in IPs  PROVE (S[j] = <<>> <=> j \notin Alive(F)) /\ S[j] \in {F[j], <<>>}
  <2>1. CASE j = ip
    BY <1>0, <1>2, <2>1
  <2>2. CASE j # ip
    <3>1. P[j] = F[j]
      BY <1>0, <2>2
    <3>2. pruned(F[j]) = <<>> <=> (F[j] = <<>> \/ ~ Live(Newest(F[j])))
      BY PrunedType
    <3> QED
      BY <1>2, <3>1, <3>2 DEF Alive
  <2> QED
    BY <2>1, <2>2
<1>5. Known(S) = Alive(F)
  BY <1>4 DEF Known, Alive
<1>6. \A j \in Alive(F) : S[j] = F[j]
  BY <1>4 DEF Alive
<1> QED
  BY <1>0, <1>2, <1>3, <1>4, <1>5, <1>6 DEF P

(***************************************************************************)
(* A counter that is removed makes one place.                              *)
(***************************************************************************)
LEMMA WithoutType ==
    ASSUME NEW F \in [IPs -> Slices], NEW ip \in IPs
    PROVE  /\ Without(F, ip) \in [IPs -> Slices] /\ Without(F, ip)[ip] = <<>>
           /\ \A j \in IPs \ {ip} : Without(F, ip)[j] = F[j]
           /\ Known(Without(F, ip)) = Known(F) \ {ip}
<1>1. <<>> \in Slices
  BY DEF Slices, Sorted
<1> QED
  BY <1>1 DEF Without, Known

(***************************************************************************)
(* Before an IP's failure is recorded there is room for its counter, only  *)
(* whole counters were dropped for it, and a live one only from a map that *)
(* was full of live ones, the stalest first.                               *)
(***************************************************************************)
LEMMA RoomIsMade ==
    ASSUME NEW G \in [IPs -> Slices], Cardinality(Known(G)) <= RateLimitMaxIPs, NEW ip \in IPs,
           NEW F \in MakeRoom(Prune(G, ip), ip)
    PROVE  /\ F \in [IPs -> Slices] /\ F[ip] = pruned(G[ip])
           /\ \A j \in IPs \ {ip} : F[j] = G[j] \/ F[j] = <<>>
           /\ Cardinality(Known(F) \cup {ip}) <= RateLimitMaxIPs
           /\ \A a \in Alive(G) : a # ip /\ F[a] = <<>> =>
                /\ Cardinality(Alive(G)) = RateLimitMaxIPs /\ G[ip] = <<>>
                /\ \A b \in IPs \ {a} : F[b] # <<>> => Newest(G[b]) <= Newest(G[a])
<1> DEFINE P == Prune(G, ip)
           S == sweepExpired(P)
<1>1. /\ P \in [IPs -> Slices] /\ P[ip] = pruned(G[ip])
      /\ \A j \in IPs \ {ip} : P[j] = G[j]
      /\ Known(P) \subseteq Known(G) /\ (ip \in Known(P) <=> ip \in Alive(G))
  BY PruneType
<1>2. \A a \in Alive(G) : a \in IPs /\ G[a] # <<>>
  BY PrunedType DEF Alive
<1>3. /\ IsFiniteSet(Known(G)) /\ Cardinality(Known(G)) \in Nat
      /\ IsFiniteSet(Known(P)) /\ Cardinality(Known(P)) \in Nat
      /\ Cardinality(Known(P)) <= Cardinality(Known(G)) /\ RateLimitMaxIPs \in Nat
      /\ Cardinality(Known(G)) = Cardinality(Known(P)) => Known(G) = Known(P)
  BY <1>1, KnownIsFinite, FS_Subset, RateLimitConstants
<1>4. CASE ip \in Known(P) \/ Cardinality(Known(P)) < RateLimitMaxIPs
  <2>1. F = P
    BY <1>4 DEF MakeRoom
  <2>2. Cardinality(Known(F) \cup {ip}) <= RateLimitMaxIPs
    <3>1. Cardinality(Known(P) \cup {ip}) =
            IF ip \in Known(P) THEN Cardinality(Known(P)) ELSE Cardinality(Known(P)) + 1
      BY <1>3, FS_AddElement
    <3> HIDE DEF P
    <3> QED
      BY <1>3, <1>4, <2>1, <3>1
  <2> HIDE DEF P
  <2> QED
    BY <1>1, <1>2, <2>1, <2>2
<1>5. CASE ip \notin Known(P) /\ ~ (Cardinality(Known(P)) < RateLimitMaxIPs)
  <2>1. ip \notin Alive(G) /\ pruned(G[ip]) = <<>>
    BY <1>1, <1>5 DEF Alive
  <2>2. G[ip] = <<>> /\ Known(P) = Known(G)
    <3>1. Known(P) = Known(G)
      <4> HIDE DEF P
      <4> QED
        BY <1>3, <1>5
    <3> QED
      BY <1>5, <3>1 DEF Known
  <2>3. /\ S \in [IPs -> Slices] /\ S[ip] = <<>> /\ Known(S) = Alive(G)
        /\ \A j \in IPs : S[j] = G[j] \/ S[j] = <<>>
        /\ \A j \in Alive(G) : S[j] = G[j]
    BY <2>1, SweepType
  <2>4. IsFiniteSet(Known(S)) /\ Cardinality(Known(S)) \in Nat /\ ip \notin Known(S)
    BY <2>1, <2>3, KnownIsFinite
  <2>5. CASE Cardinality(Known(S)) < RateLimitMaxIPs
    <3>1. F = S
      BY <1>5, <2>5 DEF MakeRoom
    <3>2. Cardinality(Known(S) \cup {ip}) = Cardinality(Known(S)) + 1
      BY <2>4, FS_AddElement
    <3> HIDE DEF S
    <3> QED
      BY <1>2, <1>3, <2>1, <2>3, <2>4, <2>5, <3>1, <3>2
  <2>6. CASE ~ (Cardinality(Known(S)) < RateLimitMaxIPs)
    <3>0. F \in evictOldest(S)
      BY <1>5, <2>6 DEF MakeRoom
    <3>1. PICK e \in Known(S) : /\ F = Without(S, e)
                                /\ \A j \in Known(S) : Newest(S[j]) <= Newest(S[e])
      BY <3>0 DEF evictOldest
    <3> HIDE DEF S
    <3>2. e \in IPs /\ e # ip
      BY <2>4 DEF Known
    <3>3. /\ F \in [IPs -> Slices] /\ F[e] = <<>> /\ \A j \in IPs \ {e} : F[j] = S[j]
          /\ Known(F) = Known(S) \ {e}
      BY <2>3, <3>1, <3>2, WithoutType
    <3>4. Cardinality(Known(S)) = RateLimitMaxIPs
      <4>1. Alive(G) \in SUBSET Known(G)
        BY <1>2 DEF Known
      <4>2. Cardinality(Alive(G)) <= Cardinality(Known(G))
        BY <1>3, <4>1, FS_Subset
      <4> QED
        BY <1>3, <2>3, <2>4, <2>6, <4>2
    <3>5. Cardinality(Known(F) \cup {ip}) <= RateLimitMaxIPs
      <4>1. IsFiniteSet(Known(S) \ {e}) /\ Cardinality(Known(S) \ {e}) = Cardinality(Known(S)) - 1
        BY <2>4, FS_RemoveElement
      <4>2. Cardinality((Known(S) \ {e}) \cup {ip}) = Cardinality(Known(S) \ {e}) + 1
        BY <2>4, <4>1, FS_AddElement
      <4> QED
        BY <1>3, <3>3, <3>4, <4>1, <4>2
    <3>6. ASSUME NEW a \in Alive(G), a # ip, F[a] = <<>>, NEW b \in IPs \ {a}, F[b] # <<>>
          PROVE  Newest(G[b]) <= Newest(G[a])
      <4>1. a = e
        BY <1>2, <2>3, <3>3, <3>6
      <4>2. b # e /\ F[b] = S[b] /\ S[b] = G[b] /\ S[a] = G[a]
        BY <2>3, <3>3, <3>6, <4>1
      <4>3. b \in Known(S)
        BY <3>6, <4>2 DEF Known
      <4> QED
        BY <3>1, <4>1, <4>2, <4>3
    <3>7. \A j \in IPs \ {ip} : F[j] = G[j] \/ F[j] = <<>>
      BY <2>3, <3>3
    <3>8. F[ip] = pruned(G[ip])
      BY <2>1, <2>3, <3>2, <3>3
    <3> QED
      BY <2>2, <2>3, <3>3, <3>4, <3>5, <3>6, <3>7, <3>8
  <2> QED
    BY <2>5, <2>6
<1> QED
  BY <1>4, <1>5

-----------------------------------------------------------------------------
(* The inductive invariant                                                  *)

(***************************************************************************)
(* Slices are in the order of time, and what is live of them is what was   *)
(* guessed.                                                                *)
(***************************************************************************)
Shape ==
    /\ failures \in [IPs -> Slices]
    /\ from \in [Requests -> IPs \cup {NoIP}]
    /\ guesses = [ip \in IPs |-> pruned(failures[ip])]

Pending(ip) == {r \in Requests : from[r] = ip}

(***************************************************************************)
(* Every request past the check may still add a failure: those of an IP    *)
(* and its live failures together stay within the bound.                   *)
(***************************************************************************)
Within(ip) ==
    /\ Len(failures[ip]) <= MaxGuesses
    /\ Len(pruned(failures[ip])) + Cardinality(Pending(ip)) <= MaxGuesses

Limits ==
    /\ Cardinality(Known(failures)) <= RateLimitMaxIPs
    /\ \A ip \in IPs : Within(ip)

Inv == Shape /\ Limits

\* The sets and bounds counted here are numbers.
LEMMA Numbers ==
    ASSUME NEW ip
    PROVE  /\ IsFiniteSet(Pending(ip)) /\ Cardinality(Pending(ip)) \in Nat
           /\ Cardinality(Pending(ip)) <= Cardinality(Requests)
           /\ Cardinality(Requests) \in Nat /\ MaxGuesses \in Nat
           /\ MaxGuesses = RateLimitCapacity - 1 + Cardinality(Requests)
<1>1. IsFiniteSet(Requests) /\ Cardinality(Requests) \in Nat
  BY RateLimitConstants, FS_CardinalityType
<1>2. Pending(ip) \in SUBSET Requests
  BY DEF Pending
<1>3. IsFiniteSet(Pending(ip)) /\ Cardinality(Pending(ip)) <= Cardinality(Requests)
  BY <1>1, <1>2, FS_Subset
<1> QED
  BY <1>1, <1>3, RateLimitConstants, FS_CardinalityType DEF MaxGuesses

\* The lengths counted here are numbers.
LEMMA LenType ==
    ASSUME Shape, NEW ip \in IPs
    PROVE  /\ failures[ip] \in Slices /\ pruned(failures[ip]) \in Slices
           /\ Len(failures[ip]) \in Nat /\ Len(pruned(failures[ip])) \in Nat
           /\ guesses[ip] = pruned(failures[ip])
  BY SliceType, PrunedType DEF Shape

(***************************************************************************)
(* An IP whose slice loses failures, while no more of its requests are     *)
(* past the check, stays within the bound.                                 *)
(***************************************************************************)
LEMMA WithinLess ==
    ASSUME NEW ip \in IPs, Within(ip), failures[ip] \in Slices, failures'[ip] \in Slices,
           Len(failures'[ip]) <= Len(failures[ip]),
           Len(pruned(failures'[ip])) <= Len(pruned(failures[ip])),
           Pending(ip)' \subseteq Pending(ip)
    PROVE  Within(ip)'
<1>1. IsFiniteSet(Pending(ip)) /\ Cardinality(Pending(ip)) \in Nat /\ MaxGuesses \in Nat
  BY Numbers
<1>2. Cardinality(Pending(ip)') <= Cardinality(Pending(ip)) /\ Cardinality(Pending(ip)') \in Nat
  BY <1>1, FS_Subset, FS_CardinalityType
<1>3. /\ Len(failures[ip]) \in Nat /\ Len(pruned(failures[ip])) \in Nat
      /\ Len(failures'[ip]) \in Nat /\ Len(pruned(failures'[ip])) \in Nat
  BY SliceType, PrunedType
<1>4. MaxGuesses' = MaxGuesses
  BY DEF MaxGuesses
<1> QED
  BY <1>1, <1>2, <1>3, <1>4 DEF Within

\* The empty slice is one, and nothing is pruned from it.
LEMMA NoneLeft ==
    /\ <<>> \in Slices /\ pruned(<<>>) = <<>> /\ Len(<<>>) = 0
    /\ \A ip \in IPs : NoIP # ip
<1>1. <<>> \in Slices
  BY DEF Slices, Sorted
<1> QED
  BY <1>1, PrunedType, RateLimitConstants

(***************************************************************************)
(* The check and the refusal prune a slice; that changes nothing live.     *)
(***************************************************************************)
LEMMA PruneStep ==
    ASSUME Inv, NEW ip \in IPs, failures' = Prune(failures, ip), UNCHANGED guesses
    PROVE  /\ failures' \in [IPs -> Slices]
           /\ guesses' = [j \in IPs |-> pruned(failures'[j])]
           /\ Cardinality(Known(failures)') <= RateLimitMaxIPs
           /\ \A j \in IPs : /\ Len(failures'[j]) <= Len(failures[j])
                             /\ pruned(failures'[j]) = pruned(failures[j])
<1>1. failures \in [IPs -> Slices] /\ guesses = [j \in IPs |-> pruned(failures[j])]
  BY DEF Inv, Shape
<1>2. /\ failures' \in [IPs -> Slices] /\ failures'[ip] = pruned(failures[ip])
      /\ \A j \in IPs \ {ip} : failures'[j] = failures[j]
      /\ Known(failures') \subseteq Known(failures)
  BY <1>1, PruneType
<1>3. pruned(pruned(failures[ip])) = pruned(failures[ip])
  BY <1>1, PrunedType, LiveStays
<1>4. \A j \in IPs : Len(failures'[j]) <= Len(failures[j]) /\ pruned(failures'[j]) = pruned(failures[j])
  BY <1>1, <1>2, <1>3, PrunedType, SliceType
<1>5. Cardinality(Known(failures')) <= Cardinality(Known(failures))
  BY <1>2, KnownIsFinite, FS_Subset
<1>6. Cardinality(Known(failures')) <= RateLimitMaxIPs
  BY <1>5, KnownIsFinite, RateLimitConstants DEF Inv, Limits
<1>7. Known(failures)' = Known(failures')
  BY DEF Known
<1> QED
  BY <1>1, <1>2, <1>4, <1>6, <1>7

(***************************************************************************)
(* A failure that is recorded adds one live failure to its IP.             *)
(***************************************************************************)
LEMMA RecordStep ==
    ASSUME Inv, NEW ip \in IPs, RateLimitRecordFailure(ip)
    PROVE  /\ failures' \in [IPs -> Slices]
           /\ guesses' = [j \in IPs |-> pruned(failures'[j])]
           /\ Cardinality(Known(failures)') <= RateLimitMaxIPs
           /\ Len(failures'[ip]) = Len(pruned(failures[ip])) + 1
           /\ pruned(failures'[ip]) = failures'[ip] /\ failures'[ip] # <<>>
           /\ \A j \in IPs \ {ip} : failures'[j] = failures[j] \/ failures'[j] = <<>>
<1>1. /\ failures \in [IPs -> Slices] /\ guesses = [j \in IPs |-> pruned(failures[j])]
      /\ Cardinality(Known(failures)) <= RateLimitMaxIPs
  BY DEF Inv, Shape, Limits
<1>2. PICK F \in MakeRoom(Prune(failures, ip), ip) :
        /\ failures' = [F EXCEPT ![ip] = Append(@, 0)]
        /\ guesses' = [i \in IPs |->
                IF i # ip THEN IF F[i] = <<>> THEN <<>> ELSE guesses[i]
                ELSE IF Len(guesses[i]) <= MaxGuesses THEN Append(guesses[i], 0)
                ELSE Append(Tail(guesses[i]), 0)]
  BY DEF RateLimitRecordFailure
<1>3. /\ F \in [IPs -> Slices] /\ F[ip] = pruned(failures[ip])
      /\ \A j \in IPs \ {ip} : F[j] = failures[j] \/ F[j] = <<>>
      /\ Cardinality(Known(F) \cup {ip}) <= RateLimitMaxIPs
  BY <1>1, RoomIsMade
<1> DEFINE p == pruned(failures[ip])
<1>4. p \in Slices /\ p \in Seq(0 .. Window - 1)
  BY <1>1, PrunedType
<1> HIDE DEF p
<1>5. /\ Append(p, 0) \in Slices /\ Append(p, 0) # <<>> /\ Append(p, 0) \in Seq(0 .. Window - 1)
      /\ Len(Append(p, 0)) = Len(p) + 1
  BY <1>4, RecordedType
<1>6. pruned(Append(p, 0)) = Append(p, 0)
  BY <1>5, LiveStays
<1>7. /\ failures' \in [IPs -> Slices] /\ failures'[ip] = Append(p, 0)
      /\ \A j \in IPs \ {ip} : failures'[j] = F[j]
  BY <1>2, <1>3, <1>5 DEF p
<1>8. guesses' = [j \in IPs |-> pruned(failures'[j])]
  <2>1. ASSUME NEW j \in IPs \ {ip}
        PROVE  (IF F[j] = <<>> THEN <<>> ELSE guesses[j]) = pruned(failures'[j])
    BY <1>1, <1>3, <1>7, NoneLeft
  <2>2. Len(guesses[ip]) <= MaxGuesses
    <3>1. /\ Len(guesses[ip]) \in Nat /\ Len(guesses[ip]) + Cardinality(Pending(ip)) <= MaxGuesses
      BY <1>1, PrunedType DEF Inv, Limits, Within
    <3> QED
      BY <3>1, Numbers
  <2>3. Append(guesses[ip], 0) = pruned(failures'[ip])
    BY <1>1, <1>6, <1>7 DEF p
  <2> QED
    BY <1>2, <2>1, <2>2, <2>3
<1>9. Known(failures)' = Known(F) \cup {ip}
  BY <1>5, <1>7 DEF Known
<1> QED
  BY <1>3, <1>5, <1>6, <1>7, <1>8, <1>9 DEF p

\* Every step keeps the books and the limits.
LEMMA InvStep ==
    ASSUME Inv, [Next]_vars
    PROVE  Inv'
<1>0. /\ failures \in [IPs -> Slices] /\ from \in [Requests -> IPs \cup {NoIP}]
      /\ guesses = [ip \in IPs |-> pruned(failures[ip])]
      /\ Cardinality(Known(failures)) <= RateLimitMaxIPs
      /\ \A ip \in IPs : Within(ip) /\ failures[ip] \in Slices
  BY DEF Inv, Shape, Limits
\* No slice grows, and no request gets past the check.
<1>a. ASSUME failures' \in [IPs -> Slices], from' \in [Requests -> IPs \cup {NoIP}],
             guesses' = [j \in IPs |-> pruned(failures'[j])],
             Cardinality(Known(failures)') <= RateLimitMaxIPs,
             \A j \in IPs : /\ Len(failures'[j]) <= Len(failures[j])
                            /\ Len(pruned(failures'[j])) <= Len(pruned(failures[j])),
             \A r \in Requests : from'[r] \in {from[r], NoIP}
      PROVE  Inv'
  <2>1. ASSUME NEW ip \in IPs  PROVE Within(ip)'
    <3>1. Pending(ip)' \subseteq Pending(ip)
      BY <1>a, NoneLeft DEF Pending
    <3> QED
      BY <1>0, <1>a, <3>1, WithinLess
  <2> QED
    BY <1>a, <2>1 DEF Inv, Shape, Limits
<1>b. \A ip \in IPs : Len(failures[ip]) \in Nat /\ Len(pruned(failures[ip])) \in Nat
  BY <1>0, SliceType, PrunedType
<1>1. CASE UNCHANGED vars
  BY <1>0, <1>1, <1>a, <1>b DEF vars, Known
<1>2. ASSUME NEW r \in Requests, NEW ip \in IPs, Admit(r, ip)  PROVE Inv'
  <2>1. /\ failures' = Prune(failures, ip) /\ UNCHANGED guesses /\ from[r] = NoIP
        /\ from' = [from EXCEPT ![r] = ip] /\ Allowed(ip)
    BY <1>2 DEF Admit
  <2>2. /\ failures' \in [IPs -> Slices]
        /\ guesses' = [j \in IPs |-> pruned(failures'[j])]
        /\ Cardinality(Known(failures)') <= RateLimitMaxIPs
        /\ \A j \in IPs : /\ Len(failures'[j]) <= Len(failures[j])
                          /\ pruned(failures'[j]) = pruned(failures[j])
    BY <2>1, PruneStep
  <2>3. ASSUME NEW j \in IPs \ {ip}  PROVE Within(j)'
    <3>1. Pending(j)' \subseteq Pending(j)
      BY <1>0, <2>1 DEF Pending
    <3> QED
      BY <1>0, <1>b, <2>2, <3>1, WithinLess
  <2>4. Within(ip)'
    <3>1. Cardinality(Pending(ip)') \in Nat /\ Cardinality(Pending(ip)') <= Cardinality(Requests)
      <4>1. Pending(ip)' \in SUBSET Requests
        BY DEF Pending
      <4> QED
        BY <4>1, RateLimitConstants, FS_Subset, FS_CardinalityType
    <3>2. Len(pruned(failures'[ip])) < RateLimitCapacity
      BY <2>1, <2>2 DEF Allowed
    <3>3. Len(failures'[ip]) <= MaxGuesses
      <4>1. Len(failures'[ip]) \in Nat
        BY <2>2, SliceType
      <4> QED
        BY <1>0, <1>b, <2>2, <4>1, Numbers DEF Within
    <3>4. MaxGuesses' = MaxGuesses
      BY DEF MaxGuesses
    <3>5. Len(pruned(failures'[ip])) \in Nat
      BY <1>b, <2>2
    <3>6. Len(pruned(failures'[ip])) + Cardinality(Pending(ip)') <= MaxGuesses
      BY <3>1, <3>2, <3>5, Numbers, RateLimitConstants
    <3> QED
      BY <3>3, <3>4, <3>6 DEF Within
  <2>5. from' \in [Requests -> IPs \cup {NoIP}]
    BY <1>0, <2>1
  <2> QED
    BY <2>2, <2>3, <2>4, <2>5 DEF Inv, Shape, Limits
<1>3. ASSUME NEW r \in Requests, NEW ip \in IPs, Refuse(r, ip)  PROVE Inv'
  <2>1. failures' = Prune(failures, ip) /\ UNCHANGED <<from, guesses>>
    BY <1>3 DEF Refuse
  <2> QED
    BY <1>0, <1>a, <1>b, <2>1, PruneStep
<1>4. ASSUME NEW r \in Requests, BadForm(r)  PROVE Inv'
  <2>1. UNCHANGED <<failures, guesses>> /\ from' = [from EXCEPT ![r] = NoIP]
    BY <1>4 DEF BadForm, Done
  <2> QED
    BY <1>0, <1>a, <1>b, <2>1 DEF Known
<1>5. ASSUME NEW r \in Requests, WrongToken(r)  PROVE Inv'
  <2>1. PICK ip \in IPs : /\ from[r] = ip /\ from' = [from EXCEPT ![r] = NoIP]
                          /\ RateLimitRecordFailure(ip)
    BY <1>0, <1>5 DEF WrongToken, Done
  <2>2. /\ failures' \in [IPs -> Slices]
        /\ guesses' = [j \in IPs |-> pruned(failures'[j])]
        /\ Cardinality(Known(failures)') <= RateLimitMaxIPs
        /\ Len(failures'[ip]) = Len(pruned(failures[ip])) + 1
        /\ pruned(failures'[ip]) = failures'[ip]
        /\ \A j \in IPs \ {ip} : failures'[j] = failures[j] \/ failures'[j] = <<>>
    BY <2>1, RecordStep
  <2>3. ASSUME NEW j \in IPs \ {ip}  PROVE Within(j)'
    <3>1. Pending(j)' \subseteq Pending(j)
      BY <1>0, <2>1, NoneLeft DEF Pending
    <3>2. /\ Len(failures'[j]) <= Len(failures[j])
          /\ Len(pruned(failures'[j])) <= Len(pruned(failures[j]))
      BY <1>b, <2>2, NoneLeft
    <3> QED
      BY <1>0, <2>2, <3>1, <3>2, WithinLess
  <2>4. Within(ip)'
    <3>1. Pending(ip)' = Pending(ip) \ {r} /\ r \in Pending(ip)
      BY <1>0, <2>1, NoneLeft DEF Pending
    <3>2. Cardinality(Pending(ip)') = Cardinality(Pending(ip)) - 1
      BY <3>1, Numbers, FS_RemoveElement
    <3>3. Cardinality(Pending(ip)') \in Nat
      BY <3>1, Numbers, FS_RemoveElement, FS_CardinalityType
    <3>4. MaxGuesses' = MaxGuesses
      BY DEF MaxGuesses
    <3>5. /\ Len(pruned(failures[ip])) + Cardinality(Pending(ip)) <= MaxGuesses
          /\ Len(pruned(failures[ip])) \in Nat /\ Cardinality(Pending(ip)) \in Nat /\ MaxGuesses \in Nat
      BY <1>0, <1>b, <2>1, Numbers DEF Within
    <3>6. Len(failures'[ip]) + Cardinality(Pending(ip)') <= MaxGuesses /\ Len(failures'[ip]) <= MaxGuesses
      BY <2>2, <3>2, <3>3, <3>5
    <3> QED
      BY <2>2, <3>4, <3>6 DEF Within
  <2>5. from' \in [Requests -> IPs \cup {NoIP}]
    BY <1>0, <2>1
  <2> QED
    BY <2>2, <2>3, <2>4, <2>5 DEF Inv, Shape, Limits
<1>6. ASSUME NEW r \in Requests, RightToken(r)  PROVE Inv'
  <2>1. /\ from[r] \in IPs /\ from' = [from EXCEPT ![r] = NoIP]
        /\ failures' = [failures EXCEPT ![from[r]] = <<>>]
        /\ guesses' = [guesses EXCEPT ![from[r]] = <<>>]
    BY <1>0, <1>6 DEF RightToken, Done, RateLimitRecordSuccess
  <2>2. failures' \in [IPs -> Slices] /\ guesses' = [j \in IPs |-> pruned(failures'[j])]
    BY <1>0, <2>1, NoneLeft
  <2>3. \A j \in IPs : /\ Len(failures'[j]) <= Len(failures[j])
                       /\ Len(pruned(failures'[j])) <= Len(pruned(failures[j]))
    BY <1>0, <1>b, <2>1, NoneLeft
  <2>4. Known(failures') \subseteq Known(failures)
    BY <1>0, <2>1 DEF Known
  <2>5. Cardinality(Known(failures')) <= RateLimitMaxIPs
    BY <1>0, <2>4, KnownIsFinite, FS_Subset, RateLimitConstants
  <2>6. from' \in [Requests -> IPs \cup {NoIP}] /\ \A x \in Requests : from'[x] \in {from[x], NoIP}
    BY <1>0, <2>1
  <2>7. Known(failures)' = Known(failures')
    BY DEF Known
  <2> QED
    BY <1>a, <2>2, <2>3, <2>5, <2>6, <2>7
<1>7. CASE Tick
  <2>1. /\ failures' = [ip \in IPs |-> Older(failures[ip])] /\ UNCHANGED from
        /\ guesses' = [ip \in IPs |-> pruned(Older(guesses[ip]))]
    BY <1>7 DEF Tick
  <2>2. ASSUME NEW ip \in IPs
        PROVE  /\ failures'[ip] \in Slices /\ Len(failures'[ip]) = Len(failures[ip])
               /\ failures'[ip] = <<>> <=> failures[ip] = <<>>
               /\ guesses'[ip] = pruned(failures'[ip])
               /\ Len(pruned(failures'[ip])) <= Len(pruned(failures[ip]))
    <3> DEFINE f == failures[ip]
    <3>1. f \in Slices /\ pruned(f) \in Slices /\ failures'[ip] = Older(f)
          /\ guesses'[ip] = pruned(Older(pruned(f)))
      BY <1>0, <2>1, PrunedType
    <3> HIDE DEF f
    <3>2. guesses'[ip] = pruned(Older(f))
      BY <3>1, PrunedOlder
    <3>3. Len(pruned(Older(pruned(f)))) <= Len(Older(pruned(f))) /\ Len(Older(pruned(f))) = Len(pruned(f))
      BY <3>1, OlderType, PrunedType
    <3> QED
      BY <3>1, <3>2, <3>3, OlderType DEF f
  <2>3. Known(failures)' = Known(failures)
    BY <2>2 DEF Known
  <2>4. failures' \in [IPs -> Slices] /\ guesses' = [j \in IPs |-> pruned(failures'[j])]
    BY <2>1, <2>2
  <2> QED
    BY <1>0, <1>a, <1>b, <2>1, <2>2, <2>3, <2>4
<1>8. CASE Restart
  <2>1. /\ failures' = [ip \in IPs |-> <<>>] /\ from' = [r \in Requests |-> NoIP]
        /\ guesses' = [ip \in IPs |-> <<>>]
    BY <1>8 DEF Restart
  <2>2. failures' \in [IPs -> Slices] /\ guesses' = [j \in IPs |-> pruned(failures'[j])]
    BY <2>1, NoneLeft
  <2>3. Known(failures)' \subseteq Known(failures)
    BY <2>1 DEF Known
  <2>4. Cardinality(Known(failures)') <= RateLimitMaxIPs
    BY <1>0, <2>3, KnownIsFinite, FS_Subset, FS_CardinalityType, RateLimitConstants
  <2> QED
    BY <1>0, <1>a, <1>b, <2>1, <2>2, <2>4, NoneLeft
<1> QED
  BY <1>1, <1>2, <1>3, <1>4, <1>5, <1>6, <1>7, <1>8 DEF Next

\* They hold of the empty map.
LEMMA InitialInv == Init => Inv
<1> SUFFICES ASSUME Init PROVE Inv
  OBVIOUS
<1>1. Shape
  BY NoneLeft DEF Init, Shape
<1>2. Known(failures) = {}
  BY DEF Init, Known
<1>3. \A ip \in IPs : Pending(ip) = {}
  BY NoneLeft DEF Init, Pending
<1>4. \A ip \in IPs : Within(ip)
  BY <1>3, NoneLeft, Numbers, FS_EmptySet DEF Init, Within
<1> QED
  BY <1>1, <1>2, <1>4, FS_EmptySet, RateLimitConstants DEF Inv, Limits

\* They hold in every reachable state.
LEMMA Limited == Spec => []Inv
<1>1. Inv /\ [Next]_vars => Inv'
  BY InvStep
<1> QED
  BY <1>1, InitialInv, PTL DEF Spec

-----------------------------------------------------------------------------
(* What follows                                                             *)

(***************************************************************************)
(* The map and its slices stay bounded, whatever number of IPs fails how   *)
(* often: pruning keeps pace with recording, and RateLimitMaxIPs holds.    *)
(***************************************************************************)
THEOREM TypeCorrect == Spec => []TypeOK
<1>1. Inv => TypeOK
  <2> SUFFICES ASSUME Inv PROVE TypeOK
    OBVIOUS
  <2>1. failures \in [IPs -> Seq(Ages)]
    BY DEF Inv, Shape, Slices
  <2>2. guesses \in [IPs -> Seq(0 .. Window - 1)]
    BY PrunedType DEF Inv, Shape
  <2> QED
    BY <2>1, <2>2 DEF Inv, Shape, Limits, Within, TypeOK
<1> QED
  BY <1>1, Limited, PTL

(***************************************************************************)
(* Checks and records of several requests may interleave in any order: an  *)
(* IP has at most RateLimitCapacity wrong tokens compared in a window, and *)
(* one more for every other request that was past the check by then.       *)
(***************************************************************************)
THEOREM GuessesAreBounded == Spec => []GuessesBounded
<1>1. Inv => GuessesBounded
  <2> SUFFICES ASSUME Inv, NEW ip \in IPs PROVE Len(guesses[ip]) <= MaxGuesses
    BY DEF GuessesBounded
  <2>1. guesses[ip] = pruned(failures[ip]) /\ Len(pruned(failures[ip])) \in Nat
    BY LenType DEF Inv
  <2>2. Len(pruned(failures[ip])) + Cardinality(Pending(ip)) <= MaxGuesses
    BY DEF Inv, Limits, Within
  <2> QED
    BY <2>1, <2>2, Numbers
<1> QED
  BY <1>1, Limited, PTL

(***************************************************************************)
(* Only a full map of live counters forgets one that is not its IP's own   *)
(* success, and then one whose IP has been quiet for as long as any other: *)
(* nobody gets rid of a counter by failing from other IPs while there is   *)
(* room, or before his own is the stalest (auth.go evictOldestLocked).     *)
(***************************************************************************)
THEOREM EvictionTakesTheStalest == Spec => StalestGoesFirst
<1> DEFINE A == \A a \in IPs : Forgets(a) =>
         /\ Cardinality({ip \in IPs : pruned(failures[ip]) # <<>>}) = RateLimitMaxIPs
         /\ \A b \in IPs \ {a} : failures[b] # <<>> /\ failures'[b] # <<>>
              => Newest(failures[b]) <= Newest(failures[a])
<1>1. ASSUME Inv, Next  PROVE A
  <2> SUFFICES ASSUME NEW a \in IPs, Forgets(a)
               PROVE  /\ Cardinality({ip \in IPs : pruned(failures[ip]) # <<>>}) = RateLimitMaxIPs
                      /\ \A b \in IPs \ {a} : failures[b] # <<>> /\ failures'[b] # <<>>
                           => Newest(failures[b]) <= Newest(failures[a])
    OBVIOUS
  <2>0. /\ failures \in [IPs -> Slices] /\ pruned(failures[a]) # <<>> /\ failures'[a] = <<>>
        /\ from \in [Requests -> IPs \cup {NoIP}]
        /\ Cardinality(Known(failures)) <= RateLimitMaxIPs
        /\ failures[a] \in Slices /\ failures[a] # <<>>
    BY <1>1, PrunedType DEF Forgets, Inv, Shape, Limits
  \* Nothing else empties a slice in which something is live.
  <2>1. PICK r \in Requests : WrongToken(r)
    <3>1. ASSUME NEW ip \in IPs, failures' = Prune(failures, ip)  PROVE FALSE
      BY <2>0, <3>1 DEF Prune
    <3>2. ASSUME NEW r \in Requests, BadForm(r)  PROVE FALSE
      BY <2>0, <3>2 DEF BadForm
    <3>3. ASSUME NEW r \in Requests, RightToken(r)  PROVE FALSE
      <4>1. from[r] # a /\ failures' = [failures EXCEPT ![from[r]] = <<>>]
        BY <3>3 DEF Forgets, RightToken, RateLimitRecordSuccess
      <4> QED
        BY <2>0, <4>1
    <3>4. CASE Tick
      BY <2>0, <3>4, OlderType DEF Tick
    <3>5. ~ Restart
      BY DEF Forgets
    <3> QED
      BY <1>1, <3>1, <3>2, <3>3, <3>4, <3>5 DEF Next, Admit, Refuse
  <2>2. PICK ip \in IPs : RateLimitRecordFailure(ip)
    BY <2>0, <2>1 DEF WrongToken, Done
  <2>3. PICK F \in MakeRoom(Prune(failures, ip), ip) : failures' = [F EXCEPT ![ip] = Append(@, 0)]
    BY <2>2 DEF RateLimitRecordFailure
  <2>4. /\ F \in [IPs -> Slices] /\ F[ip] = pruned(failures[ip])
        /\ \A x \in Alive(failures) : x # ip /\ F[x] = <<>> =>
             /\ Cardinality(Alive(failures)) = RateLimitMaxIPs /\ failures[ip] = <<>>
             /\ \A b \in IPs \ {x} : F[b] # <<>> => Newest(failures[b]) <= Newest(failures[x])
    BY <2>0, RoomIsMade
  <2>5. failures'[ip] # <<>>
    BY <2>2, <1>1, RecordStep
  <2>6. a # ip /\ F[a] = <<>> /\ a \in Alive(failures)
    BY <2>0, <2>3, <2>4, <2>5 DEF Alive
  <2>7. /\ Cardinality(Alive(failures)) = RateLimitMaxIPs /\ failures[ip] = <<>>
        /\ \A b \in IPs \ {a} : F[b] # <<>> => Newest(failures[b]) <= Newest(failures[a])
    BY <2>4, <2>6
  <2>8. ASSUME NEW b \in IPs \ {a}, failures[b] # <<>>, failures'[b] # <<>>
        PROVE  Newest(failures[b]) <= Newest(failures[a])
    <3>1. b # ip /\ F[b] = failures'[b]
      BY <2>3, <2>4, <2>7, <2>8
    <3> QED
      BY <2>7, <2>8, <3>1
  <2> QED
    BY <2>7, <2>8 DEF Alive
<1>2. Inv /\ [Next]_vars => [A]_vars
  BY <1>1
<1>3. Spec => [][A]_vars
  BY <1>2, Limited, PTL DEF Spec
<1> QED
  BY <1>3 DEF StalestGoesFirst

(***************************************************************************)
(* How many of a slice's failures still count after some more ticks.       *)
(***************************************************************************)
LEMMA StillLive ==
    ASSUME Inv, NEW ip \in IPs, NEW ticks \in Nat, pruned(failures[ip]) # <<>>
    PROVE  /\ First(pruned(failures[ip])) \in 0 .. Window - 1
           /\ First(pruned(failures[ip])) + ticks < Window =>
                Cardinality({n \in DOMAIN failures[ip] : failures[ip][n] + ticks < Window})
                   = Len(pruned(failures[ip]))
           /\ First(pruned(failures[ip])) + ticks >= Window =>
                Cardinality({n \in DOMAIN failures[ip] : failures[ip][n] + ticks < Window})
                   < Len(pruned(failures[ip]))
<1> DEFINE f == failures[ip]
           S == {n \in DOMAIN f : f[n] + ticks < Window}
<1>1. f \in Slices
  BY DEF Inv, Shape
<1> HIDE DEF f
<1>2. PICK m \in 0 .. Len(f) : \A n \in 1 .. Len(f) : Live(f[n]) <=> n > m
  BY <1>1, LiveAreBehind
<1>3. pruned(f) = [k \in 1 .. Len(f) - m |-> f[m + k]]
  BY <1>1, <1>2, PrunedIsBehind
<1>4. Len(f) \in Nat /\ m \in Nat /\ DOMAIN f = 1 .. Len(f)
  BY <1>1, SliceType
<1>5. Len(pruned(f)) = Len(f) - m
  BY <1>3, <1>4
<1>6. m + 1 \in 1 .. Len(f) /\ First(pruned(f)) = f[m + 1]
  <2>1. pruned(f) \in Seq(Ages) /\ Len(pruned(f)) # 0
    BY <1>1, PrunedType, SliceType DEF f
  <2>2. 1 \in 1 .. Len(f) - m
    BY <1>4, <1>5, <2>1
  <2> QED
    BY <1>3, <1>4, <2>2 DEF First
<1>7. f[m + 1] \in 0 .. Window - 1
  <2>1. Live(f[m + 1]) /\ f[m + 1] \in Nat
    BY <1>1, <1>2, <1>4, <1>6, SliceType
  <2> QED
    BY <2>1, RateLimitConstants DEF Live
<1>8. S \subseteq m + 1 .. Len(f)
  <2> SUFFICES ASSUME NEW n \in 1 .. Len(f), f[n] + ticks < Window PROVE n > m
    BY <1>4
  <2>1. f[n] \in Nat
    BY <1>1, SliceType
  <2>2. Live(f[n])
    BY <2>1, RateLimitConstants DEF Live
  <2> QED
    BY <1>2, <2>2
<1>9. IsFiniteSet(m + 1 .. Len(f)) /\ Cardinality(m + 1 .. Len(f)) = Len(f) - m
  BY <1>4, Between
<1>10. ASSUME f[m + 1] + ticks < Window  PROVE Cardinality(S) = Len(f) - m
  <2>1. ASSUME NEW n \in m + 1 .. Len(f)  PROVE n \in S
    <3>1. n \in 1 .. Len(f) /\ f[n] <= f[m + 1] /\ f[n] \in Nat
      BY <1>1, <1>4, <1>6, SliceType
    <3> QED
      BY <1>4, <1>7, <1>10, <3>1, RateLimitConstants
  <2>2. S = m + 1 .. Len(f)
    BY <1>8, <2>1
  <2> QED
    BY <1>9, <2>2
<1>11. ASSUME f[m + 1] + ticks >= Window  PROVE Cardinality(S) < Len(f) - m
  <2>1. m + 1 \notin S /\ m + 1 \in m + 1 .. Len(f)
    BY <1>4, <1>6, <1>7, <1>11, RateLimitConstants
  <2> HIDE DEF S
  <2>2. S \in SUBSET (m + 1 .. Len(f)) /\ S # m + 1 .. Len(f)
    BY <1>8, <2>1
  <2>3. Cardinality(S) <= Len(f) - m /\ Cardinality(S) # Len(f) - m
    BY <1>9, <2>2, FS_Subset
  <2>4. Cardinality(S) \in Nat
    BY <1>9, <2>2, FS_Subset, FS_CardinalityType
  <2> QED
    BY <1>4, <2>3, <2>4
<1> QED
  BY <1>5, <1>6, <1>7, <1>10, <1>11 DEF f

(***************************************************************************)
(* Retry-After, in whole seconds.                                          *)
(***************************************************************************)
LEMMA RetryAfterIs ==
    ASSUME NEW ip, NEW left \in Nat, Window - First(pruned(failures[ip])) = left
    PROVE  /\ RetryAfter(ip) \in Nat \ {0}
           /\ RetryAfter(ip) > 1 => RetryAfter(ip) * Second <= left
           /\ left < (RetryAfter(ip) + 1) * Second
<1> DEFINE q == left \div Second
<1>1. /\ q \in Nat /\ q * Second <= left /\ left < q * Second + Second
  BY RateLimitConstants
<1> HIDE DEF q
<1>2. RetryAfter(ip) = Max({1, q})
  BY DEF RetryAfter, q
<1>3. Max({1, q}) \in {1, q} /\ Max({1, q}) >= 1 /\ Max({1, q}) >= q
  <2>1. \E x \in {1, q} : \A y \in {1, q} : x >= y
    BY <1>1
  <2> QED
    BY <2>1 DEF Max
<1>4. (RetryAfter(ip) + 1) * Second >= q * Second + Second
  BY <1>1, <1>2, <1>3, RateLimitConstants
<1> QED
  BY <1>1, <1>2, <1>3, <1>4, RateLimitConstants

(***************************************************************************)
(* Who gets 429 has earned it by RateLimitCapacity wrong tokens inside the *)
(* window since the last success, and what Retry-After says is true: until *)
(* then he would be refused, and a second later he would not, if no more   *)
(* than RateLimitCapacity failures are live (auth.go RateLimitCheck; the   *)
(* wait is cut to whole seconds by middleware.go withRateLimit).           *)
(***************************************************************************)
THEOREM RefusalsTellTheTruth == Spec => []RefusalsAreHonest
<1>1. ASSUME Inv, NEW ip \in IPs, ~ Allowed(ip)
      PROVE  /\ Len(guesses[ip]) >= RateLimitCapacity
             /\ RetryAfter(ip) > 1 =>
                  \A ticks \in 0 .. RetryAfter(ip) * Second - 1 : ~AllowedAfter(ip, ticks)
             /\ Len(pruned(failures[ip])) = RateLimitCapacity =>
                  AllowedAfter(ip, (RetryAfter(ip) + 1) * Second)
  <2>1. /\ Len(pruned(failures[ip])) \in Nat /\ guesses[ip] = pruned(failures[ip])
        /\ pruned(failures[ip]) \in Slices
    BY <1>1, LenType DEF Inv
  <2>2. Len(pruned(failures[ip])) >= RateLimitCapacity
    BY <1>1, <2>1, RateLimitConstants DEF Allowed
  <2>3. pruned(failures[ip]) # <<>>
    BY <2>2, NoneLeft, RateLimitConstants
  <2> DEFINE first == First(pruned(failures[ip]))
             left == Window - first
  <2>4. first \in 0 .. Window - 1
    BY <1>1, <2>3, StillLive
  <2>5. left \in Nat /\ first \in Nat /\ Window = first + left
    BY <2>4, RateLimitConstants
  <2>6. /\ RetryAfter(ip) \in Nat \ {0}
        /\ RetryAfter(ip) > 1 => RetryAfter(ip) * Second <= left
        /\ left < (RetryAfter(ip) + 1) * Second
    BY <2>5, RetryAfterIs
  <2> HIDE DEF left
  <2>7. ASSUME RetryAfter(ip) > 1, NEW ticks \in 0 .. RetryAfter(ip) * Second - 1
        PROVE  ~ AllowedAfter(ip, ticks)
    <3>1. RetryAfter(ip) * Second \in Nat
      BY <2>6, RateLimitConstants
    <3>2. ticks \in Nat /\ first + ticks < Window
      BY <2>5, <2>6, <2>7, <3>1
    <3>3. Cardinality({n \in DOMAIN failures[ip] : failures[ip][n] + ticks < Window})
             = Len(pruned(failures[ip]))
      BY <1>1, <2>3, <3>2, StillLive
    <3> QED
      BY <2>1, <2>2, <3>3, RateLimitConstants DEF AllowedAfter
  <2>8. ASSUME Len(pruned(failures[ip])) = RateLimitCapacity
        PROVE  AllowedAfter(ip, (RetryAfter(ip) + 1) * Second)
    <3> DEFINE ticks == (RetryAfter(ip) + 1) * Second
    <3>1. ticks \in Nat
      BY <2>6, RateLimitConstants
    <3>2. first + ticks >= Window
      BY <2>5, <2>6, <3>1
    <3> HIDE DEF ticks
    <3>3. Cardinality({n \in DOMAIN failures[ip] : failures[ip][n] + ticks < Window})
             < Len(pruned(failures[ip]))
      BY <1>1, <2>3, <3>1, <3>2, StillLive
    <3>4. AllowedAfter(ip, ticks)
      BY <2>8, <3>3 DEF AllowedAfter
    <3> QED
      BY <3>4 DEF ticks
  <2> QED
    BY <2>1, <2>2, <2>7, <2>8
<1>2. Inv => RefusalsAreHonest
  BY <1>1 DEF RefusalsAreHonest
<1> QED
  BY <1>2, Limited, PTL

=============================================================================
