--------------------------- MODULE StartupProofs ---------------------------
(***************************************************************************)
(* What .env holds, for every number of lines, starts and stops, wherever  *)
(* a start ends.                                                           *)
(***************************************************************************)
EXTENDS Startup, FiniteSetTheorems, NaturalsInduction, TLAPS

Lines == Seq(Line)

(***************************************************************************)
(* The maximum of some line numbers is one of them, and none is greater.   *)
(***************************************************************************)
LEMMA MaxOfNumbers ==
    ASSUME NEW n \in Nat, NEW S \in SUBSET (1 .. n), S # {}
    PROVE  Max(S) \in S /\ \A x \in S : x <= Max(S)
<1> DEFINE D == {n - x : x \in S}
<1>0. \A x \in S : x \in Int /\ n - x \in Nat
  OBVIOUS
<1>1. D # {} /\ D \subseteq Nat
  BY <1>0
<1>2. PICK d \in D : \A e \in D : ~ (<<e, d>> \in OpToRel(<, Nat))
  BY <1>1, NatLessThanWellFounded, WFMin
<1>3. \A e \in D : d <= e
  <2> HIDE DEF D
  <2>1. \A e \in D : ~ (e < d)
    BY <1>1, <1>2 DEF OpToRel
  <2> QED
    BY <1>1, <2>1
<1>4. PICK m \in S : d = n - m
  OBVIOUS
<1>5. \A x \in S : m >= x
  <2> TAKE x \in S
  <2>1. n - x \in D
    OBVIOUS
  <2> QED
    BY <1>3, <1>4, <2>1
<1>6. Max(S) \in S /\ \A x \in S : Max(S) >= x
  BY <1>4, <1>5 DEF Max
<1> QED
  BY <1>6

(***************************************************************************)
(* Load reads a key from its last line.                                    *)
(***************************************************************************)
At(lines, k) == {n \in DOMAIN lines : lines[n].key = k}

\* godotenv takes the last line of a key, if that holds a value.
LEMMA LookupReads ==
    ASSUME NEW lines \in Lines, NEW k
    PROVE  /\ At(lines, k) # {} =>
                /\ Max(At(lines, k)) \in DOMAIN lines
                /\ lines[Max(At(lines, k))].key = k
                /\ \A n \in At(lines, k) : n <= Max(At(lines, k))
           /\ Lookup(lines, k) =
                IF At(lines, k) # {} /\ lines[Max(At(lines, k))].val # Unset
                THEN lines[Max(At(lines, k))].val ELSE exported[k]
<1>1. Len(lines) \in Nat /\ At(lines, k) \in SUBSET (1 .. Len(lines))
  BY DEF Lines, At
<1>2. At(lines, k) # {} => Max(At(lines, k)) \in At(lines, k)
                           /\ \A x \in At(lines, k) : x <= Max(At(lines, k))
  BY <1>1, MaxOfNumbers
<1> QED
  BY <1>2 DEF Lookup, At

(***************************************************************************)
(* A walk of a finite set meets all of it.                                 *)
(***************************************************************************)
LEMMA WalkMeetsAll ==
    ASSUME NEW S, IsFiniteSet(S), NEW more \in SetToSeqs(S)
    PROVE  more \in Seq(S) /\ \A x \in S : \E n \in DOMAIN more : more[n] = x
<1> DEFINE D == 1 .. Cardinality(S)
<1>1. Cardinality(S) \in Nat
  BY FS_CardinalityType
<1>2. more \in [D -> S] /\ \A i, j \in D : i # j => more[i] # more[j]
  BY DEF SetToSeqs
<1>3. more \in Injection(D, S)
  BY <1>2 DEF Injection, IsInjective
<1>4. IsFiniteSet(D) /\ Cardinality(D) = Cardinality(S)
  BY <1>1, FS_Interval
<1>5. more \in Surjection(D, S)
  BY <1>3, <1>4, FS_Injection
<1> QED
  BY <1>1, <1>2, <1>5 DEF Surjection

(***************************************************************************)
(* What persistGenerated makes of the lines it read: they stay in place,   *)
(* those of a generated secret get its value, and a secret that had no     *)
(* line gets one behind them.                                              *)
(***************************************************************************)
Updates(l, lines, kv) ==
    /\ l \in Lines /\ DOMAIN lines \subseteq DOMAIN l
    /\ \A n \in DOMAIN lines :
         /\ l[n].key = lines[n].key /\ l[n].export = lines[n].export
         /\ l[n].key \notin DOMAIN kv => l[n].val = lines[n].val
    /\ \A n \in DOMAIN l \ DOMAIN lines :
         l[n].key \in DOMAIN kv /\ \A m \in DOMAIN lines : lines[m].key # l[n].key
    /\ \A n \in DOMAIN l : l[n].key \in DOMAIN kv => l[n].val = kv[l[n].key]
    /\ \A k \in DOMAIN kv : At(l, k) # {}

\* persistGenerated replaces what is there and appends what is not.
LEMMA PersistUpdates ==
    ASSUME NEW lines \in Lines, NEW K \in SUBSET Secrets, NEW kv \in [K -> Values],
           NEW l \in Appended(Replaced(lines, kv), kv)
    PROVE  Updates(l, lines, kv)
<1> DEFINE old == Replaced(lines, kv)
           unseen == {Plain(k, kv[k]) : k \in K \ {old[n].key : n \in DOMAIN old}}
<1>1. /\ old \in Lines /\ DOMAIN old = DOMAIN lines /\ Len(old) = Len(lines)
      /\ \A n \in DOMAIN lines :
           /\ old[n].key = lines[n].key /\ old[n].export = lines[n].export
           /\ old[n].key \notin K => old[n].val = lines[n].val
           /\ old[n].key \in K => old[n].val = kv[old[n].key]
  <2>1. \A n \in DOMAIN lines : lines[n] \in Line
    BY DEF Lines
  <2>2. ASSUME NEW n \in DOMAIN lines
        PROVE  /\ old[n] \in Line
               /\ old[n].key = lines[n].key /\ old[n].export = lines[n].export
               /\ old[n].key \notin K => old[n].val = lines[n].val
               /\ old[n].key \in K => old[n].val = kv[old[n].key]
    <3>1. CASE lines[n].key \in K
      <4>1. old[n] = [lines[n] EXCEPT !.val = kv[lines[n].key]]
        BY <3>1 DEF Replaced
      <4>2. kv[lines[n].key] \in Values
        BY <3>1
      <4>3. old[n] = [key |-> lines[n].key, export |-> lines[n].export, val |-> kv[lines[n].key]]
        BY <2>1, <4>1 DEF Line
      <4> QED
        BY <2>1, <3>1, <4>2, <4>3 DEF Line
    <3>2. CASE lines[n].key \notin K
      BY <2>1, <3>2 DEF Replaced
    <3> QED
      BY <3>1, <3>2
  <2>3. old = [n \in 1 .. Len(lines) |-> old[n]] /\ DOMAIN old = 1 .. Len(lines)
    BY DEF Replaced, Lines
  <2>4. old \in Lines
    <3>1. old \in [1 .. Len(lines) -> Line] /\ Len(lines) \in Nat
      <4>1. DOMAIN lines = 1 .. Len(lines) /\ Len(lines) \in Nat
        BY DEF Lines
      <4>2. \A n \in 1 .. Len(lines) : old[n] \in Line
        BY <2>2, <4>1
      <4> HIDE DEF old
      <4> QED
        BY <2>3, <4>1, <4>2
    <3> QED
      BY <3>1 DEF Lines
  <2>5. DOMAIN old = DOMAIN lines /\ Len(old) = Len(lines)
    <3> HIDE DEF old
    <3>1. Len(lines) \in Nat /\ Len(old) \in Nat
          /\ 1 .. Len(old) = 1 .. Len(lines) /\ DOMAIN lines = 1 .. Len(lines)
      BY <2>3, <2>4 DEF Lines
    <3> QED
      BY <2>3, <3>1
  <2> QED
    BY <2>2, <2>4, <2>5, Zenon
<1>2. IsFiniteSet(unseen) /\ unseen \subseteq Line
  <2> DEFINE a == Plain("AUTH_TOKEN", kv["AUTH_TOKEN"])
             b == Plain("SESSION_SECRET", kv["SESSION_SECRET"])
  <2>1. unseen \in SUBSET ({a} \cup {b})
    BY DEF Secrets
  <2>2. IsFiniteSet({a} \cup {b})
    BY FS_Singleton, FS_Union
  <2>3. \A k \in K : Plain(k, kv[k]) \in Line
    BY DEF Line, Plain
  <2> QED
    BY <2>1, <2>2, <2>3, FS_Subset
<1>3. PICK more \in SetToSeqs(unseen) : l = old \o more
  BY DEF Appended
<1>4. more \in Seq(unseen) /\ \A x \in unseen : \E n \in DOMAIN more : more[n] = x
  <2> HIDE DEF unseen
  <2> QED
    BY <1>2, <1>3, WalkMeetsAll
<1>5. more \in Lines
  BY <1>2, <1>4 DEF Lines
<1>6. /\ l \in Lines /\ DOMAIN lines \subseteq DOMAIN l
      /\ \A n \in DOMAIN lines : l[n] = old[n]
      /\ \A n \in DOMAIN l \ DOMAIN lines : n - Len(lines) \in DOMAIN more /\ l[n] = more[n - Len(lines)]
      /\ \A n \in DOMAIN more : n + Len(lines) \in DOMAIN l /\ l[n + Len(lines)] = more[n]
  BY <1>1, <1>3, <1>5 DEF Lines
<1>7. \A n \in DOMAIN more :
         /\ more[n].key \in K /\ more[n].val = kv[more[n].key]
         /\ \A m \in DOMAIN lines : lines[m].key # more[n].key
  <2> TAKE n \in DOMAIN more
  <2>1. more[n] \in unseen
    BY <1>4
  <2>2. PICK k \in K : k \notin {old[m].key : m \in DOMAIN old} /\ more[n] = Plain(k, kv[k])
    BY <2>1
  <2>3. more[n].key = k /\ more[n].val = kv[k]
    BY <2>2 DEF Plain
  <2> QED
    BY <1>1, <2>2, <2>3
<1>8. ASSUME NEW k \in K  PROVE At(l, k) # {}
  <2>1. CASE \E n \in DOMAIN lines : lines[n].key = k
    BY <1>1, <1>6, <2>1 DEF At
  <2>2. CASE \A n \in DOMAIN lines : lines[n].key # k
    <3>1. Plain(k, kv[k]) \in unseen
      BY <1>1, <2>2
    <3>2. PICK n \in DOMAIN more : more[n] = Plain(k, kv[k])
      BY <1>4, <3>1
    <3>3. n + Len(lines) \in DOMAIN l /\ l[n + Len(lines)].key = k
      BY <1>6, <3>2 DEF Plain
    <3> QED
      BY <3>3 DEF At
  <2> QED
    BY <2>1, <2>2
<1>9. DOMAIN kv = K
  OBVIOUS
<1>10. \A n \in DOMAIN lines :
         /\ l[n].key = lines[n].key /\ l[n].export = lines[n].export
         /\ l[n].key \notin K => l[n].val = lines[n].val
         /\ l[n].key \in K => l[n].val = kv[l[n].key]
  BY <1>1, <1>6
<1>11. \A n \in DOMAIN l \ DOMAIN lines :
         /\ l[n].key \in K /\ l[n].val = kv[l[n].key]
         /\ \A m \in DOMAIN lines : lines[m].key # l[n].key
  BY <1>6, <1>7
<1> QED
  BY <1>6, <1>8, <1>9, <1>10, <1>11 DEF Updates

(***************************************************************************)
(* A secret reads as written, everything else as before.                   *)
(***************************************************************************)
LEMMA UpdateReadsBack ==
    ASSUME NEW lines \in Lines, NEW l, NEW kv, Updates(l, lines, kv), NEW k \in Secrets,
           k \in DOMAIN kv => kv[k] # Unset
    PROVE  Lookup(l, k) = IF k \in DOMAIN kv THEN kv[k] ELSE Lookup(lines, k)
<1>1. CASE k \in DOMAIN kv
  <2> DEFINE n == Max(At(l, k))
  <2>1. l \in Lines /\ At(l, k) # {}
    BY <1>1 DEF Updates
  <2>2. n \in DOMAIN l /\ l[n].key = k
    BY <2>1, LookupReads
  <2>3. l[n].val = kv[k]
    BY <1>1, <2>2 DEF Updates
  <2> QED
    BY <1>1, <2>1, <2>3, LookupReads
<1>2. CASE k \notin DOMAIN kv
  <2>1. At(l, k) = At(lines, k)
    BY <1>2 DEF Updates, At
  <2>2. \A n \in At(lines, k) : l[n].val = lines[n].val
    BY <1>2 DEF Updates, At
  <2>3. l \in Lines
    BY DEF Updates
  <2>4. At(lines, k) # {} => Max(At(lines, k)) \in At(lines, k)
    BY LookupReads DEF At
  <2> QED
    BY <1>2, <2>1, <2>2, <2>3, <2>4, LookupReads
<1> QED
  BY <1>1, <1>2

-----------------------------------------------------------------------------
(* Domains.                                                                 *)

(***************************************************************************)
(* The domains of the variables, TypeOK's and the files'.                  *)
(***************************************************************************)
Shape ==
    /\ pc \in [Instances -> Steps]
    /\ cfg \in [Instances -> [Secrets -> Values]]
    /\ gen \in [Instances -> SUBSET Secrets]
    /\ out \in [Instances -> Lines]
    /\ fd \in [Instances -> Inodes \cup {NoInode}]
    /\ inode \in [Inodes -> [body : Lines \cup {Torn}, synced : BOOLEAN]]
    /\ env \in Inodes \cup {NoInode} /\ hard \in Inodes \cup {NoInode}
    /\ tmp \in Inodes \cup {NoInode}
    /\ dirSyncs \in BOOLEAN /\ exported \in [Secrets -> Values] /\ first \in Lines
    /\ printed \subseteq Values
    /\ starts \in 0..MaxStarts /\ stops \in 0..MaxStops /\ made \in Nat

\* Files are open while they are written, and .env.tmp is a file of its own.
Handles ==
    /\ \A i \in Instances : pc[i] \in {"write", "sync", "close"} <=> fd[i] \in Inodes
    /\ tmp # NoInode => tmp \notin {env, hard}

\* No start generates secrets twice.
Loading == {i \in Instances : pc[i] = "load"}
Budget == made + Cardinality(Loading) <= starts

TypeInv == Shape /\ Handles /\ Budget

(***************************************************************************)
(* There is always an inode left for .env.tmp.                             *)
(***************************************************************************)
LEMMA FreeInode ==
    ASSUME Shape, tmp = NoInode
    PROVE  \E n \in Inodes : Free(n)
<1> DEFINE R == {fd[j] : j \in Instances}
           I == Cardinality(Instances)
<1>1. IsFiniteSet(Instances) /\ I \in Nat /\ NoInode \notin Inodes
  BY StartupConstants, FS_CardinalityType DEF Inodes
<1>2. fd \in Surjection(Instances, R)
  BY DEF Surjection, Shape
<1>3. IsFiniteSet(R) /\ Cardinality(R) \in Nat /\ Cardinality(R) <= I
  BY <1>1, <1>2, FS_Surjection, FS_CardinalityType
<1>4. IsFiniteSet({env} \cup {hard}) /\ Cardinality({env} \cup {hard}) \in 0 .. 2
  <2>1. IsFiniteSet({env}) /\ Cardinality({env}) = 1
    BY FS_Singleton
  <2> QED
    BY <2>1, FS_AddElement
<1> DEFINE U == {env} \cup {hard} \cup R
<1>5. IsFiniteSet(U) /\ Cardinality(U) \in Nat /\ Cardinality(U) <= 2 + I
  <2>1. IsFiniteSet({env} \cup {hard} \cup R)
        /\ Cardinality({env} \cup {hard} \cup R) =
              Cardinality({env} \cup {hard}) + Cardinality(R) - Cardinality(({env} \cup {hard}) \cap R)
    BY <1>3, <1>4, FS_Union
  <2>2. Cardinality(({env} \cup {hard}) \cap R) \in Nat
    BY <1>3, <1>4, FS_Intersection, FS_CardinalityType
  <2>3. IsFiniteSet(U) /\ Cardinality(U) \in Nat
    BY <2>1, FS_CardinalityType
  <2>4. ASSUME NEW u \in Nat, NEW a \in 0 .. 2, NEW r \in Nat, NEW x \in Nat, u = a + r - x, r <= I
        PROVE  u <= 2 + I
    BY <1>1, <2>4
  <2> QED
    BY <1>3, <1>4, <2>1, <2>2, <2>3, <2>4
<1>6. Cardinality(Inodes) = 3 + I /\ IsFiniteSet(Inodes)
  BY <1>1, FS_Interval DEF Inodes
<1>7. PICK n \in Inodes : n \notin U
  <2> SUFFICES ASSUME Inodes \in SUBSET U PROVE FALSE
    OBVIOUS
  <2>1. Cardinality(Inodes) <= Cardinality(U)
    BY <1>5, FS_Subset
  <2> QED
    BY <1>1, <1>5, <1>6, <2>1
<1> QED
  BY <1>1, <1>7 DEF Free

(***************************************************************************)
(* Reading a key gives a value.                                            *)
(***************************************************************************)
LEMMA LookupType ==
    ASSUME Shape, NEW lines \in Lines, NEW k \in Secrets
    PROVE  Lookup(lines, k) \in Values
<1>1. \A n \in DOMAIN lines : lines[n] \in Line
  BY DEF Lines
<1>2. \A n \in DOMAIN lines : lines[n].val \in Values
  BY <1>1 DEF Line
<1> QED
  BY <1>2, LookupReads DEF Shape

(***************************************************************************)
(* What is read of a file is lines, none of them if it is torn.            *)
(***************************************************************************)
LEMMA ReadingType ==
    ASSUME Shape, NEW lines \in Readings(Content(env)) \ {NoReading}
    PROVE  lines \in Lines /\ (Content(env) # Torn => lines = Content(env))
<1>1. <<>> \in Lines
  BY DEF Lines
<1>2. Content(env) \in Lines \cup {Torn}
  BY <1>1 DEF Content, Shape
<1> QED
  BY <1>1, <1>2 DEF Readings

(***************************************************************************)
(* Every step but Load keeps the domains; what Load generates is a value   *)
(* as long as the budget is kept.                                          *)
(***************************************************************************)
LEMMA ShapeStep ==
    ASSUME TypeInv, [Next]_suVars
    PROVE  Shape'
<1> USE StartupConstants DEF TypeInv, Shape, Steps, Goto, fileVars, confVars, bounds, Closed
<1>0. NoInode \notin Inodes
  BY DEF Inodes
<1>1. CASE UNCHANGED suVars
  BY <1>1 DEF suVars
<1>2. ASSUME NEW i \in Instances, Start(i)  PROVE Shape'
  BY <1>2 DEF Start
<1>3. ASSUME NEW i \in Instances, Load(i)  PROVE Shape'
  <2>1. CASE Goto(i, "load", "off") /\ UNCHANGED <<cfg, gen, made>>
    BY <1>3, <2>1 DEF Load
  <2>2. CASE pc[i] = "load" /\ ~ (Goto(i, "load", "off") /\ UNCHANGED <<cfg, gen, made>>)
    <3>1. PICK lines \in Readings(Content(env)) \ {NoReading} :
            LET missing == {k \in Secrets : Lookup(lines, k) = Unset}
            IN  /\ gen' = [gen EXCEPT ![i] = missing]
                /\ cfg' = [cfg EXCEPT ![i] = [k \in Secrets |->
                       IF k \in missing THEN generateSecret(k) ELSE Lookup(lines, k)]]
                /\ made' = made + (IF missing = {} THEN 0 ELSE 1)
                /\ Goto(i, "load", IF missing = {} THEN "listen" ELSE "read")
      BY <1>3, <2>2 DEF Load
    <3>2. \A k \in Secrets : Lookup(lines, k) \in Values
      BY ReadingType, LookupType
    <3>3. made + 1 <= MaxStarts
      <4>1. IsFiniteSet(Loading) /\ Loading # {}
        BY <2>2, FS_Subset DEF Loading
      <4>2. Cardinality(Loading) \in Nat /\ Cardinality(Loading) # 0
        BY <4>1, FS_EmptySet, FS_CardinalityType
      <4>3. made + Cardinality(Loading) <= starts /\ made \in Nat /\ starts \in 0..MaxStarts
        BY DEF Budget
      <4>4. ASSUME NEW c \in Nat, c # 0, made + c <= starts  PROVE made + 1 <= MaxStarts
        BY <4>3, <4>4
      <4> QED
        BY <4>2, <4>3, <4>4
    <3>4. \A k \in Secrets : generateSecret(k) \in Values
      BY <3>3 DEF generateSecret, Values, Own
    <3>5. cfg' \in [Instances -> [Secrets -> Values]] /\ gen' \in [Instances -> SUBSET Secrets]
      BY <3>1, <3>2, <3>4
    <3>6. pc' \in [Instances -> Steps] /\ made' \in Nat
      BY <3>1
    <3> QED
      BY <1>3, <3>5, <3>6 DEF Load
  <2> QED
    BY <1>3, <2>1, <2>2 DEF Load
<1>4. ASSUME NEW i \in Instances, ReadAgain(i)  PROVE Shape'
  <2>1. out' \in [Instances -> Lines]
    <3>1. CASE out' = out
      BY <3>1
    <3>2. CASE out' # out
      <4>1. PICK lines \in Readings(Content(env)) \ {NoReading} :
              LET kv == [k \in gen[i] |-> cfg[i][k]]
              IN  \E l \in Appended(Replaced(lines, kv), kv) : out' = [out EXCEPT ![i] = l]
        BY <1>4, <3>2 DEF ReadAgain
      <4> DEFINE kv == [k \in gen[i] |-> cfg[i][k]]
      <4>2. PICK l \in Appended(Replaced(lines, kv), kv) : out' = [out EXCEPT ![i] = l]
        BY <4>1
      <4>3. kv \in [gen[i] -> Values] /\ lines \in Lines /\ gen[i] \in SUBSET Secrets
        BY ReadingType
      <4>4. l \in Lines
        BY <4>3, PersistUpdates DEF Updates
      <4> QED
        BY <4>2, <4>4
    <3> QED
      BY <3>1, <3>2
  <2> QED
    BY <1>4, <2>1 DEF ReadAgain
<1>5. ASSUME NEW i \in Instances, OpenTmp(i)  PROVE Shape'
  <2>1. CASE Goto(i, "open", "off") /\ UNCHANGED <<fd, inode, tmp>>
    BY <1>5, <2>1 DEF OpenTmp
  <2>2. CASE Goto(i, "open", "write")
    <3>1. tmp' = IF tmp = NoInode THEN CHOOSE n \in Inodes : Free(n) ELSE tmp
      BY <1>5, <2>2 DEF OpenTmp
    <3>2. tmp' \in Inodes
      BY <1>0, <3>1, FreeInode
    <3>3. /\ fd' = [fd EXCEPT ![i] = tmp']
          /\ inode' = [inode EXCEPT ![tmp'] = [body |-> <<>>, synced |-> FALSE]]
      BY <1>5, <2>2 DEF OpenTmp
    <3>4. <<>> \in Lines
      BY DEF Lines
    <3> QED
      BY <1>5, <2>2, <3>2, <3>3, <3>4 DEF OpenTmp
  <2> QED
    BY <1>5, <2>1, <2>2 DEF OpenTmp
<1>6. ASSUME NEW i \in Instances, WriteTmp(i)  PROVE Shape'
  <2>1. fd[i] \in Inodes
    BY <1>6 DEF WriteTmp, Handles
  <2>2. [body |-> out[i], synced |-> FALSE] \in [body : Lines \cup {Torn}, synced : BOOLEAN]
        /\ [body |-> Torn, synced |-> FALSE] \in [body : Lines \cup {Torn}, synced : BOOLEAN]
    OBVIOUS
  <2>3. inode' \in [Inodes -> [body : Lines \cup {Torn}, synced : BOOLEAN]]
    BY <1>6, <2>1, <2>2 DEF WriteTmp
  <2> QED
    BY <1>6, <2>3 DEF WriteTmp
<1>7. ASSUME NEW i \in Instances, SyncTmp(i)  PROVE Shape'
  <2>1. fd[i] \in Inodes
    BY <1>7 DEF SyncTmp, Handles
  <2>2. CASE inode' = [inode EXCEPT ![fd[i]].synced = TRUE]
    <3>1. inode' = [inode EXCEPT ![fd[i]] = [inode[fd[i]] EXCEPT !.synced = TRUE]]
      BY <2>2
    <3>2. [inode[fd[i]] EXCEPT !.synced = TRUE] \in [body : Lines \cup {Torn}, synced : BOOLEAN]
      BY <2>1
    <3>3. inode' \in [Inodes -> [body : Lines \cup {Torn}, synced : BOOLEAN]]
      BY <2>1, <3>1, <3>2
    <3> QED
      BY <1>7, <3>3 DEF SyncTmp
  <2>3. CASE inode' = inode
    BY <1>7, <2>3 DEF SyncTmp
  <2> QED
    BY <1>7, <2>2, <2>3 DEF SyncTmp
<1>8. ASSUME NEW i \in Instances, CloseTmp(i)  PROVE Shape'
  BY <1>8 DEF CloseTmp
<1>9. ASSUME NEW i \in Instances, Rename(i)  PROVE Shape'
  BY <1>9 DEF Rename
<1>10. ASSUME NEW i \in Instances, Cleanup(i)  PROVE Shape'
  BY <1>10 DEF Cleanup
<1>11. ASSUME NEW i \in Instances, SyncDir(i)  PROVE Shape'
  BY <1>11 DEF SyncDir
<1>12. ASSUME NEW i \in Instances, Banner(i)  PROVE Shape'
  BY <1>12 DEF Banner
<1>13. ASSUME NEW i \in Instances, Listen(i)  PROVE Shape'
  BY <1>13 DEF Listen
<1>14. ASSUME NEW i \in Instances, Stop(i)  PROVE Shape'
  BY <1>14 DEF Stop
<1>15. CASE Flush
  BY <1>15 DEF Flush
<1>16. CASE PowerLoss
  <2>1. \A n \in Inodes : Settled(inode[n]) \in [body : Lines \cup {Torn}, synced : BOOLEAN]
    BY DEF Settled
  <2> QED
    BY <1>16, <2>1 DEF PowerLoss
<1> QED
  BY <1>1, <1>2, <1>3, <1>4, <1>5, <1>6, <1>7, <1>8, <1>9, <1>10, <1>11, <1>12, <1>13,
     <1>14, <1>15, <1>16 DEF Next

(***************************************************************************)
(* Every step keeps the open files and .env.tmp apart from .env.           *)
(***************************************************************************)
LEMMA HandlesStep ==
    ASSUME TypeInv, [Next]_suVars
    PROVE  Handles'
<1> USE DEF TypeInv, Shape, Handles, Goto, fileVars, confVars, bounds, Closed
<1>0. NoInode \notin Inodes
  BY StartupConstants DEF Inodes
<1>1. CASE UNCHANGED suVars
  BY <1>1 DEF suVars
<1>2. ASSUME NEW i \in Instances, Start(i)  PROVE Handles'
  BY <1>2 DEF Start
<1>3. ASSUME NEW i \in Instances, Load(i)  PROVE Handles'
  BY <1>3 DEF Load
<1>4. ASSUME NEW i \in Instances, ReadAgain(i)  PROVE Handles'
  BY <1>4 DEF ReadAgain
<1>5. ASSUME NEW i \in Instances, OpenTmp(i)  PROVE Handles'
  <2>1. CASE Goto(i, "open", "off") /\ UNCHANGED <<fd, inode, tmp>>
    BY <1>5, <2>1 DEF OpenTmp
  <2>2. CASE Goto(i, "open", "write")
    <3>1. tmp' = IF tmp = NoInode THEN CHOOSE n \in Inodes : Free(n) ELSE tmp
      BY <1>5, <2>2 DEF OpenTmp
    <3>2. tmp' \in Inodes /\ tmp' \notin {env, hard}
      BY <1>0, <3>1, FreeInode DEF Free
    <3>3. fd' = [fd EXCEPT ![i] = tmp'] /\ env' = env /\ hard' = hard
      BY <1>5, <2>2 DEF OpenTmp
    <3> QED
      BY <2>2, <3>2, <3>3
  <2> QED
    BY <1>5, <2>1, <2>2 DEF OpenTmp
<1>6. ASSUME NEW i \in Instances, WriteTmp(i)  PROVE Handles'
  BY <1>0, <1>6 DEF WriteTmp
<1>7. ASSUME NEW i \in Instances, SyncTmp(i)  PROVE Handles'
  BY <1>0, <1>7 DEF SyncTmp
<1>8. ASSUME NEW i \in Instances, CloseTmp(i)  PROVE Handles'
  BY <1>0, <1>8 DEF CloseTmp
<1>9. ASSUME NEW i \in Instances, Rename(i)  PROVE Handles'
  BY <1>9 DEF Rename
<1>10. ASSUME NEW i \in Instances, Cleanup(i)  PROVE Handles'
  BY <1>10 DEF Cleanup
<1>11. ASSUME NEW i \in Instances, SyncDir(i)  PROVE Handles'
  BY <1>11 DEF SyncDir
<1>12. ASSUME NEW i \in Instances, Banner(i)  PROVE Handles'
  BY <1>12 DEF Banner
<1>13. ASSUME NEW i \in Instances, Listen(i)  PROVE Handles'
  BY <1>13 DEF Listen
<1>14. ASSUME NEW i \in Instances, Stop(i)  PROVE Handles'
  BY <1>0, <1>14 DEF Stop
<1>15. CASE Flush
  BY <1>15 DEF Flush
<1>16. CASE PowerLoss
  BY <1>0, <1>16 DEF PowerLoss
<1> QED
  BY <1>1, <1>2, <1>3, <1>4, <1>5, <1>6, <1>7, <1>8, <1>9, <1>10, <1>11, <1>12, <1>13,
     <1>14, <1>15, <1>16 DEF Next

(***************************************************************************)
(* Every start generates secrets once at most.                             *)
(***************************************************************************)
LEMMA BudgetStep ==
    ASSUME TypeInv, [Next]_suVars
    PROVE  Budget'
<1> USE DEF TypeInv, Shape, Goto, fileVars, confVars, bounds
<1> DEFINE C == Cardinality(Loading)
<1>0. /\ IsFiniteSet(Loading) /\ C \in Nat
      /\ made \in Nat /\ starts \in Nat /\ made + C <= starts
  BY StartupConstants, FS_Subset, FS_CardinalityType DEF Loading, Budget
<1>a. ASSUME Loading' \in SUBSET Loading, UNCHANGED <<made, starts>>  PROVE Budget'
  <2>1. IsFiniteSet(Loading') /\ Cardinality(Loading') <= C
    BY <1>0, <1>a, FS_Subset
  <2>2. Cardinality(Loading') \in Nat
    BY <2>1, FS_CardinalityType
  <2>3. ASSUME NEW c \in Nat, NEW d \in Nat, c <= d, made + d <= starts  PROVE made + c <= starts
    BY <1>0, <2>3
  <2> QED
    BY <1>0, <1>a, <2>1, <2>2, <2>3 DEF Budget
<1>1. CASE UNCHANGED suVars
  BY <1>1, <1>a DEF suVars, Loading
<1>2. ASSUME NEW i \in Instances, Start(i)  PROVE Budget'
  <2>1. Loading' = Loading \cup {i} /\ i \notin Loading /\ made' = made /\ starts' = starts + 1
    BY <1>2 DEF Start, Loading
  <2>2. Cardinality(Loading \cup {i}) = C + 1
    BY <1>0, <2>1, FS_AddElement
  <2>3. Cardinality(Loading') = C + 1
    BY <2>1, <2>2
  <2>4. ASSUME NEW c \in Nat, made + c <= starts  PROVE made + (c + 1) <= starts + 1
    BY <1>0, <2>4
  <2> QED
    BY <1>0, <2>1, <2>3, <2>4 DEF Budget
<1>3. ASSUME NEW i \in Instances, Load(i)  PROVE Budget'
  <2>1. /\ i \in Loading /\ Loading' = Loading \ {i} /\ starts' = starts
        /\ made' \in {made, made + 1}
    BY <1>3 DEF Load, Loading
  <2>2. Cardinality(Loading \ {i}) = C - 1
    BY <1>0, <2>1, FS_RemoveElement
  <2>3. Cardinality(Loading') = C - 1
    BY <2>1, <2>2
  <2>4. ASSUME NEW c \in Nat, made + c <= starts
        PROVE  made + (c - 1) <= starts /\ made + 1 + (c - 1) <= starts
    BY <1>0, <2>4
  <2> QED
    BY <1>0, <2>1, <2>3, <2>4 DEF Budget
<1>4. ASSUME NEW i \in Instances, ReadAgain(i)  PROVE Budget'
  BY <1>4, <1>a DEF ReadAgain, Loading
<1>5. ASSUME NEW i \in Instances, OpenTmp(i)  PROVE Budget'
  BY <1>5, <1>a DEF OpenTmp, Loading
<1>6. ASSUME NEW i \in Instances, WriteTmp(i) \/ SyncTmp(i) \/ CloseTmp(i)  PROVE Budget'
  BY <1>6, <1>a DEF WriteTmp, SyncTmp, CloseTmp, Loading
<1>7. ASSUME NEW i \in Instances, Rename(i) \/ Cleanup(i) \/ SyncDir(i)  PROVE Budget'
  BY <1>7, <1>a DEF Rename, Cleanup, SyncDir, Loading
<1>8. ASSUME NEW i \in Instances, Banner(i) \/ Listen(i) \/ Stop(i)  PROVE Budget'
  BY <1>8, <1>a DEF Banner, Listen, Stop, Loading
<1>9. CASE Flush \/ PowerLoss
  BY <1>9, <1>a DEF Flush, PowerLoss, Loading
<1> QED
  BY <1>1, <1>2, <1>3, <1>4, <1>5, <1>6, <1>7, <1>8, <1>9 DEF Next

(***************************************************************************)
(* The files a user may have are lines.                                    *)
(***************************************************************************)
LEMMA FirstFilesAreLines == FirstFiles \subseteq Lines
<1>0. {Unset, TooShort, Own} \subseteq Values
  BY StartupConstants DEF Values, Unset, TooShort, Own
<1>1. UserLine \subseteq Line
  <2>1. Plain(Other, Own) \in Line
    BY <1>0 DEF Line, Plain
  <2>2. [key : Secrets, export : BOOLEAN, val : {Unset, TooShort, Own}] \subseteq Line
    BY <1>0 DEF Line
  <2> QED
    BY <2>1, <2>2 DEF UserLine
<1>2. \A n \in 1 .. MaxLines : [1 .. n -> UserLine] \subseteq Lines
  BY <1>1 DEF Lines
<1>3. <<>> \in Lines
  BY DEF Lines
<1> QED
  BY <1>2, <1>3 DEF FirstFiles

\* The three parts together.
LEMMA TypeStep == TypeInv /\ [Next]_suVars => TypeInv'
  BY ShapeStep, HandlesStep, BudgetStep DEF TypeInv

\* Every .env a first start may find is within the types.
LEMMA InitialTypes == Init => TypeInv
<1> SUFFICES ASSUME Init PROVE TypeInv
  OBVIOUS
<1>0. /\ 0 \in Inodes /\ NoInode \notin Inodes /\ Unset \in Values /\ Own \in Values
      /\ <<>> \in Lines
  <2>1. Cardinality(Instances) \in Nat
    BY StartupConstants, FS_CardinalityType
  <2> QED
    BY <2>1, StartupConstants DEF Inodes, Values, Unset, Own, Lines
<1>1. Shape
  BY <1>0, StartupConstants, FirstFilesAreLines DEF Init, Shape, Steps, NoConfig
<1>2. Handles
  BY <1>0 DEF Init, Handles
<1>3. Budget
  <2>1. Loading = {}
    BY DEF Init, Loading
  <2> QED
    BY <2>1, FS_EmptySet DEF Init, Budget
<1> QED
  BY <1>1, <1>2, <1>3 DEF TypeInv

\* The types hold in every reachable state.
LEMMA Typed == Spec => []TypeInv
  BY InitialTypes, TypeStep, PTL DEF Spec

(***************************************************************************)
(* Every variable stays in its domain, with any number of instances beside *)
(* each other: a start holds a file open exactly while it writes it,       *)
(* .env.tmp is never the file that .env names or may name, and no start    *)
(* generates secrets twice.                                                *)
(***************************************************************************)
THEOREM TypeCorrect == Spec => []TypeOK
<1>1. TypeInv => TypeOK
  <2> SUFFICES ASSUME TypeInv PROVE TypeOK
    OBVIOUS
  <2>1. Cardinality(Loading) \in Nat
    BY StartupConstants, FS_Subset, FS_CardinalityType DEF Loading
  <2>2. made \in 0 .. starts
    <3>1. ASSUME NEW c \in Nat, NEW s \in Nat, NEW m \in Nat, m + c <= s  PROVE m \in 0 .. s
      BY <3>1
    <3>2. made + Cardinality(Loading) <= starts /\ made \in Nat /\ starts \in Nat
      BY DEF TypeInv, Budget, Shape
    <3> QED
      BY <2>1, <3>1, <3>2
  <2> QED
    BY <2>2 DEF TypeInv, Shape, Handles, TypeOK
<1> QED
  BY <1>1, Typed, PTL

-----------------------------------------------------------------------------
(* Secrets                                                                  *)

\* A start that gets past Load has two usable secrets.
Accepted == \A i \in Instances : pc[i] \notin {"off", "load"} =>
                \A k \in Secrets : cfg[i][k] \notin {Unset, TooShort}

\* validate lets no other secret past load.
LEMMA AcceptedStep ==
    ASSUME TypeInv, Accepted, [Next]_suVars
    PROVE  Accepted'
<1> SUFFICES ASSUME NEW j \in Instances, pc'[j] \notin {"off", "load"}, NEW k \in Secrets
             PROVE  cfg'[j][k] \notin {Unset, TooShort}
  BY DEF Accepted
<1> USE DEF Goto, fileVars, confVars, bounds
<1>0. /\ pc[j] \notin {"off", "load"} => cfg[j][k] \notin {Unset, TooShort}
      /\ pc \in [Instances -> Steps] /\ cfg \in [Instances -> [Secrets -> Values]]
  BY DEF Accepted, TypeInv, Shape
<1>1. CASE UNCHANGED suVars
  BY <1>0, <1>1 DEF suVars
<1>2. ASSUME NEW i \in Instances, Load(i)  PROVE cfg'[j][k] \notin {Unset, TooShort}
  <2>1. CASE j # i
    BY <1>0, <1>2, <2>1 DEF Load
  <2>2. CASE j = i
    <3>0. pc'[i] # "off"
      BY <2>2
    <3> DEFINE missing(lines) == {x \in Secrets : Lookup(lines, x) = Unset}
    <3>1. PICK lines \in Readings(Content(env)) \ {NoReading} :
             /\ \A x \in Secrets : Lookup(lines, x) # TooShort
             /\ cfg' = [cfg EXCEPT ![i] = [x \in Secrets |->
                   IF x \in missing(lines) THEN generateSecret(x) ELSE Lookup(lines, x)]]
      BY <1>0, <1>2, <3>0 DEF Load
    <3>2. cfg'[j][k] = IF k \in missing(lines) THEN generateSecret(k) ELSE Lookup(lines, k)
      BY <1>0, <2>2, <3>1
    <3>3. generateSecret(k) \notin {Unset, TooShort}
      <4>1. made \in Nat
        BY DEF TypeInv, Shape
      <4> QED
        BY <4>1 DEF generateSecret, Unset, TooShort, Own
    <3> QED
      BY <3>1, <3>2, <3>3
  <2> QED
    BY <2>1, <2>2
<1>3. ASSUME NEW i \in Instances, Start(i) \/ ReadAgain(i) \/ OpenTmp(i) \/ WriteTmp(i) \/ SyncTmp(i)
      PROVE  cfg'[j][k] \notin {Unset, TooShort}
  BY <1>0, <1>3 DEF Start, ReadAgain, OpenTmp, WriteTmp, SyncTmp
<1>4. ASSUME NEW i \in Instances, CloseTmp(i) \/ Rename(i) \/ Cleanup(i) \/ SyncDir(i)
      PROVE  cfg'[j][k] \notin {Unset, TooShort}
  BY <1>0, <1>4 DEF CloseTmp, Rename, Cleanup, SyncDir
<1>5. ASSUME NEW i \in Instances, Banner(i) \/ Listen(i) \/ Stop(i)
      PROVE  cfg'[j][k] \notin {Unset, TooShort}
  BY <1>0, <1>5 DEF Banner, Listen, Stop
<1>6. CASE Flush \/ PowerLoss
  BY <1>0, <1>6 DEF Flush, PowerLoss
<1> QED
  BY <1>1, <1>2, <1>3, <1>4, <1>5, <1>6 DEF Next

(***************************************************************************)
(* No start gets past Load with a secret that is unset or too short, with  *)
(* any number of instances beside each other.                              *)
(***************************************************************************)
LEMMA SecretsAreUsable == Spec => []Accepted
<1>1. Init => Accepted
  BY DEF Init, Accepted
<1>2. TypeInv /\ Accepted /\ [Next]_suVars => Accepted'
  BY AcceptedStep
<1> QED
  BY <1>1, <1>2, Typed, PTL DEF Spec

-----------------------------------------------------------------------------
(* One instance at a time.                                                  *)

\* No dashboard is started beside another.
OneInstance == \A i, j \in Instances : i = j

(***************************************************************************)
(* A file that still has what the user wrote: every line in its place,     *)
(* with the values that the user chose, and behind them nothing that would *)
(* override one of them.                                                   *)
(***************************************************************************)
Keeps(b) ==
    /\ b \in Lines /\ DOMAIN first \subseteq DOMAIN b
    /\ \A n \in DOMAIN first :
         /\ b[n].key = first[n].key /\ b[n].export = first[n].export
         /\ b[n].key = Other \/ Lookup(first, b[n].key) # Unset => b[n].val = first[n].val
    /\ \A n \in DOMAIN b \ DOMAIN first : \A m \in DOMAIN first : first[m].key # b[n].key

\* What .env names, now or after a power failure, is synced and keeps them.
OnDisk ==
    \A n \in {env, hard} : Keeps(Content(n)) /\ (n # NoInode => inode[n].synced)

(***************************************************************************)
(* A start on its way to the rename: .env.tmp is the file that it writes,  *)
(* holds what was to be written and, before it is renamed, safely so; no   *)
(* secret is generated that the user had set.                              *)
(***************************************************************************)
Whole(i) == inode[tmp] = [body |-> out[i], synced |-> TRUE]

Writes(i) ==
    /\ pc[i] \in {"write", "sync", "close"} => fd[i] = tmp
    /\ pc[i] = "sync" => inode[tmp].body = out[i]
    /\ pc[i] = "close" => Whole(i)
    /\ pc[i] = "rename" => tmp \in Inodes /\ Whole(i)
    /\ pc[i] = "read" => \A k \in gen[i] : Lookup(first, k) = Unset
    /\ pc[i] \in {"open", "write", "sync", "close", "rename"} => Keeps(out[i])

(***************************************************************************)
(* A start's secrets: what it did not generate, .env has; what it writes   *)
(* has them all, and so has .env from the rename on.                       *)
(***************************************************************************)
Holds(i) ==
    /\ pc[i] \in {"read", "open", "write", "sync", "close", "rename"} =>
         \A k \in Secrets \ gen[i] : Lookup(Content(env), k) = cfg[i][k]
    /\ pc[i] \in {"open", "write", "sync", "close", "rename"} =>
         \A k \in Secrets : Lookup(out[i], k) = cfg[i][k]
    /\ pc[i] \in {"dirsync", "banner", "listen", "serving"} =>
         \A k \in Secrets : Lookup(Content(env), k) = cfg[i][k]

(***************************************************************************)
(* A printed token is on the disk, and no start replaces it.               *)
(***************************************************************************)
Printed ==
    dirSyncs =>
      /\ \A t \in printed, n \in {env, hard} : t # Unset /\ Lookup(Content(n), "AUTH_TOKEN") = t
      /\ \A i \in Instances :
           /\ pc[i] \in {"read", "open", "write", "sync", "close", "rename", "dirsync", "banner"}
                 /\ "AUTH_TOKEN" \in gen[i] => printed = {}
           /\ pc[i] = "banner" => hard = env

StartInv == TypeInv /\ Accepted /\ OnDisk /\ Printed /\ \A i \in Instances : Writes(i) /\ Holds(i)

(***************************************************************************)
(* A file that keeps the user's lines has a secret unset only if the user  *)
(* left it unset.                                                          *)
(***************************************************************************)
LEMMA UnsetByUser ==
    ASSUME TypeInv, NEW b, Keeps(b), NEW k \in Secrets, Lookup(b, k) = Unset
    PROVE  Lookup(first, k) = Unset
<1>1. first \in Lines /\ b \in Lines
  BY DEF TypeInv, Shape, Keeps
<1>2. exported[k] = Unset
  BY <1>1, LookupReads
<1> SUFFICES ASSUME Lookup(first, k) # Unset PROVE FALSE
  OBVIOUS
<1> DEFINE m == Max(At(first, k))
<1>3. /\ At(first, k) # {} /\ first[m].val # Unset /\ Lookup(first, k) = first[m].val
      /\ m \in DOMAIN first /\ first[m].key = k
  BY <1>1, <1>2, LookupReads
<1>4. At(b, k) = At(first, k)
  <2>1. \A n \in DOMAIN b : b[n].key = k => n \in DOMAIN first
    BY <1>3 DEF Keeps
  <2> QED
    BY <2>1 DEF Keeps, At
<1>5. b[m].val = first[m].val
  BY <1>3 DEF Keeps
<1> QED
  BY <1>1, <1>3, <1>4, <1>5, LookupReads

(***************************************************************************)
(* Updating secrets that the user left unset keeps the user's lines.       *)
(***************************************************************************)
LEMMA UpdatesKeep ==
    ASSUME NEW lines, Keeps(lines), NEW l, NEW kv, Updates(l, lines, kv),
           DOMAIN kv \in SUBSET Secrets, \A k \in DOMAIN kv : Lookup(first, k) = Unset
    PROVE  Keeps(l)
<1>1. Other \notin DOMAIN kv
  BY DEF Other, Secrets
<1>2. l \in Lines /\ DOMAIN first \subseteq DOMAIN l
  BY DEF Keeps, Updates
<1>3. ASSUME NEW n \in DOMAIN first
      PROVE  /\ l[n].key = first[n].key /\ l[n].export = first[n].export
             /\ l[n].key = Other \/ Lookup(first, l[n].key) # Unset => l[n].val = first[n].val
  BY <1>1 DEF Keeps, Updates
<1>4. ASSUME NEW n \in DOMAIN l \ DOMAIN first, NEW m \in DOMAIN first
      PROVE  first[m].key # l[n].key
  BY DEF Keeps, Updates
<1> QED
  BY <1>2, <1>3, <1>4 DEF Keeps

(***************************************************************************)
(* What keeps the lines does so as long as nobody edits what the user had. *)
(***************************************************************************)
LEMMA KeepsFrame ==
    ASSUME NEW b, UNCHANGED <<first, exported>>
    PROVE  Keeps(b)' <=> Keeps(b)
  BY DEF Keeps, Lookup

(***************************************************************************)
(* A step keeps what .env names, if it leaves the inodes that it may name  *)
(* alone.                                                                  *)
(***************************************************************************)
LEMMA OnDiskFrame ==
    ASSUME OnDisk, UNCHANGED <<first, exported>>,
           {env', hard'} \subseteq {env, hard},
           \A n \in {env, hard} : n # NoInode => inode'[n] = inode[n]
    PROVE  OnDisk'
<1>1. ASSUME NEW n \in {env, hard}
      PROVE  Keeps(Content(n))' /\ (n # NoInode => inode'[n].synced)
  <2>1. Keeps(Content(n)) /\ (n # NoInode => inode[n].synced)
    BY DEF OnDisk
  <2>2. Content(n)' = Content(n)
    BY DEF Content
  <2> QED
    BY <2>1, <2>2 DEF Keeps, Lookup
<1> QED
  BY <1>1 DEF OnDisk

(***************************************************************************)
(* Load and the second reading of .env read the file as it is.             *)
(***************************************************************************)
LEMMA ReadsContent ==
    ASSUME TypeInv, OnDisk, NEW lines \in Readings(Content(env)) \ {NoReading}
    PROVE  lines = Content(env) /\ Keeps(lines) /\ lines \in Lines
<1>1. Content(env) # Torn
  BY TornIsNoFile DEF OnDisk, Keeps, Lines
<1> QED
  BY <1>1, ReadingType DEF TypeInv, OnDisk, Keeps

(***************************************************************************)
(* Every step of a lone start, failures, deaths and power losses included, *)
(* keeps the user's lines on the disk.                                     *)
(***************************************************************************)
LEMMA OnDiskStep ==
    ASSUME TypeInv, OnDisk, \A i \in Instances : Writes(i), [Next]_suVars
    PROVE  OnDisk'
<1> USE DEF Goto, fileVars, confVars, bounds
<1>0. TypeInv'
  BY TypeStep
<1>1. CASE UNCHANGED suVars
  BY <1>1, OnDiskFrame DEF suVars
<1>2. ASSUME NEW i \in Instances, Start(i) \/ Load(i) \/ ReadAgain(i)  PROVE OnDisk'
  BY <1>2, OnDiskFrame DEF Start, Load, ReadAgain
<1>3. ASSUME NEW i \in Instances, OpenTmp(i)  PROVE OnDisk'
  <2>1. UNCHANGED <<first, exported, env, hard>>
    BY <1>3 DEF OpenTmp
  <2>2. inode' = inode \/ \E x : inode' = [inode EXCEPT ![tmp'] = x] /\ pc'[i] = "write" /\ fd'[i] = tmp'
    BY <1>3 DEF OpenTmp, TypeInv, Shape
  <2>3. CASE inode' = inode
    BY <2>1, <2>3, OnDiskFrame
  <2>4. CASE \E x : inode' = [inode EXCEPT ![tmp'] = x] /\ pc'[i] = "write" /\ fd'[i] = tmp'
    <3>1. tmp' \in Inodes /\ tmp' \notin {env, hard}
      BY <1>0, <2>1, <2>4, StartupConstants DEF TypeInv, Handles, Inodes
    <3>2. \A n \in {env, hard} : n # NoInode => inode'[n] = inode[n]
      BY <2>4, <3>1 DEF TypeInv, Shape
    <3> QED
      BY <2>1, <3>2, OnDiskFrame
  <2> QED
    BY <2>2, <2>3, <2>4
<1>4. ASSUME NEW i \in Instances, WriteTmp(i) \/ SyncTmp(i)  PROVE OnDisk'
  <2>1. UNCHANGED <<first, exported, env, hard>> /\ pc[i] \in {"write", "sync"}
    BY <1>4 DEF WriteTmp, SyncTmp
  <2>2. fd[i] \in Inodes /\ fd[i] \notin {env, hard}
    BY <2>1, StartupConstants DEF TypeInv, Shape, Handles, Writes, Inodes
  <2>3. \A n \in Inodes \ {fd[i]} : inode'[n] = inode[n]
    BY <1>4, <2>2 DEF WriteTmp, SyncTmp, TypeInv, Shape
  <2>4. \A n \in {env, hard} : n # NoInode => inode'[n] = inode[n]
    BY <2>2, <2>3 DEF TypeInv, Shape
  <2> QED
    BY <2>1, <2>4, OnDiskFrame
<1>5. ASSUME NEW i \in Instances, CloseTmp(i) \/ Cleanup(i) \/ Banner(i) \/ Listen(i) \/ Stop(i)
      PROVE  OnDisk'
  BY <1>5, OnDiskFrame DEF CloseTmp, Cleanup, Banner, Listen, Stop
<1>6. ASSUME NEW i \in Instances, Rename(i)  PROVE OnDisk'
  <2>1. CASE env' = env
    BY <1>6, <2>1, OnDiskFrame DEF Rename
  <2>2. CASE env' # env
    <3>1. /\ pc[i] = "rename" /\ env' = tmp
          /\ UNCHANGED <<inode, hard, first, exported>>
      BY <1>6, <2>2 DEF Rename
    <3>2. tmp \in Inodes /\ tmp # NoInode /\ Whole(i) /\ Keeps(out[i])
      BY <3>1, StartupConstants DEF Writes, Inodes
    <3>3. Content(env)' = out[i] /\ inode'[env'].synced
      BY <3>1, <3>2 DEF Content, Whole
    <3>4. Keeps(Content(env))'
      <4>1. \A k : Lookup(first, k)' = Lookup(first, k)
        BY <3>1 DEF Lookup
      <4> QED
        BY <3>1, <3>2, <3>3, <4>1 DEF Keeps
    <3>5. Content(hard)' = Content(hard) /\ Keeps(Content(hard)) /\ (hard # NoInode => inode[hard].synced)
      BY <3>1 DEF OnDisk, Content
    <3>6. Keeps(Content(hard))'
      BY <3>1, <3>5 DEF Keeps, Lookup
    <3>7. hard' # NoInode => inode'[hard'].synced
      BY <3>1, <3>5
    <3> QED
      BY <3>3, <3>4, <3>6, <3>7 DEF OnDisk
  <2> QED
    BY <2>1, <2>2
<1>7. ASSUME NEW i \in Instances, SyncDir(i)  PROVE OnDisk'
  BY <1>7, OnDiskFrame DEF SyncDir
<1>8. CASE Flush
  BY <1>8, OnDiskFrame DEF Flush
<1>9. CASE PowerLoss
  <2>1. {env', hard'} \subseteq {env, hard} /\ UNCHANGED <<first, exported>>
        /\ inode' = [n \in Inodes |-> Settled(inode[n])]
    BY <1>9 DEF PowerLoss
  <2>2. \A n \in {env, hard} : n # NoInode => n \in Inodes /\ inode[n].synced
    BY DEF OnDisk, TypeInv, Shape
  <2>3. \A n \in {env, hard} : n # NoInode => inode'[n] = inode[n]
    BY <2>1, <2>2 DEF Settled
  <2> QED
    BY <2>1, <2>3, OnDiskFrame
<1> QED
  BY <1>1, <1>2, <1>3, <1>4, <1>5, <1>6, <1>7, <1>8, <1>9 DEF Next

(***************************************************************************)
(* A lone start writes .env.tmp and nobody else does: what it renames is   *)
(* what it meant to write.                                                 *)
(***************************************************************************)
LEMMA WritesStep ==
    ASSUME OneInstance, TypeInv, OnDisk, NEW i \in Instances, Writes(i), [Next]_suVars
    PROVE  Writes(i)'
<1> USE DEF Goto, fileVars, confVars, bounds
<1>0. \A j \in Instances : j = i
  BY DEF OneInstance
<1>a. \A k : UNCHANGED exported /\ UNCHANGED first => Lookup(first, k)' = Lookup(first, k)
  BY DEF Lookup
<1>b. /\ i \in DOMAIN pc /\ i \in DOMAIN gen /\ i \in DOMAIN out /\ i \in DOMAIN fd
      /\ inode \in [Inodes -> [body : Lines \cup {Torn}, synced : BOOLEAN]]
      /\ NoInode \notin Inodes /\ tmp \in Inodes \cup {NoInode}
  BY StartupConstants DEF TypeInv, Shape, Inodes
<1>1. CASE UNCHANGED suVars
  BY <1>1, <1>a DEF suVars, Writes, Whole, Keeps
<1>2. ASSUME Start(i)  PROVE Writes(i)'
  BY <1>2, <1>b DEF Start, Writes
<1>3. ASSUME Load(i)  PROVE Writes(i)'
  <2>1. CASE pc'[i] # "read"
    <3>1. pc'[i] \in {"off", "listen"}
      BY <1>3, <1>b, <2>1 DEF Load
    <3> QED
      BY <3>1 DEF Writes
  <2>2. CASE pc'[i] = "read"
    <3>1. PICK lines \in Readings(Content(env)) \ {NoReading} :
             gen' = [gen EXCEPT ![i] = {k \in Secrets : Lookup(lines, k) = Unset}]
      BY <1>3, <1>b, <2>2 DEF Load
    <3>2. \A k \in gen'[i] : k \in Secrets /\ Lookup(lines, k) = Unset
      BY <1>b, <3>1
    <3>3. \A k \in gen'[i] : Lookup(first, k) = Unset
      BY <3>2, ReadsContent, UnsetByUser
    <3>4. UNCHANGED <<exported, first>>
      BY <1>3 DEF Load
    <3> QED
      BY <1>a, <2>2, <3>3, <3>4 DEF Writes
  <2> QED
    BY <2>1, <2>2
<1>4. ASSUME ReadAgain(i)  PROVE Writes(i)'
  <2>1. CASE pc'[i] = "off"
    BY <2>1 DEF Writes
  <2>2. CASE pc'[i] # "off"
    <3>0. /\ pc[i] = "read" /\ pc'[i] = "open" /\ UNCHANGED <<exported, first>>
      BY <1>4, <1>b, <2>2 DEF ReadAgain
    <3> DEFINE kv == [k \in gen[i] |-> cfg[i][k]]
    <3>1. PICK lines \in Readings(Content(env)) \ {NoReading} :
            \E l \in Appended(Replaced(lines, kv), kv) : out' = [out EXCEPT ![i] = l]
      BY <1>4, <1>b, <2>2 DEF ReadAgain
    <3>2. PICK l \in Appended(Replaced(lines, kv), kv) : out' = [out EXCEPT ![i] = l]
      BY <3>1
    <3>3. lines \in Lines /\ Keeps(lines)
      BY ReadsContent
    <3>4. gen[i] \in SUBSET Secrets /\ kv \in [gen[i] -> Values]
      BY DEF TypeInv, Shape
    <3>5. \A k \in gen[i] : Lookup(first, k) = Unset
      BY <3>0 DEF Writes
    <3>6. DOMAIN kv = gen[i]
      OBVIOUS
    <3>7. Keeps(l)
      <4> HIDE DEF kv
      <4>1. Updates(l, lines, kv)
        BY <3>2, <3>3, <3>4, PersistUpdates
      <4> QED
        BY <3>3, <3>4, <3>5, <3>6, <4>1, UpdatesKeep
    <3>8. out'[i] = l
      BY <1>b, <3>2
    <3>9. Keeps(out[i])'
      BY <1>a, <3>0, <3>7, <3>8 DEF Keeps
    <3> QED
      BY <3>0, <3>9 DEF Writes
  <2> QED
    BY <2>1, <2>2
<1>5. ASSUME OpenTmp(i)  PROVE Writes(i)'
  <2>1. CASE pc'[i] = "off"
    BY <2>1 DEF Writes
  <2>2. CASE pc'[i] # "off"
    <3>1. /\ pc[i] = "open" /\ pc'[i] = "write" /\ UNCHANGED <<out, exported, first>>
          /\ fd'[i] = tmp'
      BY <1>5, <1>b, <2>2 DEF OpenTmp
    <3>2. Keeps(out[i])'
      BY <1>a, <3>1 DEF Writes, Keeps
    <3> QED
      BY <3>1, <3>2 DEF Writes
  <2> QED
    BY <2>1, <2>2
<1>6. ASSUME WriteTmp(i)  PROVE Writes(i)'
  <2>1. CASE pc'[i] = "cleanup"
    BY <2>1 DEF Writes
  <2>2. CASE pc'[i] # "cleanup"
    <3>1. /\ pc[i] = "write" /\ pc'[i] = "sync" /\ UNCHANGED <<out, exported, first, tmp, fd>>
          /\ inode' = [inode EXCEPT ![fd[i]] = [body |-> out[i], synced |-> FALSE]]
      BY <1>6, <1>b, <2>2 DEF WriteTmp
    <3>2. fd[i] = tmp /\ fd[i] \in Inodes /\ Keeps(out[i])
      BY <3>1 DEF Writes, TypeInv, Handles
    <3>3. inode'[tmp'].body = out'[i]
      BY <1>b, <3>1, <3>2
    <3>4. Keeps(out[i])'
      BY <1>a, <3>1, <3>2 DEF Keeps
    <3> QED
      BY <3>1, <3>2, <3>3, <3>4 DEF Writes
  <2> QED
    BY <2>1, <2>2
<1>7. ASSUME SyncTmp(i)  PROVE Writes(i)'
  <2>1. CASE pc'[i] = "cleanup"
    BY <2>1 DEF Writes
  <2>2. CASE pc'[i] # "cleanup"
    <3>1. /\ pc[i] = "sync" /\ pc'[i] = "close" /\ UNCHANGED <<out, exported, first, tmp, fd>>
          /\ inode' = [inode EXCEPT ![fd[i]].synced = TRUE]
      BY <1>7, <1>b, <2>2 DEF SyncTmp
    <3>2. fd[i] = tmp /\ fd[i] \in Inodes /\ Keeps(out[i]) /\ inode[tmp].body = out[i]
      BY <3>1 DEF Writes, TypeInv, Handles
    <3>3. inode'[tmp] = [inode[tmp] EXCEPT !.synced = TRUE]
      BY <1>b, <3>1, <3>2
    <3>4. inode'[tmp] = [body |-> out[i], synced |-> TRUE]
      <4>1. inode[tmp] \in [body : Lines \cup {Torn}, synced : BOOLEAN]
        BY <1>b, <3>2
      <4> QED
        BY <3>2, <3>3, <4>1
    <3>5. Keeps(out[i])'
      BY <1>a, <3>1, <3>2 DEF Keeps
    <3> QED
      BY <3>1, <3>2, <3>4, <3>5 DEF Writes, Whole
  <2> QED
    BY <2>1, <2>2
<1>8. ASSUME CloseTmp(i)  PROVE Writes(i)'
  <2>1. CASE pc'[i] = "cleanup"
    BY <2>1 DEF Writes
  <2>2. CASE pc'[i] # "cleanup"
    <3>1. pc[i] = "close" /\ pc'[i] = "rename" /\ UNCHANGED <<out, exported, first, tmp, inode>>
      BY <1>8, <1>b, <2>2 DEF CloseTmp
    <3>2. tmp \in Inodes /\ Keeps(out[i]) /\ Whole(i)
      BY <3>1 DEF Writes, TypeInv, Handles
    <3>3. Keeps(out[i])' /\ Whole(i)'
      BY <1>a, <3>1, <3>2 DEF Keeps, Whole
    <3> QED
      BY <3>1, <3>2, <3>3 DEF Writes
  <2> QED
    BY <2>1, <2>2
<1>9. ASSUME Rename(i) \/ Cleanup(i) \/ SyncDir(i) \/ Banner(i) \/ Listen(i) \/ Stop(i)
      PROVE  Writes(i)'
  <2>1. pc'[i] \in {"off", "dirsync", "banner", "cleanup", "listen", "serving"}
    BY <1>9, <1>b DEF Rename, Cleanup, SyncDir, Banner, Listen, Stop
  <2> QED
    BY <2>1 DEF Writes
<1>10. CASE Flush
  <2>1. UNCHANGED <<pc, gen, out, fd, inode, tmp, exported, first>>
    BY <1>10 DEF Flush
  <2> QED
    BY <1>a, <2>1 DEF Writes, Whole, Keeps
<1>11. CASE PowerLoss
  <2>1. pc'[i] = "off"
    BY <1>11 DEF PowerLoss
  <2> QED
    BY <2>1 DEF Writes
<1> QED
  BY <1>0, <1>1, <1>2, <1>3, <1>4, <1>5, <1>6, <1>7, <1>8, <1>9, <1>10, <1>11 DEF Next

(***************************************************************************)
(* What .env holds stays, unless a start renames its file over it.         *)
(***************************************************************************)
LEMMA ContentStep ==
    ASSUME TypeInv, OnDisk, NEW i \in Instances, Writes(i), OneInstance, [Next]_suVars
    PROVE  /\ UNCHANGED <<exported, first>>
           /\ \/ pc[i] = "rename" /\ pc'[i] = "dirsync" /\ Content(env)' = out[i]
              \/ UNCHANGED Content(env)
              \/ pc'[i] = "off"
<1> USE DEF Goto, fileVars, confVars, bounds
<1>0. \A j \in Instances : j = i
  BY DEF OneInstance
<1>b. /\ i \in DOMAIN pc /\ i \in DOMAIN fd
      /\ inode \in [Inodes -> [body : Lines \cup {Torn}, synced : BOOLEAN]]
      /\ NoInode \notin Inodes /\ env \in Inodes \cup {NoInode}
  BY StartupConstants DEF TypeInv, Shape, Inodes
<1>1. CASE UNCHANGED suVars
  BY <1>1 DEF suVars, Content
<1>2. ASSUME Start(i) \/ Load(i) \/ ReadAgain(i) \/ CloseTmp(i) \/ Cleanup(i) \/ SyncDir(i)
             \/ Banner(i) \/ Listen(i) \/ Stop(i) \/ Flush
      PROVE  UNCHANGED <<exported, first, Content(env)>>
  BY <1>2 DEF Start, Load, ReadAgain, CloseTmp, Cleanup, SyncDir, Banner, Listen, Stop, Flush, Content
<1>3. ASSUME OpenTmp(i)
      PROVE  UNCHANGED <<exported, first, Content(env)>>
  <2>1. UNCHANGED <<env, exported, first>>
        /\ (inode' = inode \/ inode' = [inode EXCEPT ![tmp'] = [body |-> <<>>, synced |-> FALSE]])
        /\ (inode' = inode \/ pc'[i] = "write")
        /\ (inode' = inode \/ fd'[i] = tmp')
    BY <1>3, <1>b DEF OpenTmp
  <2>2. inode' = inode \/ (tmp' \in Inodes /\ tmp' # env)
    BY <1>b, <2>1, TypeStep DEF TypeInv, Handles
  <2> QED
    BY <1>b, <2>1, <2>2 DEF Content
<1>4. ASSUME WriteTmp(i) \/ SyncTmp(i)
      PROVE  UNCHANGED <<exported, first, Content(env)>>
  <2>1. UNCHANGED <<exported, first, env>> /\ pc[i] \in {"write", "sync"}
    BY <1>4 DEF WriteTmp, SyncTmp
  <2>2. fd[i] \in Inodes /\ fd[i] # env
    BY <1>b, <2>1 DEF TypeInv, Handles, Writes
  <2>3. \A n \in Inodes \ {fd[i]} : inode'[n] = inode[n]
    BY <1>4, <1>b, <2>2 DEF WriteTmp, SyncTmp
  <2> QED
    BY <1>b, <2>1, <2>2, <2>3 DEF Content
<1>5. ASSUME Rename(i)
      PROVE  /\ UNCHANGED <<exported, first>>
             /\ \/ pc[i] = "rename" /\ pc'[i] = "dirsync" /\ Content(env)' = out[i]
                \/ UNCHANGED Content(env)
  <2>1. UNCHANGED <<exported, first, inode>> /\ pc[i] = "rename"
    BY <1>5 DEF Rename
  <2>2. CASE pc'[i] = "dirsync"
    <3>1. env' = tmp
      BY <1>5, <1>b, <2>2 DEF Rename
    <3>2. Content(env)' = out[i]
      BY <1>b, <2>1, <3>1 DEF Writes, Whole, Content
    <3> QED
      BY <2>1, <2>2, <3>2
  <2>3. CASE pc'[i] # "dirsync"
    BY <1>5, <1>b, <2>1, <2>3 DEF Rename, Content
  <2> QED
    BY <2>2, <2>3
<1>6. CASE PowerLoss
  BY <1>6 DEF PowerLoss
<1> QED
  BY <1>0, <1>1, <1>2, <1>3, <1>4, <1>5, <1>6 DEF Next

(***************************************************************************)
(* Once Load has succeeded, a start's secrets are those of .env, or will   *)
(* be as soon as it has renamed its file.                                  *)
(***************************************************************************)
LEMMA HoldsStep ==
    ASSUME OneInstance, TypeInv, Accepted, OnDisk, NEW i \in Instances, Writes(i), Holds(i),
           [Next]_suVars
    PROVE  Holds(i)'
<1> USE DEF Goto, fileVars, confVars, bounds
<1>0. \A j \in Instances : j = i
  BY DEF OneInstance
<1>b. i \in DOMAIN pc /\ i \in DOMAIN gen /\ i \in DOMAIN cfg /\ i \in DOMAIN out
  BY DEF TypeInv, Shape
<1>c. /\ UNCHANGED <<exported, first>>
      /\ \/ pc[i] = "rename" /\ pc'[i] = "dirsync" /\ Content(env)' = out[i]
         \/ UNCHANGED Content(env)
         \/ pc'[i] = "off"
  BY ContentStep
<1>a. \A k : /\ Lookup(Content(env), k)' = Lookup(Content(env)', k)
             /\ Lookup(out[i], k)' = Lookup(out'[i], k)
  BY <1>c DEF Lookup
<1>1. CASE UNCHANGED suVars
  BY <1>1, <1>a, <1>c DEF suVars, Holds
<1>2. ASSUME Start(i)  PROVE Holds(i)'
  BY <1>2, <1>b DEF Start, Holds
<1>3. ASSUME Load(i)  PROVE Holds(i)'
  <2>1. CASE pc'[i] = "off"
    BY <2>1 DEF Holds
  <2>2. CASE pc'[i] # "off"
    <3> DEFINE missing(lines) == {k \in Secrets : Lookup(lines, k) = Unset}
    <3>1. PICK lines \in Readings(Content(env)) \ {NoReading} :
             /\ \A k \in Secrets : Lookup(lines, k) # TooShort
             /\ gen' = [gen EXCEPT ![i] = missing(lines)]
             /\ cfg' = [cfg EXCEPT ![i] = [k \in Secrets |->
                   IF k \in missing(lines) THEN generateSecret(k) ELSE Lookup(lines, k)]]
             /\ pc'[i] = IF missing(lines) = {} THEN "listen" ELSE "read"
      BY <1>3, <1>b, <2>2 DEF Load
    <3>2. lines = Content(env)
      BY ReadsContent
    <3>3. UNCHANGED <<env, inode, out>>
      BY <1>3 DEF Load
    <3>4. UNCHANGED Content(env)
      BY <3>3 DEF Content
    <3>5. gen'[i] = missing(lines) /\ \A k \in Secrets :
             cfg'[i][k] = IF k \in missing(lines) THEN generateSecret(k) ELSE Lookup(lines, k)
      BY <1>b, <3>1
    <3>8. \A k \in Secrets \ gen'[i] : Lookup(Content(env)', k) = cfg'[i][k]
      BY <3>2, <3>4, <3>5
    <3>9. CASE missing(lines) = {}
      BY <1>a, <3>1, <3>5, <3>8, <3>9 DEF Holds
    <3>10. CASE missing(lines) # {}
      BY <1>a, <3>1, <3>8, <3>10 DEF Holds
    <3> QED
      BY <3>9, <3>10
  <2> QED
    BY <2>1, <2>2
<1>4. ASSUME ReadAgain(i)  PROVE Holds(i)'
  <2>1. CASE pc'[i] = "off"
    BY <2>1 DEF Holds
  <2>2. CASE pc'[i] # "off"
    <3>0. /\ pc[i] = "read" /\ pc'[i] = "open" /\ UNCHANGED <<cfg, gen, env, inode>>
      BY <1>4, <1>b, <2>2 DEF ReadAgain
    <3> DEFINE kv == [k \in gen[i] |-> cfg[i][k]]
    <3>1. PICK lines \in Readings(Content(env)) \ {NoReading} :
            \E l \in Appended(Replaced(lines, kv), kv) : out' = [out EXCEPT ![i] = l]
      BY <1>4, <1>b, <2>2 DEF ReadAgain
    <3>2. PICK l \in Appended(Replaced(lines, kv), kv) : out' = [out EXCEPT ![i] = l]
      BY <3>1
    <3>3. lines \in Lines /\ lines = Content(env)
      BY ReadsContent
    <3>4. gen[i] \in SUBSET Secrets /\ kv \in [gen[i] -> Values] /\ DOMAIN kv = gen[i]
      BY DEF TypeInv, Shape
    <3>5. \A k \in Secrets : cfg[i][k] \notin {Unset, TooShort}
      BY <3>0 DEF Accepted
    <3>6. \A k \in gen[i] : kv[k] = cfg[i][k] /\ kv[k] # Unset
      BY <3>4, <3>5
    <3>7. Updates(l, lines, kv)
      <4> HIDE DEF kv
      <4> QED
        BY <3>2, <3>3, <3>4, PersistUpdates
    <3>8. ASSUME NEW k \in Secrets
          PROVE  Lookup(l, k) = cfg[i][k]
      <4> HIDE DEF kv
      <4>1. Lookup(l, k) = IF k \in DOMAIN kv THEN kv[k] ELSE Lookup(lines, k)
        BY <3>3, <3>4, <3>6, <3>7, UpdateReadsBack
      <4>2. k \notin gen[i] => Lookup(lines, k) = cfg[i][k]
        BY <3>0, <3>3 DEF Holds
      <4> QED
        BY <3>4, <3>6, <4>1, <4>2
    <3>9. out'[i] = l
      BY <1>b, <3>2
    <3>10. \A k \in Secrets : Lookup(out[i], k)' = cfg'[i][k]
      BY <1>a, <3>0, <3>8, <3>9
    <3>11. \A k \in Secrets \ gen'[i] : Lookup(Content(env), k)' = cfg'[i][k]
      BY <1>a, <1>c, <3>0 DEF Holds
    <3> QED
      BY <3>0, <3>10, <3>11 DEF Holds
  <2> QED
    BY <2>1, <2>2
<1>5. ASSUME OpenTmp(i) \/ WriteTmp(i) \/ SyncTmp(i) \/ CloseTmp(i)  PROVE Holds(i)'
  <2>1. pc[i] \in {"open", "write", "sync", "close"} /\ UNCHANGED <<cfg, gen, out>>
        /\ pc'[i] \in {"off", "cleanup", "write", "sync", "close", "rename"}
    BY <1>5, <1>b DEF OpenTmp, WriteTmp, SyncTmp, CloseTmp
  <2>2. /\ \A k \in Secrets \ gen'[i] : Lookup(Content(env), k) = cfg'[i][k]
        /\ \A k \in Secrets : Lookup(out[i], k)' = cfg'[i][k]
    BY <1>a, <2>1 DEF Holds
  <2>3. CASE pc'[i] = "off"
    BY <2>3 DEF Holds
  <2>4. CASE pc'[i] # "off"
    <3>1. UNCHANGED Content(env)
      BY <1>c, <2>1, <2>4
    <3>2. \A k : Lookup(Content(env), k)' = Lookup(Content(env), k)
      BY <1>a, <3>1
    <3> QED
      BY <2>1, <2>2, <3>2 DEF Holds
  <2> QED
    BY <2>3, <2>4
<1>6. ASSUME Rename(i)  PROVE Holds(i)'
  <2>1. pc[i] = "rename" /\ UNCHANGED <<cfg, gen, out>> /\ pc'[i] \in {"cleanup", "dirsync"}
    BY <1>6, <1>b DEF Rename
  <2>2. pc'[i] = "dirsync" => Content(env)' = out[i]
    BY <1>6, <1>b, <1>c, StartupConstants DEF Rename, Writes, Whole, Content, Inodes
  <2>3. \A k \in Secrets : Lookup(out[i], k)' = cfg'[i][k]
    BY <1>a, <2>1 DEF Holds
  <2>4. pc'[i] = "dirsync" => \A k \in Secrets : Lookup(Content(env), k)' = cfg'[i][k]
    BY <1>a, <2>2, <2>1 DEF Holds
  <2> QED
    BY <2>1, <2>3, <2>4 DEF Holds
<1>7. ASSUME Cleanup(i) \/ Stop(i) \/ PowerLoss  PROVE Holds(i)'
  <2>1. pc'[i] = "off"
    BY <1>7, <1>b DEF Cleanup, Stop, PowerLoss
  <2> QED
    BY <2>1 DEF Holds
<1>8. ASSUME SyncDir(i) \/ Banner(i) \/ Listen(i)  PROVE Holds(i)'
  <2>1. pc[i] \in {"dirsync", "banner", "listen"} /\ UNCHANGED <<cfg, gen>>
        /\ pc'[i] \in {"banner", "listen", "serving", "off"}
    BY <1>8, <1>b DEF SyncDir, Banner, Listen
  <2>2. CASE pc'[i] = "off"
    BY <2>2 DEF Holds
  <2>3. CASE pc'[i] # "off"
    <3>1. UNCHANGED Content(env)
      BY <1>c, <2>1, <2>3
    <3> QED
      BY <1>a, <2>1, <2>3, <3>1 DEF Holds
  <2> QED
    BY <2>2, <2>3
<1>9. ASSUME Flush  PROVE Holds(i)'
  <2>1. UNCHANGED <<pc, gen, out, cfg, env, inode>>
    BY <1>9 DEF Flush
  <2>2. UNCHANGED Content(env)
    BY <2>1 DEF Content
  <2> QED
    BY <1>a, <2>1, <2>2 DEF Holds
<1> QED
  BY <1>0, <1>1, <1>2, <1>3, <1>4, <1>5, <1>6, <1>7, <1>8, <1>9 DEF Next

(***************************************************************************)
(* The banner comes after the directory was synced, and nothing replaces   *)
(* the printed token: every later start reads it and generates none.       *)
(***************************************************************************)
LEMMA PrintedStep ==
    ASSUME OneInstance, TypeInv, Accepted, OnDisk, Printed, NEW i \in Instances, Writes(i), Holds(i),
           [Next]_suVars
    PROVE  Printed'
<1> USE DEF Goto, fileVars, confVars, bounds
<1> DEFINE Busy == {"read", "open", "write", "sync", "close", "rename", "dirsync", "banner"}
           Empty == pc[i] \in Busy /\ "AUTH_TOKEN" \in gen[i] => printed = {}
           Token(n, t) == t # Unset /\ Lookup(Content(n), "AUTH_TOKEN") = t
<1>0. \A j \in Instances : j = i
  BY DEF OneInstance
<1>b. /\ i \in DOMAIN pc /\ i \in DOMAIN gen /\ i \in DOMAIN cfg /\ i \in DOMAIN out
      /\ inode \in [Inodes -> [body : Lines \cup {Torn}, synced : BOOLEAN]]
      /\ NoInode \notin Inodes /\ tmp \in Inodes \cup {NoInode}
      /\ "AUTH_TOKEN" \in Secrets
  BY StartupConstants DEF TypeInv, Shape, Inodes, Secrets
<1>c. UNCHANGED <<exported, first>>
  BY ContentStep
<1>d. SUFFICES ASSUME dirSyncs'
      PROVE  /\ \A t \in printed', n \in {env', hard'} : Token(n, t)'
             /\ Empty' /\ (pc'[i] = "banner" => hard' = env')
  BY <1>0 DEF Printed
<1>e. UNCHANGED dirSyncs
  <2> USE DEF suVars, Start, Load, ReadAgain, OpenTmp, WriteTmp, SyncTmp, CloseTmp, Rename, Cleanup,
              SyncDir, Banner, Listen, Stop, Flush, PowerLoss
  <2> QED
    BY DEF Next
<1>f. /\ \A t \in printed, n \in {env, hard} : Token(n, t)
      /\ Empty /\ (pc[i] = "banner" => hard = env)
  BY <1>d, <1>e DEF Printed
<1>g. ASSUME NEW t, NEW n, Token(n, t), n # NoInode => inode'[n].body = inode[n].body
      PROVE  Token(n, t)'
  BY <1>c, <1>g DEF Content, Lookup
\* A step that prints nothing and names no new file only has to keep Empty.
<1>h. ASSUME printed' = printed, {env', hard'} \subseteq {env, hard},
             \A n \in {env, hard} : n # NoInode => inode'[n].body = inode[n].body,
             Empty', pc'[i] = "banner" => hard' = env'
      PROVE  /\ \A t \in printed', n \in {env', hard'} : Token(n, t)'
             /\ Empty' /\ (pc'[i] = "banner" => hard' = env')
  <2>1. ASSUME NEW t \in printed', NEW n \in {env', hard'}  PROVE Token(n, t)'
    BY <1>f, <1>g, <1>h
  <2> QED
    BY <1>h, <2>1
<1> DEFINE Goal == /\ \A t \in printed', n \in {env', hard'} : Token(n, t)'
                   /\ Empty' /\ (pc'[i] = "banner" => hard' = env')
<1> SUFFICES Goal
  OBVIOUS
<1>1. CASE UNCHANGED suVars
  <2>1. Empty'
    BY <1>1, <1>f DEF suVars
  <2> QED
    BY <1>1, <1>f, <1>h, <2>1 DEF suVars
<1>2. ASSUME Start(i) \/ Cleanup(i) \/ Stop(i)  PROVE Goal
  <2>1. pc'[i] \in {"load", "off"} /\ UNCHANGED <<printed, env, hard, inode>>
    BY <1>2, <1>b DEF Start, Cleanup, Stop
  <2> QED
    BY <1>h, <2>1
<1>3. ASSUME Load(i)  PROVE Goal
  <2>1. UNCHANGED <<printed, env, hard, inode>> /\ pc'[i] \in {"off", "listen", "read"}
    BY <1>3, <1>b DEF Load
  <2>2. CASE pc'[i] # "read"
    BY <1>h, <2>1, <2>2
  <2>3. CASE pc'[i] = "read"
    <3>1. PICK lines \in Readings(Content(env)) \ {NoReading} :
             gen' = [gen EXCEPT ![i] = {k \in Secrets : Lookup(lines, k) = Unset}]
      BY <1>3, <1>b, <2>3 DEF Load
    <3>2. "AUTH_TOKEN" \in gen'[i] => Lookup(Content(env), "AUTH_TOKEN") = Unset
      BY <1>b, <3>1, ReadsContent
    <3>3. Empty'
      BY <1>f, <2>1, <3>2
    <3> QED
      BY <1>h, <2>1, <2>3, <3>3
  <2> QED
    BY <2>2, <2>3
<1>4. ASSUME ReadAgain(i) \/ CloseTmp(i)  PROVE Goal
  <2>1. UNCHANGED <<printed, gen, env, hard, inode>> /\ pc[i] \in Busy
        /\ pc'[i] \in {"off", "open", "rename", "cleanup"}
    BY <1>4, <1>b DEF ReadAgain, CloseTmp
  <2>2. Empty'
    BY <1>f, <2>1
  <2> QED
    BY <1>h, <2>1, <2>2
<1>5. ASSUME OpenTmp(i) \/ WriteTmp(i) \/ SyncTmp(i)  PROVE Goal
  <2>1. UNCHANGED <<printed, gen, env, hard>> /\ pc[i] \in Busy
        /\ pc'[i] \in {"off", "write", "sync", "close", "cleanup"}
    BY <1>5, <1>b DEF OpenTmp, WriteTmp, SyncTmp
  <2>2. Empty'
    BY <1>f, <2>1
  <2>3. \A n \in {env, hard} : n # NoInode => inode'[n].body = inode[n].body
    <3>1. CASE OpenTmp(i)
      <4>1. \/ inode' = inode
            \/ /\ inode' = [inode EXCEPT ![tmp'] = [body |-> <<>>, synced |-> FALSE]]
               /\ pc'[i] = "write" /\ fd'[i] = tmp'
        BY <1>b, <3>1 DEF OpenTmp, TypeInv, Shape
      <4>2. inode' = inode \/ (tmp' \in Inodes /\ tmp' \notin {env, hard})
        BY <1>b, <2>1, <4>1, TypeStep DEF TypeInv, Handles
      <4> QED
        BY <1>b, <4>1, <4>2 DEF TypeInv, Shape
    <3>2. CASE WriteTmp(i) \/ SyncTmp(i)
      <4>1. fd[i] \in Inodes /\ fd[i] \notin {env, hard}
        BY <1>b, <3>2 DEF WriteTmp, SyncTmp, TypeInv, Handles, Writes
      <4>2. \A n \in Inodes \ {fd[i]} : inode'[n] = inode[n]
        BY <1>b, <3>2, <4>1 DEF WriteTmp, SyncTmp
      <4> QED
        BY <4>1, <4>2 DEF TypeInv, Shape
    <3> QED
      BY <1>5, <3>1, <3>2
  <2> QED
    BY <1>h, <2>1, <2>2, <2>3
<1>6. ASSUME Rename(i)  PROVE Goal
  <2>1. UNCHANGED <<printed, gen, hard, inode, cfg>> /\ pc[i] = "rename"
        /\ pc'[i] \in {"dirsync", "cleanup"}
    BY <1>6, <1>b DEF Rename
  <2>2. Empty'
    BY <1>f, <2>1
  <2>3. CASE env' = env
    BY <1>h, <2>1, <2>2, <2>3
  <2>4. CASE env' # env
    <3>1. env' = tmp /\ tmp \in Inodes /\ Whole(i)
      BY <1>6, <1>b, <2>1, <2>4 DEF Rename, Writes
    <3>2. Content(env)' = out[i]
      BY <1>b, <2>1, <3>1 DEF Whole, Content
    <3>3. ASSUME NEW t \in printed'  PROVE Token(env, t)'
      <4>1. t \in printed /\ "AUTH_TOKEN" \notin gen[i] /\ Token(env, t)
        BY <1>f, <2>1, <3>3
      <4>2. Lookup(Content(env), "AUTH_TOKEN") = cfg[i]["AUTH_TOKEN"]
            /\ Lookup(out[i], "AUTH_TOKEN") = cfg[i]["AUTH_TOKEN"]
        BY <1>b, <2>1, <4>1 DEF Holds
      <4>3. Lookup(out[i], "AUTH_TOKEN") = t /\ t # Unset
        BY <4>1, <4>2
      <4> QED
        BY <1>c, <3>2, <4>3 DEF Content, Lookup
    <3>4. ASSUME NEW t \in printed'  PROVE Token(hard, t)'
      BY <1>f, <1>g, <2>1
    <3> QED
      BY <2>1, <2>2, <3>3, <3>4
  <2> QED
    BY <2>3, <2>4
<1>7. ASSUME SyncDir(i)  PROVE Goal
  <2>1. UNCHANGED <<printed, gen, env, inode>> /\ pc[i] = "dirsync"
        /\ pc'[i] = "banner" /\ hard' = env
    BY <1>7, <1>b, <1>d, <1>e DEF SyncDir
  <2>2. Empty'
    BY <1>f, <2>1
  <2> QED
    BY <1>h, <2>1, <2>2
<1>8. ASSUME Banner(i)  PROVE Goal
  <2>1. UNCHANGED <<gen, env, hard, inode, cfg>> /\ pc[i] = "banner" /\ pc'[i] = "listen"
        /\ hard = env /\ printed' = printed \cup {cfg[i][k] : k \in gen[i] \cap {"AUTH_TOKEN"}}
    BY <1>8, <1>b, <1>f DEF Banner
  <2>2. ASSUME NEW t \in printed'  PROVE Token(env, t)
    <3>1. CASE t \in printed
      BY <1>f, <3>1
    <3>2. CASE t \notin printed
      <4>1. t = cfg[i]["AUTH_TOKEN"]
        BY <2>1, <2>2, <3>2
      <4> QED
        BY <1>b, <2>1, <4>1 DEF Holds, Accepted
    <3> QED
      BY <3>1, <3>2
  <2> QED
    BY <1>g, <2>1, <2>2
<1>9. ASSUME Listen(i)  PROVE Goal
  <2>1. pc'[i] \in {"serving", "off"} /\ UNCHANGED <<printed, env, hard, inode>>
    BY <1>9, <1>b DEF Listen
  <2> QED
    BY <1>h, <2>1
<1>10. CASE Flush
  <2>1. UNCHANGED <<pc, gen, printed, env, inode>> /\ hard' = env
    BY <1>10 DEF Flush
  <2>2. Empty'
    BY <1>f, <2>1
  <2> QED
    BY <1>h, <2>1, <2>2
<1>11. CASE PowerLoss
  <2>1. UNCHANGED printed /\ {env', hard'} \subseteq {env, hard} /\ pc'[i] = "off"
    BY <1>11 DEF PowerLoss
  <2>2. \A n \in {env, hard} : n # NoInode => inode'[n].body = inode[n].body
    BY <1>11 DEF PowerLoss, OnDisk, Settled, TypeInv, Shape
  <2> QED
    BY <1>h, <2>1, <2>2
<1> QED
  BY <1>0, <1>1, <1>2, <1>3, <1>4, <1>5, <1>6, <1>7, <1>8, <1>9, <1>10, <1>11 DEF Next

-----------------------------------------------------------------------------

\* Every step of a lone start keeps the invariant.
LEMMA StartInvStep == OneInstance /\ StartInv /\ [Next]_suVars => StartInv'
<1> SUFFICES ASSUME OneInstance, StartInv, [Next]_suVars PROVE StartInv'
  OBVIOUS
<1>1. TypeInv' /\ Accepted' /\ OnDisk'
  BY TypeStep, AcceptedStep, OnDiskStep DEF StartInv
<1>2. ASSUME NEW i \in Instances  PROVE Writes(i)' /\ Holds(i)' /\ Printed'
  BY WritesStep, HoldsStep, PrintedStep DEF StartInv
<1>3. CASE Instances = {}
  <2>1. UNCHANGED <<printed, exported, dirSyncs>>
        /\ {env', hard'} \subseteq {env, hard}
        /\ \A n \in {env, hard} : n # NoInode => inode'[n].body = inode[n].body
    <3>1. CASE UNCHANGED suVars
      BY <3>1 DEF suVars
    <3>2. CASE Flush
      BY <3>2 DEF Flush, fileVars, confVars, bounds
    <3>3. CASE PowerLoss
      BY <3>3 DEF PowerLoss, StartInv, OnDisk, Settled, TypeInv, Shape
    <3> QED
      BY <1>3, <3>1, <3>2, <3>3 DEF Next
  <2>2. ASSUME NEW n \in {env, hard}, NEW k  PROVE Lookup(Content(n), k)' = Lookup(Content(n), k)
    BY <2>1 DEF Content, Lookup
  <2> QED
    BY <1>1, <1>3, <2>1, <2>2 DEF StartInv, Printed
<1> QED
  BY <1>1, <1>2, <1>3 DEF StartInv

\* It holds before the first start.
LEMMA InitialStart == Init => StartInv
<1> SUFFICES ASSUME Init PROVE StartInv
  OBVIOUS
<1>1. TypeInv
  BY InitialTypes
<1>2. first \in Lines /\ 0 \in Inodes /\ NoInode \notin Inodes
  <2>1. Cardinality(Instances) \in Nat
    BY StartupConstants, FS_CardinalityType
  <2> QED
    BY <1>1, <2>1, StartupConstants DEF TypeInv, Shape, Inodes
<1>3. Content(env) = first /\ hard = env /\ (env # NoInode => inode[env].synced)
  BY <1>2 DEF Init, Content
<1>4. Keeps(first)
  BY <1>2 DEF Keeps
<1>5. OnDisk
  BY <1>3, <1>4 DEF OnDisk
<1>6. \A i \in Instances : pc[i] = "off"
  BY DEF Init
<1>7. Accepted /\ \A i \in Instances : Writes(i) /\ Holds(i)
  BY <1>6 DEF Accepted, Writes, Holds
<1>8. Printed
  BY <1>6 DEF Printed, Init
<1> QED
  BY <1>1, <1>5, <1>7, <1>8 DEF StartInv

\* It holds in every reachable state.
LEMMA LoneStart ==
    ASSUME OneInstance
    PROVE  Spec => []StartInv
<1>1. StartInv /\ [Next]_suVars => StartInv'
  BY StartInvStep
<1> QED
  BY <1>1, InitialStart, PTL DEF Spec

(***************************************************************************)
(* A power failure leaves .env as one of its names has it.                 *)
(***************************************************************************)
LEMMA OutcomesAreOnDisk ==
    ASSUME StartInv, NEW b \in Outcomes
    PROVE  Keeps(b) /\ b # Torn /\ \E n \in {env, hard} : b = Content(n)
<1>1. \A n \in {env, hard} : /\ n # NoInode => Settled(inode[n]).body = Content(n)
                             /\ n = NoInode => <<>> = Content(n)
  BY DEF StartInv, OnDisk, Settled, Content
<1>2. PICK n \in {env, hard} : b = Content(n)
  BY <1>1 DEF Outcomes
<1>3. Keeps(b)
  BY <1>2 DEF StartInv, OnDisk
<1> QED
  BY <1>2, <1>3, TornIsNoFile DEF Keeps, Lines

(***************************************************************************)
(* Without a second dashboard beside it, a start may fail, die or lose the *)
(* power at any step, any number of times, on a disk that reorders renames *)
(* and writes: .env is whole and has every line that the user wrote, in    *)
(* its place and with the values that the user set ("An error leaves the   *)
(* original dst intact", config.go:325; "Unknown keys in the file are      *)
(* preserved", config.go:265).                                             *)
(***************************************************************************)
THEOREM UserKeepsEnv ==
    ASSUME OneInstance
    PROVE  Spec => []UserLinesSurvive
<1>1. StartInv => UserLinesSurvive
  <2> SUFFICES ASSUME StartInv, NEW b \in Outcomes
               PROVE  /\ b # Torn
                      /\ \A n \in DOMAIN first :
                           /\ n \in DOMAIN b
                           /\ b[n].key = first[n].key /\ b[n].export = first[n].export
                           /\ b[n].key = Other \/ Lookup(first, b[n].key) # Unset
                                => b[n].val = first[n].val
    BY DEF UserLinesSurvive
  <2>1. b # Torn /\ Keeps(b)
    BY OutcomesAreOnDisk
  <2> QED
    BY <2>1 DEF Keeps
<1> QED
  BY <1>1, LoneStart, PTL

(***************************************************************************)
(* A token that a banner showed is the one that every later start reads,   *)
(* whatever power failures come before it, provided that the directory can *)
(* be synced ("losing AUTH_TOKEN after the stdout banner has scrolled is   *)
(* unrecoverable", config.go:269).                                         *)
(***************************************************************************)
THEOREM BannerIsLasting ==
    ASSUME OneInstance
    PROVE  Spec => []PrintedTokenHolds
<1>1. StartInv => PrintedTokenHolds
  <2> SUFFICES ASSUME StartInv, dirSyncs, NEW t \in printed, NEW b \in Outcomes
               PROVE  b # Torn /\ Lookup(b, "AUTH_TOKEN") = t
    BY DEF PrintedTokenHolds
  <2>1. PICK n \in {env, hard} : b = Content(n) /\ b # Torn
    BY OutcomesAreOnDisk
  <2> QED
    BY <2>1 DEF StartInv, Printed
<1> QED
  BY <1>1, LoneStart, PTL

(***************************************************************************)
(* What a lone dashboard serves with is in .env: a restart keeps the token *)
(* and the sessions.  (Two that start beside each other break this.)       *)
(***************************************************************************)
THEOREM LoneServesWhatEnvHas ==
    ASSUME OneInstance
    PROVE  Spec => []ServedIsPersisted
<1>1. StartInv => ServedIsPersisted
  <2> SUFFICES ASSUME StartInv, NEW i \in Instances, pc[i] = "serving"
               PROVE  Content(env) # Torn /\ \A k \in Secrets : Lookup(Content(env), k) = cfg[i][k]
    BY DEF ServedIsPersisted
  <2>1. Content(env) # Torn
    BY TornIsNoFile DEF StartInv, OnDisk, Keeps, Lines
  <2> QED
    BY <2>1 DEF StartInv, Holds
<1> QED
  BY <1>1, LoneStart, PTL

=============================================================================
