-------------------------- MODULE InspectorProofs --------------------------
(***************************************************************************)
(* What a scan and an inspection return while other programs change the    *)
(* process table between any two of their system calls.                    *)
(***************************************************************************)
EXTENDS Inspector, FiniteSetTheorems, SequenceTheorems, WellFoundedInduction, TLAPS

-----------------------------------------------------------------------------
(* The history of process tables                                            *)

HistoryInv ==
    /\ changes \in 0..MaxChanges
    /\ seen \in Seq(Table) /\ Len(seen) \in 1 .. changes + 1

\* A step that is no new call keeps the tables seen; at most one is added.
Remembers ==
    /\ Len(seen) \in Nat /\ Len(seen') \in Nat
    /\ Len(seen) <= Len(seen')
    /\ DOMAIN seen = 1 .. Len(seen) /\ DOMAIN seen' = 1 .. Len(seen')
    /\ \A n \in DOMAIN seen : n \in DOMAIN seen' /\ seen'[n] = seen[n]

\* What Change does to the history.
Adds(p, new) ==
    /\ p \in Pids \ {Self} /\ new \in Successors(p)
    /\ seen' = Append(seen, [table EXCEPT ![p] = new])
    /\ Len(seen') = Len(seen) + 1
    /\ table' = [table EXCEPT ![p] = new]
    /\ seen'[Len(seen')] = table'

(***************************************************************************)
(* The present table is one of those seen.                                 *)
(***************************************************************************)
LEMMA PresentTable ==
    ASSUME HistoryInv
    PROVE  /\ table \in Table /\ DOMAIN seen = 1 .. Len(seen) /\ Len(seen) \in DOMAIN seen
           /\ Len(seen) \in Nat \ {0} /\ seen[Len(seen)] = table
           /\ \A n \in DOMAIN seen : seen[n] \in Table
<1>1. Len(seen) \in Nat \ {0} /\ DOMAIN seen = 1 .. Len(seen)
  BY DEF HistoryInv
<1>2. Len(seen) \in DOMAIN seen
  BY <1>1
<1>3. \A n \in DOMAIN seen : seen[n] \in Table
  BY DEF HistoryInv
<1> QED
  BY <1>1, <1>2, <1>3 DEF table, Last

(***************************************************************************)
(* A process has a user, an image and descriptors, and is not NoProcess.   *)
(***************************************************************************)
LEMMA ProcessShape ==
    ASSUME HistoryInv, NEW n \in DOMAIN seen, NEW p \in Pids, seen[n][p] # NoProcess
    PROVE  /\ seen[n][p] \in Process /\ seen[n][p].user \in Users /\ seen[n][p].image \in Images
           /\ seen[n][p].born \in 0..MaxChanges /\ seen[n][p].fds \in [Fds -> Entries]
<1>1. seen[n] \in Table
  BY PresentTable
<1> QED
  BY <1>1 DEF Table, Process

(***************************************************************************)
(* What another program does to a process gives a process or none.         *)
(***************************************************************************)
LEMMA SuccessorsType ==
    ASSUME HistoryInv, changes < MaxChanges, NEW p \in Pids, NEW new \in Successors(p)
    PROVE  new \in Process \cup {NoProcess}
<1>1. changes + 1 \in 0..MaxChanges
  BY ScannerConstants DEF HistoryInv
<1>2. \A q \in Pids : table[q] # NoProcess => table[q] \in Process
  BY PresentTable DEF Table
<1>3. Closed \in Entries
  BY DEF Entries
<1>4. CASE table[p] = NoProcess /\ new \in Fork(p)
  <2>1. CASE \E q \in Alive \ {Self} : new = [table[q] EXCEPT !.born = changes + 1]
    BY <1>1, <1>2, <2>1 DEF Alive, Process
  <2>2. CASE new \in [born : {changes + 1}, user : Users, image : Images, fds : {[f \in Fds |-> Closed]}]
    BY <1>1, <1>3, <2>2 DEF Process
  <2> QED
    BY <1>4, <2>1, <2>2 DEF Fork
<1>5. CASE table[p] # NoProcess
  <2>1. table[p] \in Process
    BY <1>2, <1>5
  <2>2. CASE new = NoProcess
    BY <2>2
  <2>3. CASE \E i \in Images : new = [table[p] EXCEPT !.image = i]
    BY <2>1, <2>3 DEF Process
  <2>4. CASE \E f \in Fds, e \in Entries : new = [table[p] EXCEPT !.fds[f] = e]
    BY <2>1, <2>4 DEF Process
  <2> QED
    BY <1>3, <1>5, <2>2, <2>3, <2>4 DEF Successors, Open
<1> QED
  BY <1>4, <1>5 DEF Successors

(***************************************************************************)
(* A step of another program adds one table to the history.                *)
(***************************************************************************)
LEMMA ChangeAdds ==
    ASSUME HistoryInv, Change
    PROVE  HistoryInv' /\ Remembers /\ \E p, new : Adds(p, new)
<1>0. PICK p \in Pids \ {Self} : \E new \in Successors(p) \ {table[p]} :
         seen' = Append(seen, [table EXCEPT ![p] = new])
  BY DEF Change
<1>1. PICK new \in Successors(p) \ {table[p]} : seen' = Append(seen, [table EXCEPT ![p] = new])
  BY <1>0
<1> DEFINE t == [table EXCEPT ![p] = new]
<1>2. t \in Table
  BY PresentTable, SuccessorsType DEF Table, Change
<1> HIDE DEF t
<1>3. /\ seen' \in Seq(Table) /\ Len(seen') = Len(seen) + 1 /\ Len(seen) \in Nat
      /\ DOMAIN seen = 1 .. Len(seen) /\ DOMAIN seen' = 1 .. Len(seen) + 1
      /\ \A n \in 1 .. Len(seen) : seen'[n] = seen[n]
      /\ seen'[Len(seen) + 1] = t
  BY <1>1, <1>2 DEF HistoryInv, t
<1>4. changes' = changes + 1 /\ changes' \in 0..MaxChanges /\ Len(seen') \in 1 .. changes' + 1
  BY <1>3, ScannerConstants DEF Change, HistoryInv
<1>5. table' = t
  BY <1>3 DEF table, Last
<1>6. Remembers
  BY <1>3 DEF Remembers
<1>7. Adds(p, new)
  BY <1>1, <1>3, <1>5 DEF Adds, t
<1> QED
  BY <1>3, <1>4, <1>6, <1>7 DEF HistoryInv

(***************************************************************************)
(* Any other step leaves the history alone, or begins another.             *)
(***************************************************************************)
LEMMA HistoryInductive ==
    ASSUME HistoryInv, [Next]_vars
    PROVE  /\ HistoryInv'
           /\ BeginInspect \/ Remembers
           /\ BeginInspect \/ Change \/ UNCHANGED seen
<1>1. CASE Change
  BY <1>1, ChangeAdds
<1>2. CASE BeginInspect
  <2>1. seen' = <<table>> /\ changes' = changes
    BY <1>2 DEF BeginInspect
  <2> QED
    BY <1>2, <2>1, PresentTable DEF HistoryInv
<1>3. CASE UNCHANGED <<seen, changes>>
  <2>1. Remembers
    BY <1>3, PresentTable DEF Remembers
  <2> QED
    BY <1>3, <2>1 DEF HistoryInv
<1> QED
  BY <1>1, <1>2, <1>3
  DEF Next, ScanNext, Inspect, Expire, BeginLibproc, ListSize, ListFill, NextPid, FdSize, FdFill,
      NextFd, EndLibproc, BeginLsof, Probe, EndLsof, Fail, Error, Filling, NewProcess, ReadArgv,
      ReadCmdline, ReadCwd, ReadStart, ReadUids, ReadEnv, vars, scanVars, worldVars, walkVars

(***************************************************************************)
(* It begins with one table.                                               *)
(***************************************************************************)
LEMMA InitialHistory == Init => HistoryInv
<1> SUFFICES ASSUME Init PROVE HistoryInv
  OBVIOUS
<1>1. PICK t \in FirstTables : seen = <<t>>
  BY DEF Init, ScanInit
<1>2. t \in Table
  BY ScannerTables
<1> QED
  BY <1>1, <1>2, ScannerConstants DEF Init, ScanInit, HistoryInv

-----------------------------------------------------------------------------
(* Folds.  FoldSet and FoldLeft take one element after the other out of a   *)
(* set; what they return is found by induction over its subsets.            *)

(***************************************************************************)
(* What holds of 0 and of n + 1 when it holds of n, for a set of numbers.  *)
(***************************************************************************)
LEMMA Counting ==
    ASSUME NEW T \in SUBSET Nat, 0 \in T, \A n \in T : n + 1 \in T
    PROVE  T = Nat
<1> DEFINE U == Nat \ T
<1>1. ASSUME U # {}  PROVE FALSE
  <2>1. PICK m \in U : \A j \in U : ~(<<j, m>> \in OpToRel(<, Nat))
    BY <1>1, NatLessThanWellFounded, WFMin
  <2>2. \A j \in U : ~(j < m)
    BY <2>1 DEF OpToRel
  <2>3. m \in Nat /\ m # 0
    BY <2>1
  <2>4. m - 1 \in Nat /\ m - 1 < m /\ (m - 1) + 1 = m
    BY <2>3
  <2>5. m - 1 \in T
    BY <2>2, <2>4
  <2> QED
    BY <2>1, <2>4, <2>5
<1> QED
  BY <1>1

(***************************************************************************)
(* Taking an element out of a finite set.                                  *)
(***************************************************************************)
LEMMA OneOut ==
    ASSUME NEW s, IsFiniteSet(s), NEW x \in s, NEW n \in Nat, Cardinality(s) <= n + 1
    PROVE  Cardinality(s \ {x}) <= n /\ s \ {x} \in SUBSET s
<1>1. Cardinality(s \ {x}) = Cardinality(s) - 1 /\ Cardinality(s) \in Nat
  BY FS_RemoveElement, FS_CardinalityType
<1> QED
  BY <1>1

First(s) == CHOOSE f \in s : TRUE

Described(p, f) == << <<"f", f>>, <<"P", "TCP">>, <<"n", Node(table[p].fds[f])>> >>

Filed(p, g, s) == IF s = {} THEN <<>> ELSE Described(p, First(s)) \o g[s \ {First(s)}]

IsFiling(p, D, g) == g = [s \in SUBSET D |-> Filed(p, g, s)]

(***************************************************************************)
(* A report files one descriptor after the other.                          *)
(***************************************************************************)
LEMMA ReportIsFiled ==
    ASSUME NEW p
    PROVE  LET open == {f \in Open(p) : table[p].fds[f] \in Sockets}
           IN  Report(p) = IF open = {} THEN <<>>
                           ELSE << <<"p", p>> >> \o (CHOOSE g : IsFiling(p, open, g))[open]
  BY DEF Report, FoldSet, MapThenFoldSet, IsFiling, Filed, Described, First

(***************************************************************************)
(* There is such a function: one that is right for sets of up to n         *)
(* descriptors gives one that is right for n + 1.                          *)
(***************************************************************************)
LEMMA FilingExists ==
    ASSUME NEW p, NEW D, IsFiniteSet(D)
    PROVE  \E g : IsFiling(p, D, g)
<1> DEFINE RightTo(g, n) == \A s \in SUBSET D : Cardinality(s) <= n => g[s] = Filed(p, g, s)
           T == {n \in Nat : \E g : RightTo(g, n)}
<1>0. \A s \in SUBSET D : IsFiniteSet(s) /\ Cardinality(s) \in Nat /\ Cardinality(s) <= Cardinality(D)
  BY FS_Subset, FS_CardinalityType
<1>1. 0 \in T
  <2> DEFINE g == [s \in SUBSET D |-> <<>>]
  <2>1. \A s \in SUBSET D : Cardinality(s) <= 0 => s = {}
    BY <1>0, FS_EmptySet
  <2>2. RightTo(g, 0)
    BY <2>1 DEF Filed
  <2> QED
    BY <2>2
<1>2. ASSUME NEW n \in T  PROVE n + 1 \in T
  <2>1. PICK g : RightTo(g, n)
    OBVIOUS
  <2> DEFINE h == [s \in SUBSET D |-> IF Cardinality(s) <= n THEN g[s] ELSE Filed(p, g, s)]
  <2>2. ASSUME NEW s \in SUBSET D, Cardinality(s) <= n + 1  PROVE h[s] = Filed(p, h, s)
    <3>1. h[s] = Filed(p, g, s)
      BY <2>1
    <3>2. CASE s = {}
      BY <3>1, <3>2 DEF Filed
    <3>3. CASE s # {}
      <4> DEFINE r == s \ {First(s)}
      <4>1. First(s) \in s
        BY <3>3 DEF First
      <4>2. r \in SUBSET D /\ Cardinality(r) <= n
        BY <1>0, <2>2, <4>1, OneOut
      <4> HIDE DEF r
      <4>3. h[r] = g[r]
        BY <4>2
      <4> QED
        BY <3>1, <3>3, <4>3 DEF Filed, r
    <3> QED
      BY <3>2, <3>3
  <2>3. RightTo(h, n + 1)
    BY <2>2
  <2>4. n + 1 \in Nat
    OBVIOUS
  <2> HIDE DEF RightTo, h
  <2> QED
    BY <2>3, <2>4
<1>3. T = Nat
  <2> HIDE DEF T
  <2>1. T \in SUBSET Nat
    BY DEF T
  <2> QED
    BY <1>1, <1>2, <2>1, Counting
<1>4. PICK g : RightTo(g, Cardinality(D))
  BY <1>0, <1>3
<1> DEFINE h == [s \in SUBSET D |-> g[s]]
<1>5. ASSUME NEW s \in SUBSET D  PROVE h[s] = Filed(p, h, s)
  BY <1>0, <1>4 DEF Filed
<1>6. IsFiling(p, D, h)
  BY <1>5 DEF IsFiling
<1> HIDE DEF h
<1> QED
  BY <1>6

Start == [pid |-> 0, proto |-> "", rows |-> {}]

Parsed(data, g, s) == IF s = {} THEN Start ELSE parseLine(data[Max(s)], g[s \ {Max(s)}])

IsParsing(data, g) == g = [s \in SUBSET DOMAIN data |-> Parsed(data, g, s)]

(***************************************************************************)
(* parseLsofF takes one line after the other.                              *)
(***************************************************************************)
LEMMA ParseIsIterated ==
    ASSUME NEW data
    PROVE  parseLsofF(data) = (CHOOSE g : IsParsing(data, g))[DOMAIN data].rows
  BY DEF parseLsofF, FoldLeft, MapThenFoldSet, IsParsing, Parsed, Start

(***************************************************************************)
(* The greatest of a finite set of numbers.                                *)
(***************************************************************************)
LEMMA GreatestIsMember ==
    ASSUME NEW n \in Nat, NEW s \in SUBSET (1 .. n), s # {}
    PROVE  Max(s) \in s /\ \A x \in s : x <= Max(s)
<1> DEFINE U == {m \in Nat : \A x \in s : x <= m}
<1>1. n \in U
  OBVIOUS
<1>2. PICK m \in U : \A j \in U : ~(<<j, m>> \in OpToRel(<, Nat))
  BY <1>1, NatLessThanWellFounded, WFMin
<1>3. \A j \in U : ~(j < m)
  BY <1>2 DEF OpToRel
<1>4. ASSUME m \notin s  PROVE FALSE
  <2>0. PICK x \in s : TRUE
    OBVIOUS
  <2>5. \A y \in s : y <= m
    BY <1>2
  <2>6. \A y \in s : y \in Nat /\ y >= 1
    OBVIOUS
  <2>3. \A y \in s : y \in Nat /\ y >= 1 /\ y <= m /\ y # m
    BY <1>4, <2>5, <2>6
  <2>4. m \in Nat /\ x \in Nat /\ x >= 1 /\ x <= m
    BY <1>2, <2>0, <2>3
  <2>1. m \in Nat /\ m # 0 /\ \A y \in s : y <= m /\ y \in Nat /\ y # m
    BY <2>3, <2>4
  <2>2. m - 1 \in U /\ m - 1 < m
    BY <2>1
  <2> QED
    BY <1>3, <2>2
<1>5. m \in s /\ \A x \in s : m >= x
  BY <1>2, <1>4
<1>6. Max(s) \in s /\ \A x \in s : Max(s) >= x
  BY <1>5 DEF Max
<1> QED
  BY <1>6

(***************************************************************************)
(* There is such a function for lines as well.                             *)
(***************************************************************************)
LEMMA ParsingExists ==
    ASSUME NEW data, NEW l \in Nat, DOMAIN data = 1 .. l
    PROVE  \E g : IsParsing(data, g)
<1> DEFINE D == 1 .. l
           RightTo(g, n) == \A s \in SUBSET D : Cardinality(s) <= n => g[s] = Parsed(data, g, s)
           T == {n \in Nat : \E g : RightTo(g, n)}
<1>0. \A s \in SUBSET D : IsFiniteSet(s) /\ Cardinality(s) \in Nat /\ Cardinality(s) <= Cardinality(D)
  <2>1. IsFiniteSet(D)
    BY FS_Interval
  <2> HIDE DEF D
  <2> QED
    BY <2>1, FS_Subset, FS_CardinalityType
<1>00. IsFiniteSet(D) /\ Cardinality(D) \in Nat
  BY <1>0
<1>1. 0 \in T
  <2> DEFINE g == [s \in SUBSET D |-> Start]
  <2>1. \A s \in SUBSET D : Cardinality(s) <= 0 => s = {}
    BY <1>0, FS_EmptySet
  <2>2. RightTo(g, 0)
    BY <2>1 DEF Parsed
  <2> QED
    BY <2>2
<1>2. ASSUME NEW n \in T  PROVE n + 1 \in T
  <2>1. PICK g : RightTo(g, n)
    OBVIOUS
  <2> DEFINE h == [s \in SUBSET D |-> IF Cardinality(s) <= n THEN g[s] ELSE Parsed(data, g, s)]
  <2>2. ASSUME NEW s \in SUBSET D, Cardinality(s) <= n + 1  PROVE h[s] = Parsed(data, h, s)
    <3>1. h[s] = Parsed(data, g, s)
      BY <2>1
    <3>2. CASE s = {}
      BY <3>1, <3>2 DEF Parsed
    <3>3. CASE s # {}
      <4> DEFINE r == s \ {Max(s)}
      <4>1. Max(s) \in s
        BY <3>3, GreatestIsMember
      <4>2. r \in SUBSET D /\ Cardinality(r) <= n
        BY <1>0, <2>2, <4>1, OneOut
      <4> HIDE DEF r
      <4>3. h[r] = g[r]
        BY <4>2
      <4> QED
        BY <3>1, <3>3, <4>3 DEF Parsed, r
    <3> QED
      BY <3>2, <3>3
  <2>3. RightTo(h, n + 1)
    BY <2>2
  <2>4. n + 1 \in Nat
    OBVIOUS
  <2> HIDE DEF RightTo, h
  <2> QED
    BY <2>3, <2>4
<1>3. T = Nat
  <2> HIDE DEF T
  <2>1. T \in SUBSET Nat
    BY DEF T
  <2> QED
    BY <1>1, <1>2, <2>1, Counting
<1>4. PICK g : RightTo(g, Cardinality(D))
  BY <1>00, <1>3
<1> DEFINE h == [s \in SUBSET D |-> g[s]]
<1>5. ASSUME NEW s \in SUBSET D  PROVE h[s] = Parsed(data, h, s)
  <2>1. h[s] = Parsed(data, g, s)
    BY <1>0, <1>4
  <2>2. s \ {Max(s)} \in SUBSET D
    OBVIOUS
  <2> QED
    BY <2>1, <2>2 DEF Parsed
<1>6. IsParsing(data, h)
  BY <1>5 DEF IsParsing
<1> HIDE DEF h
<1> QED
  BY <1>6

\* The parser after n lines.
After(data, n) == (CHOOSE g : IsParsing(data, g))[1 .. n]

(***************************************************************************)
(* The parser's steps.                                                     *)
(***************************************************************************)
LEMMA ParserSteps ==
    ASSUME NEW data, NEW l \in Nat, DOMAIN data = 1 .. l
    PROVE  /\ After(data, 0) = Start
           /\ \A n \in Nat : n < l => After(data, n + 1) = parseLine(data[n + 1], After(data, n))
           /\ parseLsofF(data) = After(data, l).rows
<1> DEFINE g == CHOOSE x : IsParsing(data, x)
<1>1. IsParsing(data, g)
  BY ParsingExists
<1>2. \A n : After(data, n) = g[1 .. n]
  BY DEF After
<1>3. parseLsofF(data) = g[1 .. l].rows
  BY ParseIsIterated
<1> HIDE DEF g
<1>4. \A s \in SUBSET (1 .. l) : g[s] = Parsed(data, g, s)
  BY <1>1 DEF IsParsing
<1>5. g[1 .. 0] = Start
  <2>1. 1 .. 0 = {}
    OBVIOUS
  <2> QED
    BY <1>4, <2>1 DEF Parsed
<1>6. ASSUME NEW n \in Nat, n < l  PROVE g[1 .. (n + 1)] = parseLine(data[n + 1], g[1 .. n])
  <2> DEFINE s == 1 .. (n + 1)
  <2>1. s \in SUBSET (1 .. l) /\ s # {} /\ n + 1 \in Nat /\ n + 1 \in s
    <3>1. n + 1 \in Nat /\ n + 1 \in s /\ n + 1 <= l
      BY <1>6
    <3>2. \A x \in s : x \in 1 .. l
      BY <3>1
    <3> QED
      BY <3>1, <3>2
  <2>2. Max(s) \in s /\ \A x \in s : x <= Max(s)
    BY <2>1, GreatestIsMember
  <2>3. Max(s) = n + 1
    BY <2>2
  <2>4. s \ {n + 1} = 1 .. n
    OBVIOUS
  <2> HIDE DEF s
  <2>5. g[s] = parseLine(data[n + 1], g[1 .. n])
    BY <1>4, <2>1, <2>3, <2>4 DEF Parsed
  <2> QED
    BY <2>5 DEF s
<1> QED
  BY <1>2, <1>3, <1>5, <1>6

-----------------------------------------------------------------------------
(* What lsof prints                                                         *)

Line == {<<"p", p>> : p \in Pids} \cup {<<"f", f>> : f \in Fds}
          \cup {<<"P", "TCP">>} \cup {<<"n", Node(s)>> : s \in Sockets}

ListensOn(p) == {f \in Open(p) : table[p].fds[f] \in Sockets}

\* A process of this user listened there at some moment of the call.
Listened(p, node, tables) ==
    \E n \in DOMAIN tables :
        /\ tables[n][p] # NoProcess /\ tables[n][p].user = Me
        /\ \E f \in Fds : tables[n][p].fds[f] \in Sockets /\ Node(tables[n][p].fds[f]) = node

\* Lines about one process, after the one with its pid.
IsBody(out, p) ==
    /\ out \in Seq(Line)
    /\ \A i \in 1 .. Len(out) :
         out[i][1] # "p" /\ (out[i][1] = "n" => Listened(p, out[i][2], seen))

Names(out, node) ==
    \E j \in 2 .. Len(out) : out[j] = <<"n", node>> /\ out[j - 1] = <<"P", "TCP">>

\* Every address follows the pid of a process that listened there.
IsSound(out, tables) ==
    /\ out \in Seq(Line)
    /\ \A i \in 1 .. Len(out) : out[i][1] = "n" =>
         \E j \in 1 .. i - 1 :
             /\ out[j][1] = "p" /\ Listened(out[j][2], out[i][2], tables)
             /\ \A k \in j + 1 .. i : out[k][1] # "p"

\* The output names an address of a process.
Tells(out, p, node) ==
    \E i \in 1 .. Len(out), j \in 1 .. Len(out) :
        /\ i < j - 1 /\ out[i] = <<"p", p>> /\ \A k \in i + 1 .. j : out[k][1] # "p"
        /\ out[j] = <<"n", node>> /\ out[j - 1] = <<"P", "TCP">>

(***************************************************************************)
(* Two outputs one after the other.                                        *)
(***************************************************************************)
LEMMA Joined ==
    ASSUME NEW S, NEW a \in Seq(S), NEW b \in Seq(S)
    PROVE  /\ a \o b \in Seq(S) /\ Len(a) \in Nat /\ Len(b) \in Nat
           /\ Len(a \o b) = Len(a) + Len(b)
           /\ \A i \in 1 .. Len(a) : (a \o b)[i] = a[i]
           /\ \A i \in 1 .. Len(b) : (a \o b)[Len(a) + i] = b[i]
           /\ \A i \in Len(a) + 1 .. Len(a) + Len(b) :
                i - Len(a) \in 1 .. Len(b) /\ (a \o b)[i] = b[i - Len(a)]
<1>1. a \o b \in Seq(S) /\ Len(a) \in Nat /\ Len(b) \in Nat /\ Len(a \o b) = Len(a) + Len(b)
  OBVIOUS
<1>2. \A i \in 1 .. Len(a) + Len(b) : (a \o b)[i] = IF i <= Len(a) THEN a[i] ELSE b[i - Len(a)]
  OBVIOUS
<1> QED
  BY <1>1, <1>2

(***************************************************************************)
(* The three lines about a descriptor.                                     *)
(***************************************************************************)
LEMMA FileLines ==
    ASSUME HistoryInv, NEW p \in Pids, Mine(p), NEW f \in ListensOn(p)
    PROVE  /\ IsBody(Described(p, f), p) /\ Len(Described(p, f)) = 3
           /\ Names(Described(p, f), Node(table[p].fds[f]))
<1> DEFINE F == Described(p, f)
<1>1. /\ f \in Fds /\ table[p].fds[f] \in Sockets
      /\ table[p] # NoProcess /\ table[p].user = Me
  BY DEF ListensOn, Open, Mine
<1>2. Listened(p, Node(table[p].fds[f]), seen)
  BY <1>1, PresentTable DEF Listened
<1>3. F = << <<"f", f>>, <<"P", "TCP">>, <<"n", Node(table[p].fds[f])>> >>
  BY DEF Described
<1> HIDE DEF F
<1>4. F \in Seq(Line) /\ Len(F) = 3 /\ F[1] = <<"f", f>> /\ F[2] = <<"P", "TCP">>
      /\ F[3] = <<"n", Node(table[p].fds[f])>>
  <2>1. <<"f", f>> \in Line /\ <<"P", "TCP">> \in Line /\ <<"n", Node(table[p].fds[f])>> \in Line
    BY <1>1 DEF Line
  <2> QED
    BY <1>3, <2>1
<1>5. IsBody(F, p)
  <2> SUFFICES ASSUME NEW i \in 1 .. 3
               PROVE  F[i][1] # "p" /\ (F[i][1] = "n" => Listened(p, F[i][2], seen))
    BY <1>4 DEF IsBody
  <2>1. i = 1 \/ i = 2 \/ i = 3
    OBVIOUS
  <2> QED
    BY <1>2, <1>4, <2>1
<1>6. Names(F, Node(table[p].fds[f]))
  <2>1. 3 \in 2 .. Len(F) /\ 3 - 1 = 2
    BY <1>4
  <2> QED
    BY <1>4, <2>1 DEF Names
<1> QED
  BY <1>4, <1>5, <1>6 DEF F

(***************************************************************************)
(* Two bodies one after the other are a body that names what either names. *)
(***************************************************************************)
LEMMA BodiesJoin ==
    ASSUME NEW p, NEW a, NEW b, IsBody(a, p), IsBody(b, p)
    PROVE  /\ IsBody(a \o b, p)
           /\ \A node : Names(a, node) \/ Names(b, node) => Names(a \o b, node)
<1> DEFINE c == a \o b
<1>1. a \in Seq(Line) /\ b \in Seq(Line)
  BY DEF IsBody
<1>2. /\ c \in Seq(Line) /\ Len(a) \in Nat /\ Len(b) \in Nat
      /\ Len(c) = Len(a) + Len(b)
      /\ \A i \in 1 .. Len(a) : c[i] = a[i]
      /\ \A i \in 1 .. Len(b) : c[Len(a) + i] = b[i]
      /\ \A i \in Len(a) + 1 .. Len(a) + Len(b) :
           i - Len(a) \in 1 .. Len(b) /\ c[i] = b[i - Len(a)]
  BY <1>1, Joined
<1> HIDE DEF c
<1>3. IsBody(c, p)
  <2> SUFFICES ASSUME NEW i \in 1 .. Len(c)
               PROVE  c[i][1] # "p" /\ (c[i][1] = "n" => Listened(p, c[i][2], seen))
    BY <1>2 DEF IsBody
  <2>1. i \in 1 .. Len(a) \/ i \in Len(a) + 1 .. Len(a) + Len(b)
    BY <1>2
  <2>2. CASE i \in 1 .. Len(a)
    <3>1. a[i][1] # "p" /\ (a[i][1] = "n" => Listened(p, a[i][2], seen))
      BY <2>2 DEF IsBody
    <3>2. c[i] = a[i]
      BY <1>2, <2>2
    <3> QED
      BY <3>1, <3>2
  <2>3. CASE i \in Len(a) + 1 .. Len(a) + Len(b)
    <3>1. PICK j \in 1 .. Len(b) : c[i] = b[j]
      BY <1>2, <2>3
    <3>2. b[j][1] # "p" /\ (b[j][1] = "n" => Listened(p, b[j][2], seen))
      BY DEF IsBody
    <3> QED
      BY <3>1, <3>2
  <2> QED
    BY <2>1, <2>2, <2>3
<1>4. ASSUME NEW node, Names(a, node)  PROVE Names(c, node)
  <2>1. PICK j \in 2 .. Len(a) : a[j] = <<"n", node>> /\ a[j - 1] = <<"P", "TCP">>
    BY <1>4 DEF Names
  <2>2. j \in 1 .. Len(a) /\ j - 1 \in 1 .. Len(a) /\ j \in 2 .. Len(c)
    BY <1>2
  <2> QED
    BY <1>2, <2>1, <2>2 DEF Names
<1>5. ASSUME NEW node, Names(b, node)  PROVE Names(c, node)
  <2>1. PICK j \in 2 .. Len(b) : b[j] = <<"n", node>> /\ b[j - 1] = <<"P", "TCP">>
    BY <1>5 DEF Names
  <2>2. /\ j \in 1 .. Len(b) /\ j - 1 \in 1 .. Len(b) /\ Len(a) + j \in 2 .. Len(c)
        /\ Len(a) + (j - 1) = (Len(a) + j) - 1
    BY <1>2
  <2>3. c[Len(a) + j] = b[j] /\ c[(Len(a) + j) - 1] = b[j - 1]
    BY <1>2, <2>2
  <2> QED
    BY <2>1, <2>2, <2>3 DEF Names
<1> QED
  BY <1>3, <1>4, <1>5 DEF c

(***************************************************************************)
(* A report on a process names every socket it listens on, and no other.   *)
(***************************************************************************)
LEMMA ReportBody ==
    ASSUME HistoryInv, NEW p \in Pids, Mine(p), ListensOn(p) # {}
    PROVE  \E out : /\ Report(p) = << <<"p", p>> >> \o out /\ IsBody(out, p)
                    /\ \A f \in ListensOn(p) : Names(out, Node(table[p].fds[f]))
<1> DEFINE D == ListensOn(p)
           g == CHOOSE x : IsFiling(p, D, x)
           Good(s) == IsBody(g[s], p) /\ \A f \in s : Names(g[s], Node(table[p].fds[f]))
           T == {n \in Nat : \A s \in SUBSET D : Cardinality(s) <= n => Good(s)}
<1>1. IsFiniteSet(D)
  BY ScannerConstants, FS_Subset DEF ListensOn, Open
<1>2. \A s \in SUBSET D : IsFiniteSet(s) /\ Cardinality(s) \in Nat
  BY <1>1, FS_Subset, FS_CardinalityType
<1>3. IsFiling(p, D, g)
  BY <1>1, FilingExists
<1>4. Report(p) = << <<"p", p>> >> \o g[D]
  BY ReportIsFiled DEF ListensOn
<1> HIDE DEF g
<1>5. \A s \in SUBSET D : g[s] = Filed(p, g, s)
  BY <1>3 DEF IsFiling
<1>6. 0 \in T
  <2>1. \A s \in SUBSET D : Cardinality(s) <= 0 => s = {}
    BY <1>2, FS_EmptySet
  <2>2. g[{}] = <<>>
    BY <1>5 DEF Filed
  <2>3. Good({})
    BY <2>2 DEF IsBody
  <2> HIDE DEF Good
  <2> QED
    BY <2>1, <2>3
<1>7. ASSUME NEW n \in T  PROVE n + 1 \in T
  <2> SUFFICES ASSUME NEW s \in SUBSET D, Cardinality(s) <= n + 1 PROVE Good(s)
    OBVIOUS
  <2>1. CASE s = {}
    <3>1. g[s] = <<>>
      BY <1>5, <2>1 DEF Filed
    <3> QED
      BY <2>1, <3>1 DEF IsBody
  <2>2. CASE s # {}
    <3> DEFINE r == s \ {First(s)}
    <3>1. First(s) \in s
      BY <2>2 DEF First
    <3>2. r \in SUBSET D /\ Cardinality(r) <= n
      BY <1>2, <3>1, OneOut
    <3>3. Good(r)
      BY <3>2
    <3>4. g[s] = Described(p, First(s)) \o g[r]
      BY <1>5, <2>2 DEF Filed
    <3>5. s = {First(s)} \cup r
      BY <3>1
    <3> HIDE DEF r
    <3>6. IsBody(Described(p, First(s)), p) /\ Names(Described(p, First(s)), Node(table[p].fds[First(s)]))
      BY <3>1, FileLines
    <3>7. /\ IsBody(g[s], p)
          /\ \A node : Names(Described(p, First(s)), node) \/ Names(g[r], node) => Names(g[s], node)
      <4> DEFINE a == Described(p, First(s))
                 b == g[r]
      <4>1. IsBody(a, p) /\ IsBody(b, p) /\ g[s] = a \o b
        BY <3>3, <3>4, <3>6
      <4> HIDE DEF a, b
      <4>2. IsBody(a \o b, p) /\ \A node : Names(a, node) \/ Names(b, node) => Names(a \o b, node)
        BY <4>1, BodiesJoin
      <4> QED
        BY <4>1, <4>2 DEF a, b
    <3>8. ASSUME NEW f \in s  PROVE Names(g[s], Node(table[p].fds[f]))
      <4>1. f = First(s) \/ f \in r
        BY <3>5
      <4> QED
        BY <3>3, <3>6, <3>7, <4>1
    <3> QED
      BY <3>7, <3>8
  <2> QED
    BY <2>1, <2>2
<1>8. T = Nat
  <2> HIDE DEF T
  <2>1. T \in SUBSET Nat
    BY DEF T
  <2> QED
    BY <1>6, <1>7, <2>1, Counting
<1>9. Good(D)
  BY <1>2, <1>8
<1> QED
  BY <1>4, <1>9

(***************************************************************************)
(* What is sound, or told, stays so when a report follows.                 *)
(***************************************************************************)
LEMMA ReportFollows ==
    ASSUME HistoryInv, NEW out, IsSound(out, seen), NEW p \in Pids, Mine(p)
    PROVE  /\ IsSound(out \o Report(p), seen)
           /\ \A q, node : Tells(out, q, node) => Tells(out \o Report(p), q, node)
           /\ \A f \in ListensOn(p) : Tells(out \o Report(p), p, Node(table[p].fds[f]))
<1>0. out \in Seq(Line)
  BY DEF IsSound
<1>1. CASE ListensOn(p) = {}
  <2>1. Report(p) = <<>>
    BY <1>1, ReportIsFiled DEF ListensOn
  <2>2. out \o Report(p) = out
    BY <1>0, <2>1
  <2> QED
    BY <1>1, <2>2
<1>2. CASE ListensOn(p) # {}
  <2>1. PICK b : /\ Report(p) = << <<"p", p>> >> \o b /\ IsBody(b, p)
                 /\ \A f \in ListensOn(p) : Names(b, Node(table[p].fds[f]))
    BY <1>2, ReportBody
  <2> DEFINE head == << <<"p", p>> >>
             r == Report(p)
             c == out \o r
             n == Len(out)
  <2>2. b \in Seq(Line) /\ head \in Seq(Line) /\ Len(head) = 1 /\ head[1] = <<"p", p>>
    <3>1. <<"p", p>> \in Line
      BY DEF Line
    <3> QED
      BY <2>1, <3>1 DEF IsBody
  <2> HIDE DEF head
  <2>3. r = head \o b
    BY <2>1 DEF head
  <2> HIDE DEF r
  <2>4. /\ r \in Seq(Line) /\ Len(r) = Len(b) + 1 /\ Len(b) \in Nat /\ r[1] = <<"p", p>>
        /\ \A i \in 1 .. Len(b) : r[1 + i] = b[i]
        /\ \A i \in 2 .. Len(r) : i - 1 \in 1 .. Len(b) /\ r[i] = b[i - 1]
    <3>1. /\ r \in Seq(Line) /\ Len(b) \in Nat /\ Len(r) = 1 + Len(b)
          /\ \A i \in 1 .. 1 : r[i] = head[i]
          /\ \A i \in 1 .. Len(b) : r[1 + i] = b[i]
          /\ \A i \in 1 + 1 .. 1 + Len(b) : i - 1 \in 1 .. Len(b) /\ r[i] = b[i - 1]
      <4>1. /\ head \o b \in Seq(Line) /\ Len(head) \in Nat /\ Len(b) \in Nat
            /\ Len(head \o b) = Len(head) + Len(b)
            /\ \A i \in 1 .. Len(head) : (head \o b)[i] = head[i]
            /\ \A i \in 1 .. Len(b) : (head \o b)[Len(head) + i] = b[i]
            /\ \A i \in Len(head) + 1 .. Len(head) + Len(b) :
                 i - Len(head) \in 1 .. Len(b) /\ (head \o b)[i] = b[i - Len(head)]
        BY <2>2, Joined
      <4> QED
        BY <2>2, <2>3, <4>1
    <3> QED
      BY <2>2, <3>1
  <2>5. /\ c \in Seq(Line) /\ n \in Nat /\ Len(r) \in Nat
        /\ Len(c) = n + Len(r)
        /\ \A i \in 1 .. n : c[i] = out[i]
        /\ \A i \in 1 .. Len(r) : c[n + i] = r[i]
    <3>1. /\ out \o r \in Seq(Line) /\ Len(out) \in Nat /\ Len(r) \in Nat
          /\ Len(out \o r) = Len(out) + Len(r)
          /\ \A i \in 1 .. Len(out) : (out \o r)[i] = out[i]
          /\ \A i \in 1 .. Len(r) : (out \o r)[Len(out) + i] = r[i]
      <4>1. r \in Seq(Line)
        BY <2>4
      <4> HIDE DEF c, n
      <4> QED
        BY <1>0, <4>1, Joined
    <3> QED
      BY <3>1
  <2> HIDE DEF c, n
  <2>6. /\ c[n + 1] = <<"p", p>> /\ n + 1 \in 1 .. Len(c)
        /\ \A i \in n + 2 .. Len(c) : i - (n + 1) \in 1 .. Len(b) /\ c[i] = b[i - (n + 1)]
    <3>1. 1 \in 1 .. Len(r)
      BY <2>4
    <3>2. ASSUME NEW i \in n + 2 .. Len(c)
          PROVE  i - (n + 1) \in 1 .. Len(b) /\ c[i] = b[i - (n + 1)]
      <4>1. i - n \in 2 .. Len(r) /\ i - n \in 1 .. Len(r) /\ n + (i - n) = i
            /\ (i - n) - 1 = i - (n + 1)
        BY <2>4, <2>5
      <4> QED
        BY <2>4, <2>5, <4>1
    <3> QED
      BY <2>4, <2>5, <3>1, <3>2
  <2>7. IsSound(c, seen)
    <3> SUFFICES ASSUME NEW i \in 1 .. Len(c), c[i][1] = "n"
                 PROVE  \E j \in 1 .. i - 1 :
                          /\ c[j][1] = "p" /\ Listened(c[j][2], c[i][2], seen)
                          /\ \A k \in j + 1 .. i : c[k][1] # "p"
      BY <2>5 DEF IsSound
    <3>1. CASE i <= n
      <4>1. i \in 1 .. Len(out) /\ c[i] = out[i] /\ n = Len(out)
        BY <2>5, <3>1 DEF n
      <4>2. PICK j \in 1 .. i - 1 : /\ out[j][1] = "p" /\ Listened(out[j][2], out[i][2], seen)
                                    /\ \A k \in j + 1 .. i : out[k][1] # "p"
        BY <4>1 DEF IsSound
      <4>3. c[j] = out[j] /\ \A k \in j + 1 .. i : c[k] = out[k]
        BY <2>5, <3>1
      <4> QED
        BY <4>1, <4>2, <4>3
    <3>2. CASE i > n
      <4>1. i # n + 1
        BY <2>6
      <4>2. i \in n + 2 .. Len(c) /\ n + 1 \in 1 .. i - 1
        BY <2>5, <3>2, <4>1
      <4>3. i - (n + 1) \in 1 .. Len(b) /\ c[i] = b[i - (n + 1)]
        BY <2>6, <4>2
      <4>4. Listened(p, c[i][2], seen)
        BY <2>1, <4>3 DEF IsBody
      <4>5. ASSUME NEW k \in (n + 1) + 1 .. i  PROVE c[k][1] # "p"
        <5>1. k \in n + 2 .. Len(c)
          BY <2>5, <4>2
        <5>2. k - (n + 1) \in 1 .. Len(b) /\ c[k] = b[k - (n + 1)]
          BY <2>6, <5>1
        <5> QED
          BY <2>1, <5>2 DEF IsBody
      <4>6. PICK j \in 1 .. i - 1 : j = n + 1
        BY <4>2
      <4>7. c[j][1] = "p" /\ c[j][2] = p
        BY <2>6, <4>6
      <4>8. \A k \in j + 1 .. i : c[k][1] # "p"
        BY <4>5, <4>6
      <4> QED
        BY <4>4, <4>7, <4>8
    <3> QED
      BY <2>5, <3>1, <3>2
  <2>8. ASSUME NEW q, NEW node, Tells(out, q, node)  PROVE Tells(c, q, node)
    <3>1. PICK i \in 1 .. Len(out), j \in 1 .. Len(out) :
             /\ i < j - 1 /\ out[i] = <<"p", q>> /\ \A k \in i + 1 .. j : out[k][1] # "p"
             /\ out[j] = <<"n", node>> /\ out[j - 1] = <<"P", "TCP">>
      BY <2>8 DEF Tells
    <3>2. n = Len(out)
      BY DEF n
    <3>3. /\ i \in 1 .. Len(c) /\ j \in 1 .. Len(c) /\ j - 1 \in 1 .. n /\ i \in 1 .. n /\ j \in 1 .. n
          /\ \A k \in i + 1 .. j : k \in 1 .. n
      BY <2>5, <3>1, <3>2
    <3>4. c[i] = out[i] /\ c[j] = out[j] /\ c[j - 1] = out[j - 1] /\ \A k \in i + 1 .. j : c[k] = out[k]
      BY <2>5, <3>3
    <3> QED
      BY <3>1, <3>3, <3>4 DEF Tells
  <2>9. ASSUME NEW f \in ListensOn(p)  PROVE Tells(c, p, Node(table[p].fds[f]))
    <3>1. PICK m \in 2 .. Len(b) : /\ b[m] = <<"n", Node(table[p].fds[f])>>
                                   /\ b[m - 1] = <<"P", "TCP">>
      BY <2>1 DEF Names
    <3> DEFINE j == n + 1 + m
    <3>2. /\ j \in n + 2 .. Len(c) /\ j - 1 \in n + 2 .. Len(c) /\ j \in 1 .. Len(c)
          /\ j - (n + 1) = m /\ (j - 1) - (n + 1) = m - 1 /\ n + 1 < j - 1
      BY <2>4, <2>5
    <3>3. c[j] = b[m] /\ c[j - 1] = b[m - 1]
      BY <2>6, <3>2
    <3>4. ASSUME NEW k \in (n + 1) + 1 .. j  PROVE c[k][1] # "p"
      <4>1. k \in n + 2 .. Len(c)
        <5>1. n \in Nat /\ Len(c) \in Nat
          BY <2>5
        <5>2. j \in Int /\ j <= Len(c)
          BY <3>2, <5>1
        <5> HIDE DEF j
        <5> QED
          BY <5>1, <5>2
      <4>2. k - (n + 1) \in 1 .. Len(b) /\ c[k] = b[k - (n + 1)]
        BY <2>6, <4>1
      <4> QED
        BY <2>1, <4>2 DEF IsBody
    <3> HIDE DEF j
    <3> QED
      BY <2>6, <3>1, <3>2, <3>3, <3>4 DEF Tells
  <2> QED
    BY <2>7, <2>8, <2>9 DEF c, r
<1> QED
  BY <1>1, <1>2

(***************************************************************************)
(* Output that ends early is sound as far as it goes, and remains sound    *)
(* when the history grows.                                                 *)
(***************************************************************************)
LEMMA SoundPrefix ==
    ASSUME NEW tables, NEW out, IsSound(out, tables), NEW n \in 0 .. Len(out)
    PROVE  IsSound(SubSeq(out, 1, n), tables)
<1> DEFINE c == SubSeq(out, 1, n)
<1>1. out \in Seq(Line) /\ Len(out) \in Nat
  BY DEF IsSound
<1>2. c \in Seq(Line) /\ Len(c) = n /\ \A i \in 1 .. n : c[i] = out[i]
  BY <1>1
<1> HIDE DEF c
<1>3. ASSUME NEW i \in 1 .. n, c[i][1] = "n"
      PROVE  \E j \in 1 .. i - 1 : /\ c[j][1] = "p" /\ Listened(c[j][2], c[i][2], tables)
                                   /\ \A k \in j + 1 .. i : c[k][1] # "p"
  <2>1. i \in 1 .. Len(out) /\ out[i][1] = "n"
    BY <1>1, <1>2, <1>3
  <2>2. PICK j \in 1 .. i - 1 : /\ out[j][1] = "p" /\ Listened(out[j][2], out[i][2], tables)
                                /\ \A k \in j + 1 .. i : out[k][1] # "p"
    BY <2>1 DEF IsSound
  <2>3. j \in 1 .. n /\ \A k \in j + 1 .. i : k \in 1 .. n
    OBVIOUS
  <2> QED
    BY <1>2, <2>2, <2>3
<1> QED
  BY <1>2, <1>3 DEF IsSound, c

\* A history that grows keeps it so.
LEMMA SoundLater ==
    ASSUME NEW out, IsSound(out, seen), Remembers
    PROVE  IsSound(out, seen')
<1>1. \A p, node : Listened(p, node, seen) => Listened(p, node, seen')
  BY DEF Remembers, Listened
<1> QED
  BY <1>1 DEF IsSound

-----------------------------------------------------------------------------
(* What parseLsofF makes of it                                              *)

Parser == [pid : Pids \cup {0}, proto : {"", "TCP"}, rows : SUBSET Address]

RowOf(p, node) ==
    [pid |-> p, port |-> splitHostPort(node).port, host |-> splitHostPort(node).host]

\* An address that somebody else of this user listened on.
IsTold(addr, tables) ==
    /\ addr \in Address /\ addr.pid # Self /\ InRange(addr.port)
    /\ \E node : Listened(addr.pid, node, tables) /\ addr = RowOf(addr.pid, node)

(***************************************************************************)
(* An address of lsof's is one of a socket, but for the two wildcards.     *)
(***************************************************************************)
LEMMA NodeShape ==
    ASSUME NEW s \in Sockets, NEW p \in Pids
    PROVE  /\ s.host # "*" /\ Node(s).port = s.port /\ Node(s).host \in {s.host, "*"}
           /\ RowOf(p, Node(s)) \in Address
           /\ RowOf(p, Node(s)).pid = p /\ RowOf(p, Node(s)).port = s.port
           /\ RowOf(p, Node(s)).host = s.host
              \/ (RowOf(p, Node(s)).host = "0.0.0.0" /\ s.host = "::")
<1>1. s \in [port : Nat, host : STRING] /\ s.host # "*"
  BY ScannerConstants
<1>2. Node(s) = [host |-> IF s.host \in {"0.0.0.0", "::"} THEN "*" ELSE s.host, port |-> s.port]
  BY DEF Node
<1>3. /\ splitHostPort(Node(s)).port = s.port
      /\ splitHostPort(Node(s)).host = IF s.host \in {"0.0.0.0", "::"} THEN "0.0.0.0" ELSE s.host
  BY <1>1, <1>2 DEF splitHostPort
<1>4. RowOf(p, Node(s)) = [pid |-> p, port |-> s.port,
                           host |-> IF s.host \in {"0.0.0.0", "::"} THEN "0.0.0.0" ELSE s.host]
  BY <1>3 DEF RowOf
<1>5. /\ s.port \in UNION {{x.port} \cup Cuts(x.port) : x \in Sockets}
      /\ s.host \in {x.host : x \in Sockets}
  OBVIOUS
<1>6. RowOf(p, Node(s)) \in Address
  BY <1>4, <1>5 DEF Address
<1>7. Node(s).port = s.port /\ Node(s).host \in {s.host, "*"}
  BY <1>2
<1>8. /\ RowOf(p, Node(s)).pid = p /\ RowOf(p, Node(s)).port = s.port
      /\ RowOf(p, Node(s)).host = s.host
         \/ (RowOf(p, Node(s)).host = "0.0.0.0" /\ s.host \in {"0.0.0.0", "::"})
  BY <1>4
<1> QED
  BY <1>1, <1>6, <1>7, <1>8

(***************************************************************************)
(* What one line does to the parser.                                       *)
(***************************************************************************)
LEMMA ParserLine ==
    ASSUME NEW acc \in Parser, NEW line \in Line
    PROVE  LET new == parseLine(line, acc)
           IN  /\ new \in Parser /\ acc.rows \subseteq new.rows
               /\ line[1] = "p" => line[2] \in Pids /\ new.pid = line[2] /\ new.rows = acc.rows
               /\ line[1] # "p" => new.pid = acc.pid
               /\ line[1] = "P" => new.proto = "TCP" /\ new.rows = acc.rows
               /\ line[1] = "f" => new = acc
               /\ line[1] = "n" =>
                    new.rows = acc.rows \cup
                       (IF acc.pid \in {0, Self} \/ acc.proto # "TCP"
                           \/ ~InRange(splitHostPort(line[2]).port)
                        THEN {} ELSE {RowOf(acc.pid, line[2])})
               /\ line[1] \in {"p", "f", "P", "n"}
<1>1. CASE \E p \in Pids : line = <<"p", p>>
  <2>1. line[1] = "p" /\ line[2] \in Pids
    BY <1>1
  <2>2. parseLine(line, acc) = [acc EXCEPT !.pid = line[2], !.proto = ""]
    BY <2>1 DEF parseLine
  <2>3. /\ parseLine(line, acc) \in Parser /\ parseLine(line, acc).pid = line[2]
        /\ parseLine(line, acc).rows = acc.rows
    BY <2>1, <2>2 DEF Parser
  <2> QED
    BY <2>1, <2>3
<1>2. CASE \E f \in Fds : line = <<"f", f>>
  <2>1. line[1] = "f"
    BY <1>2
  <2>2. parseLine(line, acc) = acc
    BY <2>1 DEF parseLine
  <2> QED
    BY <2>1, <2>2
<1>3. CASE line = <<"P", "TCP">>
  BY <1>3 DEF parseLine, Parser
<1>4. CASE \E s \in Sockets : line = <<"n", Node(s)>>
  <2>1. PICK s \in Sockets : line = <<"n", Node(s)>>
    BY <1>4
  <2> DEFINE at == splitHostPort(line[2])
             no == acc.pid \in {0, Self} \/ acc.proto # "TCP" \/ ~InRange(at.port)
  <2>2. parseLine(line, acc) = IF no THEN acc ELSE [acc EXCEPT !.rows = @ \cup {RowOf(acc.pid, line[2])}]
    BY <2>1 DEF parseLine, RowOf
  <2>3. ~no => acc.pid \in Pids
    BY DEF Parser
  <2>4. ~no => RowOf(acc.pid, line[2]) \in Address
    BY <2>1, <2>3, NodeShape
  <2> HIDE DEF no
  <2>5. parseLine(line, acc) \in Parser /\ parseLine(line, acc).pid = acc.pid
        /\ parseLine(line, acc).rows = acc.rows \cup (IF no THEN {} ELSE {RowOf(acc.pid, line[2])})
    <3>1. CASE no
      <4>1. acc.rows = acc.rows \cup {}
        OBVIOUS
      <4> QED
        BY <2>2, <3>1, <4>1
    <3>2. CASE ~no
      <4>1. parseLine(line, acc) = [acc EXCEPT !.rows = acc.rows \cup {RowOf(acc.pid, line[2])}]
        BY <2>2, <3>2
      <4>2. acc.rows \cup {RowOf(acc.pid, line[2])} \in SUBSET Address
        BY <2>4, <3>2 DEF Parser
      <4> QED
        BY <3>2, <4>1, <4>2 DEF Parser
    <3> QED
      BY <3>1, <3>2
  <2> QED
    BY <2>1, <2>5 DEF no
<1> QED
  BY <1>1, <1>2, <1>3, <1>4 DEF Line

\* The pid is that of the last line that named one.
KnowsPid(out, n, acc) ==
    \/ /\ acc.pid = 0 /\ \A k \in 1 .. n : out[k][1] # "p"
    \/ \E j \in 1 .. n : /\ out[j][1] = "p" /\ acc.pid = out[j][2]
                         /\ \A k \in j + 1 .. n : out[k][1] # "p"

(***************************************************************************)
(* After n lines the parser knows the pid and has only what was told.      *)
(***************************************************************************)
LEMMA ParserProgress ==
    ASSUME NEW tables, NEW out, IsSound(out, tables), NEW n \in Nat, n < Len(out),
           After(out, n) \in Parser, KnowsPid(out, n, After(out, n)),
           \A addr \in After(out, n).rows : IsTold(addr, tables)
    PROVE  /\ After(out, n + 1) \in Parser /\ KnowsPid(out, n + 1, After(out, n + 1))
           /\ \A addr \in After(out, n + 1).rows : IsTold(addr, tables)
<1> DEFINE acc == After(out, n)
           new == After(out, n + 1)
           line == out[n + 1]
<1>1. out \in Seq(Line) /\ DOMAIN out = 1 .. Len(out) /\ Len(out) \in Nat
  BY DEF IsSound
<1>2. n + 1 \in 1 .. Len(out) /\ line \in Line /\ new = parseLine(line, acc)
  <2>1. n + 1 \in 1 .. Len(out)
    BY <1>1
  <2>2. line \in Line
    BY <1>1, <2>1
  <2> QED
    BY <1>1, <2>1, <2>2, ParserSteps
<1>3. acc \in Parser /\ KnowsPid(out, n, acc) /\ \A addr \in acc.rows : IsTold(addr, tables)
  OBVIOUS
<1> HIDE DEF acc, new
<1>4. /\ new \in Parser
      /\ line[1] = "p" => new.pid = line[2] /\ new.rows = acc.rows
      /\ line[1] # "p" => new.pid = acc.pid
      /\ line[1] \in {"P", "f"} => new.rows = acc.rows
      /\ line[1] = "n" =>
           new.rows = acc.rows \cup
              (IF acc.pid \in {0, Self} \/ acc.proto # "TCP" \/ ~InRange(splitHostPort(line[2]).port)
               THEN {} ELSE {RowOf(acc.pid, line[2])})
      /\ line[1] \in {"p", "f", "P", "n"}
  BY <1>2, <1>3, ParserLine
<1>5. KnowsPid(out, n + 1, new)
  <2>1. CASE line[1] = "p"
    <3>1. n + 1 \in 1 .. n + 1 /\ \A k \in (n + 1) + 1 .. n + 1 : out[k][1] # "p"
      OBVIOUS
    <3> QED
      BY <1>4, <2>1, <3>1 DEF KnowsPid
  <2>2. CASE line[1] # "p" /\ acc.pid = 0 /\ \A k \in 1 .. n : out[k][1] # "p"
    <3>1. \A k \in 1 .. n + 1 : k \in 1 .. n \/ k = n + 1
      OBVIOUS
    <3> QED
      BY <1>4, <2>2, <3>1 DEF KnowsPid
  <2>3. ASSUME line[1] # "p", NEW j \in 1 .. n, out[j][1] = "p", acc.pid = out[j][2],
               \A k \in j + 1 .. n : out[k][1] # "p"
        PROVE  KnowsPid(out, n + 1, new)
    <3>1. j \in 1 .. n + 1 /\ \A k \in j + 1 .. n + 1 : k \in j + 1 .. n \/ k = n + 1
      OBVIOUS
    <3> QED
      BY <1>4, <2>3, <3>1 DEF KnowsPid
  <2> QED
    BY <1>3, <2>1, <2>2, <2>3 DEF KnowsPid
<1>6. ASSUME line[1] = "n", acc.pid \notin {0, Self}, InRange(splitHostPort(line[2]).port)
      PROVE  IsTold(RowOf(acc.pid, line[2]), tables)
  <2>1. PICK j \in 1 .. (n + 1) - 1 : /\ out[j][1] = "p" /\ Listened(out[j][2], line[2], tables)
                                      /\ \A k \in j + 1 .. n + 1 : out[k][1] # "p"
    BY <1>2, <1>6 DEF IsSound
  <2>2. PICK i \in 1 .. n : /\ out[i][1] = "p" /\ acc.pid = out[i][2]
                            /\ \A k \in i + 1 .. n : out[k][1] # "p"
    BY <1>3, <1>6 DEF KnowsPid
  <2>3. i = j
    <3>1. j \in 1 .. n /\ ~(j \in i + 1 .. n) /\ ~(i \in j + 1 .. n + 1)
      BY <2>1, <2>2
    <3> QED
      BY <3>1
  <2>4. acc.pid \in Pids /\ Listened(acc.pid, line[2], tables)
    BY <1>3, <1>6, <2>1, <2>2, <2>3 DEF Parser
  <2>5. PICK s \in Sockets : Node(s) = line[2]
    BY <2>4 DEF Listened
  <2>6. RowOf(acc.pid, line[2]) \in Address /\ RowOf(acc.pid, line[2]).pid = acc.pid
    BY <2>4, <2>5, NodeShape
  <2>7. RowOf(acc.pid, line[2]).port = splitHostPort(line[2]).port
    BY DEF RowOf
  <2> QED
    BY <1>6, <2>4, <2>6, <2>7 DEF IsTold
<1>7. \A addr \in new.rows : IsTold(addr, tables)
  <2>1. \A addr \in new.rows : addr \in acc.rows
           \/ (line[1] = "n" /\ acc.pid \notin {0, Self} /\ InRange(splitHostPort(line[2]).port)
               /\ addr = RowOf(acc.pid, line[2]))
    <3>1. CASE line[1] # "n"
      <4>1. new.rows = acc.rows
        BY <1>4, <3>1
      <4> QED
        BY <4>1
    <3>2. CASE line[1] = "n"
      <4> DEFINE no == acc.pid \in {0, Self} \/ acc.proto # "TCP" \/ ~InRange(splitHostPort(line[2]).port)
      <4>1. new.rows = acc.rows \cup (IF no THEN {} ELSE {RowOf(acc.pid, line[2])})
        BY <1>4, <3>2
      <4>2. ~no => acc.pid \notin {0, Self} /\ InRange(splitHostPort(line[2]).port)
        OBVIOUS
      <4> HIDE DEF no
      <4>3. ASSUME NEW addr \in new.rows, addr \notin acc.rows
            PROVE  ~no /\ addr = RowOf(acc.pid, line[2])
        BY <4>1, <4>3
      <4> QED
        BY <3>2, <4>2, <4>3
    <3> QED
      BY <3>1, <3>2
  <2> QED
    BY <1>3, <1>6, <2>1
<1> QED
  BY <1>4, <1>5, <1>7 DEF new

(***************************************************************************)
(* So every address it returns was listened on.                            *)
(***************************************************************************)
LEMMA ParseIsSound ==
    ASSUME NEW tables, NEW out, IsSound(out, tables)
    PROVE  /\ \A n \in 0 .. Len(out) :
                After(out, n) \in Parser /\ KnowsPid(out, n, After(out, n))
           /\ \A addr \in parseLsofF(out) : IsTold(addr, tables)
<1> DEFINE l == Len(out)
           Good(n) == /\ After(out, n) \in Parser /\ KnowsPid(out, n, After(out, n))
                      /\ \A addr \in After(out, n).rows : IsTold(addr, tables)
           T == {n \in Nat : n <= l => Good(n)}
<1>1. l \in Nat /\ DOMAIN out = 1 .. l
  BY DEF IsSound
<1>2. After(out, 0) = Start /\ parseLsofF(out) = After(out, l).rows
  BY <1>1, ParserSteps
<1> HIDE DEF l
<1>3. 0 \in T
  <2>1. Start \in Parser /\ Start.pid = 0 /\ Start.rows = {}
    BY DEF Start, Parser
  <2>2. Good(0)
    BY <1>2, <2>1 DEF KnowsPid
  <2> HIDE DEF Good
  <2> QED
    BY <2>2
<1>4. ASSUME NEW n \in T  PROVE n + 1 \in T
  <2> SUFFICES ASSUME n + 1 <= l PROVE Good(n + 1)
    OBVIOUS
  <2>1. n \in Nat /\ n < Len(out) /\ n <= l
    BY <1>1 DEF l
  <2>2. Good(n)
    BY <2>1
  <2> QED
    BY <2>1, <2>2, ParserProgress
<1>5. T = Nat
  <2> HIDE DEF T
  <2>1. T \in SUBSET Nat
    BY DEF T
  <2> QED
    BY <1>3, <1>4, <2>1, Counting
<1>6. \A n \in 0 .. l : Good(n)
  <2> HIDE DEF Good
  <2>1. \A n \in 0 .. l : n \in Nat /\ n <= l
    BY <1>1
  <2> QED
    BY <1>5, <2>1
<1>7. l \in 0 .. l
  BY <1>1
<1> QED
  BY <1>2, <1>6, <1>7 DEF l

(***************************************************************************)
(* And every address in the range that the output tells of somebody else   *)
(* is returned.                                                            *)
(***************************************************************************)
LEMMA ParseIsComplete ==
    ASSUME NEW tables, NEW out, IsSound(out, tables), NEW p \in Pids \ {Self},
           NEW s \in Sockets, InRange(s.port), Tells(out, p, Node(s))
    PROVE  RowOf(p, Node(s)) \in parseLsofF(out)
<1> DEFINE l == Len(out)
           row == RowOf(p, Node(s))
<1>1. out \in Seq(Line) /\ l \in Nat /\ DOMAIN out = 1 .. l
  BY DEF IsSound
<1>2. PICK i \in 1 .. l, j \in 1 .. l :
         /\ i < j - 1 /\ out[i] = <<"p", p>> /\ \A k \in i + 1 .. j : out[k][1] # "p"
         /\ out[j] = <<"n", Node(s)>> /\ out[j - 1] = <<"P", "TCP">>
  BY DEF Tells
<1>3. /\ \A n \in Nat : n < l => After(out, n + 1) = parseLine(out[n + 1], After(out, n))
      /\ parseLsofF(out) = After(out, l).rows
      /\ \A n \in 0 .. l : After(out, n) \in Parser
  BY <1>1, ParserSteps, ParseIsSound
<1>4. p # 0 /\ splitHostPort(Node(s)).port = s.port
  <2>1. row.port = splitHostPort(Node(s)).port
    BY DEF RowOf
  <2> QED
    BY <2>1, NodeShape, ScannerConstants
<1> HIDE DEF l, row
<1>5. ASSUME NEW n \in Nat, n < l
      PROVE  LET new == After(out, n + 1)
                 acc == After(out, n)
                 line == out[n + 1]
             IN  /\ acc.rows \subseteq new.rows
                 /\ line[1] = "p" => new.pid = line[2]
                 /\ line[1] # "p" => new.pid = acc.pid
                 /\ line[1] = "P" => new.proto = "TCP"
                 /\ line[1] = "n" =>
                      new.rows = acc.rows \cup
                         (IF acc.pid \in {0, Self} \/ acc.proto # "TCP"
                             \/ ~InRange(splitHostPort(line[2]).port)
                          THEN {} ELSE {RowOf(acc.pid, line[2])})
  <2>1. n + 1 \in 1 .. l /\ n \in 0 .. l
    BY <1>1, <1>5
  <2>2. out[n + 1] \in Line /\ After(out, n) \in Parser
    BY <1>1, <1>3, <2>1
  <2>3. After(out, n + 1) = parseLine(out[n + 1], After(out, n))
    BY <1>3, <1>5
  <2> QED
    BY <2>2, <2>3, ParserLine
<1> DEFINE Good(n) == /\ n \in i .. j => After(out, n).pid = p
                      /\ n \in j .. l => row \in After(out, n).rows
           T == {n \in Nat : Good(n)}
<1>6. 0 \in T
  BY <1>1, <1>2
<1>7. ASSUME NEW n \in T  PROVE n + 1 \in T
  <2>0. n \in Nat /\ i \in Nat /\ j \in Nat /\ i >= 1 /\ j <= l /\ i < j - 1
    BY <1>1, <1>2
  <2>1. CASE n + 1 = i
    <3>1. out[n + 1][1] = "p" /\ out[n + 1][2] = p /\ n < l
      BY <1>2, <2>0, <2>1, <1>1
    <3>2. After(out, n + 1).pid = p
      BY <1>5, <3>1, <2>0
    <3> QED
      BY <2>0, <2>1, <3>2
  <2>2. CASE n + 1 \in i + 1 .. j - 1
    <3>1. out[n + 1][1] # "p" /\ n < l /\ n \in i .. j
      BY <1>1, <1>2, <2>0, <2>2
    <3>2. After(out, n + 1).pid = p
      BY <1>5, <2>0, <3>1
    <3> QED
      BY <2>0, <2>2, <3>2
  <2>3. CASE n + 1 = j
    <3>1. out[n + 1] = <<"n", Node(s)>> /\ n < l /\ n \in i .. j /\ n # 0 /\ n = j - 1
      <4>1. n < l /\ n \in i .. j /\ n # 0 /\ n = j - 1
        BY <1>1, <2>0, <2>3
      <4>2. out[j] = <<"n", Node(s)>>
        BY <1>2
      <4> QED
        BY <2>3, <4>1, <4>2
    <3>2. After(out, n).proto = "TCP"
      <4>1. n - 1 \in Nat /\ n - 1 < l /\ (n - 1) + 1 = n /\ out[n] = <<"P", "TCP">>
        BY <1>1, <1>2, <2>0, <3>1
      <4>2. out[n][1] = "P"
        BY <4>1
      <4>3. out[(n - 1) + 1][1] = "P" => After(out, (n - 1) + 1).proto = "TCP"
        BY <1>5, <4>1
      <4> QED
        BY <4>1, <4>2, <4>3
    <3>3. After(out, n).pid = p /\ p \notin {0, Self}
      BY <1>4, <3>1
    <3>4. out[n + 1][1] = "n" /\ out[n + 1][2] = Node(s)
      BY <3>1
    <3>5. After(out, n + 1).pid = p
      BY <1>5, <2>0, <3>1, <3>3, <3>4
    <3>6. row \in After(out, n + 1).rows
      <4>1. ~(p \in {0, Self} \/ After(out, n).proto # "TCP" \/ ~InRange(splitHostPort(Node(s)).port))
        BY <1>4, <3>2, <3>3
      <4>2. After(out, n + 1).rows = After(out, n).rows \cup {RowOf(p, Node(s))}
        BY <1>5, <2>0, <3>1, <3>3, <3>4, <4>1
      <4> QED
        BY <4>2 DEF row
    <3> QED
      BY <2>0, <2>3, <3>5, <3>6
  <2>4. CASE n + 1 \in j + 1 .. l
    <3>1. n < l /\ n \in j .. l
      BY <1>1, <2>0, <2>4
    <3>2. row \in After(out, n).rows
      BY <3>1
    <3>3. row \in After(out, n + 1).rows
      BY <1>5, <2>0, <3>1, <3>2
    <3> QED
      BY <2>0, <2>4, <3>3
  <2>5. CASE n + 1 \notin i .. l
    BY <2>0, <2>5, <1>1
  <2> QED
    BY <2>0, <2>1, <2>2, <2>3, <2>4, <2>5, <1>1
<1>8. T = Nat
  <2> HIDE DEF T
  <2>1. T \in SUBSET Nat
    BY DEF T
  <2> QED
    BY <1>6, <1>7, <2>1, Counting
<1>9. l \in T /\ l \in j .. l
  BY <1>1, <1>2, <1>8
<1> QED
  BY <1>3, <1>9 DEF row

-----------------------------------------------------------------------------
(* Output that ends in half a line                                          *)

\* An address whose port is the beginning of one that was listened on.
IsTorn(addr, tables) ==
    /\ addr \in Address /\ addr.pid # Self /\ InRange(addr.port)
    /\ \E n \in DOMAIN tables :
         /\ tables[n][addr.pid] # NoProcess /\ tables[n][addr.pid].user = Me
         /\ \E f \in Fds, s \in Sockets :
              /\ tables[n][addr.pid].fds[f] = s /\ addr.port \in Cuts(s.port)
              /\ addr.host = s.host \/ (addr.host = "0.0.0.0" /\ s.host = "::")

(***************************************************************************)
(* The parser does the same with the same lines.                           *)
(***************************************************************************)
LEMMA ParsersAgree ==
    ASSUME NEW a, NEW k \in Nat, DOMAIN a = 1 .. k, NEW b, NEW l \in Nat, DOMAIN b = 1 .. l,
           NEW m \in Nat, m <= k, m <= l, \A i \in 1 .. m : a[i] = b[i]
    PROVE  After(a, m) = After(b, m)
<1> DEFINE T == {n \in Nat : n <= m => After(a, n) = After(b, n)}
<1>1. /\ After(a, 0) = Start
      /\ \A n \in Nat : n < k => After(a, n + 1) = parseLine(a[n + 1], After(a, n))
  BY ParserSteps
<1>2. /\ After(b, 0) = Start
      /\ \A n \in Nat : n < l => After(b, n + 1) = parseLine(b[n + 1], After(b, n))
  BY ParserSteps
<1>3. 0 \in T
  BY <1>1, <1>2
<1>4. ASSUME NEW n \in T  PROVE n + 1 \in T
  <2> SUFFICES ASSUME n + 1 <= m PROVE After(a, n + 1) = After(b, n + 1)
    OBVIOUS
  <2>1. n \in Nat /\ n < k /\ n < l /\ n + 1 \in 1 .. m /\ n <= m
    OBVIOUS
  <2>2. After(a, n) = After(b, n) /\ a[n + 1] = b[n + 1]
    BY <2>1
  <2> QED
    BY <1>1, <1>2, <2>1, <2>2
<1>5. T = Nat
  <2> HIDE DEF T
  <2>1. T \in SUBSET Nat
    BY DEF T
  <2> QED
    BY <1>3, <1>4, <2>1, Counting
<1>6. m \in T
  BY <1>5
<1> QED
  BY <1>6

WithPort(node, port) == [node EXCEPT !.port = port]

(***************************************************************************)
(* A node's address with another port.                                     *)
(***************************************************************************)
LEMMA HalfShape ==
    ASSUME NEW s \in Sockets, NEW p \in Pids, NEW port \in Cuts(s.port)
    PROVE  LET row == RowOf(p, WithPort(Node(s), port))
           IN  /\ row \in Address /\ row.pid = p /\ row.port = port
               /\ row.host = s.host \/ (row.host = "0.0.0.0" /\ s.host = "::")
               /\ splitHostPort(WithPort(Node(s), port)).port = port
<1> DEFINE host == IF s.host \in {"0.0.0.0", "::"} THEN "*" ELSE s.host
           shown == IF s.host \in {"0.0.0.0", "::"} THEN "0.0.0.0" ELSE s.host
           half == WithPort(Node(s), port)
<1>1. s.host # "*"
  BY ScannerConstants
<1>2. half = [host |-> host, port |-> port]
  BY DEF Node, WithPort
<1> HIDE DEF half
<1>3. splitHostPort(half) = [host |-> shown, port |-> port]
  <2>1. (IF half.host = "*" THEN "0.0.0.0" ELSE half.host) = shown
    BY <1>1, <1>2
  <2> HIDE DEF shown
  <2>2. splitHostPort(half) = [half EXCEPT !.host = shown]
    BY <2>1 DEF splitHostPort
  <2> QED
    BY <1>2, <2>2
<1>4. RowOf(p, half) = [pid |-> p, port |-> port, host |-> shown]
  BY <1>3 DEF RowOf
<1>5. /\ port \in UNION {{x.port} \cup Cuts(x.port) : x \in Sockets}
      /\ shown \in {x.host : x \in Sockets} \cup {"0.0.0.0"}
  OBVIOUS
<1>6. RowOf(p, half) \in Address
  BY <1>4, <1>5 DEF Address
<1>7. /\ RowOf(p, half).pid = p /\ RowOf(p, half).port = port
      /\ RowOf(p, half).host = shown /\ splitHostPort(half).port = port
  BY <1>3, <1>4
<1>8. shown = s.host \/ (shown = "0.0.0.0" /\ s.host = "::")
  OBVIOUS
<1> QED
  BY <1>6, <1>7, <1>8 DEF half

(***************************************************************************)
(* Half a line at the end adds the beginning of a port that was listened   *)
(* on, or nothing.                                                         *)
(***************************************************************************)
LEMMA TornParse ==
    ASSUME NEW tables, NEW out, IsSound(out, tables), NEW n \in 1 .. Len(out),
           NEW half \in Halves(out[n]),
           NEW addr \in parseLsofF(Append(SubSeq(out, 1, n - 1), half))
    PROVE  IsTold(addr, tables) \/ IsTorn(addr, tables)
<1> DEFINE m == n - 1
           whole == SubSeq(out, 1, m)
           torn == Append(whole, half)
           acc == After(torn, m)
<1>1. out \in Seq(Line) /\ Len(out) \in Nat /\ m \in 0 .. Len(out) /\ m \in Nat /\ m + 1 = n
  BY DEF IsSound
<1>2. IsSound(whole, tables)
  BY <1>1, SoundPrefix
<1>3. /\ whole \in Seq(Line) /\ Len(whole) = m /\ DOMAIN whole = 1 .. m
      /\ \A i \in 1 .. m : whole[i] = out[i]
  BY <1>1
<1> HIDE DEF whole
<1>4. DOMAIN torn = 1 .. n /\ torn[n] = half /\ \A i \in 1 .. m : torn[i] = whole[i]
  BY <1>1, <1>3
<1> HIDE DEF torn
<1>5. acc = After(whole, m)
  BY <1>1, <1>3, <1>4, ParsersAgree
<1>6. acc \in Parser /\ KnowsPid(whole, m, acc) /\ \A a \in acc.rows : IsTold(a, tables)
  <2>1. m \in 0 .. Len(whole) /\ parseLsofF(whole) = After(whole, m).rows
    BY <1>1, <1>3, ParserSteps
  <2> QED
    BY <1>2, <1>5, <2>1, ParseIsSound
<1>7. parseLsofF(torn) = parseLine(half, acc).rows
  <2>1. parseLsofF(torn) = After(torn, n).rows /\ After(torn, m + 1) = parseLine(torn[m + 1], acc)
    BY <1>1, <1>4, ParserSteps
  <2> QED
    BY <1>1, <1>4, <2>1
<1> HIDE DEF acc
<1>8. PICK s \in Sockets, port \in Cuts(out[n][2].port) :
         /\ out[n] = <<"n", Node(s)>> /\ port \in Cuts(s.port)
         /\ half = <<"n", WithPort(Node(s), port)>>
  <2>1. out[n] \in Line
    BY <1>1
  <2>2. out[n][1] = "n" /\ \E port \in Cuts(out[n][2].port) :
                              half = <<"n", [out[n][2] EXCEPT !.port = port]>>
    BY DEF Halves
  <2>3. PICK s \in Sockets : out[n] = <<"n", Node(s)>>
    BY <2>1, <2>2 DEF Line
  <2>4. out[n][2] = Node(s) /\ Node(s).port = s.port
    BY <2>3, ScannerConstants DEF Node
  <2> QED
    BY <2>2, <2>3, <2>4 DEF WithPort
<1> DEFINE node == WithPort(Node(s), port)
           no == acc.pid \in {0, Self} \/ acc.proto # "TCP" \/ ~InRange(splitHostPort(node).port)
<1>9. parseLine(half, acc).rows = IF no THEN acc.rows ELSE acc.rows \cup {RowOf(acc.pid, node)}
  <2>1. half[1] = "n" /\ half[2] = node
    BY <1>8
  <2> HIDE DEF node
  <2>2. parseLine(half, acc) = IF no THEN acc ELSE [acc EXCEPT !.rows = @ \cup {RowOf(acc.pid, node)}]
    BY <2>1 DEF parseLine, RowOf
  <2> QED
    BY <1>6, <2>2 DEF Parser
<1>10. CASE addr \in acc.rows
  BY <1>6, <1>10
<1>11. CASE ~no /\ addr = RowOf(acc.pid, node)
  <2>1. acc.pid \in Pids /\ acc.pid # Self
    BY <1>6, <1>11 DEF Parser
  <2>2. PICK j \in 1 .. m : /\ out[j][1] = "p" /\ acc.pid = out[j][2]
                            /\ \A k \in j + 1 .. m : out[k][1] # "p"
    <3>1. acc.pid # 0
      BY <1>11
    <3>2. PICK j \in 1 .. m : /\ whole[j][1] = "p" /\ acc.pid = whole[j][2]
                              /\ \A k \in j + 1 .. m : whole[k][1] # "p"
      BY <1>6, <3>1 DEF KnowsPid
    <3>3. \A k \in j + 1 .. m : k \in 1 .. m
      BY <1>1
    <3> QED
      BY <1>3, <3>2, <3>3
  <2>3. PICK i \in 1 .. n - 1 : /\ out[i][1] = "p" /\ Listened(out[i][2], Node(s), tables)
                                /\ \A k \in i + 1 .. n : out[k][1] # "p"
    <3>1. out[n][1] = "n" /\ out[n][2] = Node(s)
      BY <1>8
    <3> QED
      BY <3>1 DEF IsSound
  <2>4. i = j
    <3>1. i \in Nat /\ j \in Nat /\ i <= m /\ j <= m /\ m <= n
      BY <1>1
    <3>2. ~(i < j)
      <4>1. i < j => j \in i + 1 .. n
        BY <1>1, <3>1
      <4> QED
        BY <2>2, <2>3, <4>1
    <3>3. ~(j < i)
      <4>1. j < i => i \in j + 1 .. m
        BY <1>1, <3>1
      <4> QED
        BY <2>2, <2>3, <4>1
    <3> QED
      BY <3>1, <3>2, <3>3
  <2>5. Listened(acc.pid, Node(s), tables)
    BY <2>2, <2>3, <2>4
  <2>6. PICK t \in DOMAIN tables, f \in Fds :
           /\ tables[t][acc.pid] # NoProcess /\ tables[t][acc.pid].user = Me
           /\ tables[t][acc.pid].fds[f] \in Sockets /\ Node(tables[t][acc.pid].fds[f]) = Node(s)
    BY <2>5 DEF Listened
  <2> DEFINE r == tables[t][acc.pid].fds[f]
  <2>7. r \in Sockets /\ Node(r) = Node(s) /\ Node(r).port = r.port /\ Node(s).port = s.port
    BY <2>6, ScannerConstants DEF Node
  <2>8. port \in Cuts(r.port) /\ node = WithPort(Node(r), port)
    BY <1>8, <2>7
  <2> HIDE DEF r
  <2>9. /\ addr \in Address /\ addr.pid = acc.pid /\ addr.port = port
        /\ addr.host = r.host \/ (addr.host = "0.0.0.0" /\ r.host = "::")
        /\ splitHostPort(node).port = port
    <3>1. LET row == RowOf(acc.pid, WithPort(Node(r), port))
          IN  /\ row \in Address /\ row.pid = acc.pid /\ row.port = port
              /\ row.host = r.host \/ (row.host = "0.0.0.0" /\ r.host = "::")
              /\ splitHostPort(WithPort(Node(r), port)).port = port
      BY <2>1, <2>7, <2>8, HalfShape
    <3> QED
      BY <1>11, <2>8, <3>1
  <2>10. InRange(addr.port)
    BY <1>11, <2>9
  <2> QED
    BY <2>1, <2>6, <2>7, <2>8, <2>9, <2>10 DEF IsTorn, r
<1> QED
  BY <1>7, <1>9, <1>10, <1>11 DEF torn, whole

-----------------------------------------------------------------------------
(* Where a scan and an inspection are                                       *)

Walking    == {"pids.size", "pids.fill", "loop", "fd.size", "fd.fill"}
Inspecting == {"new", "argv", "cmdline", "cwd", "start", "uids", "env"}

PlaceInv ==
    /\ pc \in {"idle", "lsof", "done"} \cup Walking \cup Inspecting
    /\ result \in {"none", "libproc", "lsof", "inspector"} \X {"nil", "error"}
    /\ pc \in Walking => result = <<"libproc", "nil">>
    /\ pc = "lsof" => result = <<"lsof", "nil">>
    /\ pc \in Inspecting => result = <<"inspector", "nil">>
    /\ pc \in {"idle", "lsof"} \cup Inspecting => rows = {}
    /\ pc = "idle" => lines = <<>> /\ ~partial
    /\ pc \notin {"loop"} => fds = {}
    /\ pc \in {"fd.size", "fd.fill"} \/ fds # {} => cur # Self
    /\ result = <<"inspector", "nil">> => rows = {}

WalkTypes ==
    /\ expired \in BOOLEAN /\ partial \in BOOLEAN
    /\ size \in 0 .. Cardinality(Pids) + Cardinality(Fds) + PidSlack + FdSlack
    /\ pids \subseteq Pids /\ cur \in Pids /\ fds \subseteq Fds

InfoShape ==
    /\ target \in Pids
    /\ info = [argv |-> info.argv, cwd |-> info.cwd, born |-> info.born, user |-> info.user,
               env |-> info.env]
    /\ info.born \in 0..MaxChanges /\ info.user \in Users

(***************************************************************************)
(* Every step goes from one of these places to the next.                   *)
(***************************************************************************)
LEMMA PlaceInductive ==
    ASSUME PlaceInv, [Next]_vars
    PROVE  PlaceInv'
<1> USE DEF PlaceInv, Walking, Inspecting, Goto
<1>1. CASE UNCHANGED vars
  BY <1>1 DEF vars, scanVars, walkVars, insVars
<1>2. CASE Change \/ Expire
  BY <1>2 DEF Change, Expire, walkVars
<1>3. ASSUME NEW who \in {"libproc", "lsof", "inspector"}, Fail(who), fds = {}  PROVE PlaceInv'
  BY <1>3 DEF Fail
<1>4. CASE BeginLibproc \/ ListSize \/ ListFill \/ BeginLsof
  BY <1>3, <1>4 DEF BeginLibproc, ListSize, ListFill, BeginLsof, walkVars
<1>5. CASE NextPid
  BY <1>3, <1>5 DEF NextPid
<1>6. CASE FdSize \/ FdFill
  BY <1>6 DEF FdSize, FdFill
<1>7. CASE NextFd \/ EndLibproc
  BY <1>7 DEF NextFd, EndLibproc, walkVars
<1>8. CASE Probe
  BY <1>8 DEF Probe
<1>9. CASE EndLsof
  BY <1>3, <1>9 DEF EndLsof
<1>10. CASE BeginInspect
  BY <1>10 DEF BeginInspect
<1>11. ASSUME NEW from \in Inspecting, NEW to \in Inspecting \cup {"done"}, NEW f, NEW v,
              Filling(from, to, f, v)
       PROVE  PlaceInv'
  BY <1>11 DEF Filling, walkVars
<1>12. ASSUME NEW from \in Inspecting, Error(from)  PROVE PlaceInv'
  BY <1>3, <1>12 DEF Error
<1>13. CASE Inspect
  BY <1>11, <1>12, <1>13
  DEF Inspect, NewProcess, ReadArgv, ReadCmdline, ReadCwd, ReadStart, ReadUids, ReadEnv
<1> QED
  BY <1>1, <1>2, <1>4, <1>5, <1>6, <1>7, <1>8, <1>9, <1>10, <1>13 DEF Next, ScanNext

(***************************************************************************)
(* Live processes and open descriptors can be counted.                     *)
(***************************************************************************)
LEMMA Counted ==
    ASSUME NEW p
    PROVE  /\ IsFiniteSet(Alive) /\ Cardinality(Alive) \in 0 .. Cardinality(Pids)
           /\ IsFiniteSet(Open(p)) /\ Cardinality(Open(p)) \in 0 .. Cardinality(Fds)
           /\ Cardinality(Pids) \in Nat /\ Cardinality(Fds) \in Nat
           /\ PidSlack \in Nat /\ FdSlack \in Nat
<1>1. IsFiniteSet(Pids) /\ IsFiniteSet(Fds) /\ PidSlack \in Nat /\ FdSlack \in Nat
  BY ScannerConstants
<1>2. Cardinality(Pids) \in Nat /\ Cardinality(Fds) \in Nat
  BY <1>1, FS_CardinalityType
<1>3. Alive \subseteq Pids /\ Open(p) \subseteq Fds
  BY DEF Alive, Open
<1>4. /\ IsFiniteSet(Alive) /\ Cardinality(Alive) <= Cardinality(Pids)
      /\ IsFiniteSet(Open(p)) /\ Cardinality(Open(p)) <= Cardinality(Fds)
  BY <1>1, <1>3, FS_Subset
<1>5. Cardinality(Alive) \in Nat /\ Cardinality(Open(p)) \in Nat
  BY <1>4, FS_CardinalityType
<1> QED
  BY <1>1, <1>2, <1>4, <1>5

(***************************************************************************)
(* A list holds no more than there is.                                     *)
(***************************************************************************)
LEMMA ListsShape ==
    ASSUME NEW S, NEW T \in Lists(S)
    PROVE  T \subseteq S /\ (Cardinality(S) <= size => T = S)
  BY DEF Lists, Fits

(***************************************************************************)
(* The walk keeps its types.                                               *)
(***************************************************************************)
LEMMA WalkTypesInductive ==
    ASSUME WalkTypes, [Next]_vars
    PROVE  WalkTypes'
<1> USE DEF WalkTypes, Goto, Slots
<1>0. Self \in Pids /\ 0 \in 0 .. Cardinality(Pids) + Cardinality(Fds) + PidSlack + FdSlack
  BY Counted, ScannerConstants
<1>1. CASE UNCHANGED <<partial, size, pids, cur, fds>> /\ expired' \in BOOLEAN
  BY <1>1
<1>2. ASSUME NEW who, Fail(who)  PROVE WalkTypes'
  BY <1>2 DEF Fail
<1>3. CASE ListSize
  BY <1>2, <1>3, Counted DEF ListSize
<1>4. CASE ListFill
  <2>1. Alive \subseteq Pids
    BY DEF Alive
  <2> QED
    BY <1>2, <1>4, <2>1, ListsShape DEF ListFill
<1>5. CASE NextPid
  BY <1>2, <1>5 DEF NextPid
<1>6. CASE FdSize
  BY <1>6, Counted DEF FdSize
<1>7. CASE FdFill
  <2>1. Open(cur) \subseteq Fds
    BY DEF Open
  <2> QED
    BY <1>7, <2>1, ListsShape DEF FdFill
<1>8. CASE NextFd \/ Probe
  BY <1>8 DEF NextFd, Probe
<1>9. CASE BeginLsof
  <2>1. Alive \subseteq Pids
    BY DEF Alive
  <2> QED
    BY <1>2, <1>9, <2>1 DEF BeginLsof
<1>10. CASE EndLsof
  BY <1>2, <1>10 DEF EndLsof
<1>11. CASE BeginInspect
  BY <1>0, <1>11 DEF BeginInspect
<1>12. CASE BeginLibproc \/ EndLibproc \/ Change \/ Expire
  BY <1>1, <1>2, <1>12 DEF BeginLibproc, EndLibproc, Change, Expire, walkVars
<1>13. ASSUME NEW from, NEW to, NEW f, NEW v, Filling(from, to, f, v)  PROVE WalkTypes'
  BY <1>1, <1>13 DEF Filling, walkVars
<1>14. ASSUME NEW from, Error(from)  PROVE WalkTypes'
  BY <1>2, <1>14 DEF Error
<1>15. CASE Inspect
  BY <1>13, <1>14, <1>15
  DEF Inspect, NewProcess, ReadArgv, ReadCmdline, ReadCwd, ReadStart, ReadUids, ReadEnv
<1>16. CASE UNCHANGED vars
  BY <1>1, <1>16 DEF vars, scanVars, walkVars
<1> QED
  BY <1>3, <1>4, <1>5, <1>6, <1>7, <1>8, <1>9, <1>10, <1>11, <1>12, <1>15, <1>16 DEF Next, ScanNext

(***************************************************************************)
(* What is filled in is of the right kind.                                 *)
(***************************************************************************)
LEMMA InfoInductive ==
    ASSUME HistoryInv, InfoShape, \A addr \in rows : addr.pid \in Pids, [Next]_vars
    PROVE  InfoShape'
<1> USE DEF InfoShape
<1>1. CASE UNCHANGED insVars
  BY <1>1 DEF insVars
<1>2. CASE BeginInspect
  BY <1>2, ScannerConstants DEF BeginInspect, NoInfo
<1>3. CASE \E from : Error(from)
  BY <1>3, ScannerConstants DEF Error, NoInfo
<1>4. ASSUME NEW from, NEW to, NEW v, Filling(from, to, "argv", v) \/ Filling(from, to, "cwd", v)
                                      \/ Filling(from, to, "env", v)
      PROVE  InfoShape'
  BY <1>4 DEF Filling
<1>5. ASSUME NEW from, NEW to, NEW v \in 0..MaxChanges, Filling(from, to, "born", v)
      PROVE  InfoShape'
  BY <1>5 DEF Filling
<1>6. ASSUME NEW from, NEW to, NEW v \in Users, Filling(from, to, "user", v)
      PROVE  InfoShape'
  BY <1>6 DEF Filling
<1>7. ~Gone => table[target].born \in 0..MaxChanges /\ table[target].user \in Users
  BY PresentTable, ProcessShape DEF Gone
<1>8. CASE NewProcess \/ ReadStart
  BY <1>3, <1>5, <1>7, <1>8 DEF NewProcess, ReadStart
<1>9. CASE ReadUids
  BY <1>3, <1>6, <1>7, <1>9 DEF ReadUids
<1>10. CASE ReadArgv \/ ReadCmdline \/ ReadCwd \/ ReadEnv
  BY <1>3, <1>4, <1>10 DEF ReadArgv, ReadCmdline, ReadCwd, ReadEnv
<1> QED
  BY <1>1, <1>2, <1>8, <1>9, <1>10 DEF Next, Inspect, vars

-----------------------------------------------------------------------------
(* Nothing is made up                                                       *)

\* Somebody else of this user listened on the address, as RowsAreTrue puts it.
IsGenuine(addr) ==
    /\ addr \in Address /\ addr.pid # Self /\ InRange(addr.port)
    /\ \E n \in DOMAIN seen :
         /\ seen[n][addr.pid] # NoProcess /\ seen[n][addr.pid].user = Me
         /\ \E f \in Fds : seen[n][addr.pid].fds[f] \in {s \in Sockets : Shows(addr, s)}

RowsInv == \A addr \in rows : IsGenuine(addr)

LinesInv == pc = "lsof" => IsSound(lines, seen)

(***************************************************************************)
(* What was genuine stays so while the history grows.                      *)
(***************************************************************************)
LEMMA GenuineLater ==
    ASSUME Remembers, result' = result, partial => partial', NEW addr, IsGenuine(addr)
    PROVE  IsGenuine(addr)'
<1>1. \A s : Shows(addr, s) => Shows(addr, s)'
  BY DEF Shows
<1> QED
  BY <1>1 DEF IsGenuine, Remembers

(***************************************************************************)
(* What pm_inspect_fd looks at is a socket at that moment.                 *)
(***************************************************************************)
LEMMA InspectedIsGenuine ==
    ASSUME HistoryInv, NEW f \in Fds, cur \in Pids \ {Self}, NEW addr \in InspectFd(f)
    PROVE  IsGenuine(addr)
<1>1. /\ table[cur] # NoProcess /\ table[cur].user = Me /\ table[cur].fds[f] \in Sockets
      /\ InRange(table[cur].fds[f].port) /\ addr = AddressOf(cur, f)
  BY DEF InspectFd, Mine
<1>2. addr = [pid |-> cur, port |-> table[cur].fds[f].port, host |-> table[cur].fds[f].host]
  BY <1>1 DEF AddressOf
<1>3. addr \in Address
  BY <1>1, <1>2 DEF Address
<1>4. Shows(addr, table[cur].fds[f])
  BY <1>2 DEF Shows
<1> QED
  BY <1>1, <1>2, <1>3, <1>4, PresentTable DEF IsGenuine

(***************************************************************************)
(* What the parser was told is.                                            *)
(***************************************************************************)
LEMMA ToldIsGenuine ==
    ASSUME HistoryInv, result[1] = "lsof", NEW addr, IsTold(addr, seen)
    PROVE  IsGenuine(addr)
<1>1. PICK node : Listened(addr.pid, node, seen) /\ addr = RowOf(addr.pid, node)
  BY DEF IsTold
<1>2. PICK n \in DOMAIN seen :
         /\ seen[n][addr.pid] # NoProcess /\ seen[n][addr.pid].user = Me
         /\ \E f \in Fds : seen[n][addr.pid].fds[f] \in Sockets /\ Node(seen[n][addr.pid].fds[f]) = node
  BY <1>1 DEF Listened
<1>3. PICK f \in Fds : seen[n][addr.pid].fds[f] \in Sockets /\ Node(seen[n][addr.pid].fds[f]) = node
  BY <1>2
<1>4. addr.pid \in Pids
  BY DEF IsTold, Address
<1>5. Shows(addr, seen[n][addr.pid].fds[f])
  <2> DEFINE s == seen[n][addr.pid].fds[f]
             p == addr.pid
  <2>1. s \in Sockets /\ p \in Pids /\ addr = RowOf(p, Node(s))
    BY <1>1, <1>3, <1>4
  <2> HIDE DEF s, p
  <2>2. addr.port = s.port /\ (addr.host = s.host \/ (addr.host = "0.0.0.0" /\ s.host = "::"))
    BY <2>1, NodeShape
  <2> QED
    BY <2>2 DEF Shows, s
<1> QED
  BY <1>2, <1>3, <1>5 DEF IsGenuine, IsTold

(***************************************************************************)
(* So is half a line, as far as it goes, after an lsof that failed.        *)
(***************************************************************************)
LEMMA TornIsGenuine ==
    ASSUME result'[1] = "lsof", partial', NEW addr, IsTorn(addr, seen')
    PROVE  IsGenuine(addr)'
<1>1. PICK n \in DOMAIN seen', f \in Fds, s \in Sockets :
         /\ seen'[n][addr.pid] # NoProcess /\ seen'[n][addr.pid].user = Me
         /\ seen'[n][addr.pid].fds[f] = s /\ addr.port \in Cuts(s.port)
         /\ addr.host = s.host \/ (addr.host = "0.0.0.0" /\ s.host = "::")
  BY DEF IsTorn
<1>2. Shows(addr, s)'
  BY <1>1 DEF Shows
<1> QED
  BY <1>1, <1>2 DEF IsGenuine, IsTorn

(***************************************************************************)
(* lsof's output remains sound while it grows and the table changes.       *)
(***************************************************************************)
LEMMA LinesInductive ==
    ASSUME HistoryInv, PlaceInv, pids \subseteq Pids, LinesInv, [Next]_vars
    PROVE  LinesInv'
<1>1. CASE BeginLsof /\ pc = "idle" /\ pc' = "lsof"
  <2>1. lines' = <<>>
    BY <1>1 DEF BeginLsof, Fail, PlaceInv
  <2> QED
    BY <2>1 DEF LinesInv, IsSound
<1>2. CASE Probe
  <2>1. seen' = seen /\ pc = "lsof"
    BY <1>2 DEF Probe, worldVars
  <2>2. PICK p \in pids : lines' = lines \o (IF Mine(p) THEN Report(p) ELSE <<>>) \/ lines' = lines
    BY <1>2 DEF Probe
  <2>3. IsSound(lines, seen) /\ p \in Pids
    BY <2>1 DEF LinesInv
  <2>4. CASE lines' = lines
    BY <2>1, <2>3, <2>4 DEF LinesInv
  <2>5. CASE Mine(p) /\ lines' = lines \o Report(p)
    BY <2>1, <2>3, <2>5, ReportFollows DEF LinesInv
  <2>6. CASE ~Mine(p) /\ lines' = lines \o <<>>
    <3>1. lines' = lines
      BY <2>3, <2>6 DEF IsSound
    <3> QED
      BY <2>4, <3>1
  <2> QED
    BY <2>2, <2>4, <2>5, <2>6
<1>3. CASE Change
  BY <1>3, ChangeAdds, SoundLater DEF Change, LinesInv, walkVars
<1>4. CASE UNCHANGED <<seen, lines>> /\ pc' = pc
  BY <1>4 DEF LinesInv
<1>5. CASE pc' # "lsof"
  BY <1>5 DEF LinesInv
<1>6. ASSUME NEW from, NEW to \in Inspecting \cup {"done"}, NEW f, NEW v, Filling(from, to, f, v)
      PROVE  pc' # "lsof"
  BY <1>6 DEF Filling, Goto, Inspecting
<1>7. CASE Inspect
  BY <1>5, <1>6, <1>7
  DEF Inspect, NewProcess, ReadArgv, ReadCmdline, ReadCwd, ReadStart, ReadUids, ReadEnv, Error, Fail,
      Inspecting
<1>8. CASE UNCHANGED vars \/ Expire
  BY <1>4, <1>8 DEF vars, scanVars, walkVars, worldVars, Expire
<1>9. CASE BeginLibproc \/ ListSize \/ ListFill \/ NextPid \/ FdSize \/ FdFill \/ NextFd
           \/ EndLibproc \/ EndLsof \/ BeginInspect
  BY <1>5, <1>9 DEF BeginLibproc, ListSize, ListFill, NextPid, FdSize, FdFill, NextFd, EndLibproc,
                    EndLsof, BeginInspect, Fail, Goto
<1>10. CASE BeginLsof /\ pc' # "lsof"
  BY <1>5, <1>10
<1>11. BeginLsof => pc = "idle"
  BY DEF BeginLsof, Goto, Fail
<1> QED
  BY <1>1, <1>2, <1>3, <1>7, <1>8, <1>9, <1>10, <1>11 DEF Next, ScanNext

(***************************************************************************)
(* No step adds a row that is not genuine.                                 *)
(***************************************************************************)
LEMMA RowsInductive ==
    ASSUME HistoryInv, PlaceInv, WalkTypes, LinesInv, RowsInv, [Next]_vars
    PROVE  RowsInv'
<1>1. CASE rows' = {}
  BY <1>1 DEF RowsInv
<1>2. CASE rows' = rows /\ result' = result /\ (partial => partial') /\ Remembers
  BY <1>2, GenuineLater DEF RowsInv
<1>3. CASE UNCHANGED <<rows, result, seen>> /\ (partial => partial')
  <2>1. Remembers
    BY <1>3, PresentTable DEF Remembers
  <2> QED
    BY <1>2, <1>3, <2>1
<1>4. CASE NextFd
  <2>1. PICK f \in fds : rows' = rows \cup InspectFd(f)
    BY <1>4 DEF NextFd
  <2>2. f \in Fds /\ cur \in Pids \ {Self} /\ UNCHANGED <<seen, result, partial>>
    BY <1>4, <2>1 DEF NextFd, WalkTypes, PlaceInv, worldVars
  <2>3. Remembers
    BY <2>2, PresentTable DEF Remembers
  <2>4. \A addr \in rows' : IsGenuine(addr)
    BY <2>1, <2>2, InspectedIsGenuine DEF RowsInv
  <2>5. \A addr \in rows' : IsGenuine(addr)'
    BY <2>2, <2>3, <2>4, GenuineLater
  <2> QED
    BY <2>5 DEF RowsInv
<1>5. CASE EndLsof /\ rows' # {}
  <2>1. /\ pc = "lsof" /\ UNCHANGED <<seen, result>>
        /\ \E exit \in Codes : \E out \in Outputs(exit) :
             rows' = parseLsofF(out) /\ partial' = (partial \/ exit \notin {0, 1})
    BY <1>5 DEF EndLsof, Fail, worldVars
  <2>2. PICK exit \in Codes : \E out \in Outputs(exit) :
             rows' = parseLsofF(out) /\ partial' = (partial \/ exit \notin {0, 1})
    BY <2>1
  <2>3. PICK out \in Outputs(exit) : rows' = parseLsofF(out)
    BY <2>2
  <2>4. IsSound(lines, seen) /\ result[1] = "lsof"
    BY <2>1 DEF LinesInv, PlaceInv
  <2>5. Remembers /\ (partial => partial')
    <3>1. Remembers
      BY <2>1, PresentTable DEF Remembers
    <3> QED
      BY <2>2, <3>1
  <2>6. CASE IsSound(out, seen)
    <3>1. \A addr \in rows' : IsGenuine(addr)
      BY <2>3, <2>4, <2>6, ParseIsSound, ToldIsGenuine
    <3>2. \A addr \in rows' : IsGenuine(addr)'
      BY <2>1, <2>5, <3>1, GenuineLater
    <3> QED
      BY <3>2 DEF RowsInv
  <2>7. CASE out = lines \/ \E n \in 0 .. Len(lines) : out = SubSeq(lines, 1, n)
    <3>1. IsSound(out, seen)
      BY <2>4, <2>7, SoundPrefix
    <3> QED
      BY <2>6, <3>1
  <2>8. CASE /\ exit \notin {0, 1}
             /\ \E n \in 1 .. Len(lines) : \E half \in Halves(lines[n]) :
                  out = Append(SubSeq(lines, 1, n - 1), half)
    <3>1. \A addr \in rows' : IsTold(addr, seen) \/ IsTorn(addr, seen)
      BY <2>3, <2>4, <2>8, TornParse
    <3>2. partial' /\ result'[1] = "lsof" /\ seen' = seen
      BY <2>1, <2>2, <2>4, <2>8
    <3>3. \A addr : IsTold(addr, seen) => IsGenuine(addr)'
      BY <2>1, <2>4, <2>5, ToldIsGenuine, GenuineLater
    <3>4. \A addr : IsTorn(addr, seen) => IsGenuine(addr)'
      BY <3>2, TornIsGenuine
    <3> QED
      BY <3>1, <3>3, <3>4 DEF RowsInv
  <2> QED
    BY <2>3, <2>7, <2>8 DEF Outputs
<1>6. CASE Change
  BY <1>2, <1>6, ChangeAdds DEF Change, walkVars
<1>7. CASE BeginLibproc \/ BeginLsof \/ BeginInspect
  BY <1>1, <1>7 DEF BeginLibproc, BeginLsof, BeginInspect, Fail, Goto, PlaceInv, walkVars
<1>8. ASSUME NEW from, NEW to, NEW f, NEW v, Filling(from, to, f, v)  PROVE RowsInv'
  BY <1>3, <1>8 DEF Filling, walkVars, worldVars
<1>9. CASE Inspect
  BY <1>1, <1>8, <1>9
  DEF Inspect, NewProcess, ReadArgv, ReadCmdline, ReadCwd, ReadStart, ReadUids, ReadEnv, Error, Fail
<1>10. CASE Expire \/ ListSize \/ ListFill \/ NextPid \/ FdSize \/ FdFill \/ EndLibproc \/ Probe
            \/ UNCHANGED vars
  BY <1>1, <1>3, <1>10 DEF Expire, ListSize, ListFill, NextPid, FdSize, FdFill, EndLibproc, Probe,
                           Fail, vars, scanVars, walkVars, worldVars
<1> QED
  BY <1>1, <1>4, <1>5, <1>6, <1>7, <1>9, <1>10 DEF Next, ScanNext

-----------------------------------------------------------------------------
(* Nothing is missed.  A list is complete when what was added since its     *)
(* size was asked for fits the spare slots.                                 *)

\* A socket that one process of this user had open in all the tables seen.
Stays(p, f, s) ==
    \A n \in DOMAIN seen :
        /\ seen[n][p] # NoProcess /\ seen[n][p].user = Me
        /\ seen[n][p].fds[f] = s /\ seen[n][p].born = seen[1][p].born

PidsCounted ==
    pc = "pids.fill" => Cardinality(Alive) + PidSlack <= size + Cardinality(Births)

FdsCounted ==
    pc = "fd.fill" /\ (\A n \in DOMAIN seen : seen[n][cur] # NoProcess) =>
        Cardinality(Open(cur)) + FdSlack <= size + Cardinality(Opened(cur))

(***************************************************************************)
(* Births and openings are counted up only, and what stays has stayed.     *)
(***************************************************************************)
LEMMA CountsGrow ==
    ASSUME HistoryInv, HistoryInv', Remembers, NEW p
    PROVE  /\ Births \subseteq Births' /\ Opened(p) \subseteq Opened(p)'
           /\ IsFiniteSet(Births') /\ IsFiniteSet(Opened(p)')
           /\ Cardinality(Births) \in Nat /\ Cardinality(Births') \in Nat
           /\ Cardinality(Births) <= Cardinality(Births')
           /\ Cardinality(Opened(p)) \in Nat /\ Cardinality(Opened(p)') \in Nat
           /\ Cardinality(Opened(p)) <= Cardinality(Opened(p)')
           /\ \A f, s : Stays(p, f, s)' => Stays(p, f, s)
<1>1. /\ 2 .. Len(seen) \subseteq 2 .. Len(seen')
      /\ \A n \in 2 .. Len(seen) : n \in DOMAIN seen /\ n - 1 \in DOMAIN seen
      /\ 1 \in DOMAIN seen
  BY PresentTable DEF Remembers
<1>2. \A n \in 2 .. Len(seen) : seen'[n] = seen[n] /\ seen'[n - 1] = seen[n - 1]
  BY <1>1 DEF Remembers
<1>3. Births \subseteq Births'
  BY <1>1, <1>2 DEF Births, BornAt
<1>4. Opened(p) \subseteq Opened(p)'
  BY <1>1, <1>2 DEF Opened, OpenedAt
<1>5. IsFiniteSet(Births')
  <2>1. IsFiniteSet(2 .. Len(seen')) /\ IsFiniteSet(Pids)
    BY FS_Interval, ScannerConstants DEF HistoryInv
  <2>2. IsFiniteSet(Pids \X (2 .. Len(seen')))
    BY <2>1, FS_Product
  <2>3. Births' \subseteq Pids \X (2 .. Len(seen'))
    BY DEF Births
  <2> QED
    BY <2>2, <2>3, FS_Subset
<1>6. IsFiniteSet(Opened(p)')
  <2>1. IsFiniteSet(2 .. Len(seen')) /\ IsFiniteSet(Fds)
    BY FS_Interval, ScannerConstants DEF HistoryInv
  <2>2. IsFiniteSet(Fds \X (2 .. Len(seen')))
    BY <2>1, FS_Product
  <2>3. Opened(p)' \subseteq Fds \X (2 .. Len(seen'))
    BY DEF Opened
  <2> QED
    BY <2>2, <2>3, FS_Subset
<1>7. /\ IsFiniteSet(Births) /\ Cardinality(Births) <= Cardinality(Births')
      /\ IsFiniteSet(Opened(p)) /\ Cardinality(Opened(p)) <= Cardinality(Opened(p)')
  BY <1>3, <1>4, <1>5, <1>6, FS_Subset
<1>8. \A f, s : Stays(p, f, s)' => Stays(p, f, s)
  BY <1>1 DEF Stays, Remembers
<1> QED
  BY <1>3, <1>4, <1>5, <1>6, <1>7, <1>8, FS_CardinalityType

(***************************************************************************)
(* More processes by one is one more birth.                                *)
(***************************************************************************)
LEMMA BirthIsCounted ==
    ASSUME HistoryInv, Change
    PROVE  Cardinality(Alive') - Cardinality(Births') <= Cardinality(Alive) - Cardinality(Births)
<1>1. HistoryInv' /\ Remembers /\ \E p, new : Adds(p, new)
  BY ChangeAdds
<1>2. PICK p, new : Adds(p, new)
  BY <1>1
<1>3. /\ Births \subseteq Births' /\ IsFiniteSet(Births')
      /\ Cardinality(Births) \in Nat /\ Cardinality(Births') \in Nat
      /\ Cardinality(Births) <= Cardinality(Births')
  BY <1>1, CountsGrow
<1>4. /\ p \in Pids /\ table' = [table EXCEPT ![p] = new] /\ Len(seen') = Len(seen) + 1
      /\ seen'[Len(seen')] = table'
  BY <1>2 DEF Adds
<1>5. Alive' \subseteq Alive \cup {p} /\ IsFiniteSet(Alive) /\ Cardinality(Alive) \in Nat
      /\ IsFiniteSet(Alive')
  <2>1. Alive' \subseteq Pids
    BY DEF Alive
  <2>2. Alive' \subseteq Alive \cup {p}
    BY <1>4, PresentTable DEF Alive, Table
  <2>3. IsFiniteSet(Pids)
    BY ScannerConstants
  <2>4. IsFiniteSet(Alive')
    BY <2>1, <2>3, FS_Subset
  <2>5. IsFiniteSet(Alive) /\ Cardinality(Alive) \in Nat
    BY Counted
  <2> QED
    BY <2>2, <2>4, <2>5
<1>6. CASE Alive' \subseteq Alive
  <2>1. Cardinality(Alive') <= Cardinality(Alive) /\ Cardinality(Alive') \in Nat
    BY <1>5, <1>6, FS_Subset, FS_CardinalityType
  <2> QED
    BY <1>3, <1>5, <2>1
<1>7. CASE ~(Alive' \subseteq Alive)
  <2>1. Alive' = Alive' \cap (Alive \cup {p}) /\ p \in Alive' /\ p \notin Alive
    BY <1>5, <1>7
  <2>2. Cardinality(Alive \cup {p}) = Cardinality(Alive) + 1 /\ IsFiniteSet(Alive \cup {p})
    BY <1>5, <2>1, FS_AddElement
  <2>3. Cardinality(Alive') <= Cardinality(Alive) + 1 /\ Cardinality(Alive') \in Nat
    BY <1>5, <2>2, FS_Subset, FS_CardinalityType
  <2>0. PICK m : m = Len(seen')
    OBVIOUS
  <2> DEFINE b == <<p, m>>
  <2>4. b \in Births' /\ b \notin Births
    <3>1. Len(seen) \in Nat \ {0} /\ seen'[Len(seen)] = table
      BY <1>1, PresentTable DEF Remembers
    <3>2. m \in 2 .. m /\ m \notin 2 .. Len(seen) /\ m - 1 = Len(seen)
      BY <1>4, <2>0, <3>1
    <3>3. table'[p] # NoProcess /\ table[p] = NoProcess
      BY <1>4, <2>1 DEF Alive
    <3>4. BornAt(p, m)'
      BY <1>4, <2>0, <3>1, <3>2, <3>3 DEF BornAt
    <3>5. Births' = {x \in Pids \X (2 .. m) : BornAt(x[1], x[2])'}
      BY <2>0 DEF Births
    <3>6. b \in Births'
      BY <1>4, <3>2, <3>4, <3>5
    <3>7. b \notin Births
      BY <3>2 DEF Births
    <3> QED
      BY <3>6, <3>7
  <2> HIDE DEF b
  <2>5. IsFiniteSet(Births) /\ Cardinality(Births \cup {b}) = Cardinality(Births) + 1
    BY <1>3, <2>4, FS_Subset, FS_AddElement
  <2>6. Births \cup {b} \subseteq Births'
    BY <1>3, <2>4
  <2>7. Cardinality(Births) + 1 <= Cardinality(Births')
    BY <1>3, <2>5, <2>6, FS_Subset
  <2> QED
    BY <1>3, <1>5, <2>3, <2>7
<1> QED
  BY <1>6, <1>7

(***************************************************************************)
(* A step of another program opens at most one descriptor of a process.    *)
(***************************************************************************)
LEMMA OneIsOpened ==
    ASSUME HistoryInv, Change, NEW p \in Pids, table[p] # NoProcess, table'[p] # NoProcess
    PROVE  Open(p)' \subseteq Open(p) \/ \E f \in Fds : Open(p)' \subseteq Open(p) \cup {f}
<1>1. \E q, new : Adds(q, new)
  BY ChangeAdds
<1>2. PICK q, new : Adds(q, new)
  BY <1>1
<1>3. table' = [table EXCEPT ![q] = new] /\ new \in Successors(q) /\ q \in Pids
  BY <1>2 DEF Adds
<1>4. table \in Table /\ table[p] \in Process /\ table[p].fds \in [Fds -> Entries]
  BY PresentTable DEF Table, Process
<1>5. Open(p)' = {f \in Fds : table'[p].fds[f] # Closed}
  BY DEF Open
<1>6. CASE p # q
  <2>1. table'[p] = table[p]
    BY <1>3, <1>4, <1>6 DEF Table
  <2> QED
    BY <1>5, <2>1 DEF Open
<1>7. CASE p = q
  <2>1. table'[p] = new
    BY <1>3, <1>4, <1>7 DEF Table
  <2>2. CASE \E i \in Images : new = [table[p] EXCEPT !.image = i]
    <3>1. new.fds = table[p].fds
      BY <1>4, <2>2 DEF Process
    <3> QED
      BY <1>5, <2>1, <3>1 DEF Open
  <2>3. ASSUME NEW f \in Fds, NEW e, new = [table[p] EXCEPT !.fds[f] = e]
        PROVE  Open(p)' \subseteq Open(p) \cup {f}
    <3>1. new.fds = [table[p].fds EXCEPT ![f] = e]
      BY <1>4, <2>3 DEF Process
    <3>2. \A x \in Fds : x # f => new.fds[x] = table[p].fds[x]
      BY <1>4, <3>1
    <3> QED
      BY <1>5, <2>1, <3>2 DEF Open
  <2>4. new = NoProcess \/ (\E i \in Images : new = [table[p] EXCEPT !.image = i])
          \/ \E f \in Fds, e \in Entries \cup {Closed} : new = [table[p] EXCEPT !.fds[f] = e]
    <3>1. CASE \E f \in Open(p), e \in {Closed} : new = [table[p] EXCEPT !.fds[f] = e]
      BY <3>1 DEF Open
    <3>2. CASE \E f \in Fds \ Open(p), e \in Entries : new = [table[p] EXCEPT !.fds[f] = e]
      BY <3>2
    <3> QED
      BY <1>3, <1>7, <3>1, <3>2 DEF Successors
  <2> QED
    BY <2>1, <2>2, <2>3, <2>4
<1> QED
  BY <1>6, <1>7

(***************************************************************************)
(* More open descriptors by one is one more opening.                       *)
(***************************************************************************)
LEMMA OpeningIsCounted ==
    ASSUME HistoryInv, Change, NEW p \in Pids, table[p] # NoProcess, table'[p] # NoProcess
    PROVE  Cardinality(Open(p)') - Cardinality(Opened(p)')
             <= Cardinality(Open(p)) - Cardinality(Opened(p))
<1>1. HistoryInv' /\ Remembers /\ \E q, new : Adds(q, new)
  BY ChangeAdds
<1>2. /\ Opened(p) \subseteq Opened(p)' /\ IsFiniteSet(Opened(p)')
      /\ Cardinality(Opened(p)) \in Nat /\ Cardinality(Opened(p)') \in Nat
      /\ Cardinality(Opened(p)) <= Cardinality(Opened(p)')
  BY <1>1, CountsGrow
<1>3. Len(seen') = Len(seen) + 1 /\ seen'[Len(seen')] = table'
  BY <1>1 DEF Adds
<1>4. IsFiniteSet(Open(p)) /\ Cardinality(Open(p)) \in Nat
  BY Counted
<1>5. IsFiniteSet(Open(p)')
  <2>1. Open(p)' \subseteq Fds /\ IsFiniteSet(Fds)
    BY ScannerConstants DEF Open
  <2> QED
    BY <2>1, FS_Subset
<1>6. CASE Open(p)' \subseteq Open(p)
  <2>1. Cardinality(Open(p)') <= Cardinality(Open(p)) /\ Cardinality(Open(p)') \in Nat
    BY <1>4, <1>6, FS_Subset, FS_CardinalityType
  <2> QED
    BY <1>2, <1>4, <2>1
<1>7. ASSUME NEW f \in Fds, Open(p)' \subseteq Open(p) \cup {f}, ~(Open(p)' \subseteq Open(p))
      PROVE  Cardinality(Open(p)') - Cardinality(Opened(p)')
               <= Cardinality(Open(p)) - Cardinality(Opened(p))
  <2>1. f \in Open(p)' /\ f \notin Open(p)
    BY <1>7
  <2>2. Cardinality(Open(p) \cup {f}) = Cardinality(Open(p)) + 1 /\ IsFiniteSet(Open(p) \cup {f})
    BY <1>4, <2>1, FS_AddElement
  <2>3. Cardinality(Open(p)') <= Cardinality(Open(p)) + 1 /\ Cardinality(Open(p)') \in Nat
    BY <1>5, <1>7, <2>2, FS_Subset, FS_CardinalityType
  <2>4. PICK m : m = Len(seen')
    OBVIOUS
  <2> DEFINE o == <<f, m>>
  <2>5. o \in Opened(p)' /\ o \notin Opened(p)
    <3>1. Len(seen) \in Nat \ {0} /\ seen'[Len(seen)] = table
      BY <1>1, PresentTable DEF Remembers
    <3>2. m \in 2 .. m /\ m \notin 2 .. Len(seen) /\ m - 1 = Len(seen)
      BY <1>3, <2>4, <3>1
    <3>3. table'[p].fds[f] # Closed /\ table[p].fds[f] = Closed
      BY <2>1 DEF Open
    <3>4. OpenedAt(p, f, m)'
      BY <1>3, <2>4, <3>1, <3>2, <3>3 DEF OpenedAt
    <3>5. Opened(p)' = {x \in Fds \X (2 .. m) : OpenedAt(p, x[1], x[2])'}
      BY <2>4 DEF Opened
    <3>6. o \in Opened(p)'
      BY <3>2, <3>4, <3>5
    <3>7. o \notin Opened(p)
      BY <3>2 DEF Opened
    <3> QED
      BY <3>6, <3>7
  <2> HIDE DEF o
  <2>6. IsFiniteSet(Opened(p)) /\ Cardinality(Opened(p) \cup {o}) = Cardinality(Opened(p)) + 1
    BY <1>2, <2>5, FS_Subset, FS_AddElement
  <2>7. Opened(p) \cup {o} \subseteq Opened(p)'
    BY <1>2, <2>5
  <2>8. Cardinality(Opened(p)) + 1 <= Cardinality(Opened(p)')
    BY <1>2, <2>6, <2>7, FS_Subset
  <2> QED
    BY <1>2, <1>4, <2>3, <2>8
<1> QED
  BY <1>6, <1>7, OneIsOpened

(***************************************************************************)
(* The sizes asked for bound what a list may hold by now.                  *)
(***************************************************************************)
LEMMA CountsInductive ==
    ASSUME HistoryInv, WalkTypes, PidsCounted, FdsCounted, [Next]_vars
    PROVE  PidsCounted' /\ FdsCounted'
<1>1. CASE Change
  <2>1. HistoryInv' /\ Remembers
    BY <1>1, ChangeAdds
  <2>2. pc' = pc /\ size' = size /\ cur' = cur /\ size \in Nat /\ PidSlack \in Nat /\ FdSlack \in Nat
    BY <1>1, Counted DEF Change, walkVars, WalkTypes
  <2>3. PidsCounted'
    <3>1. /\ Cardinality(Alive') - Cardinality(Births') <= Cardinality(Alive) - Cardinality(Births)
          /\ Cardinality(Births) \in Nat /\ Cardinality(Births') \in Nat /\ Cardinality(Alive) \in Nat
      BY <1>1, <2>1, BirthIsCounted, CountsGrow, Counted
    <3>2. Alive' \subseteq Pids
      BY DEF Alive
    <3>3. Cardinality(Alive') \in Nat
      BY <3>2, ScannerConstants, FS_Subset, FS_CardinalityType
    <3>4. Cardinality(Alive)' = Cardinality(Alive') /\ Cardinality(Births)' = Cardinality(Births')
      OBVIOUS
    <3> QED
      BY <2>2, <3>1, <3>3, <3>4 DEF PidsCounted
  <2>4. ASSUME pc' = "fd.fill", (\A n \in DOMAIN seen : seen[n][cur] # NoProcess)'
        PROVE  (Cardinality(Open(cur)) + FdSlack <= size + Cardinality(Opened(cur)))'
    <3>1. PICK p \in Pids : p = cur
      BY DEF WalkTypes
    <3>2. cur' = p
      BY <2>2, <3>1
    <3>3. \A n \in DOMAIN seen : seen[n][p] # NoProcess
      BY <2>1, <2>4, <3>2 DEF Remembers
    <3>4. table[p] # NoProcess
      BY <3>3, PresentTable
    <3>5. table'[p] # NoProcess
      <4>1. Len(seen') \in DOMAIN seen' /\ seen'[Len(seen')] = table'
        <5>1. \E q, new : Adds(q, new)
          BY <1>1, ChangeAdds
        <5>2. seen'[Len(seen')] = table'
          BY <5>1 DEF Adds
        <5>3. Len(seen') \in 1 .. Len(seen') /\ DOMAIN seen' = 1 .. Len(seen')
          BY <2>1 DEF Remembers, HistoryInv
        <5> QED
          BY <5>2, <5>3
      <4> QED
        BY <2>4, <3>2, <4>1
    <3>6. Cardinality(Open(p)') - Cardinality(Opened(p)')
            <= Cardinality(Open(p)) - Cardinality(Opened(p))
      BY <1>1, <3>4, <3>5, OpeningIsCounted
    <3>7. /\ Cardinality(Opened(p)) \in Nat /\ Cardinality(Opened(p)') \in Nat
          /\ Cardinality(Open(p)) \in Nat
      BY <2>1, CountsGrow, Counted
    <3>8. Open(p)' \subseteq Fds
      BY DEF Open
    <3>9. Cardinality(Open(p)') \in Nat
      BY <3>8, ScannerConstants, FS_Subset, FS_CardinalityType
    <3>10. Cardinality(Open(p)) + FdSlack <= size + Cardinality(Opened(p))
      BY <2>2, <2>4, <3>1, <3>3 DEF FdsCounted
    <3>11. Cardinality(Open(p)') + FdSlack <= size + Cardinality(Opened(p)')
      BY <2>2, <3>6, <3>7, <3>9, <3>10
    <3>12. Open(cur)' = Open(p)' /\ Opened(cur)' = Opened(p)'
      BY <3>2 DEF Open, Opened
    <3> QED
      BY <2>2, <3>11, <3>12
  <2> QED
    BY <2>3, <2>4 DEF FdsCounted
<1>2. CASE UNCHANGED <<seen, pc, size, cur>>
  <2>1. table' = table
    BY <1>2 DEF table
  <2>2. Alive' = Alive /\ Births' = Births /\ Open(cur)' = Open(cur) /\ Opened(cur)' = Opened(cur)
    BY <1>2, <2>1 DEF Alive, Births, Open, Opened, BornAt, OpenedAt
  <2> QED
    BY <1>2, <2>2 DEF PidsCounted, FdsCounted
<1>3. CASE pc' \notin {"pids.fill", "fd.fill"}
  BY <1>3 DEF PidsCounted, FdsCounted
<1>4. CASE ListSize /\ pc' = "pids.fill"
  <2>1. size' = Cardinality(Alive) + PidSlack /\ seen' = seen
    BY <1>4 DEF ListSize, Slots, worldVars, Fail
  <2>2. table' = table
    BY <2>1 DEF table
  <2>3. Alive' = Alive
    BY <2>2 DEF Alive
  <2>4. HistoryInv' /\ Remembers
    BY <1>4, <2>1, PresentTable DEF Remembers, HistoryInv, ListSize, worldVars, Fail
  <2>5. Cardinality(Births') \in Nat /\ Cardinality(Alive) \in Nat /\ PidSlack \in Nat
    BY <2>4, CountsGrow, Counted
  <2>6. Cardinality(Births)' = Cardinality(Births') /\ Cardinality(Alive)' = Cardinality(Alive')
    OBVIOUS
  <2> QED
    BY <1>4, <2>1, <2>3, <2>5, <2>6 DEF PidsCounted, FdsCounted
<1>5. CASE FdSize /\ pc' = "fd.fill"
  <2>1. size' = Cardinality(Open(cur)) + FdSlack /\ seen' = seen /\ cur' = cur /\ changes' = changes
    BY <1>5 DEF FdSize, Slots, worldVars
  <2>2. table' = table
    BY <2>1 DEF table
  <2>3. Open(cur)' = Open(cur) /\ Opened(cur)' = Opened(cur)
    BY <2>1, <2>2 DEF Open, Opened, OpenedAt
  <2>4. HistoryInv' /\ Remembers
    BY <2>1, PresentTable DEF Remembers, HistoryInv
  <2>5. Cardinality(Opened(cur)) \in Nat /\ Cardinality(Open(cur)) \in Nat /\ FdSlack \in Nat
    BY <2>4, CountsGrow, Counted
  <2> QED
    BY <1>5, <2>1, <2>3, <2>5 DEF PidsCounted, FdsCounted
<1>6. ASSUME NEW from, NEW to \in Inspecting \cup {"done"}, NEW f, NEW v, Filling(from, to, f, v)
      PROVE  pc' \notin {"pids.fill", "fd.fill"}
  BY <1>6 DEF Filling, Goto, Inspecting
<1>7. CASE Inspect
  BY <1>3, <1>6, <1>7
  DEF Inspect, NewProcess, ReadArgv, ReadCmdline, ReadCwd, ReadStart, ReadUids, ReadEnv, Error, Fail,
      Inspecting
<1>8. CASE Expire \/ Probe \/ NextFd \/ UNCHANGED vars
  BY <1>2, <1>8 DEF Expire, Probe, NextFd, vars, scanVars, worldVars, walkVars
<1>9. CASE BeginLibproc \/ ListFill \/ FdFill \/ EndLibproc \/ BeginLsof \/ EndLsof \/ BeginInspect
  BY <1>3, <1>9 DEF BeginLibproc, ListFill, FdFill, EndLibproc, BeginLsof, EndLsof, BeginInspect,
                    Fail, Goto
<1>10. CASE NextPid
  BY <1>3, <1>10 DEF NextPid, Fail
<1>11. ListSize => pc' = "pids.fill" \/ pc' = "done"
  BY DEF ListSize, Goto, Fail
<1>12. FdSize => pc' = "fd.fill" \/ pc' = "loop"
  BY DEF FdSize
<1> QED
  BY <1>1, <1>3, <1>4, <1>5, <1>7, <1>8, <1>9, <1>10, <1>11, <1>12 DEF Next, ScanNext

\* What a libproc walk owes its caller: a socket that stayed, when the lists were not cut.
Owed(p, f, s) ==
    /\ InRange(s.port) /\ Stays(p, f, s)
    /\ Cardinality(Births) <= PidSlack /\ Cardinality(Opened(p)) <= FdSlack

Ahead(p, f) == p \in pids \/ (cur = p /\ (pc \in {"fd.size", "fd.fill"} \/ f \in fds))

Shown(p, s) == [pid |-> p, port |-> s.port, host |-> s.host] \in rows

WalkProgress ==
    /\ pc \in {"loop", "fd.size", "fd.fill"} =>
         \A p \in Pids \ {Self}, f \in Fds, s \in Sockets : Owed(p, f, s) => Ahead(p, f) \/ Shown(p, s)
    /\ pc = "done" /\ result = <<"libproc", "nil">> =>
         \A p \in Pids \ {Self}, f \in Fds, s \in Sockets : Owed(p, f, s) => Shown(p, s)

LsofProgress ==
    /\ pc = "lsof" /\ ~partial =>
         \A p \in Pids \ {Self}, f \in Fds, s \in Sockets :
             Stays(p, f, s) => p \in pids \/ Tells(lines, p, Node(s))
    /\ pc = "done" /\ result = <<"lsof", "nil">> /\ ~partial =>
         \A p \in Pids \ {Self}, f \in Fds, s \in Sockets :
             InRange(s.port) /\ Stays(p, f, s) => RowOf(p, Node(s)) \in rows

(***************************************************************************)
(* What stayed is there to be seen now.                                    *)
(***************************************************************************)
LEMMA StayingIsSeen ==
    ASSUME HistoryInv, NEW p \in Pids, NEW f \in Fds, NEW s \in Sockets, Stays(p, f, s)
    PROVE  /\ Mine(p) /\ p \in Alive /\ table[p].fds[f] = s /\ f \in Open(p) /\ s # File /\ s # Closed
           /\ f \in ListensOn(p) /\ \A n \in DOMAIN seen : seen[n][p] # NoProcess
<1>1. table[p] # NoProcess /\ table[p].user = Me /\ table[p].fds[f] = s
  BY PresentTable DEF Stays
<1>2. s # Closed /\ s # File
  BY ScannerConstants
<1> QED
  BY <1>1, <1>2 DEF Mine, Alive, Open, ListensOn, Stays

(***************************************************************************)
(* What is owed was owed before.                                           *)
(***************************************************************************)
LEMMA OwedBefore ==
    ASSUME HistoryInv, HistoryInv', Remembers, NEW p, NEW f, NEW s
    PROVE  /\ Owed(p, f, s)' => Owed(p, f, s)
           /\ Stays(p, f, s)' => Stays(p, f, s)
<1>1. PidSlack \in Nat /\ FdSlack \in Nat
  BY ScannerConstants
<1>2. /\ Cardinality(Births) \in Nat /\ Cardinality(Births') \in Nat
      /\ Cardinality(Births) <= Cardinality(Births')
      /\ Cardinality(Opened(p)) \in Nat /\ Cardinality(Opened(p)') \in Nat
      /\ Cardinality(Opened(p)) <= Cardinality(Opened(p)')
      /\ Stays(p, f, s)' => Stays(p, f, s)
  BY CountsGrow
<1>3. Cardinality(Births)' = Cardinality(Births') /\ Cardinality(Opened(p))' = Cardinality(Opened(p)')
  OBVIOUS
<1> QED
  BY <1>1, <1>2, <1>3 DEF Owed

(***************************************************************************)
(* A walk passes no socket that it owes.                                   *)
(***************************************************************************)
LEMMA WalkInductive ==
    ASSUME HistoryInv, HistoryInv', PlaceInv, WalkTypes, PidsCounted, FdsCounted, WalkProgress,
           [Next]_vars
    PROVE  WalkProgress'
<1>1. CASE Remembers /\ UNCHANGED <<pc, pids, cur, fds, rows, result>>
  BY <1>1, OwedBefore DEF WalkProgress, Ahead, Shown
<1>2. CASE /\ pc' \notin {"loop", "fd.size", "fd.fill"}
           /\ ~(pc' = "done" /\ result' = <<"libproc", "nil">>)
  BY <1>2 DEF WalkProgress
<1>3. ASSUME NEW p \in Pids \ {Self}, NEW f \in Fds, NEW s \in Sockets, Owed(p, f, s)', Remembers
      PROVE  /\ Owed(p, f, s) /\ InRange(s.port) /\ Mine(p) /\ p \in Alive /\ table[p].fds[f] = s
             /\ f \in Open(p) /\ s # File /\ \A n \in DOMAIN seen : seen[n][p] # NoProcess
             /\ Cardinality(Births) <= PidSlack /\ Cardinality(Opened(p)) <= FdSlack
  <2>1. Owed(p, f, s)
    BY <1>3, OwedBefore
  <2>2. Stays(p, f, s)
    BY <2>1 DEF Owed
  <2> QED
    BY <2>1, <2>2, StayingIsSeen DEF Owed
<1>4. CASE BeginInspect
  BY <1>2, <1>4 DEF BeginInspect, Goto
<1> SUFFICES ASSUME ~BeginInspect PROVE WalkProgress'
  BY <1>4
<1>5. Remembers
  BY HistoryInductive
<1>6. CASE ListFill /\ pc' = "loop"
  <2> SUFFICES ASSUME NEW p \in Pids \ {Self}, NEW f \in Fds, NEW s \in Sockets, Owed(p, f, s)'
               PROVE  p \in pids'
    BY <1>6 DEF WalkProgress, Ahead
  <2>1. p \in Alive /\ Cardinality(Births) <= PidSlack
    BY <1>3, <1>5
  <2>2. pc = "pids.fill" /\ pids' \in Lists(Alive)
    BY <1>6 DEF ListFill, Goto, Fail
  <2>3. Cardinality(Alive) <= size
    <3>1. Cardinality(Births) \in Nat
      BY <1>5, CountsGrow
    <3>2. Cardinality(Alive) \in Nat /\ size \in Nat /\ PidSlack \in Nat
      BY Counted DEF WalkTypes
    <3> QED
      BY <2>1, <2>2, <3>1, <3>2 DEF PidsCounted
  <2> QED
    BY <2>1, <2>2, <2>3, ListsShape
<1>7. CASE NextPid /\ pc' # "done"
  <2> SUFFICES ASSUME NEW p \in Pids \ {Self}, NEW f \in Fds, NEW s \in Sockets, Owed(p, f, s)'
               PROVE  Ahead(p, f)' \/ Shown(p, s)'
    BY <1>7 DEF WalkProgress
  <2>1. Owed(p, f, s) /\ Mine(p)
    BY <1>3, <1>5
  <2>2. /\ pc = "loop" /\ fds = {} /\ rows' = rows /\ fds' = fds
        /\ \E q \in pids : /\ pids' = pids \ {q}
                           /\ IF q # Self /\ Mine(q) THEN pc' = "fd.size" /\ cur' = q
                                                     ELSE UNCHANGED <<pc, cur>>
    BY <1>7 DEF NextPid, Fail
  <2>3. p \in pids \/ Shown(p, s)
    BY <2>1, <2>2 DEF WalkProgress, Ahead
  <2> QED
    BY <2>1, <2>2, <2>3 DEF Ahead, Shown
<1>8. CASE FdSize
  <2> SUFFICES ASSUME NEW p \in Pids \ {Self}, NEW f \in Fds, NEW s \in Sockets, Owed(p, f, s)'
               PROVE  Ahead(p, f)' \/ Shown(p, s)'
    BY <1>8 DEF WalkProgress, FdSize
  <2>1. Owed(p, f, s) /\ Mine(p) /\ f \in Open(p)
    BY <1>3, <1>5
  <2>2. /\ pc = "fd.size" /\ UNCHANGED <<pids, cur, fds, rows>>
        /\ Mine(cur) /\ Open(cur) # {} => pc' = "fd.fill"
    BY <1>8 DEF FdSize
  <2>3. Ahead(p, f) \/ Shown(p, s)
    BY <2>1, <2>2 DEF WalkProgress
  <2> QED
    BY <2>1, <2>2, <2>3 DEF Ahead, Shown
<1>9. CASE FdFill
  <2> SUFFICES ASSUME NEW p \in Pids \ {Self}, NEW f \in Fds, NEW s \in Sockets, Owed(p, f, s)'
               PROVE  Ahead(p, f)' \/ Shown(p, s)'
    BY <1>9 DEF WalkProgress, FdFill, Goto
  <2>1. /\ Owed(p, f, s) /\ Mine(p) /\ f \in Open(p) /\ table[p].fds[f] = s /\ s # File
        /\ \A n \in DOMAIN seen : seen[n][p] # NoProcess
        /\ Cardinality(Opened(p)) <= FdSlack
    BY <1>3, <1>5
  <2>2. /\ pc = "fd.fill" /\ pc' = "loop" /\ UNCHANGED <<pids, cur, rows>>
        /\ Mine(cur) => \E L \in Lists(Open(cur)) : fds' = {g \in L : table[cur].fds[g] # File}
    BY <1>9 DEF FdFill, Goto
  <2>3. Ahead(p, f) \/ Shown(p, s)
    BY <2>1, <2>2 DEF WalkProgress
  <2>4. CASE cur = p
    <3>1. Cardinality(Open(p)) + FdSlack <= size + Cardinality(Opened(p))
      BY <2>1, <2>2, <2>4 DEF FdsCounted
    <3>2. Cardinality(Open(p)) \in Nat /\ FdSlack \in Nat /\ size \in Nat /\ Cardinality(Opened(p)) \in Nat
      BY <1>5, Counted, CountsGrow DEF WalkTypes
    <3>3. Cardinality(Open(p)) <= size
      BY <2>1, <3>1, <3>2
    <3>4. f \in fds'
      BY <2>1, <2>2, <2>4, <3>3, ListsShape
    <3> QED
      BY <2>2, <2>4, <3>4 DEF Ahead
  <2> QED
    BY <2>2, <2>3, <2>4 DEF Ahead, Shown
<1>10. CASE NextFd
  <2>0. /\ pc = "loop" /\ UNCHANGED <<pc, pids, cur, result>>
        /\ \E g \in fds : fds' = fds \ {g} /\ rows' = rows \cup InspectFd(g)
    BY <1>10 DEF NextFd
  <2> SUFFICES ASSUME NEW p \in Pids \ {Self}, NEW f \in Fds, NEW s \in Sockets, Owed(p, f, s)'
               PROVE  Ahead(p, f)' \/ Shown(p, s)'
    BY <2>0 DEF WalkProgress
  <2>1. Owed(p, f, s) /\ Mine(p) /\ table[p].fds[f] = s /\ InRange(s.port)
    BY <1>3, <1>5
  <2>2. PICK g \in fds : fds' = fds \ {g} /\ rows' = rows \cup InspectFd(g)
    BY <2>0
  <2>3. Ahead(p, f) \/ Shown(p, s)
    BY <2>0, <2>1 DEF WalkProgress
  <2>4. CASE cur = p /\ g = f
    <3>1. InspectFd(g) = {[pid |-> p, port |-> s.port, host |-> s.host]}
      BY <2>1, <2>4 DEF InspectFd, AddressOf
    <3> QED
      BY <2>2, <3>1 DEF Shown
  <2>5. CASE ~(cur = p /\ g = f)
    BY <2>0, <2>2, <2>3, <2>5 DEF Ahead, Shown
  <2> QED
    BY <2>4, <2>5
<1>11. CASE EndLibproc
  <2>1. pc = "loop" /\ pc' = "done" /\ fds = {} /\ pids = {} /\ rows' = rows
    BY <1>11 DEF EndLibproc, Goto, walkVars
  <2> SUFFICES ASSUME NEW p \in Pids \ {Self}, NEW f \in Fds, NEW s \in Sockets, Owed(p, f, s)'
               PROVE  Shown(p, s)'
    BY <2>1 DEF WalkProgress
  <2>2. Owed(p, f, s)
    BY <1>3, <1>5
  <2> QED
    BY <2>1, <2>2 DEF WalkProgress, Ahead, Shown
<1>12. CASE Change \/ Expire \/ UNCHANGED vars
  BY <1>1, <1>5, <1>12 DEF Change, Expire, walkVars, vars, scanVars
<1>13. ASSUME NEW who, Fail(who)  PROVE WalkProgress'
  BY <1>2, <1>13 DEF Fail
<1>14. ASSUME NEW from, NEW to \in Inspecting \cup {"done"}, NEW g, NEW v, Filling(from, to, g, v),
              from \in Inspecting
       PROVE  WalkProgress'
  <2>1. pc' = to /\ result' = <<"inspector", "nil">>
    BY <1>14 DEF Filling, Goto, PlaceInv
  <2> QED
    BY <1>2, <2>1 DEF Inspecting
<1>15. CASE Inspect
  <2>1. \A from : Error(from) => WalkProgress'
    BY <1>13 DEF Error
  <2>2. \A n : n \in {"new", "argv", "cmdline", "cwd", "start", "uids", "env"} => n \in Inspecting
    BY DEF Inspecting
  <2> QED
    BY <1>14, <1>15, <2>1, <2>2
    DEF Inspect, NewProcess, ReadArgv, ReadCmdline, ReadCwd, ReadStart, ReadUids, ReadEnv
<1>16. CASE BeginLibproc \/ ListSize \/ BeginLsof \/ Probe
  BY <1>2, <1>13, <1>16 DEF BeginLibproc, ListSize, BeginLsof, Probe, Goto
<1>17. CASE EndLsof
  BY <1>2, <1>13, <1>17 DEF EndLsof, PlaceInv
<1>18. ListFill => pc' = "loop" \/ Fail("libproc")
  BY DEF ListFill, Goto
<1>19. NextPid => pc' # "done" \/ Fail("libproc")
  BY DEF NextPid
<1> QED
  BY <1>6, <1>7, <1>8, <1>9, <1>10, <1>11, <1>12, <1>13, <1>15, <1>16, <1>17, <1>18, <1>19
  DEF Next, ScanNext

(***************************************************************************)
(* lsof names every socket that stayed, unless it left a process out, and  *)
(* the parser finds it.                                                    *)
(***************************************************************************)
LEMMA LsofInductive ==
    ASSUME HistoryInv, HistoryInv', PlaceInv, WalkTypes, LinesInv, LsofProgress, [Next]_vars
    PROVE  LsofProgress'
<1>1. CASE Remembers /\ UNCHANGED <<pc, pids, lines, partial, rows, result>>
  BY <1>1, OwedBefore DEF LsofProgress
<1>2. CASE pc' # "lsof" /\ ~(pc' = "done" /\ result' = <<"lsof", "nil">>)
  BY <1>2 DEF LsofProgress
<1>3. CASE BeginInspect
  BY <1>2, <1>3 DEF BeginInspect, Goto
<1> SUFFICES ASSUME ~BeginInspect PROVE LsofProgress'
  BY <1>3
<1>4. Remembers
  BY HistoryInductive
<1>5. CASE BeginLsof /\ pc' = "lsof"
  <2> SUFFICES ASSUME NEW p \in Pids \ {Self}, NEW f \in Fds, NEW s \in Sockets, Stays(p, f, s)'
               PROVE  p \in pids'
    BY <1>5 DEF LsofProgress
  <2>1. Stays(p, f, s)
    BY <1>4, OwedBefore
  <2>2. pids' = Alive
    BY <1>5 DEF BeginLsof, Fail
  <2> QED
    BY <2>1, <2>2, StayingIsSeen
<1>6. CASE Probe
  <2> SUFFICES ASSUME NEW p \in Pids \ {Self}, NEW f \in Fds, NEW s \in Sockets, Stays(p, f, s)',
                      ~partial'
               PROVE  p \in pids' \/ Tells(lines', p, Node(s))
    BY <1>6 DEF LsofProgress, Probe
  <2>1. pc = "lsof" /\ UNCHANGED <<pc, result, rows, seen>>
    BY <1>6 DEF Probe, worldVars
  <2>2. PICK q \in pids : /\ pids' = pids \ {q}
                          /\ \/ /\ lines' = lines \o (IF Mine(q) THEN Report(q) ELSE <<>>)
                                /\ partial' = partial
                             \/ partial' = TRUE
    BY <1>6 DEF Probe
  <2>3. Stays(p, f, s) /\ IsSound(lines, seen) /\ q \in Pids
    BY <1>4, <2>1, OwedBefore DEF LinesInv, WalkTypes
  <2>4. p \in pids \/ Tells(lines, p, Node(s))
    BY <2>1, <2>2, <2>3 DEF LsofProgress
  <2>5. Mine(p) /\ f \in ListensOn(p) /\ table[p].fds[f] = s
    BY <2>3, StayingIsSeen
  <2>6. CASE Mine(q) /\ lines' = lines \o Report(q)
    <3>1. /\ \A r, node : Tells(lines, r, node) => Tells(lines', r, node)
          /\ \A g \in ListensOn(q) : Tells(lines', q, Node(table[q].fds[g]))
      BY <2>3, <2>6, ReportFollows
    <3>2. q = p => Tells(lines', p, Node(s))
      BY <2>5, <3>1
    <3> QED
      BY <2>2, <2>4, <3>1, <3>2
  <2>7. CASE ~Mine(q) /\ lines' = lines \o <<>>
    <3>1. lines' = lines /\ q # p
      BY <2>3, <2>5, <2>7 DEF IsSound
    <3> QED
      BY <2>2, <2>4, <3>1
  <2> QED
    BY <2>2, <2>6, <2>7
<1>7. CASE EndLsof /\ ~Fail("lsof")
  <2> SUFFICES ASSUME NEW p \in Pids \ {Self}, NEW f \in Fds, NEW s \in Sockets, Stays(p, f, s)',
                      InRange(s.port), ~partial'
               PROVE  RowOf(p, Node(s)) \in rows'
    <3>1. pc' = "done"
      BY <1>7 DEF EndLsof
    <3> QED
      BY <3>1 DEF LsofProgress
  <2>1. /\ pc = "lsof"
        /\ \E exit \in Codes : \E out \in Outputs(exit) :
             rows' = parseLsofF(out) /\ partial' = (partial \/ exit \notin {0, 1})
    BY <1>7 DEF EndLsof
  <2>2. PICK exit \in Codes : \E out \in Outputs(exit) :
             rows' = parseLsofF(out) /\ partial' = (partial \/ exit \notin {0, 1})
    BY <2>1
  <2>3. exit \in {0, 1} /\ ~partial /\ rows' = parseLsofF(lines)
    BY <2>2 DEF Outputs
  <2>4. pids = {}
    BY <2>3 DEF Codes
  <2>5. Stays(p, f, s) /\ IsSound(lines, seen)
    BY <1>4, <2>1, OwedBefore DEF LinesInv
  <2>6. Tells(lines, p, Node(s))
    BY <2>1, <2>3, <2>4, <2>5 DEF LsofProgress
  <2> QED
    BY <2>3, <2>5, <2>6, ParseIsComplete
<1>8. CASE Change \/ Expire \/ UNCHANGED vars
  BY <1>1, <1>4, <1>8 DEF Change, Expire, walkVars, vars, scanVars
<1>9. ASSUME NEW who, Fail(who)  PROVE LsofProgress'
  BY <1>2, <1>9 DEF Fail
<1>10. ASSUME NEW from, NEW to \in Inspecting \cup {"done"}, NEW g, NEW v, Filling(from, to, g, v),
              from \in Inspecting
       PROVE  LsofProgress'
  <2>1. pc' = to /\ result' = <<"inspector", "nil">>
    BY <1>10 DEF Filling, Goto, PlaceInv
  <2> QED
    BY <1>2, <2>1 DEF Inspecting
<1>11. CASE Inspect
  <2>1. \A from : Error(from) => LsofProgress'
    BY <1>9 DEF Error
  <2>2. \A n : n \in {"new", "argv", "cmdline", "cwd", "start", "uids", "env"} => n \in Inspecting
    BY DEF Inspecting
  <2> QED
    BY <1>10, <1>11, <2>1, <2>2
    DEF Inspect, NewProcess, ReadArgv, ReadCmdline, ReadCwd, ReadStart, ReadUids, ReadEnv
<1>12. CASE BeginLibproc \/ ListSize \/ ListFill
  BY <1>2, <1>9, <1>12 DEF BeginLibproc, ListSize, ListFill, Goto
<1>13. CASE NextPid \/ FdSize \/ FdFill \/ NextFd \/ EndLibproc
  <2>1. pc \in Walking
    BY <1>13 DEF NextPid, FdSize, FdFill, NextFd, EndLibproc, Goto, Walking
  <2>2. result = <<"libproc", "nil">>
    BY <2>1 DEF PlaceInv
  <2>3. pc' # "lsof" /\ (result' = result \/ Fail("libproc"))
    BY <1>13, <2>1 DEF NextPid, FdSize, FdFill, NextFd, EndLibproc, Goto, Walking, Fail, walkVars
  <2>4. <<"libproc", "nil">> # <<"lsof", "nil">>
    OBVIOUS
  <2> QED
    BY <1>2, <1>9, <2>2, <2>3, <2>4
<1>14. BeginLsof => pc' = "lsof" \/ Fail("lsof")
  BY DEF BeginLsof, Goto
<1> QED
  BY <1>5, <1>6, <1>7, <1>8, <1>9, <1>11, <1>12, <1>13, <1>14 DEF Next, ScanNext

-----------------------------------------------------------------------------
(* The invariant of a scan, and what it gives                               *)

ScanInv ==
    /\ HistoryInv /\ PlaceInv /\ WalkTypes /\ InfoShape
    /\ LinesInv /\ RowsInv
    /\ PidsCounted /\ FdsCounted /\ WalkProgress /\ LsofProgress

(***************************************************************************)
(* It holds before a call.                                                 *)
(***************************************************************************)
LEMMA InitialScan == Init => ScanInv
<1> SUFFICES ASSUME Init PROVE ScanInv
  OBVIOUS
<1>1. HistoryInv
  BY InitialHistory
<1>2. /\ pc = "idle" /\ expired = FALSE /\ size = 0 /\ pids = {} /\ cur = Self /\ fds = {}
      /\ lines = <<>> /\ partial = FALSE /\ rows = {} /\ result = <<"none", "nil">>
      /\ target = Self /\ info = NoInfo
  BY DEF Init, ScanInit
<1>3. PlaceInv
  BY <1>2 DEF PlaceInv, Walking, Inspecting
<1>4. WalkTypes
  <2>1. Cardinality(Pids) \in Nat /\ Cardinality(Fds) \in Nat /\ PidSlack \in Nat /\ FdSlack \in Nat
    BY Counted
  <2>2. 0 \in 0 .. Cardinality(Pids) + Cardinality(Fds) + PidSlack + FdSlack
    BY <2>1
  <2>3. Self \in Pids
    BY ScannerConstants
  <2> QED
    BY <1>2, <2>2, <2>3 DEF WalkTypes
<1>5. InfoShape
  BY <1>2, ScannerConstants DEF InfoShape, NoInfo
<1>6. LinesInv /\ RowsInv
  BY <1>2 DEF LinesInv, RowsInv
<1>7. PidsCounted /\ FdsCounted
  BY <1>2 DEF PidsCounted, FdsCounted
<1>8. WalkProgress /\ LsofProgress
  BY <1>2 DEF WalkProgress, LsofProgress
<1> QED
  BY <1>1, <1>3, <1>4, <1>5, <1>6, <1>7, <1>8 DEF ScanInv

(***************************************************************************)
(* Every step of the scan, of the inspection and of others preserves it.   *)
(***************************************************************************)
LEMMA ScanInductive ==
    ASSUME ScanInv, [Next]_vars
    PROVE  ScanInv'
<1> USE DEF ScanInv
<1>1. HistoryInv' /\ PlaceInv' /\ WalkTypes'
  BY HistoryInductive, PlaceInductive, WalkTypesInductive
<1>2. \A addr \in rows : addr.pid \in Pids
  BY DEF RowsInv, IsGenuine, Address
<1>3. InfoShape'
  BY <1>2, InfoInductive
<1>4. pids \subseteq Pids
  BY DEF WalkTypes
<1>5. LinesInv' /\ RowsInv'
  BY <1>4, LinesInductive, RowsInductive
<1>6. PidsCounted' /\ FdsCounted'
  BY CountsInductive
<1>7. WalkProgress' /\ LsofProgress'
  BY <1>1, WalkInductive, LsofInductive
<1> QED
  BY <1>1, <1>3, <1>5, <1>6, <1>7

(***************************************************************************)
(* It holds throughout every scan and inspection.                          *)
(***************************************************************************)
LEMMA ScanInvariant == Spec => []ScanInv
<1>1. ScanInv /\ [Next]_vars => ScanInv'
  BY ScanInductive
<1> QED
  BY <1>1, InitialScan, PTL DEF Spec

(***************************************************************************)
(* The types: the history is as long as the changes make it, and what is   *)
(* returned names processes, ports and hosts of the model.                 *)
(***************************************************************************)
THEOREM TypeCorrect == Spec => []TypeOK
<1>1. ScanInv => TypeOK
  <2> SUFFICES ASSUME ScanInv PROVE TypeOK
    OBVIOUS
  <2>1. HistoryInv /\ PlaceInv /\ WalkTypes /\ InfoShape /\ RowsInv
    BY DEF ScanInv
  <2>2. \A n \in DOMAIN seen : seen[n] \in Table
    BY <2>1, PresentTable
  <2>3. Len(seen) <= MaxChanges + 1 /\ changes \in 0..MaxChanges
    <3>1. changes \in 0..MaxChanges /\ Len(seen) \in 1 .. changes + 1 /\ MaxChanges \in Nat
      BY <2>1, ScannerConstants DEF HistoryInv
    <3> QED
      BY <3>1
  <2>4. rows \subseteq Address
    BY <2>1 DEF RowsInv, IsGenuine
  <2>5. ScanTypeOK
    BY <2>1, <2>2, <2>3, <2>4 DEF ScanTypeOK, WalkTypes
  <2>6. DOMAIN info = DOMAIN NoInfo
    BY <2>1 DEF InfoShape, NoInfo
  <2>7. pc \in {"idle", "pids.size", "pids.fill", "loop", "fd.size", "fd.fill", "lsof",
               "new", "argv", "cmdline", "cwd", "start", "uids", "env", "done"}
    BY <2>1 DEF PlaceInv, Walking, Inspecting
  <2> QED
    BY <2>1, <2>5, <2>6, <2>7 DEF TypeOK, PlaceInv, InfoShape
<1> QED
  BY <1>1, ScanInvariant, PTL

(***************************************************************************)
(* A scan makes nothing up: although the table changes between any two     *)
(* system calls of a walk, and although lsof may be cut off and its pids   *)
(* reused, every address returned was listened on by a process of this     *)
(* user with that pid at some moment of the scan; of an lsof that failed,  *)
(* the last port may be the beginning of one.                              *)
(***************************************************************************)
THEOREM ScansMakeNothingUp == Spec => []RowsAreTrue
<1>1. ScanInv => RowsAreTrue
  <2> SUFFICES ASSUME ScanInv, NEW addr \in rows
               PROVE  /\ addr.pid # Self /\ InRange(addr.port)
                      /\ \E n \in DOMAIN seen :
                           /\ seen[n][addr.pid] # NoProcess /\ seen[n][addr.pid].user = Me
                           /\ \E f \in Fds : seen[n][addr.pid].fds[f] \in {s \in Sockets : Shows(addr, s)}
    BY DEF RowsAreTrue
  <2> QED
    BY DEF ScanInv, RowsInv, IsGenuine
<1> QED
  BY <1>1, ScanInvariant, PTL

(***************************************************************************)
(* A scan misses nothing that was there all the time: a socket that one    *)
(* process of this user had open throughout is among the addresses, if the *)
(* lists were not cut, that is if no more was born or opened meanwhile     *)
(* than the buffers have spare slots, or if lsof left no process out.      *)
(***************************************************************************)
THEOREM NothingIsMissed == Spec => []NothingMissed
<1>1. ScanInv => NothingMissed
  <2> SUFFICES ASSUME ScanInv, Scanned, ~partial,
                      result[1] = "libproc" =>
                        /\ Cardinality(Births) <= PidSlack
                        /\ \A p \in Pids : Cardinality(Opened(p)) <= FdSlack,
                      NEW p \in Pids \ {Self}, NEW f \in Fds, NEW s \in Sockets,
                      InRange(s.port), Stays(p, f, s)
               PROVE  \E addr \in rows : addr.pid = p /\ Shows(addr, s)
    BY DEF NothingMissed, Stays
  <2>1. pc = "done" /\ WalkProgress /\ LsofProgress
    BY DEF Scanned, ScanInv
  <2>2. CASE result = <<"libproc", "nil">>
    <3> DEFINE addr == [pid |-> p, port |-> s.port, host |-> s.host]
    <3>1. Owed(p, f, s)
      BY <2>2 DEF Owed
    <3>2. addr \in rows
      BY <2>1, <2>2, <3>1 DEF WalkProgress, Shown
    <3> QED
      BY <3>2 DEF Shows
  <2>3. CASE result = <<"lsof", "nil">>
    <3>1. RowOf(p, Node(s)) \in rows
      BY <2>1, <2>3 DEF LsofProgress
    <3>2. /\ RowOf(p, Node(s)).pid = p /\ RowOf(p, Node(s)).port = s.port
          /\ \/ RowOf(p, Node(s)).host = s.host
             \/ RowOf(p, Node(s)).host = "0.0.0.0" /\ s.host = "::"
      BY NodeShape
    <3> QED
      BY <2>3, <3>1, <3>2 DEF Shows
  <2> QED
    BY <2>2, <2>3 DEF Scanned
<1> QED
  BY <1>1, ScanInvariant, PTL

-----------------------------------------------------------------------------
(* The buffer of KERN_PROCARGS2                                             *)

IsFlatten(seqs, l, g) == g = [i \in 1 .. l |-> IF i = 1 THEN seqs[i] ELSE g[i - 1] \o seqs[i]]

(***************************************************************************)
(* The function by which FlattenSeq joins sequences exists: one that is    *)
(* right for the first n gives one that is right for n + 1.                *)
(***************************************************************************)
LEMMA FlattenExists ==
    ASSUME NEW seqs, NEW l \in Nat
    PROVE  \E g : IsFlatten(seqs, l, g)
<1> DEFINE Join(g, i) == IF i = 1 THEN seqs[i] ELSE g[i - 1] \o seqs[i]
           RightTo(g, n) == \A i \in 1 .. l : i <= n => g[i] = Join(g, i)
           T == {n \in Nat : \E g : RightTo(g, n)}
<1>1. 0 \in T
  <2>1. RightTo(<<>>, 0)
    OBVIOUS
  <2> QED
    BY <2>1
<1>2. ASSUME NEW n \in T  PROVE n + 1 \in T
  <2>1. PICK g : RightTo(g, n)
    OBVIOUS
  <2> DEFINE h == [i \in 1 .. l |-> IF i <= n THEN g[i] ELSE Join(g, i)]
  <2>2. ASSUME NEW i \in 1 .. l, i <= n + 1  PROVE h[i] = Join(h, i)
    <3>1. h[i] = Join(g, i)
      BY <2>1
    <3>2. i # 1 => i - 1 \in 1 .. l /\ i - 1 <= n
      BY <2>2
    <3>3. i # 1 => h[i - 1] = g[i - 1]
      BY <3>2
    <3> QED
      BY <3>1, <3>3
  <2>3. RightTo(h, n + 1)
    BY <2>2
  <2>4. n + 1 \in Nat
    OBVIOUS
  <2> HIDE DEF RightTo, h
  <2> QED
    BY <2>3, <2>4
<1>3. T = Nat
  <2> HIDE DEF T
  <2>1. T \in SUBSET Nat
    BY DEF T
  <2> QED
    BY <1>1, <1>2, <2>1, Counting
<1>4. PICK g : RightTo(g, l)
  BY <1>3
<1> DEFINE h == [i \in 1 .. l |-> g[i]]
<1>5. ASSUME NEW i \in 1 .. l  PROVE h[i] = Join(h, i)
  <2>1. g[i] = Join(g, i)
    BY <1>4
  <2>2. i # 1 => i - 1 \in 1 .. l
    OBVIOUS
  <2> QED
    BY <2>1, <2>2
<1>6. IsFlatten(seqs, l, h)
  BY <1>5 DEF IsFlatten
<1> HIDE DEF h
<1> QED
  BY <1>6

\* The first n of the sequences, joined.
Flat(seqs, n) == IF n = 0 THEN <<>> ELSE (CHOOSE g : IsFlatten(seqs, Len(seqs), g))[n]

(***************************************************************************)
(* FlattenSeq adds one sequence after the other.                           *)
(***************************************************************************)
LEMMA FlatSteps ==
    ASSUME NEW seqs \in Seq(Seq(Nat))
    PROVE  /\ Flat(seqs, 0) = <<>>
           /\ \A n \in Nat : n < Len(seqs) => Flat(seqs, n + 1) = Flat(seqs, n) \o seqs[n + 1]
           /\ \A n \in 0 .. Len(seqs) : Flat(seqs, n) \in Seq(Nat)
           /\ FlattenSeq(seqs) = Flat(seqs, Len(seqs))
<1> DEFINE l == Len(seqs)
           g == CHOOSE x : IsFlatten(seqs, l, x)
<1>0. l \in Nat
  OBVIOUS
<1>1. IsFlatten(seqs, l, g)
  BY <1>0, FlattenExists
<1>2. FlattenSeq(seqs) = IF l = 0 THEN seqs ELSE g[l]
  BY DEF FlattenSeq, IsFlatten
<1>3. \A n \in Nat : Flat(seqs, n) = IF n = 0 THEN <<>> ELSE g[n]
  BY DEF Flat
<1>5. \A i \in 1 .. l : seqs[i] \in Seq(Nat)
  OBVIOUS
<1> HIDE DEF g, l
<1>4. \A i \in 1 .. l : g[i] = IF i = 1 THEN seqs[i] ELSE g[i - 1] \o seqs[i]
  BY <1>1 DEF IsFlatten
<1>6. ASSUME NEW n \in Nat, n < l  PROVE Flat(seqs, n + 1) = Flat(seqs, n) \o seqs[n + 1]
  <2>1. PICK m \in 1 .. l : m = n + 1
    BY <1>0, <1>6
  <2>2. Flat(seqs, m) = g[m]
    BY <1>0, <1>3, <2>1
  <2>3. m - 1 = n /\ (m = 1 <=> n = 0)
    BY <1>0, <2>1
  <2>4. g[m] = IF m = 1 THEN seqs[m] ELSE g[n] \o seqs[m]
    BY <1>4, <2>3
  <2>5. CASE n = 0
    <3>1. Flat(seqs, m) = seqs[m] /\ Flat(seqs, n) = <<>> /\ seqs[m] \in Seq(Nat)
      BY <1>3, <1>5, <2>2, <2>3, <2>4, <2>5
    <3>2. <<>> \o seqs[m] = seqs[m]
      BY <3>1
    <3> QED
      BY <2>1, <3>1, <3>2
  <2>6. CASE n # 0
    <3>1. Flat(seqs, n) = g[n]
      BY <1>3, <2>6
    <3> QED
      BY <2>1, <2>2, <2>3, <2>4, <2>6, <3>1
  <2> QED
    BY <2>5, <2>6
<1>7. \A n \in 0 .. l : Flat(seqs, n) \in Seq(Nat)
  <2> DEFINE T == {n \in Nat : n <= l => Flat(seqs, n) \in Seq(Nat)}
  <2>1. 0 \in T
    <3>1. Flat(seqs, 0) = <<>>
      BY <1>3
    <3>2. <<>> \in Seq(Nat)
      OBVIOUS
    <3> QED
      BY <3>1, <3>2
  <2>2. ASSUME NEW n \in T  PROVE n + 1 \in T
    <3>1. CASE n + 1 <= l
      <4>1. n \in Nat /\ n < l /\ n <= l /\ n + 1 \in 1 .. l
        BY <1>0, <3>1
      <4>2. Flat(seqs, n) \in Seq(Nat) /\ seqs[n + 1] \in Seq(Nat)
        BY <1>5, <4>1
      <4>3. Flat(seqs, n) \o seqs[n + 1] \in Seq(Nat)
        BY <4>2
      <4>4. Flat(seqs, n + 1) = Flat(seqs, n) \o seqs[n + 1]
        BY <1>6, <4>1
      <4>5. Flat(seqs, n + 1) \in Seq(Nat)
        BY <4>3, <4>4
      <4>6. PICK m \in Nat : m = n + 1
        BY <4>1
      <4>7. m \in T
        BY <4>5, <4>6
      <4> QED
        BY <4>6, <4>7
    <3>2. n + 1 \in Nat
      OBVIOUS
    <3> QED
      BY <3>1, <3>2
  <2>3. T = Nat
    <3> HIDE DEF T
    <3>1. T \in SUBSET Nat
      BY DEF T
    <3> QED
      BY <2>1, <2>2, <3>1, Counting
  <2> QED
    BY <2>3
<1>8. FlattenSeq(seqs) = Flat(seqs, l)
  <2>1. l = 0 => seqs = <<>>
    BY DEF l
  <2>2. Flat(seqs, l) = IF l = 0 THEN <<>> ELSE g[l]
    BY <1>0, <1>3
  <2> QED
    BY <1>2, <2>1, <2>2
<1>9. Flat(seqs, 0) = <<>>
  BY <1>3
<1> QED
  BY <1>6, <1>7, <1>8, <1>9 DEF l

\* String i and the Nul after it take the positions off[i - 1] + 1 .. off[i] of the buffer.
Placed(buf, strings, off, i) ==
    /\ off[i] = off[i - 1] + Len(strings[i]) + 1 /\ off[i] <= Len(buf)
    /\ buf[off[i]] = Nul
    /\ \A j \in 1 .. Len(strings[i]) : buf[off[i - 1] + j] = strings[i][j]

\* exec_path, a Nul of its own and one of padding come first.
Laid(buf, strings, off) ==
    /\ buf \in Seq(Nat) /\ Len(buf) = off[Len(strings)]
    /\ off \in [0 .. Len(strings) -> Nat] /\ off[0] = 3
    /\ Len(buf) >= 3 /\ buf[1] = 1 /\ buf[2] = Nul /\ buf[3] = Nul
    /\ \A i \in 1 .. Len(strings) : Placed(buf, strings, off, i)

(***************************************************************************)
(* What is placed stays where it is when more is appended.                 *)
(***************************************************************************)
LEMMA PlacedStays ==
    ASSUME NEW buf \in Seq(Nat), NEW more \in Seq(Nat), NEW strings \in Seq(Strings), NEW off,
           NEW i \in 1 .. Len(strings), off[i - 1] \in Nat, Placed(buf, strings, off, i)
    PROVE  Placed(buf \o more, strings, off, i)
<1>0. \A a, k, b \in Nat : a + k + 1 <= b => \A j \in 1 .. k : a + j \in 1 .. b
  OBVIOUS
<1>1. Len(strings[i]) \in Nat
  <2>1. strings[i] \in Strings
    OBVIOUS
  <2> QED
    BY <2>1 DEF Strings
<1>2. /\ Len(buf) \in Nat /\ Len(buf \o more) >= Len(buf)
      /\ \A q \in 1 .. Len(buf) : (buf \o more)[q] = buf[q]
  BY Joined
<1>3. off[i] \in 1 .. Len(buf) /\ \A j \in 1 .. Len(strings[i]) : off[i - 1] + j \in 1 .. Len(buf)
  <2>1. /\ off[i] = off[i - 1] + Len(strings[i]) + 1 /\ off[i] <= Len(buf)
        /\ off[i - 1] \in Nat /\ Len(strings[i]) \in Nat /\ Len(buf) \in Nat
    BY <1>1, <1>2 DEF Placed
  <2>2. off[i] \in 1 .. Len(buf)
    BY <2>1
  <2>3. ASSUME NEW j \in 1 .. Len(strings[i])  PROVE off[i - 1] + j \in 1 .. Len(buf)
    <3>1. PICK a \in Nat, k \in Nat, b \in Nat :
             /\ a = off[i - 1] /\ k = Len(strings[i]) /\ b = Len(buf) /\ a + k + 1 <= b
      BY <2>1
    <3>2. j \in 1 .. k
      BY <3>1
    <3>3. a + j \in 1 .. b
      BY <1>0, <3>1, <3>2
    <3> QED
      BY <3>1, <3>3
  <2> QED
    BY <2>2, <2>3
<1>4. (buf \o more)[off[i]] = Nul
  BY <1>2, <1>3 DEF Placed
<1>5. \A j \in 1 .. Len(strings[i]) : (buf \o more)[off[i - 1] + j] = strings[i][j]
  BY <1>2, <1>3 DEF Placed
<1>6. off[i] <= Len(buf \o more)
  <2>1. Len(buf \o more) \in Nat
    OBVIOUS
  <2> QED
    BY <1>2, <1>3, <2>1
<1> QED
  BY <1>4, <1>5, <1>6 DEF Placed

(***************************************************************************)
(* The buffer holds one string after the other.                            *)
(***************************************************************************)
LEMMA BufferIsLaid ==
    ASSUME NEW strings \in Seq(Strings)
    PROVE  \E off : Laid(<<1, Nul, Nul>> \o Terminated(strings), strings, off)
<1> DEFINE seqs == [n \in DOMAIN strings |-> Append(strings[n], Nul)]
           N == Len(strings)
           F(n) == Flat(seqs, n)
           B(n) == <<1, Nul, Nul>> \o F(n)
           off == [n \in 0 .. N |-> 3 + Len(F(n))]
<1>1. N \in Nat /\ DOMAIN strings = 1 .. N /\ \A i \in 1 .. N : strings[i] \in Strings
  OBVIOUS
<1>2. \A i \in 1 .. N : strings[i] \in Seq(Nat) /\ \A j \in 1 .. Len(strings[i]) : strings[i][j] # Nul
  BY <1>1 DEF Strings, Nul
<1>3. \A i \in 1 .. N : /\ seqs[i] = Append(strings[i], Nul) /\ seqs[i] \in Seq(Nat)
                        /\ Len(strings[i]) \in Nat /\ Len(seqs[i]) = Len(strings[i]) + 1
                        /\ seqs[i][Len(strings[i]) + 1] = Nul
                        /\ \A j \in 1 .. Len(strings[i]) : seqs[i][j] = strings[i][j]
  BY <1>1, <1>2 DEF Nul
<1>4. seqs \in Seq(Seq(Nat)) /\ Len(seqs) = N
  BY <1>1, <1>3
<1> HIDE DEF seqs
<1>5. /\ F(0) = <<>> /\ \A n \in 0 .. N : F(n) \in Seq(Nat)
      /\ \A n \in Nat : n < N => F(n + 1) = F(n) \o seqs[n + 1]
      /\ FlattenSeq(seqs) = F(N)
  BY <1>4, FlatSteps
<1> HIDE DEF N, F
<1>6. <<1, Nul, Nul>> \in Seq(Nat) /\ Len(<<1, Nul, Nul>>) = 3
  BY DEF Nul
<1>7. ASSUME NEW n \in 0 .. N
      PROVE  /\ B(n) \in Seq(Nat) /\ Len(B(n)) = off[n] /\ off[n] \in Nat /\ off[n] >= 3
             /\ B(n)[1] = 1 /\ B(n)[2] = Nul /\ B(n)[3] = Nul
  <2>1. F(n) \in Seq(Nat) /\ Len(F(n)) \in Nat
    BY <1>5
  <2>2. B(n) \in Seq(Nat) /\ Len(B(n)) = 3 + Len(F(n))
        /\ \A q \in 1 .. 3 : B(n)[q] = <<1, Nul, Nul>>[q]
    BY <1>6, <2>1, Joined
  <2>3. off[n] = 3 + Len(F(n))
    OBVIOUS
  <2> HIDE DEF B, off
  <2>4. off[n] \in Nat /\ off[n] >= 3
    BY <2>1, <2>3
  <2>5. <<1, Nul, Nul>>[1] = 1 /\ <<1, Nul, Nul>>[2] = Nul /\ <<1, Nul, Nul>>[3] = Nul
    OBVIOUS
  <2>6. B(n)[1] = 1 /\ B(n)[2] = Nul /\ B(n)[3] = Nul
    <3>1. 1 \in 1 .. 3 /\ 2 \in 1 .. 3 /\ 3 \in 1 .. 3
      OBVIOUS
    <3> QED
      BY <2>2, <2>5, <3>1
  <2> QED
    BY <2>2, <2>3, <2>4, <2>6
<1>8. ASSUME NEW n \in Nat, n < N  PROVE B(n + 1) = B(n) \o seqs[n + 1]
  <2>1. F(n) \in Seq(Nat) /\ seqs[n + 1] \in Seq(Nat) /\ F(n + 1) = F(n) \o seqs[n + 1]
    BY <1>1, <1>3, <1>5, <1>8 DEF N
  <2>2. \A a, b, c \in Seq(Nat) : (a \o b) \o c = a \o (b \o c)
    BY ConcatAssociative
  <2>3. <<1, Nul, Nul>> \o (F(n) \o seqs[n + 1]) = (<<1, Nul, Nul>> \o F(n)) \o seqs[n + 1]
    BY <1>6, <2>1, <2>2
  <2> QED
    BY <2>1, <2>3
<1> HIDE DEF B
<1>9. off = [n \in 0 .. N |-> off[n]]
  OBVIOUS
<1> HIDE DEF off
<1> DEFINE T == {n \in Nat : n <= N => \A i \in 1 .. n : Placed(B(n), strings, off, i)}
<1>10. 0 \in T
  OBVIOUS
<1>11. ASSUME NEW n \in T  PROVE n + 1 \in T
  <2>1. CASE n < N
    <3>1. PICK m \in 1 .. N : m = n + 1
      BY <1>1, <2>1 DEF N
    <3>2. n \in 0 .. N /\ n \in Nat /\ m - 1 = n /\ n <= N
      BY <1>1, <2>1, <3>1 DEF N
    <3>3. B(m) = B(n) \o seqs[m] /\ B(n) \in Seq(Nat) /\ seqs[m] \in Seq(Nat)
      BY <1>3, <1>7, <1>8, <2>1, <3>1, <3>2
    <3>4. ASSUME NEW i \in 1 .. n  PROVE Placed(B(m), strings, off, i)
      <4>1. Placed(B(n), strings, off, i)
        BY <3>2
      <4>2. i \in 1 .. Len(strings) /\ i - 1 \in 0 .. N
        BY <1>1, <2>1 DEF N
      <4>3. off[i - 1] \in Nat
        BY <1>7, <4>2
      <4> QED
        BY <3>3, <4>1, <4>2, <4>3, PlacedStays
    <3>5. Placed(B(m), strings, off, m)
      <4>1. /\ Len(B(m)) = off[m] /\ off[m] \in Nat /\ Len(B(n)) = off[n] /\ off[n] \in Nat
        BY <1>7, <3>1, <3>2
      <4>2. /\ Len(B(m)) = Len(B(n)) + Len(seqs[m])
            /\ \A q \in 1 .. Len(seqs[m]) : B(m)[Len(B(n)) + q] = seqs[m][q]
        BY <3>3, Joined
      <4>3. /\ Len(strings[m]) \in Nat /\ Len(seqs[m]) = Len(strings[m]) + 1
            /\ seqs[m][Len(strings[m]) + 1] = Nul
            /\ \A j \in 1 .. Len(strings[m]) : seqs[m][j] = strings[m][j]
        BY <1>3
      <4>4. off[m] = off[n] + (Len(strings[m]) + 1)
        BY <4>1, <4>2, <4>3
      <4>5. B(m)[off[m]] = Nul
        <5>1. PICK q \in Nat : q = Len(strings[m]) + 1
          BY <4>3
        <5>2. q \in 1 .. Len(seqs[m]) /\ seqs[m][q] = Nul /\ off[m] = off[n] + q
          BY <4>3, <4>4, <5>1
        <5> QED
          BY <4>1, <4>2, <5>2
      <4>6. \A j \in 1 .. Len(strings[m]) : B(m)[off[n] + j] = strings[m][j]
        BY <4>1, <4>2, <4>3
      <4>7. off[m] = off[n] + Len(strings[m]) + 1 /\ off[m] <= Len(B(m))
        BY <4>1, <4>3, <4>4
      <4> QED
        BY <3>2, <4>5, <4>6, <4>7 DEF Placed
    <3>6. \A i \in 1 .. m : i = m \/ i \in 1 .. n
      BY <3>1, <3>2
    <3>7. m \in Nat /\ \A i \in 1 .. m : Placed(B(m), strings, off, i)
      BY <3>1, <3>4, <3>5, <3>6
    <3> QED
      BY <3>1, <3>7
  <2>2. CASE ~(n < N)
    <3>1. n + 1 \in Nat /\ ~(n + 1 <= N)
      BY <1>1, <2>2 DEF N
    <3> QED
      BY <3>1
  <2> QED
    BY <2>1, <2>2
<1>12. T = Nat
  <2> HIDE DEF T
  <2>1. T \in SUBSET Nat
    BY DEF T
  <2> QED
    BY <1>10, <1>11, <2>1, Counting
<1>13. N \in 0 .. N /\ 0 \in 0 .. N /\ \A i \in 1 .. N : Placed(B(N), strings, off, i)
  BY <1>1, <1>12 DEF N
<1>14. off[0] = 3 /\ off \in [0 .. N -> Nat]
  <2>1. off[0] = 3
    BY <1>5, <1>13 DEF off
  <2> QED
    BY <1>7, <1>9, <2>1
<1>15. B(N) = <<1, Nul, Nul>> \o Terminated(strings)
  BY <1>5 DEF B, Terminated, seqs
<1>16. Laid(B(N), strings, off)
  BY <1>7, <1>13, <1>14 DEF Laid, N
<1> QED
  BY <1>15, <1>16

(***************************************************************************)
(* The least of a set of numbers.                                          *)
(***************************************************************************)
LEMMA LeastIsMember ==
    ASSUME NEW S \in SUBSET Nat, S # {}
    PROVE  Min(S) \in S /\ \A x \in S : Min(S) <= x
<1>1. PICK m \in S : \A j \in S : ~(<<j, m>> \in OpToRel(<, Nat))
  BY NatLessThanWellFounded, WFMin
<1>2. \A j \in S : ~(j < m)
  BY <1>1 DEF OpToRel
<1>3. \A x \in S : m =< x
  <2>1. \A x \in S : x \in Nat /\ m \in Nat
    OBVIOUS
  <2> QED
    BY <1>2, <2>1
<1>4. Min(S) \in S /\ \A x \in S : Min(S) =< x
  BY <1>3 DEF Min
<1> QED
  BY <1>4

(***************************************************************************)
(* The first position with a property, or the one after the end.           *)
(***************************************************************************)
LEMMA FirstPosition ==
    ASSUME NEW pos \in Nat, NEW l \in Nat, NEW Q \in SUBSET (pos .. l)
    PROVE  LET m == Min(Q \cup {Max({pos, l + 1})})
           IN  /\ m \in Nat /\ m >= pos /\ \A x \in Q : m <= x
               /\ Q # {} => m \in Q
               /\ Q = {} => m = IF pos > l THEN pos ELSE l + 1
<1> DEFINE far == IF pos > l THEN pos ELSE l + 1
           S == Q \cup {far}
<1>1. Max({pos, l + 1}) = far
  <2>1. far \in {pos, l + 1} /\ \A y \in {pos, l + 1} : far >= y
    OBVIOUS
  <2>2. \A x \in {pos, l + 1} : (\A y \in {pos, l + 1} : x >= y) => x = far
    OBVIOUS
  <2> HIDE DEF far
  <2>3. Max({pos, l + 1}) \in {pos, l + 1} /\ \A y \in {pos, l + 1} : Max({pos, l + 1}) >= y
    BY <2>1 DEF Max
  <2> QED
    BY <2>2, <2>3
<1>2. far \in Nat /\ far >= pos /\ far >= l + 1
  OBVIOUS
<1>3. \A x \in Q : x \in Nat /\ x >= pos /\ x <= l
  OBVIOUS
<1> HIDE DEF far
<1>4. S \in SUBSET Nat /\ S # {} /\ far \in S
  BY <1>2, <1>3
<1> DEFINE m == Min(S)
<1>5. m \in S /\ \A x \in S : m <= x
  BY <1>4, LeastIsMember
<1> HIDE DEF m
<1>6. m \in Nat /\ m >= pos /\ \A x \in Q : m <= x
  BY <1>2, <1>3, <1>5
<1>7. Q # {} => m \in Q
  <2> SUFFICES ASSUME NEW x \in Q PROVE m # far
    BY <1>5
  <2>1. m <= x /\ x <= l /\ far >= l + 1 /\ x \in Nat /\ far \in Nat /\ m \in Nat
    BY <1>2, <1>3, <1>6
  <2> QED
    BY <2>1
<1>8. Q = {} => m = far
  BY <1>5
<1> QED
  BY <1>1, <1>6, <1>7, <1>8 DEF m, far

(***************************************************************************)
(* The next Nul, and the next character.                                   *)
(***************************************************************************)
LEMMA NextNul ==
    ASSUME NEW buf \in Seq(Nat), NEW pos \in Nat
    PROVE  /\ ToNul(buf, pos) \in Nat /\ ToNul(buf, pos) >= pos
           /\ pos <= Len(buf) => ToNul(buf, pos) <= Len(buf) + 1
           /\ pos > Len(buf) => ToNul(buf, pos) = pos
           /\ \A q \in pos .. Len(buf) :
                buf[q] = Nul /\ (\A r \in pos .. q - 1 : buf[r] # Nul) => ToNul(buf, pos) = q
<1> DEFINE l == Len(buf)
           Q == {q \in pos .. l : buf[q] = Nul}
           m == ToNul(buf, pos)
<1>1. l \in Nat /\ Q \in SUBSET (pos .. l)
  OBVIOUS
<1>2. m = Min(Q \cup {Max({pos, l + 1})})
  BY DEF ToNul
<1> HIDE DEF m, l
<1>3. /\ m \in Nat /\ m >= pos /\ \A x \in Q : m <= x
      /\ Q # {} => m \in Q
      /\ Q = {} => m = IF pos > l THEN pos ELSE l + 1
  <2> HIDE DEF Q
  <2> QED
    BY <1>1, <1>2, FirstPosition
<1>4. pos <= l => m <= l + 1
  BY <1>1, <1>3
<1>5. pos > l => m = pos
  BY <1>1, <1>3
<1>6. ASSUME NEW q \in pos .. l, buf[q] = Nul, \A r \in pos .. q - 1 : buf[r] # Nul  PROVE m = q
  <2>1. q \in Q /\ m \in Q /\ m <= q
    BY <1>3, <1>6
  <2>2. m \notin pos .. q - 1 /\ m \in pos .. l
    BY <1>6, <2>1
  <2> QED
    BY <1>1, <2>1, <2>2
<1> QED
  BY <1>3, <1>4, <1>5, <1>6 DEF m, l

(***************************************************************************)
(* Likewise.                                                               *)
(***************************************************************************)
LEMMA NextChar ==
    ASSUME NEW buf \in Seq(Nat), NEW pos \in Nat, pos <= Len(buf) + 1
    PROVE  /\ (\A r \in pos .. Len(buf) : buf[r] = Nul) => ToChar(buf, pos) = Len(buf) + 1
           /\ \A q \in pos .. Len(buf) :
                buf[q] # Nul /\ (\A r \in pos .. q - 1 : buf[r] = Nul) => ToChar(buf, pos) = q
<1> DEFINE l == Len(buf)
           Q == {q \in pos .. l : buf[q] # Nul}
           m == ToChar(buf, pos)
<1>1. l \in Nat /\ Q \in SUBSET (pos .. l) /\ pos <= l + 1
  OBVIOUS
<1>2. m = Min(Q \cup {Max({pos, l + 1})})
  BY DEF ToChar
<1> HIDE DEF m, l
<1>3. /\ m \in Nat /\ m >= pos /\ \A x \in Q : m <= x
      /\ Q # {} => m \in Q
      /\ Q = {} => m = IF pos > l THEN pos ELSE l + 1
  <2> HIDE DEF Q
  <2> QED
    BY <1>1, <1>2, FirstPosition
<1>4. (\A r \in pos .. l : buf[r] = Nul) => m = l + 1
  BY <1>1, <1>3
<1>5. ASSUME NEW q \in pos .. l, buf[q] # Nul, \A r \in pos .. q - 1 : buf[r] = Nul  PROVE m = q
  <2>1. q \in Q /\ m \in Q /\ m <= q
    BY <1>3, <1>5
  <2>2. m \notin pos .. q - 1 /\ m \in pos .. l
    BY <1>5, <2>1
  <2> QED
    BY <1>1, <2>1, <2>2
<1> QED
  BY <1>4, <1>5 DEF m, l

(***************************************************************************)
(* From its first position a string is found whole.                        *)
(***************************************************************************)
LEMMA StringFound ==
    ASSUME NEW strings \in Seq(Strings), NEW buf, NEW off, Laid(buf, strings, off),
           NEW i \in 1 .. Len(strings)
    PROVE  /\ off[i - 1] \in Nat /\ off[i] \in Nat /\ Len(strings[i]) \in Nat
           /\ off[i] = off[i - 1] + Len(strings[i]) + 1 /\ off[i] <= Len(buf)
           /\ buf[off[i - 1] + 1] = Nul <=> strings[i] = <<>>
           /\ ToNul(buf, off[i - 1] + 1) = off[i]
           /\ SubSeq(buf, off[i - 1] + 1, off[i] - 1) = strings[i]
<1>1. /\ buf \in Seq(Nat) /\ off[i - 1] \in Nat /\ off[i] \in Nat
      /\ Placed(buf, strings, off, i)
  <2>1. i - 1 \in 0 .. Len(strings) /\ i \in 0 .. Len(strings)
    OBVIOUS
  <2>2. buf \in Seq(Nat) /\ off \in [0 .. Len(strings) -> Nat] /\ Placed(buf, strings, off, i)
    BY DEF Laid
  <2> QED
    BY <2>1, <2>2
<1>2. strings[i] \in Seq(Nat \ {0})
  BY DEF Strings
<1> DEFINE s == strings[i]
           a == off[i - 1]
           b == off[i]
           k == Len(s)
<1>3. /\ k \in Nat /\ s = [j \in 1 .. k |-> s[j]] /\ \A j \in 1 .. k : s[j] # Nul
      /\ s = <<>> <=> k = 0
  BY <1>2 DEF Nul
<1>4. /\ a \in Nat /\ b \in Nat /\ b = a + k + 1 /\ b <= Len(buf) /\ buf[b] = Nul
      /\ \A j \in 1 .. k : buf[a + j] = s[j]
  BY <1>1 DEF Placed
<1>5. Len(buf) \in Nat /\ buf \in Seq(Nat)
  BY <1>1
<1>6. (Len(strings[i]) = k /\ off[i - 1] = a /\ off[i] = b /\ strings[i] = s)
  OBVIOUS
<1> HIDE DEF s, a, b, k
<1>7. \A r \in a + 1 .. b - 1 : buf[r] # Nul
  <2> SUFFICES ASSUME NEW r \in a + 1 .. b - 1 PROVE buf[r] # Nul
    OBVIOUS
  <2>1. PICK j \in 1 .. k : r = a + j
    <3>1. k \in Nat /\ a \in Nat /\ b = a + k + 1 /\ r \in a + 1 .. b - 1
      BY <1>3, <1>4
    <3>2. r - a \in 1 .. k /\ r = a + (r - a)
      BY <3>1
    <3> QED
      BY <3>2
  <2>2. buf[a + j] = s[j] /\ s[j] # Nul
    BY <1>3, <1>4
  <2> QED
    BY <2>1, <2>2
<1>8. ToNul(buf, a + 1) = b
  <2>1. a + 1 \in Nat /\ b \in (a + 1) .. Len(buf) /\ buf[b] = Nul
    BY <1>3, <1>4, <1>5
  <2> QED
    BY <1>5, <1>7, <2>1, NextNul
<1>9. buf[a + 1] = Nul <=> s = <<>>
  <2>1. CASE k = 0
    BY <1>3, <1>4, <2>1
  <2>2. CASE k # 0
    <3>1. 1 \in 1 .. k
      BY <1>3, <2>2
    <3> QED
      BY <1>3, <1>4, <2>2, <3>1
  <2> QED
    BY <2>1, <2>2
<1>10. SubSeq(buf, a + 1, b - 1) = s
  <2> DEFINE m == a + 1
             n == b - 1
             sub == SubSeq(buf, m, n)
  <2>1. /\ m \in Int /\ n \in Int /\ m = a + 1 /\ n - m + 1 = k
        /\ (m <= n <=> k # 0) /\ \A q \in m .. n : q \in 1 .. Len(buf)
    <3>1. PICK x \in Nat, y \in Nat, z \in Nat, l \in Nat :
             x = a /\ y = b /\ z = k /\ l = Len(buf) /\ y = x + z + 1 /\ y <= l
      BY <1>3, <1>4, <1>5
    <3>2. x + 1 \in Int /\ y - 1 \in Int /\ (y - 1) - (x + 1) + 1 = z
      BY <3>1
    <3>3. x + 1 <= y - 1 <=> z # 0
      BY <3>1
    <3>4. \A q \in x + 1 .. y - 1 : q \in 1 .. l
      BY <3>1
    <3> QED
      BY <3>1, <3>2, <3>3, <3>4
  <2> HIDE DEF m, n
  <2>2. \A q \in m .. n : buf[q] \in Nat
    BY <1>5, <2>1
  <2>3. /\ sub \in Seq(Nat)
        /\ Len(sub) = IF m <= n THEN n - m + 1 ELSE 0
        /\ \A j \in 1 .. n - m + 1 : sub[j] = buf[m + j - 1]
    BY <2>1, <2>2, SubSeqProperties
  <2> HIDE DEF sub
  <2>4. Len(sub) = k /\ \A j \in 1 .. k : sub[j] = buf[m + j - 1]
    BY <2>1, <2>3
  <2>5. \A j \in 1 .. k : m + j - 1 = a + j
    BY <1>3, <1>4, <2>1
  <2>6. \A j \in 1 .. k : sub[j] = s[j]
    BY <1>4, <2>4, <2>5
  <2>7. sub = s
    BY <1>3, <2>3, <2>4, <2>6
  <2> QED
    BY <2>7 DEF sub, m, n
<1> QED
  BY <1>3, <1>4, <1>6, <1>8, <1>9, <1>10

(***************************************************************************)
(* Empty strings in front pass for padding.                                *)
(***************************************************************************)
LEMMA PaddingEnds ==
    ASSUME NEW strings \in Seq(Strings), NEW buf, NEW off, Laid(buf, strings, off)
    PROVE  \E k \in 0 .. Len(strings) :
              /\ ToChar(buf, ToNul(buf, 1)) = off[k] + 1
              /\ Len(strings) > 0 /\ strings[1] # <<>> => k = 0
<1> DEFINE N == Len(strings)
           Blank(k) == off[k] = 3 + k /\ \A r \in 2 .. 3 + k : buf[r] = Nul
           Ended(k) == k < N /\ Blank(k) /\ strings[k + 1] # <<>>
           T == {n \in Nat : n <= N => Blank(n) \/ \E k \in 0 .. n : Ended(k)}
<1>1. N \in Nat /\ buf \in Seq(Nat) /\ Len(buf) \in Nat /\ Len(buf) >= 3 /\ off[0] = 3
      /\ buf[1] = 1 /\ buf[2] = Nul /\ buf[3] = Nul /\ Len(buf) = off[N]
  BY DEF Laid
<1>2. ToNul(buf, 1) = 2
  <2>1. buf[1] # Nul /\ buf[2] = Nul /\ 2 \in 1 .. Len(buf) /\ \A r \in 1 .. 2 - 1 : r = 1
    BY <1>1 DEF Nul
  <2> QED
    BY <1>1, <2>1, NextNul
<1>3. 0 \in T
  <2>1. \A r \in 2 .. 3 + 0 : r = 2 \/ r = 3
    OBVIOUS
  <2>2. Blank(0)
    BY <1>1, <2>1
  <2> HIDE DEF Blank
  <2> QED
    BY <2>2
<1>4. ASSUME NEW n \in T  PROVE n + 1 \in T
  <2>1. PICK m \in Nat : m = n + 1
    OBVIOUS
  <2>2. CASE m <= N
    <3>1. n \in Nat /\ n <= N /\ m \in 1 .. N /\ m - 1 = n /\ n < N
      BY <1>1, <2>1, <2>2
    <3>2. CASE \E k \in 0 .. n : Ended(k)
      <4> HIDE DEF Ended
      <4>1. \E k \in 0 .. m : Ended(k)
        BY <2>1, <3>1, <3>2
      <4>2. m \in T
        BY <4>1
      <4> QED
        BY <2>1, <4>2
    <3>3. CASE Blank(n) /\ strings[m] # <<>>
      <4>1. Ended(n) /\ n \in 0 .. m
        BY <2>1, <3>1, <3>3
      <4> HIDE DEF Ended, Blank
      <4>2. m \in T
        BY <4>1
      <4> QED
        BY <2>1, <4>2
    <3>4. CASE Blank(n) /\ strings[m] = <<>>
      <4>1. off[m] = off[n] + Len(strings[m]) + 1 /\ buf[off[n] + 1] = Nul /\ off[n] \in Nat
        BY <3>1, <3>4, StringFound
      <4>2. Len(strings[m]) = 0 /\ off[n] = 3 + n
        BY <3>4
      <4>3. off[m] = 3 + m /\ buf[3 + m] = Nul
        <5>1. off[m] = off[n] + 1 /\ off[n] + 1 = 3 + m
          BY <2>1, <3>1, <4>1, <4>2
        <5> QED
          BY <4>1, <5>1
      <4>4. \A r \in 2 .. 3 + m : r = 3 + m \/ r \in 2 .. 3 + n
        BY <2>1, <3>1
      <4>5. Blank(m)
        BY <3>4, <4>3, <4>4
      <4> HIDE DEF Blank
      <4>6. m \in T
        BY <4>5
      <4> QED
        BY <2>1, <4>6
    <3> HIDE DEF Blank, Ended
    <3>5. Blank(n) \/ \E k \in 0 .. n : Ended(k)
      BY <3>1
    <3> QED
      BY <3>2, <3>3, <3>4, <3>5
  <2>3. CASE ~(m <= N)
    BY <2>1, <2>3
  <2> QED
    BY <2>2, <2>3
<1>5. T = Nat
  <2> HIDE DEF T
  <2>1. T \in SUBSET Nat
    BY DEF T
  <2> QED
    BY <1>3, <1>4, <2>1, Counting
<1>6. Blank(N) \/ \E k \in 0 .. N : Ended(k)
  <2> HIDE DEF Blank, Ended
  <2>1. N \in T /\ N <= N
    BY <1>1, <1>5
  <2> QED
    BY <2>1
<1>7. ASSUME NEW k \in 0 .. N, Blank(k), N > 0, strings[1] # <<>>  PROVE k = 0
  <2> SUFFICES ASSUME k # 0 PROVE FALSE
    OBVIOUS
  <2>1. 1 \in 1 .. N /\ 1 - 1 = 0 /\ 4 \in 2 .. 3 + k
    BY <1>1, <1>7
  <2>2. buf[off[0] + 1] # Nul
    BY <1>7, <2>1, StringFound
  <2>3. off[0] + 1 = 4
    BY <1>1
  <2> QED
    BY <1>7, <2>1, <2>2, <2>3
<1>8. CASE Blank(N)
  <2>1. \A r \in 2 .. Len(buf) : buf[r] = Nul
    BY <1>1, <1>8
  <2>4. 2 \in Nat /\ 2 <= Len(buf) + 1
    BY <1>1
  <2>2. ToChar(buf, 2) = off[N] + 1
    BY <1>1, <2>1, <2>4, NextChar
  <2>3. N \in 0 .. N
    BY <1>1
  <2> QED
    BY <1>2, <1>7, <1>8, <2>2, <2>3
<1>9. ASSUME NEW k \in 0 .. N, Ended(k)
      PROVE  /\ ToChar(buf, ToNul(buf, 1)) = off[k] + 1
             /\ N > 0 /\ strings[1] # <<>> => k = 0
  <2>1. PICK m \in 1 .. N : m = k + 1
    BY <1>1, <1>9
  <2>2. m - 1 = k
    BY <2>1
  <2>9. k \in Nat /\ strings[m] # <<>>
    BY <1>9, <2>1
  <2>3. buf[off[k] + 1] # Nul /\ off[m] = off[k] + Len(strings[m]) + 1 /\ off[m] <= Len(buf)
        /\ off[k] \in Nat /\ Len(strings[m]) \in Nat
    <3>1. /\ off[m - 1] \in Nat /\ Len(strings[m]) \in Nat
          /\ off[m] = off[m - 1] + Len(strings[m]) + 1 /\ off[m] <= Len(buf)
          /\ buf[off[m - 1] + 1] = Nul <=> strings[m] = <<>>
      BY StringFound
    <3> QED
      BY <2>2, <2>9, <3>1
  <2>4. off[k] = 3 + k /\ \A r \in 2 .. off[k] : buf[r] = Nul
    BY <1>9
  <2>10. \A a, l, e, b \in Nat : a = 3 + k /\ e = a + l + 1 /\ e <= b => a + 1 \in 2 .. b
    BY <2>9
  <2>11. off[m] \in Nat
    BY <2>3
  <2>5. PICK q \in 2 .. Len(buf) : q = off[k] + 1
    BY <1>1, <2>3, <2>4, <2>10, <2>11
  <2>6. \A r \in 2 .. q - 1 : buf[r] = Nul
    BY <2>3, <2>4, <2>5
  <2>7. ToChar(buf, 2) = q
    <3>1. 2 \in Nat /\ 2 <= Len(buf) + 1
      BY <1>1
    <3>2. buf[q] # Nul
      BY <2>3, <2>5
    <3> QED
      BY <1>1, <2>5, <2>6, <3>1, <3>2, NextChar
  <2>8. Blank(k)
    BY <1>9
  <2> QED
    BY <1>2, <1>7, <2>5, <2>7, <2>8
<1> HIDE DEF Blank, Ended
<1> QED
  BY <1>6, <1>8, <1>9

-----------------------------------------------------------------------------
(* Reading the buffer                                                       *)

Skipped(buf, g, i) == IF i = 0 THEN ToChar(buf, ToNul(buf, 1)) ELSE ToNul(buf, g[i - 1]) + 1

IsSkipping(buf, argc, g) == g = [i \in 0 .. argc |-> Skipped(buf, g, i)]

Collected(buf, g, pos) ==
    IF pos > Len(buf) \/ buf[pos] = Nul THEN <<>>
    ELSE <<SubSeq(buf, pos, ToNul(buf, pos) - 1)>> \o g[ToNul(buf, pos) + 1]

IsCollecting(buf, argc, g) == g = [pos \in 1 .. Len(buf) + argc + 2 |-> Collected(buf, g, pos)]

(***************************************************************************)
(* parseProcargs skips the arguments and collects what follows.            *)
(***************************************************************************)
LEMMA ParsedByTwo ==
    ASSUME NEW args
    PROVE  parseProcargs(args) =
             (CHOOSE g : IsCollecting(args.buf, args.argc, g))
                [(CHOOSE g : IsSkipping(args.buf, args.argc, g))[args.argc]]
  BY DEF parseProcargs, parseSkipping, IsCollecting, IsSkipping, Collected, Skipped

(***************************************************************************)
(* The function by which arguments are skipped exists.                     *)
(***************************************************************************)
LEMMA SkippingExists ==
    ASSUME NEW buf, NEW l \in Nat
    PROVE  \E g : IsSkipping(buf, l, g)
<1> DEFINE RightTo(g, n) == \A i \in 0 .. l : i < n => g[i] = Skipped(buf, g, i)
           T == {n \in Nat : \E g : RightTo(g, n)}
<1>1. 0 \in T
  <2>1. RightTo(<<>>, 0)
    OBVIOUS
  <2> QED
    BY <2>1
<1>2. ASSUME NEW n \in T  PROVE n + 1 \in T
  <2>1. PICK g : RightTo(g, n)
    OBVIOUS
  <2> DEFINE h == [i \in 0 .. l |-> IF i < n THEN g[i] ELSE Skipped(buf, g, i)]
  <2>2. ASSUME NEW i \in 0 .. l, i < n + 1  PROVE h[i] = Skipped(buf, h, i)
    <3>1. h[i] = Skipped(buf, g, i)
      BY <2>1
    <3>2. i # 0 => i - 1 \in 0 .. l /\ i - 1 < n
      BY <2>2
    <3>3. i # 0 => h[i - 1] = g[i - 1]
      BY <3>2
    <3> QED
      BY <3>1, <3>3 DEF Skipped
  <2>3. RightTo(h, n + 1)
    BY <2>2
  <2>4. n + 1 \in Nat
    OBVIOUS
  <2> HIDE DEF RightTo, h
  <2> QED
    BY <2>3, <2>4
<1>3. T = Nat
  <2> HIDE DEF T
  <2>1. T \in SUBSET Nat
    BY DEF T
  <2> QED
    BY <1>1, <1>2, <2>1, Counting
<1>4. PICK g : RightTo(g, l + 1)
  <2> HIDE DEF RightTo
  <2>1. l + 1 \in T
    BY <1>3
  <2> QED
    BY <2>1
<1> DEFINE h == [i \in 0 .. l |-> g[i]]
<1>5. ASSUME NEW i \in 0 .. l  PROVE h[i] = Skipped(buf, h, i)
  <2>1. g[i] = Skipped(buf, g, i)
    BY <1>4
  <2>2. i # 0 => i - 1 \in 0 .. l
    OBVIOUS
  <2> QED
    BY <2>1, <2>2 DEF Skipped
<1>6. IsSkipping(buf, l, h)
  BY <1>5 DEF IsSkipping
<1> HIDE DEF h
<1> QED
  BY <1>6

(***************************************************************************)
(* The one that collects as well: here the last positions come first.      *)
(***************************************************************************)
LEMMA CollectingExists ==
    ASSUME NEW buf \in Seq(Nat), NEW argc \in Nat
    PROVE  \E g : IsCollecting(buf, argc, g)
<1> DEFINE l == Len(buf) + argc + 2
           RightTo(g, n) == \A pos \in 1 .. l : l < pos + n => g[pos] = Collected(buf, g, pos)
           T == {n \in Nat : \E g : RightTo(g, n)}
<1>0. l \in Nat /\ Len(buf) \in Nat /\ l >= Len(buf) + 2
  OBVIOUS
<1>7. ASSUME NEW pos \in 1 .. l, pos <= Len(buf)
      PROVE  ToNul(buf, pos) + 1 \in 1 .. l /\ ToNul(buf, pos) + 1 > pos
  <2>1. ToNul(buf, pos) \in Nat /\ ToNul(buf, pos) >= pos /\ ToNul(buf, pos) <= Len(buf) + 1
    BY <1>7, NextNul
  <2> QED
    BY <1>0, <2>1
<1> HIDE DEF l
<1>1. 0 \in T
  <2>1. RightTo(<<>>, 0)
    BY <1>0
  <2> QED
    BY <2>1
<1>2. ASSUME NEW n \in T  PROVE n + 1 \in T
  <2>1. PICK g : RightTo(g, n)
    OBVIOUS
  <2> DEFINE h == [pos \in 1 .. l |-> IF l < pos + n THEN g[pos] ELSE Collected(buf, g, pos)]
  <2>2. ASSUME NEW pos \in 1 .. l, l < pos + (n + 1)  PROVE h[pos] = Collected(buf, h, pos)
    <3>1. h[pos] = Collected(buf, g, pos)
      BY <2>1
    <3>2. CASE pos > Len(buf)
      BY <3>1, <3>2 DEF Collected
    <3>3. CASE pos <= Len(buf)
      <4>1. PICK q \in 1 .. l : q = ToNul(buf, pos) + 1 /\ q > pos
        BY <1>7, <3>3
      <4>2. l < q + n
        BY <1>0, <2>2, <4>1
      <4>3. h[q] = g[q]
        BY <4>2
      <4> HIDE DEF h
      <4> QED
        BY <3>1, <4>1, <4>3 DEF Collected
    <3> QED
      BY <1>0, <3>2, <3>3
  <2>3. RightTo(h, n + 1)
    BY <2>2
  <2>4. n + 1 \in Nat
    OBVIOUS
  <2> HIDE DEF RightTo, h
  <2> QED
    BY <2>3, <2>4
<1>3. T = Nat
  <2> HIDE DEF T
  <2>1. T \in SUBSET Nat
    BY DEF T
  <2> QED
    BY <1>1, <1>2, <2>1, Counting
<1>4. PICK g : RightTo(g, l)
  BY <1>0, <1>3
<1> DEFINE h == [pos \in 1 .. l |-> g[pos]]
<1>5. ASSUME NEW pos \in 1 .. l  PROVE h[pos] = Collected(buf, h, pos)
  <2>1. g[pos] = Collected(buf, g, pos) /\ h[pos] = g[pos]
    BY <1>0, <1>4
  <2>2. CASE pos > Len(buf)
    BY <2>1, <2>2 DEF Collected
  <2>3. CASE pos <= Len(buf)
    <3>1. PICK q \in 1 .. l : q = ToNul(buf, pos) + 1
      BY <1>7, <2>3
    <3>2. h[q] = g[q]
      OBVIOUS
    <3> HIDE DEF h
    <3> QED
      BY <2>1, <3>1, <3>2 DEF Collected
  <2> QED
    BY <1>0, <2>2, <2>3
<1>6. IsCollecting(buf, argc, h)
  BY <1>5 DEF IsCollecting, l
<1> HIDE DEF h
<1> QED
  BY <1>6

(***************************************************************************)
(* Skipping argc strings from string k on leads to string k + argc, or     *)
(* past the end.                                                           *)
(***************************************************************************)
LEMMA StringsSkipped ==
    ASSUME NEW strings \in Seq(Strings), NEW buf, NEW off, Laid(buf, strings, off),
           NEW k \in 0 .. Len(strings), ToChar(buf, ToNul(buf, 1)) = off[k] + 1,
           NEW argc \in Nat, NEW g, IsSkipping(buf, argc, g)
    PROVE  /\ g[argc] \in 1 .. Len(buf) + argc + 2
           /\ IF k + argc <= Len(strings) THEN g[argc] = off[k + argc] + 1 ELSE g[argc] > Len(buf)
<1> DEFINE N == Len(strings)
           At(i) == /\ g[i] \in Nat /\ g[i] >= 1 /\ g[i] <= Len(buf) + 1 + i
                    /\ IF k + i <= N THEN g[i] = off[k + i] + 1 ELSE g[i] > Len(buf)
           T == {i \in Nat : i <= argc => At(i)}
<1>1. /\ buf \in Seq(Nat) /\ Len(buf) \in Nat /\ N \in Nat /\ k \in Nat /\ k <= N
      /\ off \in [0 .. N -> Nat] /\ Len(buf) = off[N]
      /\ \A n \in 1 .. N : Placed(buf, strings, off, n)
  BY DEF Laid
<1>2. \A n \in 0 .. N : off[n] \in Nat /\ off[n] <= Len(buf)
  <2> SUFFICES ASSUME NEW n \in 0 .. N PROVE off[n] <= Len(buf)
    BY <1>1
  <2>1. CASE n = 0
    BY <2>1, <1>1 DEF Laid
  <2>2. CASE n # 0
    <3>1. n \in 1 .. N
      BY <1>1, <2>2
    <3> QED
      BY <1>1, <3>1 DEF Placed
  <2> QED
    BY <2>1, <2>2
<1>3. \A i \in 0 .. argc : g[i] = IF i = 0 THEN off[k] + 1 ELSE ToNul(buf, g[i - 1]) + 1
  BY DEF IsSkipping, Skipped
<1> HIDE DEF N
<1>4. 0 \in T
  <2>1. g[0] = off[k] + 1 /\ off[k] \in Nat /\ off[k] <= Len(buf) /\ k + 0 = k
    BY <1>1, <1>2, <1>3
  <2> QED
    BY <1>1, <2>1
<1>5. ASSUME NEW i \in T  PROVE i + 1 \in T
  <2>1. PICK j \in Nat : j = i + 1
    OBVIOUS
  <2>2. CASE j <= argc
    <3>1. i \in Nat /\ At(i) /\ j - 1 = i /\ j # 0 /\ j \in 0 .. argc
      BY <2>1, <2>2
    <3>2. g[j] = ToNul(buf, g[i]) + 1
      BY <1>3, <3>1
    <3>3. CASE k + j <= N
      <4>1. PICK n \in 1 .. N : n = k + j /\ n - 1 = k + i /\ k + i <= N
        BY <1>1, <2>1, <3>1, <3>3
      <4>2. ToNul(buf, g[i]) = off[n] /\ off[n] \in Nat /\ off[n] <= Len(buf)
        <5>1. g[i] = off[n - 1] + 1
          BY <3>1, <4>1
        <5> QED
          BY <4>1, <5>1, StringFound DEF N
      <4>3. g[j] = off[n] + 1
        BY <3>2, <4>2
      <4>5. \A a, b \in Nat : a <= b => a + 1 \in Nat /\ a + 1 >= 1 /\ a + 1 <= b + 1 + j
        OBVIOUS
      <4>6. g[j] \in Nat /\ g[j] >= 1 /\ g[j] <= Len(buf) + 1 + j
        BY <1>1, <4>2, <4>3, <4>5
      <4>4. At(j)
        BY <3>3, <4>1, <4>3, <4>6
      <4> HIDE DEF At
      <4> QED
        BY <2>1, <4>4
    <3>4. CASE ~(k + j <= N)
      <4>1. g[i] > Len(buf)
        <5>1. CASE k + i <= N
          <6>1. k + i = N
            BY <1>1, <2>1, <3>1, <3>4, <5>1
          <6>2. g[i] = Len(buf) + 1
            BY <1>1, <3>1, <5>1, <6>1
          <6> QED
            BY <1>1, <6>2
        <5>2. CASE ~(k + i <= N)
          BY <3>1, <5>2
        <5> QED
          BY <5>1, <5>2
      <4>2. ToNul(buf, g[i]) = g[i]
        BY <1>1, <3>1, <4>1, NextNul
      <4>3. g[j] = g[i] + 1
        BY <3>2, <4>2
      <4>4. At(j)
        BY <1>1, <2>1, <3>1, <3>4, <4>1, <4>3
      <4> HIDE DEF At
      <4> QED
        BY <2>1, <4>4
    <3> QED
      BY <3>3, <3>4
  <2>3. CASE ~(j <= argc)
    BY <2>1, <2>3
  <2> QED
    BY <2>2, <2>3
<1>6. T = Nat
  <2> HIDE DEF T
  <2>1. T \in SUBSET Nat
    BY DEF T
  <2> QED
    BY <1>4, <1>5, <2>1, Counting
<1>7. At(argc)
  <2> HIDE DEF At
  <2> QED
    BY <1>6
<1> QED
  BY <1>1, <1>7 DEF N

(***************************************************************************)
(* Collecting from entry e + 1 of the environment on gives entries of it;  *)
(* all that are left, when none is empty.                                  *)
(***************************************************************************)
LEMMA EntriesCollected ==
    ASSUME NEW argv \in Seq(Strings), NEW env \in Seq(Strings), NEW buf, NEW off,
           Laid(buf, argv \o env, off), NEW g, IsCollecting(buf, Len(argv), g),
           NEW e \in 0 .. Len(env)
    PROVE  LET out == g[off[Len(argv) + e] + 1]
           IN  /\ out \in Seq(ToSet(env))
               /\ (\A n \in 1 .. Len(env) : env[n] # <<>>) =>
                    Len(out) = Len(env) - e /\ \A i \in 1 .. Len(env) - e : out[i] = env[e + i]
<1> DEFINE K == Len(argv)
           E == Len(env)
           Full == \A n \in 1 .. E : env[n] # <<>>
           Out(x) == g[off[K + x] + 1]
           Good(x) == /\ Out(x) \in Seq(ToSet(env))
                      /\ Full => Len(Out(x)) = E - x /\ \A i \in 1 .. E - x : Out(x)[i] = env[x + i]
           T == {d \in Nat : \A x \in 0 .. E : x + d = E => Good(x)}
<1>0. PICK strings : strings = argv \o env
  OBVIOUS
<1>1. /\ K \in Nat /\ E \in Nat /\ strings \in Seq(Strings) /\ Len(strings) = K + E
      /\ \A i \in 1 .. E : strings[K + i] = env[i]
  BY <1>0, Joined
<1>2. /\ buf \in Seq(Nat) /\ Len(buf) \in Nat /\ Len(buf) = off[K + E]
      /\ \A n \in 0 .. K + E : off[n] \in Nat
  <2>1. Laid(buf, strings, off)
    BY <1>0
  <2>2. buf \in Seq(Nat) /\ Len(buf) = off[Len(strings)] /\ off \in [0 .. Len(strings) -> Nat]
    BY <2>1 DEF Laid
  <2> QED
    BY <1>1, <2>2
<1>3. \A pos \in 1 .. Len(buf) + K + 2 : g[pos] = Collected(buf, g, pos)
  BY DEF IsCollecting
<1>4. \A i \in 1 .. E : env[i] \in ToSet(env)
  BY DEF ToSet
<1>5. Laid(buf, strings, off)
  BY <1>0
<1> HIDE DEF K, E
<1>6. 0 \in T
  <2> SUFFICES ASSUME NEW x \in 0 .. E, x + 0 = E PROVE Good(x)
    OBVIOUS
  <2>4. x = E /\ off[K + x] = Len(buf)
    BY <1>1, <1>2
  <2>1. PICK pos \in 1 .. Len(buf) + K + 2 : pos = off[K + x] + 1 /\ pos > Len(buf)
    <3>1. \A l, k \in Nat : l + 1 \in 1 .. l + k + 2 /\ l + 1 > l
      OBVIOUS
    <3> QED
      BY <1>1, <1>2, <2>4, <3>1
  <2>2. Out(x) = <<>>
    BY <1>3, <2>1 DEF Collected
  <2>3. E - x = 0
    BY <1>1, <2>4
  <2> QED
    BY <2>2, <2>3
<1>7. ASSUME NEW d \in T  PROVE d + 1 \in T
  <2>1. ASSUME NEW x \in 0 .. E, x + (d + 1) = E  PROVE Good(x)
    <3>1. PICK y \in 0 .. E : y = x + 1 /\ y \in 1 .. E
      BY <1>1, <2>1
    <3>2. y + d = E /\ x \in Nat /\ d \in Nat
      BY <2>1, <3>1
    <3>3. Good(y)
      <4> HIDE DEF Good
      <4> QED
        BY <3>2
    <3>4. PICK n \in 1 .. K + E : n = K + y /\ n - 1 = K + x
      BY <1>1, <3>1, <3>2
    <3>5. strings[n] = env[y]
      BY <1>1, <3>1, <3>4
    <3>6. /\ off[K + x] \in Nat /\ off[n] \in Nat /\ Len(strings[n]) \in Nat
          /\ off[n] = off[K + x] + Len(strings[n]) + 1 /\ off[n] <= Len(buf)
          /\ buf[off[K + x] + 1] = Nul <=> strings[n] = <<>>
          /\ ToNul(buf, off[K + x] + 1) = off[n]
          /\ SubSeq(buf, off[K + x] + 1, off[n] - 1) = strings[n]
      <4>0. strings \in Seq(Strings)
        BY <1>1
      <4>1. n \in 1 .. Len(strings)
        BY <1>1
      <4>2. /\ off[n - 1] \in Nat /\ off[n] \in Nat /\ Len(strings[n]) \in Nat
            /\ off[n] = off[n - 1] + Len(strings[n]) + 1 /\ off[n] <= Len(buf)
            /\ buf[off[n - 1] + 1] = Nul <=> strings[n] = <<>>
            /\ ToNul(buf, off[n - 1] + 1) = off[n]
            /\ SubSeq(buf, off[n - 1] + 1, off[n] - 1) = strings[n]
        BY <1>5, <4>0, <4>1, StringFound
      <4> QED
        BY <3>4, <4>2
    <3>7. PICK pos \in 1 .. Len(buf) + K + 2 : pos = off[K + x] + 1 /\ pos <= Len(buf)
      <4>1. \A a, l, b, c, t \in Nat : b = a + l + 1 /\ b <= c => a + 1 \in 1 .. c + t + 2 /\ a + 1 <= c
        OBVIOUS
      <4> QED
        BY <1>1, <1>2, <3>6, <4>1
    <3>8. Out(x) = IF buf[pos] = Nul THEN <<>> ELSE <<SubSeq(buf, pos, off[n] - 1)>> \o g[off[n] + 1]
      <4>1. Out(x) = Collected(buf, g, pos) /\ ToNul(buf, pos) = off[n]
        BY <1>3, <3>6, <3>7
      <4>2. ~(pos > Len(buf))
        BY <1>2, <3>7
      <4> QED
        BY <4>1, <4>2 DEF Collected
    <3>9. Out(x) = IF env[y] = <<>> THEN <<>> ELSE <<env[y]>> \o Out(y)
      <4> HIDE DEF Good
      <4> QED
        BY <3>4, <3>5, <3>6, <3>7, <3>8
    <3> DEFINE rest == Out(y)
               all  == Out(x)
    <3>10. /\ rest \in Seq(ToSet(env))
           /\ Full => Len(rest) = E - y /\ \A i \in 1 .. E - y : rest[i] = env[y + i]
      BY <3>3
    <3>11. all = IF env[y] = <<>> THEN <<>> ELSE <<env[y]>> \o rest
      BY <3>9
    <3>12. env[y] \in ToSet(env)
      BY <1>4, <3>1
    <3> HIDE DEF rest, all, Full
    <3>13. all \in Seq(ToSet(env))
      <4>1. <<env[y]>> \o rest \in Seq(ToSet(env))
        BY <3>10, <3>12
      <4>2. <<>> \in Seq(ToSet(env))
        OBVIOUS
      <4> QED
        BY <3>11, <4>1, <4>2
    <3>14. ASSUME Full  PROVE Len(all) = E - x /\ \A i \in 1 .. E - x : all[i] = env[x + i]
      <4>1. all = <<env[y]>> \o rest /\ Len(rest) = E - y /\ rest \in Seq(ToSet(env))
        BY <3>1, <3>10, <3>11, <3>14 DEF Full
      <4>2. <<env[y]>> \in Seq(ToSet(env)) /\ Len(<<env[y]>>) = 1
        BY <3>12
      <4>3. /\ Len(all) = 1 + Len(rest)
            /\ all[1] = env[y]
            /\ \A i \in 1 .. Len(rest) : all[1 + i] = rest[i]
        BY <4>1, <4>2, Joined
      <4>4. Len(all) = E - x
        BY <1>1, <3>1, <3>2, <4>1, <4>3
      <4>5. ASSUME NEW i \in 1 .. E - x  PROVE all[i] = env[x + i]
        <5>1. CASE i = 1
          BY <3>1, <4>3, <5>1
        <5>2. CASE i # 1
          <6>1. PICK j \in 1 .. E - y : i = 1 + j /\ x + i = y + j
            <7>1. i - 1 \in 1 .. E - y /\ i = 1 + (i - 1) /\ x + i = y + (i - 1)
              BY <1>1, <3>1, <3>2, <5>2
            <7> QED
              BY <7>1
          <6>2. all[1 + j] = rest[j] /\ rest[j] = env[y + j]
            BY <3>10, <3>14, <4>1, <4>3
          <6> QED
            BY <6>1, <6>2
        <5> QED
          BY <5>1, <5>2
      <4> QED
        BY <4>4, <4>5
    <3> QED
      BY <3>13, <3>14 DEF all
  <2>2. d + 1 \in Nat
    OBVIOUS
  <2> HIDE DEF Good
  <2> QED
    BY <2>1, <2>2
<1>8. T = Nat
  <2> HIDE DEF T
  <2>1. T \in SUBSET Nat
    BY DEF T
  <2> QED
    BY <1>6, <1>7, <2>1, Counting
<1>9. e \in 0 .. E
  BY DEF E
<1>10. Good(e)
  <2>1. PICK d \in Nat : e + d = E
    <3>1. E - e \in Nat /\ e + (E - e) = E
      BY <1>1, <1>9
    <3> QED
      BY <3>1
  <2> HIDE DEF Good
  <2>2. d \in T
    BY <1>8
  <2> QED
    BY <1>9, <2>1, <2>2
<1> QED
  BY <1>10 DEF K, E

(***************************************************************************)
(* The environment of every image is read as it may be: whole or not at    *)
(* all, or as far as an empty first argument and an empty entry leave it.  *)
(***************************************************************************)
LEMMA EnvironmentIsRead ==
    ASSUME NEW image \in Images, NEW args \in Procargs(image)
    PROVE  ReadAs(image, parseProcargs(args))
<1>1. PICK argv \in Seq(Strings), env \in Seq(Strings) :
         /\ argv = image.argv /\ argv # <<>>
         /\ env \in {image.env, <<>>} /\ image.env \in Seq(Strings)
         /\ args = [argc |-> Len(argv), buf |-> <<1, Nul, Nul>> \o Terminated(argv \o env)]
  <2>1. <<>> \in Seq(Strings)
    OBVIOUS
  <2> QED
    BY <2>1, InspectorConstants DEF Procargs
<1>2. PICK strings : strings = argv \o env
  OBVIOUS
<1>3. PICK K \in Nat, E \in Nat : /\ K = Len(argv) /\ E = Len(env) /\ K > 0
                                  /\ strings \in Seq(Strings) /\ Len(strings) = K + E
                                  /\ \A i \in 1 .. K : strings[i] = argv[i]
  <2>1. argv \in Seq(Strings) /\ env \in Seq(Strings)
    OBVIOUS
  <2>2. Len(argv) \in Nat /\ Len(env) \in Nat /\ Len(argv) > 0
    BY <1>1
  <2>3. /\ argv \o env \in Seq(Strings) /\ Len(argv \o env) = Len(argv) + Len(env)
        /\ \A i \in 1 .. Len(argv) : (argv \o env)[i] = argv[i]
    BY <2>1, Joined
  <2> QED
    BY <1>2, <2>2, <2>3
<1>4. PICK buf : buf = <<1, Nul, Nul>> \o Terminated(strings)
  OBVIOUS
<1>5. args.argc = K /\ args.buf = buf
  BY <1>1, <1>2, <1>3, <1>4
<1>6. PICK off : Laid(buf, strings, off)
  BY <1>3, <1>4, BufferIsLaid
<1>7. buf \in Seq(Nat) /\ Len(buf) \in Nat
  BY <1>6 DEF Laid
<1>8. PICK k \in 0 .. Len(strings) : /\ ToChar(buf, ToNul(buf, 1)) = off[k] + 1
                                     /\ Len(strings) > 0 /\ strings[1] # <<>> => k = 0
  BY <1>3, <1>6, PaddingEnds
<1>9. PICK h : IsSkipping(buf, K, h) /\ h = CHOOSE x : IsSkipping(buf, K, x)
  BY SkippingExists
<1>10. PICK g : IsCollecting(buf, K, g) /\ g = CHOOSE x : IsCollecting(buf, K, x)
  BY <1>7, CollectingExists
<1>11. parseProcargs(args) = g[h[K]]
  BY <1>5, <1>9, <1>10, ParsedByTwo
<1>12. /\ h[K] \in 1 .. Len(buf) + K + 2
       /\ IF k + K <= K + E THEN h[K] = off[k + K] + 1 ELSE h[K] > Len(buf)
  <2>1. strings \in Seq(Strings) /\ Len(strings) = K + E
    BY <1>3
  <2>2. ToChar(buf, ToNul(buf, 1)) = off[k] + 1 /\ IsSkipping(buf, K, h)
    BY <1>8, <1>9
  <2>3. /\ h[K] \in 1 .. Len(buf) + K + 2
        /\ IF k + K <= Len(strings) THEN h[K] = off[k + K] + 1 ELSE h[K] > Len(buf)
    BY <1>6, <2>1, <2>2, StringsSkipped
  <2> QED
    BY <2>1, <2>3
<1>13. Plain(image) => k = 0
  <2>1. Plain(image) => strings[1] # <<>>
    <3>1. strings[1] = argv[1]
      BY <1>3
    <3> QED
      BY <1>1, <3>1 DEF Plain
  <2>2. Len(strings) > 0
    BY <1>3
  <2> QED
    BY <1>8, <2>1, <2>2
<1>14. CASE k + K <= K + E
  <2>1. k \in 0 .. Len(env) /\ k + K = Len(argv) + k
    BY <1>3, <1>8, <1>14
  <2>2. h[K] = off[Len(argv) + k] + 1
    BY <1>12, <1>14, <2>1
  <2>3. Laid(buf, argv \o env, off) /\ IsCollecting(buf, Len(argv), g)
    BY <1>2, <1>3, <1>6, <1>10
  <2>4. PICK out : out = g[h[K]]
    OBVIOUS
  <2>5. /\ out \in Seq(ToSet(env))
        /\ (\A n \in 1 .. Len(env) : env[n] # <<>>) =>
             Len(out) = Len(env) - k /\ \A i \in 1 .. Len(env) - k : out[i] = env[k + i]
    <3>1. argv \in Seq(Strings) /\ env \in Seq(Strings)
      OBVIOUS
    <3>2. out = g[off[Len(argv) + k] + 1]
      BY <2>2, <2>4
    <3>3. k \in 0 .. Len(env) /\ Laid(buf, argv \o env, off) /\ IsCollecting(buf, Len(argv), g)
      BY <2>1, <2>3
    <3>4. LET o == g[off[Len(argv) + k] + 1]
          IN  /\ o \in Seq(ToSet(env))
              /\ (\A n \in 1 .. Len(env) : env[n] # <<>>) =>
                   Len(o) = Len(env) - k /\ \A i \in 1 .. Len(env) - k : o[i] = env[k + i]
      BY <3>1, <3>3, EntriesCollected
    <3> QED
      BY <3>2, <3>4
  <2>6. CASE Plain(image)
    <3>1. \A n \in 1 .. Len(env) : env[n] # <<>>
      <4>1. \A n \in DOMAIN image.env : image.env[n] # <<>>
        BY <2>6 DEF Plain
      <4>2. DOMAIN env = 1 .. Len(env) /\ DOMAIN <<>> = {}
        OBVIOUS
      <4> QED
        BY <1>1, <4>1, <4>2
    <3>2. k = 0 /\ Len(env) - k = Len(env) /\ \A i \in 1 .. Len(env) : k + i = i
      BY <1>3, <1>13, <2>6
    <3>3. Len(out) = Len(env) /\ \A i \in 1 .. Len(env) : out[i] = env[i]
      BY <2>5, <3>1, <3>2
    <3>4. out = env
      BY <2>5, <3>3
    <3> QED
      BY <1>1, <1>11, <2>4, <2>6, <3>4 DEF ReadAs
  <2>7. CASE ~Plain(image)
    <3>1. \A n \in DOMAIN out : out[n] \in ToSet(image.env)
      <4>1. \A n \in DOMAIN out : out[n] \in ToSet(env)
        BY <2>5
      <4>2. ToSet(env) \subseteq ToSet(image.env)
        BY <1>1 DEF ToSet
      <4> QED
        BY <4>1, <4>2
    <3> QED
      BY <1>1, <1>11, <2>4, <2>7, <3>1 DEF ReadAs
  <2> QED
    BY <2>6, <2>7
<1>15. CASE ~(k + K <= K + E)
  <2>1. h[K] > Len(buf)
    BY <1>12, <1>15
  <2>2. g[h[K]] = <<>>
    BY <1>10, <1>12, <2>1 DEF IsCollecting, Collected
  <2>3. k # 0
    BY <1>3, <1>15
  <2> QED
    BY <1>11, <1>13, <2>2, <2>3 DEF ReadAs
<1> QED
  BY <1>14, <1>15

-----------------------------------------------------------------------------
(* What an inspection has filled in                                         *)

\* The processes that had the pid during the calls.
Was == {seen[n][target] : n \in DOMAIN seen} \ {NoProcess}

Inspected == pc = "done" /\ result = <<"inspector", "nil">>

BornTrue == \E x \in Was : info.born = x.born
ArgvTrue == info.argv = <<>> \/ \E x \in Was : info.argv \in {x.image.argv, splitCmdline(x.image.argv)}
CwdTrue  == info.cwd = NoCwd \/ \E x \in Was : info.cwd = x.image.cwd
UserTrue == \E x \in Was : info.user = x.user
EnvTrue  == \E x \in Was : IF x.user = Me THEN ReadAs(x.image, info.env) ELSE info.env = <<>>

FilledInv ==
    /\ (pc \in Inspecting \ {"new"} \/ Inspected) => BornTrue
    /\ (pc \in {"cwd", "start", "uids", "env"} \/ Inspected) => ArgvTrue
    /\ pc = "cmdline" => info.argv \in {Failed, <<>>}
    /\ (pc \in {"start", "uids", "env"} \/ Inspected) => CwdTrue
    /\ (pc = "env" \/ Inspected) => UserTrue
    /\ Inspected => EnvTrue

(***************************************************************************)
(* A field keeps its truth while the history grows.                        *)
(***************************************************************************)
LEMMA TrueLater ==
    ASSUME Remembers, UNCHANGED <<target, info>>
    PROVE  /\ BornTrue => BornTrue'
           /\ ArgvTrue => ArgvTrue'
           /\ CwdTrue => CwdTrue'
           /\ UserTrue => UserTrue'
           /\ EnvTrue => EnvTrue'
<1>1. \A x \in Was : x \in Was'
  BY DEF Was, Remembers
<1> QED
  BY <1>1 DEF BornTrue, ArgvTrue, CwdTrue, UserTrue, EnvTrue

(***************************************************************************)
(* One system call fills one field in, of the process that has the pid     *)
(* at that moment.                                                         *)
(***************************************************************************)
LEMMA FilledInductive ==
    ASSUME HistoryInv, PlaceInv, InfoShape, FilledInv, [Next]_vars
    PROVE  FilledInv'
<1>1. CASE Remembers /\ UNCHANGED <<pc, result, target, info>>
  BY <1>1, TrueLater DEF FilledInv, Inspected
<1>2. CASE /\ pc' \notin Inspecting \ {"new"}
           /\ ~(pc' = "done" /\ result' = <<"inspector", "nil">>)
  BY <1>2 DEF FilledInv, Inspected, Inspecting
<1>3. CASE BeginInspect
  BY <1>2, <1>3 DEF BeginInspect, Goto
<1> SUFFICES ASSUME ~BeginInspect PROVE FilledInv'
  BY <1>3
<1>4. Remembers
  BY HistoryInductive
<1>5. ASSUME NEW who, Fail(who)  PROVE FilledInv'
  BY <1>2, <1>5 DEF Fail, Inspecting
<1>6. \A from : Error(from) => FilledInv'
  BY <1>5 DEF Error
<1>7. table[target] # NoProcess => table[target] \in Was
  BY PresentTable DEF Was
<1>8. Mine(target) => table[target] # NoProcess
  BY DEF Mine
<1>9. \A x \in Was : x \in Was' \/ target' # target
  BY <1>4 DEF Was, Remembers
<1>10. CASE NewProcess
  <2>1. CASE Filling("new", "argv", "born", table[target].born) /\ ~Gone
    <3>1. pc' = "argv" /\ info'.born = table[target].born /\ target' = target
      BY <2>1 DEF Filling, Goto, InfoShape
    <3>2. BornTrue'
      BY <1>7, <1>9, <2>1, <3>1 DEF BornTrue, Gone
    <3> QED
      BY <3>1, <3>2 DEF FilledInv, Inspected
  <2> QED
    BY <1>6, <1>10, <2>1 DEF NewProcess
<1>11. CASE ReadArgv
  <2>1. ASSUME NEW to, NEW val, Filling("argv", to, "argv", val)
        PROVE  /\ pc' = to /\ info'.argv = val /\ info'.born = info.born /\ target' = target
               /\ BornTrue'
    <3>1. pc = "argv" /\ pc' = to /\ info'.argv = val /\ info'.born = info.born /\ target' = target
      BY <2>1 DEF Filling, Goto, InfoShape
    <3>2. BornTrue
      BY <3>1 DEF FilledInv, Inspecting
    <3> QED
      BY <1>9, <3>1, <3>2 DEF BornTrue
  <2>2. CASE Mine(target) /\ Filling("argv", "cwd", "argv", table[target].image.argv)
    <3>1. ArgvTrue'
      BY <1>7, <1>8, <1>9, <2>1, <2>2 DEF ArgvTrue
    <3> QED
      BY <2>1, <2>2, <3>1 DEF FilledInv, Inspected
  <2>3. ASSUME NEW none \in {Failed, <<>>}, Filling("argv", "cmdline", "argv", none)  PROVE FilledInv'
    BY <2>1, <2>3 DEF FilledInv, Inspected
  <2> QED
    BY <1>11, <2>2, <2>3 DEF ReadArgv
<1>12. CASE ReadCmdline
  <2>1. ASSUME NEW val, Filling("cmdline", "cwd", "argv", val)
        PROVE  pc' = "cwd" /\ info'.argv = val /\ target' = target /\ BornTrue'
    <3>1. /\ pc = "cmdline" /\ pc' = "cwd" /\ info'.argv = val /\ info'.born = info.born
          /\ target' = target
      BY <2>1 DEF Filling, Goto, InfoShape
    <3>2. BornTrue
      BY <3>1 DEF FilledInv, Inspecting
    <3> QED
      BY <1>9, <3>1, <3>2 DEF BornTrue
  <2>2. CASE /\ Mine(target)
             /\ Filling("cmdline", "cwd", "argv", splitCmdline(table[target].image.argv))
    <3>1. ArgvTrue'
      BY <1>7, <1>8, <1>9, <2>1, <2>2 DEF ArgvTrue
    <3> QED
      BY <2>1, <2>2, <3>1 DEF FilledInv, Inspected
  <2>3. CASE Filling("cmdline", "cwd", "argv", <<>>)
    <3>1. ArgvTrue'
      BY <2>1, <2>3 DEF ArgvTrue
    <3> QED
      BY <2>1, <2>3, <3>1 DEF FilledInv, Inspected
  <2> QED
    BY <1>6, <1>12, <2>2, <2>3 DEF ReadCmdline
<1>13. CASE ReadCwd
  <2>1. ASSUME NEW val, Filling("cwd", "start", "cwd", val)
        PROVE  pc' = "start" /\ info'.cwd = val /\ target' = target /\ BornTrue' /\ ArgvTrue'
    <3>1. /\ pc = "cwd" /\ pc' = "start" /\ info'.cwd = val /\ info'.born = info.born
          /\ info'.argv = info.argv /\ target' = target
      BY <2>1 DEF Filling, Goto, InfoShape
    <3>2. BornTrue /\ ArgvTrue
      BY <3>1 DEF FilledInv, Inspecting
    <3> QED
      BY <1>9, <3>1, <3>2 DEF BornTrue, ArgvTrue
  <2>2. CASE Mine(target) /\ Filling("cwd", "start", "cwd", table[target].image.cwd)
    <3>1. CwdTrue'
      BY <1>7, <1>8, <1>9, <2>1, <2>2 DEF CwdTrue
    <3> QED
      BY <2>1, <2>2, <3>1 DEF FilledInv, Inspected
  <2>3. CASE Filling("cwd", "start", "cwd", NoCwd)
    <3>1. CwdTrue'
      BY <2>1, <2>3 DEF CwdTrue
    <3> QED
      BY <2>1, <2>3, <3>1 DEF FilledInv, Inspected
  <2> QED
    BY <1>6, <1>13, <2>2, <2>3 DEF ReadCwd
<1>14. CASE ReadStart
  <2>1. ASSUME NEW val, Filling("start", "uids", "born", val), \E x \in Was : val = x.born
        PROVE  FilledInv'
    <3>1. /\ pc = "start" /\ pc' = "uids" /\ info'.born = val /\ info'.cwd = info.cwd
          /\ info'.argv = info.argv /\ target' = target
      BY <2>1 DEF Filling, Goto, InfoShape
    <3>2. ArgvTrue /\ CwdTrue
      BY <3>1 DEF FilledInv
    <3>3. BornTrue' /\ ArgvTrue' /\ CwdTrue'
      BY <1>9, <2>1, <3>1, <3>2 DEF BornTrue, ArgvTrue, CwdTrue
    <3> QED
      BY <3>1, <3>3 DEF FilledInv, Inspected
  <2>2. CASE Filling("start", "uids", "born", info.born)
    <3>1. BornTrue
      BY <2>2 DEF Filling, Goto, FilledInv, Inspecting
    <3> QED
      BY <2>1, <2>2, <3>1 DEF BornTrue
  <2>3. CASE ~Gone /\ Filling("start", "uids", "born", table[target].born)
    BY <1>7, <2>1, <2>3 DEF Gone
  <2> QED
    BY <1>6, <1>14, <2>2, <2>3 DEF ReadStart
<1>15. CASE ReadUids
  <2>1. CASE ~Gone /\ Filling("uids", "env", "user", table[target].user)
    <3>1. /\ pc = "uids" /\ pc' = "env" /\ info'.user = table[target].user /\ info'.cwd = info.cwd
          /\ info'.argv = info.argv /\ info'.born = info.born /\ target' = target
      BY <2>1 DEF Filling, Goto, InfoShape
    <3>2. BornTrue /\ ArgvTrue /\ CwdTrue
      BY <3>1 DEF FilledInv, Inspecting
    <3>3. BornTrue' /\ ArgvTrue' /\ CwdTrue'
      BY <1>9, <3>1, <3>2 DEF BornTrue, ArgvTrue, CwdTrue
    <3>4. UserTrue'
      BY <1>7, <1>9, <2>1, <3>1 DEF UserTrue, Gone
    <3> QED
      BY <3>1, <3>3, <3>4 DEF FilledInv, Inspected
  <2> QED
    BY <1>6, <1>15, <2>1 DEF ReadUids
<1>16. CASE ReadEnv
  <2>1. ASSUME NEW val, Filling("env", "done", "env", val), ~Gone,
               IF table[target].user = Me THEN ReadAs(table[target].image, val) ELSE val = <<>>
        PROVE  FilledInv'
    <3>1. /\ pc = "env" /\ pc' = "done" /\ info'.env = val /\ info'.user = info.user
          /\ info'.cwd = info.cwd /\ info'.argv = info.argv /\ info'.born = info.born
          /\ target' = target
      BY <2>1 DEF Filling, Goto, InfoShape
    <3>2. BornTrue /\ ArgvTrue /\ CwdTrue /\ UserTrue
      BY <3>1 DEF FilledInv, Inspecting
    <3>3. BornTrue' /\ ArgvTrue' /\ CwdTrue' /\ UserTrue'
      BY <1>9, <3>1, <3>2 DEF BornTrue, ArgvTrue, CwdTrue, UserTrue
    <3>4. table[target] \in Was'
      BY <1>7, <1>9, <2>1, <3>1 DEF Gone
    <3>5. EnvTrue'
      BY <2>1, <3>1, <3>4 DEF EnvTrue
    <3> QED
      BY <3>1, <3>3, <3>5 DEF FilledInv, Inspected, Inspecting
  <2>2. CASE ~Mine(target) /\ ~Gone /\ Filling("env", "done", "env", <<>>)
    BY <2>1, <2>2 DEF Mine, Gone
  <2>3. CASE /\ Mine(target) /\ ~Gone
             /\ \E args \in Procargs(table[target].image) :
                  Filling("env", "done", "env", parseProcargs(args))
    <3>1. table[target].image \in Images
      BY <1>8, <2>3, PresentTable, ProcessShape DEF InfoShape
    <3>2. PICK args \in Procargs(table[target].image) :
             Filling("env", "done", "env", parseProcargs(args))
      BY <2>3
    <3> QED
      BY <2>1, <2>3, <3>1, <3>2, EnvironmentIsRead DEF Mine
  <2> QED
    BY <1>6, <1>16, <2>2, <2>3 DEF ReadEnv
<1>17. CASE Inspect
  BY <1>10, <1>11, <1>12, <1>13, <1>14, <1>15, <1>16, <1>17 DEF Inspect
<1>18. CASE UNCHANGED vars
  BY <1>1, <1>4, <1>18 DEF vars, scanVars, insVars
<1>19. CASE (Change \/ Expire) /\ UNCHANGED insVars
  BY <1>1, <1>4, <1>19 DEF Change, Expire, insVars
<1>20. CASE BeginLibproc \/ ListSize \/ ListFill \/ BeginLsof
  BY <1>2, <1>5, <1>20 DEF BeginLibproc, ListSize, ListFill, BeginLsof, Goto, Inspecting
<1>21. CASE NextPid \/ FdSize \/ FdFill \/ NextFd \/ EndLibproc \/ Probe \/ EndLsof
  <2>1. result = <<"libproc", "nil">> \/ result = <<"lsof", "nil">>
    BY <1>21 DEF NextPid, FdSize, FdFill, NextFd, EndLibproc, Probe, EndLsof, Goto, Walking, PlaceInv
  <2>2. /\ pc' \notin Inspecting
        /\ result' = result \/ \E who : Fail(who)
    BY <1>21 DEF NextPid, FdSize, FdFill, NextFd, EndLibproc, Probe, EndLsof, Goto, Fail, walkVars,
                Inspecting
  <2>3. <<"libproc", "nil">> # <<"inspector", "nil">> /\ <<"lsof", "nil">> # <<"inspector", "nil">>
    OBVIOUS
  <2> QED
    BY <1>2, <1>5, <2>1, <2>2, <2>3
<1> QED
  BY <1>17, <1>18, <1>19, <1>20, <1>21 DEF Next, ScanNext

(***************************************************************************)
(* An inspection tells the truth of every field: whatever happens to the   *)
(* pid between its system calls, each field is that of a process that had  *)
(* the pid meanwhile; of a buffer with the environment parseProcargs       *)
(* returns all of it, of one without it (macOS 26) none, and of neither    *)
(* an argument in its place.                                               *)
(***************************************************************************)
THEOREM InspectionsAreTrue == Spec => []InspectionIsTrue
<1>1. Init => FilledInv
  BY DEF Init, ScanInit, FilledInv, Inspected, Inspecting
<1>2. ScanInv /\ FilledInv /\ [Next]_vars => FilledInv'
  BY FilledInductive DEF ScanInv
<1>3. FilledInv => InspectionIsTrue
  BY DEF FilledInv, Inspected, BornTrue, ArgvTrue, CwdTrue, UserTrue, EnvTrue, Was, InspectionIsTrue
<1> QED
  BY <1>1, <1>2, <1>3, ScanInvariant, PTL DEF Spec

=============================================================================
