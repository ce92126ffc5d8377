------------------------------ MODULE Startup ------------------------------
(***************************************************************************)
(* internal/config/config.go Load, and what cmd/port-manager/main.go does  *)
(* with its result: read .env, generate the secrets it lacks, write them   *)
(* back through .env.tmp, print a generated AUTH_TOKEN, then bind the      *)
(* port.  Any file operation may fail, an instance may die between two     *)
(* steps, the machine may lose power, and a second instance may be started *)
(* beside the first: nothing before the bind keeps the two apart.          *)
(***************************************************************************)
EXTENDS Integers, Sequences, FiniteSets, SequencesExt

CONSTANTS
    Instances,     \* processes of the dashboard, running or to be started
    NoInode,       \* the name is not in the directory
    Torn,          \* a file that holds part of what was written
    NoReading,     \* godotenv.Read failed
    MaxLines,      \* bound: lines of the first .env
    MaxStarts,     \* bound: times an instance is started
    MaxStops       \* bound: deaths and power failures

ASSUME StartupConstants ==
    /\ NoInode \notin Nat
    /\ MaxLines \in Nat /\ MaxStarts \in Nat /\ MaxStops \in Nat
    /\ IsFiniteSet(Instances)

\* A value is "", too short for validate, the user's own, or generated (> Own).
Unset    == 0
TooShort == 1
Own      == 2

Secrets == {"AUTH_TOKEN", "SESSION_SECRET"}
Other   == "other"      \* every other setting, comment or blank line
Values  == 0 .. Own + 2 * MaxStarts
Inodes  == 0 .. 2 + Cardinality(Instances)

Line  == [key : Secrets \cup {Other}, export : BOOLEAN, val : Values]
ASSUME TornIsNoFile == Torn \notin Seq(Line)

Plain(key, val) == [key |-> key, export |-> FALSE, val |-> val]

\* What .env may hold before the dashboard first runs.
UserLine == [key : Secrets, export : BOOLEAN, val : {Unset, TooShort, Own}]
                \cup {Plain(Other, Own)}
FirstFiles == {<<>>} \cup UNION {[1 .. n -> UserLine] : n \in 1 .. MaxLines}

VARIABLES
    pc,            \* per instance: "off", a step of Load or run, "serving"
    cfg,           \* per instance: AuthToken and SessionSecret
    gen,           \* per instance: the secrets Load generated
    out,           \* per instance: the lines persistGenerated writes
    fd,            \* per instance: the inode its open file is
    inode,         \* contents: the lines, and whether they are synced
    env, tmp,      \* the inodes named .env and .env.tmp
    hard,          \* the inode that .env may name after a power failure
    dirSyncs,      \* whether this file system can fsync a directory
    exported,      \* the secrets in the environment that instances are started in
    first,         \* history: .env before the first start
    made,          \* how often Load generated secrets
    printed,       \* history: the tokens that banners showed
    starts, stops  \* counters for the bounds

suVars   == <<pc, cfg, gen, out, fd, inode, env, tmp, hard, dirSyncs, exported, first,
            made, printed, starts, stops>>
fileVars == <<inode, env, tmp, hard, dirSyncs, exported>>
confVars == <<cfg, gen, out, fd>>
bounds   == <<starts, stops>>

Steps == {"off", "load", "read", "open", "write", "sync", "close", "rename", "cleanup",
          "dirsync", "banner", "listen", "serving"}

NoConfig == [k \in Secrets |-> Unset]

Init ==
    /\ pc = [i \in Instances |-> "off"]
    /\ cfg = [i \in Instances |-> NoConfig]
    /\ gen = [i \in Instances |-> {}]
    /\ out = [i \in Instances |-> <<>>]
    /\ fd = [i \in Instances |-> NoInode]
    /\ first \in FirstFiles /\ dirSyncs \in BOOLEAN
    /\ exported \in {NoConfig, [NoConfig EXCEPT !["AUTH_TOKEN"] = Own]}
    /\ inode = [n \in Inodes |-> [body |-> first, synced |-> TRUE]]
    /\ env \in {0} \cup (IF first = <<>> THEN {NoInode} ELSE {})
    /\ tmp = NoInode /\ hard = env
    /\ made = 0 /\ printed = {} /\ starts = 0 /\ stops = 0

-----------------------------------------------------------------------------
(* Load *)

Goto(i, from, to) == pc[i] = from /\ pc' = [pc EXCEPT ![i] = to]

Start(i) ==
    /\ starts < MaxStarts /\ starts' = starts + 1
    /\ Goto(i, "off", "load")
    /\ UNCHANGED <<confVars, fileVars, first, made, printed, stops>>

\* godotenv.Read: the last line of a key counts; the environment, if that is empty.
\* A torn file has lost its end or does not parse.
Lookup(lines, k) ==
    LET at == {n \in DOMAIN lines : lines[n].key = k}
    IN  IF at # {} /\ lines[Max(at)].val # Unset THEN lines[Max(at)].val ELSE exported[k]

Content(n) == IF n = NoInode THEN <<>> ELSE inode[n].body
Readings(body) == IF body = Torn THEN {<<>>, NoReading} ELSE {body}

\* A secret is fresh: no two calls of crypto/rand return the same.
generateSecret(k) == Own + 2 * made + (IF k = "AUTH_TOKEN" THEN 1 ELSE 2)

\* Reading .env, the home directory, rand or a setting that does not validate may
\* fail it, a secret that is too short does: nothing is persisted yet.
Load(i) ==
    /\ \/ Goto(i, "load", "off") /\ UNCHANGED <<cfg, gen, made>>
       \/ /\ pc[i] = "load"
          /\ \E lines \in Readings(Content(env)) \ {NoReading} :
                LET missing == {k \in Secrets : Lookup(lines, k) = Unset}
                IN  /\ \A k \in Secrets : Lookup(lines, k) # TooShort
                    /\ gen' = [gen EXCEPT ![i] = missing]
                    /\ cfg' = [cfg EXCEPT ![i] = [k \in Secrets |->
                           IF k \in missing THEN generateSecret(k) ELSE Lookup(lines, k)]]
                    /\ made' = made + (IF missing = {} THEN 0 ELSE 1)
                    /\ Goto(i, "load", IF missing = {} THEN "listen" ELSE "read")
    /\ UNCHANGED <<out, fd, fileVars, first, printed, bounds>>

-----------------------------------------------------------------------------
(* persistGenerated and atomicWriteFile *)

\* (The variants beside some definitions are plausible slips; no specification
\* uses them.)  In place wherever the key stands, with its export prefix; else at the end,
\* in the order in which Go walks the map.
ReplacedOnce(lines, kv) ==
    [n \in DOMAIN lines |->
        IF lines[n].key \in DOMAIN kv /\ \A m \in 1 .. n - 1 : lines[m].key # lines[n].key
        THEN [lines[n] EXCEPT !.val = kv[lines[n].key]]
        ELSE lines[n]]

Replaced(lines, kv) ==
    [n \in DOMAIN lines |->
        IF lines[n].key \in DOMAIN kv THEN [lines[n] EXCEPT !.val = kv[lines[n].key]]
        ELSE lines[n]]

Appended(lines, kv) ==
    LET unseen == {Plain(k, kv[k]) : k \in DOMAIN kv \ {lines[n].key : n \in DOMAIN lines}}
    IN  {lines \o more : more \in SetToSeqs(unseen)}

\* The second read of .env; a torn file is taken for the lines it still has.
ReadAgain(i) ==
    /\ \/ /\ Goto(i, "read", "open")
          /\ \E lines \in Readings(Content(env)) \ {NoReading} :
                LET kv == [k \in gen[i] |-> cfg[i][k]]
                IN  \E l \in Appended(Replaced(lines, kv), kv) : out' = [out EXCEPT ![i] = l]
       \/ Goto(i, "read", "off") /\ UNCHANGED out
    /\ UNCHANGED <<cfg, gen, fd, fileVars, first, made, printed, bounds>>

Closed(i) == fd' = [fd EXCEPT ![i] = NoInode]

\* O_CREATE | O_TRUNC: a new inode, or the one another start left or still uses.
Free(n) == n \notin {env, tmp, hard} \cup {fd[j] : j \in Instances}

OpenTmp(i) ==
    /\ \/ /\ Goto(i, "open", "write")
          /\ tmp' = IF tmp = NoInode THEN CHOOSE n \in Inodes : Free(n) ELSE tmp
          /\ fd' = [fd EXCEPT ![i] = tmp']
          /\ inode' = [inode EXCEPT ![tmp'] = [body |-> <<>>, synced |-> FALSE]]
       \/ Goto(i, "open", "off") /\ UNCHANGED <<fd, inode, tmp>>
    /\ UNCHANGED <<cfg, gen, out, env, hard, dirSyncs, exported, first, made, printed, bounds>>

\* Each start writes from offset 0, and equally much: the later one's lines.
WriteTmp(i) ==
    /\ \/ /\ Goto(i, "write", "sync")
          /\ inode' = [inode EXCEPT ![fd[i]] = [body |-> out[i], synced |-> FALSE]]
          /\ UNCHANGED fd
       \/ /\ Goto(i, "write", "cleanup") /\ Closed(i)
          /\ inode' = [inode EXCEPT ![fd[i]] = [body |-> Torn, synced |-> FALSE]]
    /\ UNCHANGED <<cfg, gen, out, env, tmp, hard, dirSyncs, exported, first, made, printed, bounds>>

SkipSync(i) ==
    /\ Goto(i, "sync", "close")
    /\ UNCHANGED <<confVars, fileVars, first, made, printed, bounds>>

SyncTmp(i) ==
    /\ \/ /\ Goto(i, "sync", "close")
          /\ inode' = [inode EXCEPT ![fd[i]].synced = TRUE]
          /\ UNCHANGED fd
       \/ Goto(i, "sync", "cleanup") /\ Closed(i) /\ UNCHANGED inode
    /\ UNCHANGED <<cfg, gen, out, env, tmp, hard, dirSyncs, exported, first, made, printed, bounds>>

CloseTmpNot(i) ==
    /\ Goto(i, "close", "rename") \/ Goto(i, "close", "cleanup")
    /\ UNCHANGED <<confVars, fileVars, first, made, printed, bounds>>

CloseTmp(i) ==
    /\ Goto(i, "close", "rename") \/ Goto(i, "close", "cleanup")
    /\ Closed(i)
    /\ UNCHANGED <<cfg, gen, out, fileVars, first, made, printed, bounds>>

\* Whatever .env.tmp names by now becomes .env.
Rename(i) ==
    /\ \/ /\ tmp # NoInode
          /\ Goto(i, "rename", "dirsync")
          /\ env' = tmp /\ tmp' = NoInode
       \/ Goto(i, "rename", "cleanup") /\ UNCHANGED <<env, tmp>>
    /\ UNCHANGED <<confVars, inode, hard, dirSyncs, exported, first, made, printed, bounds>>

\* The deferred os.Remove(tmp), best effort; Load returns the error.
Cleanup(i) ==
    /\ Goto(i, "cleanup", "off")
    /\ tmp' \in {tmp, NoInode}
    /\ UNCHANGED <<confVars, inode, env, hard, dirSyncs, exported, first, made, printed, bounds>>

SkipDirSync(i) ==
    /\ Goto(i, "dirsync", "banner")
    /\ UNCHANGED <<confVars, fileVars, first, made, printed, bounds>>

\* Best effort: a directory that cannot be synced is no error.
SyncDir(i) ==
    /\ Goto(i, "dirsync", "banner")
    /\ hard' = env \/ (~dirSyncs /\ UNCHANGED hard)
    /\ UNCHANGED <<confVars, inode, env, tmp, dirSyncs, exported, first, made, printed, bounds>>

-----------------------------------------------------------------------------
(* Banner and bind *)

Banner(i) ==
    /\ Goto(i, "banner", "listen")
    /\ printed' = printed \cup {cfg[i][k] : k \in gen[i] \cap {"AUTH_TOKEN"}}
    /\ UNCHANGED <<confVars, fileVars, first, made, bounds>>

\* store.Open, scanner.Auto and process.New may fail, and the port may be taken.
Listen(i) ==
    /\ \/ Goto(i, "listen", "serving") /\ \A j \in Instances : pc[j] # "serving"
       \/ Goto(i, "listen", "off")
    /\ UNCHANGED <<confVars, fileVars, first, made, printed, bounds>>

-----------------------------------------------------------------------------
(* The environment *)

Stop(i) ==
    /\ pc[i] # "off" /\ stops < MaxStops /\ stops' = stops + 1
    /\ pc' = [pc EXCEPT ![i] = "off"]
    /\ Closed(i)
    /\ UNCHANGED <<cfg, gen, out, fileVars, first, made, printed, starts>>

\* The kernel writes the directory back.
Flush ==
    /\ hard # env /\ hard' = env
    /\ UNCHANGED <<pc, confVars, inode, env, tmp, dirSyncs, exported, first, made, printed, bounds>>

Settled(f) == IF f.synced THEN f ELSE [body |-> Torn, synced |-> TRUE]

PowerLoss ==
    /\ stops < MaxStops /\ stops' = stops + 1
    /\ \E n \in {env, hard} : env' = n /\ hard' = n
    /\ tmp' \in ({tmp} \ {env'}) \cup {NoInode}
    /\ inode' = [n \in Inodes |-> Settled(inode[n])]
    /\ pc' = [i \in Instances |-> "off"]
    /\ fd' = [i \in Instances |-> NoInode]
    /\ UNCHANGED <<cfg, gen, out, dirSyncs, exported, first, made, printed, starts>>

-----------------------------------------------------------------------------

Next ==
    \/ \E i \in Instances :
         \/ Start(i) \/ Load(i) \/ ReadAgain(i) \/ OpenTmp(i) \/ WriteTmp(i) \/ SyncTmp(i)
         \/ CloseTmp(i) \/ Rename(i) \/ Cleanup(i) \/ SyncDir(i) \/ Banner(i) \/ Listen(i)
         \/ Stop(i)
    \/ Flush \/ PowerLoss

Spec == Init /\ [][Next]_suVars

-----------------------------------------------------------------------------
(* Properties *)

TypeOK ==
    /\ pc \in [Instances -> Steps]
    /\ cfg \in [Instances -> [Secrets -> Values]]
    /\ gen \in [Instances -> SUBSET Secrets]
    /\ \A i \in Instances : pc[i] \in {"write", "sync", "close"} <=> fd[i] \in Inodes
    /\ env \in Inodes \cup {NoInode} /\ hard \in Inodes \cup {NoInode}
    /\ tmp \in Inodes \cup {NoInode} /\ tmp # NoInode => tmp \notin {env, hard}
    /\ printed \subseteq Values /\ dirSyncs \in BOOLEAN
    /\ exported \in [Secrets -> Values]
    /\ starts \in 0..MaxStarts /\ stops \in 0..MaxStops /\ made \in 0..starts

\* What .env holds now, and what a power failure could leave in it.
Outcomes == {Content(env), IF env = NoInode THEN <<>> ELSE Settled(inode[env]).body,
             IF hard = NoInode THEN <<>> ELSE Settled(inode[hard]).body}

\* "An error leaves the original dst intact", and "unknown keys in the file are
\* preserved" (config.go:325, 266): wherever a start stops, .env is whole and
\* still has every line the user wrote, with the secrets the user chose.
UserLinesSurvive ==
    \A b \in Outcomes :
        /\ b # Torn
        /\ \A n \in DOMAIN first :
             /\ n \in DOMAIN b
             /\ b[n].key = first[n].key /\ b[n].export = first[n].export
             /\ b[n].key = Other \/ Lookup(first, b[n].key) # Unset => b[n].val = first[n].val

\* The dashboard runs with the secrets a restart would read: neither the token
\* nor the sessions it serves depend on a file that lost them.
ServedIsPersisted ==
    \A i \in Instances : pc[i] = "serving" =>
        Content(env) # Torn /\ \A k \in Secrets : Lookup(Content(env), k) = cfg[i][k]

\* "Losing AUTH_TOKEN after the stdout banner has scrolled is unrecoverable":
\* from the banner on, a power failure leaves no .env without that token, provided that
\* the directory can be synced.
PrintedTokenHolds ==
    dirSyncs => \A t \in printed : \A b \in Outcomes : b # Torn /\ Lookup(b, "AUTH_TOKEN") = t

=============================================================================
