------------------------------- MODULE Store -------------------------------
(***************************************************************************)
(* internal/store/store.go: the state kept in memory behind s.mu and its   *)
(* file.  Every mutating call takes the mutex, changes memory, then runs   *)
(* persistLocked, still under the mutex: evict until the serialised state  *)
(* fits, write state.json.tmp, fsync, close, rename.  Each file operation  *)
(* may fail, the process may die between any two steps, and the machine    *)
(* may lose power.                                                         *)
(***************************************************************************)
EXTENDS StoreTypes

CONSTANTS
    Threads,       \* request goroutines
    NoThread,      \* s.mu is free
    NoCall,        \* the goroutine is not in a call
    NoFile,        \* the file does not exist
    Torn,          \* a file that is not a whole JSON document
    MaxCalls,      \* bound: mutating calls made
    MaxStops       \* bound: process deaths and power failures

ASSUME StoreConstants ==
    /\ NoThread \notin Threads
    /\ NoFile # Torn /\ NoFile \notin persisted /\ Torn \notin persisted
    /\ NoCall \notin Calls
    /\ MaxCalls \in Nat /\ MaxStops \in Nat

VARIABLES
    mode,          \* "up", "down", or "broken" when Open refused the file
    data,          \* s.data
    mu,            \* the goroutine that holds s.mu
    pc, call,      \* per goroutine: next step, and the call it makes
    res,           \* per goroutine: what its call is about to return, or did
    buf,           \* the bytes marshalled by persistLocked
    tmp,           \* state.json.tmp: its content, and whether it is synced
    disk,          \* state.json, likewise
    hard,          \* state.json as a power failure may leave it
    nextId,
    seen,          \* what the last read returned
    prev,          \* history: s.data as the holder of s.mu found it
    calls, stops   \* counters for the bounds

vars == <<mode, data, mu, pc, call, res, buf, tmp, disk, hard, nextId, seen, prev,
          calls, stops>>
fileVars == <<tmp, disk, hard>>
boundVars == <<mode, calls, stops>>

Body == persisted \cup {NoFile, Torn}
File == [body : Body, synced : BOOLEAN]
NoTmp == [body |-> NoFile, synced |-> TRUE]

\* What a power failure leaves of a file whose data was never synced.
Settled(f) == IF f.synced THEN f.body ELSE Torn

Hydrated(body) == IF body = NoFile THEN Empty ELSE body

InFlight == {"persist", "open", "write", "sync", "close", "rename", "cleanup", "return"}
Points   == InFlight \cup {"idle", "lock"}
Answers  == {"none", "nil", "nil, not persisted", "error", "ErrLabelTooLong"}

Init ==
    /\ mode = "up" /\ data = Empty /\ mu = NoThread
    /\ pc = [t \in Threads |-> "idle"]
    /\ call = [t \in Threads |-> NoCall]
    /\ res = [t \in Threads |-> "none"]
    /\ buf = Empty
    /\ tmp = NoTmp /\ disk = NoTmp /\ hard = NoFile
    /\ nextId = 1 /\ seen = Empty /\ prev = Empty
    /\ calls = 0 /\ stops = 0

-----------------------------------------------------------------------------
(* Calls, up to the change of s.data *)

Goto(t, from, to) ==
    /\ pc[t] = from
    /\ pc' = [pc EXCEPT ![t] = to]

Answer(t, r) == res' = [res EXCEPT ![t] = r]

BeginCall(t) ==
    /\ mode = "up" /\ calls < MaxCalls
    /\ Goto(t, "idle", "lock")
    /\ \E c \in Calls : call' = [call EXCEPT ![t] = c]
    /\ Answer(t, "none")
    /\ calls' = calls + 1
    /\ UNCHANGED <<mode, data, mu, buf, fileVars, nextId, seen, prev, stops>>

\* SetLabel's length check comes before the lock and before any I/O.
SetLabelTooLong(t) ==
    /\ mode = "up" /\ pc[t] = "idle"
    /\ Answer(t, "ErrLabelTooLong")
    /\ UNCHANGED <<boundVars, data, mu, pc, call, buf, fileVars, nextId, seen, prev>>

Lock(t, op) ==
    /\ call[t] # NoCall /\ call[t].op = op
    /\ mu = NoThread
    /\ mu' = t /\ prev' = data

SetLabel(t) ==
    /\ Lock(t, "SetLabel") /\ Goto(t, "lock", "persist")
    /\ \E at \in Times :
         data' = [data EXCEPT !.labels = Relabel(@, call[t].key, call[t].text, at)]
    /\ UNCHANGED <<boundVars, call, res, buf, fileVars, nextId, seen>>

\* The caps are compared after the new entry is appended.  (The variants beside
\* some definitions are plausible slips; no specification uses them.)
evictGlobalOneLess(R) ==
    {e \in R : Cardinality({f \in R : f.id > e.id}) <= GlobalRememberedCap}

evictPerKeyLocked(R, key) ==
    {e \in R : e.key = key =>
        Cardinality({f \in R : f.key = key /\ f.id > e.id}) < PerKeyRememberedCap}

evictGlobalLocked(R) ==
    {e \in R : Cardinality({f \in R : f.id > e.id}) < GlobalRememberedCap}

Remember(t) ==
    /\ Lock(t, "Remember") /\ Goto(t, "lock", "persist")
    /\ nextId \in Ids /\ nextId' = nextId + 1
    /\ LET r == [id |-> nextId, key |-> call[t].key, bytes |-> call[t].bytes]
       IN  data' = [data EXCEPT !.remembered =
                        evictGlobalLocked(evictPerKeyLocked(@ \cup {r}, r.key))]
    /\ UNCHANGED <<boundVars, call, res, buf, fileVars, seen>>

\* newULID found no randomness: Remember returns before it touches s.data.
RememberNoULID(t) ==
    /\ Lock(t, "Remember") /\ Goto(t, "lock", "return")
    /\ Answer(t, "error")
    /\ UNCHANGED <<boundVars, data, call, buf, fileVars, nextId, seen>>

Has(R, id) == \E e \in R : e.id = id

DeleteRemembered(t) ==
    /\ Lock(t, "DeleteRemembered") /\ Goto(t, "lock", "persist")
    /\ Has(data.remembered, call[t].id)
    /\ data' = [data EXCEPT !.remembered = {e \in @ : e.id # call[t].id}]
    /\ UNCHANGED <<boundVars, call, res, buf, fileVars, nextId, seen>>

\* A missing id: nil, without persisting.
DeleteRememberedMissing(t) ==
    /\ Lock(t, "DeleteRemembered") /\ Goto(t, "lock", "return")
    /\ ~Has(data.remembered, call[t].id)
    /\ Answer(t, "nil, not persisted")
    /\ UNCHANGED <<boundVars, data, call, buf, fileVars, nextId, seen>>

-----------------------------------------------------------------------------
(* persistLocked: one action per turn of its loop.  ErrStateSizeExceeded    *)
(* needs an empty state that does not fit (EmptyStateFits excludes it).     *)

EvictNewestRemembered(t) ==
    /\ pc[t] = "persist" /\ ~Fits(data) /\ data.remembered # {}
    /\ data' = [data EXCEPT !.remembered = {e \in @ : \E f \in @ : f.id > e.id}]
    /\ UNCHANGED <<boundVars, mu, pc, call, res, buf, fileVars, nextId, seen, prev>>

EvictOldestOffByOne(t) ==
    /\ pc[t] = "persist" /\ ~Fits(data) /\ data.remembered # {}
    /\ data' = [data EXCEPT !.remembered = {e \in @ : \E f \in @ : f.id <= e.id}]
    /\ UNCHANGED <<boundVars, mu, pc, call, res, buf, fileVars, nextId, seen, prev>>

EvictOldestRemembered(t) ==
    /\ pc[t] = "persist" /\ ~Fits(data) /\ data.remembered # {}
    /\ data' = [data EXCEPT !.remembered = {e \in @ : \E f \in @ : f.id < e.id}]
    /\ UNCHANGED <<boundVars, mu, pc, call, res, buf, fileVars, nextId, seen, prev>>

\* The map is walked in no particular order: among equal stamps, any entry.
Oldest(L) == {l \in L : \A m \in L : l.at <= m.at}

evictOldestLabelLocked(t) ==
    /\ pc[t] = "persist" /\ ~Fits(data) /\ data.remembered = {}
    /\ \E l \in Oldest(data.labels) : data' = [data EXCEPT !.labels = @ \ {l}]
    /\ UNCHANGED <<boundVars, mu, pc, call, res, buf, fileVars, nextId, seen, prev>>

Marshal(t) ==
    /\ Goto(t, "persist", "open") /\ Fits(data)
    /\ buf' = data
    /\ UNCHANGED <<boundVars, data, mu, call, res, fileVars, nextId, seen, prev>>

-----------------------------------------------------------------------------
(* writeAtomic *)

OpenTmp(t) ==
    /\ \/ /\ Goto(t, "open", "write")
          /\ tmp' = [body |-> Torn, synced |-> FALSE]     \* O_TRUNC
          /\ UNCHANGED res
       \/ /\ Goto(t, "open", "return") /\ Answer(t, "error")
          /\ UNCHANGED tmp
    /\ UNCHANGED <<boundVars, data, mu, call, buf, disk, hard, nextId, seen, prev>>

WriteTmp(t) ==
    /\ \/ Goto(t, "write", "sync") /\ tmp' = [body |-> buf, synced |-> FALSE]
       \/ Goto(t, "write", "cleanup") /\ UNCHANGED tmp
    /\ UNCHANGED <<boundVars, data, mu, call, res, buf, disk, hard, nextId, seen, prev>>

SkipSync(t) ==
    /\ Goto(t, "sync", "close")
    /\ UNCHANGED <<boundVars, data, mu, call, res, buf, fileVars, nextId, seen, prev>>

SyncTmp(t) ==
    /\ \/ Goto(t, "sync", "close") /\ tmp' = [tmp EXCEPT !.synced = TRUE]
       \/ Goto(t, "sync", "cleanup") /\ UNCHANGED tmp
    /\ UNCHANGED <<boundVars, data, mu, call, res, buf, disk, hard, nextId, seen, prev>>

CloseTmp(t) ==
    /\ Goto(t, "close", "rename") \/ Goto(t, "close", "cleanup")
    /\ UNCHANGED <<boundVars, data, mu, call, res, buf, fileVars, nextId, seen, prev>>

Rename(t) ==
    /\ \/ /\ Goto(t, "rename", "return") /\ Answer(t, "nil")
          /\ disk' = tmp /\ tmp' = NoTmp
       \/ /\ Goto(t, "rename", "cleanup")
          /\ UNCHANGED <<res, tmp, disk>>
    /\ UNCHANGED <<boundVars, data, mu, call, buf, hard, nextId, seen, prev>>

RemoveTmpNil(t) ==
    /\ Goto(t, "cleanup", "return") /\ Answer(t, "nil")
    /\ tmp' \in {tmp, NoTmp}
    /\ UNCHANGED <<boundVars, data, mu, call, buf, disk, hard, nextId, seen, prev>>

\* The deferred os.Remove(tmp) is best effort.
RemoveTmp(t) ==
    /\ Goto(t, "cleanup", "return") /\ Answer(t, "error")
    /\ tmp' \in {tmp, NoTmp}
    /\ UNCHANGED <<boundVars, data, mu, call, buf, disk, hard, nextId, seen, prev>>

\* The deferred Unlock.
Return(t) ==
    /\ Goto(t, "return", "idle")
    /\ mu' = NoThread
    /\ call' = [call EXCEPT ![t] = NoCall]
    /\ buf' = Empty /\ prev' = Empty
    /\ UNCHANGED <<boundVars, data, res, fileVars, nextId, seen>>

-----------------------------------------------------------------------------
(* Label, ListRemembered, AllRemembered, FindRemembered: under s.mu, a deep *)
(* copy of (part of) s.data.                                                *)

Read(t) ==
    /\ mode = "up" /\ pc[t] = "idle" /\ mu = NoThread
    /\ seen' = data
    /\ UNCHANGED <<boundVars, data, mu, pc, call, res, buf, fileVars, nextId, prev>>

-----------------------------------------------------------------------------
(* The environment, and Open *)

\* The kernel writes the directory back.
Flush ==
    /\ hard # Settled(disk)
    /\ hard' = Settled(disk)
    /\ UNCHANGED <<boundVars, data, mu, pc, call, res, buf, tmp, disk, nextId, seen, prev>>

\* Memory and the lock die with the process.
ForgetMemory ==
    /\ mode = "up" /\ stops < MaxStops
    /\ mode' = "down" /\ stops' = stops + 1
    /\ data' = Empty /\ mu' = NoThread /\ buf' = Empty
    /\ pc' = [t \in Threads |-> "idle"]
    /\ call' = [t \in Threads |-> NoCall]
    /\ res' = [t \in Threads |-> "none"]
    /\ seen' = Empty /\ prev' = Empty
    /\ UNCHANGED <<nextId, calls>>

Crash == ForgetMemory /\ UNCHANGED fileVars

PowerLoss ==
    /\ ForgetMemory
    /\ \E b \in {hard, Settled(disk)} :
         hard' = b /\ disk' = [body |-> b, synced |-> TRUE]
    /\ tmp' \in {NoTmp, [body |-> Torn, synced |-> TRUE]}

\* hydrate reads only state.json; a stale tmp file stays where it is.
OpenTmpFile ==
    /\ mode = "down" /\ mode' = "up"
    /\ data' = tmp.body
    /\ UNCHANGED <<mu, pc, call, res, buf, fileVars, nextId, seen, prev, calls, stops>>

Open ==
    /\ mode = "down"
    /\ IF disk.body = Torn
       THEN mode' = "broken" /\ UNCHANGED data
       ELSE mode' = "up" /\ data' = Hydrated(disk.body)
    /\ UNCHANGED <<mu, pc, call, res, buf, fileVars, nextId, seen, prev, calls, stops>>

-----------------------------------------------------------------------------

Acquire(t) == \/ SetLabel(t) \/ Remember(t) \/ RememberNoULID(t)
              \/ DeleteRemembered(t) \/ DeleteRememberedMissing(t)

Proceed(t) == \/ EvictOldestRemembered(t) \/ evictOldestLabelLocked(t) \/ Marshal(t)
              \/ OpenTmp(t) \/ WriteTmp(t) \/ SyncTmp(t) \/ CloseTmp(t)
              \/ Rename(t) \/ RemoveTmp(t) \/ Return(t)

Next ==
    \/ \E t \in Threads : BeginCall(t) \/ SetLabelTooLong(t) \/ Read(t)
                          \/ Acquire(t) \/ Proceed(t)
    \/ Flush \/ Crash \/ PowerLoss \/ Open

Spec == Init /\ [][Next]_vars

\* File operations return and the mutex is handed over (sync.Mutex is
\* starvation-free); a caller may stop calling and a machine may stay down.
Fairness == \A t \in Threads : WF_vars(Proceed(t)) /\ SF_vars(Acquire(t))

FairSpec == Spec /\ Fairness

-----------------------------------------------------------------------------
(* Properties *)

TypeOK ==
    /\ mode \in {"up", "down", "broken"}
    /\ data \in persisted /\ buf \in persisted
    /\ seen \in persisted /\ prev \in persisted
    /\ mu \in Threads \cup {NoThread}
    /\ pc \in [Threads -> Points]
    /\ call \in [Threads -> Calls \cup {NoCall}]
    /\ res \in [Threads -> Answers]
    /\ tmp \in File /\ disk \in File /\ hard \in Body
    /\ nextId \in Nat
    /\ calls \in 0..MaxCalls /\ stops \in 0..MaxStops

\* "A crash mid-write cannot corrupt the committed file": whatever step
\* writeAtomic was at when the process died or the power failed, state.json is
\* missing or whole, now and after the kernel lost what it had not synced, and
\* Open never refuses it.
FileIsWhole ==
    /\ disk.body # Torn /\ Settled(disk) # Torn /\ hard # Torn
    /\ mode # "broken"

\* A mutating call that persisted and returns nil leaves exactly the state in
\* memory in state.json: what the caller was told is what a restart loads.
AckIsDurable ==
    \A t \in Threads : pc[t] = "return" /\ res[t] = "nil" => disk.body = data

Bounded(d) ==
    /\ Fits(d)
    /\ Cardinality(d.remembered) <= GlobalRememberedCap
    /\ \A k \in Keys :
         Cardinality({e \in d.remembered : e.key = k}) <= PerKeyRememberedCap

\* The retention caps and Iron Law 13, for every copy of the state anyone can
\* see: what a reader is given, the file, the file after a power failure, and
\* memory whenever the mutex is free, though each call first exceeds them.
EveryCopyBounded ==
    /\ Bounded(seen)
    /\ mu = NoThread => Bounded(data)
    /\ \A b \in {disk.body, hard} \ {NoFile, Torn} : Bounded(b)

\* A call that evicts takes the oldest first: over a whole call no remembered
\* entry is dropped while an older one of the same key stays, and no label is
\* dropped while an older one of another key stays or any entry is remembered.
OldestGoFirst ==
    \A t \in Threads : pc[t] = "return" /\ call[t].op # "DeleteRemembered" =>
        /\ \A e \in prev.remembered \ data.remembered :
             \A f \in prev.remembered \cap data.remembered :
                 f.key = e.key => f.id > e.id
        /\ \A l \in prev.labels \ data.labels :
             \/ call[t].op = "SetLabel" /\ call[t].key = l.key
             \/ /\ data.remembered = {}
                /\ \A m \in data.labels : l.at <= m.at

\* Every call returns (or its process dies): the eviction loop terminates, each
\* error path unlocks, and no goroutine waits for s.mu for ever.
CallsReturn == \A t \in Threads : pc[t] # "idle" ~> pc[t] = "idle"

\* What readers are shown: a call in progress holds the mutex, so the state it
\* found, until the rename has made its outcome the one a restart loads.
View == IF \E t \in Threads : pc[t] \in InFlight /\ res[t] # "nil" THEN prev ELSE data

\* The store behaves as StoreAbs: calls are atomic to readers and to restarts,
\* eviction keeps the newest that fit, and only a failed call can leave memory
\* and file apart.
Abs == INSTANCE StoreAbs WITH
    up    <- mode = "up",
    view  <- View,
    saved <- Hydrated(disk.body),
    hard  <- Hydrated(hard)

ImplementsStoreAbs == Abs!AbsSpec

=============================================================================
