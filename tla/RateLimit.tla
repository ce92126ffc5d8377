----------------------------- MODULE RateLimit -----------------------------
(***************************************************************************)
(* POST /login: withRateLimit (internal/server/middleware.go) asks         *)
(* auth.RateLimitCheck, then handleLoginPost compares the token and calls  *)
(* RateLimitRecordFailure or RateLimitRecordSuccess.  Each of these calls  *)
(* holds rateLimitMu, the request as a whole does not.                     *)
(*                                                                         *)
(* A recorded failure is represented by its age, which Tick increases up   *)
(* to Window (expired), so time needs no bound.  The slice of an IP is the *)
(* sequence of its ages, oldest first; <<>> is an IP without map entry.    *)
(***************************************************************************)
EXTENDS Integers, Sequences, FiniteSetsExt

CONSTANTS
    IPs,                 \* rate-limit keys: what remoteIP returns
    Requests,            \* login requests in flight at a time
    Window,              \* RateLimitWindow, in clock ticks
    Second,              \* clock ticks in a second
    RateLimitCapacity,
    RateLimitMaxIPs,
    NoIP

ASSUME RateLimitConstants ==
    /\ Window \in Nat \ {0} /\ Second \in Nat \ {0}
    /\ RateLimitCapacity \in Nat \ {0} /\ RateLimitMaxIPs \in Nat \ {0}
    /\ NoIP \notin IPs
    /\ IsFiniteSet(IPs) /\ IsFiniteSet(Requests)

VARIABLES
    failures,    \* Auth.failures
    from,        \* per request past the check: its IP, NoIP when there is none
    guesses      \* history: ages of the wrong tokens each IP had compared since
                 \* its last success or eviction, expired ones dropped, one
                 \* more than MaxGuesses at most

vars == <<failures, from, guesses>>

Ages == 0..Window
MaxGuesses == RateLimitCapacity - 1 + Cardinality(Requests)

Init ==
    /\ failures = [ip \in IPs |-> <<>>]
    /\ from = [r \in Requests |-> NoIP]
    /\ guesses = [ip \in IPs |-> <<>>]

-----------------------------------------------------------------------------
(* auth.go.  (The variants beside some definitions are plausible slips; no  *)
(* specification uses them.)                                                *)

\* t.After(now - Window)
Live(age) == age < Window

Newest(fails) == fails[Len(fails)]
First(fails)  == fails[1]

\* The live ones, in their order.
pruned(fails) ==
    LET live == {n \in DOMAIN fails : Live(fails[n])}
    IN  [k \in 1 .. Cardinality(live) |->
            fails[CHOOSE n \in live : Cardinality({m \in live : m <= n}) = k]]

Prune(F, ip) == [F EXCEPT ![ip] = pruned(@)]

Known(F) == {ip \in IPs : F[ip] # <<>>}

sweepExpired(F) == [ip \in IPs |-> IF F[ip] # <<>> /\ Live(Newest(F[ip])) THEN F[ip] ELSE <<>>]

\* Any of the IPs whose newest failure is oldest: the map has no order.
Without(F, ip) == [F EXCEPT ![ip] = <<>>]

evictByFirst(F) ==
    {Without(F, ip) : ip \in {i \in Known(F) : \A j \in Known(F) : First(F[j]) <= First(F[i])}}

evictOldest(F) ==
    {Without(F, ip) : ip \in {i \in Known(F) : \A j \in Known(F) : Newest(F[j]) <= Newest(F[i])}}

MakeRoomNot(F, ip) == {F}

MakeRoom(F, ip) ==
    IF ip \in Known(F) \/ Cardinality(Known(F)) < RateLimitMaxIPs THEN {F}
    ELSE IF Cardinality(Known(sweepExpired(F))) < RateLimitMaxIPs THEN {sweepExpired(F)}
    ELSE evictOldest(sweepExpired(F))

RateLimitRecordFailure(ip) ==
    \E F \in MakeRoom(Prune(failures, ip), ip) :
        /\ failures' = [F EXCEPT ![ip] = Append(@, 0)]
        /\ guesses' = [i \in IPs |->
                IF i # ip THEN IF F[i] = <<>> THEN <<>> ELSE guesses[i]
                ELSE IF Len(guesses[i]) <= MaxGuesses THEN Append(guesses[i], 0)
                ELSE Append(Tail(guesses[i]), 0)]

RateLimitRecordSuccess(ip) ==
    /\ failures' = [failures EXCEPT ![ip] = <<>>]
    /\ guesses' = [guesses EXCEPT ![ip] = <<>>]

-----------------------------------------------------------------------------
(* The requests *)

AllowedOneMore(ip) == Len(pruned(failures[ip])) <= RateLimitCapacity

Allowed(ip) == Len(pruned(failures[ip])) < RateLimitCapacity

RetryAfterNewest(ip) == Max({1, (Window - Newest(pruned(failures[ip]))) \div Second})

\* In whole seconds: what is left of the oldest failure's window, 1 at least.
RetryAfter(ip) == Max({1, (Window - First(pruned(failures[ip]))) \div Second})

\* withRateLimit; the check prunes the IP's slice either way.
Admit(r, ip) ==
    /\ from[r] = NoIP /\ Allowed(ip)
    /\ failures' = Prune(failures, ip)
    /\ from' = [from EXCEPT ![r] = ip]
    /\ UNCHANGED guesses

RefuseAndRecord(r, ip) ==
    /\ from[r] = NoIP /\ ~Allowed(ip)
    /\ RateLimitRecordFailure(ip)
    /\ UNCHANGED from

\* 429 with Retry-After.
Refuse(r, ip) ==
    /\ from[r] = NoIP /\ ~Allowed(ip)
    /\ failures' = Prune(failures, ip)
    /\ UNCHANGED <<from, guesses>>

Done(r) == from[r] # NoIP /\ from' = [from EXCEPT ![r] = NoIP]

\* handleLoginPost: 400, 401 and 303.
BadForm(r)    == Done(r) /\ UNCHANGED <<failures, guesses>>
WrongToken(r) == Done(r) /\ RateLimitRecordFailure(from[r])
RightToken(r) == Done(r) /\ RateLimitRecordSuccess(from[r])

Older(ages) == [i \in DOMAIN ages |-> IF ages[i] < Window THEN ages[i] + 1 ELSE Window]

Tick ==
    /\ failures' = [ip \in IPs |-> Older(failures[ip])]
    /\ guesses' = [ip \in IPs |-> pruned(Older(guesses[ip]))]
    /\ UNCHANGED from

\* The map is memory: newAuth starts with none.
Restart ==
    /\ failures' = [ip \in IPs |-> <<>>]
    /\ from' = [r \in Requests |-> NoIP]
    /\ guesses' = [ip \in IPs |-> <<>>]

Next ==
    \/ \E r \in Requests :
         \/ \E ip \in IPs : Admit(r, ip) \/ Refuse(r, ip)
         \/ BadForm(r) \/ WrongToken(r) \/ RightToken(r)
    \/ Tick \/ Restart

Spec == Init /\ [][Next]_vars

\* Time passes; nobody has to log in.
FairSpec == Spec /\ WF_vars(Tick)

-----------------------------------------------------------------------------
(* Properties *)

\* The slices and the map stay bounded too: pruning keeps pace with recording,
\* and RateLimitMaxIPs holds.
TypeOK ==
    /\ failures \in [IPs -> Seq(Ages)]
    /\ \A ip \in IPs : Len(failures[ip]) <= MaxGuesses
    /\ Cardinality(Known(failures)) <= RateLimitMaxIPs
    /\ from \in [Requests -> IPs \cup {NoIP}]
    /\ guesses \in [IPs -> Seq(0..Window-1)]

\* The capacity holds up to the requests that were past the check when it was
\* reached: an IP never has more than MaxGuesses wrong tokens compared in a
\* window, whatever the order of checks and records, unless a full map evicts
\* its counter.
GuessesBounded == \A ip \in IPs : Len(guesses[ip]) <= MaxGuesses

\* ip is let in again after a wait of that many ticks without failures.
AllowedAfter(ip, ticks) ==
    Cardinality({n \in DOMAIN failures[ip] : failures[ip][n] + ticks < Window})
        < RateLimitCapacity

\* Refusals are earned, and their Retry-After is honest: an IP that would get 429
\* had RateLimitCapacity wrong tokens since its last success, all of them inside
\* the window.  It would be refused until the time it is told, the minimum of a
\* second apart, and a second later (the fraction that was dropped) it would not,
\* unless requests that had passed the check together left more than
\* RateLimitCapacity failures.
RefusalsAreHonest ==
    \A ip \in IPs : ~Allowed(ip) =>
        /\ Len(guesses[ip]) >= RateLimitCapacity
        /\ RetryAfter(ip) > 1 =>
             \A ticks \in 0 .. RetryAfter(ip) * Second - 1 : ~AllowedAfter(ip, ticks)
        /\ Len(pruned(failures[ip])) = RateLimitCapacity =>
             AllowedAfter(ip, (RetryAfter(ip) + 1) * Second)

\* A step forgets an IP's live failures without being its own success.
Forgets(ip) ==
    /\ pruned(failures[ip]) # <<>> /\ failures'[ip] = <<>> /\ ~Restart
    /\ \A r \in Requests : from[r] = ip => ~RightToken(r)

\* Making room in a full map: an IP is forgotten only when the map is full of
\* live counters, and no IP that is kept was quiet for longer.
StalestGoesFirst ==
    [][\A a \in IPs : Forgets(a) =>
         /\ Cardinality({ip \in IPs : pruned(failures[ip]) # <<>>}) = RateLimitMaxIPs
         /\ \A b \in IPs \ {a} : failures[b] # <<>> /\ failures'[b] # <<>>
              => Newest(failures[b]) <= Newest(failures[a])]_vars

\* A lockout ends although the client keeps trying: refused attempts are not
\* failures, and the few requests past the check cannot renew it.
LockoutEnds == \A ip \in IPs : ~Allowed(ip) ~> Allowed(ip)

\* "5 failed logins from one IP in 15m -> 6th attempt returns 429"
\* (.tenet/spec/2026-04-17-port-manager.md:197): no window holds more than
\* RateLimitCapacity wrong tokens of one IP.
SixthIsRefused == \A ip \in IPs : Len(guesses[ip]) <= RateLimitCapacity

=============================================================================
