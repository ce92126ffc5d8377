----------------------------- MODULE StoreAbs -----------------------------
(***************************************************************************)
(* What the store promises its callers, without threads, locks, eviction   *)
(* loops or temporary files.  A reader sees `view`; a restart loads        *)
(* `saved`; `hard` is what a power failure may fall back to, because the   *)
(* directory is not synced after the rename.  A call takes effect at once: *)
(* a successful one changes view and saved to the same state, a failed one *)
(* changes the view and leaves the file.                                   *)
(***************************************************************************)
EXTENDS StoreTypes

VARIABLES up, view, saved, hard

absVars == <<up, view, saved, hard>>

\* The n newest entries of R (all of them when there are fewer).
Newest(R, n) ==
    CHOOSE T \in SUBSET R :
        /\ Cardinality(T) = IF Cardinality(R) < n THEN Cardinality(R) ELSE n
        /\ \A e \in T, f \in R \ T : e.id > f.id

\* The retention policy: the newest PerKeyRememberedCap entries of the key
\* that grew, and of all that is left the newest GlobalRememberedCap.
Retain(R, key) ==
    LET same == {e \in R : e.key = key}
    IN  Newest((R \ same) \cup Newest(same, PerKeyRememberedCap), GlobalRememberedCap)

\* The states a call may aim at, before the file-size limit.
Targets(call, v) ==
    CASE call.op = "SetLabel" ->
           {[v EXCEPT !.labels = Relabel(@, call.key, call.text, at)] : at \in Times}
      [] call.op = "Remember" ->
           {[v EXCEPT !.remembered =
                 Retain(@ \cup {[id |-> i, key |-> call.key, bytes |-> call.bytes]}, call.key)]
              : i \in {j \in Ids : \A e \in v.remembered : e.id < j}}
      [] call.op = "DeleteRemembered" ->
           {[v EXCEPT !.remembered = {e \in @ : e.id # call.id}]}

\* The largest part of v that fits the file: as many of the newest remembered
\* entries as possible; when none can stay, as many labels as possible, and
\* never an older label in place of a newer one.
Shrunk(v) ==
    LET byEntries == {[v EXCEPT !.remembered = Newest(v.remembered, n)]
                        : n \in 0..Cardinality(v.remembered)}
        byLabels  == {[labels |-> L, remembered |-> {}]
                        : L \in {M \in SUBSET v.labels :
                                   \A l \in M, m \in v.labels \ M : m.at <= l.at}}
        whole     == {w \in byEntries : Fits(w)}
        part      == {w \in byLabels : Fits(w)}
    IN  IF whole # {}
        THEN {w \in whole : \A x \in whole :
                  Cardinality(x.remembered) <= Cardinality(w.remembered)}
        ELSE {w \in part : \A x \in part : Cardinality(x.labels) <= Cardinality(w.labels)}

Outcomes(call, v) == UNION {Shrunk(w) : w \in Targets(call, v)}

AbsInit ==
    /\ up = TRUE
    /\ view = Empty /\ saved = Empty /\ hard = Empty

\* A mutating call, returning nil or an error.
Put(call) ==
    /\ up
    /\ \E w \in Outcomes(call, view) :
         /\ view' = w
         /\ saved' \in {w, saved}
    /\ UNCHANGED <<up, hard>>

Flush == hard' = saved /\ UNCHANGED <<up, view, saved>>

\* The process dies; saved' = hard when the machine went down with it.
Stop ==
    /\ up' = FALSE
    /\ view' = Empty
    /\ \/ UNCHANGED <<saved, hard>>
       \/ saved' \in {saved, hard} /\ hard' = saved'

Start == ~up /\ up' = TRUE /\ view' = saved /\ UNCHANGED <<saved, hard>>

AbsNext == (\E call \in Calls : Put(call)) \/ Flush \/ Stop \/ Start

AbsSpec == AbsInit /\ [][AbsNext]_absVars

=============================================================================
