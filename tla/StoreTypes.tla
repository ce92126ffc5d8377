---------------------------- MODULE StoreTypes ----------------------------
(***************************************************************************)
(* The data of internal/store/store.go: what state.json holds.             *)
(*                                                                         *)
(* A remembered listener is abstracted to its position in the slice (id:   *)
(* entries are only ever appended, so a later entry has a larger id), its  *)
(* LabelKey and its size in the serialised file.  The Go slice becomes the *)
(* set of its entries; "oldest" is the smallest id.  A label entry keeps   *)
(* its map key, its text and its UpdatedAt stamp, which is wall-clock time *)
(* (UTC() strips the monotonic reading): ties and backward jumps happen.   *)
(***************************************************************************)
EXTENDS Integers, FiniteSets, FiniteSetsExt

CONSTANTS
    Keys,                  \* LabelKeys: digests of (cwd, argv)
    Texts,                 \* non-empty labels of at most MaxLabelLen runes
    NoText,                \* the empty label, which clears an entry
    Times,                 \* wall-clock readings SetLabel may see
    Ids,                   \* positions a remembered entry may be given
    EntryBytes,            \* sizes a remembered entry may serialise to
    LabelBytes,            \* size a label entry serialises to
    BaseBytes,             \* size of the empty state
    MaxStateBytes,
    PerKeyRememberedCap,
    GlobalRememberedCap

ASSUME SizesAreNaturals ==
    /\ Times \subseteq Nat /\ Ids \subseteq Nat /\ EntryBytes \subseteq Nat
    /\ LabelBytes \in Nat /\ BaseBytes \in Nat /\ MaxStateBytes \in Nat
    /\ PerKeyRememberedCap \in Nat \ {0} /\ GlobalRememberedCap \in Nat \ {0}
    /\ NoText \notin Texts

Remembered == [id : Ids, key : Keys, bytes : EntryBytes]
labelEntry == [key : Keys, text : Texts, at : Times]
persisted  == [labels : SUBSET labelEntry, remembered : SUBSET Remembered]

Empty == [labels |-> {}, remembered |-> {}]

\* The length of json.MarshalIndent's output.
Bytes(d) ==
    BaseBytes + LabelBytes * Cardinality(d.labels)
              + MapThenSumSet(LAMBDA e : e.bytes, d.remembered)

Fits(d) == Bytes(d) <= MaxStateBytes

ASSUME EmptyStateFits == Fits(Empty)

\* Mutating calls.
SetLabelCalls == [op : {"SetLabel"}, key : Keys, text : Texts \cup {NoText}]
RememberCalls == [op : {"Remember"}, key : Keys, bytes : EntryBytes]
DeleteCalls   == [op : {"DeleteRemembered"}, id : Ids]
Calls         == SetLabelCalls \cup RememberCalls \cup DeleteCalls

Relabel(L, key, text, at) ==
    {l \in L : l.key # key} \cup
        (IF text = NoText THEN {} ELSE {[key |-> key, text |-> text, at |-> at]})

=============================================================================
