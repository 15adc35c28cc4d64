------------------------------ MODULE MCTables ------------------------------
(***************************************************************************)
(* The two types that are kept in hash tables: hashes, with a client that  *)
(* scans one while others write it, and sets.  They share nothing; a       *)
(* behaviour exercises one of the two.                                     *)
(***************************************************************************)
EXTENDS HashTable

CONSTANTS
  text, Other,
  Volatile   \* the sets whose deadline may pass at any lookup

VARIABLES
  which,                            \* the type of this behaviour
  ent, request, reply, scan,        \* Hashes
  db, set_request, set_reply, feed, stale   \* Sets

HashVars == <<ent, request, reply, scan>>
SetVars == <<db, set_request, set_reply, feed, stale>>

\* Fields and members are numbered and hash to their number: 0 and 4 share a
\* slot in every table of at most four slots.
Names == {0, 1, 2, 4}
MCHash == [n \in Names |-> n]

MCValues == [f \in Names |-> IF f = 0 THEN {text} ELSE {1}]
MCLength == [v \in {text} \cup -2 .. 1 |-> IF v = text THEN 3 ELSE 1]
MCBytes == [m \in Names |-> m]

HashType == INSTANCE Hashes WITH
  Fields <- Names, Values <- MCValues, Counters <- {0}, Increments <- {1}, MaxInt <- 1,
  Pairs <- {<<0, 0>>, <<0, 4>>, <<2, 1>>, <<4, 2>>},
  Length <- MCLength, Inline <- 2, MaxScans <- 1

SetType == INSTANCE Sets WITH
  request <- set_request, reply <- set_reply, SKeys <- {1, 2}, Members <- {0, 1, 4},
  Counts <- {-2, 0, 1, 2}, Bytes <- MCBytes

Init ==
  /\ which \in {"hash", "set"}
  /\ HashType!Init /\ SetType!Init

Next ==
  /\ \/ which = "hash" /\ HashType!Next /\ UNCHANGED SetVars
     \/ which = "set" /\ SetType!Next /\ UNCHANGED HashVars
  /\ UNCHANGED which

Spec == Init /\ [][Next]_<<HashVars, SetVars, which>>

\* Replies are never read back.
View == <<ent, scan, db, stale, which>>

-----------------------------------------------------------------------------
\* HashType!MapWellFormed and MapLoadBounded, SetType!SetsWellFormed: at any
\* point of a rehash every node hangs where its hash says, once; the rehash
\* keeps up with the inserts that feed it; no empty set is left
\* (hm_help_rehashing, h_detach, hm_insert, do_spop, do_smove).
TablesSound ==
  /\ HashType!TypeOK /\ HashType!MapWellFormed /\ HashType!MapLoadBounded
  /\ SetType!TypeOK /\ SetType!SetsWellFormed

\* HashType!ElemBytesExact and SetType!SetBytesExact: "sum per node bytes,
\* maintained by the typed layer" (ds/hashtable.h; hash_set, hash_del, set_add,
\* set_remove, do_spop, do_smove).
TableBytesExact == HashType!ElemBytesExact /\ SetType!SetBytesExact

\* HashType!ScanComplete: a scan sends every field that was there throughout,
\* whatever was rehashed in between (hm_scan).
ScanComplete == HashType!ScanComplete

\* HashType!RefinesHash: every hash command, at any point of a rehash, answers and
\* changes the hash as it would a plain function (do_hset to do_hscan), and the
\* cursor of a scan moves forward with every call, so that a scan ends (ScanAdvances).
RefinesHash == HashType!RefinesHash /\ HashType!ScanAdvances

\* SetType!RefinesSets: every set command, also with a key as operand and
\* destination, answers and changes the sets as it would plain sets, and SPOP
\* logs the removal of exactly what it sent.
RefinesSets == SetType!RefinesSets

\* SetType!OperandsLive: a command does not use an entry that a later lookup of
\* its own has freed.  It fails where deadlines pass between two lookups.
OperandsLive == SetType!OperandsLive
=============================================================================
