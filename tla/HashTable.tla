------------------------------ MODULE HashTable ------------------------------
(***************************************************************************)
(* The chained hash table with progressive rehashing of                    *)
(* ds/hashtable.cpp, as operators on values.  A table (HTab) is a function *)
(* from slot numbers to chains, a chain is a sequence of nodes, and a node *)
(* is a record with a field key.  A map (HMap) is a pair of tables, newer  *)
(* and older, and the next slot of older to migrate.  A table whose tab    *)
(* pointer is NULL has no slot.                                            *)
(*                                                                         *)
(* The code's constants are parameters: InitSlots is 4, MaxLoad 8,         *)
(* RehashWork 128 and Bits, the width of a scan cursor, 64.                *)
(***************************************************************************)
EXTENDS Integers, Sequences, FiniteSets, SequencesExt

CONSTANTS Hash, InitSlots, MaxLoad, RehashWork, Bits

ASSUME HashTableAssumption ==
  /\ \A k \in DOMAIN Hash : Hash[k] \in Nat
  /\ \E e \in 0..Bits : InitSlots = 2^e
  /\ MaxLoad \in Nat \ {0}
  /\ RehashWork \in Nat \ {0}
  /\ Bits \in Nat \ {0}

NoTab == [tab |-> <<>>, size |-> 0]

h_init(n) == [tab |-> [i \in 0..(n - 1) |-> <<>>], size |-> 0]

Slots(t) == Cardinality(DOMAIN t.tab)

Allocated(t) == DOMAIN t.tab # {}

\* hcode & mask
Slot(t, key) == Hash[key] % Slots(t)

h_insert(t, node) ==
  [tab |-> [t.tab EXCEPT ![Slot(t, node.key)] = <<node>> \o @],
   size |-> t.size + 1]

\* The nodes h_lookup can return: none or one.
h_lookup(t, key) ==
  IF Allocated(t)
  THEN SelectSeq(t.tab[Slot(t, key)], LAMBDA n : n.key = key)
  ELSE <<>>

h_detach(t, s, key) ==
  [tab |-> [t.tab EXCEPT ![s] = RemoveAt(@, Min({i \in DOMAIN @ : @[i].key = key}))],
   size |-> t.size - 1]

EmptyMap == [newer |-> NoTab, older |-> NoTab, migrate_pos |-> 0, elem_bytes |-> 0]

\* One unit of work: the first node of the first non-empty slot at or after
\* migrate_pos moves to newer; slots that are empty cost nothing.
MigrateOne(h) ==
  LET full == {s \in DOMAIN h.older.tab :
                 s >= h.migrate_pos /\ h.older.tab[s] # <<>>}
      Move(s, node) == [h EXCEPT !.newer = h_insert(@, node),
                                 !.older = h_detach(@, s, node.key),
                                 !.migrate_pos = s]
  IN  IF h.older.size = 0 THEN h
      ELSE IF full = {} THEN [h EXCEPT !.migrate_pos = Slots(h.older)]
      ELSE Move(Min(full), Head(h.older.tab[Min(full)]))

hm_help_rehashing(h) ==
  LET worked[n \in 0..RehashWork] ==
        IF n = 0 THEN h ELSE MigrateOne(worked[n - 1])
      Emptied(w) == IF w.older.size = 0 THEN [w EXCEPT !.older = NoTab] ELSE w
  IN  Emptied(worked[RehashWork])

\* Mutant: a new rehash goes on from where the last one ended.
KeepsPosition(h) == [h EXCEPT !.older = h.newer, !.newer = h_init(2 * Slots(h.newer))]

hm_trigger_rehashing(h) ==
  [h EXCEPT !.older = h.newer,
            !.migrate_pos = 0,
            !.newer = h_init(2 * Slots(h.newer))]

\* Mutant: the lookup stops at the newer table.
FoundNewer(h, key) == h_lookup(h.newer, key)

\* What hm_lookup finds in a map it has already helped: newer first.
Found(h, key) == h_lookup(h.newer, key) \o h_lookup(h.older, key)

hm_delete(m, key) ==
  LET Detached(h) ==
        IF h_lookup(h.newer, key) # <<>>
        THEN [h EXCEPT !.newer = h_detach(@, Slot(@, key), key)]
        ELSE IF h_lookup(h.older, key) # <<>>
             THEN [h EXCEPT !.older = h_detach(@, Slot(@, key), key)]
             ELSE h
  IN  Detached(hm_help_rehashing(m))

hm_insert(h, node) ==
  LET base == IF Allocated(h.newer) THEN h
              ELSE [h EXCEPT !.newer = h_init(InitSlots)]
      Full(put) == put.newer.size >= Slots(put.newer) * MaxLoad
      Grown(put) == IF ~Allocated(put.older) /\ Full(put) THEN hm_trigger_rehashing(put)
                    ELSE put
  IN  hm_help_rehashing(Grown([base EXCEPT !.newer = h_insert(@, node)]))

hm_size(h) == h.newer.size + h.older.size

\* The nodes of a table in the order h_foreach visits them.
h_foreach(t) ==
  IF Slots(t) <= 1 THEN <<>>
  ELSE FlattenSeq([i \in 1..Slots(t) |-> t.tab[i - 1]])

hm_foreach(h) == h_foreach(h.newer) \o h_foreach(h.older)

\* The nodes a map holds, as a set.
Nodes(h) == UNION {UNION {ToSet(t.tab[s]) : s \in DOMAIN t.tab} : t \in {h.newer, h.older}}

\* hm_random picks a table, a slot and a place in its chain at random: every
\* node of the map can come out.
hm_random(h) == Nodes(h)

rev_bits(v) ==
  LET bit(i) == (v \div 2^i) % 2
      acc[i \in 0..Bits] ==
        IF i = 0 THEN 0 ELSE acc[i - 1] + bit(i - 1) * 2^(Bits - i)
  IN  acc[Bits]

\* cursor |= ~mbig, then the increment from the top bit down.
NextCursor(cursor, slots) ==
  LET masked == (2^Bits - slots) + (cursor % slots)
  IN  rev_bits((rev_bits(masked) + 1) % 2^Bits)

\* Mutant: the table that is being drained is not scanned.
ScanNewerOnly(h, cursor, count) ==
  IF Allocated(h.newer)
  THEN [cursor |-> NextCursor(cursor, Slots(h.newer)),
        nodes |-> h.newer.tab[cursor % Slots(h.newer)]]
  ELSE [cursor |-> 0, nodes |-> <<>>]

\* The cursor hm_scan returns after visiting count slots, and what it visited.
hm_scan(h, cursor, count) ==
  LET slots  == IF Slots(h.older) > Slots(h.newer) THEN Slots(h.older)
                ELSE Slots(h.newer)
      chains(c) == h.newer.tab[c % Slots(h.newer)]
                     \o (IF Allocated(h.older)
                         THEN h.older.tab[c % Slots(h.older)] ELSE <<>>)
      visit(r) == [cursor |-> NextCursor(r.cursor, slots),
                   nodes |-> r.nodes \o chains(r.cursor)]
      scanned[n \in 1..count] ==
        IF n = 1 THEN visit([cursor |-> cursor, nodes |-> <<>>])
        ELSE IF scanned[n - 1].cursor = 0 THEN scanned[n - 1]
        ELSE visit(scanned[n - 1])
  IN  IF Allocated(h.newer) THEN scanned[count]
      ELSE [cursor |-> 0, nodes |-> <<>>]

------------------------------------------------------------------------------

Keys(h) == {n.key : n \in Nodes(h)}

\* A map as the rest of the server relies on it: every node hangs in the
\* chain its hash selects, no key is held twice, the two sizes count the
\* nodes, and no slot of older below migrate_pos holds anything (which is
\* what lets a migration that never looks back empty the table).
WellFormed(h) ==
  /\ \A t \in {h.newer, h.older} : \A s \in DOMAIN t.tab :
       \A i \in DOMAIN t.tab[s] : Slot(t, t.tab[s][i].key) = s
  /\ Cardinality(Keys(h)) = Len(hm_foreach(h))
  /\ \A t \in {h.newer, h.older} : t.size = Len(h_foreach(t))
  /\ \A s \in DOMAIN h.older.tab : s < h.migrate_pos => h.older.tab[s] = <<>>

\* A rehash keeps up with the inserts that feed it: the table that is being
\* filled never holds more than its own limit, one node over at most for the
\* insert that finds the old table emptied but not yet discarded.
LoadBounded(h) == h.newer.size <= Slots(h.newer) * MaxLoad + 1
==============================================================================
