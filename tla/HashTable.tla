----------------------------- MODULE HashTable -----------------------------
(***************************************************************************)
(* The hash table behind hash_set and hash_map (include/atma/hash_map.hpp).*)
(*                                                                         *)
(* A table is an array of slots, a power of two of them.  A slot is a list *)
(* of chains that hold ChainLength elements each and are filled from the   *)
(* front; there is no erase.  The slot of a key is its hash masked with    *)
(* the LOGARITHM of the number of slots, so most slots are never used.     *)
(*                                                                         *)
(* The array of slots is taken from the allocator as it is: the model is   *)
(* of a table whose memory came zeroed.                                    *)
(***************************************************************************)
EXTENDS Integers, Sequences, FiniteSets

CONSTANTS
    Keys,           \* naturals; an element that was never filled has key 0
    Payloads,
    ChainLength,    \* elements of a chain (16)
    SlotCounts,     \* the numbers of slots tried, powers of two
    BucketSizes     \* the limits on the elements of a slot tried

VARIABLES
    table,          \* the number of slots, the limit, and the slots
    contents        \* what the table should hold: key -> payload

vars == <<table, contents>>

(* Of a number of 32 bits, so that five bits of the mask can be set.       *)
Log2[x \in Nat] == IF x <= 1 THEN 0 ELSE 1 + Log2[x \div 2]
And(m, n) ==
    LET bit(w) == IF (m \div w) % 2 = 1 /\ (n \div w) % 2 = 1 THEN w ELSE 0
    IN  bit(1) + bit(2) + bit(4) + bit(8) + bit(16)

(* The hash of a key is the key itself.                                    *)
SlotOf(key) == And(key, Log2[table.count])

Init ==
    /\ \E n \in SlotCounts, size \in BucketSizes :
         table = [count |-> n, limit |-> size, room |-> n,
                  slots |-> [s \in 0 .. n - 1 |-> <<>>]]
    /\ contents = <<>>

(* A slot that has chains keeps them, empty.                               *)
Reset(n, size) ==
    /\ n <= table.room /\ size >= table.limit
    /\ table' = [table EXCEPT
           !.count = n, !.limit = size,
           !.slots = [s \in DOMAIN @ |->
                         IF s < n THEN [i \in DOMAIN @[s] |-> <<>>] ELSE @[s]]]
    /\ contents' = <<>>

Places(slot) == {p \in (DOMAIN slot) \X (1 .. ChainLength) : p[2] \in DOMAIN slot[p[1]]}
Filled(slot) == Cardinality(Places(slot))
Holding(slot, key) == {p \in Places(slot) : slot[p[1]][p[2]].key = key}

PlacedInFirst(slot, x) ==    \* mutant: a full chain is not noticed
    IF slot = <<>> THEN <<<<x>>>> ELSE [slot EXCEPT ![1] = Append(@, x)]

Least(S) == CHOOSE i \in S : \A j \in S : i <= j

(* The first free element of the chains there are, or of a new one.        *)
Placed(slot, x) ==
    LET free == {i \in DOMAIN slot : Len(slot[i]) < ChainLength}
    IN  IF free = {} THEN Append(slot, <<x>>)
        ELSE [slot EXCEPT ![Least(free)] = Append(@, x)]

(* Every element of the slot is compared before one is added: a key that   *)
(* is there has its payload replaced, or kept, and a slot at its limit     *)
(* refuses.                                                                *)
InsertOrReplaceWith(key, payload, replaces) ==
    LET s == SlotOf(key)
        slot == table.slots[s]
        there == Holding(slot, key)
    IN  \/ /\ there # {}
           /\ \E p \in there : table' =
                [table EXCEPT !.slots[s][p[1]][p[2]].payload = IF replaces THEN payload ELSE @]
           /\ contents' = [contents EXCEPT ![key] = IF replaces THEN payload ELSE @]
        \/ /\ there = {} /\ Filled(slot) >= table.limit
           /\ UNCHANGED vars
        \/ /\ there = {} /\ Filled(slot) < table.limit
           /\ table' = [table EXCEPT !.slots[s] = Placed(@, [key |-> key, payload |-> payload])]
           /\ contents' = [k \in DOMAIN contents \cup {key} |->
                              IF k = key THEN payload ELSE contents[k]]

Insert(key, payload) == InsertOrReplaceWith(key, payload, FALSE)
Replace(key, payload) == InsertOrReplaceWith(key, payload, TRUE)

Next ==
    \/ \E n \in SlotCounts, size \in BucketSizes : Reset(n, size)
    \/ \E key \in Keys, payload \in Payloads : Insert(key, payload) \/ Replace(key, payload)

-----------------------------------------------------------------------------
(* find.  Its loop over the elements of a chain shifts nothing: it tests   *)
(* the first element's bit again and again while the index goes up.  So it *)
(* compares the elements of the first chain, the unfilled ones too, and    *)
(* leaves the array when none of them has the key; if the first element is *)
(* not filled it never ends.                                               *)

Find(key) ==
    LET slot == table.slots[SlotOf(key)]
        chain == Head(slot)
        element(i) == IF i \in DOMAIN chain THEN chain[i] ELSE [key |-> 0, payload |-> "unfilled"]
        match == {i \in 1 .. ChainLength : element(i).key = key}
    IN  IF slot = <<>> THEN "absent"
        ELSE IF chain = <<>> THEN "forever"
        ELSE IF match = {} THEN "outside"
        ELSE element(Least(match)).payload

ForAllInSameBucket(key) ==
    LET slot == table.slots[SlotOf(key)] IN [p \in Places(slot) |-> slot[p[1]][p[2]]]

(* A key is in the table once, in the slot where the next insertion looks, *)
(* with the payload last accepted for it; a walk over its bucket meets it; *)
(* and a find that ends in the table tells the truth, but for the key that *)
(* an unfilled element has.                                                *)
Agrees ==
    /\ \A key \in Keys :
         LET here == {p \in DOMAIN ForAllInSameBucket(key) : ForAllInSameBucket(key)[p].key = key}
         IN  IF key \in DOMAIN contents
             THEN /\ Cardinality(here) = 1
                  /\ \A p \in here : ForAllInSameBucket(key)[p].payload = contents[key]
                  /\ Find(key) \in {contents[key], "outside"}
             ELSE /\ here = {}
                  /\ Find(key) \in {"absent", "forever", "outside"}
                                    \cup (IF key = 0 THEN {"unfilled"} ELSE {})
    /\ \A s \in 0 .. table.count - 1 : Filled(table.slots[s]) <= table.limit

=============================================================================
