------------------------- MODULE HandleTableProofs -------------------------
(***************************************************************************)
(* The properties of HandleTable, proved for any number of threads, pages  *)
(* and slots.                                                              *)
(***************************************************************************)
EXTENDS HandleTable, Integers, FiniteSetTheorems, TLAPS

(* The invariant. *)

\* Threads that look at a page they found, and threads that have one to add.
AtListed == {"size", "next", "word", "claim", "count", "fill",
             "destroy", "weak", "clear", "uncount"}
Adding == {"publish", "link", "unpublish"}

\* A thread that has a slot to itself, and one that has a weak count to drop.
Owning == {"count", "fill", "clear"}
Dropping == {"destroy", "weak"}

Owns(t, h) == pc[t] \in Owning /\ MyHandle(t) = h
Destroys(t, h) == pc[t] = "destroy" /\ MyHandle(t) = h

\* Pages on their way to the list are each in one thread's hands.
PagesInv ==
  /\ Listed \subseteq pages
  /\ \A p \in pages : p < numbered
  /\ \A p \in pages \ Listed : \E t \in Threads : pc[t] \in {"link", "unpublish"} /\ at[t] = p
  /\ \A t \in Threads : pc[t] \in AtListed => at[t] \in Listed
  /\ \A t \in Threads : pc[t] \in Adding =>
       /\ at[t] \in Pages \ Listed /\ at[t] < numbered
       /\ pc[t] # "publish" => at[t] \in pages
  /\ \A t, u \in Threads : t # u /\ pc[t] \in Adding /\ pc[u] \in Adding => at[t] # at[u]

\* A page without a number is as new; slot 0 of page 0 is not for use.
SlotsInv ==
  /\ \A p \in Pages : numbered <= p => taken[p] = {} /\ size[p] = 0
  /\ 0 \in Pages /\ 0 < numbered => 0 \in taken[0]
  /\ SizeCountsSlots

\* The counts of a slot are the references, the strong ones together as one
\* weak one; a slot without a count is free, or in the hands of one thread.
HandleInv(h) ==
  /\ ref[h] = Total(strong, h)
  /\ wref[h] = Total(weak, h) + (IF ref[h] > 0 THEN 1 ELSE 0) + Cardinality(Busy(Dropping, h))
  /\ ref[h] > 0 => alive[h]
  /\ wref[h] > 0 \/ (\E t \in Threads : Owns(t, h)) =>
       h # 0 /\ PageOf(h) \in Listed /\ SlotOf(h) \in taken[PageOf(h)]
  /\ \A t \in Threads : Owns(t, h) => wref[h] = 0
  /\ \A t \in Threads : Destroys(t, h) => ref[h] = 0
  /\ \A t, u \in Threads : Owns(t, h) /\ Owns(u, h) => t = u
  /\ \A t, u \in Threads : Destroys(t, h) /\ Destroys(u, h) => t = u

RefsInv == \A h \in Handles : HandleInv(h)

TableInv == TypeOK /\ PagesInv /\ SlotsInv /\ RefsInv
-----------------------------------------------------------------------------
(* Handles, and references counted one by one. *)

\* A handle's slot and page are the ones it was made of.
LEMMA HandleParts ==
  ASSUME NEW s \in Slots, NEW p \in Pages
  PROVE  /\ Handle(s, p) \in Handles /\ Handle(s, p) \in Nat
         /\ SlotOf(Handle(s, p)) = s /\ PageOf(Handle(s, p)) = p
         /\ Handle(s, p) = 0 => s = 0 /\ p = 0
<1>1. /\ s \in Nat /\ s <= SlotMax - 1 /\ p \in Nat /\ p <= PageMax - 1
      /\ SlotMax \in Nat /\ PageMax \in Nat /\ PageMax > 0
  BY HandleTableAssumption DEF Slots, Pages
<1>2. PICK m \in Nat : m = s * PageMax
  BY <1>1
<1>3. PICK n \in Nat : n = SlotMax * PageMax
  BY <1>1
<1>4. m + PageMax <= n
  <2>1. (s + 1) * PageMax = m + PageMax
    BY <1>1, <1>2
  <2>2. s + 1 <= SlotMax
    BY <1>1
  <2>3. \A a, b, c \in Nat : a <= b => a * c <= b * c
    OBVIOUS
  <2>4. (s + 1) * PageMax <= SlotMax * PageMax
    BY <1>1, <2>2, <2>3
  <2> QED
    BY <1>3, <2>1, <2>4
<1>5. Handle(s, p) = m + p
  BY <1>2 DEF Handle
<1>6. m + p \in 0 .. n - 1
  BY <1>1, <1>4
<1>7. (m + p) \div PageMax = s /\ (m + p) % PageMax = p
  <2>1. PICK q \in Int : q = (m + p) \div PageMax
    BY <1>1
  <2>2. PICK x \in 0 .. PageMax - 1 : x = (m + p) % PageMax /\ m + p = q * PageMax + x
    BY <1>1, <2>1
  <2>3. (s - q) * PageMax = x - p
    BY <1>1, <1>2, <2>1, <2>2
  <2>4. s - q = 0
    <3>1. s - q \in Int /\ x - p < PageMax /\ x - p > -PageMax
      BY <1>1, <2>1, <2>2
    <3>2. \A d, k \in Int : k > 0 /\ d * k < k /\ d * k > -k => d = 0
      OBVIOUS
    <3> QED
      BY <1>1, <2>3, <3>1, <3>2
  <2> QED
    BY <1>1, <2>1, <2>2, <2>3, <2>4
<1>8. m + p = 0 => s = 0 /\ p = 0
  BY <1>1, <1>2
<1> QED
  BY <1>3, <1>5, <1>6, <1>7, <1>8 DEF Handles, SlotOf, PageOf

\* And every handle is made of a slot and a page.
LEMMA PartsHandle ==
  ASSUME NEW h \in Handles
  PROVE  SlotOf(h) \in Slots /\ PageOf(h) \in Pages /\ Handle(SlotOf(h), PageOf(h)) = h
<1>1. h \in Nat /\ SlotMax \in Nat /\ PageMax \in Nat /\ PageMax > 0 /\ SlotMax > 0
  BY HandleTableAssumption DEF Handles
<1>2. h <= SlotMax * PageMax - 1
  BY <1>1 DEF Handles
<1>3. PICK q \in Int : q = h \div PageMax
  BY <1>1
<1>4. PICK x \in 0 .. PageMax - 1 : x = h % PageMax /\ h = q * PageMax + x
  BY <1>1, <1>3
<1>5. q >= 0
  <2>1. \A a, k \in Int : k > 0 /\ a < 0 => a * k <= -k
    OBVIOUS
  <2> QED
    BY <1>1, <1>3, <1>4, <2>1
<1>6. q < SlotMax
  <2> SUFFICES ASSUME q >= SlotMax PROVE FALSE
    BY <1>1, <1>3
  <2>1. \A a, b, c \in Nat : a <= b => a * c <= b * c
    OBVIOUS
  <2>2. SlotMax * PageMax <= q * PageMax
    BY <1>1, <1>3, <1>5, <2>1
  <2> QED
    BY <1>1, <1>2, <1>3, <1>4, <2>2
<1> QED
  BY <1>1, <1>3, <1>4, <1>5, <1>6 DEF SlotOf, PageOf, Slots, Pages, Handle

Counts == [Threads -> [Handles -> 0 .. MaxRefs]]

\* References are finitely many, and no thread has more of them than there are.
LEMMA TotalBounds ==
  ASSUME NEW f \in Counts, NEW h \in Handles
  PROVE  /\ IsFiniteSet(References(f, h)) /\ Total(f, h) \in Nat
         /\ \A t \in Threads : f[t][h] \in Nat /\ f[t][h] <= Total(f, h)
         /\ Total(f, h) = 0 <=> \A t \in Threads : f[t][h] = 0
<1>1. MaxRefs \in Nat /\ IsFiniteSet(Threads)
  BY HandleTableAssumption
<1>2. IsFiniteSet(References(f, h)) /\ Total(f, h) \in Nat
  <2>1. IsFiniteSet(1 .. MaxRefs)
    BY <1>1, FS_Interval
  <2>2. IsFiniteSet(Threads \X (1 .. MaxRefs))
    BY <1>1, <2>1, FS_Product
  <2>3. References(f, h) \in SUBSET (Threads \X (1 .. MaxRefs))
    BY DEF References
  <2> QED
    BY <2>2, <2>3, FS_Subset, FS_CardinalityType DEF Total
<1>3. \A t \in Threads : f[t][h] \in 0 .. MaxRefs
  BY DEF Counts
<1>4. ASSUME NEW t \in Threads PROVE f[t][h] <= Total(f, h)
  <2> DEFINE n == f[t][h]
             g == [i \in 1 .. n |-> <<t, i>>]
  <2>1. n \in 0 .. MaxRefs
    BY <1>3
  <2>2. \A i \in 1 .. n : <<t, i>> \in References(f, h)
    BY <1>1, <2>1 DEF References
  <2>3. g \in Injection(1 .. n, References(f, h))
    <3>1. g \in [1 .. n -> References(f, h)]
      BY <2>2
    <3>2. \A i, j \in 1 .. n : g[i] = g[j] => i = j
      OBVIOUS
    <3> QED
      BY <3>1, <3>2 DEF Injection, IsInjective
  <2>4. Cardinality(1 .. n) <= Cardinality(References(f, h))
    BY <1>2, <2>3, FS_Injection
  <2>5. Cardinality(1 .. n) = n
    BY <1>1, <2>1, FS_Interval
  <2> QED
    BY <2>4, <2>5 DEF Total
<1>5. Total(f, h) = 0 <=> \A t \in Threads : f[t][h] = 0
  <2>1. Total(f, h) = 0 <=> References(f, h) = {}
    BY <1>2, FS_EmptySet DEF Total
  <2>2. References(f, h) = {} => \A t \in Threads : f[t][h] = 0
    <3> SUFFICES ASSUME NEW t \in Threads, f[t][h] # 0 PROVE References(f, h) # {}
      OBVIOUS
    <3>1. <<t, 1>> \in References(f, h)
      BY <1>1, <1>3 DEF References
    <3> QED
      BY <3>1
  <2>3. (\A t \in Threads : f[t][h] = 0) => References(f, h) = {}
    BY <1>1 DEF References
  <2> QED
    BY <2>1, <2>2, <2>3
<1> QED
  BY <1>2, <1>3, <1>4, <1>5

\* One more reference of h for thread t, and one fewer.
LEMMA TotalAfter ==
  ASSUME NEW f \in Counts, NEW h \in Handles, NEW t \in Threads
  PROVE  /\ f[t][h] < MaxRefs =>
              /\ [f EXCEPT ![t][h] = @ + 1] \in Counts
              /\ Total([f EXCEPT ![t][h] = @ + 1], h) = Total(f, h) + 1
         /\ f[t][h] > 0 =>
              /\ [f EXCEPT ![t][h] = @ - 1] \in Counts
              /\ Total([f EXCEPT ![t][h] = @ - 1], h) = Total(f, h) - 1
<1>1. MaxRefs \in Nat /\ f[t][h] \in 0 .. MaxRefs /\ \A u \in Threads : f[u][h] \in 0 .. MaxRefs
  BY HandleTableAssumption DEF Counts
<1>2. IsFiniteSet(References(f, h))
  BY TotalBounds
<1>3. ASSUME f[t][h] < MaxRefs
      PROVE  /\ [f EXCEPT ![t][h] = @ + 1] \in Counts
             /\ Total([f EXCEPT ![t][h] = @ + 1], h) = Total(f, h) + 1
  <2> DEFINE g == [f EXCEPT ![t][h] = @ + 1]
  <2>1. g \in Counts
    BY <1>1, <1>3 DEF Counts
  <2>2. g[t][h] = f[t][h] + 1 /\ \A u \in Threads : u # t => g[u][h] = f[u][h]
    BY DEF Counts
  <2>3. References(g, h) = References(f, h) \cup {<<t, f[t][h] + 1>>}
    <3> HIDE DEF g
    <3>1. ASSUME NEW x \in Threads \X (1 .. MaxRefs)
          PROVE  x[2] <= g[x[1]][h] <=> x[2] <= f[x[1]][h] \/ x = <<t, f[t][h] + 1>>
      <4>1. x[1] \in Threads /\ x[2] \in 1 .. MaxRefs /\ x = <<x[1], x[2]>>
        OBVIOUS
      <4>2. f[x[1]][h] \in 0 .. MaxRefs
        BY <1>1, <4>1
      <4>3. CASE x[1] = t
        BY <1>1, <2>2, <4>1, <4>2, <4>3
      <4>4. CASE x[1] # t
        BY <2>2, <4>1, <4>4
      <4> QED
        BY <4>3, <4>4
    <3>2. <<t, f[t][h] + 1>> \in Threads \X (1 .. MaxRefs)
      BY <1>1, <1>3
    <3> QED
      BY <3>1, <3>2 DEF References
  <2>4. <<t, f[t][h] + 1>> \notin References(f, h)
    BY <1>1 DEF References
  <2>5. Cardinality(References(g, h)) = Cardinality(References(f, h)) + 1
    <3> HIDE DEF g
    <3> QED
      BY <1>2, <2>3, <2>4, FS_AddElement
  <2> QED
    BY <2>1, <2>5 DEF Total
<1>4. ASSUME f[t][h] > 0
      PROVE  /\ [f EXCEPT ![t][h] = @ - 1] \in Counts
             /\ Total([f EXCEPT ![t][h] = @ - 1], h) = Total(f, h) - 1
  <2> DEFINE g == [f EXCEPT ![t][h] = @ - 1]
  <2>1. g \in Counts
    BY <1>1, <1>4 DEF Counts
  <2>2. g[t][h] = f[t][h] - 1 /\ \A u \in Threads : u # t => g[u][h] = f[u][h]
    BY DEF Counts
  <2>3. References(g, h) = References(f, h) \ {<<t, f[t][h]>>}
    <3> HIDE DEF g
    <3>1. ASSUME NEW x \in Threads \X (1 .. MaxRefs)
          PROVE  x[2] <= g[x[1]][h] <=> x[2] <= f[x[1]][h] /\ x # <<t, f[t][h]>>
      <4>1. x[1] \in Threads /\ x[2] \in 1 .. MaxRefs /\ x = <<x[1], x[2]>>
        OBVIOUS
      <4>2. f[x[1]][h] \in 0 .. MaxRefs
        BY <1>1, <4>1
      <4>3. CASE x[1] = t
        BY <1>1, <2>2, <4>1, <4>2, <4>3
      <4>4. CASE x[1] # t
        BY <2>2, <4>1, <4>4
      <4> QED
        BY <4>3, <4>4
    <3> QED
      BY <3>1 DEF References
  <2>4. <<t, f[t][h]>> \in References(f, h)
    BY <1>1, <1>4 DEF References
  <2>5. Cardinality(References(g, h)) = Cardinality(References(f, h)) - 1
    <3> HIDE DEF g
    <3>1. Cardinality(References(f, h) \ {<<t, f[t][h]>>}) = Cardinality(References(f, h)) - 1
      BY <1>2, <2>4, FS_RemoveElement, Zenon
    <3> QED
      BY <2>3, <3>1, Zenon
  <2> QED
    BY <2>1, <2>5 DEF Total
<1> QED
  BY <1>1, <1>3, <1>4

\* The other handles' references are what they were.
LEMMA TotalElsewhere ==
  ASSUME NEW f \in Counts, NEW g \in Counts, NEW h \in Handles,
         \A t \in Threads : g[t][h] = f[t][h]
  PROVE  Total(g, h) = Total(f, h)
<1>1. References(g, h) = References(f, h)
  BY DEF References
<1> QED
  BY <1>1 DEF Total
-----------------------------------------------------------------------------
(* What a step leaves alone. *)

Others(t) ==
  \A u \in Threads : u # t => pc'[u] = pc[u] /\ at'[u] = at[u] /\ slot'[u] = slot[u]

\* A call or a step of one thread leaves the other threads where they are.
LEMMA OthersStay ==
  ASSUME TypeOK, NEW t \in Threads, Call(t) \/ Step(t)
  PROVE  Others(t)
<1>1. CASE Construct(t)
  BY <1>1 DEF Construct, Goto, Others, TypeOK, local
<1>2. CASE \E h \in Handles : Release(t, h) \/ WeakRelease(t, h)
  BY <1>2 DEF Release, WeakRelease, Goto, Others, TypeOK
<1>3. CASE \E h \in Handles, u \in Threads : Retain(t, u, h) \/ WeakRetain(t, u, h)
  BY <1>3 DEF Retain, WeakRetain, Others, local
<1>4. CASE LoadFirst(t) \/ TestSize(t) \/ LoadNext(t) \/ TestPages(t)
  BY <1>4 DEF LoadFirst, TestSize, LoadNext, TestPages, Goto, Others, TypeOK, local
<1>5. CASE NumberPage(t) \/ Publish(t) \/ Link(t) \/ Unpublish(t)
  BY <1>5 DEF NumberPage, Publish, Link, Unpublish, Goto, Others, TypeOK, local
<1>6. CASE LoadWord(t) \/ CountSlot(t) \/ FillSlot(t) \/ DestroyPayload(t)
  BY <1>6 DEF LoadWord, TryNextWord, CountSlot, FillSlot, DestroyPayload, Goto, Others,
              TypeOK, local
<1>7. CASE ClaimSlot(t)
  BY <1>7 DEF ClaimSlot, TryNextWord, Goto, Others, TypeOK
<1>8. CASE DropWeak(t) \/ ClearBit(t) \/ UncountSlot(t)
  BY <1>8 DEF DropWeak, ClearBit, UncountSlot, Goto, Others, TypeOK, local
<1> QED
  BY <1>1, <1>2, <1>3, <1>4, <1>5, <1>6, <1>7, <1>8 DEF Call, Step

\* The list and the pages stay as they are for all but a thread that adds one.
LEMMA PagesKeep ==
  ASSUME PagesInv, NEW t \in Threads, Others(t), UNCHANGED <<pages, first, next, numbered>>,
         pc[t] \notin Adding, pc'[t] \notin Adding, pc'[t] \in AtListed => at'[t] \in Listed
  PROVE  PagesInv' /\ Listed' = Listed
<1>1. Listed' = Listed
  BY DEF Listed
<1>2. \A u \in Threads : pc[u] \in Adding => u # t /\ pc'[u] = pc[u] /\ at'[u] = at[u]
  BY DEF Others
<1>3. \A u \in Threads : pc'[u] \in Adding => pc'[u] = pc[u] /\ at'[u] = at[u]
  BY DEF Others
<1>4. \A p \in pages' \ Listed' :
          \E u \in Threads : pc'[u] \in {"link", "unpublish"} /\ at'[u] = p
  BY <1>1, <1>2 DEF PagesInv, Adding
<1>5. \A u \in Threads : pc'[u] \in AtListed => at'[u] \in Listed'
  BY <1>1 DEF PagesInv, Others
<1>6. \A u \in Threads : pc'[u] \in Adding =>
        /\ at'[u] \in Pages \ Listed' /\ at'[u] < numbered'
        /\ pc'[u] # "publish" => at'[u] \in pages'
  BY <1>1, <1>3 DEF PagesInv
<1>7. \A u, v \in Threads : u # v /\ pc'[u] \in Adding /\ pc'[v] \in Adding => at'[u] # at'[v]
  BY <1>3 DEF PagesInv
<1> QED
  BY <1>1, <1>4, <1>5, <1>6, <1>7 DEF PagesInv

\* Threads counting slots in, or out, of page p.
Counting(p) == {t \in Threads : pc[t] = "count" /\ at[t] = p}
Uncounting(p) == {t \in Threads : pc[t] = "uncount" /\ at[t] = p}

\* What a page counts is finite.
LEMMA CountsFinite ==
  ASSUME TypeOK, NEW p \in Pages
  PROVE  /\ IsFiniteSet(Counting(p)) /\ IsFiniteSet(Uncounting(p)) /\ IsFiniteSet(taken[p])
         /\ Cardinality(Counting(p)) \in Nat /\ Cardinality(Uncounting(p)) \in Nat
         /\ Cardinality(taken[p]) \in Nat /\ size[p] \in Nat
<1>1. IsFiniteSet(Threads) /\ IsFiniteSet(Slots)
  BY HandleTableAssumption, FS_Interval DEF Slots
<1>2. /\ Counting(p) \in SUBSET Threads /\ Uncounting(p) \in SUBSET Threads
      /\ taken[p] \in SUBSET Slots /\ size[p] \in Nat
  BY DEF Counting, Uncounting, TypeOK
<1> QED
  BY <1>1, <1>2, FS_Subset, FS_CardinalityType

\* A step that neither counts nor takes a slot keeps the sizes right.
LEMMA SlotsKeep ==
  ASSUME SlotsInv, NEW t \in Threads, Others(t), UNCHANGED <<size, taken, numbered>>,
         pc[t] \notin {"count", "uncount"}, pc'[t] \notin {"count", "uncount"}
  PROVE  SlotsInv'
<1>1. \A p \in Pages : Counting(p)' = Counting(p) /\ Uncounting(p)' = Uncounting(p)
  BY DEF Others, Counting, Uncounting
<1>2. SizeCountsSlots'
  BY <1>1 DEF SlotsInv, SizeCountsSlots, Counting, Uncounting
<1> QED
  BY <1>2 DEF SlotsInv

\* Who owns a handle's slot, destroys its payload or is to drop a weak count.
Droppers(h) == Busy(Dropping, h)

\* The weak counts to be dropped are finitely many.
LEMMA DroppersFinite ==
  ASSUME NEW h
  PROVE  IsFiniteSet(Droppers(h)) /\ Cardinality(Droppers(h)) \in Nat
<1>1. IsFiniteSet(Threads)
  BY HandleTableAssumption
<1>2. Droppers(h) \in SUBSET Threads
  BY DEF Droppers, Busy
<1> QED
  BY <1>1, <1>2, FS_Subset, FS_CardinalityType

\* A handle whose counts and whose threads stay as they are stays sound.
LEMMA HandleKeeps ==
  ASSUME NEW h \in Handles, HandleInv(h), NEW t \in Threads, Others(t),
         ref'[h] = ref[h], wref'[h] = wref[h], alive'[h] = alive[h],
         Total(strong, h)' = Total(strong, h), Total(weak, h)' = Total(weak, h),
         Listed \subseteq Listed',
         SlotOf(h) \in taken[PageOf(h)] => SlotOf(h) \in taken'[PageOf(h)],
         Owns(t, h)' <=> Owns(t, h), Destroys(t, h)' <=> Destroys(t, h),
         (t \in Droppers(h))' <=> t \in Droppers(h)
  PROVE  HandleInv(h)'
<1>1. \A u \in Threads : (Owns(u, h)' <=> Owns(u, h)) /\ (Destroys(u, h)' <=> Destroys(u, h))
  BY DEF Others, Owns, Destroys, MyHandle
<1>2. Droppers(h)' = Droppers(h)
  <2>1. \A u \in Threads : (u \in Droppers(h))' <=> u \in Droppers(h)
    BY DEF Others, Droppers, Busy, MyHandle
  <2> QED
    BY <2>1 DEF Droppers, Busy
<1>3. Cardinality(Busy(Dropping, h))' = Cardinality(Busy(Dropping, h))
  BY <1>2 DEF Droppers
<1> QED
  BY <1>1, <1>3 DEF HandleInv

\* A thread that has no handle's slot in hand before or after a step that
\* changes no count disturbs no handle.
LEMMA RefsKeep ==
  ASSUME RefsInv, NEW t \in Threads, Others(t),
         UNCHANGED <<ref, wref, alive, strong, weak>>,
         Listed \subseteq Listed', \A p \in Pages : taken[p] \subseteq taken'[p],
         pc[t] \notin Owning \cup Dropping, pc'[t] \notin Owning \cup Dropping
  PROVE  RefsInv'
<1> SUFFICES ASSUME NEW h \in Handles PROVE HandleInv(h)'
  BY DEF RefsInv
<1>1. HandleInv(h) /\ PageOf(h) \in Pages
  BY PartsHandle DEF RefsInv
<1>2. /\ Total(strong, h)' = Total(strong, h) /\ Total(weak, h)' = Total(weak, h)
  BY DEF Total, References
<1>3. /\ Owns(t, h)' <=> Owns(t, h)
      /\ Destroys(t, h)' <=> Destroys(t, h)
      /\ (t \in Droppers(h))' <=> t \in Droppers(h)
  BY DEF Owns, Destroys, Droppers, Busy, Dropping
<1> QED
  BY <1>1, <1>2, <1>3, HandleKeeps
-----------------------------------------------------------------------------
(* Walking the list. *)

\* A page has a first word of bits.
LEMMA ZeroIsWord == 0 \in Words
<1>1. SlotMax \in Nat /\ SlotMax > 0 /\ WordBits \in Nat /\ WordBits > 0 /\ SlotMax % WordBits = 0
  BY HandleTableAssumption
<1>2. PICK q \in Int : q = SlotMax \div WordBits /\ SlotMax = q * WordBits
  BY <1>1
<1>3. q > 0
  <2>1. \A a, k \in Int : k > 0 /\ a <= 0 => a * k <= 0
    OBVIOUS
  <2> QED
    BY <1>1, <1>2, <2>1
<1> QED
  BY <1>1, <1>2, <1>3 DEF Words

\* What the invariant says of one thread.
LEMMA ThreadFacts ==
  ASSUME TableInv, NEW t \in Threads
  PROVE  /\ slot[t] \in Slots /\ at[t] \in Pages \cup {Null} /\ Listed \subseteq Pages
         /\ pc[t] \in AtListed => at[t] \in Listed /\ at[t] \in Pages /\ MyHandle(t) \in Handles
         /\ pc[t] \in Adding => at[t] \in Pages \ Listed
         /\ \A p \in Listed : p \in pages /\ p \in Pages /\ p < numbered
<1>1. /\ slot[t] \in Slots /\ at[t] \in Pages \cup {Null}
  BY DEF TableInv, TypeOK
<1>2. Listed \subseteq Pages
  BY DEF Listed
<1>3. pc[t] \in AtListed => at[t] \in Listed /\ at[t] \in Pages
  BY <1>2 DEF TableInv, PagesInv
<1>4. pc[t] \in AtListed => MyHandle(t) \in Handles
  BY <1>1, <1>3, HandleParts DEF MyHandle
<1>5. /\ pc[t] \in Adding => at[t] \in Pages \ Listed
      /\ \A p \in Listed : p \in pages /\ p \in Pages /\ p < numbered
  BY <1>2 DEF TableInv, PagesInv
<1> QED
  BY <1>1, <1>2, <1>3, <1>4, <1>5

\* Looking for a page, and for a free bit of it, changes nothing of the table.
LEMMA WalkKeeps ==
  ASSUME TableInv, NEW t \in Threads,
         \/ Construct(t) \/ LoadFirst(t) \/ TestSize(t) \/ LoadNext(t)
         \/ TestPages(t) \/ LoadWord(t)
  PROVE  TableInv'
<1>0. TypeOK /\ PagesInv /\ SlotsInv /\ RefsInv /\ Others(t)
  BY OthersStay DEF TableInv, Call, Step
<1>1. UNCHANGED <<pages, first, next, size, taken, numbered, ref, wref, alive, strong, weak>>
  BY DEF Construct, LoadFirst, TestSize, LoadNext, TestPages, LoadWord, table, held
<1>2. /\ first # Null => first \in Listed
      /\ \A q \in Pages : next[q] # Null => next[q] \in Listed
      /\ pc[t] \in AtListed => at[t] \in Listed /\ at[t] \in Pages
  BY <1>0, ThreadFacts DEF TypeOK, Listed
<1>3. TypeOK'
  <2>1. CASE Construct(t)
    <3>1. made' \in [Threads -> 0 .. MaxConstructs]
      BY <1>0, <2>1, HandleTableAssumption DEF Construct, TypeOK
    <3> QED
      BY <1>0, <1>1, <2>1, <3>1 DEF Construct, Goto, TypeOK, local
  <2>2. CASE LoadFirst(t)
    BY <1>0, <1>1, <2>2 DEF LoadFirst, Goto, TypeOK, held
  <2>3. CASE TestSize(t)
    BY <1>0, <1>1, <2>3, ZeroIsWord DEF TestSize, Goto, TypeOK, held
  <2>4. CASE LoadNext(t)
    BY <1>0, <1>1, <1>2, <2>4 DEF LoadNext, Goto, TypeOK, AtListed, held
  <2>5. CASE TestPages(t)
    BY <1>0, <1>1, <2>5 DEF TestPages, Goto, TypeOK, local, held
  <2>6. CASE LoadWord(t)
    <3>1. taken[at[t]] \subseteq Slots
      BY <1>0, <1>2, <2>6 DEF LoadWord, TypeOK, AtListed
    <3> QED
      BY <1>0, <1>1, <2>6, <3>1 DEF LoadWord, TryNextWord, Goto, TypeOK, held
  <2> QED
    BY <2>1, <2>2, <2>3, <2>4, <2>5, <2>6
<1>4. /\ pc[t] \notin Owning \cup Dropping \cup Adding \cup {"uncount"}
      /\ pc'[t] \notin Owning \cup Dropping \cup Adding \cup {"uncount"}
      /\ pc'[t] \in AtListed => at'[t] \in Listed
  <2>1. CASE Construct(t)
    BY <1>0, <2>1 DEF Construct, Goto, TypeOK, Owning, Dropping, Adding, AtListed
  <2>2. CASE LoadFirst(t)
    BY <1>0, <1>2, <2>2 DEF LoadFirst, Goto, TypeOK, Owning, Dropping, Adding, AtListed
  <2>3. CASE TestSize(t)
    BY <1>0, <1>2, <2>3 DEF TestSize, Goto, TypeOK, Owning, Dropping, Adding, AtListed
  <2>4. CASE LoadNext(t)
    BY <1>0, <1>2, <2>4 DEF LoadNext, Goto, TypeOK, Owning, Dropping, Adding, AtListed
  <2>5. CASE TestPages(t)
    BY <1>0, <2>5 DEF TestPages, Goto, TypeOK, Owning, Dropping, Adding, AtListed
  <2>6. CASE LoadWord(t)
    BY <1>0, <1>2, <2>6
       DEF LoadWord, TryNextWord, Goto, TypeOK, Owning, Dropping, Adding, AtListed
  <2> QED
    BY <2>1, <2>2, <2>3, <2>4, <2>5, <2>6
<1>5. PagesInv' /\ Listed' = Listed
  BY <1>0, <1>1, <1>4, PagesKeep
<1>6. SlotsInv'
  BY <1>0, <1>1, <1>4, SlotsKeep DEF Owning
<1>7. RefsInv'
  BY <1>0, <1>1, <1>4, <1>5, RefsKeep
<1> QED
  BY <1>3, <1>5, <1>6, <1>7 DEF TableInv

-----------------------------------------------------------------------------
(* Adding a page. *)

\* A number is given out once.
LEMMA NumberKeeps ==
  ASSUME TableInv, NEW t \in Threads, NumberPage(t)
  PROVE  TableInv'
<1>0. TypeOK /\ PagesInv /\ SlotsInv /\ RefsInv /\ Others(t)
  BY OthersStay DEF TableInv, Step
<1>1. /\ UNCHANGED <<pages, first, next, size, ref, wref, alive, strong, weak>>
      /\ numbered' = numbered + 1 /\ numbered \in Nat /\ pc[t] = "number"
      /\ pc \in [Threads -> {"idle", "begin", "size", "next", "grow", "number", "publish",
                             "link", "unpublish", "word", "claim", "count", "fill",
                             "destroy", "weak", "clear", "uncount"}]
  BY <1>0 DEF NumberPage, TypeOK, held
<1>2. /\ numbered < PageMax => pc'[t] = "publish" /\ at'[t] = numbered
                               /\ taken' = [taken EXCEPT ![numbered] =
                                              IF numbered = 0 THEN {0} ELSE {}]
      /\ ~(numbered < PageMax) => pc'[t] = "begin" /\ at' = at /\ taken' = taken
  BY <1>0 DEF NumberPage, Goto, TypeOK
<1>3. numbered < PageMax => numbered \in Pages
  BY <1>1, HandleTableAssumption DEF Pages
<1>4. 0 \in Slots
  BY HandleTableAssumption DEF Slots
<1>5. TypeOK'
  <2>1. taken' \in [Pages -> SUBSET Slots]
    <3>1. taken \in [Pages -> SUBSET Slots] /\ {0} \in SUBSET Slots /\ {} \in SUBSET Slots
      BY <1>0, <1>4 DEF TypeOK
    <3>2. PICK new \in SUBSET Slots : new = IF numbered = 0 THEN {0} ELSE {}
      BY <3>1
    <3>3. taken' = taken \/ taken' = [taken EXCEPT ![numbered] = new]
      BY <1>2, <3>2
    <3> QED
      BY <3>1, <3>3
  <2>2. numbered' \in Nat
    BY <1>1
  <2> QED
    BY <1>0, <1>1, <1>3, <2>1, <2>2 DEF NumberPage, Goto, TypeOK, held
<1>6. Listed' = Listed /\ \A p \in Listed : p < numbered
  BY <1>0, <1>1 DEF Listed, PagesInv
<1>7. \A u \in Threads : u # t => pc'[u] = pc[u] /\ at'[u] = at[u]
  BY <1>0 DEF Others
<1>8. PagesInv'
  <2>1. \A p \in pages' : p < numbered'
    <3> SUFFICES ASSUME NEW p \in pages PROVE p < numbered + 1
      BY <1>1
    <3>1. p \in Nat /\ p < numbered
      BY <1>0 DEF PagesInv, TypeOK, Pages
    <3> QED
      BY <1>1, <3>1
  <2>2. \A p \in pages' \ Listed' :
          \E u \in Threads : pc'[u] \in {"link", "unpublish"} /\ at'[u] = p
    <3> SUFFICES ASSUME NEW p \in pages \ Listed
                 PROVE  \E u \in Threads : pc'[u] \in {"link", "unpublish"} /\ at'[u] = p
      BY <1>1, <1>6
    <3>1. PICK u \in Threads : pc[u] \in {"link", "unpublish"} /\ at[u] = p
      BY <1>0 DEF PagesInv
    <3> QED
      BY <1>1, <1>7, <3>1
  <2>3. \A u \in Threads : pc'[u] \in AtListed => at'[u] \in Listed'
    BY <1>0, <1>2, <1>6, <1>7 DEF PagesInv, AtListed
  <2>4. ASSUME NEW u \in Threads, pc'[u] \in Adding
        PROVE  /\ at'[u] \in Pages \ Listed' /\ at'[u] < numbered'
               /\ pc'[u] # "publish" => at'[u] \in pages'
    <3>1. CASE u = t
      <4>1. numbered < PageMax /\ pc'[u] = "publish" /\ at'[u] = numbered
        BY <1>2, <2>4, <3>1 DEF Adding
      <4>2. numbered \notin Listed /\ numbered < numbered + 1
        BY <1>1, <1>6
      <4> QED
        BY <1>1, <1>3, <1>6, <4>1, <4>2
    <3>2. CASE u # t
      <4>1. /\ at[u] \in Pages \ Listed /\ at[u] < numbered
            /\ pc[u] # "publish" => at[u] \in pages
        BY <1>0, <1>7, <2>4, <3>2 DEF PagesInv
      <4>2. at[u] < numbered + 1
        BY <1>1, <4>1 DEF Pages
      <4> QED
        BY <1>1, <1>6, <1>7, <3>2, <4>1, <4>2
    <3> QED
      BY <3>1, <3>2
  <2>5. ASSUME NEW u \in Threads, u # t, pc'[u] \in Adding, pc'[t] \in Adding
        PROVE  at'[u] # at'[t]
    <3>1. at[u] < numbered /\ at'[u] = at[u] /\ at'[t] = numbered
      BY <1>0, <1>2, <1>7, <2>5 DEF PagesInv, Adding
    <3> QED
      BY <1>1, <3>1
  <2>6. \A u, v \in Threads : u # v /\ pc'[u] \in Adding /\ pc'[v] \in Adding => at'[u] # at'[v]
    BY <1>0, <1>7, <2>5 DEF PagesInv
  <2>7. Listed' \subseteq pages'
    BY <1>0, <1>1, <1>6 DEF PagesInv
  <2> QED
    BY <2>1, <2>2, <2>3, <2>4, <2>6, <2>7 DEF PagesInv
<1>9. \A p \in Pages : taken[p] \subseteq taken'[p] /\ (p # numbered => taken'[p] = taken[p])
  <2> SUFFICES ASSUME NEW p \in Pages
               PROVE  taken[p] \subseteq taken'[p] /\ (p # numbered => taken'[p] = taken[p])
    OBVIOUS
  <2>1. p = numbered => taken[p] = {}
    BY <1>0, <1>1 DEF SlotsInv
  <2> QED
    BY <1>0, <1>2, <2>1 DEF TypeOK
<1>10. SlotsInv'
  <2>1. ASSUME NEW p \in Pages, numbered' <= p PROVE taken'[p] = {} /\ size'[p] = 0
    <3>1. numbered <= p /\ p # numbered
      BY <1>1, <2>1 DEF Pages
    <3> QED
      BY <1>0, <1>1, <1>9, <3>1 DEF SlotsInv
  <2>2. 0 \in Pages /\ 0 < numbered' => 0 \in taken'[0]
    <3>1. CASE numbered = 0
      BY <1>0, <1>2, <1>3, <3>1, HandleTableAssumption DEF TypeOK
    <3>2. CASE numbered # 0
      BY <1>0, <1>1, <1>9, <3>2 DEF SlotsInv
    <3> QED
      BY <3>1, <3>2
  <2>3. ASSUME NEW p \in Pages
        PROVE  size'[p] + Cardinality(Counting(p))' =
                 Cardinality(taken'[p]) - (IF p = 0 /\ 0 < numbered' THEN 1 ELSE 0)
                   + Cardinality(Uncounting(p))'
    <3>1. size[p] + Cardinality(Counting(p)) =
            Cardinality(taken[p]) - (IF p = 0 /\ 0 < numbered THEN 1 ELSE 0)
              + Cardinality(Uncounting(p))
      BY <1>0 DEF SlotsInv, SizeCountsSlots, Counting, Uncounting
    <3>2. Counting(p)' = Counting(p) /\ Uncounting(p)' = Uncounting(p)
      BY <1>1, <1>2, <1>7 DEF Counting, Uncounting
    <3>3. CASE p = numbered
      <4>1. size[p] = 0 /\ taken[p] = {}
        BY <1>0, <1>1, <3>3 DEF SlotsInv
      <4>2. Cardinality({}) = 0 /\ Cardinality({0}) = 1
        BY FS_EmptySet, FS_Singleton
      <4>3. numbered < PageMax /\ taken'[p] = IF p = 0 THEN {0} ELSE {}
        <5>1. numbered < PageMax
          BY <1>1, <3>3, HandleTableAssumption DEF Pages
        <5>2. taken \in [Pages -> SUBSET Slots]
          BY <1>0 DEF TypeOK
        <5> QED
          BY <1>2, <3>3, <5>1, <5>2
      <4>4. Cardinality(taken[p]) = 0
        BY <4>1, <4>2
      <4>5. Cardinality(taken'[p]) = IF p = 0 THEN 1 ELSE 0
        BY <4>2, <4>3
      <4>6. Cardinality(Counting(p)) \in Nat /\ Cardinality(Uncounting(p)) \in Nat
        BY <1>0, CountsFinite
      <4>7. p = 0 => ~(0 < numbered) /\ 0 < numbered'
        BY <1>1, <3>3
      <4>8. size'[p] = size[p] /\ Cardinality(Counting(p))' = Cardinality(Counting(p))
            /\ Cardinality(Uncounting(p))' = Cardinality(Uncounting(p))
        BY <1>1, <3>2
      <4> QED
        BY <3>1, <4>1, <4>4, <4>5, <4>6, <4>7, <4>8
    <3>4. CASE p # numbered
      <4>1. (p = 0 /\ 0 < numbered') <=> (p = 0 /\ 0 < numbered)
        BY <1>1, <3>4
      <4>2. taken'[p] = taken[p] /\ size'[p] = size[p]
        BY <1>1, <1>9, <3>4
      <4> QED
        BY <3>1, <3>2, <4>1, <4>2
    <3> QED
      BY <3>3, <3>4
  <2>4. SizeCountsSlots'
    BY <2>3 DEF SizeCountsSlots, Counting, Uncounting
  <2> QED
    BY <2>1, <2>2, <2>4 DEF SlotsInv
<1>11. RefsInv'
  <2>1. pc'[t] \notin Owning \cup Dropping /\ pc[t] \notin Owning \cup Dropping
    BY <1>1, <1>2 DEF Owning, Dropping
  <2> QED
    BY <1>0, <1>1, <1>6, <1>9, <2>1, RefsKeep
<1> QED
  BY <1>5, <1>8, <1>10, <1>11 DEF TableInv

\* The steps that publish, link and take back a page do not touch its slots.
LEMMA AddingKeeps ==
  ASSUME TypeOK, SlotsInv, RefsInv, NEW t \in Threads, Others(t),
         pc[t] \in Adding, pc'[t] \in Adding \cup {"word", "begin"},
         UNCHANGED <<size, taken, numbered, ref, wref, alive, strong, weak>>,
         Listed \subseteq Listed'
  PROVE  SlotsInv' /\ RefsInv'
<1>1. /\ pc[t] \notin Owning \cup Dropping \cup {"uncount"}
      /\ pc'[t] \notin Owning \cup Dropping \cup {"uncount"}
  BY DEF Adding, Owning, Dropping
<1>2. SlotsInv'
  BY <1>1, SlotsKeep DEF Owning
<1>3. RefsInv'
  BY <1>1, RefsKeep
<1> QED
  BY <1>2, <1>3

\* A new page is published under its number before it is linked.
LEMMA PublishKeeps ==
  ASSUME TableInv, NEW t \in Threads, Publish(t)
  PROVE  TableInv'
<1>0. TypeOK /\ PagesInv /\ SlotsInv /\ RefsInv /\ Others(t)
  BY OthersStay DEF TableInv, Step
<1>1. /\ UNCHANGED <<first, next, size, taken, numbered, ref, wref, alive, strong, weak>>
      /\ at' = at /\ pages' = pages \cup {at[t]} /\ pc[t] = "publish" /\ pc'[t] = "link"
  BY <1>0 DEF Publish, Goto, TypeOK, local, held
<1>2. at[t] \in Pages \ Listed /\ at[t] < numbered
  BY <1>0, <1>1 DEF PagesInv, Adding
<1>3. TypeOK'
  BY <1>0, <1>1, <1>2 DEF Publish, Goto, TypeOK, local, held
<1>4. Listed' = Listed
  BY <1>1 DEF Listed
<1>5. PagesInv'
  <2>1. \A u \in Threads : u # t => pc'[u] = pc[u] /\ at'[u] = at[u]
    BY <1>0 DEF Others
  <2>2. \A p \in pages' : p < numbered'
    BY <1>0, <1>1, <1>2 DEF PagesInv
  <2>3. \A p \in pages' \ Listed' :
          \E u \in Threads : pc'[u] \in {"link", "unpublish"} /\ at'[u] = p
    <3> SUFFICES ASSUME NEW p \in (pages \cup {at[t]}) \ Listed
                 PROVE  \E u \in Threads : pc'[u] \in {"link", "unpublish"} /\ at'[u] = p
      BY <1>1, <1>4
    <3>1. CASE p = at[t]
      BY <1>1, <3>1
    <3>2. CASE p # at[t]
      <4>1. PICK u \in Threads : pc[u] \in {"link", "unpublish"} /\ at[u] = p
        BY <1>0, <3>2 DEF PagesInv
      <4> QED
        BY <1>1, <2>1, <4>1
    <3> QED
      BY <3>1, <3>2
  <2>4. \A u \in Threads : pc'[u] \in AtListed => at'[u] \in Listed'
    BY <1>0, <1>1, <1>4, <2>1 DEF PagesInv, AtListed
  <2>5. \A u \in Threads : pc'[u] \in Adding =>
          /\ at'[u] \in Pages \ Listed' /\ at'[u] < numbered'
          /\ pc'[u] # "publish" => at'[u] \in pages'
    BY <1>0, <1>1, <1>2, <1>4, <2>1 DEF PagesInv
  <2>6. \A u, v \in Threads : u # v /\ pc'[u] \in Adding /\ pc'[v] \in Adding => at'[u] # at'[v]
    BY <1>0, <1>1, <2>1 DEF PagesInv, Adding
  <2>7. Listed' \subseteq pages'
    BY <1>0, <1>1, <1>4 DEF PagesInv
  <2> QED
    BY <2>2, <2>3, <2>4, <2>5, <2>6, <2>7 DEF PagesInv
<1>6. SlotsInv' /\ RefsInv'
  BY <1>0, <1>1, <1>4, AddingKeeps DEF Adding
<1> QED
  BY <1>3, <1>5, <1>6 DEF TableInv

\* The exchange adds the page where the list ended, or fails; it overwrites no link.
LEMMA LinkKeeps ==
  ASSUME TableInv, NEW t \in Threads, Link(t)
  PROVE  TableInv'
<1>0. TypeOK /\ PagesInv /\ SlotsInv /\ RefsInv /\ Others(t)
  BY OthersStay DEF TableInv, Step
<1>1. /\ UNCHANGED <<pages, size, taken, numbered, ref, wref, alive, strong, weak>>
      /\ at' = at /\ pc[t] = "link" /\ tail[t] \in Pages \cup {Null}
      /\ pc'[t] = IF AtTail(t) THEN "word" ELSE "unpublish"
  BY <1>0 DEF Link, Goto, TypeOK, held
<1>2. at[t] \in Pages \ Listed /\ at[t] < numbered /\ at[t] \in pages
  BY <1>0, <1>1 DEF PagesInv, Adding
<1>3. TypeOK'
  BY <1>0, <1>2, ZeroIsWord DEF Link, Goto, TypeOK, held
<1>4. Listed' = IF AtTail(t) THEN Listed \cup {at[t]} ELSE Listed
  <2>1. CASE ~AtTail(t)
    BY <2>1 DEF Link, Listed
  <2>2. CASE AtTail(t) /\ tail[t] = Null
    <3>1. first = Null /\ first' = at[t] /\ next' = next /\ Null \notin Pages
      BY <2>2, HandleTableAssumption DEF Link, AtTail, Pages
    <3> QED
      BY <1>2, <2>2, <3>1 DEF Listed
  <2>3. CASE AtTail(t) /\ tail[t] # Null
    <3>1. /\ next[tail[t]] = Null /\ next' = [next EXCEPT ![tail[t]] = at[t]] /\ first' = first
          /\ Null \notin Pages /\ tail[t] \in Pages
      BY <1>1, <2>3, HandleTableAssumption DEF Link, AtTail, Pages
    <3>2. next'[tail[t]] = at[t] /\ \A q \in Pages : q # tail[t] => next'[q] = next[q]
      BY <1>0, <3>1 DEF TypeOK
    <3>3. \A p \in Pages :
            (\E q \in Pages : next'[q] = p) <=> p = at[t] \/ \E q \in Pages : next[q] = p
      BY <3>1, <3>2
    <3> QED
      BY <1>2, <2>3, <3>1, <3>3 DEF Listed
  <2> QED
    BY <2>1, <2>2, <2>3
<1>5. PagesInv'
  <2>1. \A u \in Threads : u # t => pc'[u] = pc[u] /\ at'[u] = at[u]
    BY <1>0 DEF Others
  <2>2. \A p \in pages' : p < numbered'
    BY <1>0, <1>1 DEF PagesInv
  <2>3. \A p \in pages' \ Listed' :
          \E u \in Threads : pc'[u] \in {"link", "unpublish"} /\ at'[u] = p
    <3> SUFFICES ASSUME NEW p \in pages \ Listed, p \notin Listed'
                 PROVE  \E u \in Threads : pc'[u] \in {"link", "unpublish"} /\ at'[u] = p
      BY <1>1, <1>4
    <3>1. PICK u \in Threads : pc[u] \in {"link", "unpublish"} /\ at[u] = p
      BY <1>0 DEF PagesInv
    <3>2. CASE u = t
      BY <1>1, <1>4, <3>1, <3>2
    <3>3. CASE u # t
      BY <2>1, <3>1, <3>3
    <3> QED
      BY <3>2, <3>3
  <2>4. \A u \in Threads : pc'[u] \in AtListed => at'[u] \in Listed'
    BY <1>0, <1>1, <1>4, <2>1 DEF PagesInv, AtListed
  <2>5. ASSUME NEW u \in Threads, pc'[u] \in Adding
        PROVE  /\ at'[u] \in Pages \ Listed' /\ at'[u] < numbered'
               /\ pc'[u] # "publish" => at'[u] \in pages'
    <3>1. CASE u = t
      BY <1>1, <1>2, <1>4, <2>5, <3>1 DEF Adding
    <3>2. CASE u # t
      <4>1. at[u] # at[t] /\ pc[u] \in Adding
        BY <1>0, <1>1, <2>1, <2>5, <3>2 DEF PagesInv, Adding
      <4> QED
        BY <1>0, <1>1, <1>4, <2>1, <3>2, <4>1 DEF PagesInv
    <3> QED
      BY <3>1, <3>2
  <2>6. \A u, v \in Threads : u # v /\ pc'[u] \in Adding /\ pc'[v] \in Adding => at'[u] # at'[v]
    BY <1>0, <1>1, <2>1 DEF PagesInv, Adding
  <2>7. Listed' \subseteq pages'
    BY <1>0, <1>1, <1>2, <1>4 DEF PagesInv
  <2> QED
    BY <2>2, <2>3, <2>4, <2>5, <2>6, <2>7 DEF PagesInv
<1>6. SlotsInv' /\ RefsInv'
  BY <1>0, <1>1, <1>4, AddingKeeps DEF Adding
<1> QED
  BY <1>3, <1>5, <1>6 DEF TableInv

\* A page that lost the race to be linked is taken back; no handle names it.
LEMMA UnpublishKeeps ==
  ASSUME TableInv, NEW t \in Threads, Unpublish(t)
  PROVE  TableInv'
<1>0. TypeOK /\ PagesInv /\ SlotsInv /\ RefsInv /\ Others(t)
  BY OthersStay DEF TableInv, Step
<1>1. /\ UNCHANGED <<first, next, size, taken, numbered, ref, wref, alive, strong, weak>>
      /\ at' = at /\ pages' = pages \ {at[t]} /\ pc[t] = "unpublish" /\ pc'[t] = "begin"
  BY <1>0 DEF Unpublish, Goto, TypeOK, local, held
<1>2. at[t] \in Pages \ Listed
  BY <1>0, <1>1 DEF PagesInv, Adding
<1>3. TypeOK'
  BY <1>0, <1>1 DEF Unpublish, Goto, TypeOK, local, held
<1>4. Listed' = Listed
  BY <1>1 DEF Listed
<1>5. PagesInv'
  <2>1. \A u \in Threads : u # t => pc'[u] = pc[u] /\ at'[u] = at[u]
    BY <1>0 DEF Others
  <2>2. \A p \in pages' : p < numbered'
    BY <1>0, <1>1 DEF PagesInv
  <2>3. \A p \in pages' \ Listed' :
          \E u \in Threads : pc'[u] \in {"link", "unpublish"} /\ at'[u] = p
    <3> SUFFICES ASSUME NEW p \in pages \ Listed, p # at[t]
                 PROVE  \E u \in Threads : pc'[u] \in {"link", "unpublish"} /\ at'[u] = p
      BY <1>1, <1>4
    <3>1. PICK u \in Threads : pc[u] \in {"link", "unpublish"} /\ at[u] = p
      BY <1>0 DEF PagesInv
    <3> QED
      BY <2>1, <3>1
  <2>4. \A u \in Threads : pc'[u] \in AtListed => at'[u] \in Listed'
    BY <1>0, <1>1, <1>4, <2>1 DEF PagesInv, AtListed
  <2>5. ASSUME NEW u \in Threads, pc'[u] \in Adding
        PROVE  /\ at'[u] \in Pages \ Listed' /\ at'[u] < numbered'
               /\ pc'[u] # "publish" => at'[u] \in pages'
    <3>1. u # t
      BY <1>1, <2>5 DEF Adding
    <3>2. at[u] # at[t]
      BY <1>0, <1>1, <2>1, <2>5, <3>1 DEF PagesInv, Adding
    <3> QED
      BY <1>0, <1>1, <1>4, <2>1, <2>5, <3>1, <3>2 DEF PagesInv
  <2>6. \A u, v \in Threads : u # v /\ pc'[u] \in Adding /\ pc'[v] \in Adding => at'[u] # at'[v]
    BY <1>0, <1>1, <2>1 DEF PagesInv, Adding
  <2>7. Listed' \subseteq pages'
    BY <1>0, <1>1, <1>2, <1>4 DEF PagesInv
  <2> QED
    BY <2>2, <2>3, <2>4, <2>5, <2>6, <2>7 DEF PagesInv
<1>6. SlotsInv' /\ RefsInv'
  BY <1>0, <1>1, <1>4, AddingKeeps DEF Adding
<1> QED
  BY <1>3, <1>5, <1>6 DEF TableInv
-----------------------------------------------------------------------------
(* Claiming a slot. *)

\* The counts of a handle as numbers: a reference of either kind is counted in
\* wref_count, and lookup_handle finds the page of a handle that is.
LEMMA HandleFacts ==
  ASSUME TableInv, NEW h \in Handles
  PROVE  /\ HandleInv(h) /\ PageOf(h) \in Pages /\ SlotOf(h) \in Slots
         /\ ref[h] \in 0 .. MaxRefs /\ wref[h] \in 0 .. MaxRefs /\ MaxRefs \in Nat /\ MaxRefs > 0
         /\ strong \in Counts /\ weak \in Counts
         /\ ref[h] = Total(strong, h) /\ ref[h] \in Nat
         /\ Total(weak, h) \in Nat /\ Cardinality(Droppers(h)) \in Nat
         /\ wref[h] = Total(weak, h) + (IF ref[h] > 0 THEN 1 ELSE 0) + Cardinality(Droppers(h))
         /\ \A t \in Threads : /\ strong[t][h] \in Nat /\ strong[t][h] <= ref[h]
                               /\ weak[t][h] \in Nat /\ weak[t][h] <= Total(weak, h)
         /\ \A t \in Droppers(h) : Cardinality(Droppers(h)) > 0
         /\ Cardinality(Droppers(h)) = 0 => Droppers(h) = {}
         /\ wref[h] > 0 => Found(h)
<1>1. HandleInv(h)
  BY DEF TableInv, RefsInv
<1>2. /\ ref[h] \in 0 .. MaxRefs /\ wref[h] \in 0 .. MaxRefs /\ MaxRefs \in Nat /\ MaxRefs > 0
      /\ strong \in Counts /\ weak \in Counts
  BY HandleTableAssumption DEF TableInv, TypeOK, Counts
<1>3. PageOf(h) \in Pages /\ SlotOf(h) \in Slots
  BY PartsHandle
<1>4. /\ Total(weak, h) \in Nat
      /\ \A t \in Threads : strong[t][h] \in Nat /\ strong[t][h] <= Total(strong, h)
      /\ \A t \in Threads : weak[t][h] \in Nat /\ weak[t][h] <= Total(weak, h)
  BY <1>2, TotalBounds
<1>5. /\ ref[h] = Total(strong, h)
      /\ wref[h] = Total(weak, h) + (IF ref[h] > 0 THEN 1 ELSE 0) + Cardinality(Droppers(h))
  BY <1>1 DEF HandleInv, Droppers
<1>6. IsFiniteSet(Droppers(h)) /\ Cardinality(Droppers(h)) \in Nat
  BY DroppersFinite
<1>7. Cardinality(Droppers(h)) = 0 <=> Droppers(h) = {}
  BY <1>6, FS_EmptySet
<1>8. \A t \in Droppers(h) : Cardinality(Droppers(h)) > 0
  BY <1>6, <1>7
<1>9. wref[h] > 0 => Found(h)
  BY <1>1 DEF HandleInv, Found, TableInv, PagesInv
<1>10. ref[h] \in Nat
  BY <1>2
<1> QED
  BY <1>1, <1>2, <1>3, <1>4, <1>5, <1>6, <1>7, <1>8, <1>9, <1>10

\* The slot a thread claims was free, and nobody's.
LEMMA ClaimKeeps ==
  ASSUME TableInv, NEW t \in Threads, ClaimSlot(t)
  PROVE  TableInv'
<1>0. TypeOK /\ PagesInv /\ SlotsInv /\ RefsInv /\ Others(t)
  BY OthersStay DEF TableInv, Step
<1>1. /\ UNCHANGED <<pages, first, next, size, numbered, ref, wref, alive, strong, weak>>
      /\ at' = at /\ pc[t] = "claim" /\ at[t] \in Listed /\ at[t] \in Pages
      /\ at[t] < numbered
  BY ThreadFacts DEF ClaimSlot, held, AtListed
<1>2. CASE UNCHANGED taken
  <2>1. pc'[t] \in {"word", "begin", "claim"} /\ slot' = slot
    <3> DEFINE free == WordSlots(word[t]) \ seen[t]
    <3>1. CASE free = {}
      BY <1>0, <3>1 DEF ClaimSlot, TryNextWord, Goto, TypeOK
    <3>2. CASE free # {} /\ ~WordUnchanged(t)
      BY <1>1, <3>2 DEF ClaimSlot
    <3>3. CASE free # {} /\ WordUnchanged(t)
      <4>1. PICK bit \in free : taken' = [taken EXCEPT ![at[t]] = @ \cup {bit}]
        BY <3>3 DEF ClaimSlot
      <4>2. bit \in taken'[at[t]]
        BY <1>0, <1>1, <4>1 DEF TypeOK
      <4>3. bit \notin taken[at[t]]
        BY <3>3, <4>1 DEF WordUnchanged
      <4> QED
        BY <1>2, <4>2, <4>3
    <3> QED
      BY <3>1, <3>2, <3>3
  <2>2. PagesInv' /\ Listed' = Listed
    BY <1>0, <1>1, <2>1, PagesKeep DEF Adding
  <2>3. SlotsInv'
    BY <1>0, <1>1, <1>2, <2>1, SlotsKeep
  <2>4. RefsInv'
    BY <1>0, <1>1, <1>2, <2>1, <2>2, RefsKeep DEF Owning, Dropping
  <2>5. TypeOK'
    <3>1. taken[at[t]] \cap WordSlots(word[t]) \in SUBSET Slots
      BY DEF WordSlots
    <3> QED
      BY <1>0, <1>1, <1>2, <2>1, <3>1 DEF ClaimSlot, TryNextWord, Goto, TypeOK, held
  <2> QED
    BY <2>2, <2>3, <2>4, <2>5 DEF TableInv
<1>3. ASSUME ~UNCHANGED taken PROVE TableInv'
  <2>1. /\ WordUnchanged(t) /\ pc' = [pc EXCEPT ![t] = "count"] /\ UNCHANGED <<word, seen>>
        /\ \E bit \in WordSlots(word[t]) \ seen[t] :
             taken' = [taken EXCEPT ![at[t]] = @ \cup {bit}] /\ slot' = [slot EXCEPT ![t] = bit]
    BY <1>3 DEF ClaimSlot, TryNextWord, Goto
  <2>2. PICK bit \in WordSlots(word[t]) \ seen[t] :
          taken' = [taken EXCEPT ![at[t]] = @ \cup {bit}] /\ slot' = [slot EXCEPT ![t] = bit]
    BY <2>1
  <2>3. bit \in Slots /\ bit \notin taken[at[t]]
    BY <2>1, <2>2 DEF WordUnchanged, WordSlots
  <2>4. /\ pc'[t] = "count" /\ slot'[t] = bit /\ at'[t] = at[t]
        /\ taken'[at[t]] = taken[at[t]] \cup {bit}
        /\ \A p \in Pages : p # at[t] => taken'[p] = taken[p]
        /\ \A p \in Pages : taken[p] \subseteq taken'[p]
    BY <1>0, <1>1, <2>1, <2>2 DEF TypeOK
  <2>5. TypeOK'
    <3>1. taken[at[t]] \cup {bit} \in SUBSET Slots
      BY <1>0, <1>1, <2>3 DEF TypeOK
    <3> QED
      BY <1>0, <1>1, <2>1, <2>2, <2>3, <3>1 DEF ClaimSlot, TypeOK, held
  <2>6. PagesInv' /\ Listed' = Listed
    BY <1>0, <1>1, <2>4, PagesKeep DEF Adding
  <2>7. SlotsInv'
    <3>1. ASSUME NEW p \in Pages
          PROVE  size'[p] + Cardinality(Counting(p))' =
                   Cardinality(taken'[p]) - (IF p = 0 /\ 0 < numbered' THEN 1 ELSE 0)
                     + Cardinality(Uncounting(p))'
      <4>1. /\ size[p] + Cardinality(Counting(p)) =
                 Cardinality(taken[p]) - (IF p = 0 /\ 0 < numbered THEN 1 ELSE 0)
                   + Cardinality(Uncounting(p))
            /\ IsFiniteSet(Counting(p)) /\ IsFiniteSet(taken[p])
            /\ Cardinality(Counting(p)) \in Nat /\ Cardinality(Uncounting(p)) \in Nat
            /\ Cardinality(taken[p]) \in Nat /\ size[p] \in Nat
        BY <1>0, CountsFinite DEF SlotsInv, SizeCountsSlots, Counting, Uncounting
      <4>2. Uncounting(p)' = Uncounting(p)
        BY <1>0, <1>1, <2>4 DEF Uncounting, Others
      <4>3. CASE p = at[t]
        <5>1. Counting(p)' = Counting(p) \cup {t} /\ t \notin Counting(p)
          BY <1>0, <1>1, <2>4, <4>3 DEF Counting, Others
        <5>2. Cardinality(Counting(p) \cup {t}) = Cardinality(Counting(p)) + 1
          BY <4>1, <5>1, FS_AddElement
        <5>3. Cardinality(taken[p] \cup {bit}) = Cardinality(taken[p]) + 1
          BY <2>3, <4>1, <4>3, FS_AddElement
        <5>4. /\ Cardinality(Counting(p))' = Cardinality(Counting(p)) + 1
              /\ Cardinality(taken'[p]) = Cardinality(taken[p]) + 1
              /\ Cardinality(Uncounting(p))' = Cardinality(Uncounting(p))
              /\ size'[p] = size[p] /\ numbered' = numbered
          BY <1>1, <2>4, <4>2, <4>3, <5>1, <5>2, <5>3
        <5> QED
          BY <4>1, <5>4
      <4>4. CASE p # at[t]
        <5>1. Counting(p)' = Counting(p)
          BY <1>0, <1>1, <2>4, <4>4 DEF Counting, Others
        <5> QED
          BY <1>1, <2>4, <4>1, <4>2, <4>4, <5>1
      <4> QED
        BY <4>3, <4>4
    <3>2. SizeCountsSlots'
      BY <3>1 DEF SizeCountsSlots, Counting, Uncounting
    <3>3. \A p \in Pages : numbered' <= p => taken'[p] = {} /\ size'[p] = 0
      <4> SUFFICES ASSUME NEW p \in Pages, numbered <= p PROVE taken'[p] = {} /\ size[p] = 0
        BY <1>1
      <4>1. p # at[t]
        BY <1>0, <1>1 DEF TypeOK, Pages
      <4> QED
        BY <1>0, <2>4, <4>1 DEF SlotsInv
    <3>4. 0 \in Pages /\ 0 < numbered' => 0 \in taken'[0]
      BY <1>0, <1>1, <2>4 DEF SlotsInv
    <3> QED
      BY <3>2, <3>3, <3>4 DEF SlotsInv
  <2>8. RefsInv'
    <3> SUFFICES ASSUME NEW h \in Handles PROVE HandleInv(h)'
      BY DEF RefsInv
    <3>1. MyHandle(t)' = Handle(bit, at[t]) /\ SlotOf(Handle(bit, at[t])) = bit
          /\ PageOf(Handle(bit, at[t])) = at[t] /\ (Handle(bit, at[t]) = 0 => bit = 0 /\ at[t] = 0)
      BY <1>1, <2>3, <2>4, HandleParts DEF MyHandle
    <3>2. /\ Total(strong, h)' = Total(strong, h) /\ Total(weak, h)' = Total(weak, h)
      BY <1>1 DEF Total, References
    <3>3. /\ ~Destroys(t, h)' /\ ~Destroys(t, h) /\ ~Owns(t, h)
          /\ ~(t \in Droppers(h))' /\ t \notin Droppers(h)
      BY <1>1, <2>4 DEF Destroys, Owns, Droppers, Busy, Dropping, Owning
    <3>4. CASE h # Handle(bit, at[t])
      <4>1. ~Owns(t, h)'
        BY <3>1, <3>4 DEF Owns
      <4>2. HandleInv(h) /\ PageOf(h) \in Pages
        BY HandleFacts
      <4>3. /\ ref'[h] = ref[h] /\ wref'[h] = wref[h] /\ alive'[h] = alive[h]
            /\ SlotOf(h) \in taken[PageOf(h)] => SlotOf(h) \in taken'[PageOf(h)]
            /\ Listed \subseteq Listed'
        BY <1>1, <2>4, <2>6, <4>2
      <4> QED
        BY <1>0, <3>2, <3>3, <4>1, <4>2, <4>3, HandleKeeps
    <3>5. CASE h = Handle(bit, at[t])
      <4>1. HandleInv(h) /\ wref[h] \in Nat
        BY HandleFacts
      <4>2. wref[h] = 0 /\ \A u \in Threads : ~Owns(u, h)
        BY <2>3, <3>1, <3>5, <4>1 DEF HandleInv
      <4>3. h # 0
        BY <1>0, <1>1, <2>3, <3>1, <3>5 DEF SlotsInv, TypeOK, Pages
      <4>4. \A u \in Threads : /\ Owns(u, h)' <=> u = t
                               /\ Destroys(u, h)' <=> Destroys(u, h)
        BY <1>0, <2>4, <3>1, <3>3, <3>5, <4>2 DEF Owns, Destroys, Owning, MyHandle, Others
      <4>5. Droppers(h)' = Droppers(h)
        <5>1. \A u \in Threads : (u \in Droppers(h))' <=> u \in Droppers(h)
          BY <1>0, <3>3 DEF Others, Droppers, Busy, MyHandle
        <5> QED
          BY <5>1 DEF Droppers, Busy
      <4>6. Cardinality(Busy(Dropping, h))' = Cardinality(Busy(Dropping, h))
        BY <4>5 DEF Droppers
      <4>7. PageOf(h) \in Listed' /\ SlotOf(h) \in taken'[PageOf(h)]
        BY <1>1, <2>4, <2>6, <3>1, <3>5
      <4> QED
        BY <1>1, <3>2, <4>1, <4>2, <4>3, <4>4, <4>6, <4>7 DEF HandleInv
    <3> QED
      BY <3>4, <3>5
  <2> QED
    BY <2>5, <2>6, <2>7, <2>8 DEF TableInv
<1> QED
  BY <1>2, <1>3
\* The slot a thread counts in is one more of the page's size, and one fewer
\* that is claimed and not counted.
LEMMA CountKeeps ==
  ASSUME TableInv, NEW t \in Threads, CountSlot(t)
  PROVE  TableInv'
<1>0. TypeOK /\ PagesInv /\ SlotsInv /\ RefsInv /\ Others(t)
  BY OthersStay DEF TableInv, Step
<1>1. /\ UNCHANGED <<pages, first, next, taken, numbered, ref, wref, alive, strong, weak, at, slot>>
      /\ pc[t] = "count" /\ pc'[t] = "fill" /\ at[t] \in Listed /\ at[t] \in Pages
      /\ at[t] < numbered /\ size' = [size EXCEPT ![at[t]] = @ + 1]
  BY <1>0, ThreadFacts DEF CountSlot, Goto, TypeOK, local, held, AtListed
<1>2. TypeOK'
  <2>1. size' \in [Pages -> Nat]
    BY <1>0, <1>1 DEF TypeOK
  <2> QED
    BY <1>0, <1>1, <2>1 DEF CountSlot, Goto, TypeOK, local, held
<1>3. PagesInv' /\ Listed' = Listed
  BY <1>0, <1>1, PagesKeep DEF Adding
<1>4. SlotsInv'
  <2>1. ASSUME NEW p \in Pages
        PROVE  size'[p] + Cardinality(Counting(p))' =
                 Cardinality(taken'[p]) - (IF p = 0 /\ 0 < numbered' THEN 1 ELSE 0)
                   + Cardinality(Uncounting(p))'
    <3>1. /\ size[p] + Cardinality(Counting(p)) =
               Cardinality(taken[p]) - (IF p = 0 /\ 0 < numbered THEN 1 ELSE 0)
                 + Cardinality(Uncounting(p))
          /\ IsFiniteSet(Counting(p)) /\ Cardinality(Counting(p)) \in Nat
          /\ Cardinality(Uncounting(p)) \in Nat /\ Cardinality(taken[p]) \in Nat /\ size[p] \in Nat
      BY <1>0, CountsFinite DEF SlotsInv, SizeCountsSlots, Counting, Uncounting
    <3>2. Uncounting(p)' = Uncounting(p)
      BY <1>0, <1>1 DEF Uncounting, Others
    <3>3. CASE p = at[t]
      <4>1. Counting(p)' = Counting(p) \ {t} /\ t \in Counting(p)
        BY <1>0, <1>1, <3>3 DEF Counting, Others
      <4>2. Cardinality(Counting(p) \ {t}) = Cardinality(Counting(p)) - 1
        BY <3>1, <4>1, FS_RemoveElement, Zenon
      <4>3. /\ Cardinality(Counting(p))' = Cardinality(Counting(p)) - 1
            /\ Cardinality(Uncounting(p))' = Cardinality(Uncounting(p))
            /\ size'[p] = size[p] + 1 /\ taken' = taken /\ numbered' = numbered
        BY <1>0, <1>1, <3>2, <3>3, <4>1, <4>2 DEF TypeOK
      <4> QED
        BY <3>1, <4>3
    <3>4. CASE p # at[t]
      <4>1. Counting(p)' = Counting(p) /\ size'[p] = size[p]
        BY <1>0, <1>1, <3>4 DEF Counting, Others, TypeOK
      <4> QED
        BY <1>1, <3>1, <3>2, <4>1
    <3> QED
      BY <3>3, <3>4
  <2>2. SizeCountsSlots'
    BY <2>1 DEF SizeCountsSlots, Counting, Uncounting
  <2>3. \A p \in Pages : numbered' <= p => taken'[p] = {} /\ size'[p] = 0
    <3> SUFFICES ASSUME NEW p \in Pages, numbered <= p PROVE taken[p] = {} /\ size'[p] = 0
      BY <1>1
    <3>1. p # at[t]
      BY <1>0, <1>1 DEF TypeOK, Pages
    <3> QED
      BY <1>0, <1>1, <3>1 DEF SlotsInv, TypeOK
  <2> QED
    BY <1>0, <1>1, <2>2, <2>3 DEF SlotsInv
<1>5. RefsInv'
  <2> SUFFICES ASSUME NEW h \in Handles PROVE HandleInv(h)'
    BY DEF RefsInv
  <2>1. HandleInv(h)
    BY <1>0 DEF RefsInv
  <2>2. /\ Total(strong, h)' = Total(strong, h) /\ Total(weak, h)' = Total(weak, h)
    BY <1>1 DEF Total, References
  <2>3. /\ Owns(t, h)' <=> Owns(t, h)
        /\ Destroys(t, h)' <=> Destroys(t, h)
        /\ (t \in Droppers(h))' <=> t \in Droppers(h)
    BY <1>1 DEF Owns, Destroys, Droppers, Busy, Dropping, Owning, MyHandle
  <2> QED
    BY <1>0, <1>1, <1>3, <2>1, <2>2, <2>3, HandleKeeps
<1> QED
  BY <1>2, <1>3, <1>4, <1>5 DEF TableInv
-----------------------------------------------------------------------------
(* Making, sharing and dropping references. *)

\* Steps that move one handle's counts: what the others' soundness needs.
LEMMA ElsewhereKeeps ==
  ASSUME RefsInv, NEW t \in Threads, Others(t), NEW h \in Handles, NEW k \in Handles, k # h,
         ref'[k] = ref[k], wref'[k] = wref[k], alive'[k] = alive[k],
         Total(strong, k)' = Total(strong, k), Total(weak, k)' = Total(weak, k),
         Listed' = Listed, SlotOf(k) \in taken[PageOf(k)] => SlotOf(k) \in taken'[PageOf(k)],
         pc[t] \in Owning \cup Dropping => MyHandle(t) = h,
         pc'[t] \in Owning \cup Dropping => MyHandle(t)' = h
  PROVE  HandleInv(k)'
<1>1. HandleInv(k)
  BY DEF RefsInv
<1>2. /\ ~Owns(t, k) /\ ~Destroys(t, k) /\ t \notin Droppers(k)
      /\ ~Owns(t, k)' /\ ~Destroys(t, k)' /\ ~(t \in Droppers(k))'
  BY DEF Owns, Destroys, Droppers, Busy, Dropping
<1> QED
  BY <1>1, <1>2, HandleKeeps

\* The payload that a thread makes has the one reference the thread is given.
LEMMA FillKeeps ==
  ASSUME TableInv, NEW t \in Threads, FillSlot(t)
  PROVE  TableInv'
<1>0. TypeOK /\ PagesInv /\ SlotsInv /\ RefsInv /\ Others(t)
  BY OthersStay DEF TableInv, Step
<1>1. PICK h \in Handles : h = MyHandle(t)
  BY ThreadFacts DEF FillSlot, AtListed
<1>2. /\ UNCHANGED <<pages, first, next, size, taken, numbered, weak, at, slot>>
      /\ pc[t] = "fill" /\ pc'[t] = "idle" /\ at[t] \in Listed
      /\ ref' = [ref EXCEPT ![h] = 1] /\ wref' = [wref EXCEPT ![h] = 1]
      /\ alive' = [alive EXCEPT ![h] = TRUE] /\ strong' = [strong EXCEPT ![t][h] = @ + 1]
  BY <1>0, <1>1, ThreadFacts DEF FillSlot, Goto, TypeOK, local, AtListed
<1>3. /\ HandleInv(h) /\ MaxRefs \in Nat /\ MaxRefs > 0 /\ strong \in Counts /\ weak \in Counts
      /\ wref[h] = 0 /\ ref[h] = 0 /\ Total(strong, h) = 0 /\ Total(weak, h) = 0
      /\ Droppers(h) = {} /\ strong[t][h] = 0
  <2>1. Owns(t, h)
    BY <1>1, <1>2 DEF Owns, Owning
  <2>2. wref[h] = 0
    BY <2>1, HandleFacts DEF HandleInv
  <2> QED
    BY <2>2, HandleFacts
<1>4. strong' \in Counts /\ Total(strong', h) = 1
  <2>1. strong[t][h] < MaxRefs
    BY <1>3
  <2>2. /\ [strong EXCEPT ![t][h] = @ + 1] \in Counts
        /\ Total([strong EXCEPT ![t][h] = @ + 1], h) = Total(strong, h) + 1
    BY <1>3, <2>1, TotalAfter
  <2>3. Total(strong, h) + 1 = 1
    BY <1>3
  <2> QED
    BY <1>2, <2>2, <2>3, Zenon
<1>5. TypeOK'
  <2>1. 1 \in 0 .. MaxRefs
    BY <1>3
  <2>2. ref' \in [Handles -> 0 .. MaxRefs] /\ wref' \in [Handles -> 0 .. MaxRefs]
    BY <1>0, <1>2, <2>1 DEF TypeOK
  <2>3. alive' \in [Handles -> BOOLEAN]
    BY <1>0, <1>2 DEF TypeOK
  <2> QED
    BY <1>0, <1>2, <1>4, <2>2, <2>3 DEF FillSlot, Goto, TypeOK, Counts, local
<1>6. PagesInv' /\ Listed' = Listed
  BY <1>0, <1>2, PagesKeep DEF Adding, AtListed
<1>7. SlotsInv'
  BY <1>0, <1>2, SlotsKeep
<1>8. ASSUME NEW k \in Handles, k # h PROVE HandleInv(k)'
  <2>1. Total(strong', k) = Total(strong, k)
    <3>1. \A u \in Threads : strong'[u][k] = strong[u][k]
      BY <1>2, <1>3, <1>8 DEF Counts
    <3> QED
      BY <1>3, <1>4, <3>1, TotalElsewhere
  <2>2. ref'[k] = ref[k] /\ wref'[k] = wref[k] /\ alive'[k] = alive[k]
    BY <1>0, <1>2, <1>8 DEF TypeOK
  <2>3. Total(strong, k)' = Total(strong, k) /\ Total(weak, k)' = Total(weak, k)
    BY <1>2, <2>1 DEF Total, References
  <2>4. pc'[t] \notin Owning \cup Dropping
    BY <1>2 DEF Owning, Dropping
  <2> QED
    BY <1>0, <1>1, <1>2, <1>6, <1>8, <2>2, <2>3, <2>4, ElsewhereKeeps
<1>9. HandleInv(h)'
  <2>1. /\ ref'[h] = 1 /\ wref'[h] = 1 /\ alive'[h]
    BY <1>0, <1>2 DEF TypeOK
  <2>2. Total(strong, h)' = 1 /\ Total(weak, h)' = 0
    BY <1>2, <1>3, <1>4 DEF Total, References
  <2>3. \A u \in Threads : ~Owns(u, h)' /\ ~Destroys(u, h)'
    <3>1. \A u \in Threads : Destroys(u, h) => u \in Droppers(h)
      BY DEF Destroys, Droppers, Busy, Dropping
    <3>2. Owns(t, h)
      BY <1>1, <1>2 DEF Owns, Owning
    <3>3. \A u \in Threads : u # t => ~Owns(u, h)
      BY <1>3, <3>2 DEF HandleInv
    <3> QED
      BY <1>0, <1>2, <1>3, <3>1, <3>3 DEF Others, Owns, Destroys, Owning, MyHandle
  <2>4. Busy(Dropping, h)' = {}
    BY <1>0, <1>2, <1>3 DEF Others, Droppers, Busy, Dropping, MyHandle
  <2>5. Cardinality(Busy(Dropping, h))' = 0
    BY <2>4, FS_EmptySet
  <2>6. h # 0 /\ PageOf(h) \in Listed' /\ SlotOf(h) \in taken'[PageOf(h)]
    BY <1>1, <1>2, <1>3, <1>6 DEF HandleInv, Owns, Owning
  <2> QED
    BY <2>1, <2>2, <2>3, <2>5, <2>6 DEF HandleInv
<1> QED
  BY <1>5, <1>6, <1>7, <1>8, <1>9 DEF TableInv, RefsInv
\* Only a thread with a strong reference makes another.
LEMMA RetainKeeps ==
  ASSUME TableInv, NEW t \in Threads, NEW u \in Threads, NEW h \in Handles, Retain(t, u, h)
  PROVE  TableInv'
<1>0. TypeOK /\ PagesInv /\ SlotsInv /\ RefsInv /\ Others(t)
  BY OthersStay DEF TableInv, Call
<1>1. /\ UNCHANGED <<pages, first, next, size, taken, numbered, wref, alive, pc, at, slot, weak>>
      /\ pc[t] = "idle" /\ strong[t][h] > 0 /\ ref[h] < MaxRefs
      /\ strong' = [strong EXCEPT ![u][h] = @ + 1]
  BY DEF Retain, local
<1>2. /\ HandleInv(h) /\ MaxRefs \in Nat /\ strong \in Counts /\ weak \in Counts
      /\ ref[h] \in Nat /\ ref[h] > 0 /\ wref[h] > 0 /\ Found(h) /\ strong[u][h] < MaxRefs
      /\ ref[h] = Total(strong, h)
  <2>1. ref[h] > 0
    BY <1>1, HandleFacts
  <2>2. wref[h] > 0
    BY <2>1, HandleFacts
  <2> QED
    BY <1>1, <2>1, <2>2, HandleFacts
<1>3. strong' \in Counts /\ Total(strong', h) = Total(strong, h) + 1
  BY <1>1, <1>2, TotalAfter, Zenon
<1>4. ref' = [ref EXCEPT ![h] = @ + 1]
  BY <1>2 DEF Retain
<1>5. TypeOK'
  <2>1. ref' \in [Handles -> 0 .. MaxRefs]
    <3>1. ref[h] + 1 \in 0 .. MaxRefs
      BY <1>1, <1>2
    <3> QED
      BY <1>0, <1>4, <3>1 DEF TypeOK
  <2> QED
    BY <1>0, <1>1, <1>3, <2>1 DEF Retain, TypeOK, Counts, local
<1>6. PagesInv' /\ Listed' = Listed
  BY <1>0, <1>1, PagesKeep DEF Adding, AtListed
<1>7. SlotsInv'
  BY <1>0, <1>1, SlotsKeep
<1>8. ASSUME NEW k \in Handles, k # h PROVE HandleInv(k)'
  <2>1. Total(strong', k) = Total(strong, k)
    <3>1. \A v \in Threads : strong'[v][k] = strong[v][k]
      BY <1>1, <1>2, <1>8 DEF Counts
    <3> QED
      BY <1>2, <1>3, <3>1, TotalElsewhere
  <2>2. ref'[k] = ref[k] /\ wref'[k] = wref[k] /\ alive'[k] = alive[k]
    BY <1>0, <1>1, <1>4, <1>8 DEF TypeOK
  <2>3. Total(strong, k)' = Total(strong, k) /\ Total(weak, k)' = Total(weak, k)
    BY <1>1, <2>1 DEF Total, References
  <2>4. pc[t] \notin Owning \cup Dropping /\ pc'[t] \notin Owning \cup Dropping
    BY <1>1 DEF Owning, Dropping
  <2> QED
    BY <1>0, <1>1, <1>6, <1>8, <2>2, <2>3, <2>4, ElsewhereKeeps
<1>9. HandleInv(h)'
  <2>1. ref'[h] = ref[h] + 1 /\ wref'[h] = wref[h] /\ alive'[h] = alive[h]
    BY <1>0, <1>1, <1>4 DEF TypeOK
  <2>2. Total(strong, h)' = ref[h] + 1 /\ Total(weak, h)' = Total(weak, h)
    BY <1>1, <1>2, <1>3 DEF Total, References
  <2>3. \A v \in Threads : (Owns(v, h)' <=> Owns(v, h)) /\ (Destroys(v, h)' <=> Destroys(v, h))
    BY <1>1 DEF Owns, Destroys, MyHandle
  <2>4. Busy(Dropping, h)' = Busy(Dropping, h)
    BY <1>1 DEF Busy, MyHandle
  <2>5. Cardinality(Busy(Dropping, h))' = Cardinality(Busy(Dropping, h))
    BY <2>4
  <2>6. \A v \in Threads : ~Destroys(v, h)
    BY <1>2 DEF HandleInv
  <2>7. ref'[h] > 0
    BY <1>2, <2>1
  <2> QED
    BY <1>1, <1>2, <1>6, <2>1, <2>2, <2>3, <2>5, <2>6, <2>7 DEF HandleInv
<1> QED
  BY <1>5, <1>6, <1>7, <1>8, <1>9 DEF TableInv, RefsInv

\* A weak reference is made from a reference of either kind.
LEMMA WeakRetainKeeps ==
  ASSUME TableInv, NEW t \in Threads, NEW u \in Threads, NEW h \in Handles, WeakRetain(t, u, h)
  PROVE  TableInv'
<1>0. TypeOK /\ PagesInv /\ SlotsInv /\ RefsInv /\ Others(t)
  BY OthersStay DEF TableInv, Call
<1>1. /\ UNCHANGED <<pages, first, next, size, taken, numbered, ref, alive, pc, at, slot, strong>>
      /\ pc[t] = "idle" /\ (strong[t][h] > 0 \/ weak[t][h] > 0) /\ wref[h] < MaxRefs
      /\ weak' = [weak EXCEPT ![u][h] = @ + 1]
  BY DEF WeakRetain, local
<1>2. /\ HandleInv(h) /\ MaxRefs \in Nat /\ strong \in Counts /\ weak \in Counts
      /\ wref[h] \in Nat /\ wref[h] > 0 /\ Found(h) /\ weak[u][h] < MaxRefs
      /\ Total(weak, h) \in Nat /\ Cardinality(Droppers(h)) \in Nat
      /\ wref[h] = Total(weak, h) + (IF ref[h] > 0 THEN 1 ELSE 0) + Cardinality(Droppers(h))
  <2>1. wref[h] > 0
    <3>1. CASE strong[t][h] > 0
      BY <3>1, HandleFacts
    <3>2. CASE weak[t][h] > 0
      BY <3>2, HandleFacts
    <3> QED
      BY <1>1, <3>1, <3>2
  <2>2. weak[u][h] <= wref[h] /\ weak[u][h] \in Nat /\ wref[h] \in Nat /\ MaxRefs \in Nat
    BY HandleFacts
  <2>3. weak[u][h] < MaxRefs
    BY <1>1, <2>2
  <2> QED
    BY <2>1, <2>2, <2>3, HandleFacts
<1>3. weak' \in Counts /\ Total(weak', h) = Total(weak, h) + 1
  BY <1>1, <1>2, TotalAfter, Zenon
<1>4. wref' = [wref EXCEPT ![h] = @ + 1]
  BY <1>2 DEF WeakRetain
<1>5. TypeOK'
  <2>1. wref' \in [Handles -> 0 .. MaxRefs]
    <3>1. wref[h] + 1 \in 0 .. MaxRefs
      BY <1>1, <1>2
    <3> QED
      BY <1>0, <1>4, <3>1 DEF TypeOK
  <2> QED
    BY <1>0, <1>1, <1>3, <2>1 DEF WeakRetain, TypeOK, Counts, local
<1>6. PagesInv' /\ Listed' = Listed
  BY <1>0, <1>1, PagesKeep DEF Adding, AtListed
<1>7. SlotsInv'
  BY <1>0, <1>1, SlotsKeep
<1>8. ASSUME NEW k \in Handles, k # h PROVE HandleInv(k)'
  <2>1. Total(weak', k) = Total(weak, k)
    <3>1. \A v \in Threads : weak'[v][k] = weak[v][k]
      BY <1>1, <1>2, <1>8 DEF Counts
    <3> QED
      BY <1>2, <1>3, <3>1, TotalElsewhere
  <2>2. ref'[k] = ref[k] /\ wref'[k] = wref[k] /\ alive'[k] = alive[k]
    BY <1>0, <1>1, <1>4, <1>8 DEF TypeOK
  <2>3. Total(strong, k)' = Total(strong, k) /\ Total(weak, k)' = Total(weak, k)
    BY <1>1, <2>1 DEF Total, References
  <2>4. pc[t] \notin Owning \cup Dropping /\ pc'[t] \notin Owning \cup Dropping
    BY <1>1 DEF Owning, Dropping
  <2> QED
    BY <1>0, <1>1, <1>6, <1>8, <2>2, <2>3, <2>4, ElsewhereKeeps
<1>9. HandleInv(h)'
  <2>1. ref'[h] = ref[h] /\ wref'[h] = wref[h] + 1 /\ alive'[h] = alive[h]
    BY <1>0, <1>1, <1>4 DEF TypeOK
  <2>2. Total(strong, h)' = Total(strong, h) /\ Total(weak, h)' = Total(weak, h) + 1
    BY <1>1, <1>3 DEF Total, References
  <2>3. \A v \in Threads : (Owns(v, h)' <=> Owns(v, h)) /\ (Destroys(v, h)' <=> Destroys(v, h))
    BY <1>1 DEF Owns, Destroys, MyHandle
  <2>4. Droppers(h)' = Droppers(h)
    BY <1>1 DEF Droppers, Busy, MyHandle
  <2>5. Cardinality(Busy(Dropping, h))' = Cardinality(Droppers(h))
    BY <2>4 DEF Droppers
  <2>6. \A v \in Threads : ~Owns(v, h)
    BY <1>2 DEF HandleInv
  <2>7. wref[h] + 1 = (Total(weak, h) + 1) + (IF ref[h] > 0 THEN 1 ELSE 0)
                        + Cardinality(Droppers(h))
    BY <1>2
  <2>8. wref'[h] = Total(weak, h)' + (IF ref'[h] > 0 THEN 1 ELSE 0)
                    + Cardinality(Busy(Dropping, h))'
    BY <2>1, <2>2, <2>5, <2>7
  <2> QED
    BY <1>1, <1>2, <1>6, <2>1, <2>2, <2>3, <2>6, <2>8 DEF HandleInv
<1> QED
  BY <1>5, <1>6, <1>7, <1>8, <1>9 DEF TableInv, RefsInv
\* The thread that drops the last strong reference has the payload to destroy,
\* and the weak count that stood for the strong ones to drop.
LEMMA ReleaseKeeps ==
  ASSUME TableInv, NEW t \in Threads, NEW h \in Handles, Release(t, h)
  PROVE  TableInv'
<1>0. TypeOK /\ PagesInv /\ SlotsInv /\ RefsInv /\ Others(t)
  BY OthersStay DEF TableInv, Call
<1>1. /\ UNCHANGED <<pages, first, next, size, taken, numbered, wref, alive, weak>>
      /\ pc[t] = "idle" /\ strong[t][h] > 0 /\ strong' = [strong EXCEPT ![t][h] = @ - 1]
      /\ at' = [at EXCEPT ![t] = PageOf(h)] /\ slot' = [slot EXCEPT ![t] = SlotOf(h)]
  BY DEF Release
<1>2. /\ HandleInv(h) /\ MaxRefs \in Nat /\ strong \in Counts /\ weak \in Counts
      /\ ref[h] \in 0 .. MaxRefs /\ ref[h] > 0 /\ wref[h] \in Nat /\ wref[h] > 0 /\ Found(h)
      /\ ref[h] = Total(strong, h) /\ Total(weak, h) \in Nat /\ Cardinality(Droppers(h)) \in Nat
      /\ wref[h] = Total(weak, h) + (IF ref[h] > 0 THEN 1 ELSE 0) + Cardinality(Droppers(h))
      /\ PageOf(h) \in Pages /\ SlotOf(h) \in Slots
  <2>1. ref[h] > 0
    BY <1>1, HandleFacts
  <2>2. wref[h] > 0
    BY <2>1, HandleFacts
  <2> QED
    BY <2>1, <2>2, HandleFacts
<1>3. strong' \in Counts /\ Total(strong', h) = Total(strong, h) - 1
  BY <1>1, <1>2, TotalAfter, Zenon
<1>4. /\ ref' = [ref EXCEPT ![h] = @ - 1] /\ pc'[t] = (IF ref[h] = 1 THEN "destroy" ELSE "idle")
      /\ pc' \in [Threads -> {"idle", "begin", "size", "next", "grow", "number", "publish",
                              "link", "unpublish", "word", "claim", "count", "fill",
                              "destroy", "weak", "clear", "uncount"}]
  BY <1>0, <1>2 DEF Release, Goto, LastRef, TypeOK
<1>5. MyHandle(t)' = h
  <2>1. at'[t] = PageOf(h) /\ slot'[t] = SlotOf(h)
    BY <1>0, <1>1 DEF TypeOK
  <2>2. Handle(SlotOf(h), PageOf(h)) = h
    BY PartsHandle
  <2> QED
    BY <2>1, <2>2 DEF MyHandle
<1>6. TypeOK'
  <2>1. ref' \in [Handles -> 0 .. MaxRefs]
    <3>1. ref[h] - 1 \in 0 .. MaxRefs
      BY <1>2
    <3> QED
      BY <1>0, <1>4, <3>1 DEF TypeOK
  <2>2. at' \in [Threads -> Pages \cup {Null}] /\ slot' \in [Threads -> Slots]
    BY <1>0, <1>1, <1>2 DEF TypeOK
  <2> QED
    BY <1>0, <1>1, <1>3, <1>4, <2>1, <2>2 DEF Release, TypeOK, Counts
<1>7. PageOf(h) \in Listed /\ at'[t] = PageOf(h)
  BY <1>0, <1>1, <1>2 DEF HandleInv, TypeOK
<1>8. PagesInv' /\ Listed' = Listed
  <2>1. pc[t] \notin Adding /\ pc'[t] \notin Adding
    BY <1>1, <1>4 DEF Adding
  <2> QED
    BY <1>0, <1>1, <1>7, <2>1, PagesKeep
<1>9. SlotsInv'
  BY <1>0, <1>1, <1>4, SlotsKeep
<1>10. ASSUME NEW k \in Handles, k # h PROVE HandleInv(k)'
  <2>1. Total(strong', k) = Total(strong, k)
    <3>1. \A v \in Threads : strong'[v][k] = strong[v][k]
      BY <1>1, <1>2, <1>10 DEF Counts
    <3> QED
      BY <1>2, <1>3, <3>1, TotalElsewhere
  <2>2. ref'[k] = ref[k] /\ wref'[k] = wref[k] /\ alive'[k] = alive[k]
    BY <1>0, <1>1, <1>4, <1>10 DEF TypeOK
  <2>3. Total(strong, k)' = Total(strong, k) /\ Total(weak, k)' = Total(weak, k)
    BY <1>1, <2>1 DEF Total, References
  <2>4. pc[t] \notin Owning \cup Dropping
    BY <1>1 DEF Owning, Dropping
  <2> QED
    BY <1>0, <1>1, <1>5, <1>8, <1>10, <2>2, <2>3, <2>4, ElsewhereKeeps
<1>11. HandleInv(h)'
  <2>1. ref'[h] = ref[h] - 1 /\ wref'[h] = wref[h] /\ alive'[h] = alive[h]
    BY <1>0, <1>1, <1>4 DEF TypeOK
  <2>2. Total(strong, h)' = ref[h] - 1 /\ Total(weak, h)' = Total(weak, h)
    BY <1>1, <1>2, <1>3 DEF Total, References
  <2>3. \A v \in Threads : ~Owns(v, h) /\ ~Destroys(v, h)
    BY <1>2 DEF HandleInv
  <2>4. \A v \in Threads : ~Owns(v, h)' /\ (Destroys(v, h)' <=> v = t /\ ref[h] = 1)
    BY <1>0, <1>4, <1>5, <2>3 DEF Others, Owns, Destroys, Owning, MyHandle
  <2>5. Cardinality(Droppers(h)') = Cardinality(Droppers(h)) + (IF ref[h] = 1 THEN 1 ELSE 0)
    <3>1. t \notin Droppers(h)
      BY <1>1 DEF Droppers, Busy, Dropping
    <3>2. CASE ref[h] = 1
      <4>1. Droppers(h)' = Droppers(h) \cup {t}
        BY <1>0, <1>4, <1>5, <3>2 DEF Others, Droppers, Busy, Dropping, MyHandle
      <4>2. Cardinality(Droppers(h) \cup {t}) = Cardinality(Droppers(h)) + 1
        BY <3>1, DroppersFinite, FS_AddElement
      <4> QED
        BY <3>2, <4>1, <4>2
    <3>3. CASE ref[h] # 1
      <4>1. Droppers(h)' = Droppers(h)
        BY <1>0, <1>1, <1>4, <3>3 DEF Others, Droppers, Busy, Dropping, MyHandle
      <4> QED
        BY <1>2, <3>3, <4>1
    <3> QED
      BY <3>2, <3>3
  <2>6. wref'[h] = Total(weak, h)' + (IF ref'[h] > 0 THEN 1 ELSE 0)
                    + Cardinality(Busy(Dropping, h))'
    <3>1. Total(weak, h) + (IF ref[h] > 0 THEN 1 ELSE 0) + Cardinality(Droppers(h)) =
            Total(weak, h) + (IF ref[h] - 1 > 0 THEN 1 ELSE 0)
              + (Cardinality(Droppers(h)) + (IF ref[h] = 1 THEN 1 ELSE 0))
      BY <1>2
    <3> QED
      BY <1>2, <2>1, <2>2, <2>5, <3>1 DEF Droppers
  <2>7. ref'[h] = Total(strong, h)' /\ (ref'[h] > 0 => alive'[h]) /\ (ref[h] = 1 => ref'[h] = 0)
    BY <1>2, <2>1, <2>2 DEF HandleInv
  <2>8. h # 0 /\ PageOf(h) \in Listed' /\ SlotOf(h) \in taken'[PageOf(h)]
    BY <1>1, <1>2, <1>8 DEF HandleInv
  <2> QED
    BY <2>4, <2>6, <2>7, <2>8 DEF HandleInv
<1> QED
  BY <1>6, <1>8, <1>9, <1>10, <1>11 DEF TableInv, RefsInv

\* A weak reference is given up for a weak count to drop.
LEMMA WeakReleaseKeeps ==
  ASSUME TableInv, NEW t \in Threads, NEW h \in Handles, WeakRelease(t, h)
  PROVE  TableInv'
<1>0. TypeOK /\ PagesInv /\ SlotsInv /\ RefsInv /\ Others(t)
  BY OthersStay DEF TableInv, Call
<1>1. /\ UNCHANGED <<pages, first, next, size, taken, numbered, ref, wref, alive, strong>>
      /\ pc[t] = "idle" /\ weak[t][h] > 0 /\ weak' = [weak EXCEPT ![t][h] = @ - 1]
      /\ at' = [at EXCEPT ![t] = PageOf(h)] /\ slot' = [slot EXCEPT ![t] = SlotOf(h)]
  BY DEF WeakRelease, table
<1>2. /\ HandleInv(h) /\ MaxRefs \in Nat /\ strong \in Counts /\ weak \in Counts
      /\ wref[h] \in Nat /\ wref[h] > 0 /\ Found(h)
      /\ Total(weak, h) \in Nat /\ Cardinality(Droppers(h)) \in Nat
      /\ wref[h] = Total(weak, h) + (IF ref[h] > 0 THEN 1 ELSE 0) + Cardinality(Droppers(h))
      /\ PageOf(h) \in Pages /\ SlotOf(h) \in Slots
  <2>1. wref[h] > 0
    BY <1>1, HandleFacts
  <2> QED
    BY <2>1, HandleFacts
<1>3. weak' \in Counts /\ Total(weak', h) = Total(weak, h) - 1
  BY <1>1, <1>2, TotalAfter, Zenon
<1>4. pc'[t] = "weak"
  BY <1>0, <1>2 DEF WeakRelease, Goto, TypeOK
<1>5. MyHandle(t)' = h
  <2>1. at'[t] = PageOf(h) /\ slot'[t] = SlotOf(h)
    BY <1>0, <1>1 DEF TypeOK
  <2>2. Handle(SlotOf(h), PageOf(h)) = h
    BY PartsHandle
  <2> QED
    BY <2>1, <2>2 DEF MyHandle
<1>6. TypeOK'
  <2>1. at' \in [Threads -> Pages \cup {Null}] /\ slot' \in [Threads -> Slots]
    BY <1>0, <1>1, <1>2 DEF TypeOK
  <2> QED
    BY <1>0, <1>1, <1>3, <2>1 DEF WeakRelease, Goto, TypeOK, Counts
<1>7. PageOf(h) \in Listed /\ at'[t] = PageOf(h)
  BY <1>0, <1>1, <1>2 DEF HandleInv, TypeOK
<1>8. PagesInv' /\ Listed' = Listed
  <2>1. pc[t] \notin Adding /\ pc'[t] \notin Adding
    BY <1>1, <1>4 DEF Adding
  <2> QED
    BY <1>0, <1>1, <1>7, <2>1, PagesKeep
<1>9. SlotsInv'
  BY <1>0, <1>1, <1>4, SlotsKeep
<1>10. ASSUME NEW k \in Handles, k # h PROVE HandleInv(k)'
  <2>1. Total(weak', k) = Total(weak, k)
    <3>1. \A v \in Threads : weak'[v][k] = weak[v][k]
      BY <1>1, <1>2, <1>10 DEF Counts
    <3> QED
      BY <1>2, <1>3, <3>1, TotalElsewhere
  <2>2. ref'[k] = ref[k] /\ wref'[k] = wref[k] /\ alive'[k] = alive[k]
    BY <1>1
  <2>3. Total(strong, k)' = Total(strong, k) /\ Total(weak, k)' = Total(weak, k)
    BY <1>1, <2>1 DEF Total, References
  <2>4. pc[t] \notin Owning \cup Dropping
    BY <1>1 DEF Owning, Dropping
  <2> QED
    BY <1>0, <1>1, <1>5, <1>8, <1>10, <2>2, <2>3, <2>4, ElsewhereKeeps
<1>11. HandleInv(h)'
  <2>1. ref'[h] = ref[h] /\ wref'[h] = wref[h] /\ alive'[h] = alive[h]
    BY <1>1
  <2>2. Total(strong, h)' = Total(strong, h) /\ Total(weak, h)' = Total(weak, h) - 1
    BY <1>1, <1>2, <1>3 DEF Total, References
  <2>3. \A v \in Threads : ~Owns(v, h)
    BY <1>2 DEF HandleInv
  <2>4. \A v \in Threads : ~Owns(v, h)' /\ (Destroys(v, h)' <=> Destroys(v, h))
    BY <1>0, <1>1, <1>4, <1>5, <2>3 DEF Others, Owns, Destroys, Owning, MyHandle
  <2>5. Cardinality(Droppers(h)') = Cardinality(Droppers(h)) + 1
    <3>1. t \notin Droppers(h)
      BY <1>1 DEF Droppers, Busy, Dropping
    <3>2. Droppers(h)' = Droppers(h) \cup {t}
      BY <1>0, <1>4, <1>5 DEF Others, Droppers, Busy, Dropping, MyHandle
    <3>3. Cardinality(Droppers(h) \cup {t}) = Cardinality(Droppers(h)) + 1
      BY <3>1, DroppersFinite, FS_AddElement
    <3> QED
      BY <3>2, <3>3
  <2>6. wref'[h] = Total(weak, h)' + (IF ref'[h] > 0 THEN 1 ELSE 0)
                    + Cardinality(Busy(Dropping, h))'
    <3>1. wref[h] = (Total(weak, h) - 1) + (IF ref[h] > 0 THEN 1 ELSE 0)
                      + (Cardinality(Droppers(h)) + 1)
      BY <1>2
    <3> QED
      BY <1>2, <2>1, <2>2, <2>5, <3>1 DEF Droppers
  <2>7. h # 0 /\ PageOf(h) \in Listed' /\ SlotOf(h) \in taken'[PageOf(h)]
    BY <1>1, <1>2, <1>8 DEF HandleInv
  <2> QED
    BY <1>2, <2>1, <2>2, <2>4, <2>6, <2>7 DEF HandleInv
<1> QED
  BY <1>6, <1>8, <1>9, <1>10, <1>11 DEF TableInv, RefsInv
\* The payload of a handle without strong references is destroyed.
LEMMA DestroyKeeps ==
  ASSUME TableInv, NEW t \in Threads, DestroyPayload(t)
  PROVE  TableInv'
<1>0. TypeOK /\ PagesInv /\ SlotsInv /\ RefsInv /\ Others(t)
  BY OthersStay DEF TableInv, Step
<1>1. PICK h \in Handles : h = MyHandle(t)
  BY ThreadFacts DEF DestroyPayload, AtListed
<1>2. /\ UNCHANGED <<pages, first, next, size, taken, numbered, ref, wref, at, slot, strong, weak>>
      /\ pc[t] = "destroy" /\ pc'[t] = "weak" /\ at[t] \in Listed
      /\ alive' = [alive EXCEPT ![h] = FALSE] /\ MyHandle(t)' = h
  BY <1>0, <1>1, ThreadFacts DEF DestroyPayload, Goto, TypeOK, local, held, AtListed, MyHandle
<1>3. HandleInv(h) /\ ref[h] = 0
  BY <1>0, <1>1, <1>2 DEF RefsInv, HandleInv, Destroys
<1>4. TypeOK'
  <2>1. alive' \in [Handles -> BOOLEAN]
    BY <1>0, <1>2 DEF TypeOK
  <2> QED
    BY <1>0, <1>2, <2>1 DEF DestroyPayload, Goto, TypeOK, local, held
<1>5. PagesInv' /\ Listed' = Listed
  BY <1>0, <1>2, PagesKeep DEF Adding
<1>6. SlotsInv'
  BY <1>0, <1>2, SlotsKeep
<1>7. ASSUME NEW k \in Handles
      PROVE  Total(strong, k)' = Total(strong, k) /\ Total(weak, k)' = Total(weak, k)
  BY <1>2 DEF Total, References
<1>8. ASSUME NEW k \in Handles, k # h PROVE HandleInv(k)'
  <2>1. ref'[k] = ref[k] /\ wref'[k] = wref[k] /\ alive'[k] = alive[k]
    BY <1>0, <1>2, <1>8 DEF TypeOK
  <2> QED
    BY <1>0, <1>1, <1>2, <1>5, <1>7, <1>8, <2>1, ElsewhereKeeps
<1>9. HandleInv(h)'
  <2>1. \A u \in Threads : /\ Owns(u, h)' <=> Owns(u, h)
                           /\ Destroys(u, h)' => Destroys(u, h)
    BY <1>0, <1>1, <1>2 DEF Others, Owns, Destroys, Owning, MyHandle
  <2>2. Droppers(h)' = Droppers(h)
    <3>1. t \in Droppers(h) /\ (t \in Droppers(h))'
      BY <1>1, <1>2 DEF Droppers, Busy, Dropping
    <3>2. \A u \in Threads : (u \in Droppers(h))' <=> u \in Droppers(h)
      BY <1>0, <3>1 DEF Others, Droppers, Busy, MyHandle
    <3> QED
      BY <3>2 DEF Droppers, Busy
  <2>3. Cardinality(Busy(Dropping, h))' = Cardinality(Busy(Dropping, h))
    BY <2>2 DEF Droppers
  <2>4. ref'[h] = ref[h] /\ wref'[h] = wref[h] /\ ~(ref'[h] > 0)
    BY <1>2, <1>3
  <2> QED
    BY <1>2, <1>3, <1>5, <1>7, <2>1, <2>3, <2>4 DEF HandleInv
<1> QED
  BY <1>4, <1>5, <1>6, <1>8, <1>9 DEF TableInv, RefsInv

\* The thread that drops the last weak count, and no other, has the slot to free.
LEMMA DropKeeps ==
  ASSUME TableInv, NEW t \in Threads, DropWeak(t)
  PROVE  TableInv'
<1>0. TypeOK /\ PagesInv /\ SlotsInv /\ RefsInv /\ Others(t)
  BY OthersStay DEF TableInv, Step
<1>1. PICK h \in Handles : h = MyHandle(t)
  BY ThreadFacts DEF DropWeak, AtListed
<1>2. /\ UNCHANGED <<pages, first, next, size, taken, numbered, ref, alive, at, slot, strong, weak>>
      /\ pc[t] = "weak" /\ pc'[t] = (IF wref[h] = 1 THEN "clear" ELSE "idle") /\ at[t] \in Listed
      /\ wref' = [wref EXCEPT ![h] = @ - 1] /\ MyHandle(t)' = h
  BY <1>0, <1>1, ThreadFacts DEF DropWeak, Goto, TypeOK, local, held, AtListed, MyHandle
<1>3. /\ HandleInv(h) /\ wref[h] \in 0 .. MaxRefs /\ MaxRefs \in Nat /\ t \in Droppers(h)
      /\ Total(weak, h) \in Nat /\ Cardinality(Droppers(h)) \in Nat
      /\ wref[h] = Total(weak, h) + (IF ref[h] > 0 THEN 1 ELSE 0) + Cardinality(Droppers(h))
      /\ Cardinality(Droppers(h)) > 0
  <2>1. t \in Droppers(h)
    BY <1>1, <1>2 DEF Droppers, Busy, Dropping
  <2> QED
    BY <2>1, HandleFacts
<1>4. wref[h] > 0
  BY <1>3
<1>5. TypeOK'
  <2>1. wref[h] - 1 \in 0 .. MaxRefs
    BY <1>3, <1>4
  <2>2. wref' \in [Handles -> 0 .. MaxRefs]
    BY <1>0, <1>2, <2>1 DEF TypeOK
  <2>3. pc' \in [Threads -> {"idle", "begin", "size", "next", "grow", "number", "publish",
                             "link", "unpublish", "word", "claim", "count", "fill",
                             "destroy", "weak", "clear", "uncount"}]
    BY <1>0 DEF DropWeak, Goto, TypeOK
  <2> QED
    BY <1>0, <1>2, <2>2, <2>3 DEF DropWeak, TypeOK, local, held
<1>6. PagesInv' /\ Listed' = Listed
  BY <1>0, <1>2, PagesKeep DEF Adding
<1>7. SlotsInv'
  BY <1>0, <1>2, SlotsKeep
<1>8. ASSUME NEW k \in Handles
      PROVE  Total(strong, k)' = Total(strong, k) /\ Total(weak, k)' = Total(weak, k)
  BY <1>2 DEF Total, References
<1>9. ASSUME NEW k \in Handles, k # h PROVE HandleInv(k)'
  <2>1. ref'[k] = ref[k] /\ wref'[k] = wref[k] /\ alive'[k] = alive[k]
    BY <1>0, <1>2, <1>9 DEF TypeOK
  <2> QED
    BY <1>0, <1>1, <1>2, <1>6, <1>8, <1>9, <2>1, ElsewhereKeeps
<1>10. HandleInv(h)'
  <2>1. ref'[h] = ref[h] /\ wref'[h] = wref[h] - 1 /\ alive'[h] = alive[h]
    BY <1>0, <1>2 DEF TypeOK
  <2>2. \A u \in Threads : ~Owns(u, h)
    BY <1>3, <1>4 DEF HandleInv
  <2>3. \A u \in Threads : /\ Owns(u, h)' <=> u = t /\ wref[h] = 1
                           /\ Destroys(u, h)' <=> Destroys(u, h)
    BY <1>0, <1>1, <1>2, <2>2 DEF Others, Owns, Destroys, Owning, MyHandle
  <2>4. Droppers(h)' = Droppers(h) \ {t}
    BY <1>0, <1>2, <1>3 DEF Others, Droppers, Busy, Dropping, MyHandle
  <2>5. Cardinality(Droppers(h) \ {t}) = Cardinality(Droppers(h)) - 1
    BY <1>3, DroppersFinite, FS_RemoveElement, Zenon
  <2>6. wref'[h] = Total(weak, h)' + (IF ref'[h] > 0 THEN 1 ELSE 0)
                    + Cardinality(Busy(Dropping, h))'
    <3>1. wref[h] - 1 = Total(weak, h) + (IF ref[h] > 0 THEN 1 ELSE 0)
                          + (Cardinality(Droppers(h)) - 1)
      BY <1>3
    <3>2. Cardinality(Busy(Dropping, h))' = Cardinality(Droppers(h)) - 1
      BY <2>4, <2>5 DEF Droppers
    <3> QED
      BY <1>8, <2>1, <3>1, <3>2
  <2>7. wref[h] = 1 => wref'[h] = 0
    BY <2>1
  <2>8. h # 0 /\ PageOf(h) \in Listed' /\ SlotOf(h) \in taken'[PageOf(h)]
    BY <1>2, <1>3, <1>4, <1>6 DEF HandleInv
  <2> QED
    BY <1>2, <1>3, <1>8, <2>1, <2>3, <2>6, <2>7, <2>8 DEF HandleInv
<1> QED
  BY <1>5, <1>6, <1>7, <1>9, <1>10 DEF TableInv, RefsInv
-----------------------------------------------------------------------------
(* Freeing a slot. *)

\* The bit that is cleared is the freed slot's, and no other handle's.
LEMMA ClearKeeps ==
  ASSUME TableInv, NEW t \in Threads, ClearBit(t)
  PROVE  TableInv'
<1>0. TypeOK /\ PagesInv /\ SlotsInv /\ RefsInv /\ Others(t)
  BY OthersStay DEF TableInv, Step
<1>1. PICK h \in Handles : h = MyHandle(t)
  BY ThreadFacts DEF ClearBit, AtListed
<1>2. /\ UNCHANGED <<pages, first, next, size, numbered, ref, wref, alive, at, slot, strong, weak>>
      /\ pc[t] = "clear" /\ pc'[t] = "uncount" /\ at[t] \in Listed /\ at[t] \in Pages
      /\ at[t] < numbered /\ slot[t] \in Slots /\ taken' = [taken EXCEPT ![at[t]] = @ \ {slot[t]}]
  BY <1>0, ThreadFacts DEF ClearBit, WithoutBit, Goto, TypeOK, local, held, AtListed
<1>3. SlotOf(h) = slot[t] /\ PageOf(h) = at[t] /\ h = Handle(slot[t], at[t])
  BY <1>1, <1>2, HandleParts DEF MyHandle
<1>4. HandleInv(h) /\ Owns(t, h) /\ wref[h] = 0 /\ h # 0 /\ slot[t] \in taken[at[t]]
  BY <1>0, <1>1, <1>2, <1>3 DEF RefsInv, HandleInv, Owns, Owning
<1>5. /\ taken'[at[t]] = taken[at[t]] \ {slot[t]}
      /\ \A p \in Pages : p # at[t] => taken'[p] = taken[p]
  BY <1>0, <1>2 DEF TypeOK
<1>6. TypeOK'
  <2>1. taken' \in [Pages -> SUBSET Slots]
    BY <1>0, <1>2 DEF TypeOK
  <2> QED
    BY <1>0, <1>2, <2>1 DEF ClearBit, Goto, TypeOK, local, held
<1>7. PagesInv' /\ Listed' = Listed
  BY <1>0, <1>2, PagesKeep DEF Adding
<1>8. SlotsInv'
  <2>1. ASSUME NEW p \in Pages
        PROVE  size'[p] + Cardinality(Counting(p))' =
                 Cardinality(taken'[p]) - (IF p = 0 /\ 0 < numbered' THEN 1 ELSE 0)
                   + Cardinality(Uncounting(p))'
    <3>1. /\ size[p] + Cardinality(Counting(p)) =
               Cardinality(taken[p]) - (IF p = 0 /\ 0 < numbered THEN 1 ELSE 0)
                 + Cardinality(Uncounting(p))
          /\ IsFiniteSet(Uncounting(p)) /\ IsFiniteSet(taken[p])
          /\ Cardinality(Counting(p)) \in Nat /\ Cardinality(Uncounting(p)) \in Nat
          /\ Cardinality(taken[p]) \in Nat /\ size[p] \in Nat
      BY <1>0, CountsFinite DEF SlotsInv, SizeCountsSlots, Counting, Uncounting
    <3>2. Counting(p)' = Counting(p)
      BY <1>0, <1>2 DEF Counting, Others
    <3>3. CASE p = at[t]
      <4>1. Uncounting(p)' = Uncounting(p) \cup {t} /\ t \notin Uncounting(p)
        BY <1>0, <1>2, <3>3 DEF Uncounting, Others
      <4>2. Cardinality(Uncounting(p) \cup {t}) = Cardinality(Uncounting(p)) + 1
        BY <3>1, <4>1, FS_AddElement
      <4>3. Cardinality(taken[p] \ {slot[t]}) = Cardinality(taken[p]) - 1
        BY <1>4, <3>1, <3>3, FS_RemoveElement, Zenon
      <4>4. /\ Cardinality(Uncounting(p))' = Cardinality(Uncounting(p)) + 1
            /\ Cardinality(taken'[p]) = Cardinality(taken[p]) - 1
            /\ Cardinality(Counting(p))' = Cardinality(Counting(p))
            /\ size'[p] = size[p] /\ numbered' = numbered
        BY <1>2, <1>5, <3>2, <3>3, <4>1, <4>2, <4>3
      <4> QED
        BY <3>1, <4>4
    <3>4. CASE p # at[t]
      <4>1. Uncounting(p)' = Uncounting(p)
        BY <1>0, <1>2, <3>4 DEF Uncounting, Others
      <4> QED
        BY <1>2, <1>5, <3>1, <3>2, <3>4, <4>1
    <3> QED
      BY <3>3, <3>4
  <2>2. SizeCountsSlots'
    BY <2>1 DEF SizeCountsSlots, Counting, Uncounting
  <2>3. \A p \in Pages : numbered' <= p => taken'[p] = {} /\ size'[p] = 0
    <3> SUFFICES ASSUME NEW p \in Pages, numbered <= p PROVE taken'[p] = {} /\ size[p] = 0
      BY <1>2
    <3>1. p # at[t]
      BY <1>0, <1>2 DEF TypeOK, Pages
    <3> QED
      BY <1>0, <1>5, <3>1 DEF SlotsInv
  <2>4. 0 \in Pages /\ 0 < numbered' => 0 \in taken'[0]
    <3> SUFFICES ASSUME 0 \in Pages, 0 < numbered PROVE 0 \in taken'[0]
      BY <1>2
    <3>1. 0 \in taken[0]
      BY <1>0 DEF SlotsInv
    <3>2. ~(at[t] = 0 /\ slot[t] = 0)
      <4>1. 0 * PageMax + 0 = 0
        BY HandleTableAssumption
      <4> QED
        BY <1>3, <1>4, <4>1 DEF Handle
    <3> QED
      BY <1>5, <3>1, <3>2
  <2> QED
    BY <2>2, <2>3, <2>4 DEF SlotsInv
<1>9. ASSUME NEW k \in Handles
      PROVE  Total(strong, k)' = Total(strong, k) /\ Total(weak, k)' = Total(weak, k)
  BY <1>2 DEF Total, References
<1>10. ASSUME NEW k \in Handles, k # h PROVE HandleInv(k)'
  <2>1. PageOf(k) \in Pages /\ Handle(SlotOf(k), PageOf(k)) = k
    BY PartsHandle
  <2>2. SlotOf(k) \in taken[PageOf(k)] => SlotOf(k) \in taken'[PageOf(k)]
    <3>1. ~(PageOf(k) = at[t] /\ SlotOf(k) = slot[t])
      BY <1>3, <1>10, <2>1
    <3> QED
      BY <1>5, <2>1, <3>1
  <2>3. pc'[t] \notin Owning \cup Dropping
    BY <1>2 DEF Owning, Dropping
  <2> QED
    BY <1>0, <1>1, <1>2, <1>7, <1>9, <1>10, <2>2, <2>3, ElsewhereKeeps
<1>11. HandleInv(h)'
  <2>1. \A u \in Threads : ~Owns(u, h)' /\ (Destroys(u, h)' <=> Destroys(u, h))
    <3>1. \A u \in Threads : u # t => ~Owns(u, h)
      BY <1>4 DEF HandleInv
    <3> QED
      BY <1>0, <1>2, <3>1 DEF Others, Owns, Destroys, Owning, MyHandle
  <2>2. Droppers(h)' = Droppers(h)
    BY <1>0, <1>2 DEF Others, Droppers, Busy, Dropping, MyHandle
  <2>3. Cardinality(Busy(Dropping, h))' = Cardinality(Busy(Dropping, h))
    BY <2>2 DEF Droppers
  <2>4. ref'[h] = ref[h] /\ wref'[h] = wref[h] /\ alive'[h] = alive[h] /\ ~(wref'[h] > 0)
    BY <1>2, <1>4
  <2> QED
    BY <1>4, <1>9, <2>1, <2>3, <2>4 DEF HandleInv
<1> QED
  BY <1>6, <1>7, <1>8, <1>10, <1>11 DEF TableInv, RefsInv
\* The slots threads are counting in are taken, one each, and none is slot 0 of
\* page 0: a page's size covers the slots that are freed and not yet subtracted.
LEMMA SizeCoversFreed ==
  ASSUME TableInv, NEW p \in Pages
  PROVE  size[p] >= Cardinality(Uncounting(p))
<1>0. TypeOK /\ PagesInv /\ SlotsInv /\ RefsInv
  BY DEF TableInv
<1> DEFINE z == IF p = 0 /\ 0 < numbered THEN {0} ELSE {}
           left == taken[p] \ z
           n == IF p = 0 /\ 0 < numbered THEN 1 ELSE 0
           g == [u \in Counting(p) |-> slot[u]]
<1>1. /\ size[p] + Cardinality(Counting(p)) =
           Cardinality(taken[p]) - (IF p = 0 /\ 0 < numbered THEN 1 ELSE 0)
             + Cardinality(Uncounting(p))
      /\ IsFiniteSet(Counting(p)) /\ IsFiniteSet(taken[p])
      /\ Cardinality(Counting(p)) \in Nat /\ Cardinality(Uncounting(p)) \in Nat
      /\ Cardinality(taken[p]) \in Nat /\ size[p] \in Nat
  BY <1>0, CountsFinite DEF SlotsInv, SizeCountsSlots, Counting, Uncounting
<1>2. IsFiniteSet(left) /\ Cardinality(left) = Cardinality(taken[p]) - n
  <2>1. CASE p = 0 /\ 0 < numbered
    <3>1. 0 \in taken[p]
      BY <1>0, <2>1 DEF SlotsInv
    <3>2. IsFiniteSet(taken[p] \ {0}) /\ Cardinality(taken[p] \ {0}) = Cardinality(taken[p]) - 1
      BY <1>1, <3>1, FS_RemoveElement, Zenon
    <3> QED
      BY <2>1, <3>2
  <2>2. CASE ~(p = 0 /\ 0 < numbered)
    <3>1. left = taken[p] /\ n = 0
      BY <2>2
    <3> HIDE DEF left, n
    <3>2. Cardinality(taken[p]) - n = Cardinality(taken[p])
      BY <1>1, <3>1
    <3> QED
      BY <1>1, <3>1, <3>2
  <2> QED
    BY <2>1, <2>2
<1>3. ASSUME NEW u \in Threads, u \in Counting(p)
      PROVE  /\ slot[u] \in left /\ Owns(u, MyHandle(u)) /\ MyHandle(u) = Handle(slot[u], p)
             /\ MyHandle(u) \in Handles
  <2>1. /\ pc[u] = "count" /\ at[u] = p /\ slot[u] \in Slots /\ MyHandle(u) \in Handles
        /\ MyHandle(u) = Handle(slot[u], p)
    BY <1>3, ThreadFacts DEF Counting, AtListed, MyHandle
  <2>2. SlotOf(MyHandle(u)) = slot[u] /\ PageOf(MyHandle(u)) = p
    BY <2>1, HandleParts
  <2>3. Owns(u, MyHandle(u))
    BY <2>1 DEF Owns, Owning
  <2>4. MyHandle(u) # 0 /\ slot[u] \in taken[p]
    BY <1>0, <2>1, <2>2, <2>3 DEF RefsInv, HandleInv
  <2>5. ~(p = 0 /\ slot[u] = 0)
    <3>1. 0 * PageMax + 0 = 0
      BY HandleTableAssumption
    <3> QED
      BY <2>1, <2>4, <3>1 DEF Handle
  <2> QED
    BY <2>1, <2>3, <2>4, <2>5
<1>4. g \in Injection(Counting(p), left)
  <2>1. g \in [Counting(p) -> left]
    <3>1. \A u \in Counting(p) : u \in Threads
      BY DEF Counting
    <3> QED
      BY <1>3, <3>1
  <2>2. ASSUME NEW u \in Counting(p), NEW v \in Counting(p), g[u] = g[v] PROVE u = v
    <3>1. u \in Threads /\ v \in Threads /\ slot[u] = slot[v]
      BY <2>2 DEF Counting
    <3>2. MyHandle(u) \in Handles /\ Owns(u, MyHandle(u)) /\ Owns(v, MyHandle(u))
      BY <1>3, <3>1
    <3> QED
      BY <1>0, <3>1, <3>2 DEF RefsInv, HandleInv
  <2> QED
    BY <2>1, <2>2 DEF Injection, IsInjective
<1>5. Cardinality(Counting(p)) <= Cardinality(left)
  <2> HIDE DEF left, g
  <2> QED
    BY <1>2, <1>4, FS_Injection
<1> QED
  BY <1>1, <1>2, <1>5

\* Subtracting a freed slot never takes the page's size below zero.
LEMMA UncountKeeps ==
  ASSUME TableInv, NEW t \in Threads, UncountSlot(t)
  PROVE  TableInv'
<1>0. TypeOK /\ PagesInv /\ SlotsInv /\ RefsInv /\ Others(t)
  BY OthersStay DEF TableInv, Step
<1>1. /\ UNCHANGED <<pages, first, next, taken, numbered, ref, wref, alive, strong, weak, at, slot>>
      /\ pc[t] = "uncount" /\ pc'[t] = "idle" /\ at[t] \in Listed /\ at[t] \in Pages
      /\ at[t] < numbered /\ size' = [size EXCEPT ![at[t]] = @ - 1]
  BY <1>0, ThreadFacts DEF UncountSlot, Goto, TypeOK, local, held, AtListed
<1>2. size[at[t]] - 1 \in Nat
  <2>1. /\ IsFiniteSet(Uncounting(at[t])) /\ Cardinality(Uncounting(at[t])) \in Nat
        /\ size[at[t]] \in Nat
    BY <1>0, <1>1, CountsFinite
  <2>2. t \in Uncounting(at[t])
    BY <1>1 DEF Uncounting
  <2>3. Cardinality(Uncounting(at[t])) # 0
    BY <2>1, <2>2, FS_EmptySet
  <2>4. size[at[t]] >= Cardinality(Uncounting(at[t]))
    BY <1>1, SizeCoversFreed
  <2> QED
    BY <2>1, <2>3, <2>4
<1>3. TypeOK'
  <2>1. size' \in [Pages -> Nat]
    BY <1>0, <1>1, <1>2 DEF TypeOK
  <2> QED
    BY <1>0, <1>1, <2>1 DEF UncountSlot, Goto, TypeOK, local, held
<1>4. PagesInv' /\ Listed' = Listed
  BY <1>0, <1>1, PagesKeep DEF Adding, AtListed
<1>5. SlotsInv'
  <2>1. ASSUME NEW p \in Pages
        PROVE  size'[p] + Cardinality(Counting(p))' =
                 Cardinality(taken'[p]) - (IF p = 0 /\ 0 < numbered' THEN 1 ELSE 0)
                   + Cardinality(Uncounting(p))'
    <3>1. /\ size[p] + Cardinality(Counting(p)) =
               Cardinality(taken[p]) - (IF p = 0 /\ 0 < numbered THEN 1 ELSE 0)
                 + Cardinality(Uncounting(p))
          /\ IsFiniteSet(Uncounting(p)) /\ Cardinality(Counting(p)) \in Nat
          /\ Cardinality(Uncounting(p)) \in Nat /\ Cardinality(taken[p]) \in Nat /\ size[p] \in Nat
      BY <1>0, CountsFinite DEF SlotsInv, SizeCountsSlots, Counting, Uncounting
    <3>2. Counting(p)' = Counting(p)
      BY <1>0, <1>1 DEF Counting, Others
    <3>3. CASE p = at[t]
      <4>1. Uncounting(p)' = Uncounting(p) \ {t} /\ t \in Uncounting(p)
        BY <1>0, <1>1, <3>3 DEF Uncounting, Others
      <4>2. Cardinality(Uncounting(p) \ {t}) = Cardinality(Uncounting(p)) - 1
        BY <3>1, <4>1, FS_RemoveElement, Zenon
      <4>3. /\ Cardinality(Uncounting(p))' = Cardinality(Uncounting(p)) - 1
            /\ Cardinality(Counting(p))' = Cardinality(Counting(p))
            /\ size'[p] = size[p] - 1 /\ taken' = taken /\ numbered' = numbered
        BY <1>0, <1>1, <3>2, <3>3, <4>1, <4>2 DEF TypeOK
      <4> QED
        BY <3>1, <4>3
    <3>4. CASE p # at[t]
      <4>1. Uncounting(p)' = Uncounting(p) /\ size'[p] = size[p]
        BY <1>0, <1>1, <3>4 DEF Uncounting, Others, TypeOK
      <4> QED
        BY <1>1, <3>1, <3>2, <4>1
    <3> QED
      BY <3>3, <3>4
  <2>2. SizeCountsSlots'
    BY <2>1 DEF SizeCountsSlots, Counting, Uncounting
  <2>3. \A p \in Pages : numbered' <= p => taken'[p] = {} /\ size'[p] = 0
    <3> SUFFICES ASSUME NEW p \in Pages, numbered <= p PROVE taken[p] = {} /\ size'[p] = 0
      BY <1>1
    <3>1. p # at[t]
      BY <1>0, <1>1 DEF TypeOK, Pages
    <3> QED
      BY <1>0, <1>1, <3>1 DEF SlotsInv, TypeOK
  <2> QED
    BY <1>0, <1>1, <2>2, <2>3 DEF SlotsInv
<1>6. RefsInv'
  <2>1. pc[t] \notin Owning \cup Dropping /\ pc'[t] \notin Owning \cup Dropping
    BY <1>1 DEF Owning, Dropping
  <2> QED
    BY <1>0, <1>1, <1>4, <2>1, RefsKeep
<1> QED
  BY <1>3, <1>4, <1>5, <1>6 DEF TableInv
-----------------------------------------------------------------------------
(* The table. *)

\* A table is empty.
LEMMA InitTable == Init => TableInv
<1> SUFFICES ASSUME Init PROVE TableInv
  OBVIOUS
<1>1. /\ pages = {} /\ first = Null /\ next = [p \in Pages |-> Null] /\ numbered = 0
      /\ size = [p \in Pages |-> 0] /\ taken = [p \in Pages |-> {}] /\ ref = None /\ wref = None
      /\ pc = [t \in Threads |-> "idle"]
      /\ strong = [t \in Threads |-> None] /\ weak = [t \in Threads |-> None]
  BY DEF Init
<1>2. MaxRefs \in Nat /\ Null \notin Pages /\ 0 \in Slots
  BY HandleTableAssumption DEF Pages, Slots
<1>3. TypeOK
  <2>1. 0 \in 0 .. MaxRefs /\ 0 \in 0 .. MaxConstructs
    BY HandleTableAssumption
  <2>2. None \in [Handles -> 0 .. MaxRefs]
    BY <2>1 DEF None
  <2>3. /\ ref \in [Handles -> 0 .. MaxRefs] /\ wref \in [Handles -> 0 .. MaxRefs]
        /\ strong \in [Threads -> [Handles -> 0 .. MaxRefs]]
        /\ weak \in [Threads -> [Handles -> 0 .. MaxRefs]]
    BY <1>1, <2>2
  <2> QED
    BY <1>2, <2>1, <2>3, ZeroIsWord DEF Init, TypeOK
<1>4. Listed = {}
  BY <1>1, <1>2 DEF Listed
<1>5. PagesInv
  BY <1>1, <1>4 DEF PagesInv, AtListed, Adding
<1>6. SlotsInv
  <2>1. \A p \in Pages : /\ {t \in Threads : pc[t] = "count" /\ at[t] = p} = {}
                         /\ {t \in Threads : pc[t] = "uncount" /\ at[t] = p} = {}
    BY <1>1
  <2>2. Cardinality({}) = 0
    BY FS_EmptySet
  <2>3. \A p \in Pages : size[p] = 0 /\ Cardinality(taken[p]) = 0
    BY <1>1, <2>2
  <2>4. SizeCountsSlots
    BY <1>1, <2>1, <2>2, <2>3 DEF SizeCountsSlots
  <2> QED
    BY <1>1, <2>4 DEF SlotsInv
<1>7. RefsInv
  <2> SUFFICES ASSUME NEW h \in Handles PROVE HandleInv(h)
    BY DEF RefsInv
  <2>1. strong \in Counts /\ weak \in Counts
    BY <1>3 DEF TypeOK, Counts
  <2>2. \A t \in Threads : strong[t][h] = 0 /\ weak[t][h] = 0
    BY <1>1 DEF None
  <2>3. Total(strong, h) = 0 /\ Total(weak, h) = 0
    BY <2>1, <2>2, TotalBounds
  <2>4. Busy(Dropping, h) = {} /\ Cardinality({}) = 0
    BY <1>1, FS_EmptySet DEF Busy, Dropping
  <2>5. ref[h] = 0 /\ wref[h] = 0
    BY <1>1 DEF None
  <2>6. \A t \in Threads : ~Owns(t, h) /\ ~Destroys(t, h)
    BY <1>1 DEF Owns, Owning, Destroys
  <2> QED
    BY <2>3, <2>4, <2>5, <2>6 DEF HandleInv
<1> QED
  BY <1>3, <1>5, <1>6, <1>7 DEF TableInv

\* The invariant speaks of the table and its threads alone.
LEMMA StutterKeeps ==
  ASSUME TableInv, UNCHANGED vars
  PROVE  TableInv'
<1>1. /\ UNCHANGED <<pages, first, next, size, taken, numbered, ref, wref, alive>>
      /\ UNCHANGED <<pc, at, tail, word, seen, slot, strong, weak, made>>
  BY DEF vars, table, local, held
<1>2. TypeOK'
  BY <1>1 DEF TableInv, TypeOK
<1>3. Listed' = Listed
  BY <1>1 DEF Listed
<1>4. PagesInv'
  BY <1>1, <1>3 DEF TableInv, PagesInv
<1>5. SlotsInv'
  BY <1>1 DEF TableInv, SlotsInv, SizeCountsSlots
<1>6. RefsInv'
  <2> SUFFICES ASSUME NEW h \in Handles PROVE HandleInv(h)'
    BY DEF RefsInv
  <2>1. HandleInv(h)
    BY DEF TableInv, RefsInv
  <2>2. Total(strong, h)' = Total(strong, h) /\ Total(weak, h)' = Total(weak, h)
    BY <1>1 DEF Total, References
  <2>3. Busy(Dropping, h)' = Busy(Dropping, h)
    BY <1>1 DEF Busy, MyHandle
  <2>4. Cardinality(Busy(Dropping, h))' = Cardinality(Busy(Dropping, h))
    BY <2>3
  <2>5. \A t \in Threads : (Owns(t, h)' <=> Owns(t, h)) /\ (Destroys(t, h)' <=> Destroys(t, h))
    BY <1>1 DEF Owns, Destroys, MyHandle
  <2> QED
    BY <1>1, <1>3, <2>1, <2>2, <2>4, <2>5 DEF HandleInv
<1> QED
  BY <1>2, <1>4, <1>5, <1>6 DEF TableInv

\* Every call and every step of a thread keeps the table sound.
LEMMA StepKeeps == TableInv /\ [Next]_vars => TableInv'
<1> SUFFICES ASSUME TableInv, [Next]_vars PROVE TableInv'
  OBVIOUS
<1>1. CASE UNCHANGED vars
  BY <1>1, StutterKeeps
<1>2. ASSUME NEW t \in Threads, Call(t) PROVE TableInv'
  <2>1. CASE Construct(t)
    BY <2>1, WalkKeeps
  <2>2. ASSUME NEW h \in Handles, Release(t, h) \/ WeakRelease(t, h) PROVE TableInv'
    BY <2>2, ReleaseKeeps, WeakReleaseKeeps
  <2>3. ASSUME NEW h \in Handles, NEW u \in Threads, Retain(t, u, h) \/ WeakRetain(t, u, h)
        PROVE  TableInv'
    BY <2>3, RetainKeeps, WeakRetainKeeps
  <2> QED
    BY <1>2, <2>1, <2>2, <2>3 DEF Call
<1>3. ASSUME NEW t \in Threads, Step(t) PROVE TableInv'
  <2>1. CASE LoadFirst(t) \/ TestSize(t) \/ LoadNext(t) \/ TestPages(t) \/ LoadWord(t)
    BY <2>1, WalkKeeps
  <2>2. CASE NumberPage(t) \/ Publish(t) \/ Link(t) \/ Unpublish(t)
    BY <2>2, NumberKeeps, PublishKeeps, LinkKeeps, UnpublishKeeps
  <2>3. CASE ClaimSlot(t) \/ CountSlot(t) \/ FillSlot(t)
    BY <2>3, ClaimKeeps, CountKeeps, FillKeeps
  <2>4. CASE DestroyPayload(t) \/ DropWeak(t) \/ ClearBit(t) \/ UncountSlot(t)
    BY <2>4, DestroyKeeps, DropKeeps, ClearKeeps, UncountKeeps
  <2> QED
    BY <1>3, <2>1, <2>2, <2>3, <2>4 DEF Step
<1> QED
  BY <1>1, <1>2, <1>3 DEF Next

\* The invariant holds for any number of threads, pages and slots.
THEOREM TableIsSound == Spec => []TableInv
<1>1. Init => TableInv
  BY InitTable
<1>2. TableInv /\ [Next]_vars => TableInv'
  BY StepKeeps
<1> QED
  BY <1>1, <1>2, PTL DEF Spec

\* The sizes by which construct() finds a page count its taken slots, but for
\* what threads are about to add or subtract, and never wrap below zero; the
\* list that a walk of it reads holds the published pages, and none that lost
\* the race to be linked.
THEOREM PagesSound == Spec => []PagesAreSound
<1>1. TableInv => PagesAreSound
  <2> SUFFICES ASSUME TableInv PROVE PagesAreSound
    OBVIOUS
  <2>1. TypeOK /\ SizeCountsSlots
    BY DEF TableInv, SlotsInv
  <2>2. ListedArePublished
    <3>1. Listed \subseteq pages
      BY DEF TableInv, PagesInv
    <3>2. \A p \in pages \ Listed : \E t \in Threads : pc[t] \in {"link", "unpublish"} /\ at[t] = p
      BY DEF TableInv, PagesInv
    <3>3. \A t \in Threads : pc[t] \in {"link", "unpublish"} => at[t] \notin Listed
      BY DEF TableInv, PagesInv, Adding
    <3> QED
      BY <3>1, <3>2, <3>3 DEF ListedArePublished
  <2> QED
    BY <2>1, <2>2 DEF PagesAreSound
<1> QED
  BY <1>1, TableIsSound, PTL

\* The counts of a handle are the references threads hold: get() returns the
\* payload to whoever holds a strong one, and the slot and its page are kept
\* for whoever holds a weak one.
THEOREM CountsRight == Spec => []CountsMatchReferences
<1>1. TableInv => CountsMatchReferences
  <2> SUFFICES ASSUME TableInv, NEW h \in Handles
               PROVE  /\ ref[h] = Total(strong, h)
                      /\ Total(strong, h) > 0 => Gets(h) /\ ~Expired(h)
                      /\ Total(strong, h) + Total(weak, h) > 0 =>
                           PageOf(h) \in pages /\ SlotOf(h) \in taken[PageOf(h)]
                      /\ wref[h] >= Total(weak, h) + (IF ref[h] > 0 THEN 1 ELSE 0)
    BY DEF CountsMatchReferences
  <2>1. /\ HandleInv(h) /\ ref[h] \in Nat /\ Total(weak, h) \in Nat /\ ref[h] = Total(strong, h)
        /\ Cardinality(Droppers(h)) \in Nat
        /\ wref[h] = Total(weak, h) + (IF ref[h] > 0 THEN 1 ELSE 0) + Cardinality(Droppers(h))
        /\ wref[h] > 0 => Found(h)
    BY HandleFacts
  <2>2. ref[h] > 0 => wref[h] > 0 /\ alive[h] /\ ref[h] # 0
    BY <2>1 DEF HandleInv
  <2>3. ref[h] + Total(weak, h) > 0 => wref[h] > 0
    BY <2>1
  <2>4. wref[h] > 0 => PageOf(h) \in pages /\ SlotOf(h) \in taken[PageOf(h)]
    BY <2>1 DEF HandleInv, TableInv, PagesInv
  <2>5. Total(strong, h) > 0 => Gets(h) /\ ~Expired(h)
    BY <2>1, <2>2 DEF Gets, Expired
  <2>6. wref[h] >= Total(weak, h) + (IF ref[h] > 0 THEN 1 ELSE 0)
    BY <2>1
  <2> QED
    BY <2>1, <2>3, <2>4, <2>5, <2>6
<1> QED
  BY <1>1, TableIsSound, PTL

\* A slot that is being constructed or torn down is in the hands of one thread,
\* and nobody holds a reference of its handle; handle 0 is never given out.
THEOREM OneOwner == Spec => []SlotsHaveOneOwner
<1>1. TableInv => SlotsHaveOneOwner
  <2> SUFFICES ASSUME TableInv, NEW h \in Handles
               PROVE  /\ Cardinality(Busy({"count", "fill", "destroy", "clear"}, h)) <= 1
                      /\ Busy({"count", "fill", "clear"}, h) # {} =>
                           Total(strong, h) + Total(weak, h) = 0
                      /\ h = 0 => Busy({"count", "fill"}, h) = {} /\ Total(strong, h) = 0
    BY DEF SlotsHaveOneOwner
  <2>1. /\ HandleInv(h) /\ ref[h] \in Nat /\ Total(weak, h) \in Nat /\ ref[h] = Total(strong, h)
        /\ Cardinality(Droppers(h)) \in Nat
        /\ wref[h] = Total(weak, h) + (IF ref[h] > 0 THEN 1 ELSE 0) + Cardinality(Droppers(h))
        /\ \A t \in Droppers(h) : Cardinality(Droppers(h)) > 0
    BY HandleFacts
  <2>2. \A t \in Threads : Owns(t, h) => wref[h] = 0
    BY <2>1 DEF HandleInv
  <2>3. \A t \in Threads : Destroys(t, h) => wref[h] > 0
    <3>1. \A t \in Threads : Destroys(t, h) => t \in Droppers(h)
      BY DEF Destroys, Droppers, Busy, Dropping
    <3> QED
      BY <2>1, <3>1
  <2>4. wref[h] = 0 => ref[h] = 0 /\ Total(strong, h) + Total(weak, h) = 0
    BY <2>1
  <2> DEFINE busy == Busy({"count", "fill", "destroy", "clear"}, h)
  <2>5. \A t \in busy : t \in Threads /\ (Owns(t, h) \/ Destroys(t, h))
    BY DEF Busy, Owns, Owning, Destroys
  <2>6. \A t, u \in busy : t = u
    BY <2>1, <2>2, <2>3, <2>5 DEF HandleInv
  <2>7. Cardinality(busy) <= 1
    <3> HIDE DEF busy
    <3>1. CASE busy = {}
      <4>1. Cardinality(busy) = 0
        BY <3>1, FS_EmptySet
      <4> QED
        BY <4>1
    <3>2. CASE busy # {}
      <4>1. PICK t \in busy : TRUE
        BY <3>2
      <4>2. busy = {t}
        BY <2>6, <4>1
      <4>3. Cardinality(busy) = 1
        BY <4>2, FS_Singleton
      <4> QED
        BY <4>3
    <3> QED
      BY <3>1, <3>2
  <2>8. \A t \in Busy({"count", "fill", "clear"}, h) : t \in Threads /\ Owns(t, h)
    BY DEF Busy, Owns, Owning
  <2>9. Busy({"count", "fill", "clear"}, h) # {} => Total(strong, h) + Total(weak, h) = 0
    BY <2>2, <2>4, <2>8
  <2>10. h = 0 => Busy({"count", "fill"}, h) = {} /\ Total(strong, h) = 0
    <3> SUFFICES ASSUME h = 0 PROVE Busy({"count", "fill"}, h) = {} /\ Total(strong, h) = 0
      OBVIOUS
    <3>1. ~(wref[h] > 0) /\ \A t \in Threads : ~Owns(t, h)
      BY <2>1 DEF HandleInv
    <3>2. Busy({"count", "fill"}, h) = {}
      BY <3>1 DEF Busy, Owns, Owning
    <3>3. Total(strong, h) = 0
      BY <2>1, <3>1
    <3> QED
      BY <3>2, <3>3
  <2> QED
    BY <2>7, <2>9, <2>10
<1> QED
  BY <1>1, TableIsSound, PTL
=============================================================================
