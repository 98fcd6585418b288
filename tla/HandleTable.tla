---------------------------- MODULE HandleTable ----------------------------
(***************************************************************************)
(* handle_table_t of include/atma/handle_table.hpp: threads construct      *)
(* payloads in the slots of pages that are added to a list without a lock, *)
(* and share them by handles that count strong and weak references.        *)
(* One step per atomic access.  Handles are the integers the code packs.   *)
(***************************************************************************)
EXTENDS Naturals, FiniteSets

CONSTANTS
  Threads,
  SlotMax,       \* slot_max: slots of a page
  WordBits,      \* slots of a word of freefield
  PageMax,       \* page_max
  Null,          \* nullptr
  MaxConstructs, \* bound: how many payloads a thread constructs
  MaxLive,       \* bound: payloads there are, with those being made or freed
  MaxRefs        \* bound: references of a handle, of either kind

ASSUME HandleTableAssumption ==
  /\ IsFiniteSet(Threads)
  /\ SlotMax \in Nat \ {0} /\ PageMax \in Nat \ {0}
  /\ WordBits \in Nat \ {0} /\ SlotMax % WordBits = 0
  /\ Null \notin Nat
  /\ MaxConstructs \in Nat /\ MaxLive \in Nat /\ MaxRefs \in Nat \ {0}

Slots == 0 .. (SlotMax - 1)
Pages == 0 .. (PageMax - 1)
Handles == 0 .. (SlotMax * PageMax - 1)
Words == 0 .. ((SlotMax \div WordBits) - 1)

\* construct_handle(), extract_slot_idx(), extract_page_idx(). The bits of the
\* generation are always zero.
Handle(slot, page) == slot * PageMax + page
SlotOf(h) == h \div PageMax
PageOf(h) == h % PageMax

WordOf(slot) == slot \div WordBits
WordSlots(i) == {s \in Slots : WordOf(s) = i}

VARIABLES
  pages,     \* the ids of the pages that pages_ holds
  first,     \* first_page_
  next,      \* next of each page
  size,      \* size of each page
  taken,     \* the slots whose freefield bit is set, by page
  numbered,  \* pages_size_
  ref,       \* ref_count of each slot
  wref,      \* wref_count of each slot
  alive,     \* whether the payload of the slot is constructed
  pc,        \* where each thread is
  at,        \* the page each thread works on: p, or the new page
  tail,      \* the link the thread will write: pp, or Null for first_page_
  word,      \* i: the word of freefield
  seen,      \* u32: the taken slots of that word, as read
  slot,      \* the slot the thread claims or frees
  strong,    \* the strong references threads hold, by handle
  weak,      \* the weak references threads hold, by handle
  made       \* how many payloads each thread constructed

table == <<pages, first, next, size, taken, numbered, ref, wref, alive>>
local == <<at, tail, word, seen, slot>>
held == <<strong, weak, made>>
vars == <<table, pc, local, held>>

None == [h \in Handles |-> 0]

Init ==
  /\ pages = {}
  /\ first = Null
  /\ next = [p \in Pages |-> Null]
  /\ size = [p \in Pages |-> 0]
  /\ taken = [p \in Pages |-> {}]
  /\ numbered = 0
  /\ ref = None
  /\ wref = None
  /\ alive = [h \in Handles |-> FALSE]
  /\ pc = [t \in Threads |-> "idle"]
  /\ at = [t \in Threads |-> Null]
  /\ tail = [t \in Threads |-> Null]
  /\ word = [t \in Threads |-> 0]
  /\ seen = [t \in Threads |-> {}]
  /\ slot = [t \in Threads |-> 0]
  /\ strong = [t \in Threads |-> None]
  /\ weak = [t \in Threads |-> None]
  /\ made = [t \in Threads |-> 0]

Goto(t, l) == pc' = [pc EXCEPT ![t] = l]
MyHandle(t) == Handle(slot[t], at[t])

-----------------------------------------------------------------------------
(* construct(): find a page. *)

InUse == {h \in Handles : \E t \in Threads : strong[t][h] + weak[t][h] > 0}

Construct(t) ==
  /\ pc[t] = "idle"
  /\ made[t] < MaxConstructs
  /\ Cardinality(InUse) + Cardinality({u \in Threads : pc[u] # "idle"}) < MaxLive
  /\ made' = [made EXCEPT ![t] = @ + 1]
  /\ Goto(t, "begin")
  /\ UNCHANGED <<table, local, strong, weak>>

\* pages_begin.
LoadFirst(t) ==
  /\ pc[t] = "begin"
  /\ at' = [at EXCEPT ![t] = first]
  /\ tail' = [tail EXCEPT ![t] = Null]
  /\ Goto(t, IF first = Null THEN "grow" ELSE "size")
  /\ UNCHANGED <<table, word, seen, slot, held>>

TestSize(t) ==
  /\ pc[t] = "size"
  /\ IF size[at[t]] < SlotMax
     THEN Goto(t, "word") /\ word' = [word EXCEPT ![t] = 0]
     ELSE Goto(t, "next") /\ UNCHANGED word
  /\ UNCHANGED <<table, at, tail, seen, slot, held>>

LoadNext(t) ==
  /\ pc[t] = "next"
  /\ tail' = [tail EXCEPT ![t] = at[t]]
  /\ at' = [at EXCEPT ![t] = next[at[t]]]
  /\ Goto(t, IF next[at[t]] = Null THEN "grow" ELSE "size")
  /\ UNCHANGED <<table, word, seen, slot, held>>

\* pages_size_ < page_max.
TestPages(t) ==
  /\ pc[t] = "grow"
  /\ Goto(t, IF numbered < PageMax THEN "number" ELSE "begin")
  /\ UNCHANGED <<table, local, held>>

\* The number of the new page; handle 0, of slot 0 of page 0, means no handle.
NumberPage(t) ==
  /\ pc[t] = "number"
  /\ numbered' = numbered + 1
  /\ IF numbered < PageMax
     THEN /\ at' = [at EXCEPT ![t] = numbered]
          /\ taken' = [taken EXCEPT ![numbered] = IF numbered = 0 THEN {0} ELSE {}]
          /\ Goto(t, "publish")
     ELSE Goto(t, "begin") /\ UNCHANGED <<at, taken>>
  /\ UNCHANGED <<pages, first, next, size, ref, wref, alive, tail, word, seen, slot, held>>

Publish(t) ==
  /\ pc[t] = "publish"
  /\ at[t] \notin pages
  /\ pages' = pages \cup {at[t]}
  /\ Goto(t, "link")
  /\ UNCHANGED <<first, next, size, taken, numbered, ref, wref, alive, local, held>>

\* The exchange on pp, which was null when the walk ended there.
\* (LinkBlind: a mutant that stores without comparing.)
LinkBlind(t) == TRUE
AtTail(t) == (IF tail[t] = Null THEN first ELSE next[tail[t]]) = Null

Link(t) ==
  /\ pc[t] = "link"
  /\ IF AtTail(t)
     THEN /\ IF tail[t] = Null
             THEN first' = at[t] /\ UNCHANGED next
             ELSE next' = [next EXCEPT ![tail[t]] = at[t]] /\ UNCHANGED first
          /\ word' = [word EXCEPT ![t] = 0]
          /\ Goto(t, "word")
     ELSE Goto(t, "unpublish") /\ UNCHANGED <<first, next, word>>
  /\ UNCHANGED <<pages, size, taken, numbered, ref, wref, alive, at, tail, seen, slot, held>>

Unpublish(t) ==
  /\ pc[t] = "unpublish"
  /\ pages' = pages \ {at[t]}
  /\ Goto(t, "begin")
  /\ UNCHANGED <<first, next, size, taken, numbered, ref, wref, alive, local, held>>

-----------------------------------------------------------------------------
(* construct(): claim a slot of the page. *)

TryNextWord(t) ==
  IF word[t] + 1 \in Words
  THEN Goto(t, "word") /\ word' = [word EXCEPT ![t] = @ + 1]
  ELSE Goto(t, "begin") /\ UNCHANGED word

LoadWord(t) ==
  LET u32 == taken[at[t]] \cap WordSlots(word[t])
  IN
  /\ pc[t] = "word"
  /\ seen' = [seen EXCEPT ![t] = u32]
  /\ IF u32 = WordSlots(word[t])
     THEN TryNextWord(t)
     ELSE Goto(t, "claim") /\ UNCHANGED word
  /\ UNCHANGED <<table, at, tail, slot, held>>

\* The exchange succeeds if the word is as it was read.
\* (ClaimBlind: a mutant that stores without comparing.)
ClaimBlind(t) == TRUE
WordUnchanged(t) == taken[at[t]] \cap WordSlots(word[t]) = seen[t]

\* The first free bit of the word as it was read; after an exchange that
\* failed, the word is as the exchange found it.
ClaimSlot(t) ==
  LET free == WordSlots(word[t]) \ seen[t]
  IN
  /\ pc[t] = "claim"
  /\ IF free = {}
     THEN TryNextWord(t) /\ UNCHANGED <<taken, seen, slot>>
     ELSE IF WordUnchanged(t)
     THEN /\ \E bit \in free :
               /\ \A other \in free : bit <= other
               /\ taken' = [taken EXCEPT ![at[t]] = @ \cup {bit}]
               /\ slot' = [slot EXCEPT ![t] = bit]
          /\ Goto(t, "count")
          /\ UNCHANGED <<word, seen>>
     ELSE /\ seen' = [seen EXCEPT ![t] = taken[at[t]] \cap WordSlots(word[t])]
          /\ UNCHANGED <<taken, slot, word, pc>>
  /\ UNCHANGED <<pages, first, next, size, numbered, ref, wref, alive, at, tail, held>>

CountSlot(t) ==
  /\ pc[t] = "count"
  /\ size' = [size EXCEPT ![at[t]] = @ + 1]
  /\ Goto(t, "fill")
  /\ UNCHANGED <<pages, first, next, taken, numbered, ref, wref, alive, local, held>>

\* slot_t's constructor, and the return of the handle.
FillSlot(t) ==
  /\ pc[t] = "fill"
  /\ ref' = [ref EXCEPT ![MyHandle(t)] = 1]
  /\ wref' = [wref EXCEPT ![MyHandle(t)] = 1]
  /\ alive' = [alive EXCEPT ![MyHandle(t)] = TRUE]
  /\ strong' = [strong EXCEPT ![t][MyHandle(t)] = @ + 1]
  /\ Goto(t, "idle")
  /\ UNCHANGED <<pages, first, next, size, taken, numbered, local, weak, made>>

-----------------------------------------------------------------------------
(* References. A thread uses a handle it holds a reference of. *)

\* lookup_handle() finds a page; without one, a call does nothing.
Found(h) == h # 0 /\ PageOf(h) \in pages

\* expired(), and get(): whether what it returns is a payload.
Expired(h) == Found(h) => ref[h] = 0
Gets(h) == Found(h) /\ alive[h]

\* retain(), for thread u.
Retain(t, u, h) ==
  /\ pc[t] = "idle"
  /\ strong[t][h] > 0
  /\ ref[h] < MaxRefs
  /\ ref' = IF Found(h) THEN [ref EXCEPT ![h] = @ + 1] ELSE ref
  /\ strong' = [strong EXCEPT ![u][h] = @ + 1]
  /\ UNCHANGED <<pages, first, next, size, taken, numbered, wref, alive, pc, local, weak, made>>

\* weak_retain(), for thread u.
WeakRetain(t, u, h) ==
  /\ pc[t] = "idle"
  /\ strong[t][h] > 0 \/ weak[t][h] > 0
  /\ wref[h] < MaxRefs
  /\ wref' = IF Found(h) THEN [wref EXCEPT ![h] = @ + 1] ELSE wref
  /\ weak' = [weak EXCEPT ![u][h] = @ + 1]
  /\ UNCHANGED <<pages, first, next, size, taken, numbered, ref, alive, pc, local, strong, made>>

\* Who drops the last strong reference. (SeenLast: a mutant in which the count
\* is tested before it is decremented by one of two.)
SeenLast(h) == ref[h] <= 2
LastRef(h) == ref[h] = 1

\* release(): the decrement, then the payload's destructor.
Release(t, h) ==
  /\ pc[t] = "idle"
  /\ strong[t][h] > 0
  /\ strong' = [strong EXCEPT ![t][h] = @ - 1]
  /\ ref' = IF Found(h) THEN [ref EXCEPT ![h] = @ - 1] ELSE ref
  /\ at' = [at EXCEPT ![t] = PageOf(h)]
  /\ slot' = [slot EXCEPT ![t] = SlotOf(h)]
  /\ Goto(t, IF Found(h) /\ LastRef(h) THEN "destroy" ELSE "idle")
  /\ UNCHANGED <<pages, first, next, size, taken, numbered, wref, alive,
                 tail, word, seen, weak, made>>

DestroyPayload(t) ==
  /\ pc[t] = "destroy"
  /\ alive' = [alive EXCEPT ![MyHandle(t)] = FALSE]
  /\ Goto(t, "weak")
  /\ UNCHANGED <<pages, first, next, size, taken, numbered, ref, wref, local, held>>

WeakRelease(t, h) ==
  /\ pc[t] = "idle"
  /\ weak[t][h] > 0
  /\ weak' = [weak EXCEPT ![t][h] = @ - 1]
  /\ at' = [at EXCEPT ![t] = PageOf(h)]
  /\ slot' = [slot EXCEPT ![t] = SlotOf(h)]
  /\ Goto(t, IF Found(h) THEN "weak" ELSE "idle")
  /\ UNCHANGED <<table, tail, word, seen, strong, made>>

\* weak_release_impl(): the decrement; the bit, by an exchange that is retried
\* until it succeeds; the page's size.
DropWeak(t) ==
  /\ pc[t] = "weak"
  /\ wref' = [wref EXCEPT ![MyHandle(t)] = @ - 1]
  /\ Goto(t, IF wref[MyHandle(t)] = 1 THEN "clear" ELSE "idle")
  /\ UNCHANGED <<pages, first, next, size, taken, numbered, ref, alive, local, held>>

WithoutBit(t) == taken[at[t]] \ {slot[t]}

ClearBit(t) ==
  /\ pc[t] = "clear"
  /\ taken' = [taken EXCEPT ![at[t]] = WithoutBit(t)]
  /\ Goto(t, "uncount")
  /\ UNCHANGED <<pages, first, next, size, numbered, ref, wref, alive, local, held>>

UncountSlot(t) ==
  /\ pc[t] = "uncount"
  /\ size' = [size EXCEPT ![at[t]] = @ - 1]
  /\ Goto(t, "idle")
  /\ UNCHANGED <<pages, first, next, taken, numbered, ref, wref, alive, local, held>>

-----------------------------------------------------------------------------
Call(t) ==
  \/ Construct(t)
  \/ \E h \in Handles : Release(t, h) \/ WeakRelease(t, h)
  \/ \E h \in Handles, u \in Threads : Retain(t, u, h) \/ WeakRetain(t, u, h)

Step(t) ==
  \/ LoadFirst(t) \/ TestSize(t) \/ LoadNext(t) \/ TestPages(t)
  \/ NumberPage(t) \/ Publish(t) \/ Link(t) \/ Unpublish(t)
  \/ LoadWord(t) \/ ClaimSlot(t) \/ CountSlot(t) \/ FillSlot(t)
  \/ DestroyPayload(t) \/ DropWeak(t) \/ ClearBit(t) \/ UncountSlot(t)

Next == \E t \in Threads : Call(t) \/ Step(t)

Spec == Init /\ [][Next]_vars

\* Threads run; which calls they make is up to them.
FairSpec == Spec /\ \A t \in Threads : WF_vars(Step(t))

-----------------------------------------------------------------------------
(* Properties. *)

TypeOK ==
  /\ pages \subseteq Pages
  /\ first \in Pages \cup {Null}
  /\ next \in [Pages -> Pages \cup {Null}]
  /\ size \in [Pages -> Nat]
  /\ taken \in [Pages -> SUBSET Slots]
  /\ numbered \in Nat
  /\ ref \in [Handles -> 0 .. MaxRefs] /\ wref \in [Handles -> 0 .. MaxRefs]
  /\ alive \in [Handles -> BOOLEAN]
  /\ pc \in [Threads -> {"idle", "begin", "size", "next", "grow", "number", "publish",
                         "link", "unpublish", "word", "claim", "count", "fill",
                         "destroy", "weak", "clear", "uncount"}]
  /\ at \in [Threads -> Pages \cup {Null}] /\ tail \in [Threads -> Pages \cup {Null}]
  /\ word \in [Threads -> Words]
  /\ seen \in [Threads -> SUBSET Slots]
  /\ slot \in [Threads -> Slots]
  /\ strong \in [Threads -> [Handles -> 0 .. MaxRefs]]
  /\ weak \in [Threads -> [Handles -> 0 .. MaxRefs]]
  /\ made \in [Threads -> 0 .. MaxConstructs]

\* The references of h that f counts, one by one, and how many there are.
References(f, h) == {x \in Threads \X (1 .. MaxRefs) : x[2] <= f[x[1]][h]}
Total(f, h) == Cardinality(References(f, h))
Busy(labels, h) == {t \in Threads : pc[t] \in labels /\ MyHandle(t) = h}

\* A handle somebody holds a strong reference of names a payload that is there
\* and that get() returns, in a slot that is taken on a page that is published;
\* and the counts are the references, so the payload goes when the last of them
\* does and the slot when the last weak one does.
CountsMatchReferences ==
  \A h \in Handles :
    /\ ref[h] = Total(strong, h)
    /\ Total(strong, h) > 0 => Gets(h) /\ ~Expired(h)
    /\ Total(strong, h) + Total(weak, h) > 0 =>
         PageOf(h) \in pages /\ SlotOf(h) \in taken[PageOf(h)]
    /\ wref[h] >= Total(weak, h) + (IF ref[h] > 0 THEN 1 ELSE 0)

\* A slot that is being constructed or torn down belongs to one thread, and to
\* no holder of its handle; handle 0 is never given out.
SlotsHaveOneOwner ==
  \A h \in Handles :
    /\ Cardinality(Busy({"count", "fill", "destroy", "clear"}, h)) <= 1
    /\ Busy({"count", "fill", "clear"}, h) # {} => Total(strong, h) + Total(weak, h) = 0
    /\ h = 0 => Busy({"count", "fill"}, h) = {} /\ Total(strong, h) = 0

\* The size of a page counts its taken slots, but for those that threads have
\* claimed and not yet counted, those they have freed and not yet subtracted,
\* and the slot of handle 0: it never wraps below zero.
SizeCountsSlots ==
  \A p \in Pages :
    size[p] + Cardinality({t \in Threads : pc[t] = "count" /\ at[t] = p})
      = Cardinality(taken[p]) - (IF p = 0 /\ 0 < numbered THEN 1 ELSE 0)
        + Cardinality({t \in Threads : pc[t] = "uncount" /\ at[t] = p})

\* The list holds the published pages, but for those a thread is linking or
\* about to unpublish: no page that lost the race is ever found by a walk.
Listed == {p \in Pages : first = p \/ \E q \in Pages : next[q] = p}
ListedArePublished ==
  pages \ {at[t] : t \in {u \in Threads : pc[u] \in {"link", "unpublish"}}} = Listed

\* The pages and the sizes by which construct() finds one are as they say.
PagesAreSound == TypeOK /\ SizeCountsSlots /\ ListedArePublished

Constructing == {"begin", "size", "next", "grow", "number", "publish", "link",
                 "unpublish", "word", "claim", "count", "fill"}

\* Every call of construct() returns a handle.
ConstructReturns == \A t \in Threads : pc[t] \in Constructing ~> pc[t] = "idle"
=============================================================================
