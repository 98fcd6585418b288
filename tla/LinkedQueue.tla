---------------------------- MODULE LinkedQueue ----------------------------
(***************************************************************************)
(* The linked queue of include/atma/lockfree/queue.hpp (queue_t and its    *)
(* batch_t), on which thread/engine.hpp runs: one spin lock for producers  *)
(* at the tail, one for consumers at the head, and a dummy node between    *)
(* them that the two sides share.  The producer's store to tail->next is   *)
(* the only point where they meet.                                         *)
(*                                                                         *)
(* An action is one access to memory another thread may look at.  A freed  *)
(* node goes back to the allocator, which may hand it out again at once.   *)
(* Definitions marked "mutant" are broken variants of the one after them.  *)
(***************************************************************************)
EXTENDS Naturals, Sequences

CONSTANTS
  Producers,   \* threads that push
  Consumers,   \* threads that pop
  Nodes,       \* node_t addresses
  Null,        \* nullptr
  Values,      \* what is pushed
  MaxBatch     \* bound: how many values a batch_t collects before it is pushed

ASSUME QueueAssumption ==
  /\ Null \notin Nodes
  /\ Nodes # {}
  /\ Producers \cap Consumers = {}
  /\ MaxBatch \in Nat \ {0}
  /\ Values # {}

Threads == Producers \cup Consumers

VARIABLES
  head,    \* head_: the dummy node
  tail,    \* tail_: the last node
  next,    \* node_t::next
  val,     \* node_t::value
  life,    \* what a node's memory holds: nothing, a value, or a value destroyed
  lock,    \* producer_lock_ and consumer_lock_
  pc,
  chain,   \* a producer's own nodes, linked to one another
  old,     \* the head a consumer has loaded
  result,  \* what a consumer's pop has copied out
  order    \* history: the nodes linked behind the dummy

shared == <<head, tail, next, val, life, lock>>
vars   == <<shared, pc, chain, old, result, order>>

PC == {"idle", "link", "tail", "unlock",
       "next", "head", "copy", "free", "release"}

LastOf(s) == s[Len(s)]

Init ==
  /\ \E d \in Nodes :
       /\ head = d /\ tail = d
       /\ life = [n \in Nodes |-> IF n = d THEN "empty" ELSE "free"]
  /\ next = [n \in Nodes |-> Null]
  /\ val = [n \in Nodes |-> CHOOSE v \in Values : TRUE]
  /\ lock   = [side \in {"producer", "consumer"} |-> FALSE]
  /\ pc     = [t \in Threads |-> "idle"]
  /\ chain  = [t \in Threads |-> <<>>]
  /\ old    = [t \in Threads |-> Null]
  /\ result = [t \in Threads |-> CHOOSE v \in Values : TRUE]
  /\ order  = <<>>

Goto(t, l) == pc' = [pc EXCEPT ![t] = l]

\* A spin lock is an exchange that is repeated until it finds FALSE.
AcquireBlind(side) == lock' = [lock EXCEPT ![side] = TRUE]   \* mutant: once is enough
Acquire(side) == ~lock[side] /\ lock' = [lock EXCEPT ![side] = TRUE]

Free(side) == lock' = [lock EXCEPT ![side] = FALSE]

\* The node tail_ is moved to: the last of what was pushed.
NewTail(p) == LastOf(chain[p])

\* Only the dummy is in the list.
KeepsOne(c) ==   \* mutant: the last value is taken for the dummy
  next[old[c]] = Null \/ next[next[old[c]]] = Null
IsEmpty(c) == next[old[c]] = Null

\* The node that holds the value a pop returns: the new dummy.
DummyNode(c) == old[c]   \* mutant: the node before it
ValueNode(c) == head

\* The node a pop deletes: the old dummy.
WrongNode(c) == head   \* mutant: the node just popped
NodeToDelete(c) == old[c]

-----------------------------------------------------------------------------
(* push(T const&), batch_t::push and push(batch_t&). *)

\* A node is allocated, given its value and put behind the caller's earlier
\* ones; push(T const&) is the batch of one.
NewNode(p) ==
  /\ pc[p] = "idle"
  /\ Len(chain[p]) < MaxBatch
  /\ \E n \in Nodes, v \in Values :
       /\ life[n] = "free"
       /\ life' = [life EXCEPT ![n] = "value"]
       /\ val'  = [val EXCEPT ![n] = v]
       /\ next' = [m \in Nodes |->
                    IF m = n THEN Null
                    ELSE IF chain[p] # <<>> /\ m = LastOf(chain[p]) THEN n
                    ELSE next[m]]
       /\ chain' = [chain EXCEPT ![p] = Append(@, n)]
  /\ UNCHANGED <<head, tail, lock, pc, old, result, order>>

LockProducer(p) ==
  /\ pc[p] = "idle"
  /\ chain[p] # <<>>
  /\ Acquire("producer")
  /\ Goto(p, "link")
  /\ UNCHANGED <<head, tail, next, val, life, chain, old, result, order>>

\* tail_->next = tmp: from here on a consumer can see the nodes.
LinkChain(p) ==
  /\ pc[p] = "link"
  /\ next' = [next EXCEPT ![tail] = chain[p][1]]
  /\ order' = order \o chain[p]
  /\ Goto(p, "tail")
  /\ UNCHANGED <<head, tail, val, life, lock, chain, old, result>>

SetTail(p) ==
  /\ pc[p] = "tail"
  /\ tail' = NewTail(p)
  /\ Goto(p, "unlock")
  /\ UNCHANGED <<head, next, val, life, lock, chain, old, result, order>>

UnlockProducer(p) ==
  /\ pc[p] = "unlock"
  /\ Free("producer")
  /\ chain' = [chain EXCEPT ![p] = <<>>]
  /\ Goto(p, "idle")
  /\ UNCHANGED <<head, tail, next, val, life, old, result, order>>

-----------------------------------------------------------------------------
(* pop(T&). *)

LockConsumer(c) ==
  /\ pc[c] = "idle"
  /\ Acquire("consumer")
  /\ old' = [old EXCEPT ![c] = head]
  /\ Goto(c, "next")
  /\ UNCHANGED <<head, tail, next, val, life, chain, result, order>>

ReadNext(c) ==
  /\ pc[c] = "next"
  /\ Goto(c, IF IsEmpty(c) THEN "release" ELSE "head")
  /\ UNCHANGED <<shared, chain, old, result, order>>

\* head_ = head_next: the first value's node becomes the dummy.
SetHead(c) ==
  /\ pc[c] = "head"
  /\ head' = next[old[c]]
  /\ order' = SubSeq(order, 2, Len(order))
  /\ Goto(c, "copy")
  /\ UNCHANGED <<tail, next, val, life, lock, chain, old, result>>

CopyValue(c) ==
  /\ pc[c] = "copy"
  /\ result' = [result EXCEPT ![c] = val[ValueNode(c)]]
  /\ life' = [life EXCEPT ![ValueNode(c)] = "empty"]
  /\ Goto(c, "free")
  /\ UNCHANGED <<head, tail, next, val, lock, chain, old, order>>

FreeOld(c) ==
  /\ pc[c] = "free"
  /\ life' = [life EXCEPT ![NodeToDelete(c)] = "free"]
  /\ Goto(c, "release")
  /\ UNCHANGED <<head, tail, next, val, lock, chain, old, result, order>>

UnlockConsumer(c) ==
  /\ pc[c] = "release"
  /\ Free("consumer")
  /\ old' = [old EXCEPT ![c] = Null]
  /\ Goto(c, "idle")
  /\ UNCHANGED <<head, tail, next, val, life, chain, result, order>>

-----------------------------------------------------------------------------
Push(p) ==
  LockProducer(p) \/ LinkChain(p) \/ SetTail(p) \/ UnlockProducer(p)

Pop(c) ==
  \/ LockConsumer(c) \/ ReadNext(c) \/ SetHead(c)
  \/ CopyValue(c) \/ FreeOld(c) \/ UnlockConsumer(c)

Next ==
  \/ \E p \in Producers : NewNode(p) \/ Push(p)
  \/ \E c \in Consumers : Pop(c)

Spec == Init /\ [][Next]_vars

\* Every thread runs, and consumers keep polling, as engine_t::reenter does.
\* The spin locks are not fair: of two threads spinning one may always lose.
FairSpec ==
  /\ Spec
  /\ \A p \in Producers : WF_vars(Push(p))
  /\ \A c \in Consumers : WF_vars(Pop(c))

-----------------------------------------------------------------------------
(* Properties. *)

TypeOK ==
  /\ head \in Nodes /\ tail \in Nodes
  /\ next \in [Nodes -> Nodes \cup {Null}]
  /\ val \in [Nodes -> Values]
  /\ life \in [Nodes -> {"free", "value", "empty"}]
  /\ lock \in [{"producer", "consumer"} -> BOOLEAN]
  /\ pc \in [Threads -> PC]
  /\ chain \in [Threads -> Seq(Nodes)]
  /\ old \in [Threads -> Nodes \cup {Null}]
  /\ result \in [Threads -> Values]
  /\ order \in Seq(Nodes)

HoldsProducerLock(p) == pc[p] \in {"link", "tail", "unlock"}
HoldsConsumerLock(c) == pc[c] \in {"next", "head", "copy", "free", "release"}

\* At most one producer is between taking and returning its lock, and at most
\* one consumer.
MutualExclusion ==
  /\ \A p, q \in Producers : HoldsProducerLock(p) /\ HoldsProducerLock(q) => p = q
  /\ \A c, d \in Consumers : HoldsConsumerLock(c) /\ HoldsConsumerLock(d) => c = d

\* Neither side follows a pointer into freed memory, copies a value that is
\* not there, or frees a node whose value was never destroyed, although a
\* consumer may free the very node tail_ still points to.
MemorySafety ==
  /\ \A p \in Producers :
       /\ pc[p] = "link" => life[tail] # "free"
       /\ \A i \in 1 .. Len(chain[p]) : pc[p] \in {"idle", "link"} => life[chain[p][i]] = "value"
  /\ \A c \in Consumers :
       /\ pc[c] \in {"next", "head"} => life[old[c]] # "free"
       /\ pc[c] = "copy" => life[head] = "value"
       /\ pc[c] = "free" => life[old[c]] = "empty"

\* The list is the dummy and, behind it, the values in the order their
\* producers linked them; tail_ is behind only while a producer moves it.
ListShape ==
  LET list == <<head>> \o order
  IN  /\ \A i \in 1 .. Len(order) : next[list[i]] = list[i + 1]
      /\ next[LastOf(list)] = Null
      /\ \A i \in 1 .. Len(order) : life[order[i]] = "value"
      /\ (\A p \in Producers : pc[p] # "tail") => tail = LastOf(list)

\* The list is in one piece and no thread holds a pointer it may not use.
ListIsSound == TypeOK /\ ListShape /\ MemorySafety

\* A pop takes effect when head_ moves: from then on its value is settled.
Popped == [c \in Consumers |-> IF pc[c] = "copy" THEN val[head] ELSE result[c]]

Fifo == INSTANCE FifoQueue WITH
  Readers <- Consumers,
  q       <- [i \in 1 .. Len(order) |-> val[order[i]]],
  out     <- Popped

\* Values come out once each, in the order they were linked, a batch's together.
ImplementsFifo == Fifo!FifoSpec

\* As long as consumers poll, a value never stays at the head of the queue.
HeadMoves == \A n \in Nodes : (head = n /\ next[n] # Null) ~> head # n
=============================================================================
