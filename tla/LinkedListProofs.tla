-------------------------- MODULE LinkedListProofs --------------------------
(***************************************************************************)
(* Theorems about LinkedQueue, for any threads, nodes and values: its two  *)
(* spin locks exclude, the list stays in one piece, and no thread follows  *)
(* a pointer into freed memory.                                            *)
(*                                                                         *)
(* The list, a consumer's old dummy and the chains that producers collect  *)
(* are apart, and a node's life says which of them it may be in.           *)
(***************************************************************************)
EXTENDS LinkedQueue, SequenceTheorems, TLAPS

-----------------------------------------------------------------------------
(* The locks. *)

\* A lock's flag is up while a thread is between taking and returning it, and
\* one thread at a time is.
LockInv ==
  /\ pc \in [Threads -> PC]
  /\ lock \in [{"producer", "consumer"} -> BOOLEAN]
  /\ \A p \in Producers : HoldsProducerLock(p) => lock["producer"]
  /\ \A c \in Consumers : HoldsConsumerLock(c) => lock["consumer"]
  /\ MutualExclusion

\* A step that leaves the locks and the program counters alone.
LEMMA OutsideStep ==
  ASSUME LockInv, UNCHANGED <<lock, pc>>
  PROVE  LockInv'
  BY DEF LockInv, MutualExclusion, HoldsProducerLock, HoldsConsumerLock

\* push() keeps the producers' lock: taking it finds the flag down, so nobody
\* is inside; returning it lowers the flag as the one thread inside leaves.
LEMMA PushStep ==
  ASSUME LockInv, NEW p \in Producers, Push(p)
  PROVE  LockInv'
<1> USE DEF Threads, Goto, HoldsProducerLock, HoldsConsumerLock
<1>0. p \in Threads /\ p \notin Consumers
  BY QueueAssumption
<1>1. CASE LockProducer(p)
  <2>1. /\ ~lock["producer"]
        /\ lock' = [lock EXCEPT !["producer"] = TRUE]
        /\ pc' = [pc EXCEPT ![p] = "link"]
    BY <1>1 DEF LockProducer, Acquire
  <2>2. \A q \in Producers : HoldsProducerLock(q)' => q = p
    BY <2>1, <1>0 DEF LockInv
  <2> QED
    BY <2>1, <2>2, <1>0 DEF LockInv, MutualExclusion, PC
<1>2. CASE LinkChain(p) \/ SetTail(p)
  <2>1. /\ HoldsProducerLock(p)
        /\ lock' = lock
        /\ \E l \in {"tail", "unlock"} : pc' = [pc EXCEPT ![p] = l]
    BY <1>2 DEF LinkChain, SetTail
  <2> QED
    BY <2>1, <1>0 DEF LockInv, MutualExclusion, PC
<1>3. CASE UnlockProducer(p)
  <2>1. /\ HoldsProducerLock(p)
        /\ lock' = [lock EXCEPT !["producer"] = FALSE]
        /\ pc' = [pc EXCEPT ![p] = "idle"]
    BY <1>3 DEF UnlockProducer, Free
  <2>2. \A q \in Producers : ~HoldsProducerLock(q)'
    BY <2>1, <1>0 DEF LockInv, MutualExclusion
  <2> QED
    BY <2>1, <2>2, <1>0 DEF LockInv, MutualExclusion, PC
<1> QED
  BY <1>1, <1>2, <1>3 DEF Push

\* pop() keeps the consumers' lock in the same way.
LEMMA PopStep ==
  ASSUME LockInv, NEW c \in Consumers, Pop(c)
  PROVE  LockInv'
<1> USE DEF Threads, Goto, HoldsProducerLock, HoldsConsumerLock
<1>0. c \in Threads /\ c \notin Producers
  BY QueueAssumption
<1>1. CASE LockConsumer(c)
  <2>1. /\ ~lock["consumer"]
        /\ lock' = [lock EXCEPT !["consumer"] = TRUE]
        /\ pc' = [pc EXCEPT ![c] = "next"]
    BY <1>1 DEF LockConsumer, Acquire
  <2>2. \A d \in Consumers : HoldsConsumerLock(d)' => d = c
    BY <2>1, <1>0 DEF LockInv
  <2> QED
    BY <2>1, <2>2, <1>0 DEF LockInv, MutualExclusion, PC
<1>2. CASE ReadNext(c) \/ SetHead(c) \/ CopyValue(c) \/ FreeOld(c)
  <2>1. /\ HoldsConsumerLock(c)
        /\ lock' = lock
        /\ \E l \in {"release", "head", "copy", "free"} : pc' = [pc EXCEPT ![c] = l]
    BY <1>2 DEF ReadNext, SetHead, CopyValue, FreeOld, shared
  <2> QED
    BY <2>1, <1>0 DEF LockInv, MutualExclusion, PC
<1>3. CASE UnlockConsumer(c)
  <2>1. /\ HoldsConsumerLock(c)
        /\ lock' = [lock EXCEPT !["consumer"] = FALSE]
        /\ pc' = [pc EXCEPT ![c] = "idle"]
    BY <1>3 DEF UnlockConsumer, Free
  <2>2. \A d \in Consumers : ~HoldsConsumerLock(d)'
    BY <2>1, <1>0 DEF LockInv, MutualExclusion
  <2> QED
    BY <2>1, <2>2, <1>0 DEF LockInv, MutualExclusion, PC
<1> QED
  BY <1>1, <1>2, <1>3 DEF Pop

\* At most one producer links at the tail and at most one consumer unlinks at
\* the head (queue.hpp: the exchanges of push and pop).
THEOREM Exclusion == Spec => []MutualExclusion
<1>1. Init => LockInv
  <2> SUFFICES ASSUME Init PROVE LockInv
    OBVIOUS
  <2>1. lock \in [{"producer", "consumer"} -> BOOLEAN]
    BY DEF Init
  <2>2. \A t \in Threads : pc[t] = "idle"
    BY DEF Init
  <2>3. pc \in [Threads -> PC]
    BY DEF Init, PC
  <2> QED
    BY <2>1, <2>2, <2>3 DEF LockInv, MutualExclusion, HoldsProducerLock, HoldsConsumerLock, Threads
<1>2. LockInv /\ [Next]_vars => LockInv'
  <2> SUFFICES ASSUME LockInv, [Next]_vars PROVE LockInv'
    OBVIOUS
  <2>1. CASE \E p \in Producers : NewNode(p)
    BY <2>1, OutsideStep DEF NewNode
  <2>2. CASE \E p \in Producers : Push(p)
    BY <2>2, PushStep
  <2>3. CASE \E c \in Consumers : Pop(c)
    BY <2>3, PopStep
  <2>4. CASE UNCHANGED vars
    BY <2>4, OutsideStep DEF vars, shared
  <2> QED
    BY <2>1, <2>2, <2>3, <2>4 DEF Next
<1>3. LockInv => MutualExclusion
  BY DEF LockInv
<1> QED
  BY <1>1, <1>2, <1>3, PTL DEF Spec

-----------------------------------------------------------------------------
(* The list. *)

\* The dummy and the nodes behind it.
Places == 0 .. Len(order)
At(i) == IF i = 0 THEN head ELSE order[i]

\* A producer's chain is its own until it is linked.
Owns(p) == pc[p] \in {"idle", "link"}

Distinct == \A i, j \in Places : At(i) = At(j) => i = j

Chained == \A i \in Places : next[At(i)] = IF i = Len(order) THEN Null ELSE At(i + 1)

Filled == \A i \in 1 .. Len(order) : life[order[i]] = "value"

HeadLife ==
  life[head] = IF \E c \in Consumers : pc[c] = "copy" THEN "value" ELSE "empty"

TailLast == (\A p \in Producers : pc[p] # "tail") => tail = At(Len(order))

Popping ==
  \A c \in Consumers :
    /\ pc[c] \in {"next", "head"} => old[c] = head
    /\ pc[c] = "head" => Len(order) > 0
    /\ pc[c] \in {"copy", "free"} =>
         /\ old[c] \in Nodes
         /\ life[old[c]] = "empty"
         /\ \A i \in Places : old[c] # At(i)

Pushing ==
  \A p \in Producers :
    /\ pc[p] \in {"link", "tail"} => Len(chain[p]) > 0
    /\ pc[p] = "tail" => LastOf(chain[p]) = At(Len(order))

Collected ==
  \A p \in Producers : Owns(p) =>
    /\ \A i \in 1 .. Len(chain[p]) : life[chain[p][i]] = "value"
    /\ \A i \in 1 .. Len(chain[p]) : \A j \in Places : chain[p][i] # At(j)
    /\ \A i, j \in 1 .. Len(chain[p]) : chain[p][i] = chain[p][j] => i = j
    /\ \A i \in 1 .. Len(chain[p]) :
         next[chain[p][i]] = IF i = Len(chain[p]) THEN Null ELSE chain[p][i + 1]

ChainsApart ==
  \A p, q \in Producers : Owns(p) /\ Owns(q) /\ p # q =>
    \A i \in 1 .. Len(chain[p]) : \A j \in 1 .. Len(chain[q]) : chain[p][i] # chain[q][j]

List == Distinct /\ Chained /\ Filled /\ HeadLife /\ TailLast
Threading == Popping /\ Pushing /\ Collected /\ ChainsApart

ListInv == TypeOK /\ LockInv /\ List /\ Threading

-----------------------------------------------------------------------------
\* The places are those of the list, and what is there are nodes.
LEMMA AtNode ==
  ASSUME TypeOK
  PROVE  /\ Len(order) \in Nat
         /\ 0 \in Places /\ Len(order) \in Places
         /\ \A i \in Places : At(i) \in Nodes
         /\ \A i \in 1 .. Len(order) : i \in Places /\ At(i) = order[i]
  BY DEF TypeOK, Places, At

\* A node in the list or in a chain is not free, so an allocation is apart.
LEMMA ListNotFree ==
  ASSUME TypeOK, Filled, HeadLife
  PROVE  \A i \in Places : life[At(i)] # "free"
  BY AtNode DEF Filled, HeadLife, Places, At

\* A step that leaves the list where it is.
LEMMA SameList ==
  ASSUME UNCHANGED <<head, order>>
  PROVE  Places' = Places /\ (\A i : At(i)' = At(i)) /\ Len(order)' = Len(order)
  BY DEF Places, At

-----------------------------------------------------------------------------
\* Taking and returning the producers' lock.
LEMMA LockProducerStep ==
  ASSUME ListInv, NEW p \in Producers, LockProducer(p)
  PROVE  TypeOK' /\ List' /\ Threading'
<1> USE DEF ListInv, LockProducer, Goto, Acquire
<1>0. p \in Threads /\ p \notin Consumers
  BY QueueAssumption DEF Threads
<1>1. /\ pc[p] = "idle" /\ pc' = [pc EXCEPT ![p] = "link"] /\ chain[p] # <<>>
      /\ UNCHANGED <<head, tail, next, val, life, chain, old, result, order>>
  OBVIOUS
<1>2. TypeOK'
  BY <1>0, <1>1 DEF TypeOK, PC, shared
<1>3. List'
  <2>1. Distinct' /\ Chained' /\ Filled'
    BY <1>1, SameList DEF List, Distinct, Chained, Filled
  <2>2. HeadLife'
    BY <1>0, <1>1 DEF List, HeadLife, TypeOK, Threads
  <2>3. TailLast'
    BY <1>0, <1>1, SameList DEF List, TailLast, TypeOK, Threads
  <2> QED
    BY <2>1, <2>2, <2>3 DEF List
<1>4. Popping'
  BY <1>0, <1>1, SameList DEF Threading, Popping, TypeOK, Threads
<1>5. Pushing'
  <2>1. Len(chain[p]) > 0
    BY <1>0, <1>1 DEF TypeOK
  <2> QED
    BY <2>1, <1>0, <1>1, SameList DEF Threading, Pushing, TypeOK, Threads
<1>6. \A q \in Producers : Owns(q)' = Owns(q)
  BY <1>0, <1>1 DEF Owns, TypeOK, Threads
<1>7. Collected'
  BY <1>1, <1>6, SameList DEF Threading, Collected
<1>8. ChainsApart'
  BY <1>1, <1>6 DEF Threading, ChainsApart
<1> QED
  BY <1>2, <1>3, <1>4, <1>5, <1>7, <1>8 DEF Threading

\* The producer gives the lock back with the tail on the last node.
LEMMA UnlockProducerStep ==
  ASSUME ListInv, NEW p \in Producers, UnlockProducer(p)
  PROVE  TypeOK' /\ List' /\ Threading'
<1> USE DEF ListInv, UnlockProducer, Goto, Free
<1>0. p \in Threads /\ p \notin Consumers
  BY QueueAssumption DEF Threads
<1>1. /\ pc[p] = "unlock" /\ pc' = [pc EXCEPT ![p] = "idle"]
      /\ chain' = [chain EXCEPT ![p] = <<>>]
      /\ UNCHANGED <<head, tail, next, val, life, old, result, order>>
  OBVIOUS
<1>2. TypeOK'
  BY <1>0, <1>1 DEF TypeOK, PC
<1>3. List'
  <2>1. Distinct' /\ Chained' /\ Filled'
    BY <1>1, SameList DEF List, Distinct, Chained, Filled
  <2>2. HeadLife'
    BY <1>0, <1>1 DEF List, HeadLife, TypeOK, Threads
  <2>3. TailLast'
    BY <1>0, <1>1, SameList DEF List, TailLast, TypeOK, Threads
  <2> QED
    BY <2>1, <2>2, <2>3 DEF List
<1>4. Popping'
  BY <1>0, <1>1, SameList DEF Threading, Popping, TypeOK, Threads
<1>5. Pushing'
  BY <1>0, <1>1, SameList DEF Threading, Pushing, TypeOK, Threads
<1>6. /\ Len(chain'[p]) = 0
      /\ \A q \in Producers \ {p} : Owns(q)' = Owns(q) /\ chain'[q] = chain[q]
  BY <1>0, <1>1 DEF Owns, TypeOK, Threads
<1>7. Collected'
  BY <1>1, <1>6, SameList DEF Threading, Collected
<1>8. ChainsApart'
  BY <1>1, <1>6 DEF Threading, ChainsApart
<1> QED
  BY <1>2, <1>3, <1>4, <1>5, <1>7, <1>8 DEF Threading

\* A new node comes from free memory: it is in no list, no chain, and is no
\* dummy a consumer is about to delete.
LEMMA NewNodeStep ==
  ASSUME ListInv, NEW p \in Producers, NewNode(p)
  PROVE  TypeOK' /\ List' /\ Threading'
<1> USE DEF ListInv
<1>0. p \in Threads /\ p \notin Consumers
  BY QueueAssumption DEF Threads
<1>1. PICK n \in Nodes, v \in Values :
        /\ life[n] = "free"
        /\ life' = [life EXCEPT ![n] = "value"]
        /\ val'  = [val EXCEPT ![n] = v]
        /\ next' = [m \in Nodes |->
                     IF m = n THEN Null
                     ELSE IF chain[p] # <<>> /\ m = LastOf(chain[p]) THEN n
                     ELSE next[m]]
        /\ chain' = [chain EXCEPT ![p] = Append(@, n)]
  BY DEF NewNode
<1>2. pc[p] = "idle" /\ UNCHANGED <<head, tail, lock, pc, old, result, order>>
  BY DEF NewNode
<1>3. /\ chain[p] \in Seq(Nodes) /\ Len(chain[p]) \in Nat
      /\ chain'[p] = Append(chain[p], n) /\ Len(chain'[p]) = Len(chain[p]) + 1
      /\ chain'[p][Len(chain[p]) + 1] = n
      /\ \A i \in 1 .. Len(chain[p]) : chain'[p][i] = chain[p][i]
      /\ \A q \in Producers \ {p} : chain'[q] = chain[q]
  BY <1>0, <1>1 DEF TypeOK, Threads
<1>4. chain[p] # <<>> => Len(chain[p]) > 0 /\ LastOf(chain[p]) = chain[p][Len(chain[p])]
  BY <1>3 DEF LastOf
<1>5. \A q \in Producers : Owns(q)' = Owns(q)
  BY <1>2 DEF Owns
<1>6. \A q \in Producers : Owns(q) => \A i \in 1 .. Len(chain[q]) :
         chain[q][i] \in Nodes /\ chain[q][i] # n
  BY <1>1 DEF Threading, Collected, TypeOK, Threads
<1>7. \A i \in Places : At(i) \in Nodes /\ At(i) # n
  BY <1>1, AtNode, ListNotFree DEF List
<1>8. TypeOK'
  <2>1. chain' \in [Threads -> Seq(Nodes)]
    BY <1>0, <1>1 DEF TypeOK
  <2>2. next' \in [Nodes -> Nodes \cup {Null}]
    BY <1>1 DEF TypeOK
  <2> QED
    BY <1>1, <1>2, <2>1, <2>2 DEF TypeOK
<1>9. \A i \in Places : next'[At(i)] = next[At(i)] /\ life'[At(i)] = life[At(i)]
  <2> SUFFICES ASSUME NEW i \in Places
               PROVE  next'[At(i)] = next[At(i)] /\ life'[At(i)] = life[At(i)]
    OBVIOUS
  <2>1. chain[p] # <<>> => At(i) # LastOf(chain[p])
    BY <1>2, <1>3, <1>4 DEF Threading, Collected, Owns
  <2> QED
    BY <1>1, <1>7, <2>1 DEF TypeOK
<1>10. List'
  <2>1. Distinct' /\ Chained'
    BY <1>2, <1>9, SameList DEF List, Distinct, Chained
  <2>2. Filled'
    BY <1>2, <1>9, AtNode DEF List, Filled
  <2>3. HeadLife'
    BY <1>2, <1>9, AtNode DEF List, HeadLife, Places, At
  <2>4. TailLast'
    BY <1>2, SameList DEF List, TailLast
  <2> QED
    BY <2>1, <2>2, <2>3, <2>4 DEF List
<1>11. Popping'
  <2>1. \A c \in Consumers : pc[c] \in {"copy", "free"} => life'[old[c]] = "empty"
    BY <1>1 DEF Threading, Popping, TypeOK
  <2> QED
    BY <1>2, <2>1, SameList DEF Threading, Popping
<1>12. Pushing'
  <2>1. \A q \in Producers : pc[q] \in {"link", "tail"} => chain'[q] = chain[q]
    BY <1>2, <1>3
  <2> QED
    BY <1>2, <2>1, SameList DEF Threading, Pushing
<1>13. Collected'
  <2> SUFFICES ASSUME NEW q \in Producers, Owns(q)
               PROVE  /\ \A i \in 1 .. Len(chain'[q]) : life'[chain'[q][i]] = "value"
                      /\ \A i \in 1 .. Len(chain'[q]) :
                           \A j \in Places : chain'[q][i] # At(j)
                      /\ \A i, j \in 1 .. Len(chain'[q]) :
                           chain'[q][i] = chain'[q][j] => i = j
                      /\ \A i \in 1 .. Len(chain'[q]) :
                           next'[chain'[q][i]] = IF i = Len(chain'[q]) THEN Null
                                                 ELSE chain'[q][i + 1]
    BY <1>2, <1>5, SameList DEF Collected
  <2>1. CASE q = p
    <3>1. \A i \in 1 .. Len(chain'[p]) : i \in 1 .. Len(chain[p]) \/ i = Len(chain[p]) + 1
      BY <1>3
    <3>2. \A i \in 1 .. Len(chain'[p]) : life'[chain'[p][i]] = "value"
      BY <3>1, <2>1, <1>1, <1>3, <1>6 DEF Threading, Collected, TypeOK
    <3>3. \A i \in 1 .. Len(chain'[p]) : \A j \in Places : chain'[p][i] # At(j)
      BY <3>1, <2>1, <1>3, <1>7 DEF Threading, Collected
    <3>4. \A i, j \in 1 .. Len(chain'[p]) : chain'[p][i] = chain'[p][j] => i = j
      BY <3>1, <2>1, <1>3, <1>6 DEF Threading, Collected
    <3>5. \A i \in 1 .. Len(chain'[p]) :
            next'[chain'[p][i]] = IF i = Len(chain'[p]) THEN Null ELSE chain'[p][i + 1]
      <4> SUFFICES ASSUME NEW i \in 1 .. Len(chain'[p])
                   PROVE  next'[chain'[p][i]] = IF i = Len(chain'[p]) THEN Null
                                                ELSE chain'[p][i + 1]
        OBVIOUS
      <4>1. CASE i = Len(chain[p]) + 1
        BY <4>1, <1>1, <1>3
      <4>2. CASE i = Len(chain[p])
        <5>1. chain'[p][i] = LastOf(chain[p]) /\ chain[p] # <<>> /\ chain'[p][i] # n
              /\ chain'[p][i] \in Nodes
          BY <4>2, <2>1, <1>3, <1>6 DEF LastOf
        <5> QED
          BY <5>1, <4>2, <1>1, <1>3
      <4>3. CASE i < Len(chain[p])
        <5>1. chain[p][i] # LastOf(chain[p]) /\ chain[p][i] # n /\ chain[p][i] \in Nodes
          BY <4>3, <2>1, <1>3, <1>6 DEF LastOf, Threading, Collected
        <5>2. next[chain[p][i]] = chain[p][i + 1]
          BY <4>3, <2>1, <1>3 DEF Threading, Collected
        <5> QED
          BY <5>1, <5>2, <4>3, <1>1, <1>3
      <4> QED
        BY <4>1, <4>2, <4>3, <1>3
    <3> QED
      BY <2>1, <3>2, <3>3, <3>4, <3>5
  <2>2. CASE q # p
    <3>1. chain'[q] = chain[q]
      BY <2>2, <1>3
    <3>2. \A i \in 1 .. Len(chain[q]) : chain[p] # <<>> => chain[q][i] # LastOf(chain[p])
      BY <2>2, <1>2, <1>3, <1>4 DEF Threading, ChainsApart, Owns
    <3>3. \A i \in 1 .. Len(chain[q]) :
             /\ next'[chain[q][i]] = next[chain[q][i]]
             /\ life'[chain[q][i]] = life[chain[q][i]]
      BY <3>2, <1>1, <1>6 DEF TypeOK
    <3> QED
      BY <3>1, <3>3 DEF Threading, Collected
  <2> QED
    BY <2>1, <2>2
<1>14. ChainsApart'
  <2> SUFFICES ASSUME NEW q \in Producers, NEW r \in Producers, Owns(q), Owns(r), q # r,
                      NEW i \in 1 .. Len(chain'[q]), NEW j \in 1 .. Len(chain'[r])
               PROVE  chain'[q][i] # chain'[r][j]
    BY <1>5 DEF ChainsApart
  <2>1. \A k \in 1 .. Len(chain'[p]) : k \in 1 .. Len(chain[p]) \/ k = Len(chain[p]) + 1
    BY <1>3
  <2>2. CASE q = p
    <3>1. chain'[r] = chain[r] /\ chain[r][j] # n
      BY <2>2, <1>3, <1>6
    <3>2. \A k \in 1 .. Len(chain[p]) : chain[p][k] # chain[r][j]
      BY <2>2, <3>1 DEF Threading, ChainsApart
    <3> QED
      BY <3>1, <3>2, <2>1, <2>2, <1>3
  <2>3. CASE r = p
    <3>1. chain'[q] = chain[q] /\ chain[q][i] # n
      BY <2>3, <1>3, <1>6
    <3>2. \A k \in 1 .. Len(chain[p]) : chain[q][i] # chain[p][k]
      BY <2>3, <3>1 DEF Threading, ChainsApart
    <3> QED
      BY <3>1, <3>2, <2>1, <2>3, <1>3
  <2>4. CASE q # p /\ r # p
    BY <2>4, <1>3 DEF Threading, ChainsApart
  <2> QED
    BY <2>2, <2>3, <2>4
<1> QED
  BY <1>8, <1>10, <1>11, <1>12, <1>13, <1>14 DEF Threading

\* tail_->next = tmp: the chain becomes the end of the list.
LEMMA LinkChainStep ==
  ASSUME ListInv, NEW p \in Producers, LinkChain(p)
  PROVE  TypeOK' /\ List' /\ Threading'
<1> USE DEF ListInv
<1>0. p \in Threads /\ p \notin Consumers
  BY QueueAssumption DEF Threads
<1>1. /\ pc[p] = "link" /\ pc' = [pc EXCEPT ![p] = "tail"]
      /\ next' = [next EXCEPT ![tail] = chain[p][1]]
      /\ order' = order \o chain[p]
      /\ UNCHANGED <<head, tail, val, life, lock, chain, old, result>>
  BY DEF LinkChain, Goto
<1>a. /\ chain[p] \in Seq(Nodes) /\ order \in Seq(Nodes)
      /\ Len(order) \in Nat /\ Len(chain[p]) \in Nat
  BY <1>0 DEF TypeOK
<1>b. PICK m \in Nat, k \in Nat : m = Len(order) /\ k = Len(chain[p])
  BY <1>a
<1>2. /\ chain[p] \in Seq(Nodes) /\ order \in Seq(Nodes)
      /\ m = Len(order) /\ k = Len(chain[p]) /\ k > 0
      /\ \A i \in 1 .. k : chain[p][i] \in Nodes
  BY <1>1, <1>a, <1>b DEF Threading, Pushing
<1>3. /\ order' \in Seq(Nodes) /\ Len(order') = m + k
      /\ \A i \in 1 .. m : order'[i] = order[i]
      /\ \A i \in 1 .. k : order'[m + i] = chain[p][i]
  BY <1>1, <1>2, ConcatProperties
<1>4. /\ Places' = 0 .. m + k
      /\ \A i \in Places : At(i)' = At(i)
      /\ \A i \in 1 .. k : At(m + i)' = chain[p][i]
      /\ \A i \in Places' : i \in Places \/ \E l \in 1 .. k : i = m + l
  <2>1. Places = 0 .. m
    BY <1>2 DEF Places
  <2>2. Places' = 0 .. m + k
    BY <1>3 DEF Places
  <2>3. \A i \in Places' : i \in Places \/ (i - m \in 1 .. k /\ i = m + (i - m))
    BY <1>2, <2>1, <2>2
  <2>4. \A i \in Places : At(i)' = At(i)
    BY <1>1, <1>2, <1>3, <2>1 DEF At
  <2>5. \A i \in 1 .. k : At(m + i)' = chain[p][i]
    BY <1>2, <1>3 DEF At
  <2> QED
    BY <2>2, <2>3, <2>4, <2>5
<1>new. \A i \in Places' : i \notin Places =>
          \E l \in 1 .. k : i = m + l /\ At(i)' = chain[p][l]
  BY <1>4
<1>5. tail = At(m) /\ m \in Places
  <2>1. \A q \in Producers : pc[q] # "tail"
    BY <1>1 DEF LockInv, MutualExclusion, HoldsProducerLock
  <2> QED
    BY <2>1, AtNode, <1>2 DEF List, TailLast
<1>6. /\ \A i \in 1 .. k : life[chain[p][i]] = "value"
      /\ \A i \in 1 .. k : \A j \in Places : chain[p][i] # At(j)
      /\ \A i, j \in 1 .. k : chain[p][i] = chain[p][j] => i = j
      /\ \A i \in 1 .. k : next[chain[p][i]] = IF i = k THEN Null ELSE chain[p][i + 1]
  BY <1>1, <1>2 DEF Threading, Collected, Owns
<1>7. TypeOK'
  BY <1>0, <1>1, <1>2, <1>3 DEF TypeOK, PC
<1>8. Distinct'
  <2> SUFFICES ASSUME NEW i \in Places', NEW j \in Places', At(i)' = At(j)'
               PROVE  i = j
    BY DEF Distinct
  <2>1. CASE i \in Places /\ j \in Places
    BY <2>1, <1>4 DEF List, Distinct
  <2>2. CASE i \in Places /\ j \notin Places
    <3>1. PICK l \in 1 .. k : At(j)' = chain[p][l]
      BY <2>2, <1>new
    <3> QED
      BY <3>1, <2>2, <1>4, <1>6
  <2>3. CASE i \notin Places /\ j \in Places
    <3>1. PICK l \in 1 .. k : At(i)' = chain[p][l]
      BY <2>3, <1>new
    <3>2. At(j)' = At(j) /\ chain[p][l] # At(j)
      BY <2>3, <1>4, <1>6
    <3> QED
      BY <3>1, <3>2
  <2>4. CASE i \notin Places /\ j \notin Places
    <3>1. PICK l \in 1 .. k : i = m + l /\ At(i)' = chain[p][l]
      BY <2>4, <1>new
    <3>2. PICK o \in 1 .. k : j = m + o /\ At(j)' = chain[p][o]
      BY <2>4, <1>new
    <3> QED
      BY <3>1, <3>2, <1>6
  <2> QED
    BY <2>1, <2>2, <2>3, <2>4
<1>9. Chained'
  <2> SUFFICES ASSUME NEW i \in Places'
               PROVE  next'[At(i)'] = IF i = m + k THEN Null ELSE At(i + 1)'
    BY <1>3 DEF Chained
  <2>1. CASE i = m
    <3>1. At(i)' = tail /\ tail \in Nodes
      BY <2>1, <1>4, <1>5 DEF TypeOK
    <3>2. next'[tail] = chain[p][1]
      BY <3>1, <1>1 DEF TypeOK
    <3>3. 1 \in 1 .. k
      BY <1>2
    <3>4. At(m + 1)' = chain[p][1]
      BY <3>3, <1>4
    <3> QED
      BY <2>1, <3>1, <3>2, <3>4, <1>2
  <2>2. CASE i \in Places /\ i # m
    <3>1. i + 1 \in Places /\ i \in 0 .. m
      BY <2>2, <1>2 DEF Places
    <3>2. At(i) # tail /\ At(i) \in Nodes
      BY <2>2, <1>5, AtNode DEF List, Distinct
    <3>3. next'[At(i)] = At(i + 1)
      BY <3>2, <2>2, <1>1, <1>2 DEF List, Chained, TypeOK
    <3> QED
      BY <3>1, <3>3, <2>2, <1>2, <1>4
  <2>3. CASE i \notin Places
    <3>1. PICK l \in 1 .. k : i = m + l
      BY <2>3, <1>4
    <3>2. chain[p][l] # tail
      BY <1>5, <1>6
    <3>3. next'[chain[p][l]] = IF l = k THEN Null ELSE chain[p][l + 1]
      BY <3>2, <1>1, <1>2, <1>6 DEF TypeOK
    <3>4. At(i)' = chain[p][l]
      BY <3>1, <1>4
    <3>5. CASE l = k
      BY <3>1, <3>3, <3>4, <3>5, <1>2
    <3>6. CASE l # k
      <4>1. l + 1 \in 1 .. k /\ i + 1 = m + (l + 1) /\ i # m + k
        BY <3>1, <3>6, <1>2
      <4>2. At(m + (l + 1))' = chain[p][l + 1]
        BY <4>1, <1>4
      <4> QED
        BY <4>1, <4>2, <3>3, <3>4, <3>6
    <3> QED
      BY <3>5, <3>6
  <2> QED
    BY <2>1, <2>2, <2>3
<1>10. Filled'
  <2> SUFFICES ASSUME NEW i \in 1 .. m + k PROVE life[order'[i]] = "value"
    BY <1>1, <1>3 DEF Filled
  <2>1. CASE i \in 1 .. m
    BY <2>1, <1>3, <1>2 DEF List, Filled
  <2>2. CASE i \notin 1 .. m
    <3>1. i - m \in 1 .. k /\ m + (i - m) = i
      BY <2>2, <1>2
    <3>2. order'[m + (i - m)] = chain[p][i - m]
      BY <3>1, <1>3
    <3> QED
      BY <3>1, <3>2, <1>6
  <2> QED
    BY <2>1, <2>2
<1>11. HeadLife'
  BY <1>0, <1>1 DEF List, HeadLife, TypeOK, Threads
<1>12. TailLast'
  BY <1>0, <1>1 DEF TailLast, TypeOK
<1>13. Popping'
  <2>1. \A c \in Consumers : pc'[c] = pc[c]
    BY <1>0, <1>1 DEF TypeOK, Threads
  <2> SUFFICES ASSUME NEW c \in Consumers
               PROVE  /\ pc[c] \in {"next", "head"} => old[c] = head
                      /\ pc[c] = "head" => m + k > 0
                      /\ pc[c] \in {"copy", "free"} =>
                           /\ old[c] \in Nodes
                           /\ life[old[c]] = "empty"
                           /\ \A i \in Places' : old[c] # At(i)'
    BY <2>1, <1>1, <1>3 DEF Popping
  <2>2. pc[c] \in {"copy", "free"} => \A i \in Places' : old[c] # At(i)'
    <3> SUFFICES ASSUME pc[c] \in {"copy", "free"}, NEW i \in Places'
                 PROVE  old[c] # At(i)'
      OBVIOUS
    <3>1. CASE i \in Places
      BY <3>1, <1>4 DEF Threading, Popping
    <3>2. CASE i \notin Places
      <4>1. PICK l \in 1 .. k : i = m + l
        BY <3>2, <1>4
      <4>2. life[At(i)'] = "value"
        BY <4>1, <1>4, <1>6
      <4>3. life[old[c]] = "empty"
        BY DEF Threading, Popping
      <4> QED
        BY <4>2, <4>3
    <3> QED
      BY <3>1, <3>2
  <2> QED
    BY <2>2, <1>2 DEF Threading, Popping
<1>14. Pushing'
  <2>1. LastOf(chain[p]) = At(m + k)'
    <3>1. k \in 1 .. k
      BY <1>2
    <3> QED
      BY <3>1, <1>4, <1>2 DEF LastOf
  <2>2. \A q \in Producers \ {p} : pc'[q] = pc[q] /\ pc[q] \notin {"link", "tail"}
    BY <1>0, <1>1 DEF LockInv, MutualExclusion, HoldsProducerLock, TypeOK, Threads
  <2>3. pc'[p] = "tail" /\ Len(chain[p]) > 0
    BY <1>0, <1>1, <1>2 DEF TypeOK
  <2> QED
    BY <2>1, <2>2, <2>3, <1>1, <1>3 DEF Pushing
<1>15. \A q \in Producers : Owns(q)' => Owns(q) /\ q # p
  BY <1>0, <1>1 DEF Owns, TypeOK, Threads
<1>16. Collected'
  <2> SUFFICES ASSUME NEW q \in Producers, Owns(q)'
               PROVE  /\ \A i \in 1 .. Len(chain[q]) : life[chain[q][i]] = "value"
                      /\ \A i \in 1 .. Len(chain[q]) :
                           \A j \in Places' : chain[q][i] # At(j)'
                      /\ \A i, j \in 1 .. Len(chain[q]) :
                           chain[q][i] = chain[q][j] => i = j
                      /\ \A i \in 1 .. Len(chain[q]) :
                           next'[chain[q][i]] = IF i = Len(chain[q]) THEN Null
                                                ELSE chain[q][i + 1]
    BY <1>1 DEF Collected
  <2>1. Owns(q) /\ q # p /\ Owns(p)
    BY <1>1, <1>15 DEF Owns
  <2>2. \A i \in 1 .. Len(chain[q]) : \A j \in Places' : chain[q][i] # At(j)'
    <3> SUFFICES ASSUME NEW i \in 1 .. Len(chain[q]), NEW j \in Places'
                 PROVE  chain[q][i] # At(j)'
      OBVIOUS
    <3>1. CASE j \in Places
      BY <3>1, <2>1, <1>4 DEF Threading, Collected
    <3>2. CASE j \notin Places
      <4>1. PICK l \in 1 .. k : At(j)' = chain[p][l]
        BY <3>2, <1>new
      <4>2. chain[q][i] # chain[p][l]
        BY <2>1, <1>2 DEF Threading, ChainsApart
      <4> QED
        BY <4>1, <4>2
    <3> QED
      BY <3>1, <3>2
  <2>3. \A i \in 1 .. Len(chain[q]) : next'[chain[q][i]] = next[chain[q][i]]
    <3>1. \A i \in 1 .. Len(chain[q]) : chain[q][i] # tail
      BY <2>1, <1>5 DEF Threading, Collected
    <3> QED
      BY <3>1, <1>1 DEF TypeOK
  <2> QED
    BY <2>1, <2>2, <2>3 DEF Threading, Collected
<1>17. ChainsApart'
  BY <1>1, <1>15 DEF Threading, ChainsApart
<1> QED
  BY <1>7, <1>8, <1>9, <1>10, <1>11, <1>12, <1>13, <1>14, <1>16, <1>17 DEF List, Threading

\* The tail is moved to the last node that was linked.
LEMMA SetTailStep ==
  ASSUME ListInv, NEW p \in Producers, SetTail(p)
  PROVE  TypeOK' /\ List' /\ Threading'
<1> USE DEF ListInv
<1>0. p \in Threads /\ p \notin Consumers
  BY QueueAssumption DEF Threads
<1>1. /\ pc[p] = "tail" /\ pc' = [pc EXCEPT ![p] = "unlock"]
      /\ tail' = LastOf(chain[p])
      /\ UNCHANGED <<head, next, val, life, lock, chain, old, result, order>>
  BY DEF SetTail, Goto, NewTail
<1>2. tail' = At(Len(order)) /\ tail' \in Nodes
  BY <1>1, AtNode DEF Threading, Pushing
<1>3. TypeOK'
  BY <1>0, <1>1, <1>2 DEF TypeOK, PC
<1>4. List'
  <2>1. Distinct' /\ Chained' /\ Filled'
    BY <1>1, SameList DEF List, Distinct, Chained, Filled
  <2>2. HeadLife'
    BY <1>0, <1>1 DEF List, HeadLife, TypeOK, Threads
  <2>3. TailLast'
    BY <1>1, <1>2 DEF TailLast, At
  <2> QED
    BY <2>1, <2>2, <2>3 DEF List
<1>5. Popping'
  BY <1>0, <1>1, SameList DEF Threading, Popping, TypeOK, Threads
<1>6. Pushing'
  <2>1. \A q \in Producers : pc'[q] \in {"link", "tail"} => pc[q] = pc'[q]
    BY <1>0, <1>1 DEF TypeOK, Threads
  <2> QED
    BY <2>1, <1>1, SameList DEF Threading, Pushing, At
<1>7. \A q \in Producers : Owns(q)' = Owns(q)
  BY <1>0, <1>1 DEF Owns, TypeOK, Threads
<1>8. Collected'
  BY <1>1, <1>7, SameList DEF Threading, Collected
<1>9. ChainsApart'
  BY <1>1, <1>7 DEF Threading, ChainsApart
<1> QED
  BY <1>3, <1>4, <1>5, <1>6, <1>8, <1>9 DEF Threading

-----------------------------------------------------------------------------
\* A consumer's step does not disturb what producers have collected, when it
\* leaves them and the list alone.
LEMMA ProducersAlone ==
  ASSUME ListInv, NEW c \in Consumers, NEW l,
         pc' = [pc EXCEPT ![c] = l],
         UNCHANGED <<head, next, life, chain, order>>
  PROVE  Collected' /\ ChainsApart' /\ Pushing'
<1> USE DEF ListInv
<1>0. c \notin Producers /\ c \in Threads
  BY QueueAssumption DEF Threads
<1>1. \A p \in Producers : pc'[p] = pc[p] /\ Owns(p)' = Owns(p)
  BY <1>0 DEF TypeOK, Threads, Owns
<1>2. Collected'
  BY <1>1, SameList DEF Threading, Collected
<1>3. ChainsApart'
  BY <1>1 DEF Threading, ChainsApart
<1>4. Pushing'
  BY <1>1, SameList DEF Threading, Pushing, At
<1> QED
  BY <1>2, <1>3, <1>4

\* One consumer at a time is inside pop().
LEMMA OneInside ==
  ASSUME ListInv, NEW c \in Consumers, HoldsConsumerLock(c)
  PROVE  \A d \in Consumers \ {c} : pc[d] \notin {"next", "head", "copy", "free", "release"}
  BY DEF ListInv, LockInv, MutualExclusion, HoldsConsumerLock

\* A consumer takes the lock.
LEMMA LockConsumerStep ==
  ASSUME ListInv, NEW c \in Consumers, LockConsumer(c)
  PROVE  TypeOK' /\ List' /\ Threading'
<1> USE DEF ListInv
<1>0. c \in Threads /\ c \notin Producers
  BY QueueAssumption DEF Threads
<1>1. /\ pc[c] = "idle" /\ pc' = [pc EXCEPT ![c] = "next"]
      /\ old' = [old EXCEPT ![c] = head]
      /\ lock' = [lock EXCEPT !["consumer"] = TRUE]
      /\ UNCHANGED <<head, tail, next, val, life, chain, result, order>>
  BY DEF LockConsumer, Goto, Acquire
<1>2. TypeOK'
  BY <1>0, <1>1 DEF TypeOK, PC
<1>3. List'
  <2>1. Distinct' /\ Chained' /\ Filled'
    BY <1>1, SameList DEF List, Distinct, Chained, Filled
  <2>2. HeadLife'
    BY <1>0, <1>1 DEF List, HeadLife, TypeOK, Threads
  <2>3. TailLast'
    BY <1>0, <1>1, SameList DEF List, TailLast, TypeOK, Threads, At
  <2> QED
    BY <2>1, <2>2, <2>3 DEF List
<1>4. Popping'
  BY <1>0, <1>1, SameList DEF Threading, Popping, TypeOK, Threads
<1> QED
  BY <1>1, <1>2, <1>3, <1>4, ProducersAlone DEF Threading

\* A consumer reads the link of the dummy: the node it is about to empty.
LEMMA ReadNextStep ==
  ASSUME ListInv, NEW c \in Consumers, ReadNext(c)
  PROVE  TypeOK' /\ List' /\ Threading'
<1> USE DEF ListInv
<1>0. c \in Threads /\ c \notin Producers
  BY QueueAssumption DEF Threads
<1>1. /\ pc[c] = "next"
      /\ UNCHANGED <<head, tail, next, val, life, lock, chain, old, result, order>>
  BY DEF ReadNext, shared
<1>2. PICK l \in {"release", "head"} :
        /\ pc' = [pc EXCEPT ![c] = l]
        /\ l = "head" => next[old[c]] # Null
  BY DEF ReadNext, Goto, IsEmpty
<1>3. TypeOK'
  BY <1>0, <1>1, <1>2 DEF TypeOK, PC
<1>4. List'
  <2>1. Distinct' /\ Chained' /\ Filled'
    BY <1>1, SameList DEF List, Distinct, Chained, Filled
  <2>2. HeadLife'
    BY <1>0, <1>1, <1>2 DEF List, HeadLife, TypeOK, Threads
  <2>3. TailLast'
    BY <1>0, <1>1, <1>2, SameList DEF List, TailLast, TypeOK, Threads, At
  <2> QED
    BY <2>1, <2>2, <2>3 DEF List
<1>5. l = "head" => Len(order) > 0
  <2>1. old[c] = At(0)
    BY <1>1 DEF Threading, Popping, At
  <2>2. 0 \in Places /\ Len(order) \in Nat
    BY AtNode
  <2>3. next[At(0)] = IF 0 = Len(order) THEN Null ELSE At(0 + 1)
    BY <2>2 DEF List, Chained
  <2> QED
    BY <2>1, <2>2, <2>3, <1>2
<1>6. Popping'
  BY <1>0, <1>1, <1>2, <1>5, SameList DEF Threading, Popping, TypeOK, Threads
<1> QED
  BY <1>1, <1>2, <1>3, <1>4, <1>6, ProducersAlone DEF Threading

\* The consumer gives the lock back, and keeps the old dummy to free.
LEMMA UnlockConsumerStep ==
  ASSUME ListInv, NEW c \in Consumers, UnlockConsumer(c)
  PROVE  TypeOK' /\ List' /\ Threading'
<1> USE DEF ListInv
<1>0. c \in Threads /\ c \notin Producers
  BY QueueAssumption DEF Threads
<1>1. /\ pc[c] = "release" /\ pc' = [pc EXCEPT ![c] = "idle"]
      /\ old' = [old EXCEPT ![c] = Null]
      /\ lock' = [lock EXCEPT !["consumer"] = FALSE]
      /\ UNCHANGED <<head, tail, next, val, life, chain, result, order>>
  BY DEF UnlockConsumer, Goto, Free
<1>2. TypeOK'
  BY <1>0, <1>1 DEF TypeOK, PC
<1>3. List'
  <2>1. Distinct' /\ Chained' /\ Filled'
    BY <1>1, SameList DEF List, Distinct, Chained, Filled
  <2>2. HeadLife'
    BY <1>0, <1>1 DEF List, HeadLife, TypeOK, Threads
  <2>3. TailLast'
    BY <1>0, <1>1, SameList DEF List, TailLast, TypeOK, Threads, At
  <2> QED
    BY <2>1, <2>2, <2>3 DEF List
<1>4. Popping'
  BY <1>0, <1>1, SameList DEF Threading, Popping, TypeOK, Threads
<1> QED
  BY <1>1, <1>2, <1>3, <1>4, ProducersAlone DEF Threading

\* head_ = head_next: the list begins one node later, and the old dummy is in
\* nobody's hands but the consumer's.
LEMMA SetHeadStep ==
  ASSUME ListInv, NEW c \in Consumers, SetHead(c)
  PROVE  TypeOK' /\ List' /\ Threading'
<1> USE DEF ListInv
<1>0. c \in Threads /\ c \notin Producers
  BY QueueAssumption DEF Threads
<1>1. /\ pc[c] = "head" /\ pc' = [pc EXCEPT ![c] = "copy"]
      /\ head' = next[old[c]]
      /\ order' = SubSeq(order, 2, Len(order))
      /\ UNCHANGED <<tail, next, val, life, lock, chain, old, result>>
  BY DEF SetHead, Goto
<1>2. PICK m \in Nat : m = Len(order) /\ m > 0 /\ Places = 0 .. m
  BY <1>1, AtNode DEF Threading, Popping, Places
<1>3. old[c] = head /\ old[c] = At(0) /\ head' = At(1) /\ At(1) = order[1]
  <2>1. old[c] = head /\ old[c] = At(0) /\ At(1) = order[1]
    BY <1>1 DEF Threading, Popping, At
  <2>2. next[At(0)] = IF 0 = Len(order) THEN Null ELSE At(0 + 1)
    BY <1>2 DEF List, Chained
  <2> QED
    BY <2>1, <2>2, <1>1, <1>2
<1>4. /\ order' \in Seq(Nodes) /\ Len(order') = m - 1
      /\ \A i \in 1 .. m - 1 : order'[i] = order[i + 1]
  BY <1>1, <1>2, SubSeqProperties DEF TypeOK
<1>5. /\ Places' = 0 .. m - 1
      /\ \A i \in Places' : i + 1 \in Places /\ At(i)' = At(i + 1)
  BY <1>2, <1>3, <1>4 DEF Places, At
<1>6. At(Len(order))' = At(Len(order))
  <2>1. m - 1 \in Places'
    BY <1>2, <1>5
  <2>2. At(Len(order))' = order'[m - 1] \/ (m = 1 /\ At(Len(order))' = head')
    BY <1>4 DEF At
  <2>3. m = 1 => At(Len(order)) = order[1]
    BY <1>2 DEF At
  <2>4. m # 1 => m - 1 \in 1 .. m - 1 /\ m - 1 # 0
    BY <1>2
  <2>5. m # 1 => At(Len(order))' = order'[m - 1] /\ order'[m - 1] = order[(m - 1) + 1]
    BY <2>4, <1>4 DEF At
  <2>6. (m - 1) + 1 = m /\ At(Len(order)) = order[m]
    BY <1>2 DEF At
  <2>7. m = 1 => At(Len(order))' = head'
    BY <1>4 DEF At
  <2> QED
    BY <2>3, <2>5, <2>6, <2>7, <1>3
<1>7. \A d \in Consumers : pc[d] # "copy"
  BY <1>1, OneInside DEF HoldsConsumerLock
<1>8. TypeOK'
  <2>1. head' \in Nodes
    BY <1>2, <1>3, AtNode
  <2> QED
    BY <1>0, <1>1, <1>4, <2>1 DEF TypeOK, PC
<1>9. List'
  <2>1. Distinct'
    <3> SUFFICES ASSUME NEW i \in Places', NEW j \in Places', At(i)' = At(j)'
                 PROVE  i = j
      BY DEF Distinct
    <3>1. i + 1 \in Places /\ j + 1 \in Places /\ At(i + 1) = At(j + 1)
      BY <1>5
    <3>2. i + 1 = j + 1
      BY <3>1 DEF List, Distinct
    <3> QED
      BY <3>2, <1>2, <1>5
  <2>2. Chained'
    <3> SUFFICES ASSUME NEW i \in Places'
                 PROVE  next[At(i)'] = IF i = m - 1 THEN Null ELSE At(i + 1)'
      BY <1>1, <1>4 DEF Chained
    <3>1. i + 1 \in Places /\ At(i)' = At(i + 1) /\ i \in 0 .. m - 1
      BY <1>5
    <3>2. next[At(i + 1)] = IF i + 1 = m THEN Null ELSE At((i + 1) + 1)
      BY <3>1, <1>2 DEF List, Chained
    <3>3. i # m - 1 => i + 1 \in Places'
      BY <3>1, <1>2, <1>5
    <3>4. i # m - 1 => At(i + 1)' = At((i + 1) + 1)
      BY <3>3, <1>5
    <3> QED
      BY <3>1, <3>2, <3>4, <1>2
  <2>3. Filled'
    <3> SUFFICES ASSUME NEW i \in 1 .. m - 1 PROVE life[order'[i]] = "value"
      BY <1>1, <1>4 DEF Filled
    <3>1. i + 1 \in 1 .. Len(order) /\ order'[i] = order[i + 1]
      BY <1>2, <1>4
    <3> QED
      BY <3>1 DEF List, Filled
  <2>4. HeadLife'
    <3>1. life[head'] = "value"
      BY <1>2, <1>3 DEF List, Filled
    <3>2. pc'[c] = "copy"
      BY <1>0, <1>1 DEF TypeOK
    <3> QED
      BY <3>1, <3>2, <1>1 DEF HeadLife
  <2>5. TailLast'
    BY <1>0, <1>1, <1>6 DEF List, TailLast, TypeOK, Threads
  <2> QED
    BY <2>1, <2>2, <2>3, <2>4, <2>5 DEF List
<1>10. Popping'
  <2>1. \A d \in Consumers \ {c} :
          pc'[d] = pc[d] /\ pc[d] \notin {"next", "head", "copy", "free"}
    BY <1>0, <1>1, OneInside DEF TypeOK, Threads, HoldsConsumerLock
  <2>2. life[old[c]] = "empty" /\ old[c] \in Nodes
    BY <1>3, <1>7 DEF List, HeadLife, TypeOK
  <2>3. \A i \in Places' : old[c] # At(i)'
    <3> SUFFICES ASSUME NEW i \in Places' PROVE old[c] # At(i)'
      OBVIOUS
    <3>1. i + 1 \in Places /\ 0 \in Places /\ i + 1 # 0 /\ At(i)' = At(i + 1)
      BY <1>2, <1>5
    <3> QED
      BY <3>1, <1>3 DEF List, Distinct
  <2>4. pc'[c] = "copy"
    BY <1>0, <1>1 DEF TypeOK
  <2> QED
    BY <2>1, <2>2, <2>3, <2>4, <1>1 DEF Popping
<1>11. \A p \in Producers : pc'[p] = pc[p] /\ Owns(p)' = Owns(p)
  BY <1>0, <1>1 DEF TypeOK, Threads, Owns
<1>12. Pushing'
  BY <1>1, <1>6, <1>11 DEF Threading, Pushing
<1>13. Collected'
  BY <1>1, <1>5, <1>11 DEF Threading, Collected
<1>14. ChainsApart'
  BY <1>1, <1>11 DEF Threading, ChainsApart
<1> QED
  BY <1>8, <1>9, <1>10, <1>12, <1>13, <1>14 DEF Threading

\* The consumer moves the value out of the new dummy.
LEMMA CopyValueStep ==
  ASSUME ListInv, NEW c \in Consumers, CopyValue(c)
  PROVE  TypeOK' /\ List' /\ Threading'
<1> USE DEF ListInv
<1>0. c \in Threads /\ c \notin Producers
  BY QueueAssumption DEF Threads
<1>1. /\ pc[c] = "copy" /\ pc' = [pc EXCEPT ![c] = "free"]
      /\ result' = [result EXCEPT ![c] = val[head]]
      /\ life' = [life EXCEPT ![head] = "empty"]
      /\ UNCHANGED <<head, tail, next, val, lock, chain, old, order>>
  BY DEF CopyValue, Goto, ValueNode
<1>2. TypeOK'
  BY <1>0, <1>1 DEF TypeOK, PC
<1>3. 0 \in Places /\ head = At(0)
  BY AtNode DEF At
<1>4. List'
  <2>1. Distinct' /\ Chained'
    BY <1>1, SameList DEF List, Distinct, Chained
  <2>2. Filled'
    <3> SUFFICES ASSUME NEW i \in 1 .. Len(order) PROVE life'[order[i]] = life[order[i]]
      BY <1>1 DEF List, Filled
    <3>1. i \in Places /\ i # 0 /\ order[i] = At(i)
      BY AtNode
    <3>2. order[i] # head
      BY <3>1, <1>3 DEF List, Distinct
    <3> QED
      BY <3>2, <1>1 DEF TypeOK
  <2>3. HeadLife'
    <3>1. life'[head] = "empty"
      BY <1>1 DEF TypeOK
    <3>2. \A d \in Consumers : pc'[d] # "copy"
      BY <1>0, <1>1, OneInside DEF TypeOK, Threads, HoldsConsumerLock
    <3> QED
      BY <3>1, <3>2, <1>1 DEF HeadLife
  <2>4. TailLast'
    BY <1>0, <1>1, SameList DEF List, TailLast, TypeOK, Threads, At
  <2> QED
    BY <2>1, <2>2, <2>3, <2>4 DEF List
<1>5. Popping'
  <2>1. \A d \in Consumers \ {c} :
          pc'[d] = pc[d] /\ pc[d] \notin {"next", "head", "copy", "free"}
    BY <1>0, <1>1, OneInside DEF TypeOK, Threads, HoldsConsumerLock
  <2>2. pc'[c] = "free" /\ old[c] \in Nodes /\ old[c] # head /\ life'[old[c]] = "empty"
    BY <1>0, <1>1, <1>3 DEF Threading, Popping, TypeOK
  <2> QED
    BY <2>1, <2>2, <1>1, SameList DEF Threading, Popping
<1>6. \A p \in Producers : pc'[p] = pc[p] /\ Owns(p)' = Owns(p)
  BY <1>0, <1>1 DEF TypeOK, Threads, Owns
<1>7. Collected'
  <2>1. \A p \in Producers : Owns(p) =>
          \A i \in 1 .. Len(chain[p]) : life'[chain[p][i]] = "value"
    BY <1>1, <1>3 DEF Threading, Collected, TypeOK, Threads
  <2> QED
    BY <2>1, <1>1, <1>6, SameList DEF Threading, Collected
<1>8. Pushing' /\ ChainsApart'
  BY <1>1, <1>6, SameList DEF Threading, Pushing, ChainsApart, At
<1> QED
  BY <1>2, <1>4, <1>5, <1>7, <1>8 DEF Threading

\* delete: the old dummy holds nothing and is in no list and no chain.
LEMMA FreeOldStep ==
  ASSUME ListInv, NEW c \in Consumers, FreeOld(c)
  PROVE  TypeOK' /\ List' /\ Threading'
<1> USE DEF ListInv
<1>0. c \in Threads /\ c \notin Producers
  BY QueueAssumption DEF Threads
<1>1. /\ pc[c] = "free" /\ pc' = [pc EXCEPT ![c] = "release"]
      /\ life' = [life EXCEPT ![old[c]] = "free"]
      /\ UNCHANGED <<head, tail, next, val, lock, chain, old, result, order>>
  BY DEF FreeOld, Goto, NodeToDelete
<1>2. TypeOK'
  BY <1>0, <1>1 DEF TypeOK, PC
<1>3. old[c] \in Nodes /\ life[old[c]] = "empty" /\ \A i \in Places : old[c] # At(i)
  BY <1>1 DEF Threading, Popping
<1>4. \A i \in Places : life'[At(i)] = life[At(i)]
  BY <1>1, <1>3, AtNode DEF TypeOK
<1>5. List'
  <2>1. Distinct' /\ Chained'
    BY <1>1, SameList DEF List, Distinct, Chained
  <2>2. Filled'
    BY <1>1, <1>4, AtNode DEF List, Filled
  <2>3. HeadLife'
    <3>1. life'[head] = life[head]
      BY <1>4, AtNode DEF At
    <3>2. \A d \in Consumers : pc'[d] = "copy" <=> pc[d] = "copy"
      BY <1>0, <1>1 DEF TypeOK, Threads
    <3> QED
      BY <3>1, <3>2, <1>1 DEF List, HeadLife
  <2>4. TailLast'
    BY <1>0, <1>1, SameList DEF List, TailLast, TypeOK, Threads, At
  <2> QED
    BY <2>1, <2>2, <2>3, <2>4 DEF List
<1>6. Popping'
  <2>1. \A d \in Consumers : pc'[d] \notin {"next", "head", "copy", "free"}
    BY <1>0, <1>1, OneInside DEF TypeOK, Threads, HoldsConsumerLock
  <2> QED
    BY <2>1 DEF Popping
<1>7. \A p \in Producers : pc'[p] = pc[p] /\ Owns(p)' = Owns(p)
  BY <1>0, <1>1 DEF TypeOK, Threads, Owns
<1>8. Collected'
  <2>1. \A p \in Producers : Owns(p) =>
          \A i \in 1 .. Len(chain[p]) : life'[chain[p][i]] = "value"
    BY <1>1, <1>3 DEF Threading, Collected, TypeOK, Threads
  <2> QED
    BY <2>1, <1>1, <1>7, SameList DEF Threading, Collected
<1>9. Pushing' /\ ChainsApart'
  BY <1>1, <1>7, SameList DEF Threading, Pushing, ChainsApart, At
<1> QED
  BY <1>2, <1>5, <1>6, <1>8, <1>9 DEF Threading

-----------------------------------------------------------------------------
\* The list is the dummy alone.
LEMMA ListInit ==
  ASSUME Init
  PROVE  ListInv
<1>1. PICK d \in Nodes :
        /\ head = d /\ tail = d
        /\ life = [n \in Nodes |-> IF n = d THEN "empty" ELSE "free"]
  BY DEF Init
<1>2. /\ next = [n \in Nodes |-> Null] /\ order = <<>> /\ Len(order) = 0
      /\ \A t \in Threads : pc[t] = "idle" /\ chain[t] = <<>> /\ Len(chain[t]) = 0
  BY DEF Init
<1>3. TypeOK
  <2>1. (CHOOSE v \in Values : TRUE) \in Values
    BY QueueAssumption
  <2> QED
    BY <1>1, <2>1 DEF Init, TypeOK, PC
<1>4. LockInv
  BY <1>2 DEF Init, LockInv, MutualExclusion, HoldsProducerLock, HoldsConsumerLock, PC, Threads
<1>5. Places = {0} /\ At(0) = d
  BY <1>1, <1>2 DEF Places, At
<1>6. List
  BY <1>1, <1>2, <1>5 DEF List, Distinct, Chained, Filled, HeadLife, TailLast, Threads
<1>7. Threading
  BY <1>2 DEF Threading, Popping, Pushing, Collected, ChainsApart, Threads
<1> QED
  BY <1>3, <1>4, <1>6, <1>7 DEF ListInv

\* The invariant speaks of the variables alone.
LEMMA ListUnchanged ==
  ASSUME ListInv, UNCHANGED vars
  PROVE  TypeOK' /\ List' /\ Threading'
<1> USE DEF ListInv, vars, shared
<1>1. TypeOK'
  BY DEF TypeOK
<1>2. List'
  BY DEF List, Distinct, Chained, Filled, HeadLife, TailLast, Places, At
<1>3. Threading'
  BY DEF Threading, Popping, Pushing, Collected, ChainsApart, Owns, Places, At
<1> QED
  BY <1>1, <1>2, <1>3

\* Every step keeps the locks.
LEMMA LockStep ==
  ASSUME LockInv, [Next]_vars
  PROVE  LockInv'
<1>1. CASE \E p \in Producers : NewNode(p)
  BY <1>1, OutsideStep DEF NewNode
<1>2. CASE \E p \in Producers : Push(p)
  BY <1>2, PushStep
<1>3. CASE \E c \in Consumers : Pop(c)
  BY <1>3, PopStep
<1>4. CASE UNCHANGED vars
  BY <1>4, OutsideStep DEF vars, shared
<1> QED
  BY <1>1, <1>2, <1>3, <1>4 DEF Next

\* Every step keeps the list.
LEMMA ListStep ==
  ASSUME ListInv, [Next]_vars
  PROVE  ListInv'
<1>1. LockInv'
  BY LockStep DEF ListInv
<1>2. ASSUME NEW p \in Producers, NewNode(p) \/ Push(p)
      PROVE  TypeOK' /\ List' /\ Threading'
  BY <1>2, NewNodeStep, LockProducerStep, LinkChainStep, SetTailStep, UnlockProducerStep
     DEF Push
<1>3. ASSUME NEW c \in Consumers, Pop(c)
      PROVE  TypeOK' /\ List' /\ Threading'
  BY <1>3, LockConsumerStep, ReadNextStep, SetHeadStep, CopyValueStep, FreeOldStep,
     UnlockConsumerStep DEF Pop
<1>4. TypeOK' /\ List' /\ Threading'
  BY <1>2, <1>3, ListUnchanged DEF Next
<1> QED
  BY <1>1, <1>4 DEF ListInv

\* What the invariant says of the list and of the pointers threads hold.
LEMMA ListInvIsSound ==
  ASSUME ListInv
  PROVE  ListIsSound
<1> USE DEF ListInv
<1> DEFINE list == <<head>> \o order
<1>1. /\ order \in Seq(Nodes) /\ Len(order) \in Nat
      /\ Len(list) = Len(order) + 1
      /\ \A i \in 1 .. Len(order) + 1 : list[i] = At(i - 1)
  <2>1. order \in Seq(Nodes) /\ <<head>> \in Seq(Nodes) /\ Len(<<head>>) = 1
    BY DEF TypeOK
  <2>2. /\ Len(list) = Len(<<head>>) + Len(order)
        /\ \A i \in 1 .. Len(<<head>>) + Len(order) :
             list[i] = IF i <= Len(<<head>>) THEN <<head>>[i] ELSE order[i - Len(<<head>>)]
    BY <2>1, ConcatProperties
  <2> QED
    BY <2>1, <2>2 DEF At
<1> HIDE DEF list
<1>2. ListShape
  <2>1. \A i \in 1 .. Len(order) : next[list[i]] = list[i + 1]
    <3> SUFFICES ASSUME NEW i \in 1 .. Len(order) PROVE next[list[i]] = list[i + 1]
      OBVIOUS
    <3>1. i - 1 \in Places /\ i - 1 # Len(order) /\ (i - 1) + 1 = (i + 1) - 1
      BY <1>1 DEF Places
    <3>2. next[At(i - 1)] = At((i - 1) + 1)
      BY <3>1 DEF List, Chained
    <3>3. list[i] = At(i - 1) /\ list[i + 1] = At((i + 1) - 1)
      BY <1>1
    <3> QED
      BY <3>1, <3>2, <3>3
  <2>2. LastOf(list) = At(Len(order))
    BY <1>1 DEF LastOf
  <2>3. next[LastOf(list)] = Null
    BY <2>2, AtNode DEF List, Chained
  <2> QED
    BY <2>1, <2>2, <2>3 DEF ListShape, List, Filled, TailLast, list
<1>3. MemorySafety
  <2>1. ASSUME NEW p \in Producers
        PROVE  /\ pc[p] = "link" => life[tail] # "free"
               /\ \A i \in 1 .. Len(chain[p]) :
                    pc[p] \in {"idle", "link"} => life[chain[p][i]] = "value"
    <3>1. pc[p] = "link" => \A q \in Producers : pc[q] # "tail"
      BY DEF LockInv, MutualExclusion, HoldsProducerLock
    <3>2. pc[p] = "link" => tail = At(Len(order)) /\ life[tail] # "free"
      BY <3>1, AtNode, ListNotFree DEF List, TailLast
    <3> QED
      BY <3>2 DEF Threading, Collected, Owns
  <2>2. ASSUME NEW c \in Consumers
        PROVE  /\ pc[c] \in {"next", "head"} => life[old[c]] # "free"
               /\ pc[c] = "copy" => life[head] = "value"
               /\ pc[c] = "free" => life[old[c]] = "empty"
    BY DEF Threading, Popping, List, HeadLife
  <2> QED
    BY <2>1, <2>2 DEF MemorySafety
<1> QED
  BY <1>2, <1>3 DEF ListIsSound

\* The list stays in one piece from the dummy to the last node linked, and no
\* thread of push() or pop() follows, copies from or deletes a node that is not
\* there (queue.hpp), whatever nodes the allocator hands out again.
THEOREM Soundness == Spec => []ListIsSound
  BY ListInit, ListStep, ListInvIsSound, PTL DEF Spec

-----------------------------------------------------------------------------
(* The queue is first-in first-out: every step is a step of FifoQueue, or   *)
(* changes neither the values in the list nor those popped.                *)
Queued == [i \in 1 .. Len(order) |-> val[order[i]]]

\* The abstract queue is the values of the nodes after the dummy.
LEMMA QueuedType ==
  ASSUME TypeOK
  PROVE  /\ Queued \in Seq(Values) /\ Len(Queued) = Len(order)
         /\ \A i \in 1 .. Len(order) : Queued[i] = val[order[i]]
<1>1. \A i \in 1 .. Len(order) : val[order[i]] \in Values
  BY DEF TypeOK
<1>2. Len(order) \in Nat
  BY DEF TypeOK
<1> QED
  BY <1>1, <1>2 DEF Queued

\* A step that moves no consumer into or out of "copy".
LEMMA PoppedSame ==
  ASSUME UNCHANGED <<head, val, result>>,
         \A c \in Consumers : pc'[c] = "copy" <=> pc[c] = "copy"
  PROVE  Popped' = Popped
  BY DEF Popped

\* It changes with the nodes and their values alone.
LEMMA QueuedSame ==
  ASSUME UNCHANGED <<order, val>>
  PROVE  Queued' = Queued
  BY DEF Queued

\* A step of push enqueues, or the abstract queue does not see it.
LEMMA PushIsFifo ==
  ASSUME ListInv, NEW p \in Producers, NewNode(p) \/ Push(p)
  PROVE  Fifo!Enqueue \/ UNCHANGED <<Queued, Popped>>
<1> USE DEF ListInv
<1>0. p \in Threads /\ p \notin Consumers
  BY QueueAssumption DEF Threads
<1>1. CASE NewNode(p)
  <2>1. PICK n \in Nodes, v \in Values : life[n] = "free" /\ val' = [val EXCEPT ![n] = v]
    BY <1>1 DEF NewNode
  <2>2. UNCHANGED <<head, pc, result, order>>
    BY <1>1 DEF NewNode
  <2>3. \A i \in Places : val'[At(i)] = val[At(i)]
    BY <2>1, AtNode, ListNotFree DEF List, TypeOK
  <2>4. Queued' = Queued
    <3>1. \A i \in 1 .. Len(order) : val'[order[i]] = val[order[i]]
      BY <2>3, AtNode
    <3> QED
      BY <3>1, <2>2 DEF Queued
  <2>5. Popped' = Popped
    <3>1. val'[head] = val[head]
      BY <2>3, AtNode DEF At
    <3> QED
      BY <3>1, <2>2 DEF Popped
  <2> QED
    BY <2>4, <2>5
<1>2. CASE LockProducer(p) \/ SetTail(p) \/ UnlockProducer(p)
  <2>1. UNCHANGED <<head, val, result, order>> /\ \E l : pc' = [pc EXCEPT ![p] = l]
    BY <1>2 DEF LockProducer, SetTail, UnlockProducer, Goto
  <2>2. \A c \in Consumers : pc'[c] = pc[c]
    BY <1>0, <2>1 DEF TypeOK, Threads
  <2> QED
    BY <2>1, <2>2, PoppedSame, QueuedSame
<1>3. CASE LinkChain(p)
  <2>1. /\ order' = order \o chain[p]
        /\ UNCHANGED <<head, val, result>>
        /\ pc[p] = "link" /\ pc' = [pc EXCEPT ![p] = "tail"]
    BY <1>3 DEF LinkChain, Goto
  <2>2. Popped' = Popped
    <3>1. \A c \in Consumers : pc'[c] = pc[c]
      BY <1>0, <2>1 DEF TypeOK, Threads
    <3> QED
      BY <2>1, <3>1, PoppedSame
  <2>3. /\ order \in Seq(Nodes) /\ chain[p] \in Seq(Nodes)
        /\ Len(order) \in Nat /\ Len(chain[p]) \in Nat /\ Len(chain[p]) > 0
    BY <1>0, <2>1 DEF TypeOK, Threading, Pushing
  <2>4. /\ Len(order') = Len(order) + Len(chain[p])
        /\ \A i \in 1 .. Len(order) : order'[i] = order[i]
    BY <2>1, <2>3, ConcatProperties
  <2>5. TypeOK'
    BY <1>3, LinkChainStep
  <2>6. /\ Queued' \in Seq(Values) /\ Len(Queued') = Len(order')
        /\ \A i \in 1 .. Len(order') : Queued'[i] = val'[order'[i]]
    <3>1. /\ Len(order') \in Nat
          /\ \A i \in 1 .. Len(order') : val'[order'[i]] \in Values
      BY <2>5 DEF TypeOK
    <3> QED
      BY <3>1 DEF Queued
  <2>7. /\ Queued \in Seq(Values) /\ Len(Queued) = Len(order)
        /\ \A i \in 1 .. Len(order) : Queued[i] = val[order[i]]
    BY QueuedType
  <2>8. Len(Queued') > Len(Queued)
    BY <2>3, <2>4, <2>6, <2>7
  <2>9. SubSeq(Queued', 1, Len(Queued)) = Queued
    <3>1. \A i \in 1 .. Len(order) : Queued'[i] = Queued[i] /\ Queued'[i] \in Values
      BY <2>1, <2>3, <2>4, <2>6, <2>7 DEF TypeOK
    <3>2. /\ SubSeq(Queued', 1, Len(order)) \in Seq(Values)
          /\ Len(SubSeq(Queued', 1, Len(order))) = Len(order)
          /\ \A i \in 1 .. Len(order) : SubSeq(Queued', 1, Len(order))[i] = Queued'[i]
      BY <2>3, <3>1, SubSeqProperties
    <3> QED
      BY <2>7, <3>1, <3>2, SeqEqual
  <2> QED
    BY <2>2, <2>8, <2>9 DEF Fifo!Enqueue, Queued
<1> QED
  BY <1>1, <1>2, <1>3 DEF Push

\* A step of pop dequeues, or the abstract queue does not see it.
LEMMA PopIsFifo ==
  ASSUME ListInv, NEW c \in Consumers, Pop(c)
  PROVE  Fifo!Dequeue(c) \/ UNCHANGED <<Queued, Popped>>
<1> USE DEF ListInv
<1>0. c \in Threads
  BY DEF Threads
<1>1. CASE LockConsumer(c) \/ ReadNext(c) \/ FreeOld(c) \/ UnlockConsumer(c)
  <2>1. /\ UNCHANGED <<head, val, result, order>>
        /\ pc[c] # "copy"
        /\ \E l : pc' = [pc EXCEPT ![c] = l] /\ l # "copy"
    BY <1>1 DEF LockConsumer, ReadNext, FreeOld, UnlockConsumer, Goto, shared
  <2>2. \A d \in Consumers : pc'[d] = "copy" <=> pc[d] = "copy"
    BY <1>0, <2>1 DEF TypeOK, Threads
  <2> QED
    BY <2>1, <2>2, PoppedSame, QueuedSame
<1>2. CASE CopyValue(c)
  <2>1. /\ pc[c] = "copy" /\ pc' = [pc EXCEPT ![c] = "free"]
        /\ result' = [result EXCEPT ![c] = val[head]]
        /\ UNCHANGED <<head, val, order>>
    BY <1>2 DEF CopyValue, Goto, ValueNode
  <2>2. \A d \in Consumers :
          (IF pc'[d] = "copy" THEN val[head] ELSE result'[d])
            = IF pc[d] = "copy" THEN val[head] ELSE result[d]
    BY <1>0, <2>1 DEF TypeOK, Threads
  <2> QED
    BY <2>1, <2>2, QueuedSame DEF Popped
<1>3. CASE SetHead(c)
  <2>1. /\ pc[c] = "head" /\ pc' = [pc EXCEPT ![c] = "copy"]
        /\ head' = next[old[c]]
        /\ order' = SubSeq(order, 2, Len(order))
        /\ UNCHANGED <<val, result>>
    BY <1>3 DEF SetHead, Goto
  <2>2. /\ Len(order) \in Nat /\ Len(order) > 0 /\ old[c] = head
        /\ order \in Seq(Nodes)
    BY <2>1 DEF Threading, Popping, TypeOK
  <2>3. head' = order[1]
    <3>1. next[At(0)] = IF 0 = Len(order) THEN Null ELSE At(0 + 1)
      BY AtNode DEF List, Chained
    <3> QED
      BY <3>1, <2>1, <2>2 DEF At
  <2>4. /\ Len(order') = Len(order) - 1
        /\ \A i \in 1 .. Len(order) - 1 : order'[i] = order[i + 1]
    BY <2>1, <2>2, SubSeqProperties
  <2>5. /\ Queued \in Seq(Values) /\ Len(Queued) = Len(order)
        /\ \A i \in 1 .. Len(order) : Queued[i] = val[order[i]]
    BY QueuedType
  <2>6. TypeOK'
    BY <1>3, SetHeadStep
  <2>7. /\ Queued' \in Seq(Values) /\ Len(Queued') = Len(order')
        /\ \A i \in 1 .. Len(order') : Queued'[i] = val'[order'[i]]
    <3>1. /\ Len(order') \in Nat
          /\ \A i \in 1 .. Len(order') : val'[order'[i]] \in Values
      BY <2>6 DEF TypeOK
    <3> QED
      BY <3>1 DEF Queued
  <2>8. Queued # <<>>
    BY <2>2, <2>5
  <2>9. Queued' = Tail(Queued)
    <3>1. /\ Tail(Queued) \in Seq(Values) /\ Len(Tail(Queued)) = Len(order) - 1
          /\ \A i \in 1 .. Len(order) - 1 : Tail(Queued)[i] = Queued[i + 1]
      BY <2>2, <2>5, <2>8, HeadTailProperties
    <3>2. \A i \in 1 .. Len(order) - 1 : Queued'[i] = Queued[i + 1]
      BY <2>1, <2>2, <2>4, <2>5, <2>7
    <3> QED
      BY <2>4, <2>7, <3>1, <3>2, SeqEqual
  <2>10. Popped' = [Popped EXCEPT ![c] = Head(Queued)]
    <3>1. Head(Queued) = val[order[1]]
      BY <2>2, <2>5, <2>8
    <3>2. \A d \in Consumers \ {c} : pc'[d] = pc[d] /\ pc[d] # "copy"
      BY <1>0, <2>1, OneInside DEF TypeOK, Threads, HoldsConsumerLock
    <3>3. pc'[c] = "copy"
      BY <1>0, <2>1 DEF TypeOK
    <3> QED
      BY <2>1, <2>3, <3>1, <3>2, <3>3 DEF Popped
  <2> QED
    BY <2>8, <2>9, <2>10 DEF Fifo!Dequeue, Queued
<1> QED
  BY <1>1, <1>2, <1>3 DEF Pop

\* Values come out of the linked queue once each, in the order their producers
\* linked them, a batch's together: push() and pop() of queue.hpp implement a
\* first-in first-out queue, for any threads, nodes and values.
THEOREM Refinement == Spec => ImplementsFifo
<1>1. Init => Fifo!FifoInit
  <2> SUFFICES ASSUME Init PROVE Fifo!FifoInit
    OBVIOUS
  <2>1. Len(order) = 0
    BY DEF Init
  <2>2. Queued = <<>>
    BY <2>1 DEF Queued
  <2> QED
    BY <2>2 DEF Fifo!FifoInit, Queued
<1>2. ListInv /\ [Next]_vars => [Fifo!FifoNext]_(Fifo!fifovars)
  <2> SUFFICES ASSUME ListInv, [Next]_vars
               PROVE  Fifo!FifoNext \/ UNCHANGED Fifo!fifovars
    OBVIOUS
  <2>1. UNCHANGED <<Queued, Popped>> => UNCHANGED Fifo!fifovars
    BY DEF Fifo!fifovars, Queued
  <2>2. CASE \E p \in Producers : NewNode(p) \/ Push(p)
    BY <2>1, <2>2, PushIsFifo DEF Fifo!FifoNext
  <2>3. CASE \E c \in Consumers : Pop(c)
    BY <2>1, <2>3, PopIsFifo DEF Fifo!FifoNext
  <2>4. CASE UNCHANGED vars
    BY <2>1, <2>4 DEF vars, shared, Queued, Popped
  <2> QED
    BY <2>2, <2>3, <2>4 DEF Next
<1> QED
  BY <1>1, <1>2, ListInit, ListStep, PTL DEF Spec, ImplementsFifo, Fifo!FifoSpec
=============================================================================
