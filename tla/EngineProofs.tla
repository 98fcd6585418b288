---------------------------- MODULE EngineProofs ----------------------------
(***************************************************************************)
(* The loops of the engine thread nest, and no function is left behind: a  *)
(* theorem for any clients, ring and bounds of Engine.                     *)
(*                                                                         *)
(* What is behind a ready slot is ready too, so the slot the engine thread *)
(* takes is behind every function it is running.  The function that ends a *)
(* signal_block(), or the engine, is put behind everything its client      *)
(* signalled: when it is taken, nothing of the client's is left to take.   *)
(***************************************************************************)
EXTENDS Engine, FiniteSetTheorems, FunctionTheorems, SequenceTheorems,
        WellFoundedInduction, TLAPS

Slots == 1 .. Len(ring)
Running == InState("running")

\* Slots are taken in order.
Ordered ==
  \A i, j \in Slots : i < j /\ ring[i].state = "ready" => ring[j].state = "ready"

\* A function that another one is run on top of has called signal_block().
Nested == \A i, j \in Running : i < j => ring[i].job.kind = "nested"

Loops ==
  /\ epc \in {"call", "allocate", "spin", "finish"} => Cardinality(Running) = depth + 1
  /\ epc \in {"test", "take"} =>
       /\ Cardinality(Running) = depth
       /\ \A i \in Running : ring[i].job.kind = "nested"
  /\ epc \in {"unborn", "exited"} => depth = 0 /\ Running = {}

\* The function that signals has one more to signal.
Signalling ==
  epc = "allocate" => LET job == ring[Current].job
                      IN  \/ job.kind = "repeat" /\ job.left > 0
                          \/ job.kind = "nested" /\ depth < MaxDepth

\* The function in slot i has not been called.
ToCall(i) == ring[i].state = "ready" \/ (ring[i].state = "running" /\ epc = "call")

\* What ends the signal_block() of client c.
Unblocks(c) == {i \in Slots : ring[i].job.kind = "unblock" /\ ring[i].job.by = c /\ ToCall(i)}

\* What ends the engine.
Stops == {i \in Slots : ring[i].job.kind = "stop" /\ ToCall(i)}

Stopping == next[Owner].kind = "stop"

\* A client's unblock function is the last of what it signalled.
Blocking ==
  \A c \in Clients :
    /\ pc[c] = "allocate" => next[c].by = c /\ (next[c].kind = "unblock" => blocked[c])
    /\ \A i \in Unblocks(c) :
         /\ pc[c] = "wait" /\ blocked[c]
         /\ \A j \in Unfinished(c) : j < i
         /\ \A j \in Unblocks(c) : j = i

\* Only the owner starts the engine and destroys it.
Owning ==
  /\ \A c \in Clients : c # Owner => /\ pc[c] \in {"idle", "allocate", "wait"}
                                     /\ next[c].kind # "stop"
  /\ pc[Owner] = "spawn" => epc = "unborn"
  /\ \A c \in Clients : pc[c] = "allocate" => running
  /\ pc[Owner] \in {"spawn", "assign"} => running
  /\ epc = "exited" => ~running
  /\ ~running /\ ~Stopping =>
       ring = <<>> /\ epc = "unborn" /\ \A c \in Clients : pc[c] \in {"idle", "gone"}

\* The stop function is the last of what any client signals.
Ending ==
  /\ Stopping \/ pc[Owner] = "gone" => \A c \in Clients : c # Owner => pc[c] = "idle"
  /\ Stopping => pc[Owner] \in {"allocate", "join", "gone"}
  /\ pc[Owner] = "join" => Stopping
  /\ \A i \in Stops :
       /\ Stopping /\ pc[Owner] = "join" /\ ring[i].job.by = Owner
       /\ \A c \in Clients : \A j \in Unfinished(c) : j <= i
  /\ Stopping /\ ~running =>
       \A c \in Clients : \A j \in Unfinished(c) : ring[j].state = "running"
  /\ pc[Owner] = "gone" => epc \in {"unborn", "exited"} /\ NothingDropped

-----------------------------------------------------------------------------
(* Sets of slots. *)

\* Of some natural numbers, one is the least: from n down there are finitely
\* many, and of the sets 0 .. m, one has none of the others inside.
LEMMA Least ==
  ASSUME NEW S \in SUBSET Nat, NEW n \in S
  PROVE  \E m \in S : \A k \in S : m <= k
<1> DEFINE B == 0 .. n
           T == {0 .. m : m \in S \cap B}
<1>1. n \in Nat /\ IsFiniteSet(B)
  BY FS_Interval
<1>2. IsWellFoundedOn(StrictSubsetOrdering(B), SUBSET B)
  BY <1>1, FS_StrictSubsetOrderingWellFounded, FS_FiniteSubsetsOfFinite
<1>3. T \subseteq SUBSET B /\ B \in T
  BY <1>1
<1>4. PICK x \in T : \A y \in T : <<y, x>> \notin StrictSubsetOrdering(B)
  <2> HIDE DEF T, B
  <2> QED
    BY <1>2, <1>3, WFMin
<1>5. PICK m \in S \cap B : x = 0 .. m
  BY <1>4
<1>6. SUFFICES ASSUME NEW k \in S, k < m PROVE FALSE
  BY <1>1, <1>5
<1>7. k \in Nat /\ m \in Nat /\ k \in S \cap B
  BY <1>1, <1>5, <1>6
<1>8. 0 .. k \subseteq 0 .. m /\ m \in 0 .. m /\ m \notin 0 .. k
  BY <1>6, <1>7
<1>9. 0 .. k \in T /\ 0 .. k \in SUBSET B /\ x \in SUBSET B
  BY <1>3, <1>4, <1>7
<1>10. <<0 .. k, x>> \in StrictSubsetOrdering(B)
  <2> HIDE DEF B, T
  <2> QED
    BY <1>5, <1>8, <1>9 DEF StrictSubsetOrdering
<1> QED
  BY <1>4, <1>9, <1>10

\* Of some numbers up to n, one is the greatest.
LEMMA Greatest ==
  ASSUME NEW n \in Nat, NEW S \in SUBSET (1 .. n), NEW s \in S
  PROVE  \E m \in S : \A k \in S : k <= m
<1> DEFINE T == {n - k : k \in S}
<1>1. T \in SUBSET Nat /\ n - s \in T
  OBVIOUS
<1>2. PICK t \in T : \A u \in T : t <= u
  <2> HIDE DEF T
  <2> QED
    BY <1>1, Least
<1>3. PICK m \in S : t = n - m
  OBVIOUS
<1>4. \A k \in S : k <= m
  <2> SUFFICES ASSUME NEW k \in S PROVE k <= m
    OBVIOUS
  <2>1. t <= n - k
    BY <1>2
  <2> QED
    BY <1>3, <2>1
<1> QED
  BY <1>4

\* A set moved down by k has as many members.
LEMMA ShiftedCount ==
  ASSUME NEW S \in SUBSET Nat, IsFiniteSet(S), NEW k \in Nat, \A i \in S : i >= k
  PROVE  LET T == {i \in Nat : i + k \in S}
         IN  IsFiniteSet(T) /\ Cardinality(T) = Cardinality(S)
<1> DEFINE T == {i \in Nat : i + k \in S}
           f == [i \in S |-> i - k]
<1>1. f \in [S -> T]
  OBVIOUS
<1>2. \A a, b \in S : f[a] = f[b] => a = b
  OBVIOUS
<1>3. \A t \in T : \E s \in S : f[s] = t
  <2> SUFFICES ASSUME NEW t \in T PROVE f[t + k] = t
    OBVIOUS
  <2> QED
    OBVIOUS
<1>4. f \in Bijection(S, T)
  <2> HIDE DEF f, T
  <2> QED
    BY <1>1, <1>2, <1>3, Fun_IsBij
<1>5. ExistsBijection(S, T)
  <2> HIDE DEF f, T
  <2> QED
    BY <1>4, Fun_ExistsBij
<1> HIDE DEF T
<1> QED
  BY <1>5, FS_Bijection DEF T
-----------------------------------------------------------------------------
(* The ring. *)

Slot == [job : Job, state : {"ready", "running", "done"}]

\* What the types say of the ring.
LEMMA RingTypes ==
  ASSUME TypeOK
  PROVE  /\ ring \in Seq(Slot) /\ Len(ring) \in Nat /\ Len(ring) <= Capacity
         /\ \A i \in Slots : /\ ring[i] \in Slot /\ ring[i].job \in Job
                             /\ ring[i].state \in {"ready", "running", "done"}
         /\ Slots \subseteq Nat /\ Running \subseteq Slots /\ IsFiniteSet(Running)
         /\ InState("ready") \subseteq Slots
         /\ depth \in Nat /\ MaxDepth \in Nat
<1>1. ring \in Seq(Slot) /\ Len(ring) <= Capacity /\ depth \in Nat /\ MaxDepth \in Nat
  BY EngineAssumption DEF TypeOK, Slot
<1>2. Len(ring) \in Nat /\ \A i \in Slots : ring[i] \in Slot
  BY <1>1 DEF Slots
<1>3. Running \subseteq Slots /\ InState("ready") \subseteq Slots
  BY DEF Running, InState, Slots
<1>4. IsFiniteSet(Slots)
  BY <1>2, FS_Interval DEF Slots
<1>5. IsFiniteSet(Running)
  BY <1>3, <1>4, FS_Subset
<1> QED
  BY <1>1, <1>2, <1>3, <1>5 DEF Slot, Slots

\* Current is the last slot that is running.
LEMMA CurrentIsLast ==
  ASSUME TypeOK, Running # {}
  PROVE  Current \in Running /\ \A j \in Running : j <= Current
<1>1. \E i \in Running : \A j \in Running : j <= i
  BY RingTypes, Greatest DEF Slots
<1> QED
  BY <1>1 DEF Current, Running

\* FirstReady is the first slot that is ready.
LEMMA FirstIsReady ==
  ASSUME TypeOK, InState("ready") # {}
  PROVE  FirstReady \in InState("ready") /\ \A j \in InState("ready") : FirstReady <= j
<1>1. InState("ready") \in SUBSET Nat
  BY RingTypes
<1>2. \E i \in InState("ready") : \A j \in InState("ready") : i <= j
  BY <1>1, Least
<1> QED
  BY <1>2 DEF FirstReady

\* Putting a function into the ring adds a ready slot behind the others.
LEMMA PutAdds ==
  ASSUME TypeOK, HasSpace, NEW job \in Job, Put(job)
  PROVE  /\ ring' \in Seq(Slot) /\ Len(ring') = Len(ring) + 1 /\ Len(ring') <= Capacity
         /\ Slots' = Slots \cup {Len(ring) + 1} /\ Len(ring) + 1 \notin Slots
         /\ \A i \in Slots : ring'[i] = ring[i]
         /\ ring'[Len(ring) + 1] = [job |-> job, state |-> "ready"]
         /\ Running' = Running /\ Current' = Current
<1>1. ring \in Seq(Slot) /\ Len(ring) \in Nat /\ Capacity \in Nat
  BY RingTypes, EngineAssumption
<1>2. [job |-> job, state |-> "ready"] \in Slot
  BY DEF Slot
<1>3. ring' \in Seq(Slot) /\ Len(ring') = Len(ring) + 1
  BY <1>1, <1>2 DEF Put
<1>4. \A i \in Slots : ring'[i] = ring[i]
  BY <1>1, <1>2 DEF Put, Slots
<1>5. ring'[Len(ring) + 1] = [job |-> job, state |-> "ready"]
  BY <1>1, <1>2 DEF Put
<1>6. Slots' = Slots \cup {Len(ring) + 1} /\ Len(ring) + 1 \notin Slots
  BY <1>1, <1>3 DEF Slots
<1>7. Running' = Running
  BY <1>4, <1>5, <1>6 DEF Running, InState, Slots
<1>8. Current' = Current
  BY <1>7 DEF Current, Running
<1>9. Len(ring') <= Capacity
  BY <1>1, <1>3 DEF HasSpace
<1> QED
  BY <1>3, <1>4, <1>5, <1>6, <1>7, <1>8, <1>9

\* The slot that is taken is behind all those that are running.
LEMMA TakesNext ==
  ASSUME TypeOK, Ordered, InState("ready") # {},
         ring' = [ring EXCEPT ![FirstReady].state = "running"]
  PROVE  /\ ring' \in Seq(Slot) /\ Len(ring') = Len(ring) /\ Slots' = Slots
         /\ FirstReady \in Slots /\ ring[FirstReady].state = "ready"
         /\ ring'[FirstReady].state = "running"
         /\ \A i \in Slots : ring'[i].job = ring[i].job
         /\ \A i \in Slots \ {FirstReady} : ring'[i] = ring[i]
         /\ Running' = Running \cup {FirstReady} /\ FirstReady \notin Running
         /\ \A i \in Running : i < FirstReady
         /\ Current' = FirstReady
<1>1. /\ FirstReady \in Slots /\ ring[FirstReady].state = "ready" /\ FirstReady \in Nat
      /\ ring \in Seq(Slot) /\ Slots \subseteq Nat /\ Running \subseteq Slots
  BY FirstIsReady, RingTypes DEF InState
<1>2. PICK s : s = [ring[FirstReady] EXCEPT !.state = "running"]
  OBVIOUS
<1>3. s \in Slot /\ s.state = "running" /\ s.job = ring[FirstReady].job
  BY <1>1, <1>2, RingTypes DEF Slot
<1>4. ring' = [ring EXCEPT ![FirstReady] = s]
  BY <1>2
<1>5. ring' \in Seq(Slot) /\ Len(ring') = Len(ring)
  BY <1>1, <1>3, <1>4, ExceptSeq DEF Slots
<1>6. ring'[FirstReady] = s /\ \A i \in Slots \ {FirstReady} : ring'[i] = ring[i]
  BY <1>1, <1>4 DEF Slots
<1>7. Slots' = Slots
  BY <1>5 DEF Slots
<1>8. Running' = Running \cup {FirstReady} /\ FirstReady \notin Running
  BY <1>1, <1>3, <1>6, <1>7 DEF Running, InState, Slots
<1>9. \A i \in Running : i < FirstReady
  <2> SUFFICES ASSUME NEW i \in Running, FirstReady < i PROVE FALSE
    BY <1>1, <1>8
  <2> QED
    BY <1>1 DEF Ordered, Running, InState
<1>10. \A i \in Running' : i <= FirstReady
  BY <1>1, <1>8, <1>9
<1>11. \A i : i \in Running' /\ (\A j \in Running' : j <= i) => i = FirstReady
  <2> SUFFICES ASSUME NEW i \in Running', FirstReady <= i PROVE i = FirstReady
    BY <1>8
  <2> QED
    BY <1>1, <1>8, <1>10
<1>12. Current' = FirstReady
  BY <1>8, <1>10, <1>11 DEF Current, Running
<1> QED
  BY <1>1, <1>3, <1>5, <1>6, <1>7, <1>8, <1>9, <1>12
\* Finishing frees k slots at the front, all of them done, and the others move
\* down; the function that ran is not running any more.
FreesSlots(k) ==
  /\ k <= Len(ring) /\ Len(ring') = Len(ring) - k
  /\ \A i \in Slots' : /\ i + k \in Slots
                       /\ ring'[i].job = ring[i + k].job
                       /\ ring'[i].state = IF i + k = Current THEN "done"
                                           ELSE ring[i + k].state

\* A function that is finished is freed, now or with those before it.
LEMMA FinishFrees ==
  ASSUME TypeOK, Running # {}, ring' = Freed(ring)
  PROVE  /\ ring' \in Seq(Slot) /\ Len(ring') <= Capacity
         /\ \E k \in Nat : FreesSlots(k)
         /\ Cardinality(Running') = Cardinality(Running) - 1
<1> DEFINE done == [ring EXCEPT ![Current].state = "done"]
           live == {i \in 1 .. Len(done) : done[i].state # "done"}
<1>1. /\ Current \in Running /\ Current \in Slots /\ Current \in Nat
      /\ ring \in Seq(Slot) /\ Slots \subseteq Nat /\ Running \subseteq Slots
      /\ Len(ring) \in Nat /\ IsFiniteSet(Running) /\ Capacity \in Nat
  BY CurrentIsLast, RingTypes, EngineAssumption
<1>2. PICK s : s = [ring[Current] EXCEPT !.state = "done"]
  OBVIOUS
<1>3. s \in Slot /\ s.state = "done" /\ s.job = ring[Current].job
  BY <1>1, <1>2, RingTypes DEF Slot
<1>4. done = [ring EXCEPT ![Current] = s]
  BY <1>2
<1>5. done \in Seq(Slot) /\ Len(done) = Len(ring)
  BY <1>1, <1>3, <1>4, ExceptSeq DEF Slots
<1>6. done[Current] = s /\ \A i \in Slots \ {Current} : done[i] = ring[i]
  BY <1>1, <1>4 DEF Slots
<1>7. ring' = IF live = {} THEN <<>>
              ELSE SubSeq(done, CHOOSE i \in live : \A j \in live : i <= j, Len(done))
  BY DEF Freed
<1> HIDE DEF done
<1>8. \E k \in Nat : /\ k <= Len(ring) /\ \A i \in 1 .. k : done[i].state = "done"
                     /\ ring' \in Seq(Slot) /\ Len(ring') = Len(ring) - k
                     /\ \A i \in 1 .. Len(ring') : ring'[i] = done[i + k]
  <2>1. CASE live = {}
    <3>1. ring' = <<>>
      BY <1>7, <2>1
    <3>2. ring' \in Seq(Slot) /\ Len(ring') = Len(ring) - Len(ring)
      BY <1>1, <3>1
    <3>3. \A i \in 1 .. Len(ring) : done[i].state = "done"
      BY <1>5, <2>1
    <3>4. \A i \in 1 .. Len(ring') : ring'[i] = done[i + Len(ring)]
      BY <3>1
    <3> QED
      BY <1>1, <3>2, <3>3, <3>4
  <2>2. CASE live # {}
    <3>1. live \in SUBSET Nat
      OBVIOUS
    <3>2. PICK m : m = CHOOSE i \in live : \A j \in live : i <= j
      OBVIOUS
    <3>3. m \in live /\ \A j \in live : m <= j
      <4>1. \E i \in live : \A j \in live : i <= j
        <5> HIDE DEF live
        <5> QED
          BY <2>2, <3>1, Least
      <4> QED
        BY <3>2, <4>1
    <3>4. m \in 1 .. Len(ring) /\ m - 1 \in Nat
      BY <1>1, <1>5, <3>3
    <3>5. ring' = SubSeq(done, m, Len(ring))
      BY <1>5, <1>7, <2>2, <3>2
    <3>6. /\ ring' \in Seq(Slot) /\ Len(ring') = Len(ring) - (m - 1)
          /\ \A i \in 1 .. Len(ring') : ring'[i] = done[i + (m - 1)]
      <4>1. m \in 1 .. Len(done) + 1 /\ Len(ring) \in m - 1 .. Len(done)
        BY <1>1, <1>5, <3>4
      <4>2. /\ ring' \in Seq(Slot)
            /\ Len(ring') = IF m <= Len(ring) THEN Len(ring) - m + 1 ELSE 0
            /\ \A i \in 1 .. Len(ring) - m + 1 : ring'[i] = done[m + i - 1]
        BY <1>5, <3>5, <4>1, SubSeqProperties
      <4>3. Len(ring') = Len(ring) - m + 1
        BY <1>1, <3>4, <4>2
      <4>4. Len(ring) - m + 1 = Len(ring) - (m - 1)
        BY <1>1, <3>4
      <4>5. \A i \in 1 .. Len(ring') : m + i - 1 = i + (m - 1)
        BY <1>1, <3>4, <4>3
      <4> QED
        BY <4>2, <4>3, <4>4, <4>5
    <3>7. \A i \in 1 .. m - 1 : done[i].state = "done"
      <4> SUFFICES ASSUME NEW i \in 1 .. m - 1, i \in live PROVE FALSE
        BY <1>1, <1>5, <3>4
      <4> QED
        BY <3>3, <3>4
    <3>8. PICK k \in Nat : k = m - 1
      BY <3>4
    <3>9. k <= Len(ring)
      BY <1>1, <3>4, <3>8
    <3> QED
      BY <3>6, <3>7, <3>8, <3>9
  <2> QED
    BY <2>1, <2>2
<1>9. PICK k \in Nat : /\ k <= Len(ring) /\ \A i \in 1 .. k : done[i].state = "done"
                       /\ ring' \in Seq(Slot) /\ Len(ring') = Len(ring) - k
                       /\ \A i \in 1 .. Len(ring') : ring'[i] = done[i + k]
  BY <1>8
<1> HIDE DEF live
<1>10. Len(ring') \in Nat /\ Len(ring') <= Len(ring) /\ Len(ring') <= Capacity
  BY <1>1, <1>9, RingTypes
<1>11. \A i \in Slots' : i \in Nat /\ i + k \in Slots /\ ring'[i] = done[i + k]
  <2>1. \A i \in 1 .. Len(ring) - k : i \in Nat /\ i + k \in 1 .. Len(ring)
    BY <1>1, <1>9
  <2> QED
    BY <1>9, <2>1 DEF Slots
<1>12. FreesSlots(k)
  BY <1>1, <1>3, <1>6, <1>9, <1>11 DEF FreesSlots
<1>13. \A i \in Slots : i > k => i - k \in Slots'
  <2>1. \A i \in 1 .. Len(ring) : i > k => i - k \in 1 .. Len(ring) - k
    BY <1>1, <1>9
  <2> QED
    BY <1>9, <2>1 DEF Slots
<1>14. \A i \in Running \ {Current} : i > k
  <2> SUFFICES ASSUME NEW i \in Running, i # Current, i <= k PROVE FALSE
    BY <1>1, <1>9
  <2>1. i \in 1 .. k /\ done[i] = ring[i] /\ ring[i].state = "running"
    BY <1>1, <1>6, <1>9 DEF Running, InState, Slots
  <2> QED
    BY <1>9, <2>1
<1>15. Running' = {i \in Nat : i + k \in Running \ {Current}}
  <2>1. \A i \in Running' : i \in Nat /\ i + k \in Running \ {Current}
    <3> SUFFICES ASSUME NEW i \in Running' PROVE i \in Nat /\ i + k \in Running \ {Current}
      OBVIOUS
    <3>1. i \in Slots' /\ ring'[i].state = "running"
      BY DEF Running, InState, Slots
    <3>2. ring'[i] = done[i + k] /\ i + k \in Slots /\ i \in Nat
      BY <1>11, <3>1
    <3>3. i + k # Current
      BY <1>3, <1>6, <3>1, <3>2
    <3> QED
      BY <1>6, <3>1, <3>2, <3>3 DEF Running, InState, Slots
  <2>2. \A i \in Nat : i + k \in Running \ {Current} => i \in Running'
    <3> SUFFICES ASSUME NEW i \in Nat, i + k \in Running, i + k # Current PROVE i \in Running'
      OBVIOUS
    <3>1. i + k \in Slots /\ i + k \in Nat /\ ring[i + k].state = "running"
      BY <1>1 DEF Running, InState, Slots
    <3>2. i + k > k /\ i + k - k = i
      BY <1>9, <1>14, <3>1
    <3>3. i \in Slots'
      BY <1>13, <3>1, <3>2
    <3>4. ring'[i].state = "running"
      BY <1>6, <1>11, <3>1, <3>3
    <3> QED
      BY <3>3, <3>4 DEF Running, InState, Slots
  <2> QED
    BY <2>1, <2>2
<1>16. Cardinality(Running') = Cardinality(Running) - 1
  <2> DEFINE rest == Running \ {Current}
  <2>1. IsFiniteSet(rest) /\ rest \in SUBSET Nat
    BY <1>1, FS_RemoveElement
  <2>2. Cardinality(rest) = Cardinality(Running) - 1
    BY <1>1, FS_RemoveElement
  <2>3. \A i \in rest : i >= k
    BY <1>1, <1>14
  <2>4. Running' = {i \in Nat : i + k \in rest}
    BY <1>15
  <2> HIDE DEF rest
  <2>5. Cardinality(Running') = Cardinality(rest)
    BY <2>1, <2>3, <2>4, ShiftedCount
  <2> QED
    BY <2>2, <2>5
<1> QED
  BY <1>9, <1>10, <1>12, <1>16
-----------------------------------------------------------------------------
(* The loops of the engine thread. *)

LoopInv == TypeOK /\ Ordered /\ Nested /\ Loops /\ Signalling

\* A thread that runs a function runs the last one.
LEMMA RunsOne ==
  ASSUME LoopInv, epc \in {"call", "allocate", "spin", "finish"}
  PROVE  /\ Running # {} /\ Current \in Running /\ Current \in Slots
         /\ \A j \in Running : j <= Current
         /\ \A j \in Running : j # Current => j < Current /\ ring[j].job.kind = "nested"
         /\ ring[Current].job \in Job
<1>1. IsFiniteSet(Running) /\ Cardinality(Running) = depth + 1 /\ depth \in Nat
  BY RingTypes DEF LoopInv, Loops
<1>2. Running # {}
  BY <1>1, FS_EmptySet
<1>3. Current \in Running /\ \A j \in Running : j <= Current
  BY <1>2, CurrentIsLast DEF LoopInv
<1>4. Running \subseteq Slots /\ Slots \subseteq Nat
  BY RingTypes DEF LoopInv
<1>5. \A j \in Running : j # Current => j < Current
  BY <1>3, <1>4
<1>6. ring[Current].job \in Job
  BY <1>3, <1>4, RingTypes DEF LoopInv
<1> QED
  BY <1>2, <1>3, <1>4, <1>5, <1>6 DEF LoopInv, Nested

\* A step beside the ring and the engine thread.
LEMMA LoopsAside ==
  ASSUME LoopInv, TypeOK', UNCHANGED <<ring, epc, depth>>
  PROVE  LoopInv'
<1>1. Slots' = Slots /\ Running' = Running /\ Current' = Current
  BY DEF Slots, Running, InState, Current
<1> QED
  BY <1>1 DEF LoopInv, Ordered, Nested, Loops, Signalling

\* One more function in the ring.
LEMMA PutKeepsOrder ==
  ASSUME LoopInv, HasSpace, NEW job \in Job, Put(job)
  PROVE  Ordered' /\ Nested'
<1>1. /\ Slots' = Slots \cup {Len(ring) + 1} /\ Len(ring) + 1 \notin Slots
      /\ \A i \in Slots : ring'[i] = ring[i]
      /\ ring'[Len(ring) + 1] = [job |-> job, state |-> "ready"]
      /\ Running' = Running
  BY PutAdds DEF LoopInv
<1>2. /\ Len(ring) \in Nat /\ Slots = 1 .. Len(ring) /\ Running \subseteq Slots
  BY RingTypes DEF LoopInv, Slots
<1>3. Ordered'
  <2> SUFFICES ASSUME NEW i \in Slots', NEW j \in Slots', i < j, ring'[i].state = "ready"
               PROVE  ring'[j].state = "ready"
    BY DEF Ordered
  <2>1. CASE j = Len(ring) + 1
    BY <1>1, <2>1
  <2>2. CASE j # Len(ring) + 1
    BY <1>1, <1>2, <2>2 DEF LoopInv, Ordered
  <2> QED
    BY <2>1, <2>2
<1>4. Nested'
  BY <1>1, <1>2 DEF LoopInv, Nested
<1> QED
  BY <1>3, <1>4

\* Putting a function into the ring, beside the engine thread, keeps the loops.
LEMMA PutKeepsLoops ==
  ASSUME LoopInv, HasSpace, NEW f \in Job, Put(f), TypeOK', UNCHANGED <<epc, depth>>
  PROVE  LoopInv'
<1>1. /\ \A i \in Slots : ring'[i] = ring[i]
      /\ Running' = Running /\ Current' = Current
  BY PutAdds DEF LoopInv
<1>2. Running \subseteq Slots
  BY RingTypes DEF LoopInv
<1>3. Loops'
  BY <1>1, <1>2 DEF LoopInv, Loops
<1>4. Signalling'
  <2> SUFFICES ASSUME epc = "allocate"
               PROVE  LET job == ring'[Current].job
                      IN  \/ job.kind = "repeat" /\ job.left > 0
                          \/ job.kind = "nested" /\ depth < MaxDepth
    BY <1>1 DEF Signalling
  <2>1. ring'[Current] = ring[Current]
    BY <1>1, RunsOne
  <2> QED
    BY <2>1 DEF LoopInv, Signalling
<1> QED
  BY <1>3, <1>4, PutKeepsOrder DEF LoopInv
\* What each client is doing, by type.
Places == {"idle", "spawn", "assign", "allocate", "wait", "join", "gone"}

\* Goto moves one client.
LEMMA GotoTypes ==
  ASSUME TypeOK, NEW c \in Clients, NEW l \in Places, Goto(c, l)
  PROVE  /\ pc' \in [Clients -> Places]
         /\ pc'[c] = l /\ \A d \in Clients : d # c => pc'[d] = pc[d]
  BY DEF TypeOK, Goto, Places

\* A client's calls keep the types, and the loops are not their business.
LEMMA ClientCallKeepsLoops ==
  ASSUME LoopInv, NEW c \in Clients, ClientCall(c)
  PROVE  LoopInv'
<1>1. TypeOK
  BY DEF LoopInv
<1>2. UNCHANGED <<ring, epc, depth>> /\ pc' \in [Clients -> Places]
  <2>1. CASE Signal(c)
    <3>1. PICK l \in {"allocate", "idle"} : Goto(c, l)
      BY <2>1 DEF Signal
    <3>2. l \in Places
      BY DEF Places
    <3> QED
      BY <1>1, <2>1, <3>1, <3>2, GotoTypes DEF Signal
  <2>2. CASE SignalBlock(c)
    <3>1. Goto(c, "allocate") /\ "allocate" \in Places
      BY <2>2 DEF SignalBlock, Places
    <3> QED
      BY <1>1, <2>2, <3>1, GotoTypes DEF SignalBlock
  <2>3. CASE EnsureRunning(c)
    <3>1. Goto(c, "spawn") /\ "spawn" \in Places
      BY <2>3 DEF EnsureRunning, Places
    <3> QED
      BY <1>1, <2>3, <3>1, GotoTypes DEF EnsureRunning
  <2>4. CASE Destroy(c)
    <3>1. PICK l \in {"allocate", "gone"} : Goto(c, l)
      BY <2>4 DEF Destroy
    <3>2. l \in Places
      BY DEF Places
    <3> QED
      BY <1>1, <2>4, <3>1, <3>2, GotoTypes DEF Destroy
  <2> QED
    BY <2>1, <2>2, <2>3, <2>4 DEF ClientCall
<1>3. next' \in [Clients -> Job]
  <2>0. c \in Signallers /\ 0 \in 0 .. MaxRepeats /\ MaxRepeats \in 0 .. MaxRepeats
    BY EngineAssumption DEF Signallers
  <2>1. CASE Signal(c)
    <3>1. PICK k \in Kinds :
            next' = [next EXCEPT ![c] =
                      [kind |-> k, by |-> c, left |-> IF k = "repeat" THEN MaxRepeats ELSE 0]]
      BY <2>1 DEF Signal
    <3>2. [kind |-> k, by |-> c, left |-> IF k = "repeat" THEN MaxRepeats ELSE 0] \in Job
      BY <2>0, EngineAssumption DEF Job
    <3> QED
      BY <1>1, <3>1, <3>2 DEF TypeOK
  <2>2. CASE SignalBlock(c)
    <3>1. [kind |-> "unblock", by |-> c, left |-> 0] \in Job
      BY <2>0 DEF Job
    <3> QED
      BY <1>1, <2>2, <3>1 DEF TypeOK, SignalBlock
  <2>3. CASE EnsureRunning(c)
    BY <1>1, <2>3 DEF TypeOK, EnsureRunning
  <2>4. CASE Destroy(c)
    <3>1. [kind |-> "stop", by |-> c, left |-> 0] \in Job
      BY <2>0 DEF Job
    <3> QED
      BY <1>1, <2>4, <3>1 DEF TypeOK, Destroy
  <2> QED
    BY <2>1, <2>2, <2>3, <2>4 DEF ClientCall
<1>4. /\ running' \in BOOLEAN /\ handle' \in BOOLEAN
      /\ blocked' \in [Signallers -> BOOLEAN] /\ calls' \in [Clients -> 0 .. MaxSignals]
  <2>1. CASE Signal(c)
    BY <1>1, <2>1, EngineAssumption DEF TypeOK, Signal
  <2>2. CASE SignalBlock(c)
    <3>1. c \in Signallers
      BY DEF Signallers
    <3> QED
      BY <1>1, <2>2, <3>1, EngineAssumption DEF TypeOK, SignalBlock
  <2>3. CASE EnsureRunning(c)
    BY <1>1, <2>3 DEF TypeOK, EnsureRunning
  <2>4. CASE Destroy(c)
    BY <1>1, <2>4 DEF TypeOK, Destroy
  <2> QED
    BY <2>1, <2>2, <2>3, <2>4 DEF ClientCall
<1>5. TypeOK'
  BY <1>1, <1>2, <1>3, <1>4 DEF TypeOK, Places
<1> QED
  BY <1>2, <1>5, LoopsAside

\* Starting the thread begins the outermost loop; a function put into the ring
\* waits behind the others.
LEMMA ClientStepKeepsLoops ==
  ASSUME LoopInv, Owning, NEW c \in Clients, ClientStep(c)
  PROVE  LoopInv'
<1>1. TypeOK
  BY DEF LoopInv
<1>2. /\ UNCHANGED <<running, blocked, next, calls, depth>>
      /\ \E l \in Places : Goto(c, l)
  BY DEF ClientStep, SpawnThread, AssignHandle, Allocate, WaitUnblocked, Join, Places
<1>3. pc' \in [Clients -> Places]
  BY <1>1, <1>2, GotoTypes
<1>4. CASE SpawnThread(c)
  <2>1. c = Owner /\ epc = "unborn"
    BY <1>4 DEF SpawnThread, Owning
  <2>2. UNCHANGED <<ring, handle>> /\ epc' = "test"
    BY <1>4 DEF SpawnThread
  <2>3. TypeOK'
    BY <1>1, <1>2, <1>3, <2>2 DEF TypeOK, Places
  <2>4. Running = {} /\ depth = 0 /\ Cardinality(Running) = 0
    BY <2>1, FS_EmptySet DEF LoopInv, Loops
  <2>5. Slots' = Slots /\ Running' = Running
    BY <2>2 DEF Slots, Running, InState
  <2> QED
    BY <1>2, <2>2, <2>3, <2>4, <2>5 DEF LoopInv, Ordered, Nested, Loops, Signalling
<1>5. CASE Allocate(c)
  <2>1. /\ HasSpace /\ next[c] \in Job /\ Put(next[c]) /\ UNCHANGED <<handle, epc>>
    BY <1>1, <1>5 DEF Allocate, TypeOK
  <2>2. ring' \in Seq(Slot) /\ Len(ring') <= Capacity
    BY <1>1, <2>1, PutAdds
  <2>3. TypeOK'
    BY <1>1, <1>2, <1>3, <2>1, <2>2 DEF TypeOK, Places, Slot
  <2> QED
    BY <1>2, <2>1, <2>3, PutKeepsLoops
<1>6. CASE AssignHandle(c) \/ WaitUnblocked(c) \/ Join(c)
  <2>1. UNCHANGED <<ring, epc>> /\ handle' \in BOOLEAN
    BY <1>1, <1>6 DEF AssignHandle, WaitUnblocked, Join, TypeOK
  <2>2. TypeOK'
    BY <1>1, <1>2, <1>3, <2>1 DEF TypeOK, Places
  <2> QED
    BY <1>2, <2>1, <2>2, LoopsAside
<1> QED
  BY <1>4, <1>5, <1>6 DEF ClientStep
\* The flag decides whether a loop goes on, or ends and gives back to the
\* function that began it.
LEMMA TestFlagKeepsLoops ==
  ASSUME LoopInv, TestFlag
  PROVE  LoopInv'
<1>1. /\ TypeOK /\ epc = "test" /\ UNCHANGED <<running, handle, ring, blocked, pc, next, calls>>
      /\ Cardinality(Running) = depth /\ \A i \in Running : ring[i].job.kind = "nested"
      /\ IsFiniteSet(Running) /\ depth \in Nat /\ MaxDepth \in Nat
  BY RingTypes DEF LoopInv, Loops, TestFlag
<1>2. Slots' = Slots /\ Running' = Running
  BY <1>1 DEF Slots, Running, InState
<1>3. \/ epc' = "take" /\ depth' = depth
      \/ epc' = "exited" /\ depth' = depth /\ depth = 0
      \/ epc' = "finish" /\ depth' = depth - 1 /\ depth # 0
  BY DEF TestFlag, EngineGoto
<1>4. depth' \in 0 .. MaxDepth
  BY <1>1, <1>3 DEF TypeOK
<1>5. TypeOK'
  BY <1>1, <1>3, <1>4 DEF TypeOK
<1>6. Loops'
  <2>1. CASE epc' = "take"
    BY <1>1, <1>2, <1>3, <2>1 DEF Loops
  <2>2. CASE epc' = "exited"
    <3>1. Running = {} /\ depth' = 0
      BY <1>1, <1>3, <2>2, FS_EmptySet
    <3> QED
      BY <1>2, <2>2, <3>1 DEF Loops
  <2>3. CASE epc' = "finish"
    <3>1. Cardinality(Running) = (depth - 1) + 1
      BY <1>1
    <3>2. depth' = depth - 1
      BY <1>3, <2>3
    <3>3. Cardinality(Running') = depth' + 1
      BY <1>2, <3>1, <3>2
    <3> QED
      BY <2>3, <3>3 DEF Loops
  <2> QED
    BY <1>3, <2>1, <2>2, <2>3
<1> QED
  BY <1>1, <1>2, <1>3, <1>5, <1>6 DEF LoopInv, Ordered, Nested, Signalling

\* The function that is taken is run on top of those that called signal_block().
LEMMA TakeKeepsLoops ==
  ASSUME LoopInv, Take
  PROVE  LoopInv'
<1>1. /\ TypeOK /\ Ordered /\ epc = "take"
      /\ UNCHANGED <<running, handle, blocked, pc, next, calls, depth>>
      /\ Cardinality(Running) = depth /\ \A i \in Running : ring[i].job.kind = "nested"
      /\ IsFiniteSet(Running) /\ Running \subseteq Slots
      /\ ring \in Seq(Slot) /\ Len(ring) \in Nat /\ Slots \subseteq Nat
  BY RingTypes DEF LoopInv, Loops, Take
<1>2. CASE InState("ready") = {}
  <2>1. ring' = ring /\ epc' = "test"
    BY <1>2 DEF Take, EngineGoto
  <2>2. Slots' = Slots /\ Running' = Running
    BY <2>1 DEF Slots, Running, InState
  <2>3. TypeOK'
    BY <1>1, <2>1 DEF TypeOK
  <2> QED
    BY <1>1, <2>1, <2>2, <2>3 DEF LoopInv, Ordered, Nested, Loops, Signalling
<1>3. CASE InState("ready") # {}
  <2>1. epc' = "call" /\ ring' = [ring EXCEPT ![FirstReady].state = "running"]
    BY <1>3 DEF Take, EngineGoto
  <2>2. /\ ring' \in Seq(Slot) /\ Len(ring') = Len(ring) /\ Slots' = Slots
        /\ FirstReady \in Slots /\ ring[FirstReady].state = "ready"
        /\ ring'[FirstReady].state = "running"
        /\ \A i \in Slots \ {FirstReady} : ring'[i] = ring[i]
        /\ Running' = Running \cup {FirstReady} /\ FirstReady \notin Running
        /\ \A i \in Running : i < FirstReady
    BY <1>1, <1>3, <2>1, TakesNext
  <2>3. Len(ring') <= Capacity
    BY <1>1, <2>2 DEF TypeOK
  <2>4. TypeOK'
    BY <1>1, <2>1, <2>2, <2>3 DEF TypeOK, Slot
  <2>5. \A j \in Slots : ring[j].state = "ready" => FirstReady <= j
    BY <1>1, <1>3, FirstIsReady DEF InState, Slots
  <2>6. Ordered'
    <3> SUFFICES ASSUME NEW i \in Slots, NEW j \in Slots, i < j, ring'[i].state = "ready"
                 PROVE  ring'[j].state = "ready"
      BY <2>2 DEF Ordered
    <3>1. i # FirstReady /\ ring[i].state = "ready" /\ FirstReady <= i
      BY <2>2, <2>5
    <3>2. j # FirstReady /\ ring[j].state = "ready"
      BY <1>1, <2>2, <3>1 DEF Ordered
    <3> QED
      BY <2>2, <3>2
  <2>7. Nested'
    <3> SUFFICES ASSUME NEW i \in Running', NEW j \in Running', i < j
                 PROVE  ring'[i].job.kind = "nested"
      BY DEF Nested
    <3>1. i # FirstReady
      BY <1>1, <2>2
    <3> QED
      BY <1>1, <2>2, <3>1
  <2>8. Cardinality(Running') = depth + 1
    BY <1>1, <2>2, FS_AddElement
  <2>9. Loops'
    BY <1>1, <2>1, <2>8 DEF Loops
  <2> QED
    BY <2>1, <2>4, <2>6, <2>7, <2>9 DEF LoopInv, Signalling
<1> QED
  BY <1>2, <1>3

\* Running a function leaves it in its slot until it returns.
LEMMA CallKeepsLoops ==
  ASSUME LoopInv, Call
  PROVE  LoopInv'
<1>1. /\ TypeOK /\ epc = "call" /\ Cardinality(Running) = depth + 1
      /\ UNCHANGED <<handle, ring, pc, next, calls, depth>> /\ ring[Current].job \in Job
  BY RunsOne DEF LoopInv, Loops, Call
<1>2. Slots' = Slots /\ Running' = Running /\ Current' = Current
  BY <1>1 DEF Slots, Running, InState, Current
<1>3. running' \in BOOLEAN /\ epc' \in {"allocate", "finish"}
  BY <1>1 DEF Call, EngineGoto, TypeOK
<1>4. blocked' \in [Signallers -> BOOLEAN]
  <2>1. CASE ring[Current].job.kind = "unblock"
    BY <1>1, <2>1 DEF Call, Job, TypeOK
  <2>2. CASE ring[Current].job.kind = "nested" /\ running /\ depth < MaxDepth
    <3>1. blocked' = [blocked EXCEPT ![depth + 1] = TRUE]
      BY <2>2 DEF Call
    <3> QED
      BY <1>1, <3>1 DEF TypeOK
  <2>3. CASE ~(ring[Current].job.kind = "nested" /\ running /\ depth < MaxDepth)
             /\ ring[Current].job.kind # "unblock"
    BY <1>1, <2>3 DEF Call, TypeOK
  <2> QED
    BY <2>1, <2>2, <2>3
<1>5. TypeOK'
  BY <1>1, <1>3, <1>4 DEF TypeOK
<1>6. Signalling'
  <2> SUFFICES ASSUME epc' = "allocate"
               PROVE  LET job == ring[Current].job
                      IN  \/ job.kind = "repeat" /\ job.left > 0
                          \/ job.kind = "nested" /\ depth < MaxDepth
    BY <1>1, <1>2 DEF Signalling
  <2> QED
    BY DEF Call, EngineGoto
<1>7. Loops'
  BY <1>1, <1>2, <1>3 DEF Loops
<1> QED
  BY <1>1, <1>2, <1>5, <1>6, <1>7 DEF LoopInv, Ordered, Nested
\* The function that signals goes on when it is a repeat function; otherwise a
\* nested loop begins, or the thread waits for itself.
LEMMA SignalFromEngineKeepsLoops ==
  ASSUME LoopInv, SignalFromEngine
  PROVE  /\ LoopInv'
         /\ \E job \in Job : /\ Put(job)
                             /\ \/ job.kind = "repeat" /\ job.by = 0
                                \/ job.kind = "unblock" /\ job.by \in 0 .. MaxDepth
<1>1. /\ TypeOK /\ epc = "allocate" /\ HasSpace /\ Cardinality(Running) = depth + 1
      /\ UNCHANGED <<running, handle, blocked, pc, next, calls>>
      /\ depth \in Nat /\ MaxDepth \in Nat /\ Running \subseteq Slots
  BY RingTypes DEF LoopInv, Loops, SignalFromEngine
<1>2. /\ Current \in Slots /\ ring[Current].job \in Job
      /\ \A j \in Running : j # Current => ring[j].job.kind = "nested"
  BY <1>1, RunsOne DEF LoopInv
<1>3. PICK cur \in Job : cur = ring[Current].job
  BY <1>2
<1>4. \/ cur.kind = "repeat" /\ cur.left > 0
      \/ cur.kind = "nested" /\ depth < MaxDepth
  BY <1>1, <1>3 DEF LoopInv, Signalling
<1>5. \E job \in Job : /\ Put(job)
                       /\ \/ job.kind = "repeat" /\ job.by = 0
                          \/ job.kind = "unblock" /\ job.by \in 0 .. MaxDepth
  <2>1. CASE cur.kind = "repeat"
    <3>1. PICK job : job = [cur EXCEPT !.left = @ - 1, !.by = 0]
      OBVIOUS
    <3>2. cur.left \in 0 .. MaxRepeats /\ cur.left > 0 /\ MaxRepeats \in Nat
      BY <1>4, <2>1, EngineAssumption DEF Job
    <3>3. cur.left - 1 \in 0 .. MaxRepeats /\ 0 \in 0 .. MaxDepth
      BY <1>1, <3>2
    <3>4. job = [kind |-> "repeat", by |-> 0, left |-> cur.left - 1]
      BY <2>1, <3>1 DEF Job
    <3>5. job \in Job /\ job.kind = "repeat" /\ job.by = 0
      BY <3>3, <3>4 DEF Job, Signallers
    <3> QED
      BY <1>3, <2>1, <3>1, <3>5 DEF SignalFromEngine
  <2>2. CASE cur.kind # "repeat"
    <3>1. depth + 1 \in 0 .. MaxDepth /\ 0 \in 0 .. MaxRepeats
      BY <1>1, <1>4, <2>2, EngineAssumption
    <3>2. [kind |-> "unblock", by |-> depth + 1, left |-> 0] \in Job
      BY <3>1 DEF Job, Signallers
    <3> QED
      BY <1>3, <2>2, <3>1, <3>2 DEF SignalFromEngine
  <2> QED
    BY <2>1, <2>2
<1>6. PICK job \in Job : Put(job)
  BY <1>5
<1>7. /\ ring' \in Seq(Slot) /\ Len(ring') <= Capacity
      /\ \A i \in Slots : ring'[i] = ring[i]
      /\ Running' = Running
  BY <1>1, <1>6, PutAdds
<1>8. \/ epc' \in {"finish", "spin"} /\ depth' = depth
      \/ epc' = "test" /\ depth' = depth + 1 /\ cur.kind = "nested"
  BY <1>3, <1>4 DEF SignalFromEngine, EngineGoto
<1>9. depth' \in 0 .. MaxDepth
  BY <1>1, <1>4, <1>8 DEF TypeOK
<1>10. TypeOK'
  BY <1>1, <1>7, <1>8, <1>9 DEF TypeOK, Slot
<1>11. Loops'
  <2>1. CASE epc' \in {"finish", "spin"} /\ depth' = depth
    BY <1>1, <1>7, <2>1 DEF Loops
  <2>2. CASE epc' = "test" /\ depth' = depth + 1 /\ cur.kind = "nested"
    <3>1. \A i \in Running : ring[i].job.kind = "nested"
      BY <1>2, <1>3, <2>2
    <3>2. \A i \in Running : ring'[i].job.kind = "nested"
      BY <1>1, <1>7, <3>1
    <3>3. Cardinality(Running') = depth'
      BY <1>1, <1>7, <2>2
    <3> QED
      BY <1>7, <2>2, <3>2, <3>3 DEF Loops
  <2> QED
    BY <1>8, <2>1, <2>2
<1>12. Ordered' /\ Nested'
  BY <1>1, <1>6, PutKeepsOrder
<1>13. Signalling'
  BY <1>8 DEF Signalling
<1> QED
  BY <1>5, <1>10, <1>11, <1>12, <1>13 DEF LoopInv

\* A function that has returned leaves those that wait for it.
LEMMA FinishKeepsLoops ==
  ASSUME LoopInv, Finish
  PROVE  LoopInv' /\ \E k \in Nat : FreesSlots(k)
<1>1. /\ TypeOK /\ epc = "finish" /\ Cardinality(Running) = depth + 1 /\ depth \in Nat
      /\ UNCHANGED <<running, handle, blocked, pc, next, calls, depth>>
      /\ epc' = "test" /\ ring' = Freed(ring)
  BY RingTypes DEF LoopInv, Loops, Finish, EngineGoto
<1>2. /\ Running # {} /\ Running \subseteq Slots /\ Slots \subseteq Nat
      /\ \A j \in Running : j # Current => ring[j].job.kind = "nested"
  BY <1>1, RunsOne, RingTypes DEF LoopInv
<1>3. /\ ring' \in Seq(Slot) /\ Len(ring') <= Capacity
      /\ Cardinality(Running') = Cardinality(Running) - 1
  BY <1>1, <1>2, FinishFrees
<1>4. PICK k \in Nat : FreesSlots(k)
  BY <1>1, <1>2, FinishFrees
<1>5. TypeOK'
  BY <1>1, <1>3 DEF TypeOK, Slot
<1>6. \A i \in Running' : /\ i + k \in Running /\ i + k # Current
                          /\ ring'[i].job = ring[i + k].job
  BY <1>4 DEF FreesSlots, Running, InState, Slots
<1>7. \A i \in Running' : ring'[i].job.kind = "nested"
  BY <1>2, <1>6
<1>8. Loops'
  <2>1. Cardinality(Running') = depth
    BY <1>1, <1>3
  <2> QED
    BY <1>1, <1>7, <2>1 DEF Loops
<1>9. Ordered'
  <2> SUFFICES ASSUME NEW i \in Slots', NEW j \in Slots', i < j, ring'[i].state = "ready"
               PROVE  ring'[j].state = "ready"
    BY DEF Ordered
  <2>1. /\ i + k \in Slots /\ j + k \in Slots /\ i \in Nat /\ j \in Nat
        /\ ring[i + k].state = "ready"
    BY <1>4 DEF FreesSlots, Slots
  <2>2. i + k < j + k
    BY <2>1
  <2>3. ring[j + k].state = "ready"
    BY <2>1, <2>2 DEF LoopInv, Ordered
  <2>4. Current \in Running
    BY RunsOne, <1>1
  <2>5. j + k # Current
    BY <2>3, <2>4 DEF Running, InState
  <2> QED
    BY <1>4, <2>3, <2>5 DEF FreesSlots
<1>10. Nested'
  BY <1>7 DEF Nested
<1> QED
  BY <1>1, <1>4, <1>5, <1>8, <1>9, <1>10 DEF LoopInv, Signalling

\* Every step keeps the loops.
LEMMA LoopsKept ==
  ASSUME LoopInv, Owning, [Next]_vars
  PROVE  LoopInv'
<1>1. CASE \E c \in Clients : ClientCall(c)
  BY <1>1, ClientCallKeepsLoops
<1>2. CASE \E c \in Clients : ClientStep(c)
  BY <1>2, ClientStepKeepsLoops
<1>3. CASE EngineStep
  BY <1>3, TestFlagKeepsLoops, TakeKeepsLoops, CallKeepsLoops,
     SignalFromEngineKeepsLoops, FinishKeepsLoops DEF EngineStep
<1>4. CASE UNCHANGED vars
  <2>1. TypeOK' /\ UNCHANGED <<ring, epc, depth>>
    BY <1>4 DEF vars, LoopInv, TypeOK
  <2> QED
    BY <2>1, LoopsAside
<1> QED
  BY <1>1, <1>2, <1>3, <1>4 DEF Next
-----------------------------------------------------------------------------
(* What the clients signal. *)

ClientInv == BlockIsBarrier /\ Blocking /\ Owning /\ Ending

\* A step that leaves the ring, and begins or ends no call.
LEMMA SlotsAside ==
  ASSUME UNCHANGED ring, epc' = "call" <=> epc = "call"
  PROVE  /\ Slots' = Slots /\ Stops' = Stops
         /\ \A c \in Clients : Unfinished(c)' = Unfinished(c) /\ Unblocks(c)' = Unblocks(c)
<1>1. Slots' = Slots /\ \A i : ToCall(i)' = ToCall(i)
  BY DEF Slots, ToCall
<1> QED
  BY <1>1 DEF Slots, Stops, Unfinished, Unblocks

\* Signalling begins with a function of the caller's own, or drops it.
LEMMA SignalKeeps ==
  ASSUME TypeOK, ClientInv, NEW c \in Clients, Signal(c)
  PROVE  ClientInv'
<1>1. /\ pc[c] = "idle" /\ ~Stopping /\ pc[Owner] # "gone"
      /\ UNCHANGED <<running, handle, ring, blocked, epc, depth>>
  BY DEF Signal, Free, Stopping
<1>2. PICK l \in {"allocate", "idle"} : Goto(c, l) /\ (l = "allocate" => running)
  BY DEF Signal
<1>3. pc' \in [Clients -> Places] /\ pc'[c] = l /\ \A d \in Clients : d # c => pc'[d] = pc[d]
  BY <1>2, GotoTypes DEF Places
<1>4. /\ next'[c].by = c /\ next'[c].kind \notin {"unblock", "stop"}
      /\ \A d \in Clients : d # c => next'[d] = next[d]
  <2>1. PICK k \in Kinds :
          next' = [next EXCEPT ![c] =
                    [kind |-> k, by |-> c, left |-> IF k = "repeat" THEN MaxRepeats ELSE 0]]
    BY DEF Signal
  <2>2. next \in [Clients -> Job] /\ k \notin {"unblock", "stop"}
    BY EngineAssumption DEF TypeOK
  <2> QED
    BY <2>1, <2>2
<1>5. /\ Slots' = Slots /\ Stops' = Stops
      /\ \A d \in Clients : Unfinished(d)' = Unfinished(d) /\ Unblocks(d)' = Unblocks(d)
  BY <1>1, SlotsAside
<1>6. Owner \in Clients /\ ~Stopping'
  BY <1>1, <1>4, EngineAssumption DEF Stopping
<1>7. BlockIsBarrier'
  BY <1>1, <1>2, <1>3, <1>5 DEF ClientInv, BlockIsBarrier
<1>8. Blocking'
  BY <1>1, <1>2, <1>3, <1>4, <1>5 DEF ClientInv, Blocking
<1>9. Owning'
  BY <1>1, <1>2, <1>3, <1>4, <1>6 DEF ClientInv, Owning
<1>10. Ending'
  <2>1. Stops = {} /\ pc'[Owner] \notin {"join", "gone"}
    BY <1>1, <1>2, <1>3, <1>6 DEF ClientInv, Ending
  <2> QED
    BY <1>5, <1>6, <2>1 DEF Ending
<1> QED
  BY <1>7, <1>8, <1>9, <1>10 DEF ClientInv

\* signal_block() raises its flag before its function is in the ring.
LEMMA SignalBlockKeeps ==
  ASSUME TypeOK, ClientInv, NEW c \in Clients, SignalBlock(c)
  PROVE  ClientInv'
<1>1. /\ pc[c] = "idle" /\ ~Stopping /\ pc[Owner] # "gone" /\ running
      /\ UNCHANGED <<running, handle, ring, epc, depth>>
  BY DEF SignalBlock, Free, Stopping
<1>2. Goto(c, "allocate")
  BY DEF SignalBlock
<1>3. /\ pc' \in [Clients -> Places] /\ pc'[c] = "allocate"
      /\ \A d \in Clients : d # c => pc'[d] = pc[d]
  BY <1>2, GotoTypes DEF Places
<1>4. /\ next'[c].by = c /\ next'[c].kind = "unblock"
      /\ \A d \in Clients : d # c => next'[d] = next[d]
  BY DEF SignalBlock, TypeOK
<1>5. blocked'[c] /\ \A d \in Clients : d # c => blocked'[d] = blocked[d]
  <2>1. Clients \subseteq Signallers
    BY DEF Signallers
  <2> QED
    BY <2>1 DEF SignalBlock, TypeOK
<1>6. /\ Slots' = Slots /\ Stops' = Stops
      /\ \A d \in Clients : Unfinished(d)' = Unfinished(d) /\ Unblocks(d)' = Unblocks(d)
  BY <1>1, SlotsAside
<1>7. Owner \in Clients /\ ~Stopping'
  BY <1>1, <1>4, EngineAssumption DEF Stopping
<1>8. BlockIsBarrier'
  BY <1>1, <1>3, <1>5, <1>6 DEF ClientInv, BlockIsBarrier
<1>9. Blocking'
  BY <1>1, <1>3, <1>4, <1>5, <1>6 DEF ClientInv, Blocking
<1>10. Owning'
  BY <1>1, <1>3, <1>4, <1>7 DEF ClientInv, Owning
<1>11. Ending'
  <2>1. Stops = {} /\ pc'[Owner] \notin {"join", "gone"}
    BY <1>1, <1>3, <1>7 DEF ClientInv, Ending
  <2> QED
    BY <1>6, <1>7, <2>1 DEF Ending
<1> QED
  BY <1>8, <1>9, <1>10, <1>11 DEF ClientInv

\* The engine is started once, before anything is in the ring.
LEMMA EnsureRunningKeeps ==
  ASSUME TypeOK, ClientInv, NEW c \in Clients, EnsureRunning(c)
  PROVE  ClientInv'
<1>1. /\ c = Owner /\ pc[c] = "idle" /\ ~Stopping /\ ~running /\ running'
      /\ UNCHANGED <<handle, ring, blocked, next, epc, depth>>
  BY DEF EnsureRunning, Free, Stopping
<1>2. Goto(c, "spawn")
  BY DEF EnsureRunning
<1>3. /\ pc' \in [Clients -> Places] /\ pc'[c] = "spawn"
      /\ \A d \in Clients : d # c => pc'[d] = pc[d]
  BY <1>2, GotoTypes DEF Places
<1>4. /\ Slots' = Slots /\ Stops' = Stops
      /\ \A d \in Clients : Unfinished(d)' = Unfinished(d) /\ Unblocks(d)' = Unblocks(d)
  BY <1>1, SlotsAside
<1>5. ~Stopping' /\ epc = "unborn"
  BY <1>1 DEF Stopping, ClientInv, Owning
<1>6. BlockIsBarrier'
  BY <1>1, <1>3, <1>4 DEF ClientInv, BlockIsBarrier
<1>7. Blocking'
  BY <1>1, <1>3, <1>4 DEF ClientInv, Blocking
<1>8. Owning'
  BY <1>1, <1>3, <1>5 DEF ClientInv, Owning
<1>9. Ending'
  <2>1. Stops = {}
    BY <1>1 DEF ClientInv, Ending
  <2> QED
    BY <1>1, <1>3, <1>4, <1>5, <2>1 DEF Ending
<1> QED
  BY <1>6, <1>7, <1>8, <1>9 DEF ClientInv

\* The destructor finds every client idle: an engine that was started is told to
\* stop, and one that never was has nothing in its ring.
LEMMA DestroyKeeps ==
  ASSUME TypeOK, ClientInv, NEW c \in Clients, Destroy(c)
  PROVE  ClientInv'
<1>1. /\ c = Owner /\ Owner \in Clients /\ \A d \in Clients : pc[d] = "idle"
      /\ ~Stopping /\ UNCHANGED <<running, handle, ring, blocked, epc, depth>>
  BY EngineAssumption DEF Destroy, Free, Stopping
<1>2. PICK l \in {"allocate", "gone"} : Goto(c, l) /\ (l = "allocate" <=> running)
  BY DEF Destroy
<1>3. pc' \in [Clients -> Places] /\ pc'[c] = l /\ \A d \in Clients : d # c => pc'[d] = "idle"
  BY <1>1, <1>2, GotoTypes DEF Places
<1>4. /\ \A d \in Clients : d # c => next'[d] = next[d]
      /\ running => next'[c].by = c /\ next'[c].kind = "stop"
      /\ ~running => next' = next
  BY <1>1 DEF Destroy, TypeOK
<1>5. /\ Slots' = Slots /\ Stops' = Stops
      /\ \A d \in Clients : Unfinished(d)' = Unfinished(d) /\ Unblocks(d)' = Unblocks(d)
  BY <1>1, SlotsAside
<1>6. Stopping' <=> running
  BY <1>1, <1>4 DEF Stopping
<1>7. Stops = {} /\ \A d \in Clients : Unblocks(d) = {}
  BY <1>1 DEF ClientInv, Ending, Blocking
<1>8. ~running => ring = <<>> /\ epc = "unborn"
  BY <1>1 DEF ClientInv, Owning
<1>9. BlockIsBarrier'
  BY <1>1, <1>2, <1>3, <1>5 DEF BlockIsBarrier
<1>10. Blocking'
  BY <1>1, <1>2, <1>3, <1>4, <1>5, <1>7 DEF Blocking
<1>11. Owning'
  BY <1>1, <1>2, <1>3, <1>4, <1>6, <1>8 DEF ClientInv, Owning
<1>12. Ending'
  <2>1. ~running => \A d \in Clients : Unfinished(d) = {}
    BY <1>8 DEF Unfinished
  <2>2. pc'[Owner] = "gone" => epc' \in {"unborn", "exited"} /\ NothingDropped'
    BY <1>1, <1>2, <1>3, <1>5, <1>8, <2>1 DEF NothingDropped
  <2> QED
    BY <1>1, <1>2, <1>3, <1>5, <1>6, <1>7, <2>2 DEF Ending
<1> QED
  BY <1>9, <1>10, <1>11, <1>12 DEF ClientInv
\* The thread begins with nothing taken.
LEMMA SpawnThreadKeeps ==
  ASSUME TypeOK, ClientInv, NEW c \in Clients, SpawnThread(c)
  PROVE  ClientInv'
<1>1. /\ c = Owner /\ Owner \in Clients /\ pc[c] = "spawn" /\ epc = "unborn" /\ epc' = "test"
      /\ running /\ UNCHANGED <<running, handle, ring, blocked, next, depth>>
  BY EngineAssumption DEF SpawnThread, ClientInv, Owning
<1>2. /\ pc' \in [Clients -> Places] /\ pc'[c] = "assign"
      /\ \A d \in Clients : d # c => pc'[d] = pc[d]
  BY GotoTypes DEF SpawnThread, Places
<1>3. /\ Slots' = Slots /\ Stops' = Stops
      /\ \A d \in Clients : Unfinished(d)' = Unfinished(d) /\ Unblocks(d)' = Unblocks(d)
  BY <1>1, SlotsAside
<1>4. ~Stopping /\ Stopping' = Stopping
  BY <1>1 DEF ClientInv, Ending, Stopping
<1>5. BlockIsBarrier'
  BY <1>1, <1>2, <1>3 DEF ClientInv, BlockIsBarrier
<1>6. Blocking'
  BY <1>1, <1>2, <1>3 DEF ClientInv, Blocking
<1>7. Owning'
  BY <1>1, <1>2, <1>4 DEF ClientInv, Owning
<1>8. Ending'
  <2>1. Stops = {}
    BY <1>4 DEF ClientInv, Ending
  <2> QED
    BY <1>1, <1>2, <1>3, <1>4, <2>1 DEF Ending
<1> QED
  BY <1>5, <1>6, <1>7, <1>8 DEF ClientInv

\* The thread is known from here on.
LEMMA AssignHandleKeeps ==
  ASSUME TypeOK, ClientInv, NEW c \in Clients, AssignHandle(c)
  PROVE  ClientInv'
<1>1. /\ c = Owner /\ Owner \in Clients /\ pc[c] = "assign" /\ running
      /\ UNCHANGED <<running, ring, blocked, next, epc, depth>>
  BY EngineAssumption DEF AssignHandle, ClientInv, Owning
<1>2. /\ pc' \in [Clients -> Places] /\ pc'[c] = "idle"
      /\ \A d \in Clients : d # c => pc'[d] = pc[d]
  BY GotoTypes DEF AssignHandle, Places
<1>3. /\ Slots' = Slots /\ Stops' = Stops
      /\ \A d \in Clients : Unfinished(d)' = Unfinished(d) /\ Unblocks(d)' = Unblocks(d)
  BY <1>1, SlotsAside
<1>4. ~Stopping /\ Stopping' = Stopping
  BY <1>1 DEF ClientInv, Ending, Stopping
<1>5. BlockIsBarrier'
  BY <1>1, <1>2, <1>3 DEF ClientInv, BlockIsBarrier
<1>6. Blocking'
  BY <1>1, <1>2, <1>3 DEF ClientInv, Blocking
<1>7. Owning'
  BY <1>1, <1>2, <1>4 DEF ClientInv, Owning
<1>8. Ending'
  <2>1. Stops = {}
    BY <1>4 DEF ClientInv, Ending
  <2> QED
    BY <1>1, <1>2, <1>3, <1>4, <2>1 DEF Ending
<1> QED
  BY <1>5, <1>6, <1>7, <1>8 DEF ClientInv

\* signal_block() returns.
LEMMA WaitUnblockedKeeps ==
  ASSUME TypeOK, ClientInv, NEW c \in Clients, WaitUnblocked(c)
  PROVE  ClientInv'
<1>1. /\ pc[c] = "wait" /\ ~blocked[c] /\ Owner \in Clients
      /\ UNCHANGED <<running, handle, ring, blocked, next, epc, depth>>
  BY EngineAssumption DEF WaitUnblocked
<1>2. /\ pc' \in [Clients -> Places] /\ pc'[c] = "idle"
      /\ \A d \in Clients : d # c => pc'[d] = pc[d]
  BY GotoTypes DEF WaitUnblocked, Places
<1>3. /\ Slots' = Slots /\ Stops' = Stops
      /\ \A d \in Clients : Unfinished(d)' = Unfinished(d) /\ Unblocks(d)' = Unblocks(d)
  BY <1>1, SlotsAside
<1>4. Stopping' = Stopping
  BY <1>1 DEF Stopping
<1>5. BlockIsBarrier'
  BY <1>1, <1>2, <1>3 DEF ClientInv, BlockIsBarrier
<1>6. Blocking'
  BY <1>1, <1>2, <1>3 DEF ClientInv, Blocking
<1>7. Owning'
  BY <1>1, <1>2, <1>4 DEF ClientInv, Owning
<1>8. Ending'
  <2>1. c # Owner => pc'[Owner] = pc[Owner]
    BY <1>1, <1>2
  <2>2. c = Owner => ~Stopping /\ Stops = {}
    BY <1>1 DEF ClientInv, Ending
  <2>3. \A i \in Stops : c # Owner
    BY <2>2
  <2>4. NothingDropped' <=> (pc'[Owner] = "gone" => \A d \in Clients : Unfinished(d) = {})
    BY <1>3 DEF NothingDropped
  <2> QED
    BY <1>1, <1>2, <1>3, <1>4, <2>1, <2>2, <2>3, <2>4 DEF ClientInv, Ending, NothingDropped
<1> QED
  BY <1>5, <1>6, <1>7, <1>8 DEF ClientInv

\* The engine thread ends when nothing is running, and has then run all there was.
LEMMA JoinKeeps ==
  ASSUME LoopInv, ClientInv, NEW c \in Clients, Join(c)
  PROVE  ClientInv'
<1>1. /\ c = Owner /\ Owner \in Clients /\ pc[c] = "join" /\ epc = "exited" /\ ~running
      /\ Stopping /\ TypeOK /\ UNCHANGED <<running, handle, ring, blocked, next, epc, depth>>
  BY EngineAssumption DEF Join, ClientInv, Owning, Ending, LoopInv
<1>2. /\ pc' \in [Clients -> Places] /\ pc'[c] = "gone"
      /\ \A d \in Clients : d # c => pc'[d] = pc[d]
  BY <1>1, GotoTypes DEF Join, Places
<1>3. /\ Slots' = Slots /\ Stops' = Stops
      /\ \A d \in Clients : Unfinished(d)' = Unfinished(d) /\ Unblocks(d)' = Unblocks(d)
  BY <1>1, SlotsAside
<1>4. Stopping'
  BY <1>1 DEF Stopping
<1>5. \A d \in Clients : Unfinished(d) = {}
  <2>1. Running = {}
    BY <1>1 DEF LoopInv, Loops
  <2>2. \A d \in Clients : \A i \in Unfinished(d) : i \in Slots /\ ring[i].state = "running"
    BY <1>1 DEF ClientInv, Ending, Unfinished, Slots
  <2> QED
    BY <2>1, <2>2 DEF Running, InState, Slots
<1>6. Stops = {}
  <2>1. \A i \in Stops : i \in Unfinished(Owner)
    BY <1>1 DEF ClientInv, Ending, Stops, ToCall, Unfinished, Slots
  <2> QED
    BY <1>1, <1>5, <2>1
<1>7. BlockIsBarrier'
  BY <1>1, <1>2, <1>3 DEF ClientInv, BlockIsBarrier
<1>8. Blocking'
  BY <1>1, <1>2, <1>3 DEF ClientInv, Blocking
<1>9. Owning'
  BY <1>1, <1>2, <1>4 DEF ClientInv, Owning
<1>10. Ending'
  BY <1>1, <1>2, <1>3, <1>4, <1>5, <1>6 DEF ClientInv, Ending, NothingDropped
<1> QED
  BY <1>7, <1>8, <1>9, <1>10 DEF ClientInv
\* What a function put into the ring adds to.
LEMMA PutSlots ==
  ASSUME TypeOK, HasSpace, NEW f \in Job, Put(f), epc' = "call" <=> epc = "call",
         NEW n, n = Len(ring) + 1
  PROVE  /\ \A d \in Clients :
              /\ Unfinished(d)' = Unfinished(d)
                                    \cup {i \in {n} : f.by = d /\ f.kind # "unblock"}
              /\ Unblocks(d)' = Unblocks(d) \cup {i \in {n} : f.kind = "unblock" /\ f.by = d}
              /\ Unfinished(d) \subseteq Slots
         /\ Stops' = Stops \cup {i \in {n} : f.kind = "stop"}
         /\ n \in Nat /\ \A i \in Slots : i \in Nat /\ i < n /\ ring'[i] = ring[i]
<1>1. /\ Slots' = Slots \cup {n} /\ n \notin Slots
      /\ \A i \in Slots : ring'[i] = ring[i]
      /\ ring'[n] = [job |-> f, state |-> "ready"]
  BY PutAdds
<1>2. n \in Nat /\ \A i \in Slots : i \in Nat /\ i < n
  BY RingTypes DEF Slots
<1>3. ring'[n].job = f /\ ring'[n].state = "ready"
  BY <1>1
<1>4. ToCall(n)' /\ \A i \in Slots : ToCall(i)' <=> ToCall(i)
  BY <1>1, <1>3 DEF ToCall
<1>5. Stops' = Stops \cup {i \in {n} : f.kind = "stop"}
  BY <1>1, <1>3, <1>4 DEF Stops
<1>6. ASSUME NEW d \in Clients
      PROVE  /\ Unfinished(d)' = Unfinished(d)
                                    \cup {i \in {n} : f.by = d /\ f.kind # "unblock"}
             /\ Unblocks(d)' = Unblocks(d) \cup {i \in {n} : f.kind = "unblock" /\ f.by = d}
             /\ Unfinished(d) \subseteq Slots
  <2>1. Unfinished(d)' = {i \in Slots' : /\ ring'[i].job.by = d
                                         /\ ring'[i].job.kind # "unblock"
                                         /\ ring'[i].state # "done"}
    BY DEF Unfinished, Slots
  <2>2. Unfinished(d) = {i \in Slots : /\ ring[i].job.by = d
                                       /\ ring[i].job.kind # "unblock"
                                       /\ ring[i].state # "done"}
    BY DEF Unfinished, Slots
  <2>3. Unfinished(d)' = Unfinished(d) \cup {i \in {n} : f.by = d /\ f.kind # "unblock"}
    BY <1>1, <1>3, <2>1, <2>2
  <2>4. Unblocks(d)' = Unblocks(d) \cup {i \in {n} : f.kind = "unblock" /\ f.by = d}
    BY <1>1, <1>3, <1>4 DEF Unblocks
  <2> QED
    BY <2>2, <2>3, <2>4
<1> QED
  BY <1>1, <1>2, <1>5, <1>6

\* A client's function goes behind all that it signalled before.
LEMMA AllocateKeeps ==
  ASSUME TypeOK, ClientInv, NEW c \in Clients, Allocate(c)
  PROVE  ClientInv'
<1>1. /\ pc[c] = "allocate" /\ HasSpace /\ Put(next[c]) /\ next[c] \in Job
      /\ next[c].by = c /\ (next[c].kind = "unblock" => blocked[c]) /\ running
      /\ Owner \in Clients /\ UNCHANGED <<running, handle, blocked, next, epc, depth>>
  BY EngineAssumption DEF Allocate, ClientInv, Blocking, Owning, TypeOK
<1>2. PICK f \in Job : f = next[c]
  BY <1>1
<1>3. PICK n : n = Len(ring) + 1
  OBVIOUS
<1>4. PICK l \in {"wait", "join", "idle"} : /\ Goto(c, l)
                                            /\ l = "wait" <=> f.kind = "unblock"
                                            /\ l = "join" <=> f.kind = "stop"
  BY <1>2 DEF Allocate
<1>5. /\ pc' \in [Clients -> Places] /\ pc'[c] = l
      /\ \A d \in Clients : d # c => pc'[d] = pc[d]
  BY <1>4, GotoTypes DEF Places
<1>6. /\ \A d \in Clients :
           /\ Unfinished(d)' = Unfinished(d)
                                 \cup {i \in {n} : f.by = d /\ f.kind # "unblock"}
           /\ Unblocks(d)' = Unblocks(d) \cup {i \in {n} : f.kind = "unblock" /\ f.by = d}
           /\ Unfinished(d) \subseteq Slots
      /\ Stops' = Stops \cup {i \in {n} : f.kind = "stop"}
      /\ n \in Nat /\ \A i \in Slots : i \in Nat /\ i < n /\ ring'[i] = ring[i]
  BY <1>1, <1>2, <1>3, PutSlots
<1>7. \A d \in Clients : d # c => Unfinished(d)' = Unfinished(d) /\ Unblocks(d)' = Unblocks(d)
  BY <1>1, <1>2, <1>6
<1>8. Unblocks(c) = {}
  BY <1>1 DEF ClientInv, Blocking
<1>9. Stopping' = Stopping /\ (f.kind = "stop" <=> Stopping /\ c = Owner)
  BY <1>1, <1>2 DEF Stopping, ClientInv, Owning, Ending
<1>10. BlockIsBarrier'
  <2> SUFFICES ASSUME NEW d \in Clients, pc'[d] = "wait", ~blocked[d], NEW i \in Unfinished(d)'
               PROVE  ring'[i].state = "running" /\ ring'[i].job.kind = "nested"
    BY <1>1 DEF BlockIsBarrier
  <2>1. d # c
    BY <1>1, <1>2, <1>4, <1>5
  <2>2. pc[d] = "wait" /\ i \in Unfinished(d) /\ ring'[i] = ring[i]
    BY <1>5, <1>6, <1>7, <2>1
  <2> QED
    BY <2>2 DEF ClientInv, BlockIsBarrier
<1>11. Blocking'
  <2> SUFFICES ASSUME NEW d \in Clients
               PROVE  /\ pc'[d] = "allocate" =>
                           next[d].by = d /\ (next[d].kind = "unblock" => blocked[d])
                      /\ \A i \in Unblocks(d)' :
                           /\ pc'[d] = "wait" /\ blocked[d]
                           /\ \A j \in Unfinished(d)' : j < i
                           /\ \A j \in Unblocks(d)' : j = i
    BY <1>1 DEF Blocking
  <2>1. CASE d # c
    BY <1>5, <1>7, <2>1 DEF ClientInv, Blocking
  <2>2. CASE d = c /\ f.kind = "unblock"
    <3>1. Unblocks(c)' = {n} /\ \A j \in Unfinished(c)' : j < n
      BY <1>1, <1>2, <1>6, <1>8, <2>2
    <3> QED
      BY <1>1, <1>2, <1>4, <1>5, <2>2, <3>1
  <2>3. CASE d = c /\ f.kind # "unblock"
    BY <1>4, <1>5, <1>6, <1>8, <2>3
  <2> QED
    BY <2>1, <2>2, <2>3
<1>12. Owning'
  BY <1>1, <1>2, <1>4, <1>5, <1>9 DEF ClientInv, Owning
<1>13. Ending'
  <2>1. CASE f.kind = "stop"
    <3>1. c = Owner /\ Stopping /\ pc'[Owner] = "join" /\ Stops = {}
      BY <1>1, <1>4, <1>5, <1>9, <2>1 DEF ClientInv, Ending
    <3>2. Stops' = {n} /\ \A d \in Clients : \A j \in Unfinished(d)' : j <= n
      BY <1>6, <2>1, <3>1
    <3>3. ring'[n].job = f
      <4>1. HasSpace /\ Put(f)
        BY <1>1, <1>2
      <4>2. ring'[n] = [job |-> f, state |-> "ready"]
        BY <1>3, <4>1, PutAdds
      <4> QED
        BY <4>2
    <3>4. \A i \in Stops' : /\ Stopping' /\ pc'[Owner] = "join" /\ ring'[i].job.by = Owner
                            /\ \A d \in Clients : \A j \in Unfinished(d)' : j <= i
      BY <1>1, <1>2, <1>9, <3>1, <3>2, <3>3
    <3>5. \A d \in Clients : d # Owner => pc'[d] = "idle"
      BY <1>5, <3>1 DEF ClientInv, Ending
    <3> QED
      BY <1>1, <1>9, <3>1, <3>4, <3>5 DEF Ending
  <2>2. CASE f.kind # "stop"
    <3>1. ~Stopping /\ pc[Owner] # "gone"
      BY <1>1, <1>9, <2>2 DEF ClientInv, Ending
    <3>2. Stops' = {} /\ pc'[Owner] \notin {"join", "gone"}
      BY <1>1, <1>4, <1>5, <1>6, <2>2, <3>1 DEF ClientInv, Ending
    <3> QED
      BY <1>9, <3>1, <3>2 DEF Ending
  <2> QED
    BY <2>1, <2>2
<1> QED
  BY <1>10, <1>11, <1>12, <1>13 DEF ClientInv
\* While the thread runs, the owner has started the engine and not destroyed it.
LEMMA ThreadRuns ==
  ASSUME ClientInv, epc \notin {"unborn", "exited"}
  PROVE  /\ running \/ Stopping
         /\ pc[Owner] \notin {"spawn", "gone"}
  BY DEF ClientInv, Owning, Ending

\* A step of the thread that changes neither the clients nor any slot.
LEMMA ThreadAside ==
  ASSUME ClientInv, epc \notin {"unborn", "exited", "call"}, epc' \notin {"unborn", "call"},
         epc' = "exited" => ~running,
         UNCHANGED <<running, ring, blocked, pc, next>>
  PROVE  ClientInv'
<1>1. /\ Slots' = Slots /\ Stops' = Stops
      /\ \A d \in Clients : Unfinished(d)' = Unfinished(d) /\ Unblocks(d)' = Unblocks(d)
  BY SlotsAside
<1>2. (running \/ Stopping) /\ pc[Owner] \notin {"spawn", "gone"} /\ Stopping' = Stopping
  BY ThreadRuns DEF Stopping
<1>3. BlockIsBarrier'
  BY <1>1 DEF ClientInv, BlockIsBarrier
<1>4. Blocking'
  BY <1>1 DEF ClientInv, Blocking
<1>5. Owning'
  BY <1>2 DEF ClientInv, Owning
<1>6. Ending'
  BY <1>1, <1>2 DEF ClientInv, Ending
<1> QED
  BY <1>3, <1>4, <1>5, <1>6 DEF ClientInv

\* Only an engine that was told to stop ends.
LEMMA TestFlagKeeps ==
  ASSUME ClientInv, TestFlag
  PROVE  ClientInv'
<1>1. /\ epc = "test" /\ epc' \in {"take", "exited", "finish"} /\ (epc' = "exited" => ~running)
      /\ UNCHANGED <<running, ring, blocked, pc, next>>
  BY DEF TestFlag, EngineGoto
<1> QED
  BY <1>1, ThreadAside

\* Taking a slot finishes nothing and calls nothing; what is running already
\* has been called.
LEMMA TakeKeeps ==
  ASSUME LoopInv, ClientInv, Take
  PROVE  ClientInv'
<1>1. /\ TypeOK /\ Ordered /\ epc = "take" /\ UNCHANGED <<running, blocked, pc, next>>
      /\ \A i \in Running : ring[i].job.kind = "nested"
  BY DEF LoopInv, Loops, Take
<1>2. CASE InState("ready") = {}
  <2>1. ring' = ring /\ epc' = "test"
    BY <1>2 DEF Take, EngineGoto
  <2> QED
    BY <1>1, <2>1, ThreadAside
<1>3. CASE InState("ready") # {}
  <2>1. epc' = "call" /\ ring' = [ring EXCEPT ![FirstReady].state = "running"]
    BY <1>3 DEF Take, EngineGoto
  <2>2. /\ Slots' = Slots /\ FirstReady \in Slots /\ ring[FirstReady].state = "ready"
        /\ ring'[FirstReady].state = "running"
        /\ \A i \in Slots : ring'[i].job = ring[i].job
        /\ \A i \in Slots \ {FirstReady} : ring'[i] = ring[i]
    BY <1>1, <1>3, <2>1, TakesNext
  <2>3. \A d \in Clients : Unfinished(d)' = Unfinished(d)
    <3> SUFFICES ASSUME NEW d \in Clients PROVE Unfinished(d)' = Unfinished(d)
      OBVIOUS
    <3>1. \A i \in Slots : ring'[i].state = "done" <=> ring[i].state = "done"
      BY <2>2
    <3> QED
      BY <2>2, <3>1 DEF Unfinished, Slots
  <2>4. \A i \in Slots : ring[i].job.kind \in {"unblock", "stop"} => ToCall(i)' = ToCall(i)
    <3> SUFFICES ASSUME NEW i \in Slots, ring[i].job.kind \in {"unblock", "stop"}
                 PROVE  ToCall(i)' = ToCall(i)
      OBVIOUS
    <3>1. ring[i].state # "running"
      BY <1>1 DEF Running, InState, Slots
    <3>2. CASE i = FirstReady
      BY <2>1, <2>2, <3>2 DEF ToCall
    <3>3. CASE i # FirstReady
      BY <2>2, <3>1, <3>3 DEF ToCall
    <3> QED
      BY <3>2, <3>3
  <2>5. Stops' = Stops /\ \A d \in Clients : Unblocks(d)' = Unblocks(d)
    BY <2>2, <2>4 DEF Stops, Unblocks
  <2>6. \A i \in Stops : i \in Slots
    BY DEF Stops
  <2>7. \A d \in Clients : \A i \in Unfinished(d) : i \in Slots
    BY DEF Unfinished, Slots
  <2>8. (running \/ Stopping) /\ pc[Owner] \notin {"spawn", "gone"} /\ Stopping' = Stopping
    BY <1>1, ThreadRuns DEF Stopping
  <2>9. BlockIsBarrier'
    BY <1>1, <2>2, <2>3, <2>7 DEF ClientInv, BlockIsBarrier
  <2>10. Blocking'
    BY <1>1, <2>3, <2>5 DEF ClientInv, Blocking
  <2>11. Owning'
    BY <1>1, <2>1, <2>8 DEF ClientInv, Owning
  <2>12. Ending'
    BY <1>1, <2>2, <2>3, <2>5, <2>6, <2>7, <2>8 DEF ClientInv, Ending
  <2> QED
    BY <2>9, <2>10, <2>11, <2>12 DEF ClientInv
<1> QED
  BY <1>2, <1>3

\* What ends a signal_block() or the engine is called when nothing its client
\* signalled before it is left to take.
LEMMA CallKeeps ==
  ASSUME LoopInv, ClientInv, Call
  PROVE  ClientInv'
<1>1. /\ TypeOK /\ Ordered /\ epc = "call" /\ epc' \in {"allocate", "finish"}
      /\ UNCHANGED <<handle, ring, pc, next, calls, depth>>
      /\ Clients \subseteq Signallers /\ Clients \cap (0 .. MaxDepth) = {} /\ Owner \in Clients
  BY EngineAssumption DEF LoopInv, Call, EngineGoto, Signallers
<1>2. /\ Current \in Slots /\ ring[Current].job \in Job /\ ring[Current].state = "running"
      /\ \A j \in Running : j # Current => ring[j].job.kind = "nested"
  BY <1>1, RunsOne DEF Running, InState
<1>3. /\ Slots \subseteq Nat /\ depth \in Nat
      /\ \A i \in Slots : ring[i].state \in {"ready", "running", "done"}
  BY <1>1, RingTypes
<1>4. Slots' = Slots /\ \A d \in Clients : Unfinished(d)' = Unfinished(d)
  BY <1>1 DEF Slots, Unfinished
<1>5. /\ Stops' \subseteq Stops /\ Current \notin Stops'
      /\ \A d \in Clients : Unblocks(d)' \subseteq Unblocks(d) /\ Current \notin Unblocks(d)'
  <2>1. \A i \in Slots : ToCall(i)' => ToCall(i) /\ i # Current
    BY <1>1, <1>2 DEF ToCall
  <2> QED
    BY <1>1, <1>4, <2>1 DEF Stops, Unblocks
<1>6. \A d \in Clients : \A j \in Unfinished(d) :
        j \in Slots /\ (j < Current => ring[j].state = "running" /\ ring[j].job.kind = "nested")
  <2> SUFFICES ASSUME NEW d \in Clients, NEW j \in Unfinished(d)
               PROVE  /\ j \in Slots
                      /\ j < Current => ring[j].state = "running" /\ ring[j].job.kind = "nested"
    OBVIOUS
  <2>1. j \in Slots /\ ring[j].state # "done"
    BY DEF Unfinished, Slots
  <2>2. SUFFICES ASSUME j < Current
                 PROVE  ring[j].state = "running" /\ ring[j].job.kind = "nested"
    BY <2>1
  <2>3. ring[j].state # "ready"
    BY <1>1, <1>2, <2>1, <2>2 DEF Ordered
  <2>4. ring[j].state = "running"
    BY <1>3, <2>1, <2>3
  <2>5. j \in Running /\ j # Current
    BY <1>2, <1>3, <2>1, <2>2, <2>4 DEF Running, InState, Slots
  <2> QED
    BY <1>2, <2>4, <2>5
<1>7. (running \/ Stopping) /\ pc[Owner] \notin {"spawn", "gone"} /\ Stopping' = Stopping
  BY <1>1, ThreadRuns DEF Stopping
<1>8. CASE ring[Current].job.kind = "unblock"
  <2>1. PICK s \in Signallers : s = ring[Current].job.by
    BY <1>2 DEF Job
  <2>2. running' = running /\ blocked' = [blocked EXCEPT ![s] = FALSE]
    BY <1>8, <2>1 DEF Call
  <2>3. ~blocked'[s] /\ \A d \in Clients : d # s => blocked'[d] = blocked[d]
    BY <1>1, <2>2 DEF TypeOK
  <2>4. s \in Clients => Current \in Unblocks(s)
    BY <1>1, <1>2, <1>8, <2>1 DEF Unblocks, ToCall
  <2>5. s \in Clients => /\ pc[s] = "wait" /\ Unblocks(s)' = {}
                         /\ \A j \in Unfinished(s) : j < Current
    BY <1>5, <2>4 DEF ClientInv, Blocking
  <2>6. BlockIsBarrier'
    <3> SUFFICES ASSUME NEW d \in Clients, pc[d] = "wait", ~blocked'[d], NEW i \in Unfinished(d)
                 PROVE  ring[i].state = "running" /\ ring[i].job.kind = "nested"
      BY <1>1, <1>4 DEF BlockIsBarrier
    <3>1. CASE d = s
      BY <1>6, <2>5, <3>1
    <3>2. CASE d # s
      BY <2>3, <3>2 DEF ClientInv, BlockIsBarrier
    <3> QED
      BY <3>1, <3>2
  <2>7. Blocking'
    <3> SUFFICES ASSUME NEW d \in Clients
                 PROVE  /\ pc[d] = "allocate" =>
                             next[d].by = d /\ (next[d].kind = "unblock" => blocked'[d])
                        /\ \A i \in Unblocks(d)' :
                             /\ pc[d] = "wait" /\ blocked'[d]
                             /\ \A j \in Unfinished(d) : j < i
                             /\ \A j \in Unblocks(d)' : j = i
      BY <1>1, <1>4 DEF Blocking
    <3>1. CASE d = s
      BY <2>5, <3>1 DEF ClientInv, Blocking
    <3>2. CASE d # s
      BY <1>5, <2>3, <3>2 DEF ClientInv, Blocking
    <3> QED
      BY <3>1, <3>2
  <2>8. Owning'
    BY <1>1, <1>7, <2>2 DEF ClientInv, Owning
  <2>9. Ending'
    BY <1>1, <1>4, <1>5, <1>7, <2>2 DEF ClientInv, Ending
  <2> QED
    BY <2>6, <2>7, <2>8, <2>9 DEF ClientInv
<1>9. CASE ring[Current].job.kind # "unblock"
  <2>1. \A d \in Clients : blocked'[d] = blocked[d]
    <3>1. \/ blocked' = blocked
          \/ depth < MaxDepth /\ blocked' = [blocked EXCEPT ![depth + 1] = TRUE]
      BY <1>9 DEF Call
    <3>2. depth < MaxDepth => depth + 1 \in 0 .. MaxDepth
      BY <1>3, EngineAssumption
    <3> QED
      BY <1>1, <3>1, <3>2 DEF TypeOK
  <2>2. BlockIsBarrier'
    BY <1>1, <1>4, <2>1 DEF ClientInv, BlockIsBarrier
  <2>3. Blocking'
    <3> SUFFICES ASSUME NEW d \in Clients
                 PROVE  /\ pc[d] = "allocate" =>
                             next[d].by = d /\ (next[d].kind = "unblock" => blocked[d])
                        /\ \A i \in Unblocks(d)' :
                             /\ pc[d] = "wait" /\ blocked[d]
                             /\ \A j \in Unfinished(d) : j < i
                             /\ \A j \in Unblocks(d)' : j = i
      BY <1>1, <1>4, <2>1 DEF Blocking
    <3> QED
      BY <1>5 DEF ClientInv, Blocking
  <2>4. CASE ring[Current].job.kind = "stop"
    <3>1. running' = FALSE /\ Current \in Stops
      BY <1>1, <1>2, <2>4 DEF Call, Stops, ToCall
    <3>2. /\ Stopping /\ pc[Owner] = "join"
          /\ \A d \in Clients : d # Owner => pc[d] = "idle"
          /\ \A d \in Clients : \A j \in Unfinished(d) : j <= Current
      BY <3>1 DEF ClientInv, Ending
    <3>3. \A d \in Clients : \A j \in Unfinished(d) : ring[j].state = "running"
      BY <1>2, <1>3, <1>6, <3>2
    <3>4. Owning'
      BY <1>1, <1>7, <3>1, <3>2 DEF ClientInv, Owning
    <3>5. Ending'
      BY <1>1, <1>4, <1>5, <1>7, <3>1, <3>2, <3>3 DEF ClientInv, Ending
    <3> QED
      BY <2>2, <2>3, <3>4, <3>5 DEF ClientInv
  <2>5. CASE ring[Current].job.kind # "stop"
    <3>1. running' = running
      BY <2>5 DEF Call
    <3>2. Owning'
      BY <1>1, <1>7, <3>1 DEF ClientInv, Owning
    <3>3. Ending'
      BY <1>1, <1>4, <1>5, <1>7, <3>1 DEF ClientInv, Ending
    <3> QED
      BY <2>2, <2>3, <3>2, <3>3 DEF ClientInv
  <2> QED
    BY <2>4, <2>5
<1> QED
  BY <1>8, <1>9
\* The thread's own functions are nobody's.
LEMMA SignalFromEngineKeeps ==
  ASSUME LoopInv, ClientInv, SignalFromEngine
  PROVE  ClientInv'
<1>1. /\ TypeOK /\ HasSpace /\ epc = "allocate" /\ epc' \in {"finish", "test", "spin"}
      /\ UNCHANGED <<running, handle, blocked, pc, next, calls>>
      /\ Clients \cap (0 .. MaxDepth) = {} /\ 0 \in 0 .. MaxDepth
  BY EngineAssumption DEF LoopInv, SignalFromEngine, EngineGoto
<1>2. PICK f \in Job : Put(f) /\ f.by \in 0 .. MaxDepth /\ f.kind # "stop"
  BY <1>1, SignalFromEngineKeepsLoops
<1>3. PICK n : n = Len(ring) + 1
  OBVIOUS
<1>4. /\ \A d \in Clients : Unfinished(d)' = Unfinished(d) /\ Unblocks(d)' = Unblocks(d)
      /\ \A d \in Clients : Unfinished(d) \subseteq Slots
      /\ Stops' = Stops /\ \A i \in Slots : ring'[i] = ring[i]
  <2>1. /\ \A d \in Clients :
             /\ Unfinished(d)' = Unfinished(d)
                                   \cup {i \in {n} : f.by = d /\ f.kind # "unblock"}
             /\ Unblocks(d)' = Unblocks(d) \cup {i \in {n} : f.kind = "unblock" /\ f.by = d}
             /\ Unfinished(d) \subseteq Slots
        /\ Stops' = Stops \cup {i \in {n} : f.kind = "stop"}
        /\ \A i \in Slots : ring'[i] = ring[i]
    BY <1>1, <1>2, <1>3, PutSlots
  <2>2. \A d \in Clients : f.by # d
    BY <1>1, <1>2
  <2> QED
    BY <1>2, <2>1, <2>2
<1>5. (running \/ Stopping) /\ pc[Owner] \notin {"spawn", "gone"} /\ Stopping' = Stopping
  BY <1>1, ThreadRuns DEF Stopping
<1>6. Stops \subseteq Slots
  BY DEF Stops
<1>7. BlockIsBarrier'
  BY <1>1, <1>4 DEF ClientInv, BlockIsBarrier
<1>8. Blocking'
  BY <1>1, <1>4 DEF ClientInv, Blocking
<1>9. Owning'
  BY <1>1, <1>5 DEF ClientInv, Owning
<1>10. Ending'
  BY <1>1, <1>4, <1>5, <1>6 DEF ClientInv, Ending
<1> QED
  BY <1>7, <1>8, <1>9, <1>10 DEF ClientInv

\* Freeing slots leaves those that are not done, in their order.
LEMMA FinishKeeps ==
  ASSUME LoopInv, ClientInv, Finish
  PROVE  ClientInv'
<1>1. /\ epc = "finish" /\ epc' = "test" /\ Len(ring) \in Nat
      /\ UNCHANGED <<running, handle, blocked, pc, next, calls, depth>>
  BY RingTypes DEF LoopInv, Finish, EngineGoto
<1>2. PICK k \in Nat : FreesSlots(k)
  BY FinishFrees, FinishKeepsLoops
<1>3. \A i \in Slots' : /\ i + k \in Slots /\ i \in Nat
                        /\ ring'[i].job = ring[i + k].job
                        /\ ring'[i].state # "done" => ring'[i].state = ring[i + k].state
  BY <1>1, <1>2 DEF FreesSlots, Slots
<1>4. \A d \in Clients : \A i \in Unfinished(d)' :
        /\ i \in Nat /\ i + k \in Nat /\ i + k \in Unfinished(d)
        /\ ring'[i].job = ring[i + k].job /\ ring'[i].state = ring[i + k].state
  BY <1>3 DEF Unfinished, Slots
<1>5. \A d \in Clients : \A i \in Unblocks(d)' : i \in Nat /\ i + k \in Unblocks(d)
  BY <1>1, <1>3 DEF Unblocks, ToCall
<1>6. \A i \in Stops' : i \in Nat /\ i + k \in Stops /\ ring'[i].job = ring[i + k].job
  BY <1>1, <1>3 DEF Stops, ToCall
<1>7. (running \/ Stopping) /\ pc[Owner] \notin {"spawn", "gone"} /\ Stopping' = Stopping
  BY <1>1, ThreadRuns DEF Stopping
<1>8. BlockIsBarrier'
  BY <1>1, <1>4 DEF ClientInv, BlockIsBarrier
<1>9. Blocking'
  <2> SUFFICES ASSUME NEW d \in Clients, NEW i \in Unblocks(d)'
               PROVE  /\ pc[d] = "wait" /\ blocked[d]
                      /\ \A j \in Unfinished(d)' : j < i
                      /\ \A j \in Unblocks(d)' : j = i
    BY <1>1 DEF ClientInv, Blocking
  <2>1. i \in Nat /\ i + k \in Unblocks(d)
    BY <1>5
  <2>2. /\ pc[d] = "wait" /\ blocked[d]
        /\ \A j \in Unfinished(d) : j < i + k
        /\ \A j \in Unblocks(d) : j = i + k
    BY <2>1 DEF ClientInv, Blocking
  <2>3. ASSUME NEW j \in Unfinished(d)' PROVE j < i
    <3>1. j \in Nat /\ j + k < i + k
      BY <1>4, <2>2
    <3> QED
      BY <2>1, <3>1
  <2>4. ASSUME NEW j \in Unblocks(d)' PROVE j = i
    <3>1. j \in Nat /\ j + k = i + k
      BY <1>5, <2>2
    <3> QED
      BY <2>1, <3>1
  <2> QED
    BY <2>2, <2>3, <2>4
<1>10. Owning'
  BY <1>1, <1>7 DEF ClientInv, Owning
<1>11. Ending'
  <2>1. ASSUME NEW i \in Stops'
        PROVE  /\ Stopping /\ pc[Owner] = "join" /\ ring'[i].job.by = Owner
               /\ \A d \in Clients : \A j \in Unfinished(d)' : j <= i
    <3>1. i \in Nat /\ i + k \in Stops /\ ring'[i].job = ring[i + k].job
      BY <1>6
    <3>2. /\ Stopping /\ pc[Owner] = "join" /\ ring[i + k].job.by = Owner
          /\ \A d \in Clients : \A j \in Unfinished(d) : j <= i + k
      BY <3>1 DEF ClientInv, Ending
    <3>3. ASSUME NEW d \in Clients, NEW j \in Unfinished(d)' PROVE j <= i
      <4>1. j \in Nat /\ j + k <= i + k
        BY <1>4, <3>2
      <4> QED
        BY <3>1, <4>1
    <3> QED
      BY <3>1, <3>2, <3>3
  <2>2. Stopping /\ ~running =>
          \A d \in Clients : \A j \in Unfinished(d)' : ring'[j].state = "running"
    BY <1>4 DEF ClientInv, Ending
  <2> QED
    BY <1>1, <1>7, <2>1, <2>2 DEF ClientInv, Ending
<1> QED
  BY <1>8, <1>9, <1>10, <1>11 DEF ClientInv

-----------------------------------------------------------------------------
(* The theorems. *)

EngineInv == LoopInv /\ ClientInv

\* An engine begins with an empty ring and idle clients.
LEMMA EngineStarts == Init => EngineInv
<1> SUFFICES ASSUME Init PROVE EngineInv
  OBVIOUS
<1>1. /\ ring = <<>> /\ depth = 0 /\ epc \in {"unborn", "test"} /\ (epc = "unborn" <=> ~running)
      /\ Owner \in Clients /\ MaxDepth \in Nat /\ MaxRepeats \in Nat /\ MaxSignals \in Nat
      /\ Capacity \in Nat
  BY EngineAssumption DEF Init
<1>2. /\ pc \in [Clients -> Places] /\ \A c \in Clients : pc[c] = "idle"
      /\ NoJob \in Job
      /\ next \in [Clients -> Job] /\ next[Owner].kind = "task"
      /\ \A c \in Clients : next[c] = NoJob
  <2>1. NoJob \in Job
    BY <1>1 DEF NoJob, Job, Signallers
  <2> QED
    BY <1>1, <2>1 DEF Init, Places, NoJob
<1>3. TypeOK
  <2>1. ring \in Seq([job : Job, state : {"ready", "running", "done"}]) /\ Len(ring) <= Capacity
    BY <1>1
  <2>2. running \in BOOLEAN /\ handle \in BOOLEAN /\ blocked \in [Signallers -> BOOLEAN]
    BY EngineAssumption DEF Init
  <2>3. calls \in [Clients -> 0 .. MaxSignals] /\ depth \in 0 .. MaxDepth
    BY <1>1 DEF Init
  <2> QED
    BY <1>1, <1>2, <2>1, <2>2, <2>3 DEF TypeOK, Places
<1>4. Slots = {} /\ Running = {} /\ Cardinality(Running) = 0
  <2>1. Slots = {}
    BY <1>1 DEF Slots
  <2>2. Running = {}
    BY <2>1 DEF Running, InState, Slots
  <2> QED
    BY <2>1, <2>2, FS_EmptySet
<1>5. Stops = {} /\ \A c \in Clients : Unfinished(c) = {} /\ Unblocks(c) = {}
  BY <1>4 DEF Stops, Unfinished, Unblocks, Slots
<1>6. LoopInv
  BY <1>1, <1>3, <1>4 DEF LoopInv, Ordered, Nested, Loops, Signalling
<1>7. ~Stopping /\ \A c \in Clients : next[c].kind = "task"
  BY <1>1, <1>2 DEF Stopping, NoJob
<1>8. BlockIsBarrier /\ Blocking
  BY <1>2, <1>5 DEF BlockIsBarrier, Blocking
<1>9. Owning
  BY <1>1, <1>2, <1>7 DEF Owning
<1>10. Ending
  BY <1>1, <1>2, <1>5, <1>7 DEF Ending
<1> QED
  BY <1>6, <1>8, <1>9, <1>10 DEF EngineInv, ClientInv

\* Every step keeps what the clients signalled in order.
LEMMA ClientsKept ==
  ASSUME LoopInv, ClientInv, [Next]_vars
  PROVE  ClientInv'
<1>0. TypeOK
  BY DEF LoopInv
<1>1. CASE \E c \in Clients : ClientCall(c)
  BY <1>0, <1>1, SignalKeeps, SignalBlockKeeps, EnsureRunningKeeps, DestroyKeeps DEF ClientCall
<1>2. CASE \E c \in Clients : ClientStep(c)
  BY <1>0, <1>2, SpawnThreadKeeps, AssignHandleKeeps, AllocateKeeps, WaitUnblockedKeeps, JoinKeeps
     DEF ClientStep
<1>3. CASE EngineStep
  BY <1>3, TestFlagKeeps, TakeKeeps, CallKeeps, SignalFromEngineKeeps, FinishKeeps
     DEF EngineStep
<1>4. CASE UNCHANGED vars
  <2>1. UNCHANGED <<running, ring, blocked, pc, next, epc>>
    BY <1>4 DEF vars
  <2>2. /\ Stops' = Stops /\ Stopping' = Stopping
        /\ \A d \in Clients : Unfinished(d)' = Unfinished(d) /\ Unblocks(d)' = Unblocks(d)
    BY <2>1, SlotsAside DEF Stopping
  <2>3. BlockIsBarrier' /\ Blocking' /\ Owning'
    BY <2>1, <2>2 DEF ClientInv, BlockIsBarrier, Blocking, Owning
  <2>4. Ending'
    BY <2>1, <2>2 DEF ClientInv, Ending, NothingDropped
  <2> QED
    BY <2>3, <2>4 DEF ClientInv
<1> QED
  BY <1>1, <1>2, <1>3, <1>4 DEF Next

\* So the invariant holds always.
LEMMA EngineInvariant == Spec => []EngineInv
<1>1. EngineInv /\ [Next]_vars => EngineInv'
  BY LoopsKept, ClientsKept DEF EngineInv, ClientInv
<1> QED
  BY <1>1, EngineStarts, PTL DEF Spec

\* The engine thread runs as many functions as it is in loops, each but the last
\* one that called signal_block() (reenter() and consume() of threading.hpp).
THEOREM LoopsAreNested == Spec => []LoopsNest
<1>1. LoopInv => LoopsNest
  <2> SUFFICES ASSUME LoopInv PROVE LoopsNest
    OBVIOUS
  <2>1. \A i \in Running : i # Current => ring[i].job.kind = "nested"
    <3> SUFFICES ASSUME NEW i \in Running, i # Current PROVE ring[i].job.kind = "nested"
      OBVIOUS
    <3>1. Current \in Running /\ i <= Current
      BY CurrentIsLast DEF LoopInv
    <3>2. i \in Nat /\ Current \in Nat
      BY <3>1, RingTypes DEF LoopInv
    <3> QED
      BY <3>1, <3>2 DEF LoopInv, Nested
  <2> QED
    BY <2>1 DEF LoopInv, Loops, LoopsNest, NestingMatches, Running
<1> QED
  BY <1>1, EngineInvariant, PTL DEF EngineInv

\* signal_block() returns when all its caller signalled before has run, and the
\* destructor when all that any client signalled has (inplace_engine_t).
THEOREM NothingIsLeftBehind == Spec => []NothingLeftBehind
<1>1. ClientInv => NothingLeftBehind
  BY DEF ClientInv, Ending, NothingLeftBehind, NothingDropped
<1> QED
  BY <1>1, EngineInvariant, PTL DEF EngineInv
=============================================================================
