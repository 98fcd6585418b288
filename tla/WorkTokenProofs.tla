--------------------------- MODULE WorkTokenProofs ---------------------------
(***************************************************************************)
(* Theorems about WorkToken for any clients, workers, capacity and bounds: *)
(* indices are not lost or shared though they wrap, tasks of a token run   *)
(* in turn, and the token's destructor waits for all that do not repeat.   *)
(***************************************************************************)
EXTENDS WorkToken, FiniteSetTheorems, TLAPS

\* Where each kind of thread can be, and what it then has in hand.
ThreadsAreSound ==
  /\ \A c \in Clients : pc[c] \in {"idle", "allocate", "closing", "closed", "join", "gone"}
  /\ \A c \in Clients \ {Owner} : pc[c] \in {"idle", "allocate"}
  /\ \A w \in Workers : pc[w] \in {"test", "take", "turn", "run", "consume", "valid", "renew",
                                   "allocate", "exited"}
  /\ \A w \in Workers : pc[w] \in {"turn", "consume", "valid", "renew"} => OfToken(w)
  /\ \A w \in Workers : pc[w] \in {"valid", "renew"} => task[w].left > 0

\* Only repeat functions have repetitions left.
RepeatsAreRepeats ==
  /\ \A t \in Threads : task[t].left > 0 => task[t].kind = "repeat"
  /\ \A i \in 1 .. Len(queue) : queue[i].left > 0 => queue[i].kind = "repeat"

\* Every index between the counters has a holder, and one holder.
Out == executed .. (issued - 1)
PlacesAreHeld ==
  /\ executed <= issued /\ issued - executed <= MaxPending
  /\ \A i \in Queued : queue[i].place \in Out
  /\ \A t \in InHand : task[t].place \in Out
  /\ \A i, j \in Queued : queue[i].place = queue[j].place => i = j
  /\ \A s, t \in InHand : task[s].place = task[t].place => s = t
  /\ \A i \in Queued, t \in InHand : queue[i].place # task[t].place
  /\ \A n \in Out : \/ \E i \in Queued : queue[i].place = n
                    \/ \E t \in InHand : task[t].place = n

\* A task of the token runs with the next index to consume.
RunsInTurn == \A w \in Running : task[w].place = executed

\* Once the destructor has begun no client enqueues, and once it has waited
\* whatever uses the token repeats.
ClosesInOrder ==
  /\ pc[Owner] \in {"closing", "closed", "join", "gone"} => ~valid
  /\ ~valid => \A c \in Clients : pc[c] # "allocate"
  /\ Closed => /\ \A i \in Queued : queue[i].kind = "repeat"
               /\ \A t \in InHand : task[t].kind = "repeat"

TurnInv ==
  /\ TypeOK /\ ThreadsAreSound /\ RepeatsAreRepeats /\ PlacesAreHeld /\ RunsInTurn
  /\ ClosesInOrder

-----------------------------------------------------------------------------
\* Indices that are fewer than IdxMod apart differ unless they are of one place.
LEMMA IdxTellsApart ==
  ASSUME NEW a \in Nat, NEW b \in Nat, a <= b, b - a < IdxMod, Idx(a) = Idx(b)
  PROVE  a = b
<1> DEFINE qa == a \div IdxMod
           qb == b \div IdxMod
<1>0. IdxMod \in Nat /\ IdxMod > 0
  BY WorkTokenAssumption
<1>1. /\ qa \in Nat /\ qb \in Nat
      /\ a = IdxMod * qa + Idx(a)
      /\ b = IdxMod * qb + Idx(b)
      /\ Idx(a) \in Nat /\ Idx(b) \in Nat
  BY <1>0, Z3 DEF Idx
<1> HIDE DEF qa, qb
<1>2. b - a = IdxMod * (qb - qa)
  <2>1. IdxMod * (qb - qa) = IdxMod * qb - IdxMod * qa
    BY <1>0, <1>1
  <2> QED
    BY <2>1, <1>0, <1>1
<1>3. qb <= qa
  <2> SUFFICES ASSUME qb - qa >= 1 PROVE FALSE
    BY <1>1
  <2>1. IdxMod * (qb - qa) >= IdxMod * 1
    BY <1>0, <1>1, Z3
  <2> QED
    BY <2>1, <1>0, <1>2
<1>4. IdxMod * (qb - qa) <= 0
  BY <1>0, <1>1, <1>3, Z3
<1> QED
  BY <1>2, <1>4

\* A step that leaves the counters, the queue and what is in hand alone.
LEMMA HoldersKept ==
  ASSUME PlacesAreHeld, UNCHANGED <<issued, executed, queue>>, InHand' = InHand,
         \A t \in InHand : task'[t] = task[t]
  PROVE  PlacesAreHeld'
<1>1. Queued' = Queued
  BY DEF Queued
<1> QED
  BY <1>1 DEF PlacesAreHeld, Out

\* A new index goes to the thread that generated it, which had none.
LEMMA HolderAdded ==
  ASSUME TypeOK, PlacesAreHeld, NEW t \in Threads, t \notin InHand,
         UNCHANGED <<executed, queue>>, issued' = issued + 1, issued - executed < MaxPending,
         InHand' = InHand \cup {t}, task'[t].place = issued,
         \A u \in InHand : task'[u] = task[u]
  PROVE  PlacesAreHeld'
<1>1. Queued' = Queued
  BY DEF Queued
<1>2. /\ issued \in Nat /\ executed \in Nat /\ MaxPending \in Nat /\ executed <= issued
      /\ Out' = Out \cup {issued} /\ issued \notin Out
  BY WorkTokenAssumption DEF TypeOK, PlacesAreHeld, Out
<1>3. /\ (executed <= issued /\ issued - executed <= MaxPending)'
      /\ \A i \in Queued : queue[i].place \in Out
      /\ \A u \in InHand : task'[u].place \in Out
  BY <1>2 DEF PlacesAreHeld
<1>4. \A n \in Out' : \/ \E i \in Queued : queue[i].place = n
                     \/ \E u \in InHand' : task'[u].place = n
  BY <1>2 DEF PlacesAreHeld
<1>5. \A u, v \in InHand' : task'[u].place = task'[v].place => u = v
  BY <1>2, <1>3 DEF PlacesAreHeld
<1>6. \A i \in Queued, u \in InHand' : queue[i].place # task'[u].place
  BY <1>2, <1>3 DEF PlacesAreHeld
<1> QED
  BY <1>1, <1>2, <1>3, <1>4, <1>5, <1>6 DEF PlacesAreHeld

\* A thread consumes its index, the first of those that are out.
LEMMA HolderRemoved ==
  ASSUME TypeOK, PlacesAreHeld, NEW t \in InHand, task[t].place = executed,
         UNCHANGED <<issued, queue, task>>, executed' = executed + 1, InHand' = InHand \ {t}
  PROVE  PlacesAreHeld'
<1>1. Queued' = Queued
  BY DEF Queued
<1>2. /\ issued \in Nat /\ executed \in Nat /\ MaxPending \in Nat /\ executed <= issued
      /\ Out' = Out \ {executed} /\ executed \in Out
  BY WorkTokenAssumption DEF TypeOK, PlacesAreHeld, Out
<1>3. (executed <= issued /\ issued - executed <= MaxPending)'
  BY <1>2 DEF PlacesAreHeld, Out
<1>4. \A n \in Out' : \/ \E i \in Queued : queue[i].place = n
                     \/ \E u \in InHand' : task[u].place = n
  BY <1>2 DEF PlacesAreHeld
<1>5. /\ \A i \in Queued : queue[i].place \in Out'
      /\ \A u \in InHand' : task[u].place \in Out'
  BY <1>2 DEF PlacesAreHeld
<1> QED
  BY <1>1, <1>3, <1>4, <1>5 DEF PlacesAreHeld

\* A function is put at the end of the queue: its index goes along.
LEMMA HolderEnqueued ==
  ASSUME TypeOK, PlacesAreHeld, NEW t \in Threads, OfToken(t) <=> t \in InHand,
         UNCHANGED <<issued, executed, task>>, queue' = Append(queue, task[t]),
         InHand' = InHand \ {t}
  PROVE  PlacesAreHeld'
<1> DEFINE last == Len(queue) + 1
<1>1. /\ Len(queue) \in Nat /\ Len(queue') = last /\ queue'[last] = task[t]
      /\ \A i \in 1 .. Len(queue) : queue'[i] = queue[i]
  BY DEF TypeOK
<1>2. Queued' = Queued \cup (IF t \in InHand THEN {last} ELSE {}) /\ last \notin Queued
  BY <1>1 DEF Queued, OfToken
<1>3. \A i \in Queued : i \in 1 .. Len(queue) /\ queue'[i] = queue[i]
  BY <1>1 DEF Queued
<1> HIDE DEF last
<1>4. Out' = Out
  BY DEF Out
<1>5. \A i, j \in Queued' : queue'[i].place = queue'[j].place => i = j
  BY <1>1, <1>2, <1>3 DEF PlacesAreHeld
<1>6. \A i \in Queued' : queue'[i].place \in Out
  BY <1>1, <1>2, <1>3 DEF PlacesAreHeld
<1>7. \A i \in Queued', u \in InHand' : queue'[i].place # task[u].place
  BY <1>1, <1>2, <1>3 DEF PlacesAreHeld
<1>8. \A n \in Out : \/ \E i \in Queued' : queue'[i].place = n
                    \/ \E u \in InHand' : task[u].place = n
  <2> SUFFICES ASSUME NEW n \in Out
               PROVE  \/ \E i \in Queued' : queue'[i].place = n
                      \/ \E u \in InHand' : task[u].place = n
    OBVIOUS
  <2>1. CASE \E i \in Queued : queue[i].place = n
    BY <2>1, <1>2, <1>3
  <2>2. CASE \E u \in InHand : task[u].place = n
    BY <2>2, <1>1, <1>2
  <2> QED
    BY <2>1, <2>2 DEF PlacesAreHeld
<1>9. /\ (executed <= issued /\ issued - executed <= MaxPending)'
      /\ \A u \in InHand' : task[u].place \in Out
      /\ \A u, v \in InHand' : task[u].place = task[v].place => u = v
  BY DEF PlacesAreHeld
<1>10. task' = task
  OBVIOUS
<1> QED
  BY ONLY <1>4, <1>5, <1>6, <1>7, <1>8, <1>9, <1>10 DEF PlacesAreHeld

\* A worker takes the first function out of the queue, and its index with it.
LEMMA HolderTaken ==
  ASSUME TypeOK, PlacesAreHeld, NEW w \in Threads, w \notin InHand, queue # <<>>,
         UNCHANGED <<issued, executed>>, queue' = Tail(queue),
         task' = [task EXCEPT ![w] = Head(queue)],
         InHand' = InHand \cup (IF Head(queue).kind = "plain" THEN {} ELSE {w})
  PROVE  PlacesAreHeld'
<1>1. /\ Len(queue) \in Nat /\ Len(queue) >= 1 /\ Len(queue') = Len(queue) - 1
      /\ Head(queue) = queue[1]
      /\ \A i \in 1 .. Len(queue') : queue'[i] = queue[i + 1]
  BY DEF TypeOK
<1>2. /\ \A i \in Queued' : i \in Nat /\ i + 1 \in Queued /\ queue'[i] = queue[i + 1]
      /\ \A i \in Queued : i \in Nat /\ (i # 1 => i - 1 \in Queued' /\ queue'[i - 1] = queue[i])
      /\ 1 \in Queued <=> Head(queue).kind # "plain"
  <2>1. \A i \in Queued' : i \in Nat /\ i + 1 \in Queued /\ queue'[i] = queue[i + 1]
    BY <1>1 DEF Queued
  <2>2. ASSUME NEW i \in Queued
        PROVE  i \in Nat /\ (i # 1 => i - 1 \in Queued' /\ queue'[i - 1] = queue[i])
    <3>1. i \in 1 .. Len(queue) /\ queue[i].kind # "plain"
      BY <2>2 DEF Queued
    <3>2. CASE i # 1
      <4>1. i - 1 \in 1 .. Len(queue') /\ queue'[i - 1] = queue[i]
        BY <1>1, <3>1, <3>2
      <4> QED
        BY <3>1, <4>1 DEF Queued
    <3> QED
      BY <3>1, <3>2
  <2>3. 1 \in Queued <=> Head(queue).kind # "plain"
    BY <1>1 DEF Queued
  <2> QED
    BY <2>1, <2>2, <2>3
<1>3. /\ task'[w] = queue[1]
      /\ \A u \in InHand : u # w /\ task'[u] = task[u]
  BY <1>1 DEF TypeOK, InHand
<1>4. \A u \in InHand' : u \in InHand \/ (u = w /\ 1 \in Queued)
  BY <1>2
<1>5. Out' = Out
  BY DEF Out
<1>6. ASSUME NEW i \in Queued', NEW j \in Queued', queue'[i].place = queue'[j].place
      PROVE  i = j
  <2>1. \A a, b \in Queued : queue[a].place = queue[b].place => a = b
    BY DEF PlacesAreHeld
  <2>2. /\ i \in Nat /\ i + 1 \in Queued /\ queue'[i] = queue[i + 1]
        /\ j \in Nat /\ j + 1 \in Queued /\ queue'[j] = queue[j + 1]
    BY <1>2
  <2>3. i + 1 = j + 1
    BY ONLY <2>1, <2>2, <1>6
  <2> QED
    BY ONLY <2>2, <2>3
<1>7. \A i \in Queued' : queue'[i].place \in Out
  BY <1>2 DEF PlacesAreHeld
<1>8. \A u \in InHand' : task'[u].place \in Out
  BY <1>3, <1>4 DEF PlacesAreHeld
<1>9. \A u, v \in InHand' : task'[u].place = task'[v].place => u = v
  BY <1>3, <1>4 DEF PlacesAreHeld
<1>10. ASSUME NEW i \in Queued', NEW u \in InHand'
       PROVE  queue'[i].place # task'[u].place
  <2>1. i \in Nat /\ i + 1 \in Queued /\ i + 1 # 1 /\ queue'[i] = queue[i + 1]
    <3>1. i \in Nat /\ i \in 1 .. Len(queue')
      BY <1>1, <1>2 DEF Queued
    <3> QED
      BY <3>1, <1>2
  <2>2. /\ \A a \in Queued, v \in InHand : queue[a].place # task[v].place
        /\ \A a, b \in Queued : queue[a].place = queue[b].place => a = b
    BY DEF PlacesAreHeld
  <2>3. CASE u \in InHand
    BY <2>1, <2>2, <2>3, <1>3
  <2>4. CASE u = w /\ 1 \in Queued
    <3>1. queue[i + 1].place # queue[1].place
      BY ONLY <2>1, <2>2, <2>4
    <3> QED
      BY <3>1, <2>1, <2>4, <1>3
  <2> QED
    BY <2>3, <2>4, <1>4
<1>11. \A n \in Out : \/ \E i \in Queued' : queue'[i].place = n
                     \/ \E u \in InHand' : task'[u].place = n
  <2> SUFFICES ASSUME NEW n \in Out
               PROVE  \/ \E i \in Queued' : queue'[i].place = n
                      \/ \E u \in InHand' : task'[u].place = n
    OBVIOUS
  <2>1. ASSUME NEW i \in Queued, queue[i].place = n
        PROVE  \/ \E j \in Queued' : queue'[j].place = n
               \/ \E u \in InHand' : task'[u].place = n
    <3>1. CASE i = 1
      BY <2>1, <3>1, <1>2, <1>3
    <3>2. CASE i # 1
      BY <2>1, <3>2, <1>2
    <3> QED
      BY <3>1, <3>2
  <2>2. CASE \E u \in InHand : task[u].place = n
    BY <2>2, <1>3
  <2> QED
    BY <2>1, <2>2 DEF PlacesAreHeld
<1>12. (executed <= issued /\ issued - executed <= MaxPending)'
  BY DEF PlacesAreHeld
<1> QED
  BY ONLY <1>5, <1>6, <1>7, <1>8, <1>9, <1>10, <1>11, <1>12 DEF PlacesAreHeld

-----------------------------------------------------------------------------
\* Who holds an index changes with the steps that generate one, consume one,
\* or move a function into or out of the queue.
LEMMA PlacesStep ==
  ASSUME TypeOK, ThreadsAreSound, PlacesAreHeld, RunsInTurn, Next
  PROVE  PlacesAreHeld'
<1> USE DEF Goto, OfToken, Threads
<1>0. /\ Clients \cap Workers = {}
      /\ pc \in [Threads -> {"idle", "allocate", "closing", "closed", "join", "gone", "test",
                            "take", "turn", "run", "consume", "valid", "renew", "exited", "abort"}]
      /\ task \in [Threads -> Task] /\ queue \in Seq(Task)
  BY WorkTokenAssumption DEF TypeOK
<1>1. ASSUME NEW c \in Clients, Enqueue(c) PROVE PlacesAreHeld'
  <2>1. InHand' = InHand
    BY <1>1, <1>0 DEF Enqueue, MayCall, NoTask, InHand
  <2>2. \A t \in InHand : task'[t] = task[t]
    BY <1>1, <1>0 DEF Enqueue, MayCall, InHand
  <2> QED
    BY <1>1, <2>1, <2>2, HoldersKept DEF Enqueue
<1>2. ASSUME NEW c \in Clients, EnqueueAgainst(c) PROVE PlacesAreHeld'
  <2>1. PICK k \in Kinds \ {"plain"} :
          task' = [task EXCEPT ![c] = [kind |-> k, place |-> issued,
                                       left |-> IF k = "repeat" THEN MaxRepeats ELSE 0]]
    BY <1>2 DEF EnqueueAgainst
  <2>2. /\ c \notin InHand /\ InHand' = InHand \cup {c}
        /\ task'[c].place = issued
        /\ \A t \in InHand : task'[t] = task[t]
    BY <1>2, <2>1, <1>0 DEF EnqueueAgainst, MayCall, InHand
  <2> QED
    BY <1>2, <2>2, HolderAdded DEF EnqueueAgainst
<1>3. ASSUME NEW t \in Threads, Allocate(t) PROVE PlacesAreHeld'
  <2>1. InHand' = InHand \ {t} /\ (OfToken(t) <=> t \in InHand)
    BY <1>3, <1>0 DEF Allocate, InHand
  <2> QED
    BY <1>3, <2>1, HolderEnqueued DEF Allocate
<1>4. ASSUME NEW w \in Workers, Take(w) PROVE PlacesAreHeld'
  <2>1. CASE queue = <<>>
    <3>1. InHand' = InHand
      BY <1>4, <2>1, <1>0 DEF Take, InHand
    <3> QED
      BY <1>4, <2>1, <3>1, HoldersKept DEF Take
  <2>2. CASE queue # <<>>
    <3>1. /\ w \notin InHand
          /\ InHand' = InHand \cup (IF Head(queue).kind = "plain" THEN {} ELSE {w})
      BY <1>4, <2>2, <1>0 DEF Take, InHand
    <3> QED
      BY <1>4, <2>2, <3>1, HolderTaken DEF Take
  <2> QED
    BY <2>1, <2>2
<1>5. ASSUME NEW w \in Workers, ConsumeIdx(w) PROVE PlacesAreHeld'
  <2>1. w \in InHand /\ task[w].place = executed
    BY <1>5, <1>0 DEF ConsumeIdx, InHand, RunsInTurn, Running, ThreadsAreSound
  <2>2. executed' = executed + 1 /\ InHand' = InHand \ {w}
    BY <1>5, <2>1, <1>0 DEF ConsumeIdx, InHand
  <2> QED
    BY <1>5, <2>1, <2>2, HolderRemoved DEF ConsumeIdx
<1>6. ASSUME NEW w \in Workers, Renew(w) PROVE PlacesAreHeld'
  <2>1. w \notin InHand /\ OfToken(w)
    BY <1>6, <1>0 DEF Renew, InHand, ThreadsAreSound
  <2>2. /\ task'[w].place = issued /\ task'[w].kind = task[w].kind
        /\ \A t \in Threads \ {w} : task'[t] = task[t]
    BY <1>6, <1>0 DEF Renew, NewIdx, Task
  <2>3. InHand' = InHand \cup {w}
    BY <1>6, <1>0, <2>1, <2>2 DEF Renew, InHand
  <2>4. \A t \in InHand : task'[t] = task[t]
    BY <2>1, <2>2 DEF InHand
  <2> QED
    BY <1>6, <2>1, <2>2, <2>3, <2>4, HolderAdded DEF Renew
<1>7. ASSUME NEW c \in Clients, Invalidate(c) \/ AwaitTasks(c) \/ StopPool(c) \/ JoinWorkers(c)
      PROVE  PlacesAreHeld'
  <2>1. InHand' = InHand
    BY <1>7, <1>0 DEF Invalidate, AwaitTasks, StopPool, JoinWorkers, InHand, ThreadsAreSound
  <2> QED
    BY <1>7, <2>1, HoldersKept DEF Invalidate, AwaitTasks, StopPool, JoinWorkers
<1>8. ASSUME NEW w \in Workers, TestRunning(w) \/ WaitForIdx(w) \/ Run(w) \/ Validate(w)
      PROVE  PlacesAreHeld'
  <2>1. InHand' = InHand
    BY <1>8, <1>0 DEF TestRunning, WaitForIdx, Run, Validate, InHand
  <2> QED
    BY <1>8, <2>1, HoldersKept DEF TestRunning, WaitForIdx, Run, Validate
<1> QED
  BY <1>1, <1>2, <1>3, <1>4, <1>5, <1>6, <1>7, <1>8 DEF Next, ClientCall, ThreadStep

\* A worker starts a task only when the index is its own.
LEMMA RunsStep ==
  ASSUME TypeOK, ThreadsAreSound, PlacesAreHeld, RunsInTurn, Next
  PROVE  RunsInTurn'
<1> USE DEF Goto, OfToken, Threads
<1>0. /\ Clients \cap Workers = {}
      /\ pc \in [Threads -> {"idle", "allocate", "closing", "closed", "join", "gone", "test",
                            "take", "turn", "run", "consume", "valid", "renew", "exited", "abort"}]
      /\ task \in [Threads -> Task] /\ queue \in Seq(Task)
  BY WorkTokenAssumption DEF TypeOK
<1>1. ASSUME NEW w \in Workers, WaitForIdx(w) PROVE RunsInTurn'
  <2>1. /\ w \in InHand /\ task[w].place \in Out
        /\ Idx(executed) = Idx(task[w].place)
    BY <1>1, <1>0 DEF WaitForIdx, MyTurn, ThreadsAreSound, InHand, PlacesAreHeld
  <2>2. task[w].place = executed
    BY <2>1, IdxTellsApart, WorkTokenAssumption DEF Out, TypeOK, PlacesAreHeld
  <2> QED
    BY <1>1, <2>2, <1>0 DEF WaitForIdx, RunsInTurn, Running
<1>2. ASSUME NEW w \in Workers, ConsumeIdx(w) PROVE RunsInTurn'
  <2>1. w \in Running /\ task[w].place = executed
    BY <1>2, <1>0 DEF ConsumeIdx, RunsInTurn, Running, ThreadsAreSound
  <2>2. \A u \in Running : u = w
    BY <2>1, <1>0 DEF RunsInTurn, Running, PlacesAreHeld, InHand
  <2>3. Running' = {}
    BY <1>2, <2>1, <2>2, <1>0 DEF ConsumeIdx, Running
  <2> QED
    BY <2>3 DEF RunsInTurn
<1>3. ASSUME NEW w \in Workers, Take(w) PROVE RunsInTurn'
  <2>1. CASE queue = <<>>
    BY <1>3, <2>1, <1>0 DEF Take, RunsInTurn, Running
  <2>2. CASE queue # <<>>
    BY <1>3, <2>2, <1>0 DEF Take, RunsInTurn, Running
  <2> QED
    BY <2>1, <2>2
<1>4. ASSUME NEW w \in Workers, TestRunning(w) \/ Run(w) \/ Validate(w) \/ Renew(w)
      PROVE  RunsInTurn'
  <2>1. Running' = Running /\ \A u \in Running : task'[u] = task[u]
    BY <1>4, <1>0 DEF TestRunning, Run, Validate, Renew, NewIdx, Running
  <2> QED
    BY <1>4, <2>1 DEF RunsInTurn, TestRunning, Run, Validate, Renew
<1>5. ASSUME NEW t \in Threads, Allocate(t) PROVE RunsInTurn'
  BY <1>5, <1>0 DEF Allocate, RunsInTurn, Running
<1>6. ASSUME NEW c \in Clients,
             Enqueue(c) \/ EnqueueAgainst(c) \/ Invalidate(c) \/ AwaitTasks(c) \/ StopPool(c)
               \/ JoinWorkers(c)
      PROVE  RunsInTurn'
  <2>1. /\ \A w \in Workers : pc'[w] = pc[w] /\ task'[w] = task[w]
        /\ executed' = executed
    BY <1>6, <1>0 DEF Enqueue, EnqueueAgainst, Invalidate, AwaitTasks, StopPool, JoinWorkers
  <2> QED
    BY <2>1 DEF RunsInTurn, Running
<1> QED
  BY <1>1, <1>2, <1>3, <1>4, <1>5, <1>6 DEF Next, ClientCall, ThreadStep

\* Queues, tasks and counters stay of their types.
LEMMA TypingStep ==
  ASSUME TypeOK, Next
  PROVE  TypeOK'
<1> USE WorkTokenAssumption DEF Goto, Threads, TypeOK
<1>1. ASSUME NEW c \in Clients, Enqueue(c) PROVE TypeOK'
  <2>1. NoTask \in Task
    BY DEF NoTask, Task
  <2> QED
    BY <1>1, <2>1 DEF Enqueue, MayCall
<1>2. ASSUME NEW c \in Clients, EnqueueAgainst(c) PROVE TypeOK'
  <2>1. task' \in [Threads -> Task]
    <3>1. PICK k \in Kinds \ {"plain"} :
            task' = [task EXCEPT ![c] = [kind |-> k, place |-> issued,
                                         left |-> IF k = "repeat" THEN MaxRepeats ELSE 0]]
      BY <1>2 DEF EnqueueAgainst
    <3>2. [kind |-> k, place |-> issued, left |-> IF k = "repeat" THEN MaxRepeats ELSE 0] \in Task
      BY DEF Task
    <3> QED
      BY <3>1, <3>2
  <2> QED
    BY <1>2, <2>1 DEF EnqueueAgainst, MayCall
<1>3. ASSUME NEW t \in Threads, Allocate(t) PROVE TypeOK'
  <2>1. /\ task[t] \in Task /\ queue' = Append(queue, task[t]) /\ Len(queue) < Capacity
    BY <1>3 DEF Allocate, HasSpace
  <2>2. queue' \in Seq(Task) /\ Len(queue') = Len(queue) + 1
    BY <2>1
  <2>3. Len(queue') <= Capacity
    BY <2>1, <2>2
  <2> QED
    BY <1>3, <2>2, <2>3 DEF Allocate
<1>4. ASSUME NEW w \in Workers, Take(w) PROVE TypeOK'
  <2>1. CASE queue = <<>>
    BY <1>4, <2>1 DEF Take
  <2>2. CASE queue # <<>>
    <3>1. Head(queue) \in Task /\ Tail(queue) \in Seq(Task) /\ Len(Tail(queue)) <= Capacity
      BY <2>2
    <3> QED
      BY <1>4, <2>2, <3>1 DEF Take
  <2> QED
    BY <2>1, <2>2
<1>5. ASSUME NEW w \in Workers, ConsumeIdx(w) PROVE TypeOK'
  BY <1>5 DEF ConsumeIdx
<1>6. ASSUME NEW w \in Workers, Renew(w) PROVE TypeOK'
  <2>1. [task[w] EXCEPT !.place = issued, !.left = @ - 1] \in Task
    <3>1. task[w] \in Task /\ issued \in Nat /\ task[w].left > 0
      BY <1>6 DEF Renew
    <3>2. task[w].left - 1 \in 0 .. MaxRepeats
      BY <3>1 DEF Task
    <3> QED
      BY ONLY <3>1, <3>2 DEF Task
  <2>2. task' = [task EXCEPT ![w] = [task[w] EXCEPT !.place = issued, !.left = @ - 1]]
    BY <1>6 DEF Renew, NewIdx
  <2>3. task' \in [Threads -> Task]
    BY <2>1, <2>2
  <2> QED
    BY <1>6, <2>3 DEF Renew
<1>7. ASSUME NEW c \in Clients, Invalidate(c) \/ AwaitTasks(c) \/ StopPool(c) \/ JoinWorkers(c)
      PROVE  TypeOK'
  BY <1>7 DEF Invalidate, AwaitTasks, StopPool, JoinWorkers
<1>8. ASSUME NEW w \in Workers, TestRunning(w) \/ WaitForIdx(w) \/ Run(w) \/ Validate(w)
      PROVE  TypeOK'
  BY <1>8 DEF TestRunning, WaitForIdx, Run, Validate
<1> QED
  BY <1>1, <1>2, <1>3, <1>4, <1>5, <1>6, <1>7, <1>8 DEF Next, ClientCall, ThreadStep

\* Threads stay where their kind can be, and only repeat functions repeat.
LEMMA SoundnessStep ==
  ASSUME TypeOK, ThreadsAreSound, RepeatsAreRepeats, RunsInTurn, Next
  PROVE  ThreadsAreSound' /\ RepeatsAreRepeats'
<1> USE DEF Goto, OfToken, Threads
<1>0. /\ Clients \cap Workers = {} /\ Owner \in Clients /\ MaxRepeats \in Nat
      /\ pc \in [Threads -> {"idle", "allocate", "closing", "closed", "join", "gone", "test",
                            "take", "turn", "run", "consume", "valid", "renew", "exited", "abort"}]
      /\ task \in [Threads -> Task] /\ queue \in Seq(Task)
  BY WorkTokenAssumption DEF TypeOK
<1>1. ASSUME NEW c \in Clients, Enqueue(c) \/ EnqueueAgainst(c)
      PROVE  ThreadsAreSound' /\ RepeatsAreRepeats'
  <2>1. /\ queue' = queue /\ pc[c] = "idle" /\ pc' = [pc EXCEPT ![c] = "allocate"]
    BY <1>1 DEF Enqueue, EnqueueAgainst, MayCall
  <2>2. /\ \A t \in Threads \ {c} : task'[t] = task[t]
        /\ task'[c].left > 0 => task'[c].kind = "repeat"
    <3>1. CASE Enqueue(c)
      BY <3>1, <1>0 DEF Enqueue, NoTask
    <3>2. CASE EnqueueAgainst(c)
      BY <3>2, <1>0 DEF EnqueueAgainst
    <3> QED
      BY <1>1, <3>1, <3>2
  <2>3. ThreadsAreSound'
    BY <2>1, <2>2, <1>0 DEF ThreadsAreSound
  <2>4. RepeatsAreRepeats'
    BY <2>1, <2>2, <1>0 DEF RepeatsAreRepeats
  <2> QED
    BY <2>3, <2>4
<1>2. ASSUME NEW t \in Threads, Allocate(t) PROVE ThreadsAreSound' /\ RepeatsAreRepeats'
  <2>1. ThreadsAreSound'
    BY <1>2, <1>0 DEF Allocate, ThreadsAreSound
  <2>2. ASSUME NEW i \in 1 .. Len(queue'), queue'[i].left > 0 PROVE queue'[i].kind = "repeat"
    BY <1>2, <2>2, <1>0 DEF Allocate, RepeatsAreRepeats
  <2> QED
    BY <1>2, <2>1, <2>2 DEF Allocate, RepeatsAreRepeats
<1>3. ASSUME NEW w \in Workers, Take(w) PROVE ThreadsAreSound' /\ RepeatsAreRepeats'
  <2>1. CASE queue = <<>>
    BY <1>3, <2>1, <1>0 DEF Take, ThreadsAreSound, RepeatsAreRepeats
  <2>2. CASE queue # <<>>
    <3>1. ThreadsAreSound'
      BY <1>3, <2>2, <1>0 DEF Take, ThreadsAreSound
    <3>2. ASSUME NEW i \in 1 .. Len(queue'), queue'[i].left > 0 PROVE queue'[i].kind = "repeat"
      <4>1. i + 1 \in 1 .. Len(queue) /\ queue'[i] = queue[i + 1]
        BY <1>3, <2>2, <1>0 DEF Take
      <4> QED
        BY <3>2, <4>1 DEF RepeatsAreRepeats
    <3>3. Head(queue).left > 0 => Head(queue).kind = "repeat"
      BY <2>2, <1>0 DEF RepeatsAreRepeats
    <3>4. \A t \in Threads : task'[t].left > 0 => task'[t].kind = "repeat"
      BY <1>3, <2>2, <3>3, <1>0 DEF Take, RepeatsAreRepeats
    <3> QED
      BY <3>1, <3>2, <3>4 DEF RepeatsAreRepeats
  <2> QED
    BY <2>1, <2>2
<1>4. ASSUME NEW w \in Workers, ConsumeIdx(w) PROVE ThreadsAreSound' /\ RepeatsAreRepeats'
  <2>1. task[w].place = executed
    BY <1>4, <1>0 DEF ConsumeIdx, RunsInTurn, Running, ThreadsAreSound
  <2> QED
    BY <1>4, <2>1, <1>0 DEF ConsumeIdx, ThreadsAreSound, RepeatsAreRepeats
<1>5. ASSUME NEW w \in Workers, Renew(w) PROVE ThreadsAreSound' /\ RepeatsAreRepeats'
  <2>1. /\ pc' = [pc EXCEPT ![w] = "allocate"] /\ queue' = queue
        /\ \A t \in Threads : task'[t].kind = task[t].kind
        /\ \A t \in Threads \ {w} : task'[t] = task[t]
        /\ task[w].left > 0
    BY <1>5, <1>0 DEF Renew, NewIdx, Task
  <2>2. ThreadsAreSound'
    BY <2>1, <1>0 DEF ThreadsAreSound
  <2>3. RepeatsAreRepeats'
    BY <2>1, <1>0 DEF RepeatsAreRepeats
  <2> QED
    BY <2>2, <2>3
<1>6. ASSUME NEW c \in Clients, Invalidate(c) \/ AwaitTasks(c) \/ StopPool(c) \/ JoinWorkers(c)
      PROVE  ThreadsAreSound' /\ RepeatsAreRepeats'
  <2>1. c = Owner /\ task' = task /\ queue' = queue
    BY <1>6, <1>0 DEF Invalidate, AwaitTasks, StopPool, JoinWorkers, ThreadsAreSound
  <2> QED
    BY <1>6, <2>1, <1>0
       DEF Invalidate, AwaitTasks, StopPool, JoinWorkers, ThreadsAreSound, RepeatsAreRepeats
<1>7. ASSUME NEW w \in Workers, TestRunning(w) \/ WaitForIdx(w) \/ Run(w) \/ Validate(w)
      PROVE  ThreadsAreSound' /\ RepeatsAreRepeats'
  BY <1>7, <1>0 DEF TestRunning, WaitForIdx, Run, Validate, ThreadsAreSound, RepeatsAreRepeats
<1> QED
  BY <1>1, <1>2, <1>3, <1>4, <1>5, <1>6, <1>7 DEF Next, ClientCall, ThreadStep

\* The destructor goes on when the indices are equal, and they are when no
\* function holds one; only workers whose functions repeat take new ones.
LEMMA ClosesStep ==
  ASSUME TypeOK, ThreadsAreSound, RepeatsAreRepeats, PlacesAreHeld, RunsInTurn, ClosesInOrder, Next
  PROVE  ClosesInOrder'
<1> USE DEF Goto, OfToken, Threads
<1>0. /\ Clients \cap Workers = {} /\ Owner \in Clients
      /\ pc \in [Threads -> {"idle", "allocate", "closing", "closed", "join", "gone", "test",
                            "take", "turn", "run", "consume", "valid", "renew", "exited", "abort"}]
      /\ task \in [Threads -> Task] /\ queue \in Seq(Task)
  BY WorkTokenAssumption DEF TypeOK
<1>1. ASSUME NEW c \in Clients, Enqueue(c) \/ EnqueueAgainst(c) PROVE ClosesInOrder'
  <2>1. valid /\ pc[c] = "idle" /\ pc' = [pc EXCEPT ![c] = "allocate"] /\ valid' = valid
    BY <1>1 DEF Enqueue, EnqueueAgainst, MayCall
  <2>2. ~Closed'
    BY <2>1, <1>0 DEF Closed, ClosesInOrder
  <2> QED
    BY <2>1, <2>2, <1>0 DEF ClosesInOrder
<1>2. ASSUME NEW t \in Threads, Allocate(t) PROVE ClosesInOrder'
  <2>1. /\ pc[t] = "allocate" /\ valid' = valid /\ task' = task
        /\ pc' = [pc EXCEPT ![t] = IF t \in Clients THEN "idle" ELSE "test"]
        /\ queue' = Append(queue, task[t])
    BY <1>2 DEF Allocate
  <2>2. /\ pc'[Owner] \in {"closing", "closed", "join", "gone"} => ~valid'
        /\ ~valid' => \A c \in Clients : pc'[c] # "allocate"
    BY <2>1, <1>0 DEF ClosesInOrder
  <2>3. ASSUME Closed' PROVE /\ \A i \in Queued' : queue'[i].kind = "repeat"
                             /\ \A u \in InHand' : task[u].kind = "repeat"
    <3>1. Closed
      BY <2>1, <2>3, <1>0 DEF Closed
    <3>2. OfToken(t) => task[t].kind = "repeat"
      BY <2>1, <3>1 DEF ClosesInOrder, InHand
    <3>3. ASSUME NEW i \in Queued' PROVE queue'[i].kind = "repeat"
      BY <2>1, <3>1, <3>2, <1>0 DEF ClosesInOrder, Queued
    <3>4. \A u \in InHand' : u \in InHand
      BY <2>1, <1>0 DEF InHand
    <3> QED
      BY <3>1, <3>3, <3>4 DEF ClosesInOrder
  <2> QED
    BY <2>1, <2>2, <2>3 DEF ClosesInOrder
<1>3. ASSUME NEW c \in Clients, AwaitTasks(c) PROVE ClosesInOrder'
  <2>1. /\ pc[c] = "closing" /\ c = Owner /\ Idx(executed) = Idx(issued)
        /\ UNCHANGED <<valid, queue, issued, executed, task>>
        /\ pc' = [pc EXCEPT ![c] = "closed"]
    BY <1>3 DEF AwaitTasks, AllDone, ThreadsAreSound
  <2>2. executed = issued
    BY <2>1, IdxTellsApart, WorkTokenAssumption DEF TypeOK, PlacesAreHeld
  <2>3. Out = {}
    BY <2>2 DEF Out, TypeOK
  <2>4. Queued = {} /\ InHand = {}
    BY <2>3 DEF PlacesAreHeld
  <2>5. Queued' = {} /\ InHand' = {}
    BY <2>1, <2>4, <1>0 DEF Queued, InHand
  <2> QED
    BY <2>1, <2>5, <1>0 DEF ClosesInOrder
<1>4. ASSUME NEW c \in Clients, Invalidate(c) \/ StopPool(c) \/ JoinWorkers(c)
      PROVE  ClosesInOrder'
  <2>1. /\ c = Owner /\ UNCHANGED <<queue, task>>
        /\ \A t \in Threads \ {c} : pc'[t] = pc[t]
        /\ pc'[c] # "allocate"
    BY <1>4, <1>0 DEF Invalidate, StopPool, JoinWorkers, ThreadsAreSound
  <2>2. Queued' = Queued /\ InHand' \subseteq InHand /\ (Closed' => Closed)
    BY <1>4, <2>1, <1>0 DEF Queued, InHand, Closed, Invalidate, StopPool, JoinWorkers
  <2> QED
    BY <1>4, <2>1, <2>2, <1>0 DEF ClosesInOrder, Invalidate, StopPool, JoinWorkers
<1>5. ASSUME NEW w \in Workers, Take(w) PROVE ClosesInOrder'
  <2>1. /\ valid' = valid /\ \A c \in Clients : pc'[c] = pc[c]
        /\ Closed' <=> Closed
    BY <1>5, <1>0 DEF Take, Closed
  <2>2. CASE queue = <<>>
    <3>1. Queued' = Queued /\ InHand' = InHand /\ queue' = queue /\ task' = task
      BY <1>5, <2>2, <1>0 DEF Take, Queued, InHand
    <3> QED
      BY <2>1, <3>1, <1>0 DEF ClosesInOrder
  <2>3. CASE queue # <<>>
    <3>1. ASSUME Closed, NEW i \in Queued' PROVE queue'[i].kind = "repeat"
      <4>1. i + 1 \in Queued /\ queue'[i] = queue[i + 1]
        BY <1>5, <2>3, <1>0 DEF Take, Queued
      <4> QED
        BY <3>1, <4>1 DEF ClosesInOrder
    <3>2. ASSUME Closed, NEW u \in InHand' PROVE task'[u].kind = "repeat"
      <4>1. CASE u = w
        <5>1. task'[u] = queue[1] /\ 1 \in Queued
          BY <1>5, <2>3, <3>2, <4>1, <1>0 DEF Take, Queued, InHand
        <5> QED
          BY <3>2, <5>1 DEF ClosesInOrder
      <4>2. CASE u # w
        BY <1>5, <2>3, <3>2, <4>2, <1>0 DEF Take, InHand, ClosesInOrder
      <4> QED
        BY <4>1, <4>2
    <3> QED
      BY <2>1, <3>1, <3>2, <1>0 DEF ClosesInOrder
  <2> QED
    BY <2>2, <2>3
<1>6. ASSUME NEW w \in Workers,
             TestRunning(w) \/ WaitForIdx(w) \/ Run(w) \/ ConsumeIdx(w) \/ Validate(w)
      PROVE  ClosesInOrder'
  <2>1. /\ UNCHANGED <<valid, queue, task>> /\ \A c \in Clients : pc'[c] = pc[c]
        /\ Closed' <=> Closed
    BY <1>6, <1>0 DEF TestRunning, WaitForIdx, Run, ConsumeIdx, Validate, Closed
  <2>2. Queued' = Queued /\ InHand' \subseteq InHand
    BY <1>6, <2>1, <1>0 DEF TestRunning, WaitForIdx, Run, ConsumeIdx, Validate, Queued, InHand
  <2> QED
    BY <2>1, <2>2, <1>0 DEF ClosesInOrder
<1>7. ASSUME NEW w \in Workers, Renew(w) PROVE ClosesInOrder'
  <2>1. /\ UNCHANGED <<valid, queue>> /\ \A c \in Clients : pc'[c] = pc[c]
        /\ Closed' <=> Closed
        /\ \A t \in Threads : task'[t].kind = task[t].kind
        /\ task[w].kind = "repeat"
    BY <1>7, <1>0 DEF Renew, NewIdx, Closed, RepeatsAreRepeats, Task
  <2>2. Queued' = Queued /\ InHand' \subseteq InHand \cup {w}
    BY <1>7, <2>1, <1>0 DEF Renew, Queued, InHand
  <2>3. InHand \subseteq Threads
    BY DEF InHand
  <2> QED
    BY <2>1, <2>2, <2>3, <1>0 DEF ClosesInOrder
<1> QED
  BY <1>1, <1>2, <1>3, <1>4, <1>5, <1>6, <1>7 DEF Next, ClientCall, ThreadStep

-----------------------------------------------------------------------------
\* What holds at the start and is kept by every step.
LEMMA TurnsAreKept == Spec => []TurnInv
<1>1. Init => TurnInv
  <2> SUFFICES ASSUME Init PROVE TurnInv
    OBVIOUS
  <2>1. TypeOK
    BY WorkTokenAssumption DEF Init, TypeOK, Threads, NoTask, Task
  <2>2. ThreadsAreSound /\ RepeatsAreRepeats
    BY WorkTokenAssumption DEF Init, ThreadsAreSound, RepeatsAreRepeats, Threads, NoTask, OfToken
  <2>3. Queued = {} /\ InHand = {} /\ Out = {} /\ Running = {}
    BY DEF Init, Queued, InHand, Out, Running, OfToken, NoTask, Threads
  <2>4. PlacesAreHeld /\ RunsInTurn
    BY <2>3, WorkTokenAssumption DEF Init, PlacesAreHeld, RunsInTurn
  <2>5. ClosesInOrder
    BY <2>3, WorkTokenAssumption DEF Init, ClosesInOrder, Closed, Threads
  <2> QED
    BY <2>1, <2>2, <2>4, <2>5 DEF TurnInv
<1>2. TurnInv /\ [Next]_vars => TurnInv'
  <2> SUFFICES ASSUME TurnInv, [Next]_vars PROVE TurnInv'
    OBVIOUS
  <2>1. CASE Next
    BY <2>1, TypingStep, SoundnessStep, PlacesStep, RunsStep, ClosesStep DEF TurnInv
  <2>2. CASE UNCHANGED vars
    BY <2>2 DEF vars, TurnInv, TypeOK, ThreadsAreSound, RepeatsAreRepeats, PlacesAreHeld, Out,
                RunsInTurn, ClosesInOrder, Closed, Queued, InHand, Running, OfToken
  <2> QED
    BY <2>1, <2>2
<1> QED
  BY <1>1, <1>2, PTL DEF Spec

\* At most one thread is in what has one place.
LEMMA AtMostOne ==
  ASSUME NEW S, \A x, y \in S : x = y
  PROVE  Cardinality(S) <= 1
<1>1. CASE S = {}
  BY <1>1, FS_EmptySet
<1>2. CASE S # {}
  <2>1. PICK x : S = {x}
    BY <1>2
  <2> QED
    BY <2>1, FS_Singleton
<1> QED
  BY <1>1, <1>2

\* Tasks of the token run one at a time and in the order they were enqueued,
\* whatever the workers, and consume_idx() never finds another index than its
\* own, though indices wrap (threading.hpp: wait_for_idx, consume_idx).
THEOREM Turns == Spec => []InTurn
<1>1. TurnInv => InTurn
  <2> SUFFICES ASSUME TurnInv PROVE InTurn
    OBVIOUS
  <2>1. \A s, t \in Running : s = t
    BY DEF TurnInv, RunsInTurn, PlacesAreHeld, Running, InHand, Threads
  <2>2. Cardinality(Running) <= 1
    BY <2>1, AtMostOne
  <2> QED
    BY <2>2 DEF TurnInv, InTurn, RunsInTurn, ThreadsAreSound
<1> QED
  BY <1>1, TurnsAreKept, PTL

\* When the destructor of the token has waited, only functions that repeat are
\* still in the queue or with a worker (threading.hpp: ~work_token_t).
THEOREM Waits == Spec => []OnlyRepeatsOutlive
<1>1. TurnInv => OnlyRepeatsOutlive
  <2> SUFFICES ASSUME TurnInv, Closed, NEW j \in UsingToken PROVE j.kind = "repeat"
    BY DEF OnlyRepeatsOutlive
  <2>1. CASE \E i \in Queued : j = queue[i]
    BY <2>1 DEF TurnInv, ClosesInOrder
  <2>2. ASSUME NEW w \in Workers, OfToken(w), j = task[w],
               pc[w] \in {"turn", "run", "consume", "allocate"}
        PROVE  j.kind = "repeat"
    BY <2>2 DEF TurnInv, ClosesInOrder, InHand, Threads
  <2>3. ASSUME NEW w \in Workers, j = task[w], pc[w] \in {"valid", "renew"}
        PROVE  j.kind = "repeat"
    BY <2>3 DEF TurnInv, ThreadsAreSound, RepeatsAreRepeats, Threads
  <2> QED
    BY <2>1, <2>2, <2>3 DEF UsingToken
<1> QED
  BY <1>1, TurnsAreKept, PTL

\* Every index that is out is held by one function, and one that is out is
\* held: the count of the holders is that of the indices between the counters
\* (threading.hpp: generate_idx, consume_idx).
THEOREM Holders == Spec => []IndicesAreHeld
<1>1. TurnInv => IndicesAreHeld
  <2> SUFFICES ASSUME TurnInv PROVE IndicesAreHeld
    OBVIOUS
  <2> DEFINE QP == {queue[i].place : i \in Queued}
             HP == {task[t].place : t \in InHand}
             q == [i \in Queued |-> queue[i].place]
             h == [t \in InHand |-> task[t].place]
  <2>1. QP \cup HP = Out /\ QP \cap HP = {}
    BY DEF TurnInv, PlacesAreHeld
  <2>2. issued \in Nat /\ executed \in Nat /\ executed <= issued
    BY DEF TurnInv, PlacesAreHeld, TypeOK
  <2>3. IsFiniteSet(Out) /\ Cardinality(Out) = issued - executed
    <3>1. executed \in Int /\ issued - 1 \in Int
      BY <2>2
    <3>2. /\ IsFiniteSet(executed .. (issued - 1))
          /\ Cardinality(executed .. (issued - 1))
               = IF executed > issued - 1 THEN 0 ELSE (issued - 1) - executed + 1
      BY <3>1, FS_Interval
    <3>3. (IF executed > issued - 1 THEN 0 ELSE (issued - 1) - executed + 1) = issued - executed
      BY <2>2
    <3> QED
      BY <3>2, <3>3 DEF Out
  <2>4. IsFiniteSet(QP) /\ IsFiniteSet(HP)
    BY <2>1, <2>3, FS_Subset
  <2>5. Cardinality(QP) + Cardinality(HP) = issued - executed
    <3>1. Cardinality(QP \cap HP) = 0
      BY <2>1, FS_EmptySet
    <3>2. Cardinality(QP) \in Nat /\ Cardinality(HP) \in Nat
      BY <2>4, FS_CardinalityType
    <3> HIDE DEF QP, HP
    <3> QED
      BY <2>1, <2>3, <2>4, <3>1, <3>2, FS_Union
  <2>6. Cardinality(Queued) = Cardinality(QP)
    <3>1. q \in Injection(Queued, QP) /\ q \in Surjection(Queued, QP)
      BY DEF Injection, Surjection, IsInjective, TurnInv, PlacesAreHeld
    <3> QED
      BY <3>1, <2>4, FS_Injection
  <2>7. Cardinality(InHand) = Cardinality(HP)
    <3>1. h \in Injection(InHand, HP) /\ h \in Surjection(InHand, HP)
      BY DEF Injection, Surjection, IsInjective, TurnInv, PlacesAreHeld
    <3> QED
      BY <3>1, <2>4, FS_Injection
  <2> QED
    BY <2>1, <2>5, <2>6, <2>7 DEF IndicesAreHeld, OneHolderEach, TurnInv, Out
<1> QED
  BY <1>1, TurnsAreKept, PTL
=============================================================================
