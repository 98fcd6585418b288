----------------------------- MODULE WorkToken -----------------------------
(***************************************************************************)
(* work_token_t, the thread_work_provider_t functions that enqueue work    *)
(* against it, and thread_pool_t, of include/atma/threading.hpp.  Tasks    *)
(* enqueued against one token run one at a time in the order they were     *)
(* enqueued in, whichever worker of the pool picks them up: each takes the *)
(* next index of the token, and the worker that picked it up waits for its *)
(* turn.  The queue is what MessageChannel promises; a slot stands for the *)
(* space of one function, and is free again once a worker has copied it.   *)
(***************************************************************************)
EXTENDS Naturals, Sequences, FiniteSets

CONSTANTS
  Clients,      \* threads that enqueue work
  Owner,        \* the client that destroys the token, and then the pool
  Workers,      \* the threads of the pool
  Capacity,     \* how many functions the queue holds
  Kinds,        \* the functions clients enqueue
  IdxMod,       \* an index is a uint16
  MaxCalls,     \* bound: how many functions each client enqueues
  MaxRepeats,   \* bound: how often a repeat function returns true
  MaxPending    \* bound: how many indices are out at a time

ASSUME WorkTokenAssumption ==
  /\ Owner \in Clients
  /\ Clients \cap Workers = {}
  /\ Kinds \subseteq {"plain", "once", "repeat"}
  /\ Capacity \in Nat \ {0} /\ IdxMod \in Nat \ {0}
  /\ MaxCalls \in Nat /\ MaxRepeats \in Nat
  /\ MaxPending \in 0 .. IdxMod - 1     \* fewer functions are out than there are indices

\* A function in the queue: enqueue()'s, enqueue_against()'s or
\* enqueue_repeat_against()'s. Its index is that of its place in the order,
\* counted without wrapping.
Task == [kind : {"plain", "once", "repeat"}, place : Nat, left : 0 .. MaxRepeats]
Idx(place) == place % IdxMod

VARIABLES
  running,   \* the pool's running_
  queue,     \* the pool's queue_
  valid,     \* the token's flags_
  issued,    \* how many indices were generated: write_idx is Idx(issued)
  executed,  \* how many were consumed: read_idx is Idx(executed)
  pc,        \* where each client and each worker is
  task,      \* the function each of them has in hand
  calls      \* the number of functions a client has enqueued

vars == <<running, queue, valid, issued, executed, pc, task, calls>>

Threads == Clients \cup Workers
NoTask == [kind |-> "plain", place |-> 0, left |-> 0]

Init ==
  /\ running = TRUE
  /\ queue = <<>>
  /\ valid = TRUE
  /\ issued = 0
  /\ executed = 0
  /\ pc = [t \in Threads |-> IF t \in Clients THEN "idle" ELSE "test"]
  /\ task = [t \in Threads |-> NoTask]
  /\ calls = [c \in Clients |-> 0]

Goto(t, l) == pc' = [pc EXCEPT ![t] = l]
OfToken(t) == task[t].kind # "plain"

HasSpace == Len(queue) < Capacity

-----------------------------------------------------------------------------
(* Clients. *)

\* The token and the pool are not used any more once they are being destroyed.
MayCall(c) == pc[c] = "idle" /\ calls[c] < MaxCalls /\ valid

\* enqueue().
Enqueue(c) ==
  /\ MayCall(c)
  /\ "plain" \in Kinds
  /\ calls' = [calls EXCEPT ![c] = @ + 1]
  /\ task' = [task EXCEPT ![c] = NoTask]
  /\ Goto(c, "allocate")
  /\ UNCHANGED <<running, queue, valid, issued, executed>>

\* enqueue_against() and enqueue_repeat_against(), up to enqueue().
EnqueueAgainst(c) ==
  /\ MayCall(c)
  /\ issued - executed < MaxPending
  /\ calls' = [calls EXCEPT ![c] = @ + 1]
  /\ \E k \in Kinds \ {"plain"} :
       task' = [task EXCEPT ![c] =
                 [kind |-> k, place |-> issued, left |-> IF k = "repeat" THEN MaxRepeats ELSE 0]]
  /\ issued' = issued + 1
  /\ Goto(c, "allocate")
  /\ UNCHANGED <<running, queue, valid, executed>>

\* with_allocation(): by a client, or by a worker whose function repeats.
Allocate(t) ==
  /\ pc[t] = "allocate"
  /\ HasSpace
  /\ queue' = Append(queue, task[t])
  /\ Goto(t, IF t \in Clients THEN "idle" ELSE "test")
  /\ UNCHANGED <<running, valid, issued, executed, task, calls>>

\* ~work_token_t(), when no client is in a call that uses it.
Invalidate(c) ==
  /\ c = Owner
  /\ valid
  /\ \A d \in Clients : pc[d] = "idle"
  /\ valid' = FALSE
  /\ Goto(c, "closing")
  /\ UNCHANGED <<running, queue, issued, executed, task, calls>>

\* while (read_idx != write_idx). (MostDone: a mutant that is off by one.)
MostDone == Idx(executed) = Idx(issued) \/ Idx(executed + 1) = Idx(issued)
AllDone == Idx(executed) = Idx(issued)

AwaitTasks(c) ==
  /\ pc[c] = "closing"
  /\ AllDone
  /\ Goto(c, "closed")
  /\ UNCHANGED <<running, queue, valid, issued, executed, task, calls>>

\* ~thread_pool_t().
StopPool(c) ==
  /\ pc[c] = "closed"
  /\ running' = FALSE
  /\ Goto(c, "join")
  /\ UNCHANGED <<queue, valid, issued, executed, task, calls>>

JoinWorkers(c) ==
  /\ pc[c] = "join"
  /\ \A w \in Workers : pc[w] = "exited"
  /\ Goto(c, "gone")
  /\ UNCHANGED <<running, queue, valid, issued, executed, task, calls>>

-----------------------------------------------------------------------------
(* Workers: worker_thread_runloop(). *)

TestRunning(w) ==
  /\ pc[w] = "test"
  /\ Goto(w, IF running THEN "take" ELSE "exited")
  /\ UNCHANGED <<running, queue, valid, issued, executed, task, calls>>

\* with_consumption() copies the function out of the queue, then it is called.
Take(w) ==
  /\ pc[w] = "take"
  /\ IF queue = <<>>
     THEN Goto(w, "test") /\ UNCHANGED <<queue, task>>
     ELSE /\ task' = [task EXCEPT ![w] = Head(queue)]
          /\ queue' = Tail(queue)
          /\ Goto(w, IF Head(queue).kind = "plain" THEN "run" ELSE "turn")
  /\ UNCHANGED <<running, valid, issued, executed, calls>>

\* wait_for_idx(). (AnyTurn: a mutant that does not wait.)
AnyTurn(w) == TRUE
MyTurn(w) == Idx(executed) = Idx(task[w].place)

WaitForIdx(w) ==
  /\ pc[w] = "turn"
  /\ MyTurn(w)
  /\ Goto(w, "run")
  /\ UNCHANGED <<running, queue, valid, issued, executed, task, calls>>

Run(w) ==
  /\ pc[w] = "run"
  /\ Goto(w, IF OfToken(w) THEN "consume" ELSE "test")
  /\ UNCHANGED <<running, queue, valid, issued, executed, task, calls>>

\* consume_idx().

ConsumeIdx(w) ==
  /\ pc[w] = "consume"
  /\ IF Idx(executed) = Idx(task[w].place)
     THEN /\ executed' = executed + 1
          /\ Goto(w, IF task[w].left > 0 THEN "valid" ELSE "test")
     ELSE UNCHANGED executed /\ Goto(w, "abort")     \* ATMA_ENSURE
  /\ UNCHANGED <<running, queue, valid, issued, task, calls>>

\* r && tk.valid().
Validate(w) ==
  /\ pc[w] = "valid"
  /\ Goto(w, IF valid THEN "renew" ELSE "test")
  /\ UNCHANGED <<running, queue, valid, issued, executed, task, calls>>

\* A repeat function takes a new index before it is enqueued again.
\* (SameIdx: a mutant in which it keeps the one it has.)
SameIdx(w) == [task EXCEPT ![w].left = @ - 1]
NewIdx(w) == [task EXCEPT ![w].place = issued, ![w].left = @ - 1]

\* idx = tk.generate_idx(), then enqueue_repeat(fn).
Renew(w) ==
  /\ pc[w] = "renew"
  /\ task[w].left > 0
  /\ issued - executed < MaxPending
  /\ task' = NewIdx(w)
  /\ issued' = issued + 1
  /\ Goto(w, "allocate")
  /\ UNCHANGED <<running, queue, valid, executed, calls>>

-----------------------------------------------------------------------------
ClientCall(c) == Enqueue(c) \/ EnqueueAgainst(c) \/ Invalidate(c)

ThreadStep(t) ==
  \/ Allocate(t)
  \/ t \in Clients /\ (AwaitTasks(t) \/ StopPool(t) \/ JoinWorkers(t))
  \/ t \in Workers /\ (TestRunning(t) \/ Take(t) \/ WaitForIdx(t) \/ Run(t)
                         \/ ConsumeIdx(t) \/ Validate(t) \/ Renew(t))

Next == (\E c \in Clients : ClientCall(c)) \/ (\E t \in Threads : ThreadStep(t))

Spec == Init /\ [][Next]_vars

-----------------------------------------------------------------------------
(* Properties. *)

TypeOK ==
  /\ running \in BOOLEAN /\ valid \in BOOLEAN
  /\ queue \in Seq(Task)
  /\ Len(queue) <= Capacity
  /\ issued \in Nat /\ executed \in Nat
  /\ pc \in [Threads -> {"idle", "allocate", "closing", "closed", "join", "gone", "test",
                         "take", "turn", "run", "consume", "valid", "renew", "exited", "abort"}]
  /\ task \in [Threads -> Task]
  /\ calls \in [Clients -> 0 .. MaxCalls]

Running == {w \in Workers : pc[w] \in {"run", "consume"} /\ OfToken(w)}

\* Tasks of the token run one at a time and in the order of their enqueueing,
\* and the assertion in consume_idx() never fires, over any number of wraps of
\* the 16-bit indices.
InTurn ==
  /\ \A w \in Running : task[w].place = executed
  /\ Cardinality(Running) <= 1
  /\ \A w \in Workers : pc[w] # "abort"

\* Every index between the two counters belongs to one function, which waits
\* for its turn or has it: none is lost, and none is held twice.
Queued == {i \in 1 .. Len(queue) : queue[i].kind # "plain"}
InHand == {t \in Threads : OfToken(t) /\ pc[t] \in {"allocate", "turn", "run", "consume"}}
OneHolderEach ==
  /\ {queue[i].place : i \in Queued} \cup {task[t].place : t \in InHand}
       = executed .. (issued - 1)
  /\ Cardinality(Queued) + Cardinality(InHand) = issued - executed

\* The indices that are out are those of functions that are still to run.
IndicesAreHeld == TypeOK /\ OneHolderEach

\* ~work_token_t(): "wait until all our tasks are finished". Once it returns,
\* no function that may use the token is in the hands of a worker or in the queue.
Closed == pc[Owner] \in {"closed", "join", "gone"}
UsingToken ==
  {task[w] : w \in {v \in Workers : OfToken(v)
                      /\ pc[v] \in {"turn", "run", "consume", "valid", "renew", "allocate"}}}
    \cup {queue[i] : i \in Queued}
TokenOutlivesTasks == Closed => UsingToken = {}

\* Without repeat functions it is true: the token's destructor returns only
\* after every function that runs once is done with it, though the indices wrap
\* (as long as fewer functions are outstanding than there are indices).
OnlyRepeatsOutlive == Closed => \A j \in UsingToken : j.kind = "repeat"
=============================================================================
