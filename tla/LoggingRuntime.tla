--------------------------- MODULE LoggingRuntime ---------------------------
(***************************************************************************)
(* The logging runtimes (include/atma/logging.hpp).                        *)
(*                                                                         *)
(* A runtime has a queue and a thread.  Everything asked of a runtime -    *)
(* to attach a handler, to log, to flush - is a command in its queue, and  *)
(* its thread does the commands in turn: only that thread touches the      *)
(* runtime's handlers and replicants.  A message is handled by every       *)
(* handler and then queued with each replicant, together with the runtimes *)
(* it has visited.                                                         *)
(*                                                                         *)
(* The list of visited runtimes is written as a count and pointers and     *)
(* read as a count of bytes: what a replicant reads has no visited runtime *)
(* and another level and text than were logged.  Such a message is         *)
(* Garbled; it may be too large to fit in any queue.                       *)
(*                                                                         *)
(* The queue is the message channel that RingQueue implements: commands    *)
(* come out in the order they went in, and a caller waits while it is full.*)
(* accepted keeps, for each runtime, the commands its clients have queued. *)
(***************************************************************************)
EXTENDS Naturals, Sequences, FiniteSets

CONSTANTS
    Runtimes, Threads, Hands,   \* Hands: the handlers
    Nothing,
    Default, Console,   \* the default runtime, and the handler attached at the start
    QueueSize,      \* commands that fit in the queue of a runtime
    MaxCommands     \* bound: commands given by threads

ASSUME RuntimeAssumption ==
    /\ Default \in Runtimes /\ Console \in Hands
    /\ Nothing \notin Runtimes \cup Nat
    /\ QueueSize \in Nat /\ MaxCommands \in Nat

VARIABLES
    running,    \* runtime -> it has not been destroyed
    queue,      \* runtime -> commands; the first stays until it is done
    handlers,   \* runtime -> the set of its handlers
    replicants, \* runtime -> the runtimes connected to it, in order
    work,       \* runtime -> the message its thread has handled and is passing on
    flushing,   \* thread -> the runtime whose flush it waits for, or Nothing
    seen,       \* handler -> the messages it was given, garbled ones aside
    accepted,
    dangled     \* a thread went on to use a runtime that was destroyed

vars == <<running, queue, handlers, replicants, work, flushing, seen, accepted, dangled>>

LOCAL INSTANCE Functions

Idle == [msg |-> Nothing, left |-> <<>>]

Setup(r) == IF r = Default THEN <<[op |-> "attach", arg |-> Console]>> ELSE <<>>

Init ==
    /\ running = [r \in Runtimes |-> TRUE]
    /\ queue = [r \in Runtimes |-> Setup(r)]
    /\ handlers = [r \in Runtimes |-> {}]
    /\ replicants = [r \in Runtimes |-> <<>>]
    /\ work = [r \in Runtimes |-> Idle]
    /\ flushing = [t \in Threads |-> Nothing]
    /\ seen = [h \in Hands |-> <<>>]
    /\ accepted = [r \in Runtimes |-> Setup(r)]
    /\ dangled = FALSE

-----------------------------------------------------------------------------
(* Commands                                                                *)

Commands == FoldFunction(LAMBDA q, n : n + Len(q), 0, accepted)

(* A command in the queue of a runtime.                                    *)
Command(t, r, c) ==
    /\ flushing[t] = Nothing /\ running[r]
    /\ Commands < MaxCommands
    /\ Len(queue[r]) < QueueSize
    /\ queue' = [queue EXCEPT ![r] = Append(@, c)]
    /\ accepted' = [accepted EXCEPT ![r] = Append(@, c)]
    /\ UNCHANGED <<running, handlers, replicants, work, seen, dangled>>

ConnectReplicant(t, r, x) ==
    Command(t, r, [op |-> "connect", arg |-> x]) /\ UNCHANGED flushing
DisconnectReplicant(t, r, x) ==
    Command(t, r, [op |-> "disconnect", arg |-> x]) /\ UNCHANGED flushing
AttachHandler(t, r, h) == Command(t, r, [op |-> "attach", arg |-> h]) /\ UNCHANGED flushing
DetachHandlerAtOnce(t, r, h) ==    \* mutant: on the caller's thread
    /\ flushing[t] = Nothing /\ running[r] /\ Commands < MaxCommands
    /\ handlers' = [handlers EXCEPT ![r] = @ \ {h}]
    /\ accepted' = [accepted EXCEPT ![r] = Append(@, [op |-> "detach", arg |-> h])]
    /\ UNCHANGED <<running, queue, replicants, work, flushing, seen, dangled>>
DetachHandler(t, r, h) == Command(t, r, [op |-> "detach", arg |-> h]) /\ UNCHANGED flushing

(* A message is known by the order in which it was accepted.               *)
Log(t, r) ==
    /\ Command(t, r, [op |-> "send", visited |-> <<>>, text |-> Len(accepted[r]) + 1])
    /\ UNCHANGED flushing

Flush(t, r) ==
    /\ Command(t, r, [op |-> "flush", arg |-> t])
    /\ flushing' = [flushing EXCEPT ![t] = r]

(* ~logging_runtime_t stops the thread after the command it is doing, and  *)
(* leaves the queue as it is.                                              *)
Destroy(r) ==
    /\ running[r] /\ work[r] = Idle
    /\ running' = [running EXCEPT ![r] = FALSE]
    /\ UNCHANGED <<queue, handlers, replicants, work, flushing, seen, accepted, dangled>>

-----------------------------------------------------------------------------
(* The thread of a runtime                                                 *)

Garbled == [op |-> "send", visited |-> <<>>, text |-> Nothing]

(* What the thread makes of a message it reads.                            *)
Decoded(m) == IF m.visited = <<>> THEN m ELSE Garbled

Next1(r) == Head(queue[r])
Ready(r, op) == running[r] /\ work[r] = Idle /\ queue[r] # <<>> /\ Next1(r).op = op
Pop(r) == queue' = [queue EXCEPT ![r] = Tail(@)]

DistConnectReplicant(r) ==
    /\ Ready(r, "connect") /\ Pop(r)
    /\ replicants' = [replicants EXCEPT ![r] = Append(@, Next1(r).arg)]
    /\ UNCHANGED <<running, handlers, work, flushing, seen, accepted, dangled>>

(* The replicant and every one connected after it are erased.              *)
DistDisconnectReplicant(r) ==
    /\ Ready(r, "disconnect") /\ Pop(r)
    /\ LET at == {i \in DOMAIN replicants[r] : replicants[r][i] = Next1(r).arg}
       IN  \/ at = {} /\ UNCHANGED replicants
           \/ \E i \in at :
                /\ \A j \in at : i <= j
                /\ replicants' = [replicants EXCEPT ![r] = SubSeq(@, 1, i - 1)]
    /\ UNCHANGED <<running, handlers, work, flushing, seen, accepted, dangled>>

DistAttachHandler(r) ==
    /\ Ready(r, "attach") /\ Pop(r)
    /\ handlers' = [handlers EXCEPT ![r] = @ \cup {Next1(r).arg}]
    /\ UNCHANGED <<running, replicants, work, flushing, seen, accepted, dangled>>

DistDetachHandler(r) ==
    /\ Ready(r, "detach") /\ Pop(r)
    /\ handlers' = [handlers EXCEPT ![r] = @ \ {Next1(r).arg}]
    /\ UNCHANGED <<running, replicants, work, flushing, seen, accepted, dangled>>

(* Every handler is given the message; then the replicants, if there are   *)
(* any, one after the other.                                               *)
DistLog(r) ==
    /\ Ready(r, "send")
    /\ LET m == Decoded(Next1(r))
           been == \E i \in DOMAIN m.visited : m.visited[i] = r
       IN  /\ seen' = [h \in Hands |->
                          IF been \/ m = Garbled \/ h \notin handlers[r] THEN seen[h]
                          ELSE Append(seen[h], [from |-> r, text |-> m.text])]
           /\ IF been \/ replicants[r] = <<>>
              THEN Pop(r) /\ UNCHANGED work
              ELSE /\ work' = [work EXCEPT ![r] = [msg |-> m, left |-> replicants[r]]]
                   /\ UNCHANGED queue
    /\ UNCHANGED <<running, handlers, replicants, flushing, accepted, dangled>>

(* The thread waits while the replicant's queue is full, and for ever with *)
(* a message that fits in no queue.                                        *)
PassOn(r) ==
    LET w == work[r]
        x == Head(w.left)
        copy == [w.msg EXCEPT !.visited = Append(@, r)]
        last == Len(w.left) = 1
        added == [queue EXCEPT ![x] = Append(@, copy)]
    IN  /\ w # Idle
        /\ IF ~running[x]
           THEN dangled' = TRUE /\ UNCHANGED <<queue, work>>
           ELSE /\ Len(queue[x]) < QueueSize
                /\ queue' = IF last THEN [added EXCEPT ![r] = Tail(@)] ELSE added
                /\ work' = [work EXCEPT ![r] =
                               IF last THEN Idle ELSE [w EXCEPT !.left = Tail(@)]]
                /\ UNCHANGED dangled
        /\ UNCHANGED <<running, handlers, replicants, flushing, seen, accepted>>

DistFlushFirst(r) ==    \* mutant: a flush is found wherever it is in the queue
    /\ running[r] /\ work[r] = Idle
    /\ \E i \in DOMAIN queue[r] :
         /\ queue[r][i].op = "flush"
         /\ queue' = [queue EXCEPT ![r] = SubSeq(@, 1, i - 1) \o SubSeq(@, i + 1, Len(@))]
         /\ flushing' = [flushing EXCEPT ![queue[r][i].arg] = Nothing]
    /\ UNCHANGED <<running, handlers, replicants, work, seen, accepted, dangled>>

DistFlushSilently(r) ==    \* mutant: the flag is not set
    /\ Ready(r, "flush") /\ Pop(r)
    /\ UNCHANGED <<running, handlers, replicants, work, flushing, seen, accepted, dangled>>

(* The command sets the flag that the flushing thread watches; the thread  *)
(* goes on when it reads it.                                               *)
DistFlush(r) ==
    /\ Ready(r, "flush") /\ Pop(r)
    /\ flushing' = [flushing EXCEPT ![Next1(r).arg] = Nothing]
    /\ UNCHANGED <<running, handlers, replicants, work, seen, accepted, dangled>>

-----------------------------------------------------------------------------
Distribute(r) ==
    \/ DistConnectReplicant(r) \/ DistDisconnectReplicant(r)
    \/ DistAttachHandler(r) \/ DistDetachHandler(r)
    \/ DistLog(r) \/ DistFlush(r)
    \/ work[r].msg # Garbled /\ PassOn(r)

Next ==
    /\ ~dangled
    /\ \/ \E t \in Threads, r \in Runtimes :
            \/ \E x \in Runtimes : ConnectReplicant(t, r, x) \/ DisconnectReplicant(t, r, x)
            \/ \E h \in Hands : AttachHandler(t, r, h) \/ DetachHandler(t, r, h)
            \/ Log(t, r)
            \/ Flush(t, r)
       \/ \E r \in Runtimes : Destroy(r) \/ Distribute(r) \/ PassOn(r)

Spec == Init /\ [][Next]_vars

(* A runtime's thread runs until the runtime is destroyed.  Nothing makes  *)
(* it pass on a garbled message, which may be too large.                   *)
Fairness == \A r \in Runtimes : WF_vars(~dangled /\ Distribute(r))

FairSpec == Spec /\ Fairness

-----------------------------------------------------------------------------
(* Properties                                                              *)

Direct(c) == c.op # "send" \/ c.visited = <<>>
Waiting(r) == {i \in DOMAIN queue[r] : Direct(queue[r][i])}

(* How many of the commands accepted by the runtime have taken effect: a   *)
(* message that is being passed on has been handled.                       *)
Done(r) ==
    Len(accepted[r]) - Cardinality(Waiting(r))
        + IF work[r] # Idle /\ work[r].msg # Garbled THEN 1 ELSE 0

(* In the order of the commands, the handler is attached when the i-th is  *)
(* done.                                                                   *)
AttachedAt(h, r, i) ==
    \E j \in 1 .. i - 1 :
        /\ accepted[r][j] = [op |-> "attach", arg |-> h]
        /\ \A k \in j + 1 .. i - 1 : accepted[r][k] # [op |-> "detach", arg |-> h]

Given(h, r) ==
    {i \in 1 .. Done(r) : accepted[r][i].op = "send" /\ AttachedAt(h, r, i)}

(* A handler has been given exactly the messages logged with a runtime     *)
(* while it was attached there, each once and in the order they were       *)
(* logged, whichever thread asked for what.                                *)
HandlersSeeTheirLogs ==
    \A r \in Runtimes, h \in Hands :
        LET from == {i \in DOMAIN seen[h] : seen[h][i].from = r}
        IN  /\ {seen[h][i].text : i \in from} = Given(h, r)
            /\ \A i, j \in from : i < j => seen[h][i].text < seen[h][j].text

(* When a flush returns, everything accepted before it has taken effect.   *)
FlushIsBarrier ==
    \A t \in Threads, r \in Runtimes : flushing[t] # r =>
        \A i \in DOMAIN accepted[r] :
            accepted[r][i] = [op |-> "flush", arg |-> t] => i <= Done(r)

(* Some runtime is its own replicant, directly or through others.          *)
Reached(r) ==
    LET next[n \in 0 .. Cardinality(Runtimes)] ==
            IF n = 0 THEN Range(replicants[r])
            ELSE next[n - 1] \cup UNION {Range(replicants[x]) : x \in next[n - 1]}
    IN  next[Cardinality(Runtimes)]
Circular == \E r \in Runtimes : r \in Reached(r)

(* The flag of a flush is set unless its runtime is destroyed, a message   *)
(* read from another runtime is too large to pass on, or the replicants    *)
(* form a circle and wait for each other.                                  *)
FlushesReturn ==
    \A t \in Threads, r \in Runtimes :
        flushing[t] = r ~>
            \/ flushing[t] # r \/ ~running[r] \/ dangled \/ Circular
            \/ \E x \in Runtimes : work[x].msg = Garbled

=============================================================================
