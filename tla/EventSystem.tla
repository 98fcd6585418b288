---------------------------- MODULE EventSystem ----------------------------
(***************************************************************************)
(* Events and event systems (include/atma/event.hpp).                      *)
(*                                                                         *)
(* A handler is bound to an event through an event system, tethered to a   *)
(* thread or to none.  Raising an event visits the systems it has bindings *)
(* in: a handler tethered to another thread is queued for that thread with *)
(* a copy of the arguments that a last queued job frees; every other one   *)
(* is called at once.  A thread runs the jobs queued for it when it        *)
(* processes events.                                                       *)
(*                                                                         *)
(* An event's mutex is held by whoever binds, unbinds or raises it, during *)
(* the calls of a raise too.  A system's list of bindings has a mutex that *)
(* bind and unbind take and raise does not: when two events share a system *)
(* one may change the list the other walks.  Nor does a mutex guard its    *)
(* map of queues.  raced records that two threads met there; what the      *)
(* program does then is undefined, and it goes no further.                 *)
(*                                                                         *)
(* A thread is a stack of activities, for a handler may raise an event.    *)
(* Raises are numbered; due is the set of the calls that the raises so far *)
(* have still to make, and calls the calls made, in order.                 *)
(***************************************************************************)
EXTENDS Integers, Sequences, FiniteSets

CONSTANTS
    Threads, Events, Systems,
    Handlers,       \* a handler is bound by a binder of its own
    Reaction,       \* the event that a handler raises, or Nothing
    Nothing,
    QueueSize,      \* jobs that fit in the 2048 bytes of a thread's queue
    \* Bounds: raises in a behaviour, those of handlers included; raises after
    \* which a program begins none; binds.
    MaxRaises, MaxBegun, MaxBinds

ASSUME ReactionAssumption ==
    /\ Reaction \in [Handlers -> Events \cup {Nothing}]
    /\ Nothing \notin Events \cup Threads
    /\ QueueSize \in Nat
    /\ MaxRaises \in Nat /\ MaxBegun \in Nat /\ MaxBinds \in Nat

VARIABLES
    lock,       \* event -> the thread that holds its mutex, or Nothing
    systems,    \* event -> its event systems, in the order they were added
    bindings,   \* system -> its bindings, in order
    uses,       \* system -> event -> the count kept in event_backends_
    queue,      \* system -> thread -> jobs
    known,      \* system -> the threads that have a queue
    args,       \* system -> the copies of arguments that are allocated
    stack,      \* thread -> its activities, the innermost last
    raises,     \* raises begun
    due, calls, raced,
    binds       \* counted for MaxBinds

vars == <<lock, systems, bindings, uses, queue, known, args, stack, raises, due, calls,
          raced, binds>>

Tethers == Threads \cup {Nothing}

Init ==
    /\ lock = [e \in Events |-> Nothing]
    /\ systems = [e \in Events |-> <<>>]
    /\ bindings = [s \in Systems |-> <<>>]
    /\ uses = [s \in Systems |-> [e \in Events |-> 0]]
    /\ queue = [s \in Systems |-> [t \in Threads |-> <<>>]]
    /\ known = [s \in Systems |-> {}]
    /\ args = [s \in Systems |-> {}]
    /\ stack = [t \in Threads |-> <<>>]
    /\ raises = 0
    /\ due = {}
    /\ calls = <<>>
    /\ raced = FALSE
    /\ binds = 0

Top(t) == stack[t][Len(stack[t])]
Below(t) == SubSeq(stack[t], 1, Len(stack[t]) - 1)
Idle(t) == stack[t] = <<>>
Doing(t, op) == ~Idle(t) /\ Top(t).op = op
Update(t, f) == stack' = [stack EXCEPT ![t] = Below(t) \o <<f>>]

(* Where the bindings of an event are in the list of a system.             *)
BindingsOf(s, e) == {i \in DOMAIN bindings[s] : bindings[s][i].event = e}

IsBound(f) == \E s \in Systems : \E i \in DOMAIN bindings[s] : bindings[s][i].f = f

BoundTo(e) ==
    {f \in Handlers : \E s \in Systems : \E i \in DOMAIN bindings[s] :
        bindings[s][i].f = f /\ bindings[s][i].event = e}

(* A thread reads the system without its mutex: in a raise, past the       *)
(* event's mutex and not beyond this system.                               *)
Walks(t, s) ==
    \E i \in DOMAIN stack[t] :
        /\ stack[t][i].op = "raise" /\ stack[t][i].locked
        /\ stack[t][i].n <= Len(systems[stack[t][i].event])
        /\ systems[stack[t][i].event][stack[t][i].n] = s
Uses(t, s) ==
    Walks(t, s) \/ \E i \in DOMAIN stack[t] : stack[t][i] = [op |-> "process", system |-> s]

-----------------------------------------------------------------------------
(* Binding                                                                 *)

Bind(t, f, e, s, tether) ==
    /\ Idle(t) /\ ~IsBound(f) /\ lock[e] = Nothing
    /\ binds < MaxBinds /\ binds' = binds + 1
    /\ systems' = [systems EXCEPT ![e] =
                      IF \E i \in DOMAIN @ : @[i] = s THEN @ ELSE Append(@, s)]
    /\ uses' = [uses EXCEPT ![s][e] = @ + 1]
    /\ bindings' = [bindings EXCEPT ![s] =
                       Append(@, [f |-> f, event |-> e, tether |-> tether])]
    /\ raced' = \E o \in Threads : Walks(o, s)
    /\ UNCHANGED <<lock, queue, known, args, stack, raises, due, calls>>

Without(q, i) == SubSeq(q, 1, i - 1) \o SubSeq(q, i + 1, Len(q))

UnbindUncounted(t, f) ==    \* mutant: the count is left as it was
    /\ Idle(t)
    /\ \E s \in Systems : \E i \in DOMAIN bindings[s] :
         /\ bindings[s][i].f = f /\ lock[bindings[s][i].event] = Nothing
         /\ bindings' = [bindings EXCEPT ![s] = Without(@, i)]
         /\ raced' = \E o \in Threads : Walks(o, s)
    /\ UNCHANGED <<lock, systems, uses, queue, known, args, stack, raises, due, calls, binds>>

(* ~event_binder_t.  Jobs queued for the handler stay: they hold a copy.   *)
Unbind(t, f) ==
    /\ Idle(t)
    /\ \E s \in Systems : \E i \in DOMAIN bindings[s] :
         LET e == bindings[s][i].event
         IN  /\ bindings[s][i].f = f /\ lock[e] = Nothing
             /\ bindings' = [bindings EXCEPT ![s] = Without(@, i)]
             /\ uses' = [uses EXCEPT ![s][e] = @ - 1]
             /\ raced' = \E o \in Threads : Walks(o, s)
    /\ UNCHANGED <<lock, systems, queue, known, args, stack, raises, due, calls, binds>>

-----------------------------------------------------------------------------
(* Raising                                                                 *)

NewRaise(e) ==
    [op |-> "raise", event |-> e, locked |-> FALSE, n |-> 1, queued |-> 0,
     told |-> {}, called |-> 0, id |-> raises + 1]

BeginRaise(t, e) ==
    /\ Idle(t) /\ raises < MaxRaises /\ raises < MaxBegun
    /\ stack' = [stack EXCEPT ![t] = <<NewRaise(e)>>]
    /\ raises' = raises + 1
    /\ UNCHANGED <<lock, systems, bindings, uses, queue, known, args, due, calls, raced, binds>>

(* The mutex is not recursive: a thread that holds it waits for itself.    *)
(* It is held until EndRaise, the handlers called in between included.     *)
Lock(t) ==
    LET e == Top(t).event
    IN  /\ Doing(t, "raise") /\ ~Top(t).locked /\ lock[e] = Nothing
        /\ lock' = [lock EXCEPT ![e] = t]
        /\ due' = due \cup {[f |-> f, id |-> Top(t).id, by |-> t] : f \in BoundTo(e)}
        /\ Update(t, [Top(t) EXCEPT !.locked = TRUE])
        /\ UNCHANGED <<systems, bindings, uses, queue, known, args, raises, calls, raced, binds>>

Here(t) == systems[Top(t).event][Top(t).n]
AtSystem(t) ==
    Doing(t, "raise") /\ Top(t).locked /\ Top(t).n <= Len(systems[Top(t).event])
IsRemote(t, b) == b.tether \notin {Nothing, t}
RemoteOf(t) ==
    {i \in BindingsOf(Here(t), Top(t).event) : IsRemote(t, bindings[Here(t)][i])}
LocalOfTethered(t) ==    \* mutant: handlers of no thread are left out
    {i \in BindingsOf(Here(t), Top(t).event) : bindings[Here(t)][i].tether = t}
LocalOf(t) ==
    {i \in BindingsOf(Here(t), Top(t).event) : ~IsRemote(t, bindings[Here(t)][i])}

(* The walk over some bindings has come to the one at last; i is the next. *)
IsNext(i, last, places) ==
    i \in places /\ last < i /\ \A j \in places : last < j => i <= j
AtEnd(last, places) == \A i \in places : i <= last

(* A job keeps its place in a queue while it runs: its thread's stack says *)
(* that one does.  A producer waits for the room of a job.                 *)
IsRunning(t, s) == Len(stack[t]) > 1 /\ stack[t][1] = [op |-> "process", system |-> s]
HasRoom(s, t) == Len(queue[s][t]) + (IF IsRunning(t, s) THEN 1 ELSE 0) < QueueSize

CopyOf(t, thread) == <<Top(t).id, thread>>
Call(t, b) == [job |-> "call", f |-> b.f, id |-> Top(t).id, by |-> t,
               args |-> CopyOf(t, b.tether)]

QueueCallInFront(t) ==    \* mutant: the job goes to the front
    /\ AtSystem(t)
    /\ \E i \in DOMAIN bindings[Here(t)] :
         LET s == Here(t)
             b == bindings[s][i]
             to == b.tether
         IN  /\ IsNext(i, Top(t).queued, RemoteOf(t))
             /\ HasRoom(s, to)
             /\ args' = [args EXCEPT ![s] = @ \cup {CopyOf(t, to)}]
             /\ queue' = [queue EXCEPT ![s][to] = <<Call(t, b)>> \o @]
             /\ known' = [known EXCEPT ![s] = @ \cup {to}]
             /\ raced' = (to \notin known[s] /\ \E o \in Threads \ {t} : Uses(o, s))
             /\ Update(t, [Top(t) EXCEPT !.queued = i, !.told = @ \cup {to}])
    /\ UNCHANGED <<lock, systems, bindings, uses, raises, due, calls, binds>>

(* One copy of the arguments for each thread, with its first job.  The     *)
(* thread's queue is made with the first job ever, in a map that no mutex  *)
(* guards.                                                                 *)
QueueCall(t) ==
    /\ AtSystem(t)
    /\ \E i \in DOMAIN bindings[Here(t)] :
         LET s == Here(t)
             b == bindings[s][i]
             to == b.tether
         IN  /\ IsNext(i, Top(t).queued, RemoteOf(t))
             /\ HasRoom(s, to)
             /\ args' = [args EXCEPT ![s] = @ \cup {CopyOf(t, to)}]
             /\ queue' = [queue EXCEPT ![s][to] = Append(@, Call(t, b))]
             /\ known' = [known EXCEPT ![s] = @ \cup {to}]
             /\ raced' = (to \notin known[s] /\ \E o \in Threads \ {t} : Uses(o, s))
             /\ Update(t, [Top(t) EXCEPT !.queued = i, !.told = @ \cup {to}])
    /\ UNCHANGED <<lock, systems, bindings, uses, raises, due, calls, binds>>

QueueFreeEarly(t) ==    \* mutant: with the first call
    /\ AtSystem(t)
    /\ \E to \in Top(t).told :
         /\ HasRoom(Here(t), to)
         /\ queue' = [queue EXCEPT ![Here(t)][to] =
                         Append(@, [job |-> "free", args |-> CopyOf(t, to)])]
         /\ Update(t, [Top(t) EXCEPT !.told = @ \ {to}])
    /\ UNCHANGED <<lock, systems, bindings, uses, known, args, raises, due, calls, raced, binds>>

(* The jobs that free the copies, when every call is queued.               *)
QueueFree(t) ==
    /\ AtSystem(t) /\ AtEnd(Top(t).queued, RemoteOf(t))
    /\ \E to \in Top(t).told :
         /\ HasRoom(Here(t), to)
         /\ queue' = [queue EXCEPT ![Here(t)][to] =
                         Append(@, [job |-> "free", args |-> CopyOf(t, to)])]
         /\ Update(t, [Top(t) EXCEPT !.told = @ \ {to}])
    /\ UNCHANGED <<lock, systems, bindings, uses, known, args, raises, due, calls, raced, binds>>

Queued(t) == AtSystem(t) /\ AtEnd(Top(t).queued, RemoteOf(t)) /\ Top(t).told = {}

(* A call: a handler entered, on top of the raise or the job it came from. *)
Entered(s, f, id, by) ==
    [op |-> "call", system |-> s, f |-> f, id |-> id, by |-> by, at |-> "enter"]

CallNow(t) ==
    /\ Queued(t)
    /\ \E i \in DOMAIN bindings[Here(t)] :
         /\ IsNext(i, Top(t).called, LocalOf(t))
         /\ stack' = [stack EXCEPT ![t] =
                         Below(t) \o <<[Top(t) EXCEPT !.called = i],
                                       Entered(Here(t), bindings[Here(t)][i].f, Top(t).id, t)>>]
    /\ UNCHANGED <<lock, systems, bindings, uses, queue, known, args, raises, due, calls, raced, binds>>

NextSystem(t) ==
    /\ Queued(t) /\ AtEnd(Top(t).called, LocalOf(t))
    /\ Update(t, [Top(t) EXCEPT !.n = @ + 1, !.queued = 0, !.called = 0])
    /\ UNCHANGED <<lock, systems, bindings, uses, queue, known, args, raises, due, calls, raced, binds>>

EndRaise(t) ==
    /\ Doing(t, "raise") /\ Top(t).locked
    /\ Top(t).n > Len(systems[Top(t).event])
    /\ lock' = [lock EXCEPT ![Top(t).event] = Nothing]
    /\ stack' = [stack EXCEPT ![t] = Below(t)]
    /\ UNCHANGED <<systems, bindings, uses, queue, known, args, raises, due, calls, raced, binds>>

-----------------------------------------------------------------------------
(* Handlers                                                                *)

Enter(t) ==
    LET c == Top(t)
        f == Reaction[c.f]
        left == [c EXCEPT !.at = "leave"]
    IN  /\ Doing(t, "call") /\ c.at = "enter"
        /\ calls' = Append(calls, [f |-> c.f, id |-> c.id, by |-> c.by, on |-> t,
                                   system |-> c.system])
        /\ due' = due \ {[f |-> c.f, id |-> c.id, by |-> c.by]}
        /\ IF f = Nothing \/ raises = MaxRaises
           THEN Update(t, left) /\ UNCHANGED raises
           ELSE /\ stack' = [stack EXCEPT ![t] = Below(t) \o <<left, NewRaise(f)>>]
                /\ raises' = raises + 1
        /\ UNCHANGED <<lock, systems, bindings, uses, queue, known, args, raced, binds>>

Leave(t) ==
    /\ Doing(t, "call") /\ Top(t).at = "leave"
    /\ stack' = [stack EXCEPT ![t] = Below(t)]
    /\ UNCHANGED <<lock, systems, bindings, uses, queue, known, args, raises, due, calls, raced, binds>>

-----------------------------------------------------------------------------
(* Processing the jobs queued for this thread                              *)

(* The thread looks its queue up in the map, whether it has one or not.    *)
BeginProcess(t, s) ==
    /\ Idle(t)
    /\ stack' = [stack EXCEPT ![t] = <<[op |-> "process", system |-> s]>>]
    /\ UNCHANGED <<lock, systems, bindings, uses, queue, known, args, raises, due, calls, raced, binds>>

(* The job is taken out here, for nobody else reads the queue; its place   *)
(* is free when it is done (HasRoom).                                      *)
RunJob(t) ==
    LET s == Top(t).system
        j == Head(queue[s][t])
    IN  /\ Doing(t, "process") /\ queue[s][t] # <<>>
        /\ queue' = [queue EXCEPT ![s][t] = Tail(@)]
        /\ IF j.job = "free"
           THEN /\ args' = [args EXCEPT ![s] = @ \ {j.args}]
                /\ UNCHANGED stack
           ELSE /\ stack' = [stack EXCEPT ![t] = @ \o <<Entered(s, j.f, j.id, j.by)>>]
                /\ UNCHANGED args
        /\ UNCHANGED <<lock, systems, bindings, uses, known, raises, due, calls, raced, binds>>

EndProcess(t) ==
    /\ Doing(t, "process") /\ queue[Top(t).system][t] = <<>>
    /\ stack' = [stack EXCEPT ![t] = <<>>]
    /\ UNCHANGED <<lock, systems, bindings, uses, queue, known, args, raises, due, calls, raced, binds>>

-----------------------------------------------------------------------------
Running(t) ==
    \/ Lock(t) \/ QueueCall(t) \/ QueueFree(t) \/ CallNow(t) \/ NextSystem(t) \/ EndRaise(t)
    \/ Enter(t) \/ Leave(t) \/ RunJob(t) \/ EndProcess(t)

Next ==
    /\ ~raced
    /\ \E t \in Threads :
         \/ \E f \in Handlers, e \in Events, s \in Systems, tether \in Tethers :
              Bind(t, f, e, s, tether)
         \/ \E f \in Handlers : Unbind(t, f)
         \/ \E e \in Events : BeginRaise(t, e)
         \/ \E s \in Systems : BeginProcess(t, s)
         \/ Running(t)

Spec == Init /\ [][Next]_vars

(* A thread that can go on with what it has begun does so.  A thread that  *)
(* is idle again and again processes the events of every system again and  *)
(* again: what a program has to see to.                                    *)
Fairness ==
    \A t \in Threads :
        /\ WF_vars(~raced /\ Running(t))
        /\ \A s \in Systems : SF_vars(~raced /\ BeginProcess(t, s))

FairSpec == Spec /\ Fairness

-----------------------------------------------------------------------------
(* Properties                                                              *)

(* The count of an event's bindings in a system, by which the system knows *)
(* the events it serves, is their number.                                  *)
UsesCountBindings ==
    \A s \in Systems, e \in Events : uses[s][e] = Cardinality(BindingsOf(s, e))

(* A queued call finds its copy of the arguments: the job that frees it is *)
(* behind every call that uses it.                                         *)
ArgumentsOutliveCalls ==
    \A s \in Systems, t \in Threads : \A i \in DOMAIN queue[s][t] :
        queue[s][t][i].job = "call" =>
            /\ queue[s][t][i].args \in args[s]
            /\ \A j \in 1 .. i - 1 : queue[s][t][j] # [job |-> "free",
                                                       args |-> queue[s][t][i].args]

(* Through one system, a thread calls a handler at most once for a raise,  *)
(* and for the raises of another thread in the order they were made.       *)
CallsFollowRaises ==
    \A i, j \in DOMAIN calls :
        /\ i < j /\ calls[i].f = calls[j].f
        /\ calls[i].by = calls[j].by /\ calls[i].on = calls[j].on
        /\ calls[i].system = calls[j].system
        => calls[i].id < calls[j].id

(* Every copy of arguments has one job that will free it, while no raise is*)
(* under way: none is leaked and none is freed twice.                      *)
CopiesAreFreed ==
    (\A t \in Threads : Idle(t)) =>
        \A s \in Systems :
            /\ \A a \in args[s] :
                 \E t \in Threads : \E i \in DOMAIN queue[s][t] :
                   \A u \in Threads : \A j \in DOMAIN queue[s][u] :
                     queue[s][u][j] = [job |-> "free", args |-> a] <=> u = t /\ j = i
            /\ \A t \in Threads : \A i \in DOMAIN queue[s][t] : queue[s][t][i].args \in args[s]

(* The copies of arguments live as long as the calls that were queued with *)
(* them, and no longer.                                                    *)
CopiesLiveWithTheirCalls == ArgumentsOutliveCalls /\ CopiesAreFreed

(* Whom a thread waits for: in a raise, the thread that holds the event's  *)
(* mutex; past it, the threads whose queues it has jobs for, when each is  *)
(* full.                                                                   *)
Receivers(t) ==
    IF AtEnd(Top(t).queued, RemoteOf(t)) THEN Top(t).told
    ELSE {bindings[Here(t)][i].tether :
              i \in {j \in RemoteOf(t) : IsNext(j, Top(t).queued, RemoteOf(t))}}
WaitsFor(t) ==
    IF Doing(t, "raise") /\ ~Top(t).locked THEN {lock[Top(t).event]} \ {Nothing}
    ELSE IF AtSystem(t) /\ \A to \in Receivers(t) : ~HasRoom(Here(t), to) THEN Receivers(t)
    ELSE {}

(* Threads that wait for one another only.  A mutex is held while handlers *)
(* are called, and a handler may raise: its own event, an event whose      *)
(* handler raises the first on another thread, or one that has to be       *)
(* queued for a thread that waits.                                         *)
WaitsInACircle ==
    \E circle \in SUBSET Threads \ {{}} :
        \A t \in circle : WaitsFor(t) # {} /\ WaitsFor(t) \subseteq circle

(* Every call that a raise owes is made, unless threads wait for one       *)
(* another in a circle.                                                    *)
CallsHappen == due # {} ~> (due = {} \/ raced \/ WaitsInACircle)

=============================================================================
