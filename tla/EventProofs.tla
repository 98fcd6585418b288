---------------------------- MODULE EventProofs -----------------------------
(***************************************************************************)
(* Counts of bindings, copies of arguments and the order of calls: theorems*)
(* about EventSystem for any threads, events, systems and handlers.        *)
(*                                                                         *)
(* A raise owes calls to the handlers that are bound further on in the     *)
(* systems it has yet to walk.  Nobody can bind or unbind a handler of its *)
(* event meanwhile, and a handler is bound once, so neither a raise within *)
(* it nor one on another thread makes a call that it owes (OrderOk); what  *)
(* it queues is behind all that its thread has queued there before         *)
(* (InLine), and the copy of the arguments it queues it with has not been  *)
(* given up (Kept).                                                        *)
(***************************************************************************)
EXTENDS EventSystem, FiniteSetTheorems, FunctionTheorems, SequenceTheorems, TLAPS

Ids == Nat \ {0}
Binding == [f : Handlers, event : Events, tether : Tethers]
Raise == [op : {"raise"}, event : Events, locked : BOOLEAN, n : Ids, queued : Nat,
          told : SUBSET Threads, called : Nat, id : Ids]
InCall == [op : {"call"}, system : Systems, f : Handlers, id : Ids, by : Threads,
           at : {"enter", "leave"}]
InProcess == [op : {"process"}, system : Systems]
Activity == Raise \cup InCall \cup InProcess
Job == [job : {"call"}, f : Handlers, id : Ids, by : Threads, args : Ids \X Threads]
         \cup [job : {"free"}, args : Ids \X Threads]
Made == [f : Handlers, id : Ids, by : Threads, on : Threads, system : Systems]

EventTypes ==
  /\ lock \in [Events -> Threads \cup {Nothing}]
  /\ systems \in [Events -> Seq(Systems)]
  /\ bindings \in [Systems -> Seq(Binding)]
  /\ uses \in [Systems -> [Events -> Int]]
  /\ queue \in [Systems -> [Threads -> Seq(Job)]]
  /\ args \in [Systems -> SUBSET (Ids \X Threads)]
  /\ stack \in [Threads -> Seq(Activity)]
  /\ raises \in Nat
  /\ calls \in Seq(Made)

\* A handler is bound once, and a system is added to an event once.
BoundOnce ==
  \A r, s \in Systems : \A i \in DOMAIN bindings[r], j \in DOMAIN bindings[s] :
    bindings[r][i].f = bindings[s][j].f => r = s /\ i = j
AddedOnce ==
  \A e \in Events : \A i, j \in DOMAIN systems[e] : systems[e][i] = systems[e][j] => i = j
BindInv == UsesCountBindings /\ BoundOnce /\ AddedOnce

\* Only the innermost activity of a thread waits for a mutex or for its handler.
Settled ==
  \A t \in Threads : \A i \in DOMAIN stack[t] :
    LET x == stack[t][i]
    IN  /\ x.op = "process" => i = 1
        /\ i < Len(stack[t]) /\ x.op = "raise" => x.locked
        /\ i < Len(stack[t]) /\ x.op = "call" => x.at = "leave"

AtRaise(t, i) == i \in DOMAIN stack[t] /\ stack[t][i].op = "raise"

\* A raise holds the mutex of its event once it is past it.
Held ==
  \A t \in Threads : \A i \in DOMAIN stack[t] :
    AtRaise(t, i) /\ stack[t][i].locked => lock[stack[t][i].event] = t

Numbered ==
  \A t \in Threads : \A i \in DOMAIN stack[t] : AtRaise(t, i) => stack[t][i].id <= raises

\* No two raises have a number in common, nor a mutex.
Apart ==
  \A t, u \in Threads : \A i \in DOMAIN stack[t], j \in DOMAIN stack[u] :
    AtRaise(t, i) /\ AtRaise(u, j) =>
      /\ stack[t][i].id = stack[u][j].id => t = u /\ i = j
      /\ stack[t][i].locked /\ stack[u][j].locked /\ stack[t][i].event = stack[u][j].event
           => t = u /\ i = j
StackInv == Settled /\ Held /\ Numbered /\ Apart

\* The raise x is at the system s.
IsAt(x, s) == x.n <= Len(systems[x.event]) /\ systems[x.event][x.n] = s

\* A call is still to be queued where the raise is.
Queues(t, x, s) ==
  \E i \in DOMAIN bindings[s] :
    i > x.queued /\ bindings[s][i].event = x.event /\ IsRemote(t, bindings[s][i])

Fresh(x, s) == \A a \in args[s] : a[1] # x.id

\* Until a raise comes to a system no arguments have been copied for it there, and
\* while it queues calls the threads it has copied them for are to be told.
CopyOk(t, x) ==
  /\ ~x.locked => x.told = {} /\ \A s \in Systems : Fresh(x, s)
  /\ x.told # {} => x.n <= Len(systems[x.event])
  /\ x.locked /\ ~raced =>
       /\ \A m \in DOMAIN systems[x.event] : m > x.n => Fresh(x, systems[x.event][m])
       /\ \A s \in Systems : IsAt(x, s) /\ Queues(t, x, s) =>
            \A a \in args[s] : a[1] = x.id => a[2] \in x.told

\* The copies in the system s that a raise has still to tell their threads to free.
Untold(s) ==
  {a \in Ids \X Threads : \E t \in Threads : \E i \in DOMAIN stack[t] :
     /\ AtRaise(t, i) /\ IsAt(stack[t][i], s)
     /\ stack[t][i].id = a[1] /\ a[2] \in stack[t][i].told}

\* The jobs q of the thread u use copies from A that are its own; a copy is freed by
\* one job, behind those that use it and queued once all of them are (out of U).
Kept(q, u, A, U) ==
  /\ \A i \in DOMAIN q : q[i].args \in A /\ q[i].args[2] = u
  /\ \A a \in U : a[2] = u => a \in A
  /\ \A a \in A : a[2] = u =>
       IF a \in U
       THEN \A i \in DOMAIN q : q[i].args = a => q[i].job = "call"
       ELSE \E k \in DOMAIN q :
              /\ q[k].job = "free" /\ q[k].args = a
              /\ \A i \in DOMAIN q : q[i].args = a => i = k \/ (i < k /\ q[i].job = "call")

CopiesNumbered == \A s \in Systems : \A a \in args[s] : a[1] <= raises
CopiesOk ==
  \A t \in Threads : \A i \in DOMAIN stack[t] : AtRaise(t, i) => CopyOk(t, stack[t][i])
CopiesKept == \A s \in Systems, u \in Threads : Kept(queue[s][u], u, args[s], Untold(s))
CopyInv == CopiesNumbered /\ CopiesOk /\ CopiesKept

\* The call by which the thread u enters a handler of the system s.
Entering(u, s) ==
  {c \in {stack[u][i] : i \in DOMAIN stack[u]} :
     c = Top(u) /\ c.op = "call" /\ c.at = "enter" /\ c.system = s}

\* The calls of f by u through s that the raises of t have led to.
Issued(t, u, s, f, id) ==
  \/ \E i \in DOMAIN calls : calls[i] = [f |-> f, id |-> id, by |-> t, on |-> u, system |-> s]
  \/ \E c \in Entering(u, s) : c.f = f /\ c.by = t /\ c.id = id
  \/ \E k \in DOMAIN queue[s][u] :
       /\ queue[s][u][k].job = "call"
       /\ queue[s][u][k].f = f /\ queue[s][u][k].by = t /\ queue[s][u][k].id = id

\* The calls of u through s are in the order of the raises: those in K, which are made,
\* the one in E, which is entered, and those in q, which are queued.
Precedes(a, b) == a.f = b.f /\ a.by = b.by => a.id < b.id
InLine(K, E, q, s, u) ==
  LET C == {i \in DOMAIN K : K[i].on = u /\ K[i].system = s}
      Q == {k \in DOMAIN q : q[k].job = "call"}
  IN  /\ \A i, j \in C : i < j => Precedes(K[i], K[j])
      /\ \A i \in C, k \in Q : Precedes(K[i], q[k])
      /\ \A k, l \in Q : k < l => Precedes(q[k], q[l])
      /\ \A c \in E : (\A i \in C : Precedes(K[i], c)) /\ (\A k \in Q : Precedes(c, q[k]))

\* The raise x of thread t has still to call f on u, through the m-th system or on.
Owes(t, x, u, s, f) ==
  \E m \in DOMAIN systems[x.event] : \E i \in DOMAIN bindings[s] :
    LET b == bindings[s][i]
    IN  /\ x.n <= m /\ systems[x.event][m] = s
        /\ b.f = f /\ b.event = x.event /\ u = IF IsRemote(t, b) THEN b.tether ELSE t
        /\ m = x.n => i > IF IsRemote(t, b) THEN x.queued ELSE x.called

\* What a raise has still to call has been called by earlier raises only.
OrderOk(t, x) ==
  (x.locked => ~raced) =>
    \A u \in Threads, s \in Systems, f \in Handlers, id \in Ids :
      (x.locked => Owes(t, x, u, s, f)) /\ Issued(t, u, s, f, id) => id < x.id

IssuedNumbered ==
  \A t, u \in Threads, s \in Systems, f \in Handlers, id \in Ids :
    Issued(t, u, s, f, id) => id <= raises
OrdersOk ==
  \A t \in Threads : \A i \in DOMAIN stack[t] : AtRaise(t, i) => OrderOk(t, stack[t][i])
LinesInOrder ==
  \A s \in Systems, u \in Threads : InLine(calls, Entering(u, s), queue[s][u], s, u)
QueuedByOthers ==
  \A s \in Systems, u \in Threads : \A k \in DOMAIN queue[s][u] :
    queue[s][u][k].job = "call" => queue[s][u][k].by # u
OrderInv == IssuedNumbered /\ OrdersOk /\ LinesInOrder /\ QueuedByOthers
-----------------------------------------------------------------------------
(* What the steps do to the stack of a thread                              *)

\* x is the innermost activity of the thread t.
OnTop(t, x) == stack[t] # <<>> /\ x = stack[t][Len(stack[t])]

\* The thread t goes back to the first k of its activities and begins those of q.
Moves(t, k, q) == stack' = [stack EXCEPT ![t] = SubSeq(stack[t], 1, k) \o q]

(* A move keeps the activities up to k and has those of q behind them.     *)
LEMMA Moved ==
  ASSUME stack \in [Threads -> Seq(Activity)], NEW t \in Threads,
         NEW k \in 0 .. Len(stack[t]), NEW q \in Seq(Activity), Moves(t, k, q)
  PROVE  /\ stack' \in [Threads -> Seq(Activity)]
         /\ \A v \in Threads : v # t => stack'[v] = stack[v]
         /\ Len(stack'[t]) = k + Len(q)
         /\ DOMAIN stack[t] = 1 .. Len(stack[t])
         /\ DOMAIN stack'[t] = 1 .. k + Len(q)
         /\ \A i \in 1 .. k : stack'[t][i] = stack[t][i]
         /\ \A i \in 1 .. Len(q) : stack'[t][k + i] = q[i]
<1> DEFINE r == SubSeq(stack[t], 1, k)
           z == stack[t]
<1>1. z \in Seq(Activity) OBVIOUS
<1>2. r \in Seq(Activity) /\ Len(r) = k /\ \A i \in 1 .. k : r[i] = z[i]
  BY <1>1
<1>3. stack'[t] = r \o q BY DEF Moves
<1> HIDE DEF r, z
<1>4. /\ r \o q \in Seq(Activity) /\ Len(r \o q) = k + Len(q)
      /\ DOMAIN (r \o q) = 1 .. k + Len(q)
      /\ \A i \in 1 .. k : (r \o q)[i] = z[i]
      /\ \A i \in 1 .. Len(q) : (r \o q)[k + i] = q[i]
  <2>1. /\ r \o q \in Seq(Activity) /\ Len(r \o q) = k + Len(q)
        /\ \A i \in 1 .. k + Len(q) : (r \o q)[i] = IF i <= k THEN r[i] ELSE q[i - k]
    BY <1>2, ConcatProperties
  <2>2. Len(q) \in Nat BY LenProperties
  <2>3. k \in Nat BY <1>1
  <2>4. DOMAIN (r \o q) = 1 .. k + Len(q) BY <2>1, LenProperties
  <2> HIDE DEF r
  <2>5. \A i \in 1 .. k : (r \o q)[i] = z[i] BY <1>2, <2>1, <2>2, <2>3
  <2>6. \A i \in 1 .. Len(q) : i <= Len(q) /\ k + i \in 1 .. k + Len(q) /\ (k + i) - k = i
                               /\ ~(k + i <= k)
    BY <2>2, <2>3
  <2>7. \A i \in 1 .. Len(q) : (r \o q)[k + i] = q[i] BY <2>1, <2>6
  <2> QED BY <2>1, <2>4, <2>5, <2>7
<1>5. stack' \in [Threads -> Seq(Activity)] BY <1>3, <1>4 DEF Moves
<1>6. \A v \in Threads : v # t => stack'[v] = stack[v] BY DEF Moves
<1>7. DOMAIN z = 1 .. Len(z) BY <1>1
<1> QED BY <1>3, <1>4, <1>5, <1>6, <1>7 DEF z

(* The innermost activity of a thread is one of its activities.            *)
LEMMA OnTopType ==
  ASSUME stack \in [Threads -> Seq(Activity)], NEW t \in Threads, stack[t] # <<>>
  PROVE  /\ Top(t) \in Activity /\ OnTop(t, Top(t))
         /\ Len(stack[t]) \in Nat \ {0} /\ Len(stack[t]) \in DOMAIN stack[t]
         /\ Len(stack[t]) - 1 \in 0 .. Len(stack[t])
         /\ Below(t) = SubSeq(stack[t], 1, Len(stack[t]) - 1)
BY DEF Top, OnTop, Below

(* The kinds of activities are told apart by their op.                     *)
LEMMA Kinds ==
  ASSUME NEW x \in Activity
  PROVE  /\ x.op = "raise" => x \in Raise
         /\ x.op = "call" => x \in InCall
         /\ x.op = "process" => x \in InProcess
BY DEF Activity, Raise, InCall, InProcess

\* What Lock does, by the raise that it locks the mutex for.
LockOf(t, x) ==
  /\ OnTop(t, x) /\ ~x.locked /\ lock[x.event] = Nothing
  /\ lock' = [lock EXCEPT ![x.event] = t]
  /\ Moves(t, Len(stack[t]) - 1, <<[x EXCEPT !.locked = TRUE]>>)
  /\ UNCHANGED <<systems, bindings, uses, queue, known, args, raises, calls, raced, binds>>

(* A thread locks the mutex of its event.                                  *)
LEMMA LockMoves ==
  ASSUME EventTypes, NEW t \in Threads, Lock(t)
  PROVE  \E x \in Raise : LockOf(t, x)
<1>1. stack[t] # <<>> /\ Top(t).op = "raise" BY DEF Lock, Doing, Idle
<1>2. Top(t) \in Raise /\ OnTop(t, Top(t)) BY <1>1, OnTopType, Kinds DEF EventTypes
<1>3. Moves(t, Len(stack[t]) - 1, <<[Top(t) EXCEPT !.locked = TRUE]>>)
  BY DEF Lock, Update, Moves, Below
<1> QED BY <1>2, <1>3 DEF Lock, LockOf

\* QueueCall, by the raise, the system and the binding.
QueueCallOf(t, x, s, i, b) ==
  /\ OnTop(t, x) /\ x.locked /\ IsAt(x, s)
  /\ i \in DOMAIN bindings[s] /\ b = bindings[s][i]
  /\ b.event = x.event /\ IsRemote(t, b) /\ b.tether \in Threads
  /\ x.queued < i
  /\ args' = [args EXCEPT ![s] = @ \cup {<<x.id, b.tether>>}]
  /\ queue' = [queue EXCEPT ![s][b.tether] =
                  Append(@, [job |-> "call", f |-> b.f, id |-> x.id, by |-> t,
                             args |-> <<x.id, b.tether>>])]
  /\ Moves(t, Len(stack[t]) - 1,
           <<[x EXCEPT !.queued = i, !.told = @ \cup {b.tether}]>>)
  /\ UNCHANGED <<lock, systems, bindings, uses, raises, calls, binds>>

(* It queues a call for the thread that a handler is tethered to.          *)
LEMMA QueueCallMoves ==
  ASSUME EventTypes, NEW t \in Threads, QueueCall(t)
  PROVE  \E x \in Raise, s \in Systems, i \in Nat, b \in Binding : QueueCallOf(t, x, s, i, b)
<1>1. stack[t] # <<>> /\ Top(t).op = "raise" BY DEF QueueCall, AtSystem, Doing, Idle
<1>2. Top(t) \in Raise /\ OnTop(t, Top(t)) BY <1>1, OnTopType, Kinds DEF EventTypes
<1>3. PICK x \in Raise : x = Top(t) BY <1>2
<1>4. Here(t) \in Systems /\ x.locked /\ IsAt(x, Here(t))
  <2>1. AtSystem(t) BY DEF QueueCall
  <2> QED BY <1>3, <2>1 DEF EventTypes, Raise, Ids, AtSystem, Here, IsAt
<1>5. PICK s \in Systems : s = Here(t) BY <1>4
<1>6. PICK i \in DOMAIN bindings[s] :
         LET b == bindings[s][i]
             to == b.tether
         IN  /\ IsNext(i, x.queued, RemoteOf(t))
             /\ args' = [args EXCEPT ![s] = @ \cup {CopyOf(t, to)}]
             /\ queue' = [queue EXCEPT ![s][to] = Append(@, Call(t, b))]
             /\ Update(t, [x EXCEPT !.queued = i, !.told = @ \cup {to}])
  BY <1>3, <1>5 DEF QueueCall
<1>7. bindings[s][i] \in Binding BY DEF EventTypes
<1>8. PICK b \in Binding : b = bindings[s][i] BY <1>7
<1>9. b.event = x.event /\ IsRemote(t, b) /\ x.queued < i
  BY <1>3, <1>5, <1>6, <1>8 DEF IsNext, RemoteOf, BindingsOf
<1>10. b.tether \in Threads BY <1>9 DEF Binding, Tethers, IsRemote
<1>11. Moves(t, Len(stack[t]) - 1, <<[x EXCEPT !.queued = i, !.told = @ \cup {b.tether}]>>)
  BY <1>6, <1>8 DEF Update, Moves, Below
<1>12. CopyOf(t, b.tether) = <<x.id, b.tether>> BY <1>3 DEF CopyOf
<1>13. Call(t, b) = [job |-> "call", f |-> b.f, id |-> x.id, by |-> t,
                     args |-> <<x.id, b.tether>>]
  BY <1>3, <1>12 DEF Call
<1>14. /\ args' = [args EXCEPT ![s] = @ \cup {<<x.id, b.tether>>}]
       /\ queue' = [queue EXCEPT ![s][b.tether] =
                       Append(@, [job |-> "call", f |-> b.f, id |-> x.id, by |-> t,
                                  args |-> <<x.id, b.tether>>])]
  BY <1>6, <1>8, <1>12, <1>13
<1>15. UNCHANGED <<lock, systems, bindings, uses, raises, calls, binds>> BY DEF QueueCall
<1>16. i \in Nat BY LenProperties DEF EventTypes
<1> HIDE DEF Moves, IsRemote
<1> QED BY <1>2, <1>3, <1>4, <1>5, <1>8, <1>9, <1>10, <1>11, <1>14, <1>15, <1>16
       DEF QueueCallOf

\* QueueFree, by the raise, the system and the thread told.
QueueFreeOf(t, x, s, to) ==
  /\ OnTop(t, x) /\ x.locked /\ IsAt(x, s) /\ ~Queues(t, x, s) /\ to \in x.told
  /\ queue' = [queue EXCEPT ![s][to] =
                  Append(@, [job |-> "free", args |-> <<x.id, to>>])]
  /\ Moves(t, Len(stack[t]) - 1, <<[x EXCEPT !.told = @ \ {to}]>>)
  /\ UNCHANGED <<lock, systems, bindings, uses, known, args, raises, calls, raced, binds>>

(* It queues the job that frees a copy, when all the calls are queued.     *)
LEMMA QueueFreeMoves ==
  ASSUME EventTypes, NEW t \in Threads, QueueFree(t)
  PROVE  \E x \in Raise, s \in Systems, to \in Threads : QueueFreeOf(t, x, s, to)
<1>1. stack[t] # <<>> /\ Top(t).op = "raise" BY DEF QueueFree, AtSystem, Doing, Idle
<1>2. Top(t) \in Raise /\ OnTop(t, Top(t)) BY <1>1, OnTopType, Kinds DEF EventTypes
<1>3. PICK x \in Raise : x = Top(t) BY <1>2
<1>4. Here(t) \in Systems /\ x.locked /\ IsAt(x, Here(t))
  BY <1>3 DEF EventTypes, Raise, Ids, QueueFree, AtSystem, Here, IsAt
<1>5. PICK s \in Systems : s = Here(t) BY <1>4
<1>6. PICK to \in x.told :
         /\ queue' = [queue EXCEPT ![s][to] =
                         Append(@, [job |-> "free", args |-> <<x.id, to>>])]
         /\ Update(t, [x EXCEPT !.told = @ \ {to}])
  BY <1>3, <1>5 DEF QueueFree, CopyOf
<1>7. to \in Threads BY DEF Raise
<1>8. x.queued \in Nat BY DEF Raise
<1>9. DOMAIN bindings[s] \subseteq Nat BY LenProperties DEF EventTypes
<1>10. \A i \in DOMAIN bindings[s] :
         bindings[s][i].event = x.event /\ IsRemote(t, bindings[s][i]) => i <= x.queued
  BY <1>3, <1>5 DEF QueueFree, AtEnd, RemoteOf, BindingsOf
<1>11. ~Queues(t, x, s) BY <1>8, <1>9, <1>10 DEF Queues
<1>12. Moves(t, Len(stack[t]) - 1, <<[x EXCEPT !.told = @ \ {to}]>>)
  BY <1>6 DEF Update, Moves, Below
<1>13. UNCHANGED <<lock, systems, bindings, uses, known, args, raises, calls, raced, binds>>
  BY DEF QueueFree
<1> HIDE DEF Moves, Queues
<1> QED BY <1>2, <1>3, <1>4, <1>5, <1>6, <1>7, <1>11, <1>12, <1>13
       DEF QueueFreeOf

\* CallNow, by the raise, the system and the binding.
CallNowOf(t, x, s, i, b) ==
  /\ OnTop(t, x) /\ x.locked /\ IsAt(x, s)
  /\ i \in DOMAIN bindings[s] /\ b = bindings[s][i]
  /\ b.event = x.event /\ ~IsRemote(t, b)
  /\ x.called < i /\ x.told = {}
  /\ Moves(t, Len(stack[t]) - 1,
           <<[x EXCEPT !.called = i], Entered(s, b.f, x.id, t)>>)
  /\ UNCHANGED <<lock, systems, bindings, uses, queue, known, args, raises, calls,
                 raced, binds>>

(* It enters a handler of its own.                                         *)
LEMMA CallNowMoves ==
  ASSUME EventTypes, NEW t \in Threads, CallNow(t)
  PROVE  \E x \in Raise, s \in Systems, i \in Nat, b \in Binding : CallNowOf(t, x, s, i, b)
<1>1. stack[t] # <<>> /\ Top(t).op = "raise" BY DEF CallNow, Queued, AtSystem, Doing, Idle
<1>2. Top(t) \in Raise /\ OnTop(t, Top(t)) BY <1>1, OnTopType, Kinds DEF EventTypes
<1>3. PICK x \in Raise : x = Top(t) BY <1>2
<1>4. Here(t) \in Systems /\ x.locked /\ IsAt(x, Here(t)) /\ x.told = {}
  BY <1>3 DEF EventTypes, Raise, Ids, CallNow, Queued, AtSystem, Here, IsAt
<1>5. PICK s \in Systems : s = Here(t) BY <1>4
<1>6. PICK i \in DOMAIN bindings[s] :
         /\ IsNext(i, x.called, LocalOf(t))
         /\ stack' = [stack EXCEPT ![t] =
                         Below(t) \o <<[x EXCEPT !.called = i],
                                       Entered(s, bindings[s][i].f, x.id, t)>>]
  BY <1>3, <1>5 DEF CallNow
<1>7. bindings[s][i] \in Binding BY DEF EventTypes
<1>8. PICK b \in Binding : b = bindings[s][i] BY <1>7
<1>9. b.event = x.event /\ ~IsRemote(t, b) /\ x.called < i
  BY <1>3, <1>5, <1>6, <1>8 DEF IsNext, LocalOf, BindingsOf
<1>10. Moves(t, Len(stack[t]) - 1, <<[x EXCEPT !.called = i], Entered(s, b.f, x.id, t)>>)
  BY <1>6, <1>8 DEF Moves, Below
<1>11. UNCHANGED <<lock, systems, bindings, uses, queue, known, args, raises, calls, raced, binds>>
  BY DEF CallNow
<1>12. i \in Nat BY LenProperties DEF EventTypes
<1> HIDE DEF Moves, IsRemote
<1> QED BY <1>2, <1>3, <1>4, <1>5, <1>8, <1>9, <1>10, <1>11, <1>12 DEF CallNowOf

\* NextSystem, by the raise.
NextSystemOf(t, x) ==
  /\ OnTop(t, x) /\ x.locked /\ x.told = {} /\ x.n <= Len(systems[x.event])
  /\ Moves(t, Len(stack[t]) - 1, <<[x EXCEPT !.n = @ + 1, !.queued = 0, !.called = 0]>>)
  /\ UNCHANGED <<lock, systems, bindings, uses, queue, known, args, raises, calls,
                 raced, binds>>

(* It goes on to the next system.                                          *)
LEMMA NextSystemMoves ==
  ASSUME EventTypes, NEW t \in Threads, NextSystem(t)
  PROVE  \E x \in Raise : NextSystemOf(t, x)
<1>1. stack[t] # <<>> /\ Top(t).op = "raise" BY DEF NextSystem, Queued, AtSystem, Doing, Idle
<1>2. Top(t) \in Raise /\ OnTop(t, Top(t)) BY <1>1, OnTopType, Kinds DEF EventTypes
<1>3. PICK x \in Raise : x = Top(t) BY <1>2
<1>4. x.locked /\ x.told = {} /\ x.n <= Len(systems[x.event])
  BY <1>3 DEF NextSystem, Queued, AtSystem
<1>5. Moves(t, Len(stack[t]) - 1, <<[x EXCEPT !.n = @ + 1, !.queued = 0, !.called = 0]>>)
  BY <1>3 DEF NextSystem, Update, Moves, Below
<1>6. UNCHANGED <<lock, systems, bindings, uses, queue, known, args, raises, calls, raced, binds>>
  BY DEF NextSystem
<1> HIDE DEF Moves
<1> QED BY <1>2, <1>3, <1>4, <1>5, <1>6 DEF NextSystemOf

\* EndRaise, by the raise.
EndRaiseOf(t, x) ==
  /\ OnTop(t, x) /\ x.locked /\ x.n > Len(systems[x.event])
  /\ lock' = [lock EXCEPT ![x.event] = Nothing]
  /\ Moves(t, Len(stack[t]) - 1, <<>>)
  /\ UNCHANGED <<systems, bindings, uses, queue, known, args, raises, calls, raced, binds>>

(* It gives the mutex back and is over.                                    *)
LEMMA EndRaiseMoves ==
  ASSUME EventTypes, NEW t \in Threads, EndRaise(t)
  PROVE  \E x \in Raise : EndRaiseOf(t, x)
<1>1. stack[t] # <<>> /\ Top(t).op = "raise" BY DEF EndRaise, Doing, Idle
<1>2. Top(t) \in Raise /\ OnTop(t, Top(t)) BY <1>1, OnTopType, Kinds DEF EventTypes
<1>3. PICK x \in Raise : x = Top(t) BY <1>2
<1>4. /\ x.locked /\ x.n > Len(systems[x.event])
      /\ lock' = [lock EXCEPT ![x.event] = Nothing]
  BY <1>3 DEF EndRaise
<1>5. Below(t) \in Seq(Activity) BY <1>1, SubSeqProperties, LenProperties, ElementOfSeq
                                 DEF Below, EventTypes
<1>6. stack' = [stack EXCEPT ![t] = Below(t)] BY DEF EndRaise
<1>7. Moves(t, Len(stack[t]) - 1, <<>>) BY <1>5, <1>6, ConcatEmptySeq DEF Moves, Below
<1>8. UNCHANGED <<systems, bindings, uses, queue, known, args, raises, calls, raced, binds>>
  BY DEF EndRaise
<1> HIDE DEF Moves
<1> QED BY <1>2, <1>3, <1>4, <1>7, <1>8 DEF EndRaiseOf

\* Enter, by the call.
EnterOf(t, c) ==
  LET left == [c EXCEPT !.at = "leave"]
  IN  /\ OnTop(t, c) /\ c.at = "enter"
      /\ calls' = Append(calls, [f |-> c.f, id |-> c.id, by |-> c.by, on |-> t,
                                 system |-> c.system])
      /\ \/ Moves(t, Len(stack[t]) - 1, <<left>>) /\ UNCHANGED raises
         \/ \E e \in Events :
              /\ Moves(t, Len(stack[t]) - 1, <<left, NewRaise(e)>>)
              /\ raises' = raises + 1
      /\ UNCHANGED <<lock, systems, bindings, uses, queue, known, args, raced, binds>>

(* A handler is entered: it may raise an event.                            *)
LEMMA EnterMoves ==
  ASSUME EventTypes, NEW t \in Threads, Enter(t)
  PROVE  \E c \in InCall : EnterOf(t, c)
<1>1. stack[t] # <<>> /\ Top(t).op = "call" BY DEF Enter, Doing, Idle
<1>2. Top(t) \in InCall /\ OnTop(t, Top(t)) BY <1>1, OnTopType, Kinds DEF EventTypes
<1>3. PICK c \in InCall : c = Top(t) BY <1>2
<1> DEFINE left == [c EXCEPT !.at = "leave"]
<1>4. /\ c.at = "enter"
      /\ calls' = Append(calls, [f |-> c.f, id |-> c.id, by |-> c.by, on |-> t,
                                 system |-> c.system])
  BY <1>3 DEF Enter
<1>5. Reaction[c.f] \in Events \cup {Nothing}
  BY ReactionAssumption DEF InCall
<1>6. \/ Moves(t, Len(stack[t]) - 1, <<left>>) /\ UNCHANGED raises
      \/ \E e \in Events : /\ Moves(t, Len(stack[t]) - 1, <<left, NewRaise(e)>>)
                           /\ raises' = raises + 1
  <2>1. CASE Reaction[c.f] = Nothing \/ raises = MaxRaises
    BY <1>3, <2>1 DEF Enter, Update, Moves, Below
  <2>2. CASE ~(Reaction[c.f] = Nothing \/ raises = MaxRaises)
    BY <1>3, <1>5, <2>2 DEF Enter, Moves, Below
  <2> QED BY <2>1, <2>2
<1>7. UNCHANGED <<lock, systems, bindings, uses, queue, known, args, raced, binds>> BY DEF Enter
<1> HIDE DEF Moves
<1> QED BY <1>2, <1>3, <1>4, <1>6, <1>7 DEF EnterOf

\* Leave, by the call.
LeaveOf(t, c) ==
  /\ OnTop(t, c) /\ c.at = "leave"
  /\ Moves(t, Len(stack[t]) - 1, <<>>)
  /\ UNCHANGED <<lock, systems, bindings, uses, queue, known, args, raises, calls,
                 raced, binds>>

(* A handler is left.                                                      *)
LEMMA LeaveMoves ==
  ASSUME EventTypes, NEW t \in Threads, Leave(t)
  PROVE  \E c \in InCall : LeaveOf(t, c)
<1>1. stack[t] # <<>> /\ Top(t).op = "call" BY DEF Leave, Doing, Idle
<1>2. Top(t) \in InCall /\ OnTop(t, Top(t)) BY <1>1, OnTopType, Kinds DEF EventTypes
<1>3. Below(t) \in Seq(Activity) BY <1>1, SubSeqProperties, LenProperties, ElementOfSeq
                                 DEF Below, EventTypes
<1>4. stack' = [stack EXCEPT ![t] = Below(t)] BY DEF Leave
<1>5. Moves(t, Len(stack[t]) - 1, <<>>) BY <1>3, <1>4, ConcatEmptySeq DEF Moves, Below
<1> QED BY <1>2, <1>5 DEF Leave, LeaveOf

(* An idle thread raises an event or processes its jobs.                   *)
LEMMA BeginMoves ==
  ASSUME EventTypes, NEW t \in Threads, stack[t] = <<>>, NEW x \in Activity,
         stack' = [stack EXCEPT ![t] = <<x>>]
  PROVE  Moves(t, 0, <<x>>)
<1>1. SubSeq(stack[t], 1, 0) = <<>> BY SubSeqEmpty
<1>2. <<>> \o <<x>> = <<x>> BY ConcatEmptySeq
<1> QED BY <1>1, <1>2 DEF Moves

\* RunJob, by the system and the job.
RunJobOf(t, p, s, j) ==
  /\ OnTop(t, p) /\ s = p.system
  /\ queue[s][t] # <<>> /\ j = Head(queue[s][t])
  /\ queue' = [queue EXCEPT ![s][t] = Tail(@)]
  /\ \/ /\ j.job = "free" /\ args' = [args EXCEPT ![s] = @ \ {j.args}]
        /\ UNCHANGED stack
     \/ /\ j.job = "call" /\ Entered(s, j.f, j.id, j.by) \in InCall
        /\ Moves(t, Len(stack[t]), <<Entered(s, j.f, j.id, j.by)>>)
        /\ UNCHANGED args
  /\ UNCHANGED <<lock, systems, bindings, uses, known, raises, calls, raced, binds>>

(* A thread runs a job queued for it.                                      *)
LEMMA RunJobMoves ==
  ASSUME EventTypes, NEW t \in Threads, RunJob(t)
  PROVE  \E p \in InProcess, s \in Systems, j \in Job : RunJobOf(t, p, s, j)
<1>1. stack[t] # <<>> /\ Top(t).op = "process" BY DEF RunJob, Doing, Idle
<1>2. Top(t) \in InProcess /\ OnTop(t, Top(t)) BY <1>1, OnTopType, Kinds DEF EventTypes
<1>3. PICK p \in InProcess : p = Top(t) BY <1>2
<1>4. PICK s \in Systems : s = p.system BY DEF InProcess
<1>5. queue[s][t] # <<>> BY <1>3, <1>4 DEF RunJob
<1>6. Head(queue[s][t]) \in Job BY <1>5, HeadTailProperties DEF EventTypes
<1>7. PICK j \in Job : j = Head(queue[s][t]) BY <1>6
<1>8. queue' = [queue EXCEPT ![s][t] = Tail(@)] BY <1>3, <1>4 DEF RunJob
<1>9. \/ /\ j.job = "free" /\ args' = [args EXCEPT ![s] = @ \ {j.args}]
         /\ UNCHANGED stack
      \/ /\ j.job = "call" /\ Entered(s, j.f, j.id, j.by) \in InCall
         /\ Moves(t, Len(stack[t]), <<Entered(s, j.f, j.id, j.by)>>)
         /\ UNCHANGED args
  <2>1. CASE j.job = "free" BY <1>3, <1>4, <1>7, <2>1 DEF RunJob
  <2>2. CASE j.job # "free"
    <3>1. j.job = "call" /\ j.f \in Handlers /\ j.id \in Ids /\ j.by \in Threads
      BY <2>2 DEF Job
    <3>2. Entered(s, j.f, j.id, j.by) \in InCall BY <3>1 DEF Entered, InCall
    <3>3. SubSeq(stack[t], 1, Len(stack[t])) = stack[t] BY SubSeqFull DEF EventTypes
    <3>4. stack' = [stack EXCEPT ![t] = @ \o <<Entered(s, j.f, j.id, j.by)>>]
      BY <1>3, <1>4, <1>7, <2>2 DEF RunJob
    <3>5. UNCHANGED args BY <1>3, <1>4, <1>7, <2>2 DEF RunJob
    <3> QED BY <3>1, <3>2, <3>3, <3>4, <3>5 DEF Moves
  <2> QED BY <2>1, <2>2
<1>10. UNCHANGED <<lock, systems, bindings, uses, known, raises, calls, raced, binds>>
  BY DEF RunJob
<1> HIDE DEF Moves
<1> QED BY <1>2, <1>3, <1>4, <1>5, <1>7, <1>8, <1>9, <1>10 DEF RunJobOf

\* EndProcess, by the system.
EndProcessOf(t, p) ==
  /\ OnTop(t, p) /\ Moves(t, 0, <<>>)
  /\ UNCHANGED <<lock, systems, bindings, uses, queue, known, args, raises, calls,
                 raced, binds>>

(* A thread has processed its jobs.                                        *)
LEMMA EndProcessMoves ==
  ASSUME EventTypes, NEW t \in Threads, EndProcess(t)
  PROVE  \E p \in InProcess : EndProcessOf(t, p)
<1>1. stack[t] # <<>> /\ Top(t).op = "process" BY DEF EndProcess, Doing, Idle
<1>2. Top(t) \in InProcess /\ OnTop(t, Top(t)) BY <1>1, OnTopType, Kinds DEF EventTypes
<1>3. SubSeq(stack[t], 1, 0) = <<>> BY SubSeqEmpty
<1>4. <<>> \o <<>> = <<>> BY ConcatEmptySeq, EmptySeq
<1>5. Moves(t, 0, <<>>) BY <1>3, <1>4 DEF EndProcess, Moves
<1> QED BY <1>2, <1>5 DEF EndProcess, EndProcessOf

-----------------------------------------------------------------------------
(* Types                                                                   *)

(* A new raise has not taken its mutex.                                    *)
LEMMA NewRaiseType ==
  ASSUME EventTypes, NEW e \in Events
  PROVE  NewRaise(e) \in Raise
BY DEF EventTypes, NewRaise, Raise, Ids

(* One place of a function of functions is set.                            *)
LEMMA PlaceSet ==
  ASSUME NEW A, NEW B, NEW C, NEW g \in [A -> [B -> C]], NEW a \in A, NEW b \in B, NEW c \in C
  PROVE  [g EXCEPT ![a][b] = c] \in [A -> [B -> C]]
<1> DEFINE h == [g[a] EXCEPT ![b] = c]
<1>1. h \in [B -> C] OBVIOUS
<1>2. [g EXCEPT ![a][b] = c] = [g EXCEPT ![a] = h] OBVIOUS
<1> HIDE DEF h
<1> QED BY <1>1, <1>2

(* A sequence of one or two activities.                                    *)
LEMMA SmallSeq ==
  ASSUME NEW S, NEW x \in S, NEW y \in S
  PROVE  <<>> \in Seq(S) /\ <<x>> \in Seq(S) /\ <<x, y>> \in Seq(S)
OBVIOUS

(* Where a move may leave a thread: in some or all of what it was in.      *)
LEMMA Depths ==
  ASSUME EventTypes, NEW t \in Threads
  PROVE  /\ 0 \in 0 .. Len(stack[t]) /\ Len(stack[t]) \in 0 .. Len(stack[t])
         /\ stack[t] # <<>> => Len(stack[t]) - 1 \in 0 .. Len(stack[t])
BY EmptySeq, LenProperties DEF EventTypes

(* Without keeps the bindings it does not take out, in their order.        *)
LEMMA WithoutProperties ==
  ASSUME NEW S, NEW q \in Seq(S), NEW i \in DOMAIN q
  PROVE  /\ Without(q, i) \in Seq(S)
         /\ Len(Without(q, i)) = Len(q) - 1
         /\ \A j \in DOMAIN Without(q, i) :
              Without(q, i)[j] = IF j < i THEN q[j] ELSE q[j + 1]
<1> DEFINE a == SubSeq(q, 1, i - 1)
           b == SubSeq(q, i + 1, Len(q))
           n == Len(q)
<1>1. n \in Nat /\ i \in 1 .. n /\ DOMAIN q = 1 .. n /\ \A j \in 1 .. n : q[j] \in S
  BY LenProperties, ElementOfSeq
<1>2. a \in Seq(S) /\ Len(a) = i - 1 /\ \A j \in 1 .. i - 1 : a[j] = q[j]
  BY <1>1, SubSeqProperties
<1>3. b \in Seq(S) /\ Len(b) = n - i /\ \A j \in 1 .. n - i : b[j] = q[j + i]
  <2>1. i + 1 \in Int /\ n \in Int /\ \A j \in i + 1 .. n : q[j] \in S BY <1>1
  <2>2. /\ b \in Seq(S) /\ Len(b) = IF i + 1 <= n THEN n - (i + 1) + 1 ELSE 0
        /\ \A j \in 1 .. n - (i + 1) + 1 : b[j] = q[i + 1 + j - 1]
    BY <2>1, SubSeqProperties
  <2> HIDE DEF b, n
  <2>3. /\ (IF i + 1 <= n THEN n - (i + 1) + 1 ELSE 0) = n - i
        /\ n - (i + 1) + 1 = n - i
        /\ \A j \in 1 .. n - i : i + 1 + j - 1 = j + i
    BY <1>1
  <2> QED BY <2>2, <2>3
<1> HIDE DEF a, b, n
<1>4. /\ a \o b \in Seq(S) /\ Len(a \o b) = n - 1
      /\ \A j \in 1 .. n - 1 : (a \o b)[j] = IF j <= i - 1 THEN a[j] ELSE b[j - (i - 1)]
  <2>1. (i - 1) + (n - i) = n - 1 BY <1>1
  <2>2. /\ a \o b \in Seq(S) /\ Len(a \o b) = Len(a) + Len(b)
        /\ \A j \in 1 .. Len(a) + Len(b) : (a \o b)[j] = IF j <= Len(a) THEN a[j] ELSE b[j - Len(a)]
    BY <1>2, <1>3, ConcatProperties
  <2> QED BY <1>2, <1>3, <2>1, <2>2
<1>5. DOMAIN (a \o b) = 1 .. n - 1 BY <1>4, LenProperties
<1>6. ASSUME NEW j \in 1 .. n - 1 PROVE (a \o b)[j] = IF j < i THEN q[j] ELSE q[j + 1]
  <2>1. CASE j < i BY <1>1, <1>2, <1>4, <2>1
  <2>2. CASE ~(j < i)
    <3>1. j - (i - 1) \in 1 .. n - i /\ (j - (i - 1)) + i = j + 1 /\ ~(j <= i - 1) BY <1>1, <2>2
    <3> QED BY <1>3, <1>4, <2>2, <3>1
  <2> QED BY <2>1, <2>2
<1> QED BY <1>4, <1>5, <1>6 DEF Without, a, b, n

(* The state keeps its types: every call made, queued or under way is of a *)
(* handler, a thread and a raise (event.hpp, threading.hpp).               *)
THEOREM EventTyping == Spec => []EventTypes
<1>1. Init => EventTypes
  BY EmptySeq DEF Init, EventTypes
<1>2. EventTypes /\ [Next]_vars => EventTypes'
  <2> SUFFICES ASSUME EventTypes, [Next]_vars PROVE EventTypes' OBVIOUS
  <2> USE DEF EventTypes
  <2>1. CASE UNCHANGED vars BY <2>1 DEF vars
  <2>2. CASE Next
    <3>1. PICK t \in Threads :
             \/ \E f \in Handlers, e \in Events, s \in Systems, tether \in Tethers :
                  Bind(t, f, e, s, tether)
             \/ \E f \in Handlers : Unbind(t, f)
             \/ \E e \in Events : BeginRaise(t, e)
             \/ \E s \in Systems : BeginProcess(t, s)
             \/ Running(t)
      BY <2>2 DEF Next
    <3>2. ASSUME NEW k \in 0 .. Len(stack[t]), NEW q \in Seq(Activity), Moves(t, k, q)
          PROVE  stack' \in [Threads -> Seq(Activity)]
      BY <3>2, Moved
    <3>3. ASSUME NEW f \in Handlers, NEW e \in Events, NEW s \in Systems,
                 NEW tether \in Tethers, Bind(t, f, e, s, tether)
          PROVE  EventTypes'
      <4>1. [f |-> f, event |-> e, tether |-> tether] \in Binding BY DEF Binding
      <4>2. bindings' \in [Systems -> Seq(Binding)] BY <3>3, <4>1 DEF Bind
      <4>3. systems' \in [Events -> Seq(Systems)] BY <3>3 DEF Bind
      <4>4. uses' \in [Systems -> [Events -> Int]]
        <5>1. uses' = [uses EXCEPT ![s][e] = uses[s][e] + 1] BY <3>3 DEF Bind
        <5>2. uses \in [Systems -> [Events -> Int]] OBVIOUS
        <5>3. uses[s][e] + 1 \in Int BY <5>2
        <5> QED BY ONLY <5>1, <5>2, <5>3, PlaceSet, s \in Systems, e \in Events
      <4>5. UNCHANGED <<lock, queue, args, stack, raises, calls>> BY <3>3 DEF Bind
      <4> QED BY <4>2, <4>3, <4>4, <4>5
    <3>4. ASSUME NEW f \in Handlers, Unbind(t, f) PROVE EventTypes'
      <4>1. PICK s \in Systems : \E i \in DOMAIN bindings[s] :
               /\ bindings' = [bindings EXCEPT ![s] = Without(@, i)]
               /\ uses' = [uses EXCEPT ![s][bindings[s][i].event] = @ - 1]
        BY <3>4 DEF Unbind
      <4> PICK i \in DOMAIN bindings[s] :
               /\ bindings' = [bindings EXCEPT ![s] = Without(@, i)]
               /\ uses' = [uses EXCEPT ![s][bindings[s][i].event] = @ - 1]
        BY <4>1
      <4>2. Without(bindings[s], i) \in Seq(Binding) BY WithoutProperties
      <4>3. bindings' \in [Systems -> Seq(Binding)] BY <4>2
      <4>4. uses' \in [Systems -> [Events -> Int]]
        <5>1. bindings[s] \in Seq(Binding) OBVIOUS
        <5>2. bindings[s][i] \in Binding BY <5>1
        <5> DEFINE e == bindings[s][i].event
        <5>3. e \in Events BY <5>2 DEF Binding
        <5>4. uses' = [uses EXCEPT ![s][e] = uses[s][e] - 1] OBVIOUS
        <5> HIDE DEF e
        <5>5. uses \in [Systems -> [Events -> Int]] OBVIOUS
        <5>6. uses[s][e] - 1 \in Int BY <5>3, <5>5
        <5> QED BY ONLY <5>3, <5>4, <5>5, <5>6, PlaceSet, s \in Systems
      <4>5. UNCHANGED <<lock, systems, queue, args, stack, raises, calls>> BY <3>4 DEF Unbind
      <4> QED BY <4>3, <4>4, <4>5
    <3>5. ASSUME NEW e \in Events, BeginRaise(t, e) PROVE EventTypes'
      <4>1. NewRaise(e) \in Activity BY NewRaiseType DEF Activity
      <4>2. stack' \in [Threads -> Seq(Activity)] BY <3>5, <4>1, SmallSeq DEF BeginRaise
      <4> QED BY <3>5, <4>2 DEF BeginRaise
    <3>6. CASE \E s \in Systems : BeginProcess(t, s)
      <4>1. PICK s \in Systems : stack' = [stack EXCEPT ![t] = <<[op |-> "process", system |-> s]>>]
        BY <3>6 DEF BeginProcess
      <4>2. [op |-> "process", system |-> s] \in Activity BY DEF Activity, InProcess
      <4>3. stack' \in [Threads -> Seq(Activity)] BY <4>1, <4>2, SmallSeq
      <4> QED BY <3>6, <4>3 DEF BeginProcess
    <3>7. CASE Lock(t)
      <4>1. PICK x \in Raise : LockOf(t, x) BY <3>7, LockMoves
      <4> USE <4>1 DEF LockOf
      <4>2. [x EXCEPT !.locked = TRUE] \in Activity BY DEF Activity, Raise
      <4>3. stack' \in [Threads -> Seq(Activity)] BY <3>2, <4>2, SmallSeq, Depths DEF OnTop
      <4> QED BY <4>3
    <3>8. CASE QueueCall(t)
      <4>1. PICK x \in Raise, s \in Systems, i \in Nat, b \in Binding : QueueCallOf(t, x, s, i, b)
        BY <3>8, QueueCallMoves
      <4> USE <4>1 DEF QueueCallOf
      <4>2. [x EXCEPT !.queued = i, !.told = @ \cup {b.tether}] \in Activity
        <5>1. x.told \cup {b.tether} \in SUBSET Threads BY DEF Raise
        <5> QED BY <5>1 DEF Activity, Raise
      <4>3. stack' \in [Threads -> Seq(Activity)] BY <3>2, <4>2, SmallSeq, Depths DEF OnTop
      <4>4. <<x.id, b.tether>> \in Ids \X Threads BY DEF Raise
      <4>5. [job |-> "call", f |-> b.f, id |-> x.id, by |-> t, args |-> <<x.id, b.tether>>] \in Job
        BY <4>4 DEF Job, Raise, Binding
      <4>6. queue' \in [Systems -> [Threads -> Seq(Job)]] BY <4>5
      <4>7. args' \in [Systems -> SUBSET (Ids \X Threads)] BY <4>4
      <4> QED BY <4>3, <4>6, <4>7
    <3>9. CASE QueueFree(t)
      <4>1. PICK x \in Raise, s \in Systems, to \in Threads : QueueFreeOf(t, x, s, to)
        BY <3>9, QueueFreeMoves
      <4> USE <4>1 DEF QueueFreeOf
      <4>2. [x EXCEPT !.told = @ \ {to}] \in Activity BY DEF Activity, Raise
      <4>3. stack' \in [Threads -> Seq(Activity)] BY <3>2, <4>2, SmallSeq, Depths DEF OnTop
      <4>4. [job |-> "free", args |-> <<x.id, to>>] \in Job BY DEF Job, Raise
      <4>5. queue' \in [Systems -> [Threads -> Seq(Job)]] BY <4>4
      <4> QED BY <4>3, <4>5
    <3>10. CASE CallNow(t)
      <4>1. PICK x \in Raise, s \in Systems, i \in Nat, b \in Binding : CallNowOf(t, x, s, i, b)
        BY <3>10, CallNowMoves
      <4> USE <4>1 DEF CallNowOf
      <4>2. [x EXCEPT !.called = i] \in Activity BY DEF Activity, Raise
      <4>3. Entered(s, b.f, x.id, t) \in Activity
        BY DEF Activity, Entered, InCall, Binding, Raise
      <4>4. stack' \in [Threads -> Seq(Activity)]
        BY <3>2, <4>2, <4>3, SmallSeq, Depths DEF OnTop
      <4> QED BY <4>4
    <3>11. CASE NextSystem(t)
      <4>1. PICK x \in Raise : NextSystemOf(t, x) BY <3>11, NextSystemMoves
      <4> USE <4>1 DEF NextSystemOf
      <4>2. [x EXCEPT !.n = @ + 1, !.queued = 0, !.called = 0] \in Activity
        <5>1. x.n + 1 \in Ids BY DEF Raise, Ids
        <5> QED BY <5>1 DEF Activity, Raise
      <4>3. stack' \in [Threads -> Seq(Activity)] BY <3>2, <4>2, SmallSeq, Depths DEF OnTop
      <4> QED BY <4>3
    <3>12. CASE EndRaise(t)
      <4>1. PICK x \in Raise : EndRaiseOf(t, x) BY <3>12, EndRaiseMoves
      <4> USE <4>1 DEF EndRaiseOf
      <4>2. stack' \in [Threads -> Seq(Activity)] BY <3>2, EmptySeq, Depths DEF OnTop
      <4> QED BY <4>2
    <3>13. CASE Enter(t)
      <4>1. PICK c \in InCall : EnterOf(t, c) BY <3>13, EnterMoves
      <4> USE <4>1 DEF EnterOf
      <4>2. [c EXCEPT !.at = "leave"] \in Activity BY DEF Activity, InCall
      <4>3. \A e \in Events : NewRaise(e) \in Activity BY NewRaiseType DEF Activity
      <4>4. stack' \in [Threads -> Seq(Activity)]
        BY <3>2, <4>2, <4>3, SmallSeq, Depths DEF OnTop
      <4>5. raises' = raises \/ raises' = raises + 1 OBVIOUS
      <4>6. [f |-> c.f, id |-> c.id, by |-> c.by, on |-> t, system |-> c.system] \in Made
        BY DEF InCall, Made
      <4>7. calls' \in Seq(Made) BY <4>6
      <4>8. raises' \in Nat BY <4>5
      <4> QED BY <4>4, <4>7, <4>8
    <3>14. CASE Leave(t)
      <4>1. PICK c \in InCall : LeaveOf(t, c) BY <3>14, LeaveMoves
      <4> USE <4>1 DEF LeaveOf
      <4>2. stack' \in [Threads -> Seq(Activity)] BY <3>2, EmptySeq, Depths DEF OnTop
      <4> QED BY <4>2
    <3>15. CASE RunJob(t)
      <4>1. PICK p \in InProcess, s \in Systems, j \in Job : RunJobOf(t, p, s, j)
        BY <3>15, RunJobMoves
      <4> USE <4>1 DEF RunJobOf
      <4>2. Tail(queue[s][t]) \in Seq(Job) BY HeadTailProperties
      <4>3. queue' \in [Systems -> [Threads -> Seq(Job)]]
        <5>1. queue' = [queue EXCEPT ![s][t] = Tail(queue[s][t])] OBVIOUS
        <5>2. queue \in [Systems -> [Threads -> Seq(Job)]] OBVIOUS
        <5> QED BY ONLY <4>2, <5>1, <5>2, PlaceSet, s \in Systems, t \in Threads
      <4>4. args' \in [Systems -> SUBSET (Ids \X Threads)]
        <5>1. args' = args \/ args' = [args EXCEPT ![s] = @ \ {j.args}] OBVIOUS
        <5>2. CASE args' = args BY <5>2
        <5>3. CASE args' = [args EXCEPT ![s] = @ \ {j.args}]
          <6> DEFINE new == args[s] \ {j.args}
          <6>1. new \in SUBSET (Ids \X Threads) OBVIOUS
          <6>2. args' = [args EXCEPT ![s] = new] BY <5>3
          <6> HIDE DEF new
          <6> QED BY <6>1, <6>2
        <5> QED BY <5>1, <5>2, <5>3
      <4>5. ASSUME NEW c \in InCall, Moves(t, Len(stack[t]), <<c>>)
            PROVE  stack' \in [Threads -> Seq(Activity)]
        <5>1. <<c>> \in Seq(Activity) BY SmallSeq DEF Activity
        <5> QED BY <3>2, <4>5, <5>1, Depths
      <4>6. stack' \in [Threads -> Seq(Activity)] BY <4>5
      <4> QED BY <4>3, <4>4, <4>6
    <3>16. CASE EndProcess(t)
      <4>1. PICK p \in InProcess : EndProcessOf(t, p) BY <3>16, EndProcessMoves
      <4> USE <4>1 DEF EndProcessOf
      <4>2. stack' \in [Threads -> Seq(Activity)] BY <3>2, EmptySeq, Depths
      <4> QED BY <4>2
    <3> QED BY <3>1, <3>3, <3>4, <3>5, <3>6, <3>7, <3>8, <3>9, <3>10, <3>11, <3>12, <3>13,
               <3>14, <3>15, <3>16 DEF Running
  <2> QED BY <2>1, <2>2
<1> QED BY <1>1, <1>2, PTL DEF Spec

-----------------------------------------------------------------------------
(* The bindings                                                            *)

(* One binding more at the end of a list is one more of its event.         *)
LEMMA CountAppended ==
  ASSUME NEW q \in Seq(Binding), NEW b \in Binding, NEW e \in Events
  PROVE  LET N(r) == {i \in DOMAIN r : r[i].event = e}
         IN  /\ Cardinality(N(q)) \in Nat
             /\ Cardinality(N(Append(q, b))) =
                  Cardinality(N(q)) + IF b.event = e THEN 1 ELSE 0
<1> DEFINE N(r) == {i \in DOMAIN r : r[i].event = e}
           n == Len(q)
<1>1. n \in Nat /\ DOMAIN q = 1 .. n BY LenProperties
<1>2. /\ DOMAIN Append(q, b) = 1 .. n + 1
      /\ \A i \in 1 .. n : Append(q, b)[i] = q[i]
      /\ Append(q, b)[n + 1] = b
  BY <1>1
<1>3. IsFiniteSet(N(q))
  <2>1. IsFiniteSet(1 .. n) BY <1>1, FS_Interval
  <2> QED BY <1>1, <2>1, FS_Subset
<1>4. CASE b.event = e
  <2>1. N(Append(q, b)) = N(q) \cup {n + 1} BY <1>1, <1>2, <1>4
  <2>2. n + 1 \notin N(q) BY <1>1
  <2> HIDE DEF N, n
  <2> QED BY <1>3, <1>4, <2>1, <2>2, FS_AddElement, FS_CardinalityType DEF N
<1>5. CASE b.event # e
  <2>1. N(Append(q, b)) = N(q) BY <1>1, <1>2, <1>5
  <2>2. Cardinality(N(q)) \in Nat BY <1>3, FS_CardinalityType
  <2>3. Cardinality(N(Append(q, b))) = Cardinality(N(q)) BY <2>1
  <2> HIDE DEF N
  <2>4. /\ Cardinality(N(q)) \in Nat
        /\ Cardinality(N(Append(q, b))) = Cardinality(N(q)) + IF b.event = e THEN 1 ELSE 0
    BY <1>5, <2>2, <2>3
  <2> QED BY <2>4 DEF N
<1> QED BY <1>4, <1>5

(* One binding less is one less of its event.                              *)
LEMMA CountWithout ==
  ASSUME NEW q \in Seq(Binding), NEW k \in DOMAIN q, NEW e \in Events
  PROVE  LET N(r) == {i \in DOMAIN r : r[i].event = e}
         IN  Cardinality(N(Without(q, k))) =
               Cardinality(N(q)) - IF q[k].event = e THEN 1 ELSE 0
<1> DEFINE N(r) == {i \in DOMAIN r : r[i].event = e}
           n == Len(q)
           w == Without(q, k)
           M == N(q) \ {k}
<1>1. n \in Nat /\ DOMAIN q = 1 .. n /\ k \in 1 .. n BY LenProperties
<1>2. w \in Seq(Binding) /\ Len(w) = n - 1
      /\ \A j \in DOMAIN w : w[j] = IF j < k THEN q[j] ELSE q[j + 1]
  BY WithoutProperties
<1>3. DOMAIN w = 1 .. n - 1 BY <1>2, LenProperties
<1>4. IsFiniteSet(N(q))
  <2>1. IsFiniteSet(1 .. n) BY <1>1, FS_Interval
  <2> QED BY <1>1, <2>1, FS_Subset
<1> HIDE DEF w, n
<1>5. IsFiniteSet(M) /\ Cardinality(M) = Cardinality(N(q)) - IF q[k].event = e THEN 1 ELSE 0
  <2>1. Cardinality(N(q)) \in Nat BY <1>4, FS_CardinalityType
  <2>2. k \in N(q) <=> q[k].event = e OBVIOUS
  <2> HIDE DEF N
  <2> QED BY <1>4, <2>1, <2>2, FS_RemoveElement
<1> DEFINE g == [i \in M |-> IF i < k THEN i ELSE i - 1]
<1>6. g \in Bijection(M, N(w))
  <2>1. ASSUME NEW i \in M PROVE g[i] \in N(w) /\ w[g[i]] = q[i]
    <3>1. i \in 1 .. n /\ i # k /\ q[i].event = e BY <1>1
    <3>2. CASE i < k BY <1>1, <1>2, <1>3, <3>1, <3>2
    <3>3. CASE ~(i < k)
      <4>1. i - 1 \in 1 .. n - 1 /\ ~(i - 1 < k) /\ (i - 1) + 1 = i BY <1>1, <3>1, <3>3
      <4>2. w[i - 1] = q[i] BY <1>2, <1>3, <4>1
      <4> QED BY <1>3, <3>1, <3>3, <4>1, <4>2
    <3> QED BY <3>2, <3>3
  <2>2. g \in [M -> N(w)] BY <2>1
  <2>3. \A i, j \in M : g[i] = g[j] => i = j
    <3>1. \A i \in M : i \in Int /\ i # k BY <1>1
    <3>2. k \in Int BY <1>1
    <3> HIDE DEF M, N
    <3> QED BY <3>1, <3>2
  <2>4. ASSUME NEW j \in N(w) PROVE \E i \in M : g[i] = j
    <3>1. j \in 1 .. n - 1 /\ w[j].event = e BY <1>3
    <3>2. CASE j < k
      <4>1. j \in 1 .. n /\ q[j].event = e /\ j # k BY <1>1, <1>2, <1>3, <3>1, <3>2
      <4>2. j \in M BY <1>1, <4>1
      <4> QED BY <4>2, <3>2
    <3>3. CASE ~(j < k)
      <4>1. j + 1 \in 1 .. n /\ j + 1 # k /\ ~(j + 1 < k) /\ (j + 1) - 1 = j BY <1>1, <3>1, <3>3
      <4>2. q[j + 1].event = e BY <1>2, <1>3, <3>1, <3>3
      <4>3. j + 1 \in M BY <1>1, <4>1, <4>2
      <4> QED BY <4>1, <4>3
    <3> QED BY <3>2, <3>3
  <2> HIDE DEF g, M, N
  <2> QED BY <2>2, <2>3, <2>4, Fun_IsBij DEF Bijection, Injection, Surjection, IsInjective
<1>7. Cardinality(N(w)) = Cardinality(M)
  <2> HIDE DEF M, N, g
  <2> QED BY <1>5, <1>6, FS_Bijection DEF ExistsBijection
<1> QED BY <1>5, <1>7 DEF w

(* Bind and Unbind alone change what is bound.                             *)
LEMMA BindingsKept ==
  ASSUME NEW t \in Threads, Running(t) \/ (\E s \in Systems : BeginProcess(t, s)) \/ \E e \in Events : BeginRaise(t, e)
  PROVE  UNCHANGED <<systems, bindings, uses, binds>>
BY DEF Running, BeginProcess, BeginRaise, Lock, QueueCall, QueueFree, CallNow, NextSystem,
       EndRaise, Enter, Leave, RunJob, EndProcess

(* The counts are right, and no handler is bound and no system added twice.*)
THEOREM BindingsSound == Spec => []BindInv
<1>1. Init => BindInv
  <2> SUFFICES ASSUME Init PROVE BindInv OBVIOUS
  <2>1. ASSUME NEW s \in Systems, NEW e \in Events
        PROVE  uses[s][e] = Cardinality(BindingsOf(s, e))
    <3>1. BindingsOf(s, e) = {} BY DEF Init, BindingsOf
    <3> QED BY <3>1, FS_EmptySet DEF Init
  <2>2. BoundOnce BY DEF Init, BoundOnce
  <2>3. AddedOnce BY DEF Init, AddedOnce
  <2> QED BY <2>1, <2>2, <2>3 DEF BindInv, UsesCountBindings
<1>2. EventTypes /\ BindInv /\ [Next]_vars => BindInv'
  <2> SUFFICES ASSUME EventTypes, BindInv, [Next]_vars PROVE BindInv' OBVIOUS
  <2>1. CASE UNCHANGED <<systems, bindings, uses>>
    BY <2>1 DEF BindInv, UsesCountBindings, BindingsOf, BoundOnce, AddedOnce
  <2>2. ASSUME NEW t \in Threads, NEW f \in Handlers, NEW e \in Events, NEW s \in Systems,
               NEW tether \in Tethers, Bind(t, f, e, s, tether)
        PROVE  BindInv'
    <3> DEFINE b == [f |-> f, event |-> e, tether |-> tether]
    <3>1. b \in Binding /\ b.event = e /\ b.f = f BY DEF Binding
    <3> HIDE DEF b
    <3>2. /\ ~IsBound(f)
          /\ uses' = [uses EXCEPT ![s][e] = @ + 1]
          /\ bindings' = [bindings EXCEPT ![s] = Append(@, b)]
          /\ systems' = [systems EXCEPT ![e] =
                            IF \E i \in DOMAIN @ : @[i] = s THEN @ ELSE Append(@, s)]
      BY <2>2 DEF Bind, b
    <3>3. UsesCountBindings'
      <4> SUFFICES ASSUME NEW r \in Systems, NEW d \in Events
                   PROVE  uses'[r][d] = Cardinality({i \in DOMAIN bindings'[r] :
                                                        bindings'[r][i].event = d})
        BY DEF UsesCountBindings, BindingsOf
      <4>1. uses[r][d] = Cardinality({i \in DOMAIN bindings[r] : bindings[r][i].event = d})
        BY DEF BindInv, UsesCountBindings, BindingsOf
      <4>2. CASE r # s BY <3>2, <4>1, <4>2 DEF EventTypes
      <4>3. CASE r = s
        <5>1. bindings'[s] = Append(bindings[s], b) BY <3>2 DEF EventTypes
        <5>2. uses'[s][d] = uses[s][d] + IF b.event = d THEN 1 ELSE 0
          <6>1. uses[s] \in [Events -> Int] /\ uses'[s] = [uses[s] EXCEPT ![e] = @ + 1]
            BY <3>2 DEF EventTypes
          <6> QED BY <3>1, <6>1
        <5>3. bindings[s] \in Seq(Binding) BY DEF EventTypes
        <5> QED BY <3>1, <4>1, <4>3, <5>1, <5>2, <5>3, CountAppended
      <4> QED BY <4>2, <4>3
    <3>4. BoundOnce'
      <4> SUFFICES ASSUME NEW q \in Systems, NEW r \in Systems,
                          NEW i \in DOMAIN bindings'[q], NEW j \in DOMAIN bindings'[r],
                          bindings'[q][i].f = bindings'[r][j].f
                   PROVE  q = r /\ i = j
        BY DEF BoundOnce
      <4>1. ASSUME NEW p \in Systems, NEW k \in DOMAIN bindings'[p]
            PROVE  \/ k \in DOMAIN bindings[p] /\ bindings'[p][k] = bindings[p][k]
                   \/ p = s /\ k = Len(bindings[s]) + 1 /\ bindings'[p][k].f = f
        <5>1. bindings[s] \in Seq(Binding) /\ Len(bindings[s]) \in Nat
          BY LenProperties DEF EventTypes
        <5>2. bindings'[p] = IF p = s THEN Append(bindings[s], b) ELSE bindings[p]
          BY <3>2 DEF EventTypes
        <5> QED BY <3>1, <5>1, <5>2
      <4>2. \A p \in Systems : \A k \in DOMAIN bindings[p] : bindings[p][k].f # f
        BY <3>2 DEF IsBound
      <4>3. BoundOnce BY DEF BindInv
      <4> QED BY <4>1, <4>2, <4>3 DEF BoundOnce
    <3>5. AddedOnce'
      <4> SUFFICES ASSUME NEW d \in Events, NEW i \in DOMAIN systems'[d],
                          NEW j \in DOMAIN systems'[d], systems'[d][i] = systems'[d][j]
                   PROVE  i = j
        BY DEF AddedOnce
      <4>1. AddedOnce BY DEF BindInv
      <4>2. CASE systems'[d] = systems[d] BY <4>1, <4>2 DEF AddedOnce
      <4>3. CASE systems'[d] # systems[d]
        <5>1. systems'[d] = Append(systems[d], s) /\ ~\E k \in DOMAIN systems[d] : systems[d][k] = s
          BY <3>2, <4>3 DEF EventTypes
        <5>2. systems[d] \in Seq(Systems) /\ Len(systems[d]) \in Nat
          BY LenProperties DEF EventTypes
        <5>3. \A k \in DOMAIN systems'[d] :
                \/ k \in DOMAIN systems[d] /\ systems'[d][k] = systems[d][k]
                \/ k = Len(systems[d]) + 1 /\ systems'[d][k] = s
          BY <5>1, <5>2
        <5> QED BY <4>1, <5>1, <5>3 DEF AddedOnce
      <4> QED BY <4>2, <4>3
    <3> QED BY <3>3, <3>4, <3>5 DEF BindInv
  <2>3. ASSUME NEW t \in Threads, NEW f \in Handlers, Unbind(t, f)
        PROVE  BindInv'
    <3>1. PICK s \in Systems : \E k \in DOMAIN bindings[s] :
             /\ bindings' = [bindings EXCEPT ![s] = Without(@, k)]
             /\ uses' = [uses EXCEPT ![s][bindings[s][k].event] = @ - 1]
      BY <2>3 DEF Unbind
    <3>2. PICK k \in DOMAIN bindings[s] :
             /\ bindings' = [bindings EXCEPT ![s] = Without(@, k)]
             /\ uses' = [uses EXCEPT ![s][bindings[s][k].event] = @ - 1]
      BY <3>1
    <3>3. bindings[s] \in Seq(Binding) /\ bindings[s][k] \in Binding BY DEF EventTypes
    <3>4. UNCHANGED systems BY <2>3 DEF Unbind
    <3>5. UsesCountBindings'
      <4> SUFFICES ASSUME NEW r \in Systems, NEW d \in Events
                   PROVE  uses'[r][d] = Cardinality({i \in DOMAIN bindings'[r] :
                                                        bindings'[r][i].event = d})
        BY DEF UsesCountBindings, BindingsOf
      <4>1. uses[r][d] = Cardinality({i \in DOMAIN bindings[r] : bindings[r][i].event = d})
        BY DEF BindInv, UsesCountBindings, BindingsOf
      <4>2. CASE r # s BY <3>2, <4>1, <4>2 DEF EventTypes
      <4>3. CASE r = s
        <5>1. bindings'[s] = Without(bindings[s], k) BY <3>2 DEF EventTypes
        <5>2. bindings[s][k].event \in Events BY <3>3 DEF Binding
        <5>3. uses'[s][d] = uses[s][d] - IF bindings[s][k].event = d THEN 1 ELSE 0
          BY <3>2, <5>2 DEF EventTypes
        <5> QED BY <3>3, <4>1, <4>3, <5>1, <5>3, CountWithout
      <4> QED BY <4>2, <4>3
    <3>6. BoundOnce'
      <4> SUFFICES ASSUME NEW q \in Systems, NEW r \in Systems,
                          NEW i \in DOMAIN bindings'[q], NEW j \in DOMAIN bindings'[r],
                          bindings'[q][i].f = bindings'[r][j].f
                   PROVE  q = r /\ i = j
        BY DEF BoundOnce
      <4> DEFINE from(p, m) == IF p = s /\ ~(m < k) THEN m + 1 ELSE m
      <4>1. ASSUME NEW p \in Systems, NEW m \in DOMAIN bindings'[p]
            PROVE  /\ from(p, m) \in DOMAIN bindings[p] /\ m \in Int
                   /\ bindings'[p][m] = bindings[p][from(p, m)]
        <5>1. bindings[p] \in Seq(Binding) /\ DOMAIN bindings[p] = 1 .. Len(bindings[p])
              /\ Len(bindings[p]) \in Nat
          BY LenProperties DEF EventTypes
        <5>2. bindings'[p] = IF p = s THEN Without(bindings[s], k) ELSE bindings[p]
          BY <3>2 DEF EventTypes
        <5>3. CASE p # s BY <5>1, <5>2, <5>3
        <5>4. CASE p = s
          <6>1. /\ Without(bindings[s], k) \in Seq(Binding)
                /\ Len(Without(bindings[s], k)) = Len(bindings[s]) - 1
                /\ \A h \in DOMAIN Without(bindings[s], k) :
                     Without(bindings[s], k)[h] = IF h < k THEN bindings[s][h] ELSE bindings[s][h + 1]
            BY <3>3, WithoutProperties
          <6>2. m \in 1 .. Len(bindings[s]) - 1 BY <5>2, <5>4, <6>1, LenProperties
          <6> QED BY <5>1, <5>2, <5>4, <6>1, <6>2
        <5> QED BY <5>3, <5>4
      <4>2. BoundOnce BY DEF BindInv
      <4>3. bindings[q][from(q, i)].f = bindings[r][from(r, j)].f BY <4>1
      <4>4. q = r /\ from(q, i) = from(r, j) BY <4>1, <4>2, <4>3 DEF BoundOnce
      <4>5. i \in Int /\ j \in Int /\ k \in Int BY <3>3, <4>1, LenProperties
      <4> QED BY <4>4, <4>5
    <3>7. AddedOnce' BY <3>4 DEF BindInv, AddedOnce
    <3> QED BY <3>5, <3>6, <3>7 DEF BindInv
  <2>4. CASE Next
    BY <2>1, <2>2, <2>3, <2>4, BindingsKept DEF Next
  <2> QED BY <2>1, <2>4 DEF vars
<1> QED BY <1>1, <1>2, EventTyping, PTL DEF Spec

(* Each system counts the bindings it has for an event, whatever binds and *)
(* unbinds there were (event.hpp: bind, unbind).                           *)
THEOREM UsesCounted == Spec => []UsesCountBindings
<1>1. BindInv => UsesCountBindings BY DEF BindInv
<1> QED BY <1>1, BindingsSound, PTL

-----------------------------------------------------------------------------
(* The raises under way                                                    *)

(* An activity after a move was there before or is one that it begins.     *)
LEMMA WasOrBegins ==
  ASSUME EventTypes, NEW t \in Threads, NEW k \in 0 .. Len(stack[t]),
         NEW q \in Seq(Activity), Moves(t, k, q),
         NEW v \in Threads, NEW j \in DOMAIN stack'[v]
  PROVE  /\ j \in Nat \ {0}
         /\ \/ /\ j \in DOMAIN stack[v] /\ stack'[v][j] = stack[v][j]
               /\ v = t => j <= k
            \/ /\ v = t /\ j > k /\ j - k \in 1 .. Len(q) /\ stack'[v][j] = q[j - k]
               /\ k + (j - k) = j
<1>1. /\ stack' \in [Threads -> Seq(Activity)]
      /\ \A u \in Threads : u # t => stack'[u] = stack[u]
      /\ Len(stack'[t]) = k + Len(q)
      /\ DOMAIN stack[t] = 1 .. Len(stack[t])
      /\ DOMAIN stack'[t] = 1 .. k + Len(q)
      /\ \A i \in 1 .. k : stack'[t][i] = stack[t][i]
      /\ \A i \in 1 .. Len(q) : stack'[t][k + i] = q[i]
  <2>1. stack \in [Threads -> Seq(Activity)] BY DEF EventTypes
  <2> QED BY ONLY <2>1, Moved, t \in Threads, k \in 0 .. Len(stack[t]), q \in Seq(Activity),
                  Moves(t, k, q)
<1>2. /\ Len(q) \in Nat /\ k \in Nat
      /\ \A u \in Threads : Len(stack[u]) \in Nat /\ DOMAIN stack[u] = 1 .. Len(stack[u])
  BY LenProperties DEF EventTypes
<1>3. CASE v # t BY <1>1, <1>2, <1>3
<1>4. CASE v = t /\ j <= k BY <1>1, <1>2, <1>4
<1>5. CASE v = t /\ ~(j <= k)
  <2>1. j - k \in 1 .. Len(q) /\ k + (j - k) = j /\ j > k /\ j \in Nat \ {0} BY <1>1, <1>2, <1>5
  <2> QED BY <1>1, <1>5, <2>1
<1> QED BY <1>3, <1>4, <1>5

\* y goes on with the raise that t has at the place i, or takes its mutex as well.
Same(t, i, y) == AtRaise(t, i) /\ y.id = stack[t][i].id /\ y.event = stack[t][i].event
GoesOn(t, i, y) == Same(t, i, y) /\ (y.locked => stack[t][i].locked)
Locks(t, i, y) == Same(t, i, y) /\ lock[y.event] = Nothing
Starts(y) == y.id = raises + 1 /\ raises' = raises + 1 /\ ~y.locked

\* What the sequence q of activities must be for t to begin them behind its first k.
Fits(t, k, q) ==
  \A m \in 1 .. Len(q) :
    /\ q[m].op = "process" => k + m = 1
    /\ m < Len(q) /\ q[m].op = "raise" => q[m].locked
    /\ m < Len(q) /\ q[m].op = "call" => q[m].at = "leave"
    /\ q[m].op = "raise" =>
         \/ GoesOn(t, k + m, q[m])
         \/ m = Len(q) /\ (Locks(t, k + m, q[m]) \/ Starts(q[m]))

(* A raise after such a move is one of before or the new one at the end.   *)
LEMMA RaisesAfter ==
  ASSUME EventTypes, NEW t \in Threads, NEW k \in 0 .. Len(stack[t]),
         NEW q \in Seq(Activity), Moves(t, k, q), Fits(t, k, q),
         NEW v \in Threads, NEW j \in DOMAIN stack'[v], AtRaise(v, j)'
  PROVE  \/ GoesOn(v, j, stack'[v][j])
         \/ v = t /\ j = k + Len(q) /\ Locks(v, j, stack'[v][j])
         \/ v = t /\ j = k + Len(q) /\ Starts(stack'[v][j])
<1>1. CASE j \in DOMAIN stack[v] /\ stack'[v][j] = stack[v][j]
  BY <1>1 DEF GoesOn, Same, AtRaise
<1>2. CASE v = t /\ j - k \in 1 .. Len(q) /\ stack'[v][j] = q[j - k] /\ k + (j - k) = j
  <2>1. PICK m \in 1 .. Len(q) : m = j - k /\ k + m = j BY <1>2
  <2>2. q[m].op = "raise" BY <1>2, <2>1 DEF AtRaise
  <2> QED BY <1>2, <2>1, <2>2 DEF Fits
<1> QED BY <1>1, <1>2, WasOrBegins

(* Such a move keeps the raises apart and the activities settled.          *)
LEMMA StackMoved ==
  ASSUME EventTypes, StackInv, NEW t \in Threads, NEW k \in 0 .. Len(stack[t]),
         NEW q \in Seq(Activity), Moves(t, k, q),
         raises' = raises \/ raises' = raises + 1,
         k < Len(stack[t]) \/ k = 0 \/ stack[t][k].op = "process",
         Fits(t, k, q)
  PROVE  Settled' /\ Numbered' /\ Apart'
<1>1. \A v \in Threads : \A j \in DOMAIN stack'[v] :
         /\ j \in Nat \ {0}
         /\ \/ /\ j \in DOMAIN stack[v] /\ stack'[v][j] = stack[v][j]
               /\ v = t => j <= k
            \/ /\ v = t /\ j > k /\ j - k \in 1 .. Len(q) /\ stack'[v][j] = q[j - k]
               /\ k + (j - k) = j
  BY WasOrBegins
<1>2. /\ \A v \in Threads : v # t => stack'[v] = stack[v]
      /\ Len(stack'[t]) = k + Len(q)
      /\ Len(q) \in Nat /\ k \in Nat /\ Len(stack[t]) \in Nat /\ k <= Len(stack[t])
      /\ raises \in Nat
  BY Moved, LenProperties DEF EventTypes
<1>3. Settled'
  <2> SUFFICES ASSUME NEW v \in Threads, NEW j \in DOMAIN stack'[v]
               PROVE  LET x == stack'[v][j]
                      IN  /\ x.op = "process" => j = 1
                          /\ j < Len(stack'[v]) /\ x.op = "raise" => x.locked
                          /\ j < Len(stack'[v]) /\ x.op = "call" => x.at = "leave"
    BY DEF Settled
  <2>1. Settled BY DEF StackInv
  <2>2. CASE v # t BY <1>2, <2>1, <2>2 DEF Settled
  <2>3. CASE v = t /\ j \in DOMAIN stack[v] /\ stack'[v][j] = stack[v][j] /\ j <= k
    <3>1. CASE j < Len(stack[t]) BY <1>1, <1>2, <2>1, <2>3, <3>1 DEF Settled
    <3>2. CASE ~(j < Len(stack[t]))
      <4>1. j = k /\ k = Len(stack[t]) /\ stack[t][k].op = "process" BY <1>1, <1>2, <2>3, <3>2
      <4> QED BY <2>1, <2>3, <4>1 DEF Settled
    <3> QED BY <3>1, <3>2
  <2>4. CASE v = t /\ j - k \in 1 .. Len(q) /\ stack'[v][j] = q[j - k] /\ k + (j - k) = j
    <3>1. PICK m \in 1 .. Len(q) : m = j - k /\ k + m = j BY <2>4
    <3>2. j < Len(stack'[v]) => m < Len(q) BY <1>1, <1>2, <2>4, <3>1
    <3> QED BY <2>4, <3>1, <3>2 DEF Fits
  <2> QED BY <1>1, <2>2, <2>3, <2>4
<1>4. ASSUME NEW v \in Threads, NEW j \in DOMAIN stack'[v], AtRaise(v, j)'
      PROVE  \/ GoesOn(v, j, stack'[v][j])
             \/ v = t /\ j = k + Len(q) /\ Locks(v, j, stack'[v][j])
             \/ v = t /\ j = k + Len(q) /\ Starts(stack'[v][j])
  BY <1>4, RaisesAfter
<1>5. ASSUME NEW v \in Threads, NEW j \in DOMAIN stack[v], AtRaise(v, j)
      PROVE  stack[v][j].id \in Nat /\ stack[v][j].id <= raises /\ stack[v][j] \in Raise
  <2>1. stack[v][j] \in Activity BY DEF EventTypes
  <2>2. stack[v][j] \in Raise BY <1>5, <2>1, Kinds DEF AtRaise
  <2> QED BY <1>5, <2>2 DEF Raise, Ids, StackInv, Numbered
<1>6. Numbered'
  <2> SUFFICES ASSUME NEW v \in Threads, NEW j \in DOMAIN stack'[v], AtRaise(v, j)'
               PROVE  stack'[v][j].id <= raises'
    BY DEF Numbered
  <2>1. CASE Same(v, j, stack'[v][j])
    <3>1. j \in DOMAIN stack[v] /\ AtRaise(v, j) /\ stack'[v][j].id = stack[v][j].id
      BY <2>1 DEF Same, AtRaise
    <3> QED BY <1>2, <1>5, <3>1
  <2>2. CASE Starts(stack'[v][j]) BY <1>2, <2>2 DEF Starts
  <2> QED BY <1>4, <2>1, <2>2 DEF GoesOn, Locks
<1>7. Apart'
  <2> SUFFICES ASSUME NEW v \in Threads, NEW u \in Threads,
                      NEW i \in DOMAIN stack'[v], NEW j \in DOMAIN stack'[u],
                      AtRaise(v, i)', AtRaise(u, j)'
               PROVE  /\ stack'[v][i].id = stack'[u][j].id => v = u /\ i = j
                      /\ /\ stack'[v][i].locked /\ stack'[u][j].locked
                         /\ stack'[v][i].event = stack'[u][j].event
                         => v = u /\ i = j
    BY DEF Apart
  <2> DEFINE x == stack'[v][i]
             y == stack'[u][j]
  <2> HIDE DEF x, y
  <2>1. /\ \/ GoesOn(v, i, x)
           \/ v = t /\ i = k + Len(q) /\ Locks(v, i, x)
           \/ v = t /\ i = k + Len(q) /\ Starts(x)
        /\ \/ GoesOn(u, j, y)
           \/ u = t /\ j = k + Len(q) /\ Locks(u, j, y)
           \/ u = t /\ j = k + Len(q) /\ Starts(y)
    BY <1>4 DEF x, y
  <2>2. Apart /\ Held BY DEF StackInv
  <2>3. ASSUME NEW w \in Threads, NEW h, NEW z, Same(w, h, z)
        PROVE  /\ h \in DOMAIN stack[w] /\ AtRaise(w, h) /\ z.id = stack[w][h].id
               /\ z.event = stack[w][h].event /\ z.id \in Nat /\ z.id <= raises
    BY <1>5, <2>3 DEF Same, AtRaise
  <2>4. x.id = y.id => v = u /\ i = j
    <3>1. CASE Same(v, i, x) /\ Same(u, j, y) BY <2>2, <2>3, <3>1 DEF Apart
    <3>2. CASE Same(v, i, x) /\ Starts(y)
      BY <1>2, <2>3, <3>2 DEF Starts
    <3>3. CASE Starts(x) /\ Same(u, j, y)
      BY <1>2, <2>3, <3>3 DEF Starts
    <3> QED BY <2>1, <3>1, <3>2, <3>3 DEF GoesOn, Locks
  <2>5. ASSUME x.locked, y.locked, x.event = y.event PROVE v = u /\ i = j
    <3>1. ~Starts(x) /\ ~Starts(y) BY <2>5 DEF Starts
    <3>2. ASSUME NEW w \in Threads, NEW h, NEW z, GoesOn(w, h, z), z.locked
          PROVE  /\ h \in DOMAIN stack[w] /\ AtRaise(w, h) /\ z.event = stack[w][h].event
                 /\ stack[w][h].locked /\ lock[z.event] = w /\ w # Nothing
      BY <2>2, <2>3, <3>2, ReactionAssumption DEF GoesOn, Held
    <3>3. CASE GoesOn(v, i, x) /\ GoesOn(u, j, y) BY <2>2, <2>5, <3>2, <3>3 DEF Apart
    <3>4. CASE GoesOn(v, i, x) /\ Locks(u, j, y) BY <2>5, <3>2, <3>4 DEF Locks
    <3>5. CASE Locks(v, i, x) /\ GoesOn(u, j, y) BY <2>5, <3>2, <3>5 DEF Locks
    <3> QED BY <2>1, <3>1, <3>3, <3>4, <3>5
  <2> QED BY <2>4, <2>5 DEF x, y
<1> QED BY <1>3, <1>6, <1>7

TakesNothing(t, k, q) ==
  \A m \in 1 .. Len(q) : q[m].op = "raise" => GoesOn(t, k + m, q[m]) \/ Starts(q[m])

(* Nor does it change who holds what, when it takes and gives back nothing.*)
LEMMA StackKept ==
  ASSUME EventTypes, StackInv, NEW t \in Threads, NEW k \in 0 .. Len(stack[t]),
         NEW q \in Seq(Activity), Moves(t, k, q),
         raises' = raises \/ raises' = raises + 1,
         k < Len(stack[t]) \/ k = 0 \/ stack[t][k].op = "process",
         Fits(t, k, q), lock' = lock, TakesNothing(t, k, q)
  PROVE  StackInv'
<1>1. Settled' /\ Numbered' /\ Apart' BY StackMoved
<1>2. Held'
  <2> SUFFICES ASSUME NEW v \in Threads, NEW j \in DOMAIN stack'[v],
                      AtRaise(v, j)', stack'[v][j].locked
               PROVE  lock'[stack'[v][j].event] = v
    BY DEF Held
  <2>1. GoesOn(v, j, stack'[v][j])
    <3>1. CASE j \in DOMAIN stack[v] /\ stack'[v][j] = stack[v][j]
      BY <3>1 DEF GoesOn, Same, AtRaise
    <3>2. CASE v = t /\ j - k \in 1 .. Len(q) /\ stack'[v][j] = q[j - k] /\ k + (j - k) = j
      BY <3>2 DEF AtRaise, Starts, TakesNothing
    <3> QED BY <3>1, <3>2, WasOrBegins
  <2> QED BY <2>1 DEF GoesOn, Same, AtRaise, StackInv, Held
<1> QED BY <1>1, <1>2 DEF StackInv

(* The innermost activity is above all the others.                         *)
LEMMA AtTop ==
  ASSUME EventTypes, NEW t \in Threads, NEW x, OnTop(t, x)
  PROVE  LET n == Len(stack[t])
         IN  /\ n \in Nat \ {0} /\ n \in DOMAIN stack[t] /\ stack[t][n] = x
             /\ n - 1 \in 0 .. n /\ n - 1 < n /\ (n - 1) + 1 = n /\ (n - 1) + 2 # 1
             /\ x.op = "raise" => AtRaise(t, n)
             /\ x \in Activity
BY EmptySeq, LenProperties DEF EventTypes, OnTop, AtRaise

(* What a thread waits for or holds, and the numbers of raises, are its own*)
LEMMA StackStep ==
  ASSUME EventTypes, StackInv, NEW t \in Threads,
         Running(t) \/ (\E s \in Systems : BeginProcess(t, s)) \/ \E e \in Events : BeginRaise(t, e)
  PROVE  StackInv'
<1> DEFINE n == Len(stack[t])
<1>1. ASSUME NEW x \in Raise, NEW y \in Raise, OnTop(t, x), x.locked,
             y.id = x.id, y.event = x.event, y.locked,
             Moves(t, n - 1, <<y>>), UNCHANGED <<lock, raises>>
      PROVE  StackInv'
  <2>1. <<y>> \in Seq(Activity) /\ Len(<<y>>) = 1 /\ <<y>>[1] = y BY SmallSeq DEF Activity
  <2>2. GoesOn(t, (n - 1) + 1, y) BY <1>1, AtTop DEF GoesOn, Same, Raise
  <2>3. Fits(t, n - 1, <<y>>) BY <1>1, <2>1, <2>2 DEF Fits, Raise
  <2>4. TakesNothing(t, n - 1, <<y>>) BY <2>1, <2>2 DEF TakesNothing
  <2> QED BY <1>1, <2>1, <2>3, <2>4, AtTop, StackKept
<1>2. ASSUME NEW x \in Activity, OnTop(t, x), Moves(t, n - 1, <<>>), UNCHANGED <<lock, raises>>
      PROVE  StackInv'
  <2>1. <<>> \in Seq(Activity) /\ Len(<<>>) = 0 BY EmptySeq
  <2>2. Fits(t, n - 1, <<>>) /\ TakesNothing(t, n - 1, <<>>) BY <2>1 DEF Fits, TakesNothing
  <2> QED BY <1>2, <2>1, <2>2, AtTop, StackKept
<1>3. CASE Lock(t)
  <2>1. PICK x \in Raise : LockOf(t, x) BY <1>3, LockMoves
  <2> DEFINE y == [x EXCEPT !.locked = TRUE]
  <2>2. y \in Raise /\ y.id = x.id /\ y.event = x.event /\ y.locked /\ x.op = "raise" BY DEF Raise
  <2> HIDE DEF y
  <2>3. <<y>> \in Seq(Activity) /\ Len(<<y>>) = 1 /\ <<y>>[1] = y
    BY <2>2, SmallSeq DEF Activity
  <2>4. OnTop(t, x) /\ Moves(t, n - 1, <<y>>) /\ raises' = raises BY <2>1 DEF LockOf, y
  <2>5. Locks(t, (n - 1) + 1, y) BY <2>1, <2>2, AtTop DEF LockOf, Locks, Same
  <2>6. Fits(t, n - 1, <<y>>) BY <2>2, <2>3, <2>5 DEF Fits, Raise
  <2>7. Settled' /\ Numbered' /\ Apart' BY <2>3, <2>4, <2>6, AtTop, StackMoved
  <2>8. Held'
    <3> SUFFICES ASSUME NEW v \in Threads, NEW j \in DOMAIN stack'[v],
                        AtRaise(v, j)', stack'[v][j].locked
                 PROVE  lock'[stack'[v][j].event] = v
      BY DEF Held
    <3>1. CASE GoesOn(v, j, stack'[v][j])
      <4>1. lock[stack'[v][j].event] = v BY <3>1 DEF GoesOn, Same, AtRaise, StackInv, Held
      <4>2. v # Nothing BY ReactionAssumption
      <4>3. stack'[v][j].event # x.event BY <2>1, <4>1, <4>2 DEF LockOf
      <4> QED BY <2>1, <4>1, <4>3 DEF LockOf, EventTypes
    <3>2. CASE v = t /\ j = (n - 1) + 1
      <4>1. stack'[v][j] = y
        <5>1. stack \in [Threads -> Seq(Activity)] BY DEF EventTypes
        <5>2. n - 1 \in 0 .. n BY <2>4, AtTop
        <5>3. \A i \in 1 .. Len(<<y>>) : stack'[t][(n - 1) + i] = <<y>>[i]
          BY <2>3, <2>4, <5>1, <5>2, Moved
        <5> QED BY <2>3, <3>2, <5>3
      <4>2. x.event \in Events BY DEF Raise
      <4>3. lock'[x.event] = t BY <2>1, <4>2 DEF LockOf, EventTypes
      <4> QED BY <2>2, <3>2, <4>1, <4>3
    <3>3. n - 1 \in 0 .. n BY <2>4, AtTop
    <3>4. GoesOn(v, j, stack'[v][j]) \/ (v = t /\ j = (n - 1) + Len(<<y>>))
      <4> DEFINE q == <<y>>
                 k == n - 1
      <4>1. q \in Seq(Activity) /\ Moves(t, k, q) /\ Fits(t, k, q) /\ k \in 0 .. Len(stack[t])
        BY <2>3, <2>4, <2>6, <3>3
      <4> HIDE DEF q, k
      <4>2. GoesOn(v, j, stack'[v][j]) \/ (v = t /\ j = k + Len(q)) BY <4>1, RaisesAfter
      <4> QED BY <4>2 DEF q, k
    <3> QED BY <2>3, <3>1, <3>2, <3>4
  <2> QED BY <2>7, <2>8 DEF StackInv
<1>4. CASE QueueCall(t)
  <2>1. PICK x \in Raise, s \in Systems, i \in Nat, b \in Binding : QueueCallOf(t, x, s, i, b)
    BY <1>4, QueueCallMoves
  <2> DEFINE y == [x EXCEPT !.queued = i, !.told = @ \cup {b.tether}]
  <2>2. y \in Raise /\ y.id = x.id /\ y.event = x.event /\ y.locked = x.locked
    <3>1. x.told \cup {b.tether} \in SUBSET Threads BY <2>1 DEF Raise, QueueCallOf
    <3> QED BY <3>1 DEF Raise
  <2> HIDE DEF y
  <2>3. OnTop(t, x) /\ x.locked /\ Moves(t, n - 1, <<y>>) /\ UNCHANGED <<lock, raises>>
    BY <2>1 DEF QueueCallOf, y
  <2> QED BY <1>1, <2>2, <2>3
<1>5. CASE QueueFree(t)
  <2>1. PICK x \in Raise, s \in Systems, to \in Threads : QueueFreeOf(t, x, s, to)
    BY <1>5, QueueFreeMoves
  <2> DEFINE y == [x EXCEPT !.told = @ \ {to}]
  <2>2. y \in Raise /\ y.id = x.id /\ y.event = x.event /\ y.locked = x.locked BY DEF Raise
  <2> HIDE DEF y
  <2>3. OnTop(t, x) /\ x.locked /\ Moves(t, n - 1, <<y>>) /\ UNCHANGED <<lock, raises>>
    BY <2>1 DEF QueueFreeOf, y
  <2> QED BY <1>1, <2>2, <2>3
<1>6. CASE CallNow(t)
  <2>1. PICK x \in Raise, s \in Systems, i \in Nat, b \in Binding : CallNowOf(t, x, s, i, b)
    BY <1>6, CallNowMoves
  <2> DEFINE y == [x EXCEPT !.called = i]
             c == Entered(s, b.f, x.id, t)
  <2>2. /\ y \in Raise /\ y.id = x.id /\ y.event = x.event /\ y.locked = x.locked
        /\ y.op = "raise" /\ x.op = "raise"
    BY DEF Raise
  <2>3. c \in InCall /\ c.op = "call" BY DEF Entered, InCall, Binding, Raise
  <2> HIDE DEF y, c
  <2>4. <<y, c>> \in Seq(Activity) /\ Len(<<y, c>>) = 2 /\ <<y, c>>[1] = y /\ <<y, c>>[2] = c
    BY <2>2, <2>3, SmallSeq DEF Activity
  <2>5. OnTop(t, x) /\ x.locked /\ Moves(t, n - 1, <<y, c>>) /\ UNCHANGED <<lock, raises>>
    BY <2>1 DEF CallNowOf, y, c
  <2>6. GoesOn(t, (n - 1) + 1, y) BY <2>2, <2>5, AtTop DEF GoesOn, Same
  <2>7. \A m \in 1 .. 2 : m = 1 \/ m = 2 OBVIOUS
  <2>8. n \in Nat \ {0} /\ n - 1 \in 0 .. n /\ n - 1 < n BY <2>5, AtTop
  <2>9. ASSUME NEW m \in 1 .. 2
        PROVE  /\ <<y, c>>[m].op = "raise" => GoesOn(t, (n - 1) + m, <<y, c>>[m])
               /\ <<y, c>>[m].op # "process"
               /\ m < 2 => <<y, c>>[m].op = "raise" /\ <<y, c>>[m].locked
    <3>1. CASE m = 1 BY <2>2, <2>4, <2>5, <2>6, <3>1
    <3>2. CASE m = 2 BY <2>3, <2>4, <3>2
    <3> QED BY <3>1, <3>2
  <2>10. Fits(t, n - 1, <<y, c>>) BY <2>4, <2>9 DEF Fits
  <2>11. TakesNothing(t, n - 1, <<y, c>>) BY <2>4, <2>9 DEF TakesNothing
  <2> QED BY <2>4, <2>5, <2>8, <2>10, <2>11, StackKept
<1>7. CASE NextSystem(t)
  <2>1. PICK x \in Raise : NextSystemOf(t, x) BY <1>7, NextSystemMoves
  <2> DEFINE y == [x EXCEPT !.n = @ + 1, !.queued = 0, !.called = 0]
  <2>2. y \in Raise /\ y.id = x.id /\ y.event = x.event /\ y.locked = x.locked
    <3>1. x.n + 1 \in Ids BY DEF Raise, Ids
    <3> QED BY <3>1 DEF Raise
  <2> HIDE DEF y
  <2>3. OnTop(t, x) /\ x.locked /\ Moves(t, n - 1, <<y>>) /\ UNCHANGED <<lock, raises>>
    BY <2>1 DEF NextSystemOf, y
  <2> QED BY <1>1, <2>2, <2>3
<1>8. CASE EndRaise(t)
  <2>1. PICK x \in Raise : EndRaiseOf(t, x) BY <1>8, EndRaiseMoves
  <2>2. <<>> \in Seq(Activity) /\ Len(<<>>) = 0 BY EmptySeq
  <2>3. Fits(t, n - 1, <<>>) BY <2>2 DEF Fits
  <2>4. OnTop(t, x) /\ Moves(t, n - 1, <<>>) /\ raises' = raises BY <2>1 DEF EndRaiseOf
  <2>5. Settled' /\ Numbered' /\ Apart' BY <2>2, <2>3, <2>4, AtTop, StackMoved
  <2>6. Held'
    <3> SUFFICES ASSUME NEW v \in Threads, NEW j \in DOMAIN stack'[v],
                        AtRaise(v, j)', stack'[v][j].locked
                 PROVE  lock'[stack'[v][j].event] = v
      BY DEF Held
    <3>1. /\ j \in DOMAIN stack[v] /\ stack'[v][j] = stack[v][j] /\ (v = t => j <= n - 1)
      <4>1. n - 1 \in 0 .. n BY <2>4, AtTop
      <4>2. ~\E m : m \in 1 .. Len(<<>>) BY <2>2
      <4> DEFINE q == <<>>
                 k == n - 1
      <4>3. q \in Seq(Activity) /\ Moves(t, k, q) /\ k \in 0 .. Len(stack[t])
        BY <2>2, <2>4, <4>1
      <4> HIDE DEF q, k
      <4>4. \/ j \in DOMAIN stack[v] /\ stack'[v][j] = stack[v][j] /\ (v = t => j <= k)
            \/ j - k \in 1 .. Len(q)
        BY <4>3, WasOrBegins
      <4> QED BY <4>2, <4>4 DEF q, k
    <3>2. AtRaise(v, j) BY <3>1 DEF AtRaise
    <3>3. lock[stack[v][j].event] = v BY <3>1, <3>2 DEF StackInv, Held
    <3>4. stack[v][j].event # x.event
      <4>1. AtRaise(t, n) /\ stack[t][n] = x /\ n \in DOMAIN stack[t] /\ n \in Nat
        BY <2>4, AtTop DEF Raise
      <4>2. v = t => j # n BY <3>1, <4>1
      <4>3. x.locked BY <2>1 DEF EndRaiseOf
      <4> QED BY <3>1, <3>2, <4>1, <4>2, <4>3 DEF StackInv, Apart
    <3> QED BY <2>1, <3>1, <3>3, <3>4 DEF EndRaiseOf, EventTypes
  <2> QED BY <2>5, <2>6 DEF StackInv
<1>9. CASE Enter(t)
  <2>1. PICK c \in InCall : EnterOf(t, c) BY <1>9, EnterMoves
  <2> DEFINE left == [c EXCEPT !.at = "leave"]
  <2>2. left \in InCall /\ left.op = "call" /\ left.at = "leave" BY DEF InCall
  <2> HIDE DEF left
  <2>3. OnTop(t, c) /\ UNCHANGED lock BY <2>1 DEF EnterOf
  <2>4. CASE Moves(t, n - 1, <<left>>) /\ UNCHANGED raises
    <3>1. <<left>> \in Seq(Activity) /\ Len(<<left>>) = 1 /\ <<left>>[1] = left
      BY <2>2, SmallSeq DEF Activity
    <3>2. Fits(t, n - 1, <<left>>) /\ TakesNothing(t, n - 1, <<left>>)
      BY <2>2, <3>1 DEF Fits, TakesNothing
    <3> QED BY <2>2, <2>3, <2>4, <3>1, <3>2, AtTop, StackKept
  <2>5. ASSUME NEW e \in Events, Moves(t, n - 1, <<left, NewRaise(e)>>), raises' = raises + 1
        PROVE  StackInv'
    <3> DEFINE y == NewRaise(e)
    <3>1. y \in Raise /\ y.op = "raise" /\ Starts(y)
      BY <2>5, NewRaiseType DEF NewRaise, Starts
    <3> HIDE DEF y
    <3>2. /\ <<left, y>> \in Seq(Activity) /\ Len(<<left, y>>) = 2
          /\ <<left, y>>[1] = left /\ <<left, y>>[2] = y
      BY <2>2, <3>1, SmallSeq DEF Activity
    <3>3. \A m \in 1 .. 2 : m = 1 \/ m = 2 OBVIOUS
    <3>4. Fits(t, n - 1, <<left, y>>) BY <2>2, <3>1, <3>2, <3>3 DEF Fits
    <3>5. TakesNothing(t, n - 1, <<left, y>>) BY <2>2, <3>1, <3>2, <3>3 DEF TakesNothing
    <3>6. Moves(t, n - 1, <<left, y>>) BY <2>5 DEF y
    <3> QED BY <2>3, <2>5, <3>2, <3>4, <3>5, <3>6, AtTop, StackKept
  <2> QED BY <2>1, <2>4, <2>5 DEF EnterOf, left
<1>10. CASE Leave(t)
  <2>1. PICK c \in InCall : LeaveOf(t, c) BY <1>10, LeaveMoves
  <2> QED BY <1>2, <2>1 DEF LeaveOf, Activity
<1>11. CASE RunJob(t)
  <2>1. PICK p \in InProcess, s \in Systems, j \in Job : RunJobOf(t, p, s, j)
    BY <1>11, RunJobMoves
  <2>2. CASE UNCHANGED stack
    <3>1. UNCHANGED <<lock, raises, stack>> BY <2>1, <2>2 DEF RunJobOf
    <3> QED BY <3>1 DEF StackInv, Settled, Held, Numbered, Apart, AtRaise
  <2>3. ASSUME NEW c \in InCall, Moves(t, n, <<c>>) PROVE StackInv'
    <3>1. <<c>> \in Seq(Activity) /\ Len(<<c>>) = 1 /\ <<c>>[1] = c /\ c.op = "call"
      BY SmallSeq DEF Activity, InCall
    <3>2. Fits(t, n, <<c>>) /\ TakesNothing(t, n, <<c>>) BY <3>1 DEF Fits, TakesNothing
    <3>3. stack[t][n].op = "process" BY <2>1 DEF RunJobOf, OnTop, InProcess
    <3>4. UNCHANGED <<lock, raises>> BY <2>1 DEF RunJobOf
    <3> QED BY <2>3, <3>1, <3>2, <3>3, <3>4, Depths, StackKept
  <2> QED BY <2>1, <2>2, <2>3 DEF RunJobOf
<1>12. CASE EndProcess(t)
  <2>1. PICK p \in InProcess : EndProcessOf(t, p) BY <1>12, EndProcessMoves
  <2>2. <<>> \in Seq(Activity) /\ Len(<<>>) = 0 BY EmptySeq
  <2>3. Fits(t, 0, <<>>) /\ TakesNothing(t, 0, <<>>) BY <2>2 DEF Fits, TakesNothing
  <2>4. Moves(t, 0, <<>>) /\ lock' = lock /\ raises' = raises BY <2>1 DEF EndProcessOf
  <2> QED BY <2>2, <2>3, <2>4, Depths, StackKept
<1>13. CASE \E s \in Systems : BeginProcess(t, s)
  <2>1. PICK s \in Systems : stack' = [stack EXCEPT ![t] = <<[op |-> "process", system |-> s]>>]
    BY <1>13 DEF BeginProcess
  <2> DEFINE y == [op |-> "process", system |-> s]
  <2>2. y \in Activity /\ y.op = "process" BY DEF Activity, InProcess
  <2>3. stack[t] = <<>> /\ UNCHANGED <<lock, raises>> BY <1>13 DEF BeginProcess, Idle
  <2>4. Moves(t, 0, <<y>>) BY <2>1, <2>2, <2>3, BeginMoves
  <2> HIDE DEF y
  <2>5. <<y>> \in Seq(Activity) /\ Len(<<y>>) = 1 /\ <<y>>[1] = y BY <2>2, SmallSeq
  <2>6. Fits(t, 0, <<y>>) /\ TakesNothing(t, 0, <<y>>) BY <2>2, <2>5 DEF Fits, TakesNothing
  <2> QED BY <2>2, <2>3, <2>4, <2>5, <2>6, Depths, StackKept
<1>14. ASSUME NEW e \in Events, BeginRaise(t, e) PROVE StackInv'
  <2> DEFINE y == NewRaise(e)
  <2>1. stack[t] = <<>> /\ stack' = [stack EXCEPT ![t] = <<y>>] /\ raises' = raises + 1
        /\ UNCHANGED lock
    BY <1>14 DEF BeginRaise, Idle
  <2>2. y \in Raise /\ y \in Activity /\ y.op = "raise" /\ Starts(y)
    BY <2>1, NewRaiseType DEF NewRaise, Starts, Activity
  <2> HIDE DEF y
  <2>3. Moves(t, 0, <<y>>) BY <2>1, <2>2, BeginMoves
  <2>4. <<y>> \in Seq(Activity) /\ Len(<<y>>) = 1 /\ <<y>>[1] = y BY <2>2, SmallSeq
  <2>5. Fits(t, 0, <<y>>) /\ TakesNothing(t, 0, <<y>>) BY <2>2, <2>4 DEF Fits, TakesNothing
  <2> QED BY <2>1, <2>2, <2>3, <2>4, <2>5, Depths, StackKept
<1> QED BY <1>3, <1>4, <1>5, <1>6, <1>7, <1>8, <1>9, <1>10, <1>11, <1>12, <1>13, <1>14 DEF Running

(* A raise holds the mutex of its event from its first system on, no two   *)
(* raises hold one mutex or have one number, and only the innermost        *)
(* activity of a thread waits (event.hpp: event_backend_t::raise).         *)
THEOREM StackSound == Spec => []StackInv
<1>1. Init => StackInv
  BY DEF Init, StackInv, Settled, Held, Numbered, Apart, AtRaise
<1>2. EventTypes /\ StackInv /\ [Next]_vars => StackInv'
  <2> SUFFICES ASSUME EventTypes, StackInv, [Next]_vars PROVE StackInv' OBVIOUS
  <2>1. CASE UNCHANGED <<lock, stack, raises>>
    BY <2>1 DEF StackInv, Settled, Held, Numbered, Apart, AtRaise
  <2>2. CASE Next
    <3>1. PICK t \in Threads :
            \/ \E f \in Handlers, e \in Events, s \in Systems, tether \in Tethers :
                 Bind(t, f, e, s, tether)
            \/ \E f \in Handlers : Unbind(t, f)
            \/ \E e \in Events : BeginRaise(t, e)
            \/ \E s \in Systems : BeginProcess(t, s)
            \/ Running(t)
      BY <2>2 DEF Next
    <3>2. ASSUME NEW f \in Handlers,
                 Unbind(t, f) \/ \E e \in Events, s \in Systems, tether \in Tethers :
                                   Bind(t, f, e, s, tether)
          PROVE  StackInv'
      BY <2>1, <3>2 DEF Bind, Unbind
    <3> QED BY <3>1, <3>2, StackStep
  <2> QED BY <2>1, <2>2 DEF vars
<1> QED BY <1>1, <1>2, EventTyping, PTL DEF Spec

-----------------------------------------------------------------------------
(* The copies of arguments                                                 *)

(* What a job is appended to stays, with the job behind it.                *)
LEMMA Appended ==
  ASSUME NEW S, NEW q \in Seq(S), NEW e \in S
  PROVE  /\ Append(q, e) \in Seq(S) /\ Len(Append(q, e)) = Len(q) + 1
         /\ DOMAIN q = 1 .. Len(q) /\ Len(q) \in Nat
         /\ DOMAIN Append(q, e) = 1 .. Len(q) + 1
         /\ \A i \in 1 .. Len(q) : Append(q, e)[i] = q[i]
         /\ Append(q, e)[Len(q) + 1] = e
<1>1. Len(q) \in Nat /\ DOMAIN q = 1 .. Len(q) BY LenProperties
<1> QED BY <1>1

(* A call is queued with a copy that is new or has not been given up.      *)
LEMMA KeptCall ==
  ASSUME NEW q \in Seq(Job), NEW u \in Threads, NEW A, NEW U, Kept(q, u, A, U),
         NEW j \in Job, j.job = "call", j.args[2] = u,
         j.args \in A => j.args \in U
  PROVE  Kept(Append(q, j), u, A \cup {j.args}, U \cup {j.args})
<1> DEFINE n == Len(q)
           r == Append(q, j)
           c == j.args
<1>1. /\ n \in Nat /\ DOMAIN q = 1 .. n /\ DOMAIN r = 1 .. n + 1
      /\ \A i \in 1 .. n : r[i] = q[i]
      /\ r[n + 1] = j
  BY Appended
<1>2. \A i \in 1 .. n : q[i].args \in A /\ q[i].args[2] = u BY <1>1 DEF Kept
<1> HIDE DEF r, n
<1>3. \A i \in DOMAIN r : i = n + 1 \/ i \in 1 .. n BY <1>1
<1>4. \A i \in DOMAIN r : r[i].args \in A \cup {c} /\ r[i].args[2] = u
  BY <1>1, <1>2, <1>3
<1>5. ASSUME NEW a \in A \cup {c}, a[2] = u
      PROVE  IF a \in U \cup {c}
             THEN \A i \in DOMAIN r : r[i].args = a => r[i].job = "call"
             ELSE \E k \in DOMAIN r :
                    /\ r[k].job = "free" /\ r[k].args = a
                    /\ \A i \in DOMAIN r : r[i].args = a => i = k \/ (i < k /\ r[i].job = "call")
  <2>1. CASE a \in U /\ a \in A
    <3>1. \A i \in 1 .. n : q[i].args = a => q[i].job = "call" BY <1>1, <1>5, <2>1 DEF Kept
    <3> QED BY <1>1, <1>3, <2>1, <3>1
  <2>2. CASE a = c /\ a \notin A BY <1>1, <1>2, <1>3, <2>2
  <2>3. CASE a \notin U /\ a \in A
    <3>1. a # c BY <2>3
    <3>2. PICK k \in 1 .. n :
             /\ q[k].job = "free" /\ q[k].args = a
             /\ \A i \in 1 .. n : q[i].args = a => i = k \/ (i < k /\ q[i].job = "call")
      BY <1>1, <1>5, <2>3 DEF Kept
    <3>3. k \in DOMAIN r /\ r[k] = q[k] BY <1>1
    <3>4. \A i \in DOMAIN r : r[i].args = a => i = k \/ (i < k /\ r[i].job = "call")
      BY <1>1, <1>3, <3>1, <3>2
    <3> QED BY <2>3, <3>1, <3>2, <3>3, <3>4
  <2> QED BY <2>1, <2>2, <2>3
<1>6. \A a \in U \cup {c} : a[2] = u => a \in A \cup {c} BY DEF Kept
<1> QED BY <1>4, <1>5, <1>6 DEF Kept, r

(* The job that frees a copy is queued once, behind the calls.             *)
LEMMA KeptFree ==
  ASSUME NEW q \in Seq(Job), NEW u \in Threads, NEW A, NEW U, Kept(q, u, A, U),
         NEW j \in Job, j.job = "free", j.args[2] = u, j.args \in A, j.args \in U
  PROVE  Kept(Append(q, j), u, A, U \ {j.args})
<1> DEFINE n == Len(q)
           r == Append(q, j)
           c == j.args
<1>1. /\ n \in Nat /\ DOMAIN q = 1 .. n /\ DOMAIN r = 1 .. n + 1
      /\ \A i \in 1 .. n : r[i] = q[i]
      /\ r[n + 1] = j
  BY Appended
<1>2. \A i \in 1 .. n : q[i].args \in A /\ q[i].args[2] = u BY <1>1 DEF Kept
<1> HIDE DEF r, n
<1>3. \A i \in DOMAIN r : i = n + 1 \/ (i \in 1 .. n /\ i < n + 1) BY <1>1
<1>4. \A i \in DOMAIN r : r[i].args \in A /\ r[i].args[2] = u BY <1>1, <1>2, <1>3
<1>5. ASSUME NEW a \in A, a[2] = u
      PROVE  IF a \in U \ {c}
             THEN \A i \in DOMAIN r : r[i].args = a => r[i].job = "call"
             ELSE \E k \in DOMAIN r :
                    /\ r[k].job = "free" /\ r[k].args = a
                    /\ \A i \in DOMAIN r : r[i].args = a => i = k \/ (i < k /\ r[i].job = "call")
  <2>1. CASE a \in U /\ a # c
    <3>1. \A i \in 1 .. n : q[i].args = a => q[i].job = "call" BY <1>1, <1>5, <2>1 DEF Kept
    <3> QED BY <1>1, <1>3, <2>1, <3>1
  <2>2. CASE a = c
    <3>1. \A i \in 1 .. n : q[i].args = a => q[i].job = "call" BY <1>1, <1>5, <2>2 DEF Kept
    <3>2. n + 1 \in DOMAIN r BY <1>1
    <3>3. \A i \in DOMAIN r : r[i].args = a => i = n + 1 \/ (i < n + 1 /\ r[i].job = "call")
      BY <1>1, <1>3, <3>1
    <3> QED BY <1>1, <2>2, <3>2, <3>3
  <2>3. CASE a \notin U
    <3>1. a # c BY <2>3
    <3>2. PICK k \in 1 .. n :
             /\ q[k].job = "free" /\ q[k].args = a
             /\ \A i \in 1 .. n : q[i].args = a => i = k \/ (i < k /\ q[i].job = "call")
      BY <1>1, <1>5, <2>3 DEF Kept
    <3>3. k \in DOMAIN r /\ r[k] = q[k] BY <1>1
    <3>4. \A i \in DOMAIN r : r[i].args = a => i = k \/ (i < k /\ r[i].job = "call")
      BY <1>1, <1>3, <3>1, <3>2
    <3> QED BY <2>3, <3>1, <3>2, <3>3, <3>4
  <2> QED BY <2>1, <2>2, <2>3
<1>6. \A a \in U \ {c} : a[2] = u => a \in A BY DEF Kept
<1> QED BY <1>4, <1>5, <1>6 DEF Kept, r

(* The first job is run: the copy that it frees is used by none behind it. *)
LEMMA KeptRun ==
  ASSUME NEW q \in Seq(Job), q # <<>>, NEW u \in Threads, NEW A, NEW U, Kept(q, u, A, U)
  PROVE  /\ Head(q).job = "call" => Kept(Tail(q), u, A, U)
         /\ Head(q).job = "free" => Kept(Tail(q), u, A \ {Head(q).args}, U)
<1> DEFINE n == Len(q)
           r == Tail(q)
           j == Head(q)
<1>1. /\ n \in Nat \ {0} /\ DOMAIN q = 1 .. n /\ DOMAIN r = 1 .. n - 1
      /\ \A i \in 1 .. n - 1 : r[i] = q[i + 1]
      /\ j = q[1] /\ j \in Job
  BY HeadTailProperties, LenProperties, EmptySeq
<1>2. \A i \in 1 .. n : q[i].args \in A /\ q[i].args[2] = u BY <1>1 DEF Kept
<1> HIDE DEF r, n, j
<1>3. \A i \in DOMAIN r : i \in Nat /\ i + 1 \in 1 .. n /\ i + 1 # 1 /\ r[i] = q[i + 1] BY <1>1
<1>4. \A i \in DOMAIN r : r[i].args \in A /\ r[i].args[2] = u BY <1>2, <1>3
<1>5. 1 \in 1 .. n BY <1>1
<1>6. ASSUME NEW a \in A, a[2] = u, j.job = "call" \/ a # j.args
      PROVE  IF a \in U
             THEN \A i \in DOMAIN r : r[i].args = a => r[i].job = "call"
             ELSE \E k \in DOMAIN r :
                    /\ r[k].job = "free" /\ r[k].args = a
                    /\ \A i \in DOMAIN r : r[i].args = a => i = k \/ (i < k /\ r[i].job = "call")
  <2>1. CASE a \in U
    <3>1. \A i \in 1 .. n : q[i].args = a => q[i].job = "call" BY <1>1, <1>6, <2>1 DEF Kept
    <3> QED BY <1>3, <2>1, <3>1
  <2>2. CASE a \notin U
    <3>1. PICK k \in 1 .. n :
             /\ q[k].job = "free" /\ q[k].args = a
             /\ \A i \in 1 .. n : q[i].args = a => i = k \/ (i < k /\ q[i].job = "call")
      <4>1. a \in A /\ a[2] = u /\ DOMAIN q = 1 .. n BY <1>1, <1>6
      <4> QED BY <2>2, <4>1 DEF Kept
    <3>2. k # 1 BY <1>1, <1>6, <3>1
    <3>3. k - 1 \in DOMAIN r /\ (k - 1) + 1 = k BY <1>1, <3>2
    <3>4. r[k - 1] = q[k] BY <1>3, <3>3
    <3>5. ASSUME NEW i \in DOMAIN r, r[i].args = a
          PROVE  i = k - 1 \/ (i < k - 1 /\ r[i].job = "call")
      <4>1. i + 1 = k \/ (i + 1 < k /\ q[i + 1].job = "call") BY <1>3, <3>1, <3>5
      <4>2. i \in Nat /\ r[i] = q[i + 1] BY <1>3
      <4>3. i + 1 = k => i = k - 1 BY <4>2
      <4>4. i + 1 < k => i < k - 1 BY <4>2
      <4> QED BY <4>1, <4>2, <4>3, <4>4
    <3> QED BY <2>2, <3>1, <3>3, <3>4, <3>5
  <2> QED BY <2>1, <2>2
<1>7. ASSUME j.job = "call" PROVE Kept(r, u, A, U)
  <2>1. \A a \in U : a[2] = u => a \in A BY DEF Kept
  <2> QED BY <1>4, <1>6, <1>7, <2>1 DEF Kept
<1>8. ASSUME j.job = "free" PROVE Kept(r, u, A \ {j.args}, U)
  <2>1. \A i \in DOMAIN r : r[i].args # j.args
    <3> SUFFICES ASSUME NEW i \in DOMAIN r, r[i].args = j.args PROVE FALSE OBVIOUS
    <3> DEFINE a == j.args
    <3>1. a \in A /\ a[2] = u /\ q[1].args = a /\ q[1].job = "free" /\ q[i + 1].args = a
      BY <1>1, <1>2, <1>3, <1>5, <1>8
    <3>2. a \notin U BY <1>1, <1>5, <3>1 DEF Kept
    <3>3. PICK k \in 1 .. n : \A h \in 1 .. n :
             q[h].args = a => h = k \/ (h < k /\ q[h].job = "call")
      <4>1. DOMAIN q = 1 .. n BY <1>1
      <4> HIDE DEF a
      <4>2. PICK k \in 1 .. n :
               /\ q[k].job = "free" /\ q[k].args = a
               /\ \A h \in 1 .. n : q[h].args = a => h = k \/ (h < k /\ q[h].job = "call")
        BY <3>1, <3>2, <4>1 DEF Kept
      <4> QED BY <4>2 DEF a
    <3>4. k = 1 BY <1>5, <3>1, <3>3
    <3>5. i + 1 = 1 \/ i + 1 < 1 BY <1>3, <3>1, <3>3, <3>4
    <3> QED BY <1>3, <3>5
  <2>2. \A i \in DOMAIN r : r[i].args \in A \ {j.args} /\ r[i].args[2] = u BY <1>4, <2>1
  <2>3. \A a \in A \ {j.args} : a[2] = u =>
          IF a \in U
          THEN \A i \in DOMAIN r : r[i].args = a => r[i].job = "call"
          ELSE \E k \in DOMAIN r :
                 /\ r[k].job = "free" /\ r[k].args = a
                 /\ \A i \in DOMAIN r : r[i].args = a => i = k \/ (i < k /\ r[i].job = "call")
    BY <1>6
  <2>4. j.args \notin U
    <3>1. j.args \in A /\ j.args[2] = u /\ q[1].args = j.args /\ q[1].job = "free"
      BY <1>1, <1>2, <1>5, <1>8
    <3> QED BY <1>1, <1>5, <3>1 DEF Kept
  <2>5. \A a \in U : a[2] = u => a \in A \ {j.args} BY <2>4 DEF Kept
  <2> QED BY <2>2, <2>3, <2>5 DEF Kept
<1> QED BY <1>7, <1>8 DEF r, j

(* The copies for other threads do not matter.                             *)
LEMMA KeptElsewhere ==
  ASSUME NEW q, NEW u, NEW A, NEW U, NEW B, NEW V, Kept(q, u, A, U),
         \A a : a[2] = u => (a \in A <=> a \in B) /\ (a \in U <=> a \in V)
  PROVE  Kept(q, u, B, V)
<1>1. \A i \in DOMAIN q : q[i].args \in B /\ q[i].args[2] = u BY DEF Kept
<1>2. ASSUME NEW a \in B, a[2] = u
      PROVE  IF a \in V
             THEN \A i \in DOMAIN q : q[i].args = a => q[i].job = "call"
             ELSE \E k \in DOMAIN q :
                    /\ q[k].job = "free" /\ q[k].args = a
                    /\ \A i \in DOMAIN q : q[i].args = a => i = k \/ (i < k /\ q[i].job = "call")
  <2>1. a \in A /\ (a \in U <=> a \in V) BY <1>2
  <2> QED BY <1>2, <2>1 DEF Kept
<1>3. \A a \in V : a[2] = u => a \in B BY DEF Kept
<1> QED BY <1>1, <1>2, <1>3 DEF Kept

\* The raise x still has threads to tell, at the system s, to free the copy a.
Tells(x, s, a) ==
  x.op = "raise" /\ IsAt(x, s) /\ x.id = a[1] /\ a[2] \in x.told

(* Untold by the activities.                                               *)
LEMMA UntoldTells ==
  ASSUME NEW s \in Systems, UNCHANGED systems
  PROVE  /\ \A a : a \in Untold(s) <=>
              /\ a \in Ids \X Threads
              /\ \E v \in Threads : \E j \in DOMAIN stack[v] : Tells(stack[v][j], s, a)
         /\ \A a : a \in Untold(s)' <=>
              /\ a \in Ids \X Threads
              /\ \E v \in Threads : \E j \in DOMAIN stack'[v] : Tells(stack'[v][j], s, a)
BY DEF Untold, Tells, AtRaise, IsAt

(* A move from and to activities that have nothing to tell.                *)
LEMMA UntoldSame ==
  ASSUME EventTypes, NEW t \in Threads, NEW k \in 0 .. Len(stack[t]),
         NEW q \in Seq(Activity), Moves(t, k, q), UNCHANGED systems,
         \A i \in DOMAIN stack[t] : i > k /\ AtRaise(t, i) => stack[t][i].told = {},
         \A m \in 1 .. Len(q) : q[m].op = "raise" => q[m].told = {}
  PROVE  \A s \in Systems : Untold(s)' = Untold(s)
<1> SUFFICES ASSUME NEW s \in Systems, NEW a \in Ids \X Threads
             PROVE  a \in Untold(s)' <=> a \in Untold(s)
  BY DEF Untold
<1>1. ASSUME NEW v \in Threads, NEW j \in DOMAIN stack'[v], Tells(stack'[v][j], s, a)
      PROVE  j \in DOMAIN stack[v] /\ Tells(stack[v][j], s, a)
  <2>1. CASE j \in DOMAIN stack[v] /\ stack'[v][j] = stack[v][j]
    BY <1>1, <2>1 DEF Tells, IsAt
  <2>2. CASE j - k \in 1 .. Len(q) /\ stack'[v][j] = q[j - k]
    BY <1>1, <2>2 DEF Tells
  <2> QED BY <2>1, <2>2, WasOrBegins
<1>2. ASSUME NEW v \in Threads, NEW j \in DOMAIN stack[v], Tells(stack[v][j], s, a)
      PROVE  j \in DOMAIN stack'[v] /\ Tells(stack'[v][j], s, a)
  <2>1. v # t \/ j \in 1 .. k
    <3>1. DOMAIN stack[t] = 1 .. Len(stack[t]) /\ Len(stack[t]) \in Nat /\ k \in Nat
      BY LenProperties DEF EventTypes
    <3> QED BY <1>2, <3>1 DEF Tells, AtRaise
  <2>2. j \in DOMAIN stack'[v] /\ stack'[v][j] = stack[v][j]
    <3>1. stack \in [Threads -> Seq(Activity)] BY DEF EventTypes
    <3>2. /\ stack' \in [Threads -> Seq(Activity)]
          /\ \A u \in Threads : u # t => stack'[u] = stack[u]
          /\ Len(stack'[t]) = k + Len(q)
          /\ DOMAIN stack[t] = 1 .. Len(stack[t])
          /\ DOMAIN stack'[t] = 1 .. k + Len(q)
          /\ \A i \in 1 .. k : stack'[t][i] = stack[t][i]
          /\ \A i \in 1 .. Len(q) : stack'[t][k + i] = q[i]
      BY ONLY <3>1, Moved, t \in Threads, k \in 0 .. Len(stack[t]), q \in Seq(Activity),
              Moves(t, k, q)
    <3>3. k \in Nat /\ Len(q) \in Nat BY <3>1, LenProperties
    <3>4. 1 .. k \subseteq 1 .. k + Len(q) BY <3>3
    <3> QED BY <2>1, <3>2, <3>4
  <2> QED BY <1>2, <2>2 DEF Tells, IsAt
<1> QED BY <1>1, <1>2, UntoldTells

(* The innermost raise tells some thread, or has one more to tell.         *)
LEMMA UntoldTop ==
  ASSUME EventTypes, StackInv, NEW t \in Threads, NEW x \in Raise, NEW y \in Raise,
         NEW s \in Systems, OnTop(t, x), IsAt(x, s), UNCHANGED systems,
         y.id = x.id, y.event = x.event, y.n = x.n,
         Moves(t, Len(stack[t]) - 1, <<y>>)
  PROVE  /\ \A r \in Systems : r # s => Untold(r)' = Untold(r)
         /\ \A a : a \in Untold(s) /\ a[1] = x.id <=>
                     a \in Ids \X Threads /\ a[1] = x.id /\ a[2] \in x.told
         /\ \A a : a \in Untold(s)' <=>
                     /\ a \in Ids \X Threads
                     /\ IF a[1] = x.id THEN a[2] \in y.told ELSE a \in Untold(s)
<1> DEFINE n == Len(stack[t])
<1>1. /\ n \in Nat \ {0} /\ n \in DOMAIN stack[t] /\ stack[t][n] = x /\ AtRaise(t, n)
      /\ n - 1 \in 0 .. n /\ (n - 1) + 1 = n /\ DOMAIN stack[t] = 1 .. n
  BY AtTop, LenProperties DEF Raise, EventTypes
<1>2. /\ \A u \in Threads : u # t => stack'[u] = stack[u]
      /\ DOMAIN stack'[t] = 1 .. n
      /\ \A i \in 1 .. n - 1 : stack'[t][i] = stack[t][i]
      /\ stack'[t][n] = y
  <2> DEFINE q == <<y>>
             k == n - 1
  <2>1. stack \in [Threads -> Seq(Activity)] BY DEF EventTypes
  <2>2. q \in Seq(Activity) /\ Len(q) = 1 /\ q[1] = y BY SmallSeq DEF Activity
  <2>3. k \in 0 .. n /\ Moves(t, k, q) /\ k + 1 = n BY <1>1
  <2> HIDE DEF q, k
  <2>4. /\ \A u \in Threads : u # t => stack'[u] = stack[u]
        /\ DOMAIN stack'[t] = 1 .. k + Len(q)
        /\ \A i \in 1 .. k : stack'[t][i] = stack[t][i]
        /\ \A i \in 1 .. Len(q) : stack'[t][k + i] = q[i]
    BY <2>1, <2>2, <2>3, Moved
  <2> QED BY <2>2, <2>3, <2>4 DEF k
<1>3. \A v \in Threads : \A j : j \in DOMAIN stack'[v] <=> j \in DOMAIN stack[v] BY <1>1, <1>2
<1>4. \A v \in Threads : \A j \in DOMAIN stack[v] :
         (v = t /\ j = n) \/ stack'[v][j] = stack[v][j]
  BY <1>1, <1>2
<1>5. \A v \in Threads : \A j \in DOMAIN stack[v] : \A r, a :
         (v = t /\ j = n) \/ (Tells(stack'[v][j], r, a) <=> Tells(stack[v][j], r, a))
  BY <1>4 DEF Tells, IsAt
<1>6. \A v \in Threads : \A j \in DOMAIN stack[v] : \A r, a :
         Tells(stack[v][j], r, a) /\ a[1] = x.id => v = t /\ j = n
  BY <1>1 DEF Tells, StackInv, Apart, AtRaise
<1>7. \A r, a : Tells(x, r, a) => r = s /\ a[1] = x.id /\ a[2] \in x.told BY DEF Tells, IsAt
<1>8. \A r, a : Tells(y, r, a) => r = s /\ a[1] = x.id /\ a[2] \in y.told BY DEF Tells, IsAt
<1>9. \A a : a[1] = x.id => /\ Tells(x, s, a) <=> a[2] \in x.told
                            /\ Tells(y, s, a) <=> a[2] \in y.told
  BY DEF Tells, IsAt, Raise
<1>10. ASSUME NEW r \in Systems, NEW a, ~(r = s /\ a[1] = x.id)
       PROVE  a \in Untold(r)' <=> a \in Untold(r)
  <2>1. \A v \in Threads : \A j \in DOMAIN stack[v] :
           Tells(stack'[v][j], r, a) <=> Tells(stack[v][j], r, a)
    BY <1>1, <1>2, <1>5, <1>7, <1>8, <1>10
  <2> QED BY <1>1, <1>3, <2>1, UntoldTells
<1>11. ASSUME NEW a, a[1] = x.id
       PROVE  /\ a \in Untold(s) <=> a \in Ids \X Threads /\ a[2] \in x.told
              /\ a \in Untold(s)' <=> a \in Ids \X Threads /\ a[2] \in y.told
  <2>1. a \in Untold(s) <=> a \in Ids \X Threads /\ Tells(x, s, a)
    BY <1>1, <1>6, <1>11, UntoldTells
  <2>2. a \in Untold(s)' <=> a \in Ids \X Threads /\ Tells(y, s, a)
    <3>1. ASSUME NEW v \in Threads, NEW j \in DOMAIN stack'[v], Tells(stack'[v][j], s, a)
          PROVE  Tells(y, s, a)
      <4>1. (v = t /\ j = n) \/ Tells(stack[v][j], s, a) BY <1>3, <1>5, <3>1
      <4>2. v = t /\ j = n BY <1>3, <1>6, <1>11, <4>1
      <4> QED BY <1>2, <3>1, <4>2
    <3>2. Tells(y, s, a) => \E v \in Threads : \E j \in DOMAIN stack'[v] : Tells(stack'[v][j], s, a)
      BY <1>1, <1>2
    <3> QED BY <3>1, <3>2, UntoldTells
  <2> QED BY <1>9, <1>11, <2>1, <2>2
<1>12. \A a : a \in Untold(s) => a \in Ids \X Threads BY DEF Untold
<1> QED BY <1>10, <1>11, <1>12

(* A raise is not concerned with the copies of others.                     *)
LEMMA CopyOkKept ==
  ASSUME EventTypes, NEW v \in Threads, NEW y \in Raise, CopyOk(v, y), ~raced,
         UNCHANGED <<systems, bindings>>,
         \A s \in Systems : \A a \in args'[s] : a[1] = y.id => a \in args[s]
  PROVE  CopyOk(v, y)'
<1>1. \A m \in DOMAIN systems[y.event] : systems[y.event][m] \in Systems
  BY DEF EventTypes, Raise
<1>2. \A s \in Systems : Fresh(y, s) => Fresh(y, s)' BY DEF Fresh
<1>3. ~y.locked => y.told = {} /\ \A s \in Systems : Fresh(y, s)' BY <1>2 DEF CopyOk
<1>4. y.told # {} => y.n <= Len(systems'[y.event]) BY DEF CopyOk
<1>5. ASSUME y.locked, NEW m \in DOMAIN systems[y.event], m > y.n
      PROVE  Fresh(y, systems[y.event][m])'
  <2>1. PICK s \in Systems : s = systems[y.event][m] BY <1>1
  <2>2. Fresh(y, s) BY <1>5, <2>1 DEF CopyOk
  <2>3. \A a \in args'[s] : a[1] # y.id BY <2>2 DEF Fresh
  <2> QED BY <2>1, <2>3 DEF Fresh
<1>6. ASSUME y.locked, NEW s \in Systems, IsAt(y, s), Queues(v, y, s), NEW a \in args'[s], a[1] = y.id
      PROVE  a[2] \in y.told
  BY <1>6 DEF CopyOk
<1>7. \A s : (IsAt(y, s)' <=> IsAt(y, s)) /\ (Queues(v, y, s)' <=> Queues(v, y, s))
  BY DEF IsAt, Queues, IsRemote
<1> QED BY <1>3, <1>4, <1>5, <1>6, <1>7 DEF CopyOk

\* Copies are made for the raise id only, which is not one that t leaves under way.
CopiesOnlyFor(id) == \A s \in Systems : \A a \in args'[s] : a \in args[s] \/ a[1] = id
IsNoneBelow(t, k, id) ==
  \A v \in Threads : \A j \in DOMAIN stack[v] :
    AtRaise(v, j) /\ (v = t => j <= k) => stack[v][j].id # id
BegunOk(t, q) == \A m \in 1 .. Len(q) : q[m].op = "raise" => CopyOk(t, q[m])

(* If what a move begins is in order so are all the raises.                *)
LEMMA CopiesMoved ==
  ASSUME EventTypes, CopiesOk, NEW t \in Threads, NEW k \in 0 .. Len(stack[t]),
         NEW q \in Seq(Activity), Moves(t, k, q), ~raced, UNCHANGED <<systems, bindings>>, NEW id,
         CopiesOnlyFor(id), IsNoneBelow(t, k, id), BegunOk(t, q)'
  PROVE  CopiesOk'
<1> SUFFICES ASSUME NEW v \in Threads, NEW j \in DOMAIN stack'[v], stack'[v][j].op = "raise"
             PROVE  CopyOk(v, stack[v][j])'
  BY DEF CopiesOk, AtRaise
<1>1. CASE j \in DOMAIN stack[v] /\ stack'[v][j] = stack[v][j] /\ (v = t => j <= k)
  <2>1. stack[v][j] \in Activity BY <1>1 DEF EventTypes
  <2>2. stack[v][j] \in Raise BY <1>1, <2>1, Kinds
  <2>3. PICK y \in Raise : y = stack[v][j] BY <2>2
  <2>4. AtRaise(v, j) BY <1>1 DEF AtRaise
  <2>5. CopyOk(v, y) BY <1>1, <2>3, <2>4 DEF CopiesOk
  <2>6. y.id # id BY <1>1, <2>3, <2>4 DEF IsNoneBelow
  <2>7. \A s \in Systems : \A a \in args'[s] : a[1] = y.id => a \in args[s]
    BY <2>6 DEF CopiesOnlyFor
  <2>8. CopyOk(v, y)' BY <2>5, <2>7, CopyOkKept
  <2> QED BY <1>1, <2>3, <2>8 DEF CopyOk, Fresh, IsAt, Queues, IsRemote
<1>2. CASE v = t /\ j - k \in 1 .. Len(q) /\ stack'[v][j] = q[j - k]
  <2>1. CopyOk(t, q[j - k])' BY <1>2 DEF BegunOk
  <2> QED BY <1>2, <2>1 DEF CopyOk, Fresh, IsAt, Queues, IsRemote
<1> QED BY <1>1, <1>2, WasOrBegins

(* A new raise has copied nothing.                                         *)
LEMMA CopyOkNew ==
  ASSUME EventTypes, CopiesNumbered, NEW t \in Threads, NEW y \in Raise, UNCHANGED args,
         Starts(y), y.told = {}
  PROVE  CopyOk(t, y)'
<1>1. ASSUME NEW s \in Systems, NEW a \in args[s] PROVE a[1] # y.id
  <2>1. a \in Ids \X Threads /\ a[1] <= raises BY DEF CopiesNumbered, EventTypes
  <2>2. a[1] \in Int /\ raises \in Int BY <2>1 DEF EventTypes, Ids
  <2> QED BY <2>1, <2>2 DEF Starts
<1> QED BY <1>1 DEF CopyOk, Fresh, Starts

\* The activities that a move ends or begins have no thread to tell.
Silent(t, k, q) ==
  /\ \A i \in DOMAIN stack[t] : i > k /\ AtRaise(t, i) => stack[t][i].told = {}
  /\ \A m \in 1 .. Len(q) : q[m].op = "raise" => q[m].told = {}

(* Moves in which nothing is queued, run or freed.                         *)
LEMMA CopyStepQuiet ==
  ASSUME EventTypes, CopyInv, NEW t \in Threads, NEW k \in 0 .. Len(stack[t]),
         NEW q \in Seq(Activity), Moves(t, k, q), ~raced,
         UNCHANGED <<systems, bindings, queue, args>>,
         raises' = raises \/ raises' = raises + 1,
         Silent(t, k, q), BegunOk(t, q)'
  PROVE  CopyInv'
<1>1. CopiesNumbered'
  <2>1. \A s \in Systems : \A a \in args[s] : a[1] \in Nat BY DEF EventTypes, Ids
  <2>2. raises \in Nat BY DEF EventTypes
  <2> QED BY <2>1, <2>2 DEF CopyInv, CopiesNumbered
<1>2. CopiesOk'
  <2>1. ASSUME NEW v \in Threads, NEW j \in DOMAIN stack[v], AtRaise(v, j)
        PROVE  stack[v][j].id # 0
    <3>1. stack[v][j] \in Activity BY DEF EventTypes
    <3>2. stack[v][j] \in Raise BY <2>1, <3>1, Kinds DEF AtRaise
    <3> QED BY <3>2 DEF Raise, Ids
  <2>2. CopiesOnlyFor(0) BY DEF CopiesOnlyFor
  <2>3. IsNoneBelow(t, k, 0) BY <2>1 DEF IsNoneBelow
  <2> QED BY <2>2, <2>3, CopiesMoved DEF CopyInv
<1>3. CopiesKept' BY UntoldSame DEF CopyInv, CopiesKept, Silent
<1> QED BY <1>1, <1>2, <1>3 DEF CopyInv

(* What the innermost activity was ends with it.                           *)
LEMMA SilentTop ==
  ASSUME EventTypes, NEW t \in Threads, NEW x, OnTop(t, x), x.op = "raise" => x.told = {},
         NEW q \in Seq(Activity), \A m \in 1 .. Len(q) : q[m].op = "raise" => q[m].told = {}
  PROVE  Silent(t, Len(stack[t]) - 1, q)
<1> DEFINE n == Len(stack[t])
<1>1. n \in Nat /\ stack[t][n] = x /\ DOMAIN stack[t] = 1 .. n
  BY AtTop, LenProperties DEF EventTypes
<1>2. \A i \in 1 .. n : i > n - 1 => i = n BY <1>1
<1> QED BY <1>1, <1>2 DEF Silent, AtRaise

(* The number of the innermost raise is that of no other.                  *)
LEMMA NoneBelowTop ==
  ASSUME EventTypes, StackInv, NEW t \in Threads, NEW x, OnTop(t, x), x.op = "raise"
  PROVE  IsNoneBelow(t, Len(stack[t]) - 1, x.id)
<1> DEFINE n == Len(stack[t])
<1>1. n \in Nat /\ n \in DOMAIN stack[t] /\ stack[t][n] = x /\ AtRaise(t, n) BY AtTop
<1>2. \A j : j <= n - 1 => j # n BY <1>1
<1> QED BY <1>1, <1>2 DEF IsNoneBelow, StackInv, Apart

(* The steps of a thread that neither queue nor free.                      *)
LEMMA CopyStepOthers ==
  ASSUME EventTypes, StackInv, CopyInv, ~raced, NEW t \in Threads,
         \/ Lock(t) \/ CallNow(t) \/ NextSystem(t) \/ EndRaise(t) \/ Enter(t) \/ Leave(t)
         \/ EndProcess(t) \/ (\E s \in Systems : BeginProcess(t, s)) \/ \E e \in Events : BeginRaise(t, e)
  PROVE  CopyInv'
<1> DEFINE n == Len(stack[t])
<1>1. ASSUME NEW x \in Raise, OnTop(t, x)
      PROVE  CopyOk(t, x) /\ x.op = "raise" /\ n - 1 \in 0 .. n
  <2>1. n \in DOMAIN stack[t] /\ stack[t][n] = x /\ n - 1 \in 0 .. n /\ x.op = "raise" /\ AtRaise(t, n)
    BY <1>1, AtTop DEF Raise
  <2> QED BY <2>1 DEF CopyInv, CopiesOk
<1>2. ASSUME NEW x \in Activity, OnTop(t, x), x.op = "raise" => x.told = {},
             NEW q \in Seq(Activity), Moves(t, n - 1, q),
             \A m \in 1 .. Len(q) : q[m].op = "raise" => q[m].told = {},
             BegunOk(t, q)', UNCHANGED <<systems, bindings, queue, args>>,
             raises' = raises \/ raises' = raises + 1
      PROVE  CopyInv'
  <2>1. Silent(t, n - 1, q) BY <1>2, SilentTop
  <2> QED BY <1>2, <2>1, AtTop, CopyStepQuiet
<1>3. ASSUME NEW q \in Seq(Activity), Len(q) = 0 PROVE BegunOk(t, q)'
  BY <1>3 DEF BegunOk
<1>4. ASSUME NEW y \in Activity, y.op = "raise" => CopyOk(t, y)' PROVE BegunOk(t, <<y>>)'
  BY <1>4 DEF BegunOk
<1>5. ASSUME NEW x \in Raise, NEW y \in Raise, OnTop(t, x), Moves(t, n - 1, <<y>>),
             x.told = {}, y.told = {}, CopyOk(t, y)',
             UNCHANGED <<systems, bindings, queue, args, raises>>
      PROVE  CopyInv'
  <2> DEFINE q == <<y>>
  <2>1. q \in Seq(Activity) /\ Len(q) = 1 /\ q[1] = y BY SmallSeq DEF Activity
  <2>2. BegunOk(t, q)' BY <1>4, <1>5 DEF Activity
  <2>3. Moves(t, n - 1, q) /\ x \in Activity BY <1>5 DEF Activity
  <2> HIDE DEF q
  <2>4. \A m \in 1 .. Len(q) : q[m].op = "raise" => q[m].told = {} BY <1>5, <2>1
  <2> QED BY <1>2, <1>5, <2>1, <2>2, <2>3, <2>4
<1>6. CASE Lock(t)
  <2>1. PICK x \in Raise : LockOf(t, x) BY <1>6, LockMoves
  <2> DEFINE y == [x EXCEPT !.locked = TRUE]
  <2>2. /\ y \in Raise /\ y.id = x.id /\ y.event = x.event /\ y.told = x.told /\ y.locked
        /\ OnTop(t, x) /\ ~x.locked /\ Moves(t, n - 1, <<y>>)
        /\ UNCHANGED <<systems, bindings, queue, args, raises, raced>>
    BY <2>1 DEF LockOf, Raise
  <2> HIDE DEF y
  <2>3. x.told = {} /\ \A s \in Systems : Fresh(x, s) BY <1>1, <2>2 DEF CopyOk
  <2>4. \A s \in Systems : \A a \in args'[s] : a[1] # y.id BY <2>2, <2>3 DEF Fresh
  <2>5. \A m \in DOMAIN systems'[y.event] : systems'[y.event][m] \in Systems
    BY <2>2 DEF EventTypes, Raise
  <2>6. CopyOk(t, y)' BY <2>2, <2>3, <2>4, <2>5 DEF CopyOk, Fresh
  <2> QED BY <1>5, <2>2, <2>3, <2>6
<1>7. CASE CallNow(t)
  <2>1. PICK x \in Raise, s \in Systems, i \in Nat, b \in Binding : CallNowOf(t, x, s, i, b)
    BY <1>7, CallNowMoves
  <2> DEFINE y == [x EXCEPT !.called = i]
             c == Entered(s, b.f, x.id, t)
             q == <<y, c>>
  <2>2. /\ y \in Raise /\ y.id = x.id /\ y.event = x.event /\ y.told = x.told /\ y.n = x.n
        /\ y.queued = x.queued /\ y.locked = x.locked
    BY DEF Raise
  <2>3. /\ OnTop(t, x) /\ x.locked /\ x.told = {} /\ Moves(t, n - 1, q)
        /\ UNCHANGED <<systems, bindings, queue, args, raises, raced>>
    BY <2>1 DEF CallNowOf
  <2>4. c \in InCall /\ c.op = "call" BY DEF Entered, InCall, Binding, Raise
  <2> HIDE DEF y, c
  <2>5. q \in Seq(Activity) /\ Len(q) = 2 /\ q[1] = y /\ q[2] = c
    BY <2>2, <2>4, SmallSeq DEF Activity
  <2> HIDE DEF q
  <2>6. CopyOk(t, y)
    BY <1>1, <2>2, <2>3 DEF CopyOk, Fresh, IsAt, Queues
  <2>7. \A r \in Systems : \A a \in args'[r] : a[1] = y.id => a \in args[r] BY <2>3
  <2>8. CopyOk(t, y)' BY <2>2, <2>3, <2>6, <2>7, CopyOkKept
  <2>9. \A m \in 1 .. 2 : m = 1 \/ m = 2 OBVIOUS
  <2>10. \A m \in 1 .. Len(q) : q[m].op = "raise" => q[m] = y BY <2>4, <2>5, <2>9
  <2>11. \A m \in 1 .. Len(q) : q[m].op = "raise" => q[m].told = {} BY <2>2, <2>3, <2>10
  <2>12. BegunOk(t, q)' BY <2>8, <2>10 DEF BegunOk
  <2> QED BY <1>2, <2>3, <2>5, <2>11, <2>12 DEF Activity
<1>8. CASE NextSystem(t)
  <2>1. PICK x \in Raise : NextSystemOf(t, x) BY <1>8, NextSystemMoves
  <2> DEFINE y == [x EXCEPT !.n = @ + 1, !.queued = 0, !.called = 0]
  <2>2. x.n + 1 \in Ids /\ x.n \in Nat BY DEF Raise, Ids
  <2>3. /\ y \in Raise /\ y.id = x.id /\ y.event = x.event /\ y.told = x.told /\ y.n = x.n + 1
        /\ y.locked = x.locked
    BY <2>2 DEF Raise
  <2>4. /\ OnTop(t, x) /\ x.locked /\ x.told = {} /\ Moves(t, n - 1, <<y>>)
        /\ UNCHANGED <<systems, bindings, queue, args, raises, raced>>
    BY <2>1 DEF NextSystemOf
  <2> HIDE DEF y
  <2>5. \A m \in DOMAIN systems[x.event] : m \in Int /\ m > x.n => Fresh(x, systems[x.event][m])
    BY <1>1, <2>4 DEF CopyOk
  <2>6. systems[x.event] \in Seq(Systems) /\ Len(systems[x.event]) \in Nat
        /\ DOMAIN systems[x.event] = 1 .. Len(systems[x.event])
    BY LenProperties DEF EventTypes, Raise
  <2>7. \A m \in DOMAIN systems[x.event] : m >= y.n => Fresh(y, systems[x.event][m])
    <3> SUFFICES ASSUME NEW m \in DOMAIN systems[x.event], m >= y.n
                 PROVE  Fresh(y, systems[x.event][m])
      OBVIOUS
    <3>1. m \in Int /\ m > x.n BY <2>2, <2>3, <2>6
    <3>2. Fresh(x, systems[x.event][m]) BY <2>5, <3>1
    <3> QED BY <2>3, <3>2 DEF Fresh
  <2>8. CopyOk(t, y)
    <3>1. y.told = {} /\ y.locked BY <2>3, <2>4
    <3>2. \A m \in DOMAIN systems[y.event] : m > y.n => Fresh(y, systems[y.event][m])
      BY <2>2, <2>3, <2>6, <2>7
    <3>3. ASSUME NEW s \in Systems, IsAt(y, s) PROVE Fresh(y, s)
      <4>1. y.n \in DOMAIN systems[x.event] /\ systems[x.event][y.n] = s
        BY <2>2, <2>3, <2>6, <3>3 DEF IsAt, Ids
      <4> QED BY <2>2, <2>3, <2>7, <4>1
    <3> QED BY <3>1, <3>2, <3>3 DEF CopyOk, Fresh
  <2>9. \A r \in Systems : \A a \in args'[r] : a[1] = y.id => a \in args[r] BY <2>4
  <2>10. CopyOk(t, y)' BY <2>3, <2>4, <2>8, <2>9, CopyOkKept
  <2>11. y.told = {} BY <2>3, <2>4
  <2> QED BY <1>5, <2>3, <2>4, <2>10, <2>11
<1>9. ASSUME NEW x \in Activity, OnTop(t, x), Moves(t, n - 1, <<>>), x.op = "raise" => x.told = {},
             UNCHANGED <<systems, bindings, queue, args, raises>>
      PROVE  CopyInv'
  <2> DEFINE q == <<>>
  <2>1. q \in Seq(Activity) /\ Len(q) = 0 /\ Moves(t, n - 1, q) BY <1>9, EmptySeq
  <2> HIDE DEF q
  <2>2. BegunOk(t, q)' BY <1>3, <2>1
  <2>3. \A m \in 1 .. Len(q) : q[m].op = "raise" => q[m].told = {} BY <2>1
  <2> QED BY <1>2, <1>9, <2>1, <2>2, <2>3
<1>10. CASE EndRaise(t)
  <2>1. PICK x \in Raise : EndRaiseOf(t, x) BY <1>10, EndRaiseMoves
  <2>2. x.told = {}
    <3>1. x.n > Len(systems[x.event]) /\ OnTop(t, x) BY <2>1 DEF EndRaiseOf
    <3>2. x.told # {} => x.n <= Len(systems[x.event]) BY <1>1, <3>1 DEF CopyOk
    <3>3. x.n \in Int /\ Len(systems[x.event]) \in Int BY LenProperties DEF Raise, Ids, EventTypes
    <3> QED BY <3>1, <3>2, <3>3
  <2> QED BY <1>9, <2>1, <2>2 DEF EndRaiseOf, Activity
<1>11. CASE Leave(t)
  <2>1. PICK c \in InCall : LeaveOf(t, c) BY <1>11, LeaveMoves
  <2> QED BY <1>9, <2>1 DEF LeaveOf, Activity, InCall
<1>12. CASE Enter(t)
  <2>1. PICK c \in InCall : EnterOf(t, c) BY <1>12, EnterMoves
  <2> DEFINE left == [c EXCEPT !.at = "leave"]
  <2>2. left \in InCall /\ left.op = "call" /\ left \in Activity /\ c \in Activity /\ c.op = "call"
    BY DEF InCall, Activity
  <2> HIDE DEF left
  <2>3. /\ OnTop(t, c)
        /\ UNCHANGED <<systems, bindings, queue, args>>
        /\ \/ Moves(t, n - 1, <<left>>) /\ UNCHANGED raises
           \/ \E e \in Events : Moves(t, n - 1, <<left, NewRaise(e)>>) /\ raises' = raises + 1
    BY <2>1 DEF EnterOf, left
  <2>4. CASE Moves(t, n - 1, <<left>>) /\ UNCHANGED raises
    <3> DEFINE q == <<left>>
    <3>1. q \in Seq(Activity) /\ Len(q) = 1 /\ q[1] = left /\ Moves(t, n - 1, q)
      BY <2>2, <2>4, SmallSeq
    <3> HIDE DEF q
    <3>2. \A m \in 1 .. Len(q) : q[m].op # "raise" BY <2>2, <3>1
    <3>3. BegunOk(t, q)' BY <3>2 DEF BegunOk
    <3> QED BY <1>2, <2>2, <2>3, <2>4, <3>1, <3>2, <3>3
  <2>5. ASSUME NEW e \in Events, Moves(t, n - 1, <<left, NewRaise(e)>>), raises' = raises + 1
        PROVE  CopyInv'
    <3>1. NewRaise(e) \in Raise /\ Starts(NewRaise(e)) /\ NewRaise(e).told = {}
      BY <2>5, NewRaiseType DEF NewRaise, Starts
    <3>2. PICK y \in Raise : y = NewRaise(e) BY <3>1
    <3> DEFINE q == <<left, y>>
    <3>3. /\ q \in Seq(Activity) /\ Len(q) = 2 /\ q[1] = left /\ q[2] = y
          /\ Moves(t, n - 1, q)
      BY <2>2, <2>5, <3>2, SmallSeq DEF Activity
    <3> HIDE DEF q
    <3>4. CopyOk(t, y)' BY <2>3, <3>1, <3>2, CopyOkNew DEF CopyInv
    <3>5. \A m \in 1 .. 2 : m = 1 \/ m = 2 OBVIOUS
    <3>6. \A m \in 1 .. Len(q) : q[m].op = "raise" => q[m] = y BY <2>2, <3>3, <3>5
    <3>7. BegunOk(t, q)' BY <3>4, <3>6 DEF BegunOk
    <3>8. \A m \in 1 .. Len(q) : q[m].op = "raise" => q[m].told = {} BY <3>1, <3>2, <3>6
    <3> QED BY <1>2, <2>2, <2>3, <2>5, <3>3, <3>7, <3>8
  <2> QED BY <2>3, <2>4, <2>5
<1>13. ASSUME NEW q \in Seq(Activity), stack[t] = <<>> \/ \E p \in InProcess : OnTop(t, p),
              Moves(t, 0, q), BegunOk(t, q)', raises' = raises \/ raises' = raises + 1,
              \A m \in 1 .. Len(q) : q[m].op = "raise" => q[m].told = {},
              UNCHANGED <<systems, bindings, queue, args>>
       PROVE  CopyInv'
  <2>1. \A i \in DOMAIN stack[t] : ~AtRaise(t, i)
    <3>1. CASE stack[t] = <<>> BY <3>1, EmptySeq, LenProperties DEF AtRaise
    <3>2. ASSUME NEW p \in InProcess, OnTop(t, p), NEW i \in DOMAIN stack[t] PROVE ~AtRaise(t, i)
      <4>1. /\ n \in Nat \ {0} /\ n \in DOMAIN stack[t] /\ stack[t][n] = p /\ p.op = "process"
            /\ DOMAIN stack[t] = 1 .. n
        BY <3>2, AtTop, LenProperties DEF InProcess, EventTypes
      <4>2. n = 1 BY <4>1 DEF StackInv, Settled
      <4>3. i = n BY <4>1, <4>2
      <4> QED BY <4>1, <4>3 DEF AtRaise
    <3> QED BY <1>13, <3>1, <3>2
  <2>2. Silent(t, 0, q) BY <1>13, <2>1 DEF Silent
  <2> QED BY <1>13, <2>2, Depths, CopyStepQuiet
<1>14. CASE EndProcess(t)
  <2>1. PICK p \in InProcess : EndProcessOf(t, p) BY <1>14, EndProcessMoves
  <2> DEFINE q == <<>>
  <2>2. q \in Seq(Activity) /\ Len(q) = 0 /\ Moves(t, 0, q) BY <2>1, EmptySeq DEF EndProcessOf
  <2> HIDE DEF q
  <2>3. BegunOk(t, q)' BY <1>3, <2>2
  <2>4. \A m \in 1 .. Len(q) : q[m].op = "raise" => q[m].told = {} BY <2>2
  <2>5. OnTop(t, p) /\ UNCHANGED <<systems, bindings, queue, args, raises>>
    BY <2>1 DEF EndProcessOf
  <2> QED BY <1>13, <2>2, <2>3, <2>4, <2>5
<1>15. CASE \E s \in Systems : BeginProcess(t, s)
  <2>1. PICK s \in Systems : stack' = [stack EXCEPT ![t] = <<[op |-> "process", system |-> s]>>]
    BY <1>15 DEF BeginProcess
  <2> DEFINE y == [op |-> "process", system |-> s]
             q == <<y>>
  <2>2. y \in Activity /\ y.op = "process" BY DEF Activity, InProcess
  <2>3. stack[t] = <<>> /\ UNCHANGED <<systems, bindings, queue, args, raises>>
    BY <1>15 DEF BeginProcess, Idle
  <2>4. Moves(t, 0, q) BY <2>1, <2>2, <2>3, BeginMoves
  <2> HIDE DEF y
  <2>5. q \in Seq(Activity) /\ Len(q) = 1 /\ q[1] = y BY <2>2, SmallSeq
  <2> HIDE DEF q
  <2>6. \A m \in 1 .. Len(q) : q[m].op # "raise" BY <2>2, <2>5
  <2>7. BegunOk(t, q)' BY <2>6 DEF BegunOk
  <2> QED BY <1>13, <2>3, <2>4, <2>5, <2>6, <2>7
<1>16. ASSUME NEW e \in Events, BeginRaise(t, e) PROVE CopyInv'
  <2>1. /\ stack[t] = <<>> /\ stack' = [stack EXCEPT ![t] = <<NewRaise(e)>>]
        /\ raises' = raises + 1 /\ UNCHANGED <<systems, bindings, queue, args>>
    BY <1>16 DEF BeginRaise, Idle
  <2>2. NewRaise(e) \in Raise /\ Starts(NewRaise(e)) /\ NewRaise(e).told = {}
    BY <2>1, NewRaiseType DEF NewRaise, Starts
  <2>3. PICK y \in Raise : y = NewRaise(e) BY <2>2
  <2> DEFINE q == <<y>>
  <2>4. Moves(t, 0, q) BY <2>1, <2>3, BeginMoves DEF Activity
  <2>5. q \in Seq(Activity) /\ Len(q) = 1 /\ q[1] = y BY SmallSeq DEF Activity
  <2>6. CopyOk(t, y)' BY <2>1, <2>2, <2>3, CopyOkNew DEF CopyInv
  <2> HIDE DEF q
  <2>7. BegunOk(t, q)' BY <2>5, <2>6 DEF BegunOk
  <2>8. \A m \in 1 .. Len(q) : q[m].op = "raise" => q[m].told = {} BY <2>2, <2>3, <2>5
  <2> QED BY <1>13, <2>1, <2>4, <2>5, <2>7, <2>8
<1> QED BY <1>6, <1>7, <1>8, <1>10, <1>11, <1>12, <1>14, <1>15, <1>16

(* The copy that a call is queued with is kept for it.                     *)
LEMMA CopyStepQueueCall ==
  ASSUME EventTypes, BindInv, StackInv, CopyInv, ~raced, NEW t \in Threads, QueueCall(t)
  PROVE  CopyInv'
<1> DEFINE n == Len(stack[t])
<1>1. PICK x \in Raise, s \in Systems, i \in Nat, b \in Binding : QueueCallOf(t, x, s, i, b)
  BY QueueCallMoves
<1> DEFINE to == b.tether
           a == <<x.id, to>>
           j == [job |-> "call", f |-> b.f, id |-> x.id, by |-> t, args |-> a]
           y == [x EXCEPT !.queued = i, !.told = @ \cup {to}]
<1>2. /\ OnTop(t, x) /\ x.locked /\ IsAt(x, s) /\ i \in DOMAIN bindings[s] /\ b = bindings[s][i]
      /\ b.event = x.event /\ IsRemote(t, b) /\ to \in Threads /\ x.queued < i
      /\ args' = [args EXCEPT ![s] = @ \cup {a}]
      /\ queue' = [queue EXCEPT ![s][to] = Append(@, j)]
      /\ Moves(t, n - 1, <<y>>)
      /\ UNCHANGED <<lock, systems, bindings, raises>>
  BY <1>1 DEF QueueCallOf
<1>3. /\ y \in Raise /\ y.id = x.id /\ y.event = x.event /\ y.n = x.n /\ y.locked
      /\ y.told = x.told \cup {to}
  <2>1. x.told \cup {to} \in SUBSET Threads BY <1>2 DEF Raise
  <2> QED BY <1>2, <2>1 DEF Raise
<1>4. a \in Ids \X Threads /\ a[1] = x.id /\ a[2] = to BY <1>2 DEF Raise
<1>5. j \in Job /\ j.job = "call" /\ j.args = a BY <1>4 DEF Job, Binding, Raise
<1> HIDE DEF y, j, a
<1>6. CopyOk(t, x) /\ x.op = "raise" /\ x.id <= raises
  <2>1. n \in DOMAIN stack[t] /\ stack[t][n] = x /\ AtRaise(t, n) /\ x.op = "raise"
    BY <1>2, AtTop DEF Raise
  <2> QED BY <2>1 DEF CopyInv, CopiesOk, StackInv, Numbered
<1>7. Queues(t, x, s) BY <1>2 DEF Queues
<1>8. \A c \in args[s] : c[1] = x.id => c[2] \in x.told
  BY <1>2, <1>6, <1>7 DEF CopyOk
<1>9. \A r \in Systems : args'[r] = IF r = s THEN args[s] \cup {a} ELSE args[r]
  BY <1>2 DEF EventTypes
<1>10. CopiesNumbered' BY <1>2, <1>4, <1>6, <1>9 DEF CopyInv, CopiesNumbered
<1>11. CopyOk(t, y)'
  <2>1. y.n <= Len(systems'[y.event]) BY <1>2, <1>3 DEF IsAt
  <2>2. ASSUME NEW m \in DOMAIN systems[y.event], m > y.n
        PROVE  Fresh(y, systems[y.event][m])'
    <3>1. systems[x.event] \in Seq(Systems) /\ x.event \in Events BY DEF EventTypes, Raise
    <3>2. x.n \in DOMAIN systems[x.event] /\ systems[x.event][x.n] = s /\ m # x.n
          /\ systems[x.event][m] \in Systems
      BY <1>2, <1>3, <2>2, <3>1, LenProperties DEF IsAt, Raise, Ids
    <3>3. systems[x.event][m] # s BY <1>3, <3>1, <3>2 DEF BindInv, AddedOnce
    <3>4. args'[systems[x.event][m]] = args[systems[x.event][m]] BY <1>9, <3>2, <3>3
    <3>5. Fresh(x, systems[x.event][m]) BY <1>2, <1>3, <1>6, <2>2 DEF CopyOk
    <3> QED BY <1>2, <1>3, <3>4, <3>5 DEF Fresh
  <2>3. ASSUME NEW r \in Systems, IsAt(y, r)', NEW c \in args'[r], c[1] = y.id
        PROVE  c[2] \in y.told
    <3>1. r = s BY <1>2, <1>3, <2>3 DEF IsAt
    <3> QED BY <1>3, <1>4, <1>8, <1>9, <2>3, <3>1
  <2> QED BY <1>2, <1>3, <2>1, <2>2, <2>3 DEF CopyOk
<1>12. CopiesOk'
  <2> DEFINE q == <<y>>
             k == n - 1
  <2>1. q \in Seq(Activity) /\ Len(q) = 1 /\ q[1] = y BY <1>3, SmallSeq DEF Activity
  <2>2. Moves(t, k, q) /\ k \in 0 .. n BY <1>2, AtTop
  <2>3. IsNoneBelow(t, k, x.id) BY <1>2, <1>6, NoneBelowTop
  <2> HIDE DEF q, k
  <2>4. CopiesOnlyFor(x.id) BY <1>4, <1>9 DEF CopiesOnlyFor
  <2>5. BegunOk(t, q)' BY <1>11, <2>1 DEF BegunOk
  <2>6. CopiesOk BY DEF CopyInv
  <2> QED BY <1>2, <2>1, <2>2, <2>3, <2>4, <2>5, <2>6, CopiesMoved
<1>13. CopiesKept'
  <2> SUFFICES ASSUME NEW r \in Systems, NEW u \in Threads
               PROVE  Kept(queue'[r][u], u, args'[r], Untold(r)')
    BY DEF CopiesKept
  <2>1. /\ \A z \in Systems : z # s => Untold(z)' = Untold(z)
        /\ \A c : c \in Untold(s) /\ c[1] = x.id <=>
                    c \in Ids \X Threads /\ c[1] = x.id /\ c[2] \in x.told
        /\ \A c : c \in Untold(s)' <=>
                    /\ c \in Ids \X Threads
                    /\ IF c[1] = x.id THEN c[2] \in y.told ELSE c \in Untold(s)
    BY <1>2, <1>3, UntoldTop
  <2>2. Kept(queue[r][u], u, args[r], Untold(r)) BY DEF CopyInv, CopiesKept
  <2>3. \A c \in Ids \X Threads : c = <<c[1], c[2]>> OBVIOUS
  <2>4. \A c : c \in Untold(s)' <=> c \in Untold(s) \cup {a}
    <3>1. \A c : c \in Untold(s) => c \in Ids \X Threads BY DEF Untold
    <3>2. ASSUME NEW c \in Ids \X Threads, c[1] = x.id PROVE c[2] = to <=> c = a
      BY <2>3, <3>2 DEF a
    <3> QED BY <1>3, <1>4, <2>1, <3>1, <3>2
  <2>5. CASE r = s /\ u = to
    <3>1. a \in args[s] => a \in Untold(s) BY <1>4, <1>8, <2>1
    <3>2. queue'[s][to] = Append(queue[s][to], j) BY <1>2 DEF EventTypes
    <3>3. queue[s][to] \in Seq(Job) BY <1>2 DEF EventTypes
    <3>4. Kept(Append(queue[s][to], j), to, args[s] \cup {a}, Untold(s) \cup {a})
      BY <1>2, <1>4, <1>5, <2>2, <2>5, <3>1, <3>3, KeptCall
    <3>5. args'[s] = args[s] \cup {a} BY <1>9
    <3>6. Untold(s)' = Untold(s) \cup {a} BY <2>4
    <3> QED BY <2>5, <3>2, <3>4, <3>5, <3>6
  <2>6. CASE r # s \/ u # to
    <3>1. queue'[r][u] = queue[r][u] BY <1>2, <2>6 DEF EventTypes
    <3>2. \A c : c[2] = u => /\ c \in args[r] <=> c \in args'[r]
                             /\ c \in Untold(r) <=> c \in Untold(r)'
      BY <1>4, <1>9, <2>1, <2>4, <2>6
    <3> QED BY <2>2, <3>1, <3>2, KeptElsewhere
  <2> QED BY <2>5, <2>6
<1> QED BY <1>10, <1>12, <1>13 DEF CopyInv

(* A copy is given up by one job, behind all the calls it was made for.    *)
LEMMA CopyStepQueueFree ==
  ASSUME EventTypes, StackInv, CopyInv, ~raced, NEW t \in Threads, QueueFree(t)
  PROVE  CopyInv'
<1> DEFINE n == Len(stack[t])
<1>1. PICK x \in Raise, s \in Systems, to \in Threads : QueueFreeOf(t, x, s, to)
  BY QueueFreeMoves
<1> DEFINE a == <<x.id, to>>
           j == [job |-> "free", args |-> a]
           y == [x EXCEPT !.told = @ \ {to}]
<1>2. /\ OnTop(t, x) /\ x.locked /\ IsAt(x, s) /\ ~Queues(t, x, s) /\ to \in x.told
      /\ queue' = [queue EXCEPT ![s][to] = Append(@, j)]
      /\ Moves(t, n - 1, <<y>>)
      /\ UNCHANGED <<lock, systems, bindings, args, raises, raced>>
  BY <1>1 DEF QueueFreeOf
<1>3. /\ y \in Raise /\ y.id = x.id /\ y.event = x.event /\ y.n = x.n /\ y.locked
      /\ y.told = x.told \ {to} /\ y.queued = x.queued
  <2>1. x.told \ {to} \in SUBSET Threads BY DEF Raise
  <2> QED BY <1>2, <2>1 DEF Raise
<1>4. a \in Ids \X Threads /\ a[1] = x.id /\ a[2] = to BY DEF Raise
<1>5. j \in Job /\ j.job = "free" /\ j.args = a BY <1>4 DEF Job
<1> HIDE DEF y, j, a
<1>6. CopyOk(t, x) /\ x.op = "raise"
  <2>1. n \in DOMAIN stack[t] /\ stack[t][n] = x /\ AtRaise(t, n) /\ x.op = "raise"
    BY <1>2, AtTop DEF Raise
  <2> QED BY <2>1 DEF CopyInv, CopiesOk
<1>7. CopiesNumbered' BY <1>2 DEF CopyInv, CopiesNumbered
<1>8. CopyOk(t, y)'
  <2>1. CopyOk(t, y)
    <3>1. y.n <= Len(systems[y.event]) BY <1>2, <1>3 DEF IsAt
    <3>2. \A m \in DOMAIN systems[y.event] : m > y.n => Fresh(y, systems[y.event][m])
      BY <1>2, <1>3, <1>6 DEF CopyOk, Fresh
    <3>3. \A r \in Systems : IsAt(y, r) => r = s /\ ~Queues(t, y, r)
      BY <1>2, <1>3 DEF IsAt, Queues
    <3> QED BY <1>3, <3>1, <3>2, <3>3 DEF CopyOk
  <2>2. \A r \in Systems : \A c \in args'[r] : c[1] = y.id => c \in args[r] BY <1>2
  <2> QED BY <1>2, <1>3, <2>1, <2>2, CopyOkKept
<1>9. CopiesOk'
  <2> DEFINE q == <<y>>
             k == n - 1
  <2>1. q \in Seq(Activity) /\ Len(q) = 1 /\ q[1] = y BY <1>3, SmallSeq DEF Activity
  <2>2. Moves(t, k, q) /\ k \in 0 .. n BY <1>2, AtTop
  <2>3. IsNoneBelow(t, k, x.id) BY <1>2, <1>6, NoneBelowTop
  <2> HIDE DEF q, k
  <2>4. CopiesOnlyFor(x.id) BY <1>2 DEF CopiesOnlyFor
  <2>5. BegunOk(t, q)' BY <1>8, <2>1 DEF BegunOk
  <2>6. CopiesOk BY DEF CopyInv
  <2> QED BY <1>2, <2>1, <2>2, <2>3, <2>4, <2>5, <2>6, CopiesMoved
<1>10. CopiesKept'
  <2> SUFFICES ASSUME NEW r \in Systems, NEW u \in Threads
               PROVE  Kept(queue'[r][u], u, args'[r], Untold(r)')
    BY DEF CopiesKept
  <2>1. /\ \A z \in Systems : z # s => Untold(z)' = Untold(z)
        /\ \A c : c \in Untold(s) /\ c[1] = x.id <=>
                    c \in Ids \X Threads /\ c[1] = x.id /\ c[2] \in x.told
        /\ \A c : c \in Untold(s)' <=>
                    /\ c \in Ids \X Threads
                    /\ IF c[1] = x.id THEN c[2] \in y.told ELSE c \in Untold(s)
    BY <1>2, <1>3, UntoldTop
  <2>2. Kept(queue[r][u], u, args[r], Untold(r)) BY DEF CopyInv, CopiesKept
  <2>3. \A c \in Ids \X Threads : c = <<c[1], c[2]>> OBVIOUS
  <2>4. \A c : c \in Untold(s)' <=> c \in Untold(s) \ {a}
    <3>1. \A c : c \in Untold(s) => c \in Ids \X Threads BY DEF Untold
    <3>2. ASSUME NEW c \in Ids \X Threads, c[1] = x.id PROVE c[2] = to <=> c = a
      BY <2>3, <3>2 DEF a
    <3> QED BY <1>3, <1>4, <2>1, <3>1, <3>2
  <2>5. a \in Untold(s) BY <1>2, <1>4, <2>1
  <2>6. CASE r = s /\ u = to
    <3>1. queue'[s][to] = Append(queue[s][to], j) /\ queue[s][to] \in Seq(Job)
      BY <1>2 DEF EventTypes
    <3>2. a \in args[s] BY <1>4, <2>2, <2>5, <2>6 DEF Kept
    <3>3. Kept(Append(queue[s][to], j), to, args[s], Untold(s) \ {a})
      BY <1>4, <1>5, <2>2, <2>5, <2>6, <3>1, <3>2, KeptFree
    <3>4. Untold(s)' = Untold(s) \ {a} BY <2>4
    <3> QED BY <1>2, <2>6, <3>1, <3>3, <3>4
  <2>7. CASE r # s \/ u # to
    <3>1. queue'[r][u] = queue[r][u] BY <1>2, <2>7 DEF EventTypes
    <3>2. \A c : c[2] = u => /\ c \in args[r] <=> c \in args'[r]
                             /\ c \in Untold(r) <=> c \in Untold(r)'
      BY <1>2, <1>4, <2>1, <2>4, <2>7
    <3> QED BY <2>2, <3>1, <3>2, KeptElsewhere
  <2> QED BY <2>6, <2>7
<1> QED BY <1>7, <1>9, <1>10 DEF CopyInv

(* A job is run when no job before it uses its copy, or no job behind it.  *)
LEMMA CopyStepRunJob ==
  ASSUME EventTypes, StackInv, CopyInv, ~raced, NEW t \in Threads, RunJob(t)
  PROVE  CopyInv'
<1>1. PICK p \in InProcess, s \in Systems, j \in Job : RunJobOf(t, p, s, j) BY RunJobMoves
<1>2. /\ queue[s][t] # <<>> /\ j = Head(queue[s][t])
      /\ queue' = [queue EXCEPT ![s][t] = Tail(@)]
      /\ UNCHANGED <<systems, bindings, raises, raced>>
  BY <1>1 DEF RunJobOf
<1>3. queue[s][t] \in Seq(Job) /\ queue'[s][t] = Tail(queue[s][t])
      /\ \A r \in Systems, u \in Threads : r # s \/ u # t => queue'[r][u] = queue[r][u]
  BY <1>2 DEF EventTypes
<1>4. Kept(queue[s][t], t, args[s], Untold(s)) BY DEF CopyInv, CopiesKept
<1>5. CASE j.job = "free" /\ args' = [args EXCEPT ![s] = @ \ {j.args}] /\ UNCHANGED stack
  <2>1. \A r \in Systems : args'[r] = IF r = s THEN args[s] \ {j.args} ELSE args[r]
    BY <1>5 DEF EventTypes
  <2>2. \A r \in Systems : \A a \in args'[r] : a \in args[r] BY <2>1
  <2>3. CopiesNumbered' BY <1>2, <2>2 DEF CopyInv, CopiesNumbered
  <2>4. CopiesOk'
    <3> SUFFICES ASSUME NEW v \in Threads, NEW i \in DOMAIN stack[v], stack[v][i].op = "raise"
                 PROVE  CopyOk(v, stack[v][i])'
      BY <1>5 DEF CopiesOk, AtRaise
    <3>1. stack[v][i] \in Activity BY DEF EventTypes
    <3>2. stack[v][i] \in Raise BY <3>1, Kinds
    <3>3. PICK y \in Raise : y = stack[v][i] BY <3>2
    <3>4. CopyOk(v, y) BY <3>3 DEF CopyInv, CopiesOk, AtRaise
    <3>5. CopyOk(v, y)' BY <1>2, <2>2, <3>4, CopyOkKept
    <3> QED BY <1>5, <3>3, <3>5 DEF CopyOk, Fresh, IsAt, Queues, IsRemote
  <2>5. \A r \in Systems : Untold(r)' = Untold(r)
    BY <1>2, <1>5 DEF Untold, AtRaise, IsAt
  <2>6. CopiesKept'
    <3> SUFFICES ASSUME NEW r \in Systems, NEW u \in Threads
                 PROVE  Kept(queue'[r][u], u, args'[r], Untold(r)')
      BY DEF CopiesKept
    <3>1. Kept(queue[r][u], u, args[r], Untold(r)) BY DEF CopyInv, CopiesKept
    <3>2. CASE r = s /\ u = t
      <4>1. Kept(Tail(queue[s][t]), t, args[s] \ {j.args}, Untold(s))
        BY <1>2, <1>3, <1>4, <1>5, KeptRun
      <4> QED BY <1>3, <2>1, <2>5, <3>2, <4>1
    <3>3. CASE r # s \/ u # t
      <4>1. j.args[2] = t
        <5>1. 1 \in DOMAIN queue[s][t] /\ j = queue[s][t][1]
          BY <1>2, <1>3, HeadTailProperties, LenProperties, EmptySeq
        <5> QED BY <1>4, <5>1 DEF Kept
      <4>2. \A a : a[2] = u => (a \in args[r] <=> a \in args'[r])
        BY <2>1, <3>3, <4>1
      <4>3. queue'[r][u] = queue[r][u] BY <1>3, <3>3
      <4> QED BY <2>5, <3>1, <4>2, <4>3, KeptElsewhere
    <3> QED BY <3>2, <3>3
  <2> QED BY <2>3, <2>4, <2>6 DEF CopyInv
<1>6. CASE /\ j.job = "call" /\ Entered(s, j.f, j.id, j.by) \in InCall
           /\ Moves(t, Len(stack[t]), <<Entered(s, j.f, j.id, j.by)>>)
           /\ UNCHANGED args
  <2> DEFINE c == Entered(s, j.f, j.id, j.by)
             q == <<c>>
             k == Len(stack[t])
  <2>1. c \in Activity /\ c.op = "call" BY <1>6 DEF Entered, Activity
  <2>2. Moves(t, k, q) /\ k \in 0 .. Len(stack[t]) BY <1>6, Depths
  <2> HIDE DEF c
  <2>3. q \in Seq(Activity) /\ Len(q) = 1 /\ q[1] = c BY <2>1, SmallSeq
  <2> HIDE DEF q
  <2>4. \A m \in 1 .. Len(q) : q[m].op # "raise" BY <2>1, <2>3
  <2>5. \A i \in DOMAIN stack[t] : ~(i > k)
    <3>1. DOMAIN stack[t] = 1 .. k /\ k \in Nat BY LenProperties DEF EventTypes
    <3> QED BY <3>1
  <2> HIDE DEF k
  <2>6. CopiesNumbered' BY <1>2, <1>6 DEF CopyInv, CopiesNumbered
  <2>7. CopiesOk'
    <3>1. ASSUME NEW v \in Threads, NEW i \in DOMAIN stack[v], AtRaise(v, i)
          PROVE  stack[v][i].id # 0
      <4>1. stack[v][i] \in Activity BY DEF EventTypes
      <4>2. stack[v][i] \in Raise BY <3>1, <4>1, Kinds DEF AtRaise
      <4> QED BY <4>2 DEF Raise, Ids
    <3>2. CopiesOnlyFor(0) BY <1>6 DEF CopiesOnlyFor
    <3>3. IsNoneBelow(t, k, 0) BY <3>1 DEF IsNoneBelow
    <3>4. BegunOk(t, q)' BY <2>4 DEF BegunOk
    <3>5. CopiesOk BY DEF CopyInv
    <3> QED BY <1>2, <2>2, <2>3, <3>2, <3>3, <3>4, <3>5, CopiesMoved
  <2>8. \A r \in Systems : Untold(r)' = Untold(r)
    BY <1>2, <2>2, <2>3, <2>4, <2>5, UntoldSame
  <2>9. CopiesKept'
    <3> SUFFICES ASSUME NEW r \in Systems, NEW u \in Threads
                 PROVE  Kept(queue'[r][u], u, args[r], Untold(r))
      BY <1>6, <2>8 DEF CopiesKept
    <3>1. Kept(queue[r][u], u, args[r], Untold(r)) BY DEF CopyInv, CopiesKept
    <3>2. CASE r = s /\ u = t
      BY <1>2, <1>3, <1>4, <1>6, <3>2, KeptRun
    <3> QED BY <1>3, <3>1, <3>2
  <2> QED BY <2>6, <2>7, <2>9 DEF CopyInv
<1> QED BY <1>1, <1>5, <1>6 DEF RunJobOf

\* What changes when a binding of the event e in the system s is made or ended.
Rebinds(e, s) ==
  /\ lock[e] = Nothing
  /\ \A d \in Events : d # e => systems'[d] = systems[d]
  /\ \A r \in Systems : r # s => bindings'[r] = bindings[r]
  /\ \A i \in DOMAIN bindings'[s] :
       \/ bindings'[s][i].event = e
       \/ \E k \in DOMAIN bindings[s] : bindings[s][k] = bindings'[s][i]
  /\ raced' = \E o \in Threads : Walks(o, s)
  /\ UNCHANGED <<lock, queue, args, stack, raises, calls>>

(* A handler is bound or unbound.                                          *)
LEMMA BindRebinds ==
  ASSUME EventTypes, NEW t \in Threads, NEW f \in Handlers,
         Unbind(t, f) \/ \E e \in Events, s \in Systems, tether \in Tethers : Bind(t, f, e, s, tether)
  PROVE  \E e \in Events, s \in Systems : Rebinds(e, s)
<1>1. ASSUME NEW e \in Events, NEW s \in Systems, NEW tether \in Tethers, Bind(t, f, e, s, tether)
      PROVE  Rebinds(e, s)
  <2> DEFINE b == [f |-> f, event |-> e, tether |-> tether]
  <2>1. /\ lock[e] = Nothing
        /\ bindings' = [bindings EXCEPT ![s] = Append(@, b)]
        /\ \A d \in Events : d # e => systems'[d] = systems[d]
        /\ raced' = \E o \in Threads : Walks(o, s)
        /\ UNCHANGED <<lock, queue, args, stack, raises, calls>>
    BY <1>1 DEF Bind, EventTypes
  <2>2. b \in Binding /\ b.event = e BY DEF Binding
  <2> HIDE DEF b
  <2>3. bindings[s] \in Seq(Binding) /\ bindings'[s] = Append(bindings[s], b)
    BY <2>1 DEF EventTypes
  <2>4. \A i \in DOMAIN bindings'[s] :
          \/ bindings'[s][i].event = e
          \/ \E k \in DOMAIN bindings[s] : bindings[s][k] = bindings'[s][i]
    <3> DEFINE m == Len(bindings[s])
    <3>1. /\ DOMAIN bindings[s] = 1 .. m /\ m \in Nat /\ DOMAIN bindings'[s] = 1 .. m + 1
          /\ \A i \in 1 .. m : bindings'[s][i] = bindings[s][i]
          /\ bindings'[s][m + 1] = b
      BY <2>2, <2>3, Appended
    <3>2. \A i \in 1 .. m + 1 : i = m + 1 \/ i \in 1 .. m BY <3>1
    <3> QED BY <2>2, <3>1, <3>2
  <2>5. \A r \in Systems : r # s => bindings'[r] = bindings[r] BY <2>1 DEF EventTypes
  <2> QED BY <2>1, <2>4, <2>5 DEF Rebinds
<1>2. ASSUME Unbind(t, f) PROVE \E e \in Events, s \in Systems : Rebinds(e, s)
  <2>1. PICK s \in Systems : \E i \in DOMAIN bindings[s] :
           /\ lock[bindings[s][i].event] = Nothing
           /\ bindings' = [bindings EXCEPT ![s] = Without(@, i)]
           /\ raced' = \E o \in Threads : Walks(o, s)
    BY <1>2 DEF Unbind
  <2>2. PICK i \in DOMAIN bindings[s] :
           /\ lock[bindings[s][i].event] = Nothing
           /\ bindings' = [bindings EXCEPT ![s] = Without(@, i)]
           /\ raced' = \E o \in Threads : Walks(o, s)
    BY <2>1
  <2>3. bindings[s] \in Seq(Binding) /\ bindings[s][i] \in Binding BY DEF EventTypes
  <2>4. PICK e \in Events : e = bindings[s][i].event BY <2>3 DEF Binding
  <2>5. UNCHANGED <<systems, lock, queue, args, stack, raises, calls>> BY <1>2 DEF Unbind
  <2>6. bindings'[s] = Without(bindings[s], i)
        /\ \A r \in Systems : r # s => bindings'[r] = bindings[r]
    BY <2>2 DEF EventTypes
  <2>7. \A h \in DOMAIN bindings'[s] : \E k \in DOMAIN bindings[s] : bindings[s][k] = bindings'[s][h]
    <3> DEFINE m == Len(bindings[s])
    <3>1. /\ Without(bindings[s], i) \in Seq(Binding) /\ Len(Without(bindings[s], i)) = m - 1
          /\ \A h \in DOMAIN Without(bindings[s], i) :
               Without(bindings[s], i)[h] = IF h < i THEN bindings[s][h] ELSE bindings[s][h + 1]
      BY <2>3, WithoutProperties
    <3>2. DOMAIN bindings'[s] = 1 .. m - 1 /\ DOMAIN bindings[s] = 1 .. m /\ m \in Nat
      BY <2>3, <2>6, <3>1, LenProperties
    <3>3. \A h \in 1 .. m - 1 : h \in 1 .. m /\ h + 1 \in 1 .. m BY <3>2
    <3> QED BY <2>6, <3>1, <3>2, <3>3
  <2>8. Rebinds(e, s) BY <2>2, <2>4, <2>5, <2>6, <2>7 DEF Rebinds
  <2> QED BY <2>8
<1> QED BY <1>1, <1>2

(* A raise that is past its mutex is not concerned, unless there is a race.*)
LEMMA Unconcerned ==
  ASSUME EventTypes, StackInv, NEW e \in Events, NEW s \in Systems, Rebinds(e, s),
         NEW v \in Threads, NEW i \in DOMAIN stack[v], NEW y \in Raise, y = stack[v][i], y.locked
  PROVE  /\ y.event # e /\ systems'[y.event] = systems[y.event]
         /\ ~raced' => ~IsAt(y, s)
<1>1. AtRaise(v, i) BY DEF AtRaise, Raise
<1>2. lock[y.event] = v BY <1>1 DEF StackInv, Held
<1>3. y.event # e BY <1>2, ReactionAssumption DEF Rebinds
<1>4. IsAt(y, s) => Walks(v, s) BY <1>1 DEF IsAt, Walks, AtRaise
<1> QED BY <1>3, <1>4 DEF Rebinds, Raise

(* Binding and unbinding have no part in copies.                           *)
LEMMA CopyStepRebinds ==
  ASSUME EventTypes, StackInv, CopyInv, ~raced, NEW e \in Events, NEW s \in Systems, Rebinds(e, s)
  PROVE  CopyInv'
<1>1. /\ \A r \in Systems : r # s => bindings'[r] = bindings[r]
      /\ UNCHANGED <<queue, args, stack, raises>>
  BY DEF Rebinds
<1>2. CopiesNumbered' BY <1>1 DEF CopyInv, CopiesNumbered
<1>3. ASSUME NEW v \in Threads, NEW i \in DOMAIN stack[v], stack[v][i].op = "raise"
      PROVE  stack[v][i] \in Raise /\ CopyOk(v, stack[v][i])
  <2>1. stack[v][i] \in Activity BY DEF EventTypes
  <2>2. stack[v][i] \in Raise BY <1>3, <2>1, Kinds
  <2> QED BY <1>3, <2>2 DEF CopyInv, CopiesOk, AtRaise
<1>4. CopiesOk'
  <2> SUFFICES ASSUME NEW v \in Threads, NEW i \in DOMAIN stack[v], stack[v][i].op = "raise"
               PROVE  CopyOk(v, stack[v][i])'
    BY <1>1 DEF CopiesOk, AtRaise
  <2>1. PICK y \in Raise : y = stack[v][i] BY <1>3
  <2>2. CopyOk(v, y) BY <1>3, <2>1
  <2>3. \A r : Fresh(y, r)' <=> Fresh(y, r) BY <1>1 DEF Fresh
  <2>4. CASE ~y.locked
    <3>1. y.told = {} /\ \A r \in Systems : Fresh(y, r) BY <2>2, <2>4 DEF CopyOk
    <3>2. CopyOk(v, y)' BY <2>3, <2>4, <3>1 DEF CopyOk
    <3> QED BY <1>1, <2>1, <3>2 DEF CopyOk, Fresh, IsAt, Queues, IsRemote
  <2>5. CASE y.locked
    <3>1. systems'[y.event] = systems[y.event] /\ (~raced' => ~IsAt(y, s))
      BY <2>1, <2>5, Unconcerned
    <3>2. \A r \in Systems : IsAt(y, r)' <=> IsAt(y, r) BY <3>1 DEF IsAt
    <3>3. \A r \in Systems : r # s => (Queues(v, y, r)' <=> Queues(v, y, r))
      BY <1>1 DEF Queues, IsRemote
    <3>4. y.told # {} => y.n <= Len(systems'[y.event]) BY <2>2, <3>1 DEF CopyOk
    <3>5. \A m \in DOMAIN systems'[y.event] : m > y.n => Fresh(y, systems[y.event][m])'
      BY <2>2, <2>3, <2>5, <3>1 DEF CopyOk, Fresh
    <3>6. ASSUME ~raced', NEW r \in Systems, IsAt(y, r)', Queues(v, y, r)', NEW a \in args'[r],
                 a[1] = y.id
          PROVE  a[2] \in y.told
      <4>1. r # s /\ IsAt(y, r) /\ Queues(v, y, r) BY <3>1, <3>2, <3>3, <3>6
      <4> QED BY <1>1, <2>2, <2>5, <3>6, <4>1 DEF CopyOk
    <3>7. CopyOk(v, y)' BY <2>5, <3>1, <3>4, <3>5, <3>6 DEF CopyOk
    <3> QED BY <1>1, <2>1, <3>7 DEF CopyOk, Fresh, IsAt, Queues, IsRemote
  <2> QED BY <2>4, <2>5
<1>5. \A r \in Systems : Untold(r)' = Untold(r)
  <2> SUFFICES ASSUME NEW v \in Threads, NEW i \in DOMAIN stack[v], AtRaise(v, i),
                      stack[v][i].told # {}
               PROVE  systems'[stack[v][i].event] = systems[stack[v][i].event]
    BY <1>1 DEF Untold, AtRaise, IsAt
  <2>1. PICK y \in Raise : y = stack[v][i] BY <1>3 DEF AtRaise
  <2>2. CopyOk(v, y) BY <1>3, <2>1 DEF AtRaise
  <2>3. y.locked BY <2>1, <2>2 DEF CopyOk
  <2> QED BY <2>1, <2>3, Unconcerned
<1>6. CopiesKept' BY <1>1, <1>5 DEF CopyInv, CopiesKept
<1> QED BY <1>2, <1>4, <1>6 DEF CopyInv

(* Copies live as long as the calls that are queued with them, and each has*)
(* one job that will free it once its raise is over.                       *)
THEOREM CopiesLive == Spec => []CopiesLiveWithTheirCalls
<1>1. Init => CopyInv
  <2> SUFFICES ASSUME Init PROVE CopyInv OBVIOUS
  <2>1. \A s \in Systems : args[s] = {} /\ \A u \in Threads : queue[s][u] = <<>> BY DEF Init
  <2>2. CopiesNumbered BY <2>1 DEF CopiesNumbered
  <2>3. CopiesOk BY DEF Init, CopiesOk, AtRaise
  <2>4. \A s \in Systems : Untold(s) = {} BY DEF Init, Untold, AtRaise
  <2>5. CopiesKept BY <2>1, <2>4 DEF CopiesKept, Kept
  <2> QED BY <2>2, <2>3, <2>5 DEF CopyInv
<1>2. EventTypes /\ BindInv /\ StackInv /\ CopyInv /\ [Next]_vars => CopyInv'
  <2> SUFFICES ASSUME EventTypes, BindInv, StackInv, CopyInv, [Next]_vars PROVE CopyInv' OBVIOUS
  <2>1. CASE UNCHANGED vars
    <3>1. UNCHANGED <<systems, bindings, queue, args, stack, raises, raced>> BY <2>1 DEF vars
    <3>2. CopiesNumbered' BY <3>1 DEF CopyInv, CopiesNumbered
    <3>3. CopiesOk'
      BY <3>1 DEF CopyInv, CopiesOk, AtRaise, CopyOk, Fresh, IsAt, Queues, IsRemote
    <3>4. \A s \in Systems : Untold(s)' = Untold(s) BY <3>1 DEF Untold, AtRaise, IsAt
    <3>5. CopiesKept' BY <3>1, <3>4 DEF CopyInv, CopiesKept, Kept
    <3> QED BY <3>2, <3>3, <3>5 DEF CopyInv
  <2>2. CASE Next
    <3>1. PICK t \in Threads :
            \/ \E f \in Handlers, e \in Events, s \in Systems, tether \in Tethers :
                 Bind(t, f, e, s, tether)
            \/ \E f \in Handlers : Unbind(t, f)
            \/ \E e \in Events : BeginRaise(t, e)
            \/ \E s \in Systems : BeginProcess(t, s)
            \/ Running(t)
      BY <2>2 DEF Next
    <3>2. ~raced BY <2>2 DEF Next
    <3>3. ASSUME NEW f \in Handlers,
                 Unbind(t, f) \/ \E e \in Events, s \in Systems, tether \in Tethers :
                                   Bind(t, f, e, s, tether)
          PROVE  CopyInv'
      <4>1. PICK e \in Events, s \in Systems : Rebinds(e, s) BY <3>3, BindRebinds
      <4> QED BY <3>2, <4>1, CopyStepRebinds
    <3>4. CASE (\E e \in Events : BeginRaise(t, e)) \/ (\E s \in Systems : BeginProcess(t, s)) \/ Running(t)
      BY <3>2, <3>4, CopyStepOthers, CopyStepQueueCall, CopyStepQueueFree, CopyStepRunJob
         DEF Running
    <3> QED BY <3>1, <3>3, <3>4
  <2> QED BY <2>1, <2>2
<1>3. EventTypes /\ CopyInv => CopiesLiveWithTheirCalls
  <2> SUFFICES ASSUME EventTypes, CopyInv PROVE CopiesLiveWithTheirCalls OBVIOUS
  <2>1. ArgumentsOutliveCalls
    <3> SUFFICES ASSUME NEW s \in Systems, NEW t \in Threads, NEW i \in DOMAIN queue[s][t],
                        queue[s][t][i].job = "call"
                 PROVE  /\ queue[s][t][i].args \in args[s]
                        /\ \A j \in 1 .. i - 1 :
                             queue[s][t][j] # [job |-> "free", args |-> queue[s][t][i].args]
      BY DEF ArgumentsOutliveCalls
    <3>1. PICK q : q = queue[s][t] OBVIOUS
    <3>2. Kept(q, t, args[s], Untold(s)) BY <3>1 DEF CopyInv, CopiesKept
    <3>3. PICK a : a = q[i].args OBVIOUS
    <3>4. a \in args[s] /\ a[2] = t BY <3>1, <3>2, <3>3 DEF Kept
    <3>5. DOMAIN q = 1 .. Len(q) /\ Len(q) \in Nat BY <3>1, LenProperties DEF EventTypes
    <3>6. ASSUME NEW j \in 1 .. i - 1, q[j] = [job |-> "free", args |-> a] PROVE FALSE
      <4>1. j \in DOMAIN q /\ j < i /\ i \in Nat /\ j \in Nat BY <3>1, <3>5
      <4>2. q[j].job = "free" /\ q[j].args = a BY <3>6
      <4>3. a \notin Untold(s) BY <3>2, <3>4, <4>1, <4>2 DEF Kept
      <4>4. PICK k \in DOMAIN q :
               /\ q[k].job = "free" /\ q[k].args = a
               /\ \A h \in DOMAIN q : q[h].args = a => h = k \/ (h < k /\ q[h].job = "call")
        BY <3>2, <3>4, <4>3 DEF Kept
      <4>5. j = k BY <4>1, <4>2, <4>4
      <4>6. i < k BY <3>1, <3>3, <4>1, <4>4, <4>5
      <4> QED BY <3>5, <4>1, <4>5, <4>6
    <3> QED BY <3>1, <3>3, <3>4, <3>6
  <2>2. CopiesAreFreed
    <3> SUFFICES ASSUME \A t \in Threads : Idle(t), NEW s \in Systems
                 PROVE  /\ \A a \in args[s] :
                             \E t \in Threads : \E i \in DOMAIN queue[s][t] :
                               \A u \in Threads : \A j \in DOMAIN queue[s][u] :
                                 queue[s][u][j] = [job |-> "free", args |-> a] <=> u = t /\ j = i
                        /\ \A t \in Threads : \A i \in DOMAIN queue[s][t] :
                             queue[s][t][i].args \in args[s]
      BY DEF CopiesAreFreed
    <3>1. Untold(s) = {} BY DEF Untold, AtRaise, Idle
    <3>2. \A u \in Threads : Kept(queue[s][u], u, args[s], {})
      BY <3>1 DEF CopyInv, CopiesKept
    <3>3. ASSUME NEW a \in args[s]
          PROVE  \E t \in Threads : \E i \in DOMAIN queue[s][t] :
                   \A u \in Threads : \A j \in DOMAIN queue[s][u] :
                     queue[s][u][j] = [job |-> "free", args |-> a] <=> u = t /\ j = i
      <4>1. a \in Ids \X Threads BY DEF EventTypes
      <4>2. PICK t \in Threads : a[2] = t BY <4>1
      <4>3. PICK q : q = queue[s][t] OBVIOUS
      <4>4. Kept(q, t, args[s], {}) BY <3>2, <4>3
      <4>5. PICK k \in DOMAIN q :
               /\ q[k].job = "free" /\ q[k].args = a
               /\ \A h \in DOMAIN q : q[h].args = a => h = k \/ (h < k /\ q[h].job = "call")
        BY <4>2, <4>4 DEF Kept
      <4>6. q[k] \in Job BY <4>3 DEF EventTypes
      <4>7. q[k] = [job |-> "free", args |-> a] BY <4>5, <4>6 DEF Job
      <4>8. ASSUME NEW u \in Threads, NEW j \in DOMAIN queue[s][u],
                   queue[s][u][j] = [job |-> "free", args |-> a]
            PROVE  u = t /\ j = k
        <5>1. queue[s][u][j].args = a /\ queue[s][u][j].job = "free" BY <4>8
        <5>2. a[2] = u BY <3>2, <5>1 DEF Kept
        <5>3. u = t BY <4>2, <5>2
        <5> QED BY <4>3, <4>5, <5>1, <5>3
      <4> QED BY <4>3, <4>7, <4>8
    <3>4. \A t \in Threads : \A i \in DOMAIN queue[s][t] : queue[s][t][i].args \in args[s]
      BY <3>2 DEF Kept
    <3> QED BY <3>3, <3>4
  <2> QED BY <2>1, <2>2 DEF CopiesLiveWithTheirCalls
<1> QED BY <1>1, <1>2, <1>3, EventTyping, BindingsSound, StackSound, PTL DEF Spec

-----------------------------------------------------------------------------
(* The order of calls                                                      *)

(* A call that all the others precede is queued.                           *)
LEMMA LineQueued ==
  ASSUME NEW K \in Seq(Made), NEW E \in SUBSET InCall, NEW q \in Seq(Job), NEW s, NEW u,
         InLine(K, E, q, s, u), NEW j \in Job,
         j.job = "call" =>
           /\ \A i \in DOMAIN K : K[i].on = u /\ K[i].system = s => Precedes(K[i], j)
           /\ \A c \in E : Precedes(c, j)
           /\ \A k \in DOMAIN q : q[k].job = "call" => Precedes(q[k], j)
  PROVE  InLine(K, E, Append(q, j), s, u)
<1> DEFINE r == Append(q, j)
           n == Len(q)
<1>1. /\ n \in Nat /\ DOMAIN q = 1 .. n /\ DOMAIN r = 1 .. n + 1
      /\ \A k \in 1 .. n : r[k] = q[k]
      /\ r[n + 1] = j
  BY Appended
<1> HIDE DEF r, n
<1>2. \A k \in DOMAIN r : k = n + 1 \/ (k \in 1 .. n /\ k < n + 1) BY <1>1
<1>3. \A k, l \in DOMAIN r : k < l => k \in 1 .. n BY <1>1
<1>4. \A k, l \in DOMAIN r : k < l /\ r[k].job = "call" /\ r[l].job = "call" => Precedes(r[k], r[l])
  BY <1>1, <1>2, <1>3 DEF InLine
<1>5. \A i \in DOMAIN K, k \in DOMAIN r :
        K[i].on = u /\ K[i].system = s /\ r[k].job = "call" => Precedes(K[i], r[k])
  BY <1>1, <1>2 DEF InLine
<1>6. \A c \in E : \A k \in DOMAIN r : r[k].job = "call" => Precedes(c, r[k])
  BY <1>1, <1>2 DEF InLine
<1> QED BY <1>4, <1>5, <1>6 DEF InLine, r

(* The first job is taken from the queue, and entered if it is a call.     *)
LEMMA LineTaken ==
  ASSUME NEW K \in Seq(Made), NEW q \in Seq(Job), q # <<>>, NEW s, NEW u,
         InLine(K, {}, q, s, u), NEW E,
         \A c \in E : LET j == Head(q)
                      IN  j.job = "call" /\ c.f = j.f /\ c.by = j.by /\ c.id = j.id
  PROVE  InLine(K, E, Tail(q), s, u)
<1> DEFINE r == Tail(q)
           n == Len(q)
<1>1. /\ n \in Nat \ {0} /\ DOMAIN q = 1 .. n /\ DOMAIN r = 1 .. n - 1
      /\ \A k \in 1 .. n - 1 : r[k] = q[k + 1]
      /\ Head(q) = q[1]
  BY HeadTailProperties, LenProperties, EmptySeq
<1> HIDE DEF r, n
<1>2. \A k \in DOMAIN r : k \in Nat /\ k + 1 \in DOMAIN q /\ 1 < k + 1 /\ r[k] = q[k + 1] BY <1>1
<1>3. 1 \in DOMAIN q BY <1>1
<1>4. \A k, l \in DOMAIN r : k < l => k + 1 < l + 1 BY <1>2
<1>5. \A k, l \in DOMAIN r : k < l /\ r[k].job = "call" /\ r[l].job = "call" => Precedes(r[k], r[l])
  BY <1>2, <1>4 DEF InLine
<1>6. \A i \in DOMAIN K, k \in DOMAIN r :
        K[i].on = u /\ K[i].system = s /\ r[k].job = "call" => Precedes(K[i], r[k])
  BY <1>2 DEF InLine
<1>7. ASSUME NEW c \in E
      PROVE  /\ \A i \in DOMAIN K : K[i].on = u /\ K[i].system = s => Precedes(K[i], c)
             /\ \A k \in DOMAIN r : r[k].job = "call" => Precedes(c, r[k])
  <2>1. q[1].job = "call" /\ c.f = q[1].f /\ c.by = q[1].by /\ c.id = q[1].id BY <1>1
  <2>2. \A i \in DOMAIN K : K[i].on = u /\ K[i].system = s => Precedes(K[i], q[1])
    BY <1>3, <2>1 DEF InLine
  <2>3. \A k \in DOMAIN r : r[k].job = "call" => Precedes(q[1], r[k])
    BY <1>2, <1>3, <2>1 DEF InLine
  <2> QED BY <2>1, <2>2, <2>3 DEF Precedes
<1> QED BY <1>5, <1>6, <1>7 DEF InLine, r

(* The call that is entered is made, or another one is made elsewhere.     *)
LEMMA LineMade ==
  ASSUME NEW K \in Seq(Made), NEW E, NEW q \in Seq(Job), NEW s, NEW u,
         InLine(K, E, q, s, u), NEW m \in Made,
         m.on = u /\ m.system = s => \E c \in E : c.f = m.f /\ c.by = m.by /\ c.id = m.id,
         NEW F, F \in SUBSET E, m.on = u /\ m.system = s => F = {}
  PROVE  InLine(Append(K, m), F, q, s, u)
<1> DEFINE L == Append(K, m)
           n == Len(K)
<1>1. /\ n \in Nat /\ DOMAIN K = 1 .. n /\ DOMAIN L = 1 .. n + 1
      /\ \A k \in 1 .. n : L[k] = K[k]
      /\ L[n + 1] = m
  BY Appended
<1> HIDE DEF L, n
<1>2. \A k \in DOMAIN L : k = n + 1 \/ (k \in 1 .. n /\ k < n + 1) BY <1>1
<1>3. \A k, l \in DOMAIN L : k < l => k \in 1 .. n BY <1>1
<1>4. ASSUME m.on = u /\ m.system = s
      PROVE  /\ \A i \in DOMAIN K : K[i].on = u /\ K[i].system = s => Precedes(K[i], m)
             /\ \A k \in DOMAIN q : q[k].job = "call" => Precedes(m, q[k])
  <2>1. PICK c \in E : c.f = m.f /\ c.by = m.by /\ c.id = m.id BY <1>4
  <2>2. /\ \A i \in DOMAIN K : K[i].on = u /\ K[i].system = s => Precedes(K[i], c)
        /\ \A k \in DOMAIN q : q[k].job = "call" => Precedes(c, q[k])
    BY DEF InLine
  <2> QED BY <2>1, <2>2 DEF Precedes
<1>5. \A i, j \in DOMAIN L : /\ i < j /\ L[i].on = u /\ L[i].system = s
                             /\ L[j].on = u /\ L[j].system = s
                             => Precedes(L[i], L[j])
  BY <1>1, <1>2, <1>3, <1>4 DEF InLine
<1>6. \A i \in DOMAIN L, k \in DOMAIN q :
        L[i].on = u /\ L[i].system = s /\ q[k].job = "call" => Precedes(L[i], q[k])
  BY <1>1, <1>2, <1>4 DEF InLine
<1>7. \A k, l \in DOMAIN q : k < l /\ q[k].job = "call" /\ q[l].job = "call" => Precedes(q[k], q[l])
  BY DEF InLine
<1>8. ASSUME NEW c \in F
      PROVE  /\ \A i \in DOMAIN L : L[i].on = u /\ L[i].system = s => Precedes(L[i], c)
             /\ \A k \in DOMAIN q : q[k].job = "call" => Precedes(c, q[k])
  BY <1>1, <1>2, <1>8 DEF InLine
<1> QED BY <1>5, <1>6, <1>7, <1>8 DEF InLine, L

(* A call is entered at once, which those made precede and none queued for *)
(* the thread is by.                                                       *)
LEMMA LineEntered ==
  ASSUME NEW K, NEW E, NEW q, NEW s, NEW u, InLine(K, {}, q, s, u),
         \A c \in E :
           /\ \A i \in DOMAIN K : K[i].on = u /\ K[i].system = s => Precedes(K[i], c)
           /\ \A k \in DOMAIN q : q[k].job = "call" => Precedes(c, q[k])
  PROVE  InLine(K, E, q, s, u)
BY DEF InLine

(* A thread that goes on has entered no call but the one that it begins    *)
(* last.                                                                   *)
LEMMA EnteringMoved ==
  ASSUME EventTypes, StackInv, NEW t \in Threads, NEW k \in 0 .. Len(stack[t]),
         NEW q \in Seq(Activity), Moves(t, k, q), k < Len(stack[t]) \/ Len(q) > 0
  PROVE  /\ \A v \in Threads, s \in Systems : v # t => Entering(v, s)' = Entering(v, s)
         /\ \A s \in Systems : \A c \in Entering(t, s)' :
              /\ Len(q) \in 1 .. Len(q) /\ c = q[Len(q)]
              /\ c.op = "call" /\ c.at = "enter" /\ c.system = s
<1>1. /\ \A u \in Threads : u # t => stack'[u] = stack[u]
      /\ Len(stack'[t]) = k + Len(q)
      /\ DOMAIN stack[t] = 1 .. Len(stack[t])
      /\ DOMAIN stack'[t] = 1 .. k + Len(q)
      /\ \A i \in 1 .. k : stack'[t][i] = stack[t][i]
      /\ \A i \in 1 .. Len(q) : stack'[t][k + i] = q[i]
  <2>1. stack \in [Threads -> Seq(Activity)] BY DEF EventTypes
  <2> QED BY <2>1, Moved
<1>2. k \in Nat /\ Len(q) \in Nat /\ Len(stack[t]) \in Nat BY LenProperties DEF EventTypes
<1>3. \A v \in Threads, s \in Systems : v # t => Entering(v, s)' = Entering(v, s)
  BY <1>1 DEF Entering, Top
<1>4. ASSUME NEW s \in Systems, NEW c \in Entering(t, s)'
      PROVE  Len(q) \in 1 .. Len(q) /\ c = q[Len(q)] /\ c.op = "call" /\ c.at = "enter" /\ c.system = s
  <2>1. /\ c = stack'[t][k + Len(q)] /\ c.op = "call" /\ c.at = "enter" /\ c.system = s
        /\ \E i \in 1 .. k + Len(q) : stack'[t][i] = c
    BY <1>1, <1>4 DEF Entering, Top
  <2>2. CASE Len(q) = 0
    <3>1. k \in 1 .. k /\ k + Len(q) = k /\ k < Len(stack[t]) /\ k \in 1 .. Len(stack[t])
      BY <1>2, <2>1, <2>2
    <3>2. c = stack[t][k] BY <1>1, <2>1, <3>1
    <3> QED BY <1>1, <2>1, <3>1, <3>2 DEF StackInv, Settled
  <2>3. CASE Len(q) # 0
    <3>1. Len(q) \in 1 .. Len(q) BY <1>2, <2>3
    <3> QED BY <1>1, <2>1, <3>1
  <2> QED BY <2>2, <2>3
<1> QED BY <1>3, <1>4

(* A call that a thread has entered is on top of its activities.           *)
LEMMA EnteringTop ==
  ASSUME EventTypes, NEW t \in Threads, NEW s \in Systems
  PROVE  /\ \A x : OnTop(t, x) =>
              Entering(t, s) = IF x.op = "call" /\ x.at = "enter" /\ x.system = s THEN {x} ELSE {}
         /\ stack[t] = <<>> => Entering(t, s) = {}
<1>1. stack[t] = <<>> => Entering(t, s) = {} BY EmptySeq DEF Entering
<1>2. ASSUME NEW x, OnTop(t, x)
      PROVE  Entering(t, s) = IF x.op = "call" /\ x.at = "enter" /\ x.system = s THEN {x} ELSE {}
  <2>1. Len(stack[t]) \in DOMAIN stack[t] /\ x = Top(t) /\ stack[t][Len(stack[t])] = x
    BY <1>2, AtTop DEF OnTop, Top
  <2> QED BY <2>1 DEF Entering
<1> QED BY <1>1, <1>2

\* The raises of the thread v lead to no call that they have not led to before.
IssuesNothing(v) ==
  \A u \in Threads, s \in Systems, f \in Handlers, id \in Ids :
    Issued(v, u, s, f, id)' => Issued(v, u, s, f, id)

\* The raise y owes no more than x did.
OwesNoMore(t, y, x) ==
  \A u \in Threads, s \in Systems, f \in Handlers : Owes(t, y, u, s, f) => Owes(t, x, u, s, f)

(* What a raise owes is told by the systems and their bindings.            *)
LEMMA OwesSame ==
  ASSUME UNCHANGED <<systems, bindings>>, NEW t, NEW x, NEW u, NEW s, NEW f
  PROVE  Owes(t, x, u, s, f)' <=> Owes(t, x, u, s, f)
BY DEF Owes, IsRemote

(* A raise that goes on owes no more.                                      *)
LEMMA OrderOkKept ==
  ASSUME NEW t \in Threads, NEW x, NEW y, OrderOk(t, x), ~raced, y.id = x.id,
         x.locked => y.locked /\ OwesNoMore(t, y, x), IssuesNothing(t),
         UNCHANGED <<systems, bindings>>
  PROVE  OrderOk(t, y)'
<1> SUFFICES ASSUME NEW u \in Threads, NEW s \in Systems, NEW f \in Handlers, NEW id \in Ids,
                    y.locked => Owes(t, y, u, s, f), Issued(t, u, s, f, id)'
             PROVE  id < y.id
  BY OwesSame DEF OrderOk
<1>1. Issued(t, u, s, f, id) BY DEF IssuesNothing
<1>2. x.locked => Owes(t, x, u, s, f) BY DEF OwesNoMore
<1> QED BY <1>1, <1>2 DEF OrderOk

\* A move issues no call that a raise that remains owes.
StaysOk(t, k) ==
  \A v \in Threads : \A j \in DOMAIN stack[v] :
    AtRaise(v, j) /\ (v = t => j <= k) =>
      \A u \in Threads, s \in Systems, f \in Handlers, id \in Ids :
        Issued(v, u, s, f, id)' =>
          Issued(v, u, s, f, id) \/ (stack[v][j].locked /\ ~Owes(v, stack[v][j], u, s, f))

\* The raises that a move begins are in order.
BegunInOrder(t, q) == \A m \in 1 .. Len(q) : q[m].op = "raise" => OrderOk(t, q[m])

(* Then all the raises are in order.                                       *)
LEMMA OrdersMoved ==
  ASSUME EventTypes, OrdersOk, NEW t \in Threads, NEW k \in 0 .. Len(stack[t]),
         NEW q \in Seq(Activity), Moves(t, k, q), ~raced, UNCHANGED <<systems, bindings>>,
         StaysOk(t, k), BegunInOrder(t, q)'
  PROVE  OrdersOk'
<1> SUFFICES ASSUME NEW v \in Threads, NEW j \in DOMAIN stack'[v], stack'[v][j].op = "raise"
             PROVE  OrderOk(v, stack[v][j])'
  BY DEF OrdersOk, AtRaise
<1>1. PICK y : y = stack'[v][j] OBVIOUS
<1>2. CASE j \in DOMAIN stack[v] /\ y = stack[v][j] /\ (v = t => j <= k)
  <2>1. AtRaise(v, j) BY <1>1, <1>2 DEF AtRaise
  <2>2. OrderOk(v, y) BY <1>2, <2>1 DEF OrdersOk
  <2>3. ASSUME NEW u \in Threads, NEW s \in Systems, NEW f \in Handlers, NEW id \in Ids,
               y.locked => Owes(v, y, u, s, f), Issued(v, u, s, f, id)'
        PROVE  id < y.id
    <3>1. Issued(v, u, s, f, id) BY <1>2, <2>1, <2>3 DEF StaysOk
    <3> QED BY <2>2, <2>3, <3>1 DEF OrderOk
  <2>4. OrderOk(v, y)' BY <2>3, OwesSame DEF OrderOk
  <2> QED BY <1>1, <2>4 DEF OrderOk, Owes, IsRemote
<1>3. CASE v = t /\ j - k \in 1 .. Len(q) /\ y = q[j - k]
  <2>1. OrderOk(t, q[j - k])' BY <1>1, <1>3 DEF BegunInOrder
  <2> QED BY <1>1, <1>3, <2>1 DEF OrderOk, Owes, IsRemote
<1> QED BY <1>1, <1>2, <1>3, WasOrBegins

\* The jobs queued are those that were, and none behind them is a call.
NoCallQueued ==
  \A s \in Systems, u \in Threads :
    \/ queue'[s][u] = queue[s][u]
    \/ \E j \in Job : j.job = "free" /\ queue'[s][u] = Append(queue[s][u], j)

(* Moves in which no call is queued or made.                               *)
LEMMA OrderStepQuiet ==
  ASSUME EventTypes, StackInv, OrderInv, NEW t \in Threads, NEW k \in 0 .. Len(stack[t]),
         NEW q \in Seq(Activity), Moves(t, k, q), ~raced,
         k < Len(stack[t]) \/ Len(q) > 0,
         \A m \in 1 .. Len(q) : q[m].op = "call" => q[m].at = "leave",
         UNCHANGED <<systems, bindings, calls>>, NoCallQueued,
         raises' = raises \/ raises' = raises + 1,
         (\A v \in Threads : IssuesNothing(v)) => BegunInOrder(t, q)'
  PROVE  OrderInv'
<1>1. /\ \A v \in Threads, s \in Systems : v # t => Entering(v, s)' = Entering(v, s)
      /\ \A s \in Systems : Entering(t, s)' = {}
  <2>1. \A s \in Systems : \A c \in Entering(t, s)' :
          Len(q) \in 1 .. Len(q) /\ c = q[Len(q)] /\ c.op = "call" /\ c.at = "enter"
    BY EnteringMoved
  <2>2. \A s \in Systems : \A c \in Entering(t, s)' : FALSE BY <2>1
  <2> QED BY <2>2, EnteringMoved
<1>2. \A v \in Threads, s \in Systems : Entering(v, s)' \subseteq Entering(v, s) BY <1>1
<1>3. \A s \in Systems, u \in Threads : \A l \in DOMAIN queue'[s][u] :
        queue'[s][u][l].job = "call" =>
          l \in DOMAIN queue[s][u] /\ queue'[s][u][l] = queue[s][u][l]
  <2> SUFFICES ASSUME NEW s \in Systems, NEW u \in Threads, NEW l \in DOMAIN queue'[s][u],
                      queue'[s][u][l].job = "call", queue'[s][u] # queue[s][u]
               PROVE  l \in DOMAIN queue[s][u] /\ queue'[s][u][l] = queue[s][u][l]
    OBVIOUS
  <2>1. PICK j \in Job : j.job = "free" /\ queue'[s][u] = Append(queue[s][u], j)
    BY DEF NoCallQueued
  <2>2. queue[s][u] \in Seq(Job) BY DEF EventTypes
  <2> DEFINE m == Len(queue[s][u])
  <2>3. /\ m \in Nat /\ DOMAIN queue[s][u] = 1 .. m /\ DOMAIN queue'[s][u] = 1 .. m + 1
        /\ \A i \in 1 .. m : queue'[s][u][i] = queue[s][u][i]
        /\ queue'[s][u][m + 1] = j
    BY <2>1, <2>2, Appended
  <2>4. l # m + 1 BY <2>1, <2>3
  <2> QED BY <2>3, <2>4
<1>4. \A v \in Threads : IssuesNothing(v)
  BY <1>2, <1>3 DEF IssuesNothing, Issued
<1>5. IssuedNumbered'
  <2>1. raises \in Nat BY DEF EventTypes
  <2> QED BY <1>4, <2>1 DEF OrderInv, IssuedNumbered, IssuesNothing, Ids
<1>6. OrdersOk'
  <2>1. StaysOk(t, k) BY <1>4 DEF StaysOk, IssuesNothing
  <2>2. BegunInOrder(t, q)' BY <1>4
  <2> QED BY <2>1, <2>2, OrdersMoved DEF OrderInv
<1>7. LinesInOrder'
  <2> SUFFICES ASSUME NEW s \in Systems, NEW u \in Threads
               PROVE  InLine(calls, Entering(u, s)', queue'[s][u], s, u)
    BY DEF LinesInOrder
  <2>1. InLine(calls, Entering(u, s), queue[s][u], s, u) BY DEF OrderInv, LinesInOrder
  <2>2. InLine(calls, Entering(u, s)', queue[s][u], s, u) BY <1>2, <2>1 DEF InLine
  <2>3. CASE queue'[s][u] = queue[s][u] BY <2>2, <2>3
  <2>4. CASE queue'[s][u] # queue[s][u]
    <3>1. PICK j \in Job : j.job = "free" /\ queue'[s][u] = Append(queue[s][u], j)
      BY <2>4 DEF NoCallQueued
    <3>2. PICK E : E = Entering(u, s)' OBVIOUS
    <3>3. E \in SUBSET InCall
      <4>1. \A c \in Entering(u, s) : c \in Activity /\ c.op = "call" BY DEF Entering, EventTypes
      <4>2. \A c \in Entering(u, s) : c \in InCall BY <4>1, Kinds
      <4> QED BY <1>2, <3>2, <4>2
    <3>4. calls \in Seq(Made) /\ queue[s][u] \in Seq(Job) BY DEF EventTypes
    <3> QED BY <2>2, <3>1, <3>2, <3>3, <3>4, LineQueued
  <2> QED BY <2>3, <2>4
<1>8. QueuedByOthers' BY <1>3 DEF OrderInv, QueuedByOthers
<1> QED BY <1>5, <1>6, <1>7, <1>8 DEF OrderInv

(* A new raise is after all that has been issued.                          *)
LEMMA OrderOkNew ==
  ASSUME EventTypes, OrderInv, NEW t \in Threads, NEW y \in Raise, Starts(y), IssuesNothing(t)
  PROVE  OrderOk(t, y)'
<1> SUFFICES ASSUME NEW u \in Threads, NEW s \in Systems, NEW f \in Handlers, NEW id \in Ids,
                    Issued(t, u, s, f, id)'
             PROVE  id < y.id
  BY DEF OrderOk
<1>1. id <= raises BY DEF IssuesNothing, OrderInv, IssuedNumbered
<1>2. id \in Nat /\ raises \in Nat BY DEF Ids, EventTypes
<1> QED BY <1>1, <1>2 DEF Starts

(* The steps of a thread in which no call is queued or made.               *)
LEMMA OrderStepOthers ==
  ASSUME EventTypes, StackInv, OrderInv, ~raced, NEW t \in Threads,
         \/ Lock(t) \/ QueueFree(t) \/ NextSystem(t) \/ EndRaise(t) \/ Leave(t)
         \/ EndProcess(t) \/ (\E s \in Systems : BeginProcess(t, s)) \/ \E e \in Events : BeginRaise(t, e)
  PROVE  OrderInv'
<1> DEFINE n == Len(stack[t])
<1>1. ASSUME NEW x \in Raise, OnTop(t, x) PROVE OrderOk(t, x)
  <2>1. n \in DOMAIN stack[t] /\ stack[t][n] = x /\ AtRaise(t, n) BY <1>1, AtTop DEF Raise
  <2> QED BY <2>1 DEF OrderInv, OrdersOk
<1>2. UNCHANGED queue => NoCallQueued BY DEF NoCallQueued
<1>3. ASSUME NEW x \in Raise, NEW y \in Raise, OnTop(t, x), Moves(t, n - 1, <<y>>),
             y.id = x.id, x.locked => y.locked /\ OwesNoMore(t, y, x), NoCallQueued,
             UNCHANGED <<systems, bindings, calls, raises>>
      PROVE  OrderInv'
  <2> DEFINE q == <<y>>
             k == n - 1
  <2>1. q \in Seq(Activity) /\ Len(q) = 1 /\ q[1] = y BY SmallSeq DEF Activity
  <2>2. Moves(t, k, q) /\ k \in 0 .. n /\ k < n BY <1>3, AtTop
  <2>3. IssuesNothing(t) => OrderOk(t, y)' BY <1>1, <1>3, OrderOkKept
  <2> HIDE DEF q, k
  <2>4. \A m \in 1 .. Len(q) : q[m].op # "call" BY <2>1 DEF Raise
  <2>5. IssuesNothing(t) => BegunInOrder(t, q)' BY <2>1, <2>3 DEF BegunInOrder
  <2> QED BY <1>3, <2>1, <2>2, <2>4, <2>5, OrderStepQuiet
<1>4. ASSUME NEW k \in 0 .. n, k < n, NEW q \in Seq(Activity), Len(q) = 0, Moves(t, k, q),
             UNCHANGED <<systems, bindings, calls, raises, queue>>
      PROVE  OrderInv'
  <2>1. BegunInOrder(t, q)' BY <1>4 DEF BegunInOrder
  <2>2. \A m \in 1 .. Len(q) : q[m].op # "call" BY <1>4
  <2> QED BY <1>2, <1>4, <2>1, <2>2, OrderStepQuiet
<1>5. ASSUME NEW y \in Activity, stack[t] = <<>>, stack' = [stack EXCEPT ![t] = <<y>>],
             y.op # "call", y.op = "raise" => y \in Raise /\ Starts(y),
             UNCHANGED <<systems, bindings, calls, queue>>,
             raises' = raises \/ raises' = raises + 1
      PROVE  OrderInv'
  <2> DEFINE q == <<y>>
  <2>1. Moves(t, 0, q) BY <1>5, BeginMoves
  <2>2. q \in Seq(Activity) /\ Len(q) = 1 /\ q[1] = y BY <1>5, SmallSeq
  <2> HIDE DEF q
  <2>3. \A m \in 1 .. Len(q) : q[m].op # "call" BY <1>5, <2>2
  <2>4. IssuesNothing(t) => BegunInOrder(t, q)'
    <3>1. IssuesNothing(t) /\ y.op = "raise" => OrderOk(t, y)' BY <1>5, OrderOkNew
    <3> QED BY <2>2, <3>1 DEF BegunInOrder
  <2> QED BY <1>2, <1>5, <2>1, <2>2, <2>3, <2>4, Depths, OrderStepQuiet
<1>6. CASE Lock(t)
  <2>1. PICK x \in Raise : LockOf(t, x) BY <1>6, LockMoves
  <2> DEFINE y == [x EXCEPT !.locked = TRUE]
  <2>2. y \in Raise /\ y.id = x.id BY DEF Raise
  <2>3. /\ OnTop(t, x) /\ ~x.locked /\ Moves(t, n - 1, <<y>>)
        /\ UNCHANGED <<systems, bindings, calls, raises, queue>>
    BY <2>1 DEF LockOf
  <2> HIDE DEF y
  <2> QED BY <1>2, <1>3, <2>2, <2>3
<1>7. CASE QueueFree(t)
  <2>1. PICK x \in Raise, s \in Systems, to \in Threads : QueueFreeOf(t, x, s, to)
    BY <1>7, QueueFreeMoves
  <2> DEFINE y == [x EXCEPT !.told = @ \ {to}]
             j == [job |-> "free", args |-> <<x.id, to>>]
  <2>2. /\ y \in Raise /\ y.id = x.id /\ y.event = x.event /\ y.n = x.n
        /\ y.locked = x.locked /\ y.queued = x.queued /\ y.called = x.called
    <3>1. x.told \ {to} \in SUBSET Threads BY DEF Raise
    <3> QED BY <3>1 DEF Raise
  <2>3. j \in Job /\ j.job = "free" BY DEF Job, Raise
  <2>4. /\ OnTop(t, x) /\ Moves(t, n - 1, <<y>>)
        /\ queue' = [queue EXCEPT ![s][to] = Append(@, j)]
        /\ UNCHANGED <<systems, bindings, calls, raises>>
    BY <2>1 DEF QueueFreeOf
  <2> HIDE DEF y, j
  <2>5. NoCallQueued BY <2>3, <2>4 DEF NoCallQueued, EventTypes
  <2>6. OwesNoMore(t, y, x) BY <2>2 DEF OwesNoMore, Owes
  <2> QED BY <1>3, <2>2, <2>4, <2>5, <2>6
<1>8. CASE NextSystem(t)
  <2>1. PICK x \in Raise : NextSystemOf(t, x) BY <1>8, NextSystemMoves
  <2> DEFINE y == [x EXCEPT !.n = @ + 1, !.queued = 0, !.called = 0]
  <2>2. x.n + 1 \in Ids /\ x.n \in Nat BY DEF Raise, Ids
  <2>3. /\ y \in Raise /\ y.id = x.id /\ y.event = x.event /\ y.n = x.n + 1
        /\ y.locked = x.locked
    BY <2>2 DEF Raise
  <2>4. /\ OnTop(t, x) /\ Moves(t, n - 1, <<y>>)
        /\ UNCHANGED <<systems, bindings, calls, raises, queue>>
    BY <2>1 DEF NextSystemOf
  <2> HIDE DEF y
  <2>5. DOMAIN systems[x.event] \subseteq Nat
    <3>1. systems[x.event] \in Seq(Systems) BY DEF EventTypes, Raise
    <3> QED BY <3>1
  <2>6. \A m \in DOMAIN systems[x.event] : y.n <= m => x.n <= m /\ m # x.n BY <2>2, <2>3, <2>5
  <2>7. OwesNoMore(t, y, x) BY <2>3, <2>6 DEF OwesNoMore, Owes
  <2> QED BY <1>2, <1>3, <2>3, <2>4, <2>7
<1>9. ASSUME NEW x, OnTop(t, x), Moves(t, n - 1, <<>>),
             UNCHANGED <<systems, bindings, calls, raises, queue>>
      PROVE  OrderInv'
  <2> DEFINE q == <<>>
  <2>1. q \in Seq(Activity) /\ Len(q) = 0 /\ Moves(t, n - 1, q) BY <1>9, EmptySeq
  <2>2. n - 1 \in 0 .. n /\ n - 1 < n BY <1>9, AtTop
  <2> HIDE DEF q
  <2> QED BY <1>4, <1>9, <2>1, <2>2
<1>10. CASE EndRaise(t)
  <2>1. PICK x \in Raise : EndRaiseOf(t, x) BY <1>10, EndRaiseMoves
  <2> QED BY <1>9, <2>1 DEF EndRaiseOf
<1>11. CASE Leave(t)
  <2>1. PICK c \in InCall : LeaveOf(t, c) BY <1>11, LeaveMoves
  <2> QED BY <1>9, <2>1 DEF LeaveOf
<1>12. CASE EndProcess(t)
  <2>1. PICK p \in InProcess : EndProcessOf(t, p) BY <1>12, EndProcessMoves
  <2> DEFINE q == <<>>
  <2>2. q \in Seq(Activity) /\ Len(q) = 0 /\ Moves(t, 0, q) BY <2>1, EmptySeq DEF EndProcessOf
  <2>3. 0 \in 0 .. n /\ 0 < n BY <2>1, AtTop DEF EndProcessOf
  <2>4. UNCHANGED <<systems, bindings, calls, raises, queue>> BY <2>1 DEF EndProcessOf
  <2> HIDE DEF q
  <2> QED BY <1>4, <2>2, <2>3, <2>4
<1>13. CASE \E s \in Systems : BeginProcess(t, s)
  <2>1. PICK s \in Systems : stack' = [stack EXCEPT ![t] = <<[op |-> "process", system |-> s]>>]
    BY <1>13 DEF BeginProcess
  <2> DEFINE y == [op |-> "process", system |-> s]
  <2>2. y \in Activity /\ y.op = "process" BY DEF Activity, InProcess
  <2>3. stack[t] = <<>> /\ UNCHANGED <<systems, bindings, calls, raises, queue>>
    BY <1>13 DEF BeginProcess, Idle
  <2> HIDE DEF y
  <2>4. stack' = [stack EXCEPT ![t] = <<y>>] BY <2>1 DEF y
  <2> QED BY <1>5, <2>2, <2>3, <2>4
<1>14. ASSUME NEW e \in Events, BeginRaise(t, e) PROVE OrderInv'
  <2>1. /\ stack[t] = <<>> /\ stack' = [stack EXCEPT ![t] = <<NewRaise(e)>>]
        /\ raises' = raises + 1 /\ UNCHANGED <<systems, bindings, calls, queue>>
    BY <1>14 DEF BeginRaise, Idle
  <2>2. NewRaise(e) \in Raise /\ Starts(NewRaise(e)) BY <2>1, NewRaiseType DEF NewRaise, Starts
  <2>3. PICK y \in Raise : y = NewRaise(e) BY <2>2
  <2>4. y \in Activity /\ y.op # "call" BY DEF Activity, Raise
  <2> QED BY <1>5, <2>1, <2>2, <2>3, <2>4
<1> QED BY <1>6, <1>7, <1>8, <1>10, <1>11, <1>12, <1>13, <1>14

(* No raise below owes a call to a handler that is bound to the event of   *)
(* the innermost.                                                          *)
LEMMA OwedByOne ==
  ASSUME EventTypes, BindInv, StackInv, NEW t \in Threads, NEW x \in Raise, OnTop(t, x), x.locked,
         NEW s \in Systems, NEW i \in DOMAIN bindings[s], bindings[s][i].event = x.event,
         NEW j \in DOMAIN stack[t], j <= Len(stack[t]) - 1, AtRaise(t, j), NEW u
  PROVE  stack[t][j].locked /\ ~Owes(t, stack[t][j], u, s, bindings[s][i].f)
<1> DEFINE n == Len(stack[t])
           z == stack[t][j]
<1>1. n \in DOMAIN stack[t] /\ stack[t][n] = x /\ AtRaise(t, n) /\ n \in Nat BY AtTop DEF Raise
<1>2. j \in Nat BY LenProperties DEF EventTypes
<1>3. j < n /\ j # n BY <1>1, <1>2
<1>4. z.locked BY <1>3 DEF StackInv, Settled, AtRaise
<1>5. z.event # x.event BY <1>1, <1>3, <1>4 DEF StackInv, Apart
<1> HIDE DEF z
<1>6. ~Owes(t, z, u, s, bindings[s][i].f) BY <1>5 DEF Owes, BindInv, BoundOnce
<1> QED BY <1>4, <1>6 DEF z

(* A raise does not owe the call that it has just queued or made.          *)
LEMMA OwedOnce ==
  ASSUME EventTypes, BindInv, NEW t \in Threads, NEW y \in Raise,
         NEW s \in Systems, IsAt(y, s), NEW i \in DOMAIN bindings[s],
         IF IsRemote(t, bindings[s][i]) THEN y.queued = i ELSE y.called = i, NEW u
  PROVE  ~Owes(t, y, u, s, bindings[s][i].f)
<1> SUFFICES ASSUME Owes(t, y, u, s, bindings[s][i].f) PROVE FALSE OBVIOUS
<1>1. PICK m \in DOMAIN systems[y.event] : \E k \in DOMAIN bindings[s] :
        LET b == bindings[s][k]
        IN  /\ y.n <= m /\ systems[y.event][m] = s
            /\ b.f = bindings[s][i].f
            /\ m = y.n => k > IF IsRemote(t, b) THEN y.queued ELSE y.called
  BY DEF Owes
<1>2. m = y.n
  <2>1. y.n \in DOMAIN systems[y.event] BY LenProperties DEF EventTypes, Raise, Ids, IsAt
  <2> QED BY <1>1, <2>1 DEF BindInv, AddedOnce, IsAt, Raise
<1>3. i > IF IsRemote(t, bindings[s][i]) THEN y.queued ELSE y.called
  BY <1>1, <1>2 DEF BindInv, BoundOnce
<1>4. i \in Nat
  <2>1. bindings[s] \in Seq(Binding) BY DEF EventTypes
  <2> QED BY <2>1
<1> QED BY <1>3, <1>4

(* A raise calls the handler of a binding that it has come to.             *)
LEMMA OwesNext ==
  ASSUME EventTypes, NEW t \in Threads, NEW x \in Raise, NEW s \in Systems, IsAt(x, s),
         NEW i \in DOMAIN bindings[s], bindings[s][i].event = x.event,
         i > IF IsRemote(t, bindings[s][i]) THEN x.queued ELSE x.called
  PROVE  Owes(t, x, IF IsRemote(t, bindings[s][i]) THEN bindings[s][i].tether ELSE t, s,
              bindings[s][i].f)
<1>1. x.n \in DOMAIN systems[x.event] /\ x.n <= x.n
  BY LenProperties DEF EventTypes, Raise, Ids, IsAt
<1> QED BY <1>1 DEF Owes, IsAt

(* What has been issued precedes a call with a greater number.             *)
LEMMA IssuedPrecedes ==
  ASSUME EventTypes, NEW t \in Threads, NEW u \in Threads, NEW s \in Systems, NEW f \in Handlers,
         NEW a, a.f = f, a.by = t, \A id \in Ids : Issued(t, u, s, f, id) => id < a.id
  PROVE  /\ \A i \in DOMAIN calls :
              calls[i].on = u /\ calls[i].system = s => Precedes(calls[i], a)
         /\ \A c \in Entering(u, s) : Precedes(c, a)
         /\ \A k \in DOMAIN queue[s][u] :
              queue[s][u][k].job = "call" => Precedes(queue[s][u][k], a)
<1>1. ASSUME NEW i \in DOMAIN calls, calls[i].on = u, calls[i].system = s,
             calls[i].f = f, calls[i].by = t
      PROVE  calls[i].id < a.id
  <2>1. calls[i] \in Made BY DEF EventTypes
  <2>2. calls[i].id \in Ids BY <2>1 DEF Made
  <2>3. calls[i] = [f |-> f, id |-> calls[i].id, by |-> t, on |-> u, system |-> s]
    BY <1>1, <2>1 DEF Made
  <2>4. PICK d \in Ids : d = calls[i].id BY <2>2
  <2>5. Issued(t, u, s, f, d) BY <2>3, <2>4 DEF Issued
  <2> QED BY <2>4, <2>5
<1>2. ASSUME NEW c \in Entering(u, s), c.f = f, c.by = t PROVE c.id < a.id
  <2>1. c \in Activity /\ c.op = "call" BY DEF Entering, EventTypes
  <2>2. c.id \in Ids BY <2>1, Kinds DEF InCall
  <2> QED BY <1>2, <2>2 DEF Issued
<1>3. ASSUME NEW k \in DOMAIN queue[s][u], queue[s][u][k].job = "call",
             queue[s][u][k].f = f, queue[s][u][k].by = t
      PROVE  queue[s][u][k].id < a.id
  <2>1. queue[s][u][k] \in Job BY DEF EventTypes
  <2>2. queue[s][u][k].id \in Ids BY <1>3, <2>1 DEF Job
  <2> QED BY <1>3, <2>2 DEF Issued
<1> QED BY <1>1, <1>2, <1>3 DEF Precedes

\* The raise of t that has the number id leads to a call of f by u through s.
IssuesOne(t, u, s, f, id) ==
  \A v, w \in Threads, r \in Systems, g \in Handlers, d \in Ids :
    Issued(v, w, r, g, d)' =>
      Issued(v, w, r, g, d) \/ (v = t /\ w = u /\ r = s /\ g = f /\ d = id)

(* It is one that this raise owes, and no other.                           *)
LEMMA OrderOfOne ==
  ASSUME EventTypes, BindInv, StackInv, OrderInv, ~raced, NEW t \in Threads, NEW x \in Raise,
         OnTop(t, x), x.locked, NEW y \in Raise, y.locked, y.id = x.id, OwesNoMore(t, y, x),
         NEW s \in Systems, IsAt(y, s), NEW i \in DOMAIN bindings[s],
         bindings[s][i].event = x.event, NEW u \in Threads,
         IF IsRemote(t, bindings[s][i]) THEN y.queued = i ELSE y.called = i,
         IssuesOne(t, u, s, bindings[s][i].f, x.id),
         NEW q \in Seq(Activity), Moves(t, Len(stack[t]) - 1, q),
         \A m \in 1 .. Len(q) : q[m].op = "raise" => q[m] = y,
         UNCHANGED <<systems, bindings, raises>>
  PROVE  IssuedNumbered' /\ OrdersOk'
<1> DEFINE n == Len(stack[t])
           g == bindings[s][i].f
           k == n - 1
<1>1. /\ OrderOk(t, x) /\ x.id <= raises /\ k \in 0 .. n
  <2>1. n \in DOMAIN stack[t] /\ stack[t][n] = x /\ AtRaise(t, n) /\ k \in 0 .. n
    BY AtTop DEF Raise
  <2> QED BY <2>1 DEF OrderInv, OrdersOk, StackInv, Numbered
<1>2. IssuedNumbered' BY <1>1 DEF OrderInv, IssuedNumbered, IssuesOne
<1>3. StaysOk(t, k)
  <2> SUFFICES ASSUME NEW v \in Threads, NEW j \in DOMAIN stack[v], AtRaise(v, j), v = t => j <= k,
                      NEW w \in Threads, NEW r \in Systems, NEW h \in Handlers, NEW d \in Ids,
                      Issued(v, w, r, h, d)', ~Issued(v, w, r, h, d)
               PROVE  stack[v][j].locked /\ ~Owes(v, stack[v][j], w, r, h)
    BY DEF StaysOk
  <2>1. v = t /\ w = u /\ r = s /\ h = g BY DEF IssuesOne
  <2> QED BY <2>1, OwedByOne
<1>4. OrderOk(t, y)'
  <2> SUFFICES ASSUME NEW w \in Threads, NEW r \in Systems, NEW h \in Handlers, NEW d \in Ids,
                      Owes(t, y, w, r, h), Issued(t, w, r, h, d)'
               PROVE  d < y.id
    BY OwesSame DEF OrderOk
  <2>1. Owes(t, x, w, r, h) BY DEF OwesNoMore
  <2>2. CASE Issued(t, w, r, h, d) BY <1>1, <2>1, <2>2 DEF OrderOk
  <2>3. CASE ~Issued(t, w, r, h, d)
    <3>1. w = u /\ r = s /\ h = g BY <2>3 DEF IssuesOne
    <3> QED BY <3>1, OwedOnce
  <2> QED BY <2>2, <2>3
<1>5. BegunInOrder(t, q)'
  <2> SUFFICES ASSUME NEW m \in 1 .. Len(q), q[m].op = "raise" PROVE OrderOk(t, q[m])'
    BY DEF BegunInOrder
  <2>1. q[m] = y OBVIOUS
  <2> QED BY <1>4, <2>1 DEF OrderOk, Owes, IsRemote
<1> HIDE DEF k
<1>6. OrdersOk' BY <1>1, <1>3, <1>5, OrdersMoved DEF OrderInv, k
<1> QED BY <1>2, <1>6

(* A call is queued behind those of the raises before.                     *)
LEMMA OrderStepQueueCall ==
  ASSUME EventTypes, BindInv, StackInv, OrderInv, ~raced, NEW t \in Threads, QueueCall(t)
  PROVE  OrderInv'
<1> DEFINE n == Len(stack[t])
<1>1. PICK x \in Raise, s \in Systems, i \in Nat, b \in Binding : QueueCallOf(t, x, s, i, b)
  BY QueueCallMoves
<1> DEFINE to == b.tether
           a == <<x.id, to>>
           j == [job |-> "call", f |-> b.f, id |-> x.id, by |-> t, args |-> a]
           y == [x EXCEPT !.queued = i, !.told = @ \cup {to}]
           q == <<y>>
<1>2. /\ OnTop(t, x) /\ x.locked /\ IsAt(x, s) /\ i \in DOMAIN bindings[s] /\ b = bindings[s][i]
      /\ b.event = x.event /\ IsRemote(t, b) /\ to \in Threads /\ x.queued < i
      /\ queue' = [queue EXCEPT ![s][to] = Append(@, j)]
      /\ Moves(t, n - 1, q)
      /\ UNCHANGED <<systems, bindings, raises, calls>>
  BY <1>1 DEF QueueCallOf
<1>3. /\ y \in Raise /\ y.id = x.id /\ y.event = x.event /\ y.n = x.n /\ y.locked
      /\ y.queued = i /\ y.called = x.called /\ b.f \in Handlers
  <2>1. x.told \cup {to} \in SUBSET Threads BY <1>2 DEF Raise
  <2> QED BY <1>2, <2>1 DEF Raise, Binding
<1>4. a \in Ids \X Threads BY <1>2 DEF Raise
<1>5. j \in Job /\ j.job = "call" /\ j.f = b.f /\ j.by = t /\ j.id = x.id
  BY <1>4 DEF Job, Binding, Raise
<1>6. q \in Seq(Activity) /\ Len(q) = 1 /\ q[1] = y BY <1>3, SmallSeq DEF Activity
<1> HIDE DEF y, j, a, q
<1>7. n - 1 \in 0 .. n /\ n - 1 < n BY <1>2, AtTop
<1>8. \A v \in Threads, r \in Systems : Entering(v, r)' = Entering(v, r)
  <2>1. \A r \in Systems : Entering(t, r) = {} BY <1>2, EnteringTop DEF Raise
  <2>2. \A r \in Systems : Entering(t, r)' = {}
    <3> SUFFICES ASSUME NEW r \in Systems, NEW c \in Entering(t, r)' PROVE FALSE OBVIOUS
    <3>1. c = q[Len(q)] /\ c.op = "call" BY <1>2, <1>6, <1>7, EnteringMoved
    <3> QED BY <1>3, <1>6, <3>1 DEF Raise
  <2>3. \A v \in Threads, r \in Systems : v # t => Entering(v, r)' = Entering(v, r)
    BY <1>2, <1>6, <1>7, EnteringMoved
  <2> QED BY <2>1, <2>2, <2>3
<1>9. /\ queue[s][to] \in Seq(Job) /\ queue'[s][to] = Append(queue[s][to], j)
      /\ \A r \in Systems, u \in Threads : r # s \/ u # to => queue'[r][u] = queue[r][u]
  BY <1>2 DEF EventTypes
<1>10. \A k \in DOMAIN queue'[s][to] :
         \/ k \in DOMAIN queue[s][to] /\ queue'[s][to][k] = queue[s][to][k]
         \/ queue'[s][to][k] = j
  <2> DEFINE m == Len(queue[s][to])
  <2>1. /\ m \in Nat /\ DOMAIN queue[s][to] = 1 .. m /\ DOMAIN queue'[s][to] = 1 .. m + 1
        /\ \A h \in 1 .. m : queue'[s][to][h] = queue[s][to][h]
        /\ queue'[s][to][m + 1] = j
    BY <1>5, <1>9, Appended
  <2>2. \A k \in 1 .. m + 1 : k = m + 1 \/ k \in 1 .. m BY <2>1
  <2> QED BY <2>1, <2>2
<1>11. IssuesOne(t, to, s, b.f, x.id)
  <2> SUFFICES ASSUME NEW v \in Threads, NEW w \in Threads, NEW r \in Systems, NEW g \in Handlers,
                      NEW d \in Ids, Issued(v, w, r, g, d)', ~Issued(v, w, r, g, d)
               PROVE  v = t /\ w = to /\ r = s /\ g = b.f /\ d = x.id
    BY DEF IssuesOne
  <2>1. PICK k \in DOMAIN queue'[r][w] :
          /\ queue'[r][w][k].job = "call"
          /\ queue'[r][w][k].f = g /\ queue'[r][w][k].by = v /\ queue'[r][w][k].id = d
    BY <1>2, <1>8 DEF Issued
  <2>2. r = s /\ w = to BY <1>9, <2>1 DEF Issued
  <2>3. queue'[s][to][k] = j BY <1>10, <2>1, <2>2 DEF Issued
  <2> QED BY <1>5, <2>1, <2>2, <2>3
<1>12. IssuedNumbered' /\ OrdersOk'
  <2>1. IsAt(y, s) BY <1>2, <1>3 DEF IsAt
  <2>2. OwesNoMore(t, y, x)
    <3>1. x.queued \in Nat /\ DOMAIN bindings[s] \subseteq Nat BY LenProperties DEF Raise, EventTypes
    <3>2. \A r \in Systems : DOMAIN bindings[r] \subseteq Nat BY LenProperties DEF EventTypes
    <3>3. \A r \in Systems : \A k \in DOMAIN bindings[r] : k > i => k > x.queued
      BY <1>2, <3>1, <3>2
    <3> QED BY <1>3, <3>3 DEF OwesNoMore, Owes
  <2>3. \A m \in 1 .. Len(q) : q[m].op = "raise" => q[m] = y BY <1>6
  <2> QED BY <1>2, <1>3, <1>6, <1>11, <2>1, <2>2, <2>3, OrderOfOne
<1>13. \A id \in Ids : Issued(t, to, s, b.f, id) => id < x.id
  <2>1. OrderOk(t, x)
    <3>1. n \in DOMAIN stack[t] /\ stack[t][n] = x /\ AtRaise(t, n) BY <1>2, AtTop DEF Raise
    <3> QED BY <3>1 DEF OrderInv, OrdersOk
  <2>2. Owes(t, x, to, s, b.f)
    <3>1. i > x.queued BY <1>2 DEF Raise
    <3> QED BY <1>2, <3>1, OwesNext
  <2> QED BY <1>2, <1>3, <2>1, <2>2 DEF OrderOk
<1>14. LinesInOrder'
  <2> SUFFICES ASSUME NEW r \in Systems, NEW u \in Threads
               PROVE  InLine(calls, Entering(u, r), queue'[r][u], r, u)
    BY <1>2, <1>8 DEF LinesInOrder
  <2>1. InLine(calls, Entering(u, r), queue[r][u], r, u) BY DEF OrderInv, LinesInOrder
  <2>2. CASE r = s /\ u = to
    <3>1. /\ \A h \in DOMAIN calls : calls[h].on = u /\ calls[h].system = r => Precedes(calls[h], j)
          /\ \A c \in Entering(u, r) : Precedes(c, j)
          /\ \A k \in DOMAIN queue[r][u] :
               queue[r][u][k].job = "call" => Precedes(queue[r][u][k], j)
      <4>1. j.f = b.f /\ j.by = t /\ b.f \in Handlers BY <1>3, <1>5
      <4>2. \A id \in Ids : Issued(t, u, r, b.f, id) => id < j.id BY <1>5, <1>13, <2>2
      <4> QED BY <4>1, <4>2, IssuedPrecedes
    <3>2. Entering(u, r) \in SUBSET InCall
      <4>1. \A c \in Entering(u, r) : c \in Activity /\ c.op = "call" BY DEF Entering, EventTypes
      <4> QED BY <4>1, Kinds
    <3>3. calls \in Seq(Made) /\ queue[r][u] \in Seq(Job) BY DEF EventTypes
    <3>4. InLine(calls, Entering(u, r), Append(queue[r][u], j), r, u)
      BY <1>5, <2>1, <3>1, <3>2, <3>3, LineQueued
    <3> QED BY <1>9, <2>2, <3>4
  <2>3. CASE r # s \/ u # to BY <1>9, <2>1, <2>3
  <2> QED BY <2>2, <2>3
<1>15. QueuedByOthers'
  <2> SUFFICES ASSUME NEW r \in Systems, NEW u \in Threads, NEW k \in DOMAIN queue'[r][u],
                      queue'[r][u][k].job = "call"
               PROVE  queue'[r][u][k].by # u
    BY DEF QueuedByOthers
  <2>1. CASE r # s \/ u # to BY <1>9, <2>1 DEF OrderInv, QueuedByOthers
  <2>2. CASE r = s /\ u = to
    <3>1. t # to BY <1>2 DEF IsRemote
    <3> QED BY <1>5, <1>10, <2>2, <3>1 DEF OrderInv, QueuedByOthers
  <2> QED BY <2>1, <2>2
<1> QED BY <1>12, <1>14, <1>15 DEF OrderInv

(* A call is made at once after those of the raises before.                *)
LEMMA OrderStepCallNow ==
  ASSUME EventTypes, BindInv, StackInv, OrderInv, ~raced, NEW t \in Threads, CallNow(t)
  PROVE  OrderInv'
<1> DEFINE n == Len(stack[t])
<1>1. PICK x \in Raise, s \in Systems, i \in Nat, b \in Binding : CallNowOf(t, x, s, i, b)
  BY CallNowMoves
<1> DEFINE y == [x EXCEPT !.called = i]
           c == Entered(s, b.f, x.id, t)
           q == <<y, c>>
<1>2. /\ OnTop(t, x) /\ x.locked /\ IsAt(x, s) /\ i \in DOMAIN bindings[s] /\ b = bindings[s][i]
      /\ b.event = x.event /\ ~IsRemote(t, b) /\ x.called < i
      /\ Moves(t, n - 1, q)
      /\ UNCHANGED <<systems, bindings, queue, raises, calls>>
  BY <1>1 DEF CallNowOf
<1>3. /\ y \in Raise /\ y.id = x.id /\ y.event = x.event /\ y.n = x.n /\ y.locked
      /\ y.called = i /\ y.queued = x.queued /\ b.f \in Handlers
  BY <1>2 DEF Raise, Binding
<1>4. /\ c \in InCall /\ c.op = "call" /\ c.system = s /\ c.f = b.f /\ c.id = x.id /\ c.by = t
  BY DEF Entered, InCall, Binding, Raise
<1> HIDE DEF y, c
<1>5. q \in Seq(Activity) /\ Len(q) = 2 /\ q[1] = y /\ q[2] = c
  BY <1>3, <1>4, SmallSeq DEF Activity
<1> HIDE DEF q
<1>6. n - 1 \in 0 .. n /\ n - 1 < n BY <1>2, AtTop
<1>7. /\ \A v \in Threads, r \in Systems : v # t => Entering(v, r)' = Entering(v, r)
      /\ \A r \in Systems : Entering(t, r) = {}
      /\ \A r \in Systems : \A d \in Entering(t, r)' : d = c /\ r = s
  <2>1. \A r \in Systems : Entering(t, r) = {} BY <1>2, EnteringTop DEF Raise
  <2>2. \A r \in Systems : \A d \in Entering(t, r)' : d = q[Len(q)] /\ d.system = r
    BY <1>2, <1>5, <1>6, EnteringMoved
  <2>3. \A v \in Threads, r \in Systems : v # t => Entering(v, r)' = Entering(v, r)
    BY <1>2, <1>5, <1>6, EnteringMoved
  <2> QED BY <1>4, <1>5, <2>1, <2>2, <2>3
<1>8. IssuesOne(t, t, s, b.f, x.id)
  <2> SUFFICES ASSUME NEW v \in Threads, NEW w \in Threads, NEW r \in Systems, NEW g \in Handlers,
                      NEW d \in Ids, Issued(v, w, r, g, d)', ~Issued(v, w, r, g, d)
               PROVE  v = t /\ w = t /\ r = s /\ g = b.f /\ d = x.id
    BY DEF IssuesOne
  <2>1. PICK e \in Entering(w, r)' : e.f = g /\ e.by = v /\ e.id = d BY <1>2 DEF Issued
  <2>2. w = t BY <1>7, <2>1 DEF Issued
  <2> QED BY <1>4, <1>7, <2>1, <2>2
<1>9. IssuedNumbered' /\ OrdersOk'
  <2>1. IsAt(y, s) BY <1>2, <1>3 DEF IsAt
  <2>2. OwesNoMore(t, y, x)
    <3>1. x.called \in Nat BY DEF Raise
    <3>2. \A r \in Systems : DOMAIN bindings[r] \subseteq Nat BY LenProperties DEF EventTypes
    <3>3. \A r \in Systems : \A k \in DOMAIN bindings[r] : k > i => k > x.called
      BY <1>2, <3>1, <3>2
    <3> QED BY <1>3, <3>3 DEF OwesNoMore, Owes
  <2>3. \A m \in 1 .. 2 : m = 1 \/ m = 2 OBVIOUS
  <2>4. \A m \in 1 .. Len(q) : q[m].op = "raise" => q[m] = y BY <1>4, <1>5, <2>3
  <2> QED BY <1>2, <1>3, <1>5, <1>8, <2>1, <2>2, <2>4, OrderOfOne
<1>10. \A id \in Ids : Issued(t, t, s, b.f, id) => id < x.id
  <2>1. OrderOk(t, x)
    <3>1. n \in DOMAIN stack[t] /\ stack[t][n] = x /\ AtRaise(t, n) BY <1>2, AtTop DEF Raise
    <3> QED BY <3>1 DEF OrderInv, OrdersOk
  <2>2. Owes(t, x, t, s, b.f)
    <3>1. i > x.called BY <1>2 DEF Raise
    <3> QED BY <1>2, <3>1, OwesNext
  <2> QED BY <1>2, <1>3, <2>1, <2>2 DEF OrderOk
<1>11. LinesInOrder'
  <2> SUFFICES ASSUME NEW r \in Systems, NEW u \in Threads
               PROVE  InLine(calls, Entering(u, r)', queue[r][u], r, u)
    BY <1>2 DEF LinesInOrder
  <2>1. InLine(calls, Entering(u, r), queue[r][u], r, u) BY DEF OrderInv, LinesInOrder
  <2>2. CASE u # t BY <1>7, <2>1, <2>2
  <2>3. CASE u = t
    <3>1. InLine(calls, {}, queue[r][u], r, u) BY <1>7, <2>1, <2>3
    <3>2. ASSUME NEW d \in Entering(u, r)'
          PROVE  /\ \A h \in DOMAIN calls :
                      calls[h].on = u /\ calls[h].system = r => Precedes(calls[h], d)
                 /\ \A k \in DOMAIN queue[r][u] :
                      queue[r][u][k].job = "call" => Precedes(d, queue[r][u][k])
      <4>1. d = c /\ r = s BY <1>7, <2>3, <3>2
      <4>2. \A h \in DOMAIN calls : calls[h].on = t /\ calls[h].system = s => Precedes(calls[h], c)
        BY <1>3, <1>4, <1>10, IssuedPrecedes
      <4>3. \A k \in DOMAIN queue[r][u] : queue[r][u][k].job = "call" => queue[r][u][k].by # t
        BY <2>3 DEF OrderInv, QueuedByOthers
      <4> QED BY <1>4, <2>3, <4>1, <4>2, <4>3 DEF Precedes
    <3>3. PICK E : E = Entering(u, r)' OBVIOUS
    <3>4. InLine(calls, E, queue[r][u], r, u) BY <3>1, <3>2, <3>3, LineEntered
    <3> QED BY <3>3, <3>4
  <2> QED BY <2>2, <2>3
<1>12. QueuedByOthers' BY <1>2 DEF OrderInv, QueuedByOthers
<1> QED BY <1>9, <1>11, <1>12 DEF OrderInv

(* The call that a thread has entered is made.                             *)
LEMMA OrderStepEnter ==
  ASSUME EventTypes, StackInv, OrderInv, ~raced, NEW t \in Threads, Enter(t)
  PROVE  OrderInv'
<1> DEFINE n == Len(stack[t])
<1>1. PICK c \in InCall : EnterOf(t, c) BY EnterMoves
<1> DEFINE left == [c EXCEPT !.at = "leave"]
           made == [f |-> c.f, id |-> c.id, by |-> c.by, on |-> t, system |-> c.system]
<1>2. /\ OnTop(t, c) /\ c.at = "enter" /\ calls' = Append(calls, made)
      /\ \/ Moves(t, n - 1, <<left>>) /\ UNCHANGED raises
         \/ \E e \in Events : Moves(t, n - 1, <<left, NewRaise(e)>>) /\ raises' = raises + 1
      /\ UNCHANGED <<systems, bindings, queue>>
  BY <1>1 DEF EnterOf
<1>3. left \in InCall /\ left.op = "call" /\ left.at = "leave" /\ left \in Activity
  BY DEF InCall, Activity
<1>4. /\ made \in Made /\ made.f = c.f /\ made.id = c.id /\ made.by = c.by /\ made.on = t
      /\ made.system = c.system /\ c.op = "call"
  BY DEF Made, InCall
<1> HIDE DEF left
<1>5. ASSUME NEW q \in Seq(Activity), Moves(t, n - 1, q), Len(q) > 0,
             \A m \in 1 .. Len(q) : q[m] = left \/ (q[m] \in Raise /\ Starts(q[m])),
             raises' = raises \/ raises' = raises + 1
      PROVE  OrderInv'
  <2>1. n - 1 \in 0 .. n BY <1>2, AtTop
  <2>2. /\ \A v \in Threads, r \in Systems : v # t => Entering(v, r)' = Entering(v, r)
        /\ \A r \in Systems : Entering(t, r) = IF c.system = r THEN {c} ELSE {}
        /\ \A r \in Systems : Entering(t, r)' = {}
    <3>1. \A r \in Systems : Entering(t, r) = IF c.system = r THEN {c} ELSE {}
      BY <1>2, <1>4, EnteringTop
    <3> PICK k \in 0 .. Len(stack[t]) : k = n - 1 BY <2>1
    <3>5. /\ \A v \in Threads, r \in Systems : v # t => Entering(v, r)' = Entering(v, r)
          /\ \A r \in Systems : \A d \in Entering(t, r)' :
               /\ Len(q) \in 1 .. Len(q) /\ d = q[Len(q)]
               /\ d.op = "call" /\ d.at = "enter" /\ d.system = r
      <4>1. Moves(t, k, q) /\ Len(q) > 0 BY <1>5
      <4> QED BY ONLY EventTypes, StackInv, t \in Threads, k \in 0 .. Len(stack[t]),
                      q \in Seq(Activity), <4>1, EnteringMoved
    <3>2. \A r \in Systems : \A d \in Entering(t, r)' :
            Len(q) \in 1 .. Len(q) /\ d = q[Len(q)] /\ d.op = "call" /\ d.at = "enter"
      BY <3>5
    <3>3. \A v \in Threads, r \in Systems : v # t => Entering(v, r)' = Entering(v, r)
      BY <3>5
    <3>4. \A r \in Systems : \A d \in Entering(t, r)' : FALSE
      BY <1>3, <1>5, <3>2 DEF Raise
    <3> QED BY <3>1, <3>3, <3>4
  <2>3. \A i \in DOMAIN calls' : (i \in DOMAIN calls /\ calls'[i] = calls[i]) \/ calls'[i] = made
    <3> DEFINE m == Len(calls)
    <3>1. /\ m \in Nat /\ DOMAIN calls = 1 .. m /\ DOMAIN calls' = 1 .. m + 1
          /\ \A h \in 1 .. m : calls'[h] = calls[h]
          /\ calls'[m + 1] = made
      <4>1. calls \in Seq(Made) BY DEF EventTypes
      <4> HIDE DEF made
      <4> QED BY <1>2, <1>4, <4>1, Appended
    <3>2. \A k \in 1 .. m + 1 : k = m + 1 \/ k \in 1 .. m BY <3>1
    <3> QED BY <3>1, <3>2
  <2>4. \A v \in Threads : IssuesNothing(v)
    <3> SUFFICES ASSUME NEW v \in Threads, NEW u \in Threads, NEW s \in Systems,
                        NEW f \in Handlers, NEW id \in Ids, Issued(v, u, s, f, id)'
                 PROVE  Issued(v, u, s, f, id)
      BY DEF IssuesNothing
    <3>1. CASE \E d \in Entering(u, s)' : d.f = f /\ d.by = v /\ d.id = id
      BY <2>2, <3>1 DEF Issued
    <3>2. CASE \E k \in DOMAIN queue'[s][u] :
                 /\ queue'[s][u][k].job = "call"
                 /\ queue'[s][u][k].f = f /\ queue'[s][u][k].by = v /\ queue'[s][u][k].id = id
      BY <1>2, <3>2 DEF Issued
    <3>3. ASSUME NEW i \in DOMAIN calls',
                 calls'[i] = [f |-> f, id |-> id, by |-> v, on |-> u, system |-> s]
          PROVE  Issued(v, u, s, f, id)
      <4>1. CASE i \in DOMAIN calls /\ calls'[i] = calls[i] BY <3>3, <4>1 DEF Issued
      <4>2. CASE calls'[i] = made
        <5>1. c.f = f /\ c.id = id /\ c.by = v /\ t = u /\ c.system = s BY <3>3, <4>2
        <5> QED BY <2>2, <5>1 DEF Issued
      <4> QED BY <2>3, <4>1, <4>2
    <3> QED BY <3>1, <3>2, <3>3 DEF Issued
  <2>5. IssuedNumbered'
    <3>1. raises \in Nat BY DEF EventTypes
    <3> QED BY <1>5, <2>4, <3>1 DEF OrderInv, IssuedNumbered, IssuesNothing, Ids
  <2>6. OrdersOk'
    <3>1. StaysOk(t, n - 1) BY <2>4 DEF StaysOk, IssuesNothing
    <3>2. BegunInOrder(t, q)'
      <4> SUFFICES ASSUME NEW m \in 1 .. Len(q), q[m].op = "raise" PROVE OrderOk(t, q[m])'
        BY DEF BegunInOrder
      <4>1. q[m] \in Raise /\ Starts(q[m]) BY <1>3, <1>5
      <4>2. PICK y \in Raise : y = q[m] /\ Starts(y) BY <4>1
      <4>3. OrderOk(t, y)' BY <2>4, <4>2, OrderOkNew
      <4> QED BY <4>2, <4>3 DEF OrderOk, Owes, IsRemote
    <3> QED BY <1>2, <1>5, <2>1, <3>1, <3>2, OrdersMoved DEF OrderInv
  <2>7. LinesInOrder'
    <3> SUFFICES ASSUME NEW s \in Systems, NEW u \in Threads
                 PROVE  InLine(Append(calls, made), Entering(u, s)', queue[s][u], s, u)
      BY <1>2 DEF LinesInOrder
    <3> HIDE DEF made
    <3>1. PICK F : F = Entering(u, s)' OBVIOUS
    <3>2. PICK E : E = Entering(u, s) OBVIOUS
    <3>3. F \in SUBSET E BY <2>2, <3>1, <3>2
    <3>4. made.on = u /\ made.system = s =>
            F = {} /\ \E d \in E : d.f = made.f /\ d.by = made.by /\ d.id = made.id
      BY <1>4, <2>2, <3>1, <3>2
    <3>5. InLine(calls, E, queue[s][u], s, u) BY <3>2 DEF OrderInv, LinesInOrder
    <3>6. calls \in Seq(Made) /\ queue[s][u] \in Seq(Job) BY DEF EventTypes
    <3>7. InLine(Append(calls, made), F, queue[s][u], s, u)
      BY <1>4, <3>3, <3>4, <3>5, <3>6, LineMade
    <3> QED BY <3>1, <3>7
  <2>8. QueuedByOthers' BY <1>2 DEF OrderInv, QueuedByOthers
  <2> QED BY <2>5, <2>6, <2>7, <2>8 DEF OrderInv
<1>6. CASE Moves(t, n - 1, <<left>>) /\ UNCHANGED raises
  <2> DEFINE q == <<left>>
  <2>1. q \in Seq(Activity) /\ Len(q) = 1 /\ q[1] = left /\ Moves(t, n - 1, q)
    BY <1>3, <1>6, SmallSeq
  <2> HIDE DEF q
  <2>2. Len(q) > 0 /\ \A m \in 1 .. Len(q) : q[m] = left \/ (q[m] \in Raise /\ Starts(q[m]))
    BY <2>1
  <2>3. raises' = raises BY <1>6
  <2> QED BY <1>5, <2>1, <2>2, <2>3
<1>7. ASSUME NEW e \in Events, Moves(t, n - 1, <<left, NewRaise(e)>>), raises' = raises + 1
      PROVE  OrderInv'
  <2>1. NewRaise(e) \in Raise /\ Starts(NewRaise(e)) BY <1>7, NewRaiseType DEF NewRaise, Starts
  <2>2. PICK y \in Raise : y = NewRaise(e) BY <2>1
  <2> DEFINE q == <<left, y>>
  <2>3. /\ q \in Seq(Activity) /\ Len(q) = 2 /\ q[1] = left /\ q[2] = y
        /\ Moves(t, n - 1, q)
    BY <1>3, <1>7, <2>2, SmallSeq DEF Activity
  <2> HIDE DEF q
  <2>4. \A m \in 1 .. 2 : m = 1 \/ m = 2 OBVIOUS
  <2>5. Len(q) > 0 /\ \A m \in 1 .. Len(q) : q[m] = left \/ (q[m] \in Raise /\ Starts(q[m]))
    BY <2>1, <2>2, <2>3, <2>4
  <2> QED BY <1>5, <1>7, <2>3, <2>5
<1> QED BY <1>2, <1>6, <1>7

(* The first job is taken, and entered if it is a call.                    *)
LEMMA OrderStepRunJob ==
  ASSUME EventTypes, StackInv, OrderInv, ~raced, NEW t \in Threads, RunJob(t)
  PROVE  OrderInv'
<1> DEFINE n == Len(stack[t])
<1>1. PICK p \in InProcess, s \in Systems, j \in Job : RunJobOf(t, p, s, j) BY RunJobMoves
<1> DEFINE c == Entered(s, j.f, j.id, j.by)
<1>2. /\ OnTop(t, p) /\ queue[s][t] # <<>> /\ j = Head(queue[s][t])
      /\ queue' = [queue EXCEPT ![s][t] = Tail(@)]
      /\ \/ j.job = "free" /\ UNCHANGED stack
         \/ j.job = "call" /\ c \in InCall /\ Moves(t, n, <<c>>)
      /\ UNCHANGED <<systems, bindings, raises, calls>>
  BY <1>1 DEF RunJobOf
<1>3. /\ queue[s][t] \in Seq(Job) /\ queue'[s][t] = Tail(queue[s][t])
      /\ \A r \in Systems, u \in Threads : r # s \/ u # t => queue'[r][u] = queue[r][u]
  BY <1>2 DEF EventTypes
<1>4. /\ \A k \in DOMAIN queue'[s][t] : \E h \in DOMAIN queue[s][t] : queue'[s][t][k] = queue[s][t][h]
      /\ 1 \in DOMAIN queue[s][t] /\ j = queue[s][t][1]
  <2>1. PICK q \in Seq(Job) : q = queue[s][t] /\ q # <<>> BY <1>2, <1>3
  <2> DEFINE m == Len(q)
             r == Tail(q)
  <2>2. /\ m \in Nat \ {0} /\ DOMAIN q = 1 .. m /\ DOMAIN r = 1 .. m - 1
        /\ \A k \in 1 .. m - 1 : r[k] = q[k + 1]
        /\ Head(q) = q[1]
    BY <2>1, HeadTailProperties, LenProperties, EmptySeq
  <2>3. queue'[s][t] = r /\ j = Head(q) BY <1>2, <1>3, <2>1
  <2> HIDE DEF r, m
  <2>4. \A k \in DOMAIN r : k + 1 \in DOMAIN q /\ r[k] = q[k + 1] BY <2>2
  <2>5. 1 \in DOMAIN q BY <2>2
  <2> QED BY <2>1, <2>2, <2>3, <2>4, <2>5
<1>5. /\ c.op = "call" /\ c.at = "enter" /\ c.system = s /\ c.f = j.f /\ c.id = j.id /\ c.by = j.by
  BY DEF Entered
<1> HIDE DEF c
<1>6. \A r \in Systems : Entering(t, r) = {} BY <1>2, EnteringTop DEF InProcess
<1>7. /\ \A v \in Threads, r \in Systems : v # t => Entering(v, r)' = Entering(v, r)
      /\ \A r \in Systems : \A d \in Entering(t, r)' : d = c /\ r = s /\ j.job = "call"
  <2>1. CASE j.job = "free" /\ UNCHANGED stack
    BY <1>6, <2>1 DEF Entering, Top
  <2>2. CASE j.job = "call" /\ c \in InCall /\ Moves(t, n, <<c>>)
    <3> DEFINE q == <<c>>
    <3>1. q \in Seq(Activity) /\ Len(q) = 1 /\ q[1] = c /\ Moves(t, n, q)
      BY <2>2, SmallSeq DEF Activity
    <3> HIDE DEF q
    <3>2. n \in 0 .. n /\ Len(q) > 0 BY <3>1, Depths
    <3>3. \A r \in Systems : \A d \in Entering(t, r)' : d = c /\ d.system = r
      <4>1. PICK k \in 0 .. Len(stack[t]) : k = n BY <3>2
      <4>2. Moves(t, k, q) /\ (k < Len(stack[t]) \/ Len(q) > 0) BY <3>1, <3>2, <4>1
      <4> HIDE DEF n
      <4>3. q \in Seq(Activity) BY <3>1
      <4>4. /\ \A v \in Threads, r \in Systems : v # t => Entering(v, r)' = Entering(v, r)
            /\ \A r \in Systems : \A d \in Entering(t, r)' :
                 /\ Len(q) \in 1 .. Len(q) /\ d = q[Len(q)]
                 /\ d.op = "call" /\ d.at = "enter" /\ d.system = r
        BY <4>2, <4>3, EnteringMoved
      <4>5. \A r \in Systems : \A d \in Entering(t, r)' : d = q[Len(q)] /\ d.system = r
        BY <4>4
      <4> QED BY <3>1, <4>5
    <3>4. \A v \in Threads, r \in Systems : v # t => Entering(v, r)' = Entering(v, r)
      BY <3>1, <3>2, EnteringMoved
    <3> QED BY <1>5, <2>2, <3>1, <3>3, <3>4
  <2> QED BY <1>2, <2>1, <2>2
<1>8. \A v \in Threads : IssuesNothing(v)
  <2> SUFFICES ASSUME NEW v \in Threads, NEW u \in Threads, NEW r \in Systems,
                      NEW f \in Handlers, NEW id \in Ids, Issued(v, u, r, f, id)'
               PROVE  Issued(v, u, r, f, id)
    BY DEF IssuesNothing
  <2>1. CASE \E i \in DOMAIN calls' :
               calls'[i] = [f |-> f, id |-> id, by |-> v, on |-> u, system |-> r]
    BY <1>2, <2>1 DEF Issued
  <2>2. ASSUME NEW d \in Entering(u, r)', d.f = f, d.by = v, d.id = id
        PROVE  Issued(v, u, r, f, id)
    <3>1. CASE u # t BY <1>7, <2>2, <3>1 DEF Issued
    <3>2. CASE u = t
      <4>1. r = s /\ j.job = "call" /\ j.f = f /\ j.by = v /\ j.id = id BY <1>5, <1>7, <2>2, <3>2
      <4> QED BY <1>4, <3>2, <4>1 DEF Issued
    <3> QED BY <3>1, <3>2
  <2>3. ASSUME NEW k \in DOMAIN queue'[r][u], queue'[r][u][k].job = "call",
               queue'[r][u][k].f = f, queue'[r][u][k].by = v, queue'[r][u][k].id = id
        PROVE  Issued(v, u, r, f, id)
    <3>1. CASE r # s \/ u # t BY <1>3, <2>3, <3>1 DEF Issued
    <3>2. CASE r = s /\ u = t
      <4>1. PICK h \in DOMAIN queue[s][t] : queue'[s][t][k] = queue[s][t][h] BY <1>4, <2>3, <3>2
      <4> QED BY <2>3, <3>2, <4>1 DEF Issued
    <3> QED BY <3>1, <3>2
  <2> QED BY <2>1, <2>2, <2>3 DEF Issued
<1>9. IssuedNumbered' BY <1>2, <1>8 DEF OrderInv, IssuedNumbered, IssuesNothing
<1>10. OrdersOk'
  <2>1. ASSUME NEW q \in Seq(Activity), Moves(t, n, q), \A m \in 1 .. Len(q) : q[m].op # "raise"
        PROVE  OrdersOk'
    <3>1. BegunInOrder(t, q)' BY <2>1 DEF BegunInOrder
    <3>2. StaysOk(t, n) BY <1>8 DEF StaysOk, IssuesNothing
    <3>3. n \in 0 .. n BY Depths
    <3> QED BY <1>2, <2>1, <3>1, <3>2, <3>3, OrdersMoved DEF OrderInv
  <2>2. CASE j.job = "free" /\ UNCHANGED stack
    <3> DEFINE q == <<>>
    <3>1. SubSeq(stack[t], 1, n) \o q = stack[t]
      <4>1. stack[t] \in Seq(Activity) BY DEF EventTypes
      <4>2. SubSeq(stack[t], 1, n) = stack[t] BY <4>1, SubSeqFull
      <4> QED BY <4>1, <4>2, ConcatEmptySeq
    <3>2. stack' = [stack EXCEPT ![t] = stack[t]] BY <2>2 DEF EventTypes
    <3>3. Moves(t, n, q) BY <3>1, <3>2 DEF Moves
    <3>4. q \in Seq(Activity) /\ \A m \in 1 .. Len(q) : q[m].op # "raise" BY EmptySeq
    <3> HIDE DEF q
    <3> QED BY <2>1, <3>3, <3>4
  <2>3. CASE j.job = "call" /\ c \in InCall /\ Moves(t, n, <<c>>)
    <3> DEFINE q == <<c>>
    <3>1. q \in Seq(Activity) /\ Len(q) = 1 /\ q[1] = c /\ Moves(t, n, q)
      BY <2>3, SmallSeq DEF Activity
    <3> HIDE DEF q
    <3>2. \A m \in 1 .. Len(q) : q[m].op # "raise" BY <1>5, <3>1
    <3> QED BY <2>1, <3>1, <3>2
  <2> QED BY <1>2, <2>2, <2>3
<1>11. LinesInOrder'
  <2> SUFFICES ASSUME NEW r \in Systems, NEW u \in Threads
               PROVE  InLine(calls, Entering(u, r)', queue'[r][u], r, u)
    BY <1>2 DEF LinesInOrder
  <2>1. InLine(calls, Entering(u, r), queue[r][u], r, u) BY DEF OrderInv, LinesInOrder
  <2>2. CASE u # t BY <1>3, <1>7, <2>1, <2>2
  <2>3. CASE u = t /\ r # s
    <3>1. Entering(u, r)' = {} BY <1>7, <2>3
    <3> QED BY <1>3, <1>6, <2>1, <2>3, <3>1
  <2>4. CASE u = t /\ r = s
    <3>1. PICK E : E = Entering(u, r)' OBVIOUS
    <3>2. \A d \in E : LET i == Head(queue[s][t])
                       IN  i.job = "call" /\ d.f = i.f /\ d.by = i.by /\ d.id = i.id
      BY <1>2, <1>5, <1>7, <2>4, <3>1
    <3>3. InLine(calls, {}, queue[s][t], s, t) BY <1>6, <2>1, <2>4
    <3>4. calls \in Seq(Made) BY DEF EventTypes
    <3>5. InLine(calls, E, Tail(queue[s][t]), s, t) BY <1>2, <1>3, <3>2, <3>3, <3>4, LineTaken
    <3> QED BY <1>3, <2>4, <3>1, <3>5
  <2> QED BY <2>2, <2>3, <2>4
<1>12. QueuedByOthers'
  <2> SUFFICES ASSUME NEW r \in Systems, NEW u \in Threads, NEW k \in DOMAIN queue'[r][u],
                      queue'[r][u][k].job = "call"
               PROVE  queue'[r][u][k].by # u
    BY DEF QueuedByOthers
  <2>1. CASE r # s \/ u # t BY <1>3, <2>1 DEF OrderInv, QueuedByOthers
  <2>2. CASE r = s /\ u = t
    <3>1. PICK h \in DOMAIN queue[s][t] : queue'[s][t][k] = queue[s][t][h] BY <1>4, <2>2
    <3> QED BY <2>2, <3>1 DEF OrderInv, QueuedByOthers
  <2> QED BY <2>1, <2>2
<1> QED BY <1>9, <1>10, <1>11, <1>12 DEF OrderInv

(* Nobody binds or unbinds a handler of the event of a raise under way.    *)
LEMMA OrderStepRebinds ==
  ASSUME EventTypes, StackInv, OrderInv, ~raced, NEW e \in Events, NEW s \in Systems, Rebinds(e, s)
  PROVE  OrderInv'
<1>1. /\ \A r \in Systems : r # s => bindings'[r] = bindings[r]
      /\ UNCHANGED <<queue, stack, raises, calls>>
  BY DEF Rebinds
<1>2. \A t, u \in Threads, r \in Systems, f \in Handlers, id \in Ids :
        Issued(t, u, r, f, id)' <=> Issued(t, u, r, f, id)
  BY <1>1 DEF Issued, Entering, Top
<1>3. IssuedNumbered' BY <1>1, <1>2 DEF OrderInv, IssuedNumbered
<1>4. LinesInOrder' BY <1>1 DEF OrderInv, LinesInOrder, Entering, Top
<1>5. QueuedByOthers' BY <1>1 DEF OrderInv, QueuedByOthers
<1>6. OrdersOk'
  <2> SUFFICES ASSUME NEW t \in Threads, NEW i \in DOMAIN stack[t], stack[t][i].op = "raise"
               PROVE  OrderOk(t, stack[t][i])'
    BY <1>1 DEF OrdersOk, AtRaise
  <2>1. stack[t][i] \in Activity BY DEF EventTypes
  <2>2. stack[t][i] \in Raise BY <2>1, Kinds
  <2>3. PICK y \in Raise : y = stack[t][i] BY <2>2
  <2>4. OrderOk(t, y) BY <2>3 DEF OrderInv, OrdersOk, AtRaise
  <2>5. ASSUME y.locked, ~raced', NEW u \in Threads, NEW r \in Systems, NEW f \in Handlers,
               Owes(t, y, u, r, f)'
        PROVE  Owes(t, y, u, r, f)
    <3>1. y.event # e /\ systems'[y.event] = systems[y.event] /\ ~IsAt(y, s)
      BY <2>3, <2>5, Unconcerned
    <3>2. PICK m \in DOMAIN systems[y.event] : \E k \in DOMAIN bindings'[r] :
            LET b == bindings'[r][k]
            IN  /\ y.n <= m /\ systems[y.event][m] = r
                /\ b.f = f /\ b.event = y.event /\ u = IF IsRemote(t, b) THEN b.tether ELSE t
                /\ m = y.n => k > IF IsRemote(t, b) THEN y.queued ELSE y.called
      BY <2>5, <3>1 DEF Owes, IsRemote
    <3>3. CASE r # s BY <1>1, <3>2, <3>3 DEF Owes
    <3>4. CASE r = s
      <4>1. m # y.n
        <5>1. m <= Len(systems[y.event]) BY LenProperties DEF EventTypes, Raise
        <5> QED BY <3>1, <3>2, <3>4, <5>1 DEF IsAt
      <4>2. PICK k \in DOMAIN bindings'[s] :
              /\ bindings'[s][k].f = f /\ bindings'[s][k].event = y.event
              /\ u = IF IsRemote(t, bindings'[s][k]) THEN bindings'[s][k].tether ELSE t
        BY <3>2, <3>4
      <4>3. PICK h \in DOMAIN bindings[s] : bindings[s][h] = bindings'[s][k]
        BY <3>1, <4>2 DEF Rebinds
      <4> QED BY <3>2, <3>4, <4>1, <4>2, <4>3 DEF Owes
    <3> QED BY <3>3, <3>4
  <2>6. OrderOk(t, y)' BY <1>2, <2>4, <2>5 DEF OrderOk
  <2> QED BY <1>1, <2>3, <2>6 DEF OrderOk, Owes, IsRemote
<1> QED BY <1>3, <1>4, <1>5, <1>6 DEF OrderInv

(* Through one system a thread calls a handler once for a raise, and for   *)
(* the raises of another thread in the order they were made.               *)
THEOREM CallsInOrder == Spec => []CallsFollowRaises
<1>1. Init => OrderInv
  <2> SUFFICES ASSUME Init PROVE OrderInv OBVIOUS
  <2>1. calls = <<>> /\ (\A u \in Threads : stack[u] = <<>>)
        /\ \A s \in Systems, u \in Threads : queue[s][u] = <<>>
    BY DEF Init
  <2>2. \A u \in Threads, s \in Systems : Entering(u, s) = {} BY <2>1 DEF Entering
  <2>3. \A t, u \in Threads, s \in Systems, f \in Handlers, id \in Ids : ~Issued(t, u, s, f, id)
    BY <2>1, <2>2 DEF Issued
  <2>4. IssuedNumbered BY <2>3 DEF IssuedNumbered
  <2>5. OrdersOk BY <2>1 DEF OrdersOk, AtRaise
  <2>6. LinesInOrder BY <2>1, <2>2 DEF LinesInOrder, InLine
  <2>7. QueuedByOthers BY <2>1 DEF QueuedByOthers
  <2> QED BY <2>4, <2>5, <2>6, <2>7 DEF OrderInv
<1>2. EventTypes /\ BindInv /\ StackInv /\ OrderInv /\ [Next]_vars => OrderInv'
  <2> SUFFICES ASSUME EventTypes, BindInv, StackInv, OrderInv, [Next]_vars PROVE OrderInv' OBVIOUS
  <2>1. CASE UNCHANGED vars
    <3>1. UNCHANGED <<lock, systems, bindings, queue, stack, raises, calls, raced>>
      BY <2>1 DEF vars
    <3>2. \A t, u \in Threads, s \in Systems, f \in Handlers, id \in Ids :
            Issued(t, u, s, f, id)' <=> Issued(t, u, s, f, id)
      BY <3>1 DEF Issued, Entering, Top
    <3>3. IssuedNumbered' BY <3>1, <3>2 DEF OrderInv, IssuedNumbered
    <3>4. OrdersOk' BY <3>1, <3>2 DEF OrderInv, OrdersOk, AtRaise, OrderOk, Owes, IsRemote
    <3>5. \A s \in Systems, u \in Threads : Entering(u, s)' = Entering(u, s)
      BY <3>1 DEF Entering, Top
    <3>6. LinesInOrder' BY <3>1, <3>5 DEF OrderInv, LinesInOrder, InLine
    <3>7. QueuedByOthers' BY <3>1 DEF OrderInv, QueuedByOthers
    <3> QED BY <3>3, <3>4, <3>6, <3>7 DEF OrderInv
  <2>2. CASE Next
    <3>1. PICK t \in Threads :
            \/ \E f \in Handlers, e \in Events, s \in Systems, tether \in Tethers :
                 Bind(t, f, e, s, tether)
            \/ \E f \in Handlers : Unbind(t, f)
            \/ \E e \in Events : BeginRaise(t, e)
            \/ \E s \in Systems : BeginProcess(t, s)
            \/ Running(t)
      BY <2>2 DEF Next
    <3>2. ~raced BY <2>2 DEF Next
    <3>3. ASSUME NEW f \in Handlers,
                 Unbind(t, f) \/ \E e \in Events, s \in Systems, tether \in Tethers :
                                   Bind(t, f, e, s, tether)
          PROVE  OrderInv'
      <4>1. PICK e \in Events, s \in Systems : Rebinds(e, s) BY <3>3, BindRebinds
      <4> QED BY <3>2, <4>1, OrderStepRebinds
    <3>4. CASE (\E e \in Events : BeginRaise(t, e)) \/ (\E s \in Systems : BeginProcess(t, s)) \/ Running(t)
      BY <3>2, <3>4, OrderStepOthers, OrderStepQueueCall, OrderStepCallNow, OrderStepEnter,
         OrderStepRunJob DEF Running
    <3> QED BY <3>1, <3>3, <3>4
  <2> QED BY <2>1, <2>2
<1>3. EventTypes /\ OrderInv => CallsFollowRaises
  <2> SUFFICES ASSUME EventTypes, OrderInv, NEW i \in DOMAIN calls, NEW j \in DOMAIN calls,
                      i < j, calls[i].f = calls[j].f, calls[i].by = calls[j].by,
                      calls[i].on = calls[j].on, calls[i].system = calls[j].system
               PROVE  calls[i].id < calls[j].id
    BY DEF CallsFollowRaises
  <2>1. calls[i] \in Made BY DEF EventTypes
  <2>2. PICK u \in Threads, s \in Systems : u = calls[i].on /\ s = calls[i].system
    BY <2>1 DEF Made
  <2>3. InLine(calls, Entering(u, s), queue[s][u], s, u) BY DEF OrderInv, LinesInOrder
  <2>4. Precedes(calls[i], calls[j]) BY <2>2, <2>3 DEF InLine
  <2> QED BY <2>4 DEF Precedes
<1> QED BY <1>1, <1>2, <1>3, EventTyping, BindingsSound, StackSound, PTL DEF Spec

=============================================================================
