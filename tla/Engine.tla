------------------------------- MODULE Engine -------------------------------
(***************************************************************************)
(* inplace_engine_t of include/atma/threading.hpp: clients signal          *)
(* functions into a ring-buffer queue and one engine thread runs them in   *)
(* place, each still in its slot of the ring while it runs.  engine_t of   *)
(* thread/engine.hpp is the same machine over the linked queue.            *)
(*                                                                         *)
(* The queue is what MessageChannel promises: slots are allocated and      *)
(* taken in order, and freed in order once the function has returned, so a *)
(* function that runs for long holds back every slot behind its own.  A    *)
(* slot stands for the space of one function.                              *)
(***************************************************************************)
EXTENDS Naturals, Sequences, FiniteSets

CONSTANTS
  Clients,      \* threads that use the engine
  Owner,        \* the client that starts the engine and destroys it
  Deferred,     \* whether it was built with defer_start_t
  Capacity,     \* how many functions the ring holds
  Kinds,        \* the functions clients signal
  MaxSignals,   \* bound: how many functions each client signals
  MaxRepeats,   \* bound: how often a repeat function asks to be run again
  MaxDepth      \* bound: how deep signal_block() nests in the engine thread

ASSUME EngineAssumption ==
  /\ Owner \in Clients /\ Clients \cap (0 .. MaxDepth) = {}
  /\ Deferred \in BOOLEAN
  /\ Capacity \in Nat \ {0}
  /\ Kinds \subseteq {"task", "repeat", "nested"}
  /\ MaxSignals \in Nat /\ MaxRepeats \in Nat /\ MaxDepth \in Nat

\* The functions: a client's task, which ends; its repeat function, which asks
\* to be run again `left' times (signal_evergreen); a task that itself calls
\* signal_block(); the function signal_block() waits for; the destructor's.
\* A function is known by who signalled it: a client, or the engine thread at
\* some depth of nesting.
Signallers == Clients \cup (0 .. MaxDepth)
Job == [kind : {"task", "repeat", "nested", "unblock", "stop"},
        by : Signallers, left : 0 .. MaxRepeats]

VARIABLES
  running,   \* running_
  handle,    \* whether handle_ names the engine thread
  ring,      \* queue_: the slots in use, each with a function and its state
  blocked,   \* the flags signal_block() waits for, by signaller
  pc,        \* where each client is
  next,      \* the function a client is about to put into the ring
  calls,     \* the number of functions a client has signalled
  epc,       \* where the engine thread is
  depth      \* how many reenter() loops the engine thread is in, beyond the first

vars == <<running, handle, ring, blocked, pc, next, calls, epc, depth>>

NoJob == [kind |-> "task", by |-> Owner, left |-> 0]

\* inplace_engine_t{defer_start_t, bufsize} leaves the start to ensure_running();
\* the other constructors return with the thread running and known.
Init ==
  /\ running = ~Deferred
  /\ handle = ~Deferred
  /\ ring = <<>>
  /\ blocked = [s \in Signallers |-> FALSE]
  /\ pc = [c \in Clients |-> "idle"]
  /\ next = [c \in Clients |-> NoJob]
  /\ calls = [c \in Clients |-> 0]
  /\ epc = IF Deferred THEN "unborn" ELSE "test"
  /\ depth = 0

Goto(c, l) == pc' = [pc EXCEPT ![c] = l]

\* allocate() waits for space, make_contiguous() and commit() follow.
HasSpace == Len(ring) < Capacity
Put(job) == ring' = Append(ring, [job |-> job, state |-> "ready"])

-----------------------------------------------------------------------------
(* Clients. *)

\* A client may begin a call: nobody uses an engine that is being destroyed.
Free(c) == pc[c] = "idle" /\ next[Owner].kind # "stop" /\ pc[Owner] # "gone"

\* ensure_running(): running_ is set before the thread exists, and the thread
\* runs before handle_ is assigned.
EnsureRunning(c) ==
  /\ c = Owner
  /\ Free(c)
  /\ ~running
  /\ running' = TRUE
  /\ Goto(c, "spawn")
  /\ UNCHANGED <<handle, ring, blocked, next, calls, epc, depth>>

SpawnThread(c) ==
  /\ pc[c] = "spawn"
  /\ epc' = "test"
  /\ Goto(c, "assign")
  /\ UNCHANGED <<running, handle, ring, blocked, next, calls, depth>>

AssignHandle(c) ==
  /\ pc[c] = "assign"
  /\ handle' = TRUE
  /\ Goto(c, "idle")
  /\ UNCHANGED <<running, ring, blocked, next, calls, epc, depth>>

\* signal() and signal_evergreen(): a function signalled to an engine that is
\* not running is dropped.
Signal(c) ==
  /\ Free(c)
  /\ calls[c] < MaxSignals
  /\ calls' = [calls EXCEPT ![c] = @ + 1]
  /\ \E k \in Kinds :
       next' = [next EXCEPT ![c] =
                 [kind |-> k, by |-> c, left |-> IF k = "repeat" THEN MaxRepeats ELSE 0]]
  /\ Goto(c, IF running THEN "allocate" ELSE "idle")
  /\ UNCHANGED <<running, handle, ring, blocked, epc, depth>>

SignalBlock(c) ==
  /\ Free(c)
  /\ calls[c] < MaxSignals
  /\ calls' = [calls EXCEPT ![c] = @ + 1]
  /\ running
  /\ blocked' = [blocked EXCEPT ![c] = TRUE]
  /\ next' = [next EXCEPT ![c] = [kind |-> "unblock", by |-> c, left |-> 0]]
  /\ Goto(c, "allocate")
  /\ UNCHANGED <<running, handle, ring, epc, depth>>

\* The second half of signal(): running_ was tested before.
Allocate(c) ==
  /\ pc[c] = "allocate"
  /\ HasSpace
  /\ Put(next[c])
  /\ Goto(c, CASE next[c].kind = "unblock" -> "wait"
               [] next[c].kind = "stop" -> "join"
               [] OTHER -> "idle")
  /\ UNCHANGED <<running, handle, blocked, next, calls, epc, depth>>

WaitUnblocked(c) ==
  /\ pc[c] = "wait"
  /\ ~blocked[c]
  /\ Goto(c, "idle")
  /\ UNCHANGED <<running, handle, ring, blocked, next, calls, epc, depth>>

\* ~inplace_engine_t(), when no client is in a call.
Destroy(c) ==
  /\ c = Owner
  /\ \A d \in Clients : Free(d)
  /\ IF running
     THEN /\ next' = [next EXCEPT ![c] = [kind |-> "stop", by |-> c, left |-> 0]]
          /\ Goto(c, "allocate")
     ELSE Goto(c, "gone") /\ UNCHANGED next
  /\ UNCHANGED <<running, handle, ring, blocked, calls, epc, depth>>

Join(c) ==
  /\ pc[c] = "join"
  /\ epc = "exited"
  /\ Goto(c, "gone")
  /\ UNCHANGED <<running, handle, ring, blocked, next, calls, epc, depth>>

-----------------------------------------------------------------------------
(* The engine thread: reenter(). *)

InState(s) == {i \in 1 .. Len(ring) : ring[i].state = s}

\* The function being run is the last one taken: those before it that are
\* still running have called signal_block() and wait for the nested loop.
Current == CHOOSE i \in InState("running") : \A j \in InState("running") : j <= i

EngineGoto(l) == epc' = l

\* while (good): the outermost loop looks at running_, a nested one at the
\* flag of the signal_block() it serves.
TestFlag ==
  /\ epc = "test"
  /\ IF (IF depth = 0 THEN running ELSE blocked[depth])
     THEN EngineGoto("take") /\ UNCHANGED depth
     ELSE IF depth = 0 THEN EngineGoto("exited") /\ UNCHANGED depth
     ELSE EngineGoto("finish") /\ depth' = depth - 1
  /\ UNCHANGED <<running, handle, ring, blocked, pc, next, calls>>

\* consume(): the first slot that is ready, if any. (LastReady: a mutant.)
LastReady == CHOOSE i \in InState("ready") : \A j \in InState("ready") : j <= i
FirstReady == CHOOSE i \in InState("ready") : \A j \in InState("ready") : i <= j

Take ==
  /\ epc = "take"
  /\ IF InState("ready") = {}
     THEN EngineGoto("test") /\ UNCHANGED ring
     ELSE EngineGoto("call") /\ ring' = [ring EXCEPT ![FirstReady].state = "running"]
  /\ UNCHANGED <<running, handle, blocked, pc, next, calls, depth>>

\* (*f)(), up to its return or to the allocate() inside it.
Call ==
  LET job == ring[Current].job
  IN
  /\ epc = "call"
  /\ \/ /\ job.kind = "task"
        /\ EngineGoto("finish")
        /\ UNCHANGED <<running, blocked>>
     \/ /\ job.kind = "stop"
        /\ running' = FALSE
        /\ EngineGoto("finish")
        /\ UNCHANGED blocked
     \/ /\ job.kind = "unblock"
        /\ blocked' = [blocked EXCEPT ![job.by] = FALSE]
        /\ EngineGoto("finish")
        /\ UNCHANGED running
     \/ /\ job.kind = "repeat"
        /\ EngineGoto(IF job.left > 0 /\ running THEN "allocate" ELSE "finish")
        /\ UNCHANGED <<running, blocked>>
     \/ /\ job.kind = "nested"
        /\ IF running /\ depth < MaxDepth
           THEN /\ blocked' = [blocked EXCEPT ![depth + 1] = TRUE]
                /\ EngineGoto("allocate")
           ELSE EngineGoto("finish") /\ UNCHANGED blocked
        /\ UNCHANGED running
  /\ UNCHANGED <<handle, ring, pc, next, calls, depth>>

\* this_thread::get_id() == handle_.get_id().
OnEngineThread == handle

\* signal_evergreen(), or signal_block(), called by the function that runs.
SignalFromEngine ==
  LET job == ring[Current].job
  IN
  /\ epc = "allocate"
  /\ HasSpace
  /\ IF job.kind = "repeat"
     THEN /\ Put([job EXCEPT !.left = @ - 1, !.by = 0])
          /\ EngineGoto("finish")
          /\ UNCHANGED depth
     ELSE /\ Put([kind |-> "unblock", by |-> depth + 1, left |-> 0])
          /\ IF OnEngineThread
             THEN EngineGoto("test") /\ depth' = depth + 1
             ELSE EngineGoto("spin") /\ UNCHANGED depth
  /\ UNCHANGED <<running, handle, blocked, pc, next, calls>>

\* finalize(): the slot is done, and the done slots at the front are freed.
\* (Mutants: FreeFront takes the slot for the oldest one; FreeOne stops after
\* one slot and forgets those behind it that were done before.)
FreeFront(slots) == Tail(slots)
FreeOne(slots) ==
  IF Current = 1 THEN Tail(slots)
  ELSE [slots EXCEPT ![Current].state = "done"]
Freed(slots) ==
  LET done == [slots EXCEPT ![Current].state = "done"]
      live == {i \in 1 .. Len(done) : done[i].state # "done"}
  IN  IF live = {} THEN <<>>
      ELSE SubSeq(done, CHOOSE i \in live : \A j \in live : i <= j, Len(done))

Finish ==
  /\ epc = "finish"
  /\ ring' = Freed(ring)
  /\ EngineGoto("test")
  /\ UNCHANGED <<running, handle, blocked, pc, next, calls, depth>>

-----------------------------------------------------------------------------
ClientCall(c) == Signal(c) \/ SignalBlock(c) \/ EnsureRunning(c) \/ Destroy(c)

ClientStep(c) ==
  SpawnThread(c) \/ AssignHandle(c) \/ Allocate(c) \/ WaitUnblocked(c) \/ Join(c)

EngineStep == TestFlag \/ Take \/ Call \/ SignalFromEngine \/ Finish

Next == (\E c \in Clients : ClientCall(c) \/ ClientStep(c)) \/ EngineStep

Spec == Init /\ [][Next]_vars

\* Threads run; which calls clients make is up to them.
FairSpec ==
  /\ Spec
  /\ \A c \in Clients : WF_vars(ClientStep(c))
  /\ WF_vars(EngineStep)

-----------------------------------------------------------------------------
(* Properties. *)

TypeOK ==
  /\ running \in BOOLEAN /\ handle \in BOOLEAN
  /\ ring \in Seq([job : Job, state : {"ready", "running", "done"}])
  /\ Len(ring) <= Capacity
  /\ blocked \in [Signallers -> BOOLEAN]
  /\ pc \in [Clients -> {"idle", "spawn", "assign", "allocate", "wait", "join", "gone"}]
  /\ next \in [Clients -> Job]
  /\ calls \in [Clients -> 0 .. MaxSignals]
  /\ epc \in {"unborn", "test", "take", "call", "allocate", "spin", "finish", "exited"}
  /\ depth \in 0 .. MaxDepth

\* The functions client c put into the ring that have not run to their end.
Unfinished(c) ==
  {i \in 1 .. Len(ring) : /\ ring[i].job.by = c
                          /\ ring[i].job.kind # "unblock"
                          /\ ring[i].state # "done"}

\* When signal_block() returns, every function its caller signalled before has
\* run: all the way, unless it called signal_block() too and the nested loop is
\* what ran the caller's.
BlockIsBarrier ==
  \A c \in Clients : pc[c] = "wait" /\ ~blocked[c] =>
    \A i \in Unfinished(c) : ring[i].state = "running" /\ ring[i].job.kind = "nested"

\* When the destructor returns, every function the clients signalled has run;
\* only what the engine thread signalled itself may be left behind.
NothingDropped == pc[Owner] = "gone" => \A c \in Clients : Unfinished(c) = {}

\* Neither signal_block() nor the destructor returns too early.
NothingLeftBehind == BlockIsBarrier /\ NothingDropped

\* The functions being run are nested: as many as there are loops, and each
\* of them but the last is one that called signal_block().
NestingMatches ==
  /\ epc \in {"call", "allocate", "finish"} => Cardinality(InState("running")) = depth + 1
  /\ epc \in {"test", "take"} => Cardinality(InState("running")) = depth
  /\ \A i \in InState("running") : i # Current => ring[i].job.kind = "nested"

\* Each loop of the engine thread runs one function of those it may run.
LoopsNest == TypeOK /\ NestingMatches

\* "the engine thread can't block itself!": it never waits for a function that
\* only it could run.
NeverAwaitsItself == epc # "spin"

\* Nor for space in the ring that only it could free.
NeverFillsItself == epc = "allocate" => HasSpace

\* As long as the engine thread blocks itself in neither way, every signal() and
\* signal_block() returns, and so does the destructor.
CallsReturn ==
  [](NeverAwaitsItself /\ NeverFillsItself) =>
    \A c \in Clients : pc[c] \in {"allocate", "wait", "join"} ~> pc[c] \in {"idle", "gone"}
=============================================================================
