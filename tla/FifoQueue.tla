----------------------------- MODULE FifoQueue -----------------------------
(***************************************************************************)
(* A first-in first-out queue: what the linked queue promises, and what    *)
(* the engines assume of theirs.                                           *)
(***************************************************************************)
EXTENDS Naturals, Sequences

CONSTANT Readers   \* the threads that pop

VARIABLES
  q,    \* the values in the queue
  out   \* the value each reader has popped last

fifovars == <<q, out>>

FifoInit == q = <<>>

\* One or more values are appended in one step.
Enqueue ==
  /\ Len(q') > Len(q)
  /\ SubSeq(q', 1, Len(q)) = q
  /\ UNCHANGED out

Dequeue(c) ==
  /\ q # <<>>
  /\ q' = Tail(q)
  /\ out' = [out EXCEPT ![c] = Head(q)]

FifoNext == Enqueue \/ \E c \in Readers : Dequeue(c)

FifoSpec == FifoInit /\ [][FifoNext]_fifovars
=============================================================================
