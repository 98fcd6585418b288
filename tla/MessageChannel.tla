--------------------------- MODULE MessageChannel ---------------------------
(***************************************************************************)
(* What the ring-buffer queue promises its clients, whatever the number of *)
(* threads: a message goes through reserved, committed, taken, done and    *)
(* freed, once each; consumers take messages in the order their space was  *)
(* reserved, never one that is not committed; space is reused only when    *)
(* everything that was there has been read and freed, in order.            *)
(***************************************************************************)
EXTENDS Naturals

CONSTANT Capacity   \* words of storage

VARIABLES
  reserved,    \* every message ever reserved: a set of [at, len, ...]
  committed,   \* those whose producer has finished
  taken,       \* those a consumer has claimed
  done,        \* those no consumer looks at any more
  freed        \* those whose space may be reused

chvars == <<reserved, committed, taken, done, freed>>

End(m)     == m.at + 1 + m.len
Earlier(m) == {k \in reserved : k.at < m.at}

ChInit ==
  /\ reserved = {} /\ committed = {} /\ taken = {} /\ done = {} /\ freed = {}

\* New messages (padding and the message behind it) follow all earlier ones.
ReserveMessages ==
  /\ reserved \subseteq reserved'
  /\ \A m \in reserved' \ reserved, k \in reserved : End(k) <= m.at
  /\ UNCHANGED <<committed, taken, done, freed>>

\* A message is written only over space that has been freed.
CommitMessage(m) ==
  /\ m \notin committed
  /\ \A k \in reserved \ freed : End(m) <= k.at + Capacity
  /\ committed' = committed \cup {m}
  /\ UNCHANGED <<reserved, taken, done, freed>>

TakeMessage(m) ==
  /\ m \in committed \ taken
  /\ Earlier(m) \subseteq taken
  /\ taken' = taken \cup {m}
  /\ UNCHANGED <<reserved, committed, done, freed>>

FinishMessage(m) ==
  /\ m \in taken \ done
  /\ done' = done \cup {m}
  /\ UNCHANGED <<reserved, committed, taken, freed>>

FreeMessage(m) ==
  /\ m \in done \ freed
  /\ Earlier(m) \subseteq freed
  /\ freed' = freed \cup {m}
  /\ UNCHANGED <<reserved, committed, taken, done>>

ChNext ==
  \/ ReserveMessages
  \/ \E m \in reserved :
       \/ CommitMessage(m) \/ TakeMessage(m) \/ FinishMessage(m) \/ FreeMessage(m)

ChSpec == ChInit /\ [][ChNext]_chvars
=============================================================================
