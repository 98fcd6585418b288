----------------------------- MODULE RingQueue -----------------------------
(***************************************************************************)
(* The ring-buffer message queue of include/atma/lockfree_queue.hpp        *)
(* (base_lockfree_queue_t and lockfree_queue_t), the queue under the       *)
(* engines, the thread pool, the event system and the logging runtime.     *)
(*                                                                         *)
(* Any number of producers reserve space at the write cursor w, wait for   *)
(* the empty cursor e to free it, encode a message and commit it.  Any     *)
(* number of consumers claim the message at the read cursor r, decode it   *)
(* and finalize it, which wipes it and moves e along.  Everything is       *)
(* coordinated through one 4-byte header word per message.  One action is  *)
(* one access to shared memory (a load, a compare-and-swap, an exchange),  *)
(* together with the local computation that follows it.                    *)
(*                                                                         *)
(* Units: the buffer is counted in words of 4 bytes, the size of a header; *)
(* impl_allocate_default rounds every size up to words.  Alignments above  *)
(* 4 bytes are the subject of RingLayout.  A payload word is an arbitrary  *)
(* 32-bit value, so it may look like any header.                           *)
(*                                                                         *)
(* A definition marked "mutant" is a broken variant of the one after it;   *)
(* nothing uses it but the tests that a property notices the mistake.      *)
(***************************************************************************)
EXTENDS Naturals

CONSTANTS
  Producers,   \* threads that allocate and commit
  Consumers,   \* threads that consume and finalize
  BufWords,    \* housekeeping_t::buffer_size(), in words
  CursorMod,   \* the cursors are unsigned integers modulo this (2^30 words)
  Sizes,       \* payload sizes the producers ask for, in words
  Contiguity,  \* whether messages must not wrap: a subset of BOOLEAN
  DataWords,   \* the words the producers write as payload
  MaxTraffic   \* bound: total number of words reserved in a behaviour

States == {"empty", "full", "mid_read"}
Types  == {"invalid", "normal", "jump", "pad"}

\* header_t: the 4-byte header, and any other word of the buffer.
Word == [state : States, type : Types, size : 0 .. BufWords]
Zero == [state |-> "empty", type |-> "invalid", size |-> 0]

ASSUME ThreadAssumption ==
  /\ Producers # {}
  /\ Consumers # {}
  /\ Producers \cap Consumers = {}

\* A message and its header fit in the buffer: one that does not fit waits
\* forever, whatever the other threads do.
ASSUME SizeAssumption ==
  /\ BufWords \in Nat \ {0}
  /\ CursorMod \in Nat
  /\ 2 * BufWords < CursorMod
  /\ Sizes \subseteq 0 .. BufWords - 1
  /\ Contiguity \subseteq BOOLEAN
  /\ DataWords \subseteq Word
  /\ MaxTraffic \in Nat

Threads == Producers \cup Consumers
Cursor  == 0 .. CursorMod - 1

PC == {"idle",
       "peek", "lap", "pad", "reload", "wait", "encode", "commit",
       "header", "claim", "mark", "decode", "wipe", "release",
       "load_e", "peek_e", "clear", "advance", "unswap"}

VARIABLES
  w, r, e,     \* housekeeping_t: the write, read and empty cursors
  mem,         \* the buffer
  pc,          \* where each thread is
  op,          \* the cursor a thread works at: its reservation, or its claim
  np,          \* the cursor after a producer's reservation
  pad,         \* padding words in front of a producer's message
  ep,          \* the value of e a thread has loaded last
  hd,          \* the header a thread has loaded last
  msg,         \* the payload a producer sends: its length and its word
  seen,        \* the words a consumer has decoded
  tickets,     \* history: every reservation, with what was to be sent
  total        \* history: the number of words reserved

locals  == <<op, np, pad, ep, hd, msg, seen>>
history == <<tickets, total>>
vars    == <<w, r, e, mem, pc, locals, history>>

-----------------------------------------------------------------------------
(* Cursors and positions. *)

\* uint32 addition of two values below CursorMod.
AddUnbounded(x, y) == x + y   \* mutant: the cursor does not wrap
Add(x, y) == IF x + y < CursorMod THEN x + y ELSE (x + y) - CursorMod

\* uint32 subtraction.
Sub(x, y) == IF y <= x THEN x - y ELSE (x + CursorMod) - y

Pos(c) == c % BufWords

\* The positions of the n words that follow the header at cursor c.
Body(c, n) == {Pos(Pos(c) + i) : i \in 1 .. n}

\* A message's header word and its body.
Region(c, n) == {Pos(c)} \cup Body(c, n)

Goto(t, l) == pc' = [pc EXCEPT ![t] = l]

Store(c, word) == mem' = [mem EXCEPT ![Pos(c)] = word]

\* "ready to clear", which the code encodes as an empty jump.
Cleared(h) == [h EXCEPT !.state = "empty", !.type = "jump"]

\* A committed message.
CommittedUnlessFresh(h) == h.type # "invalid"   \* mutant: the state is not tested
Committed(h) == h.state = "full"

-----------------------------------------------------------------------------
(* Threads. *)

\* Return to the caller: the locals go out of scope.
Return(t) ==
  /\ Goto(t, "idle")
  /\ op'  = [op EXCEPT ![t] = 0]
  /\ np'  = [np EXCEPT ![t] = 0]
  /\ ep'  = [ep EXCEPT ![t] = 0]
  /\ hd'  = [hd EXCEPT ![t] = Zero]
  /\ UNCHANGED <<pad, seen>>

Init ==
  /\ w = 0 /\ r = 0 /\ e = BufWords
  /\ mem = [x \in 0 .. BufWords - 1 |-> Zero]
  /\ pc  = [t \in Threads |-> "idle"]
  /\ op  = [t \in Threads |-> 0]
  /\ np  = [t \in Threads |-> 0]
  /\ pad = [t \in Threads |-> 0]
  /\ ep  = [t \in Threads |-> 0]
  /\ hd  = [t \in Threads |-> Zero]
  /\ msg = [t \in Threads |-> [len |-> 0, data |-> Zero]]
  /\ seen = [t \in Threads |-> {}]
  /\ tickets = {}
  /\ total = 0

-----------------------------------------------------------------------------
(* Producers: allocate(), the client's encoding, commit(). *)

\* Padding that keeps a contiguous message of sz words off the buffer's end.
Padding(c, sz) ==
  LET npm == Pos(Add(c, sz))
  IN  IF npm # 0 /\ npm < sz THEN sz - npm ELSE 0

\* The words a reservation takes: the message and the padding before it.
ForgetPadding(ps, sz) == sz   \* mutant: the padding is not reserved
Reserved(ps, sz) == ps + sz

\* The space before cursor c is free as far as producer p has seen.
SpaceFree(p, c) == ep[p] >= c

\* What the reservation of ps words of padding and n of payload at c promises.
NewTickets(c, ps, n, d) ==
  {[at |-> Add(c, ps), len |-> n, type |-> "normal", data |-> d]}
    \cup {[at |-> c, len |-> ps - 1, type |-> "pad", data |-> Zero] : x \in 1 .. (IF ps > 0 THEN 1 ELSE 0)}

\* Load e, then reserve: a compare-and-swap loop on w for a contiguous
\* message, an atomic add otherwise.  A failed compare-and-swap does nothing
\* but reload w, so the loop is its successful attempt.
Reserve(p, n, contiguous, d) ==
  LET sz == 1 + n
      ps == IF contiguous THEN Padding(w, sz) ELSE 0
  IN  /\ pc[p] = "idle"
      /\ total + ps + sz <= MaxTraffic
      /\ total' = total + ps + sz
      /\ w'   = Add(w, Reserved(ps, sz))
      /\ op'  = [op EXCEPT ![p] = w]
      /\ np'  = [np EXCEPT ![p] = Add(w, Reserved(ps, sz))]
      /\ pad' = [pad EXCEPT ![p] = ps]
      /\ ep'  = [ep EXCEPT ![p] = e]
      /\ msg' = [msg EXCEPT ![p] = [len |-> n, data |-> d]]
      /\ tickets' = tickets \cup NewTickets(w, ps, n, d)
      /\ Goto(p, "peek")
      /\ UNCHANGED <<r, e, mem, hd, seen>>

\* Load the header before its space is known to be free: a stale word whose
\* size bits survive in the header the producer stores next.
LoadHeader(p) ==
  /\ pc[p] \in {"peek", "reload"}
  /\ hd' = [hd EXCEPT ![p] = mem[Pos(op[p])]]
  /\ Goto(p, IF pc[p] = "peek" /\ np[p] < op[p] THEN "lap"
             ELSE IF pad[p] > 0 THEN "pad" ELSE "wait")
  /\ UNCHANGED <<w, r, e, mem, op, np, pad, ep, msg, seen, history>>

\* "if we've wrapped, we must wait for ep to wrap as well"
WaitForLap(p) ==
  /\ pc[p] = "lap"
  /\ IF np[p] < ep[p] /\ ep[p] < op[p]
     THEN ep' = [ep EXCEPT ![p] = e] /\ UNCHANGED pc
     ELSE Goto(p, IF pad[p] > 0 THEN "pad" ELSE "wait") /\ UNCHANGED ep
  /\ UNCHANGED <<w, r, e, mem, op, np, pad, hd, msg, seen, history>>

\* One turn of the two loops that wait while the e loaded last is too low.
Spin(p) ==
  /\ \/ pc[p] = "pad"  /\ ~SpaceFree(p, Add(op[p], pad[p]))
     \/ pc[p] = "wait" /\ ~SpaceFree(p, np[p])
  /\ ep' = [ep EXCEPT ![p] = e]
  /\ UNCHANGED <<w, r, e, mem, pc, op, np, pad, hd, msg, seen, history>>

\* Publish the padding as a message of its own, already committed.
WritePad(p) ==
  /\ pc[p] = "pad"
  /\ SpaceFree(p, Add(op[p], pad[p]))
  /\ Store(op[p], [state |-> "full", type |-> "pad", size |-> pad[p] - 1])
  /\ op'  = [op EXCEPT ![p] = Add(@, pad[p])]
  /\ pad' = [pad EXCEPT ![p] = 0]
  /\ Goto(p, "reload")
  /\ UNCHANGED <<w, r, e, np, ep, hd, msg, seen, history>>

\* The space is free: mark the header "ready for commit", an empty pad.
MarkReady(p) ==
  /\ pc[p] = "wait"
  /\ SpaceFree(p, np[p])
  /\ Store(op[p], [hd[p] EXCEPT !.state = "empty", !.type = "pad"])
  /\ Goto(p, "encode")
  /\ UNCHANGED <<w, r, e, locals, history>>

\* The client encodes its payload into the allocation.
Encode(p) ==
  /\ pc[p] = "encode"
  /\ mem' = [x \in DOMAIN mem |-> IF x \in Body(op[p], msg[p].len)
                                 THEN msg[p].data ELSE mem[x]]
  /\ Goto(p, "commit")
  /\ UNCHANGED <<w, r, e, locals, history>>

Commit(p) ==
  /\ pc[p] = "commit"
  /\ Store(op[p], [state |-> "full", type |-> "normal", size |-> msg[p].len])
  /\ msg' = [msg EXCEPT ![p] = [len |-> 0, data |-> Zero]]
  /\ Return(p)
  /\ UNCHANGED <<w, r, e, history>>

-----------------------------------------------------------------------------
(* Consumers: consume(), the client's decoding, finalize(). *)

\* The message at the r loaded last is not one that waits, claimed by another
\* consumer, a whole buffer behind.
AlwaysInWindow(c) == TRUE   \* mutant: the test is dropped
InWindow(c) == ep[c] > op[c]

\* The compare-and-swap on r: nobody has claimed since r was loaded.
Unclaimed(c) == r = op[c]

\* The body finalize wipes.
WipeShort(c) == Body(op[c], hd[c].size - 1)   \* mutant: the last word is left
WipedBody(c) == Body(op[c], hd[c].size)

\* The word a finalizer expects at e before it may clear it.
ExpectAnything(h) == h   \* mutant: the word need not be ready to clear
Expected(h) == Cleared(h)

\* A finalizer behind e is at e's own position in the buffer.
NeverAstray(c) == TRUE   \* mutant: the un-swap is left out
AtEmptyPosition(c) == Pos(Sub(e, ep[c])) = 0

\* A finalizer that has moved e goes on with the message e is at now.
StopAfterOne(c) == Goto(c, "idle")   \* mutant: it frees one message only
GoOn(c) == Goto(c, "peek_e")

LoadCursors(c) ==
  /\ pc[c] = "idle"
  /\ op' = [op EXCEPT ![c] = r]
  /\ ep' = [ep EXCEPT ![c] = e]
  /\ Goto(c, "header")
  /\ UNCHANGED <<w, r, e, mem, np, pad, hd, msg, seen, history>>

\* The whole buffer is claimed and not yet freed: the word at r belongs to
\* the claimed message one lap behind.
AwaitSpace(c) ==
  /\ pc[c] = "header"
  /\ ~InWindow(c)
  /\ ep' = [ep EXCEPT ![c] = e]
  /\ UNCHANGED <<w, r, e, mem, pc, op, np, pad, hd, msg, seen, history>>

\* Read the header at r; nothing to consume unless it is committed.
ReadHeader(c) ==
  /\ pc[c] = "header"
  /\ InWindow(c)
  /\ IF Committed(mem[Pos(op[c])])
     THEN /\ hd' = [hd EXCEPT ![c] = mem[Pos(op[c])]]
          /\ Goto(c, "claim")
          /\ UNCHANGED <<op, np, pad, ep, seen>>
     ELSE Return(c)
  /\ UNCHANGED <<w, r, e, mem, msg, history>>

\* Move r past the message, unless another consumer has moved it.
Claim(c) ==
  /\ pc[c] = "claim"
  /\ IF Unclaimed(c)
     THEN /\ r' = Add(r, 1 + hd[c].size)
          /\ Goto(c, "mark")
          /\ UNCHANGED op
     ELSE /\ op' = [op EXCEPT ![c] = r]
          /\ Goto(c, "header")
          /\ UNCHANGED r
  /\ UNCHANGED <<w, e, mem, np, pad, ep, hd, msg, seen, history>>

\* Only now does the header show that the message is taken.
MarkRead(c) ==
  /\ pc[c] = "mark"
  /\ IF mem[Pos(op[c])] = hd[c]
     THEN Store(op[c], [hd[c] EXCEPT !.state = "mid_read"])
     ELSE UNCHANGED mem
  /\ Goto(c, "decode")
  /\ UNCHANGED <<w, r, e, locals, history>>

\* The decoder re-reads the header and the client decodes what it frames;
\* consume() finalizes padding itself.
Decode(c) ==
  LET h == mem[Pos(op[c])]
  IN  /\ pc[c] = "decode"
      /\ hd' = [hd EXCEPT ![c] = h]
      /\ seen' = [seen EXCEPT ![c] =
                    IF h.type = "pad" THEN {}
                    ELSE {mem[x] : x \in Body(op[c], h.size)}]
      /\ Goto(c, "wipe")
      /\ UNCHANGED <<w, r, e, mem, op, np, pad, ep, msg, history>>

\* "zero-out memory (very required), except header"
Wipe(c) ==
  /\ pc[c] = "wipe"
  /\ mem' = [x \in DOMAIN mem |-> IF x \in WipedBody(c) THEN Zero ELSE mem[x]]
  /\ seen' = [seen EXCEPT ![c] = {}]
  /\ Goto(c, "release")
  /\ UNCHANGED <<w, r, e, op, np, pad, ep, hd, msg, history>>

\* Set the owned header to "ready to clear".
Release(c) ==
  /\ pc[c] = "release"
  /\ Store(op[c], Cleared(mem[Pos(op[c])]))
  /\ Goto(c, "load_e")
  /\ UNCHANGED <<w, r, e, locals, history>>

LoadEmpty(c) ==
  /\ pc[c] = "load_e"
  /\ ep' = [ep EXCEPT ![c] = e]
  /\ Goto(c, "peek_e")
  /\ UNCHANGED <<w, r, e, mem, op, np, pad, hd, msg, seen, history>>

\* Whatever the word at ep is, expect its "ready to clear" form there.
PeekEmpty(c) ==
  /\ pc[c] = "peek_e"
  /\ hd' = [hd EXCEPT ![c] = Expected(mem[Pos(ep[c])])]
  /\ Goto(c, "clear")
  /\ UNCHANGED <<w, r, e, mem, op, np, pad, ep, msg, seen, history>>

\* "whoever sets the header to zero gets to update ep"
ClearHeader(c) ==
  /\ pc[c] = "clear"
  /\ IF mem[Pos(ep[c])] = hd[c]
     THEN /\ Store(ep[c], Zero)
          /\ Goto(c, "advance")
          /\ UNCHANGED <<op, np, pad, ep, hd, seen>>
     ELSE Return(c) /\ UNCHANGED mem
  /\ UNCHANGED <<w, r, e, msg, history>>

\* Move e past the message just cleared.  A stale ep at e's own position is
\* brought up to date; at any other position the clearing is undone.
Advance(c) ==
  /\ pc[c] = "advance"
  /\ IF e = ep[c]
     THEN /\ e'  = Add(e, 1 + hd[c].size)
          /\ ep' = [ep EXCEPT ![c] = Add(e, 1 + hd[c].size)]
          /\ GoOn(c)
     ELSE /\ UNCHANGED e
          /\ IF AtEmptyPosition(c)
             THEN ep' = [ep EXCEPT ![c] = e] /\ UNCHANGED pc
             ELSE Goto(c, "unswap") /\ UNCHANGED ep
  /\ UNCHANGED <<w, r, mem, op, np, pad, hd, msg, seen, history>>

\* "very wrong. un-swap and try the whole thing again."
UnswapHeader(c) ==
  /\ pc[c] = "unswap"
  /\ Store(ep[c], hd[c])
  /\ Goto(c, "load_e")
  /\ UNCHANGED <<w, r, e, locals, history>>

-----------------------------------------------------------------------------
StartAllocate(p) ==
  \E n \in Sizes, contiguous \in Contiguity, d \in DataWords :
    Reserve(p, n, contiguous, d)

FinishAllocate(p) ==
  \/ LoadHeader(p) \/ WaitForLap(p) \/ Spin(p) \/ WritePad(p)
  \/ MarkReady(p) \/ Encode(p) \/ Commit(p)

Consume(c) ==
  \/ LoadCursors(c) \/ AwaitSpace(c) \/ ReadHeader(c) \/ Claim(c)
  \/ MarkRead(c) \/ Decode(c)

Finalize(c) ==
  \/ Wipe(c) \/ Release(c) \/ LoadEmpty(c) \/ PeekEmpty(c)
  \/ ClearHeader(c) \/ Advance(c) \/ UnswapHeader(c)

Next ==
  \/ \E p \in Producers : StartAllocate(p) \/ FinishAllocate(p)
  \/ \E c \in Consumers : Consume(c) \/ Finalize(c)

Spec == Init /\ [][Next]_vars

\* The operating system runs every thread, and consumers keep polling, as the
\* worker loops of threading.hpp do; nobody has to send.
FairSpec ==
  /\ Spec
  /\ \A p \in Producers : WF_vars(FinishAllocate(p))
  /\ \A c \in Consumers : WF_vars(Consume(c) \/ Finalize(c))

-----------------------------------------------------------------------------
(* Properties. *)

TypeOK ==
  /\ w \in Cursor /\ r \in Cursor /\ e \in Cursor
  /\ mem \in [0 .. BufWords - 1 -> Word]
  /\ pc  \in [Threads -> PC]
  /\ op  \in [Threads -> Cursor]
  /\ np  \in [Threads -> Cursor]
  /\ pad \in [Threads -> 0 .. BufWords]
  /\ ep  \in [Threads -> Cursor]
  /\ hd  \in [Threads -> Word]
  /\ msg \in [Threads -> [len : 0 .. BufWords - 1, data : Word]]
  /\ seen \in [Threads -> SUBSET Word]
  /\ tickets \subseteq
       [at : Cursor, len : 0 .. BufWords - 1, type : Types, data : Word]
  /\ total \in 0 .. MaxTraffic

Encoding(p) == pc[p] \in {"encode", "commit"}
Reading(c)  == pc[c] \in {"mark", "decode", "wipe", "release"}

\* The positions a thread reads and writes with plain accesses.
Owned(t) ==
  IF Encoding(t) THEN Region(op[t], msg[t].len)
  ELSE IF Reading(t) THEN Region(op[t], hd[t].size)
  ELSE {}

\* "we now have exclusive access to our range of memory": an allocation being
\* encoded and a message being decoded never share a word with another one.
ExclusiveRegions ==
  \A t, u \in Threads : t # u => Owned(t) \cap Owned(u) = {}

\* A consumer holds a message somebody reserved, framed as it was reserved,
\* and reads from it exactly what its producer encoded.
MessagesArriveWhole ==
  \A c \in Consumers : Reading(c) =>
    \E t \in tickets :
      /\ t.at = op[c] /\ t.len = hd[c].size /\ t.type = hd[c].type
      /\ pc[c] = "wipe" /\ t.type = "normal" /\ t.len > 0 => seen[c] = {t.data}

\* The assertions of impl_allocate: the space a producer has waited for holds
\* an empty header and a wiped body.
AllocationIsClean ==
  \A p \in Producers :
    /\ pc[p] = "pad" /\ ep[p] >= Add(op[p], pad[p])
         => mem[Pos(op[p])].state = "empty"
    /\ pc[p] = "wait" /\ ep[p] >= np[p]
         => /\ mem[Pos(op[p])].state = "empty"
            /\ \A x \in Body(op[p], msg[p].len) : mem[x] = Zero

\* The assertions of commit, consume and finalize: the header of an owned
\* message changes only by its owner's hand.
HeadersAreOwned ==
  /\ \A p \in Producers : pc[p] = "commit" =>
       mem[Pos(op[p])].state = "empty" /\ mem[Pos(op[p])].type = "pad"
  /\ \A c \in Consumers :
       /\ pc[c] = "mark" => mem[Pos(op[c])] = hd[c]
       /\ pc[c] = "release" => mem[Pos(op[c])].state = "mid_read"

\* No cursor passes the one before it: consumers stay behind the producers,
\* and no space is freed that was not claimed first.
CursorOrder == r <= w /\ r <= e /\ e <= r + BufWords /\ w = total

\* Two reservations never overlap, padding included, and each producer still
\* at work reserved exactly the padding and the message it is to write.
ReservationsDisjoint ==
  /\ \A t, u \in tickets : t # u =>
       t.at + 1 + t.len <= u.at \/ u.at + 1 + u.len <= t.at
  /\ \A p \in Producers : pc[p] # "idle" =>
       op[p] + pad[p] + 1 + msg[p].len = np[p] /\ np[p] <= w

\* "we now have exclusive access to our range of memory": while a thread
\* encodes or decodes a message, no step of another thread changes it.
ExclusiveAccess ==
  [][\A t \in Threads : pc'[t] = pc[t] =>
       \A x \in Owned(t) : mem'[x] = mem[x]]_vars

\* The queue implements an ordered channel: a reservation is pending until its
\* producer has stored its header, a message is taken once r is past it and
\* freed once e is a whole buffer past it.
Pending ==
  {t \in tickets : \E p \in Producers :
     /\ pc[p] # "idle"
     /\ \/ t.at = op[p] + pad[p]
        \/ pad[p] > 0 /\ t.at = op[p]}

Taken == {t \in tickets : t.at < r}

Channel == INSTANCE MessageChannel WITH
  Capacity  <- BufWords,
  reserved  <- tickets,
  committed <- tickets \ Pending,
  taken     <- Taken,
  done      <- {t \in Taken : \A c \in Consumers : ~(Reading(c) /\ op[c] = t.at)},
  freed     <- {t \in tickets : t.at + BufWords < e}

ImplementsChannel == Channel!ChSpec

\* Every message sent is delivered and its space freed: no thread is left
\* waiting in allocate(), and no finalized message is left behind for want of
\* a finalizer that would move e past it, before the cursors reach the end of
\* their range.
EverythingDrains ==
  [](total + BufWords < CursorMod) => <>[](e = Add(w, BufWords))

\* The guarantees last until the cursors reach the end of their range.
SafeBeforeWrap ==
  total + BufWords < CursorMod =>
    /\ CursorOrder /\ ReservationsDisjoint
    /\ ExclusiveRegions /\ AllocationIsClean /\ HeadersAreOwned

\* "if we've wrapped, we must wait for ep to wrap as well": a producer whose
\* reservation runs over the end of the range of the cursors writes into it
\* only when the e it has seen has run over that end too.
WaitsForEmptyToWrap ==
  \A p \in Producers : Encoding(p) /\ np[p] < op[p] => ep[p] < op[p]
=============================================================================
