-------------------------- MODULE RingQueueProofs --------------------------
(***************************************************************************)
(* Theorems about RingQueue, for any threads, buffer, message sizes and    *)
(* range of the cursors.                                                   *)
(*                                                                         *)
(* While the cursors do not wrap, no two threads ever share a word of the  *)
(* buffer, and a consumer reads what the producer wrote, for any payload   *)
(* that does not look like a cleared header.  The cursors are then plain   *)
(* numbers, every word of the buffer stands for exactly one number in      *)
(* e - BufWords .. e - 1, and the invariant says of each such number whose *)
(* message it belongs to and what is stored there.                         *)
(***************************************************************************)
EXTENDS RingQueue, Integers, TLAPS

-----------------------------------------------------------------------------
(* Cursor arithmetic. *)

\* A position is inside the buffer.
LEMMA PosInBuffer ==
  ASSUME NEW c \in Nat
  PROVE  Pos(c) \in 0 .. BufWords - 1
  BY SizeAssumption DEF Pos

\* The wrapping sum of a cursor and a smaller amount is a cursor.
LEMMA AddIsCursor ==
  ASSUME NEW c \in Cursor, NEW n \in Nat, n < CursorMod
  PROVE  Add(c, n) \in Cursor
  BY SizeAssumption DEF Add, Cursor

\* A contiguous message is preceded by less padding than it is long.
LEMMA PaddingIsShort ==
  ASSUME NEW c \in Cursor, NEW sz \in 1 .. BufWords
  PROVE  /\ Padding(c, sz) \in 0 .. BufWords - 1
         /\ Padding(c, sz) < sz
<1>1. Add(c, sz) \in Nat
  BY AddIsCursor, SizeAssumption DEF Cursor
<1>2. Pos(Add(c, sz)) \in 0 .. BufWords - 1
  BY <1>1, PosInBuffer
<1>. QED  BY <1>2, SizeAssumption DEF Padding

-----------------------------------------------------------------------------
(* Types. *)

\* Padding is waited for only where there is some.
PadPending == \A t \in Threads : pc[t] = "pad" => pad[t] > 0

TypeInv == TypeOK /\ PadPending

\* A word stored with its state and type replaced is a word.
LEMMA WordExcept ==
  ASSUME NEW h \in Word, NEW s \in States, NEW y \in Types
  PROVE  /\ [h EXCEPT !.state = s] \in Word
         /\ [h EXCEPT !.state = s, !.type = y] \in Word
  BY DEF Word

\* The headers that the code composes are words.
LEMMA Literals ==
  /\ Zero \in Word
  /\ \A n \in 0 .. BufWords :
       /\ [state |-> "full", type |-> "pad", size |-> n] \in Word
       /\ [state |-> "full", type |-> "normal", size |-> n] \in Word
  BY SizeAssumption DEF Zero, Word, States, Types

\* Storing a word at a cursor keeps the buffer a buffer.
LEMMA StoreType ==
  ASSUME TypeOK, NEW c \in Nat, NEW word \in Word, Store(c, word)
  PROVE  mem' \in [0 .. BufWords - 1 -> Word]
  BY PosInBuffer DEF Store, TypeOK

\* Going to a label keeps pc well typed.
LEMMA GotoType ==
  ASSUME TypeOK, NEW t \in Threads, NEW l \in PC, Goto(t, l)
  PROVE  pc' \in [Threads -> PC] /\ pc'[t] = l
         /\ \A u \in Threads : u # t => pc'[u] = pc[u]
  BY DEF Goto, TypeOK

\* A return leaves the thread well typed.
LEMMA ReturnType ==
  ASSUME TypeInv, NEW t \in Threads, Return(t)
  PROVE  /\ pc' \in [Threads -> PC] /\ op' \in [Threads -> Cursor]
         /\ np' \in [Threads -> Cursor] /\ ep' \in [Threads -> Cursor]
         /\ hd' \in [Threads -> Word] /\ pad' = pad /\ seen' = seen
         /\ PadPending'
<1>1. 0 \in Cursor
  BY SizeAssumption DEF Cursor
<1>2. Zero \in Word
  BY Literals
<1>. QED  BY <1>1, <1>2 DEF Return, Goto, TypeInv, TypeOK, PadPending, PC

\* The buffer words a loaded position names are words.
LEMMA LoadType ==
  ASSUME TypeOK, NEW c \in Cursor
  PROVE  mem[Pos(c)] \in Word
<1>1. c \in Nat
  BY SizeAssumption DEF Cursor
<1>. QED  BY <1>1, PosInBuffer DEF TypeOK

\* The initial state is well typed.
LEMMA InitTypeInv == Init => TypeInv
<1>. SUFFICES ASSUME Init PROVE TypeInv
  OBVIOUS
<1>1. /\ 0 \in Cursor /\ BufWords \in Cursor /\ 0 \in 0 .. BufWords
      /\ 0 \in 0 .. BufWords - 1 /\ 0 \in 0 .. MaxTraffic
  BY SizeAssumption DEF Cursor
<1>2. Zero \in Word
  BY Literals
<1>. QED  BY <1>1, <1>2 DEF Init, TypeInv, TypeOK, PadPending, PC

\* So is the state after a reservation.
LEMMA ReserveType ==
  ASSUME TypeInv, NEW p \in Producers, NEW n \in Sizes,
         NEW contiguous \in Contiguity, NEW d \in DataWords,
         Reserve(p, n, contiguous, d)
  PROVE  TypeInv'
<1>. DEFINE sz == 1 + n
            ps == IF contiguous THEN Padding(w, sz) ELSE 0
<1>0. p \in Threads
  BY DEF Threads
<1>1. n \in 0 .. BufWords - 1 /\ sz \in 1 .. BufWords /\ d \in Word
  BY SizeAssumption
<1>2. w \in Cursor /\ total \in 0 .. MaxTraffic /\ MaxTraffic \in Nat
  BY SizeAssumption DEF TypeInv, TypeOK
<1>3. ps \in 0 .. BufWords - 1 /\ ps < sz
  BY <1>1, <1>2, PaddingIsShort, SizeAssumption
<1>4. ps + sz \in Nat /\ ps + sz < CursorMod /\ ps \in Nat /\ ps < CursorMod
  BY <1>1, <1>3, SizeAssumption
<1>5. Add(w, Reserved(ps, sz)) \in Cursor /\ Add(w, ps) \in Cursor
  BY <1>2, <1>4, AddIsCursor DEF Reserved
<1>6. w' \in Cursor /\ total' \in 0 .. MaxTraffic
  <2>1. w' = Add(w, Reserved(ps, sz)) /\ total' = total + ps + sz
        /\ total + ps + sz <= MaxTraffic
    BY DEF Reserve
  <2>. HIDE DEF sz, ps
  <2>. QED  BY <2>1, <1>1, <1>2, <1>3, <1>5, SizeAssumption
<1>7. tickets' \subseteq
        [at : Cursor, len : 0 .. BufWords - 1, type : Types, data : Word]
  <2>1. tickets' = tickets \cup NewTickets(w, ps, n, d)
    BY DEF Reserve
  <2>2. ASSUME NEW t \in NewTickets(w, ps, n, d)
        PROVE  t \in [at : Cursor, len : 0 .. BufWords - 1, type : Types, data : Word]
    <3>. HIDE DEF ps, sz
    <3>1. CASE t = [at |-> Add(w, ps), len |-> n, type |-> "normal", data |-> d]
      BY <3>1, <1>1, <1>5 DEF Types
    <3>2. CASE ps > 0 /\ t = [at |-> w, len |-> ps - 1, type |-> "pad", data |-> Zero]
      <4>1. ps - 1 \in 0 .. BufWords - 1
        BY <3>2, <1>3, SizeAssumption
      <4>. QED  BY <3>2, <4>1, <1>2, Literals DEF Types
    <3>. QED  BY <2>2, <3>1, <3>2, <1>3, SizeAssumption DEF NewTickets
  <2>. QED  BY <2>1, <2>2 DEF TypeInv, TypeOK
<1>8. pc' \in [Threads -> PC] /\ PadPending'
  <2>1. "peek" \in PC /\ Goto(p, "peek")
    BY DEF PC, Reserve
  <2>2. pad' = [pad EXCEPT ![p] = ps]
    BY DEF Reserve
  <2>. HIDE DEF ps, sz
  <2>. QED  BY <1>0, <2>1, <2>2, GotoType DEF TypeInv, TypeOK, PadPending
<1>9. /\ op' \in [Threads -> Cursor] /\ np' \in [Threads -> Cursor]
      /\ ep' \in [Threads -> Cursor] /\ pad' \in [Threads -> 0 .. BufWords]
      /\ msg' \in [Threads -> [len : 0 .. BufWords - 1, data : Word]]
  <2>1. /\ op'  = [op EXCEPT ![p] = w]
        /\ np'  = [np EXCEPT ![p] = Add(w, Reserved(ps, sz))]
        /\ pad' = [pad EXCEPT ![p] = ps]
        /\ ep'  = [ep EXCEPT ![p] = e]
        /\ msg' = [msg EXCEPT ![p] = [len |-> n, data |-> d]]
    BY DEF Reserve
  <2>2. ps \in 0 .. BufWords
    BY <1>3, SizeAssumption
  <2>. HIDE DEF ps, sz
  <2>. QED  BY <2>1, <2>2, <1>0, <1>1, <1>2, <1>5 DEF TypeInv, TypeOK
<1>10. UNCHANGED <<r, e, mem, hd, seen>>
  BY DEF Reserve
<1>. QED  BY <1>6, <1>7, <1>8, <1>9, <1>10 DEF TypeInv, TypeOK

\* Most steps set one thread's locals and leave the rest of the state alone:
\* the parts of the invariant they cannot disturb.
LEMMA FinishAllocateType ==
  ASSUME TypeInv, NEW p \in Producers, FinishAllocate(p)
  PROVE  TypeInv'
<1>0. p \in Threads
  BY DEF Threads
<1>a. /\ op[p] \in Cursor /\ np[p] \in Cursor /\ ep[p] \in Cursor /\ e \in Cursor
      /\ pad[p] \in 0 .. BufWords /\ hd[p] \in Word
      /\ msg[p] \in [len : 0 .. BufWords - 1, data : Word]
  BY <1>0 DEF TypeInv, TypeOK
<1>b. op[p] \in Nat /\ ep[p] \in Nat
  BY <1>a, SizeAssumption DEF Cursor
<1>1. CASE LoadHeader(p)
  <2>1. /\ hd' = [hd EXCEPT ![p] = mem[Pos(op[p])]]
        /\ UNCHANGED <<w, r, e, mem, op, np, pad, ep, msg, seen, history>>
    BY <1>1 DEF LoadHeader
  <2>2. mem[Pos(op[p])] \in Word
    BY <1>a, LoadType DEF TypeInv
  <2>3. pc' \in [Threads -> PC] /\ PadPending'
    BY <1>0, <1>1, <1>a, <2>1 DEF LoadHeader, Goto, TypeInv, TypeOK, PadPending, PC
  <2>. QED  BY <2>1, <2>2, <2>3 DEF TypeInv, TypeOK, history
<1>2. CASE WaitForLap(p)
  <2>1. /\ ep' \in [Threads -> Cursor]
        /\ UNCHANGED <<w, r, e, mem, op, np, pad, hd, msg, seen, history>>
    BY <1>2, <1>a DEF WaitForLap, TypeInv, TypeOK
  <2>2. pc' \in [Threads -> PC] /\ PadPending'
    BY <1>0, <1>2, <1>a, <2>1 DEF WaitForLap, Goto, TypeInv, TypeOK, PadPending, PC
  <2>. QED  BY <2>1, <2>2 DEF TypeInv, TypeOK, history
<1>3. CASE Spin(p)
  BY <1>3, <1>a DEF Spin, TypeInv, TypeOK, PadPending, history
<1>4. CASE WritePad(p)
  <2>1. pad[p] > 0
    BY <1>0, <1>4 DEF WritePad, TypeInv, PadPending
  <2>2. pad[p] - 1 \in 0 .. BufWords /\ pad[p] \in Nat /\ pad[p] < CursorMod
    BY <1>a, <2>1, SizeAssumption
  <2>3. mem' \in [0 .. BufWords - 1 -> Word]
    <3>1. [state |-> "full", type |-> "pad", size |-> pad[p] - 1] \in Word
      BY <2>2, Literals
    <3>. QED  BY <3>1, <1>4, <1>b, StoreType DEF WritePad, TypeInv
  <2>4. Add(op[p], pad[p]) \in Cursor
    BY <1>a, <2>2, AddIsCursor
  <2>5. pc' \in [Threads -> PC] /\ PadPending'
    BY <1>0, <1>4, SizeAssumption
    DEF WritePad, Goto, TypeInv, TypeOK, PadPending, PC
  <2>6. /\ op'  = [op EXCEPT ![p] = Add(op[p], pad[p])]
        /\ pad' = [pad EXCEPT ![p] = 0]
        /\ UNCHANGED <<w, r, e, np, ep, hd, msg, seen, history>>
    BY <1>4 DEF WritePad
  <2>7. 0 \in 0 .. BufWords
    BY SizeAssumption
  <2>. QED  BY <2>3, <2>4, <2>5, <2>6, <2>7 DEF TypeInv, TypeOK, history
<1>5. CASE MarkReady(p)
  <2>1. mem' \in [0 .. BufWords - 1 -> Word]
    <3>1. [hd[p] EXCEPT !.state = "empty", !.type = "pad"] \in Word
      BY <1>a, WordExcept DEF States, Types
    <3>. QED  BY <3>1, <1>5, <1>b, StoreType DEF MarkReady, TypeInv
  <2>2. pc' \in [Threads -> PC] /\ PadPending'
    BY <1>0, <1>5 DEF MarkReady, Goto, locals, TypeInv, TypeOK, PadPending, PC
  <2>. QED  BY <1>5, <2>1, <2>2 DEF MarkReady, TypeInv, TypeOK, locals, history
<1>6. CASE Encode(p)
  <2>1. mem' \in [0 .. BufWords - 1 -> Word]
    BY <1>6, <1>a DEF Encode, TypeInv, TypeOK
  <2>2. pc' \in [Threads -> PC] /\ PadPending'
    BY <1>0, <1>6 DEF Encode, Goto, locals, TypeInv, TypeOK, PadPending, PC
  <2>. QED  BY <1>6, <2>1, <2>2 DEF Encode, TypeInv, TypeOK, locals, history
<1>7. CASE Commit(p)
  <2>1. mem' \in [0 .. BufWords - 1 -> Word]
    <3>1. msg[p].len \in 0 .. BufWords
      BY <1>a, SizeAssumption
    <3>2. [state |-> "full", type |-> "normal", size |-> msg[p].len] \in Word
      BY <3>1, Literals
    <3>. QED  BY <3>2, <1>7, <1>b, StoreType DEF Commit, TypeInv
  <2>2. msg' \in [Threads -> [len : 0 .. BufWords - 1, data : Word]]
    <3>1. [len |-> 0, data |-> Zero] \in [len : 0 .. BufWords - 1, data : Word]
      BY Literals, SizeAssumption
    <3>2. msg' = [msg EXCEPT ![p] = [len |-> 0, data |-> Zero]]
      BY <1>7 DEF Commit
    <3>. QED  BY <3>1, <3>2 DEF TypeInv, TypeOK
  <2>3. Return(p) /\ UNCHANGED <<w, r, e, history>>
    BY <1>7 DEF Commit
  <2>. QED  BY <1>0, <2>1, <2>2, <2>3, ReturnType DEF TypeInv, TypeOK, history
<1>. QED  BY <1>1, <1>2, <1>3, <1>4, <1>5, <1>6, <1>7 DEF FinishAllocate

\* A step of consume keeps the typing.
LEMMA ConsumeType ==
  ASSUME TypeInv, NEW c \in Consumers, Consume(c)
  PROVE  TypeInv'
<1>0. c \in Threads
  BY DEF Threads
<1>a. /\ op[c] \in Cursor /\ ep[c] \in Cursor /\ hd[c] \in Word
      /\ r \in Cursor /\ e \in Cursor
  BY <1>0 DEF TypeInv, TypeOK
<1>b. op[c] \in Nat /\ mem[Pos(op[c])] \in Word
  BY <1>a, LoadType, SizeAssumption DEF Cursor, TypeInv
<1>1. CASE LoadCursors(c)
  <2>1. pc' \in [Threads -> PC] /\ PadPending'
    BY <1>0, <1>1 DEF LoadCursors, Goto, TypeInv, TypeOK, PadPending, PC
  <2>. QED  BY <1>1, <1>a, <2>1 DEF LoadCursors, TypeInv, TypeOK, history
<1>2. CASE AwaitSpace(c)
  BY <1>2, <1>a DEF AwaitSpace, TypeInv, TypeOK, PadPending, history
<1>3. CASE ReadHeader(c)
  <2>0. UNCHANGED <<w, r, e, mem, msg, history>>
    BY <1>3 DEF ReadHeader
  <2>1. CASE Committed(mem[Pos(op[c])])
    <3>1. /\ hd' = [hd EXCEPT ![c] = mem[Pos(op[c])]]
          /\ Goto(c, "claim")
          /\ UNCHANGED <<op, np, pad, ep, seen>>
      BY <1>3, <2>1 DEF ReadHeader
    <3>2. pc' \in [Threads -> PC] /\ PadPending'
      BY <1>0, <3>1 DEF Goto, TypeInv, TypeOK, PadPending, PC
    <3>. QED  BY <1>b, <2>0, <3>1, <3>2 DEF TypeInv, TypeOK, history
  <2>2. CASE ~Committed(mem[Pos(op[c])])
    <3>1. Return(c)
      BY <1>3, <2>2 DEF ReadHeader
    <3>. QED  BY <1>0, <2>0, <3>1, ReturnType DEF TypeInv, TypeOK, history
  <2>. QED  BY <2>1, <2>2
<1>4. CASE Claim(c)
  <2>1. pc' \in [Threads -> PC] /\ PadPending'
    BY <1>0, <1>4 DEF Claim, Goto, TypeInv, TypeOK, PadPending, PC
  <2>2. r' \in Cursor /\ op' \in [Threads -> Cursor]
    <3>1. 1 + hd[c].size \in Nat /\ 1 + hd[c].size < CursorMod
      BY <1>a, SizeAssumption DEF Word
    <3>2. Add(r, 1 + hd[c].size) \in Cursor
      BY <1>a, <3>1, AddIsCursor
    <3>. QED  BY <1>4, <1>a, <3>2 DEF Claim, TypeInv, TypeOK
  <2>. QED  BY <1>4, <2>1, <2>2 DEF Claim, TypeInv, TypeOK, history
<1>5. CASE MarkRead(c)
  <2>1. mem' \in [0 .. BufWords - 1 -> Word]
    <3>1. [hd[c] EXCEPT !.state = "mid_read"] \in Word
      BY <1>a, WordExcept DEF States, Types
    <3>2. CASE Store(op[c], [hd[c] EXCEPT !.state = "mid_read"])
      BY <3>1, <3>2, <1>b, StoreType DEF TypeInv
    <3>. QED  BY <1>5, <3>2 DEF MarkRead, TypeInv, TypeOK
  <2>2. pc' \in [Threads -> PC] /\ PadPending'
    BY <1>0, <1>5 DEF MarkRead, Goto, locals, TypeInv, TypeOK, PadPending, PC
  <2>. QED  BY <1>5, <2>1, <2>2 DEF MarkRead, TypeInv, TypeOK, locals, history
<1>6. CASE Decode(c)
  <2>1. pc' \in [Threads -> PC] /\ PadPending'
    BY <1>0, <1>6 DEF Decode, Goto, TypeInv, TypeOK, PadPending, PC
  <2>2. hd' \in [Threads -> Word]
    BY <1>6, <1>b DEF Decode, TypeInv, TypeOK
  <2>3. seen' \in [Threads -> SUBSET Word]
    <3>1. ASSUME NEW x \in Body(op[c], mem[Pos(op[c])].size)
          PROVE  mem[x] \in Word
      <4>1. PICK i \in 1 .. mem[Pos(op[c])].size : x = Pos(Pos(op[c]) + i)
        BY DEF Body
      <4>2. Pos(op[c]) + i \in Nat
        BY <1>b, PosInBuffer, SizeAssumption DEF Word
      <4>. QED  BY <4>1, <4>2, PosInBuffer DEF TypeInv, TypeOK
    <3>2. {mem[x] : x \in Body(op[c], mem[Pos(op[c])].size)} \in SUBSET Word
      BY <3>1
    <3>. QED  BY <1>6, <3>2 DEF Decode, TypeInv, TypeOK
  <2>. QED  BY <1>6, <2>1, <2>2, <2>3 DEF Decode, TypeInv, TypeOK, history
<1>. QED  BY <1>1, <1>2, <1>3, <1>4, <1>5, <1>6 DEF Consume

\* A step of finalize keeps the typing.
LEMMA FinalizeType ==
  ASSUME TypeInv, NEW c \in Consumers, Finalize(c)
  PROVE  TypeInv'
<1>0. c \in Threads
  BY DEF Threads
<1>a. /\ op[c] \in Cursor /\ ep[c] \in Cursor /\ hd[c] \in Word /\ e \in Cursor
  BY <1>0 DEF TypeInv, TypeOK
<1>b. /\ op[c] \in Nat /\ ep[c] \in Nat
      /\ mem[Pos(op[c])] \in Word /\ mem[Pos(ep[c])] \in Word
  BY <1>a, LoadType, SizeAssumption DEF Cursor, TypeInv
<1>1. CASE Wipe(c)
  <2>1. mem' \in [0 .. BufWords - 1 -> Word]
    BY <1>1, Literals DEF Wipe, TypeInv, TypeOK
  <2>2. pc' \in [Threads -> PC] /\ PadPending'
    BY <1>0, <1>1 DEF Wipe, Goto, TypeInv, TypeOK, PadPending, PC
  <2>. QED  BY <1>1, <2>1, <2>2 DEF Wipe, TypeInv, TypeOK, history
<1>2. CASE Release(c)
  <2>1. mem' \in [0 .. BufWords - 1 -> Word]
    <3>1. Cleared(mem[Pos(op[c])]) \in Word
      BY <1>b, WordExcept DEF Cleared, States, Types
    <3>. QED  BY <1>2, <1>b, <3>1, StoreType DEF Release, TypeInv
  <2>2. pc' \in [Threads -> PC] /\ PadPending'
    BY <1>0, <1>2 DEF Release, Goto, locals, TypeInv, TypeOK, PadPending, PC
  <2>. QED  BY <1>2, <2>1, <2>2 DEF Release, TypeInv, TypeOK, locals, history
<1>3. CASE LoadEmpty(c)
  <2>1. pc' \in [Threads -> PC] /\ PadPending'
    BY <1>0, <1>3 DEF LoadEmpty, Goto, TypeInv, TypeOK, PadPending, PC
  <2>. QED  BY <1>3, <1>a, <2>1 DEF LoadEmpty, TypeInv, TypeOK, history
<1>4. CASE PeekEmpty(c)
  <2>1. pc' \in [Threads -> PC] /\ PadPending'
    BY <1>0, <1>4 DEF PeekEmpty, Goto, TypeInv, TypeOK, PadPending, PC
  <2>2. hd' \in [Threads -> Word]
    <3>1. Expected(mem[Pos(ep[c])]) \in Word
      BY <1>b, WordExcept DEF Expected, Cleared, States, Types
    <3>. QED  BY <1>4, <3>1 DEF PeekEmpty, TypeInv, TypeOK
  <2>. QED  BY <1>4, <2>1, <2>2 DEF PeekEmpty, TypeInv, TypeOK, history
<1>5. CASE ClearHeader(c)
  <2>0. UNCHANGED <<w, r, e, msg, history>>
    BY <1>5 DEF ClearHeader
  <2>1. CASE mem[Pos(ep[c])] = hd[c]
    <3>1. /\ Store(ep[c], Zero) /\ Goto(c, "advance")
          /\ UNCHANGED <<op, np, pad, ep, hd, seen>>
      BY <1>5, <2>1 DEF ClearHeader
    <3>2. mem' \in [0 .. BufWords - 1 -> Word]
      BY <1>b, <3>1, StoreType, Literals DEF TypeInv
    <3>3. pc' \in [Threads -> PC] /\ PadPending'
      BY <1>0, <3>1 DEF Goto, TypeInv, TypeOK, PadPending, PC
    <3>. QED  BY <2>0, <3>1, <3>2, <3>3 DEF TypeInv, TypeOK, history
  <2>2. CASE mem[Pos(ep[c])] # hd[c]
    <3>1. Return(c) /\ UNCHANGED mem
      BY <1>5, <2>2 DEF ClearHeader
    <3>. QED  BY <1>0, <2>0, <3>1, ReturnType DEF TypeInv, TypeOK, history
  <2>. QED  BY <2>1, <2>2
<1>6. CASE Advance(c)
  <2>1. pc' \in [Threads -> PC] /\ PadPending'
    BY <1>0, <1>6 DEF Advance, GoOn, Goto, TypeInv, TypeOK, PadPending, PC
  <2>2. e' \in Cursor /\ ep' \in [Threads -> Cursor]
    <3>1. 1 + hd[c].size \in Nat /\ 1 + hd[c].size < CursorMod
      BY <1>a, SizeAssumption DEF Word
    <3>2. Add(e, 1 + hd[c].size) \in Cursor
      BY <1>a, <3>1, AddIsCursor
    <3>. QED  BY <1>6, <1>a, <3>2 DEF Advance, TypeInv, TypeOK
  <2>. QED  BY <1>6, <2>1, <2>2 DEF Advance, TypeInv, TypeOK, history
<1>7. CASE UnswapHeader(c)
  <2>1. mem' \in [0 .. BufWords - 1 -> Word]
    BY <1>7, <1>a, <1>b, StoreType DEF UnswapHeader, TypeInv
  <2>2. pc' \in [Threads -> PC] /\ PadPending'
    BY <1>0, <1>7 DEF UnswapHeader, Goto, locals, TypeInv, TypeOK, PadPending, PC
  <2>. QED  BY <1>7, <2>1, <2>2 DEF UnswapHeader, TypeInv, TypeOK, locals, history
<1>. QED  BY <1>1, <1>2, <1>3, <1>4, <1>5, <1>6, <1>7 DEF Finalize

\* Every variable keeps its type: the cursors stay unsigned integers of their
\* width, the buffer holds words and no header's size exceeds the buffer,
\* whatever stale word a thread has loaded.
THEOREM Typing == Spec => []TypeOK
<1>1. Init => TypeInv
  BY InitTypeInv
<1>2. TypeInv /\ [Next]_vars => TypeInv'
  <2>. SUFFICES ASSUME TypeInv, [Next]_vars PROVE TypeInv'
    OBVIOUS
  <2>1. CASE \E p \in Producers : StartAllocate(p)
    BY <2>1, ReserveType DEF StartAllocate
  <2>2. CASE \E p \in Producers : FinishAllocate(p)
    BY <2>2, FinishAllocateType
  <2>3. CASE \E c \in Consumers : Consume(c)
    BY <2>3, ConsumeType
  <2>4. CASE \E c \in Consumers : Finalize(c)
    BY <2>4, FinalizeType
  <2>5. CASE UNCHANGED vars
    BY <2>5 DEF vars, locals, history, TypeInv, TypeOK, PadPending
  <2>. QED  BY <2>1, <2>2, <2>3, <2>4, <2>5 DEF Next
<1>3. TypeInv => TypeOK
  BY DEF TypeInv
<1>. QED  BY <1>1, <1>2, <1>3, PTL DEF Spec

-----------------------------------------------------------------------------
(* Reservations. *)

\* Everything reserved lies below w, and w has not wrapped: the reason why a
\* new reservation cannot meet an old one.
BelowW == w = total /\ \A t \in tickets : t.at + 1 + t.len <= w

ReservationInv == TypeInv /\ BelowW /\ ReservationsDisjoint

\* Without a wrap the cursor's sum is the sum.
LEMMA AddWithoutWrap ==
  ASSUME NEW x \in Nat, NEW y \in Nat, x + y < CursorMod
  PROVE  Add(x, y) = x + y
  BY SizeAssumption DEF Add

\* A reservation begins where the last one ended, as long as the cursor does
\* not wrap.
LEMMA ReserveKeepsDisjoint ==
  ASSUME ReservationInv, total' < CursorMod,
         NEW p \in Producers, NEW n \in Sizes,
         NEW contiguous \in Contiguity, NEW d \in DataWords,
         Reserve(p, n, contiguous, d)
  PROVE  BelowW' /\ ReservationsDisjoint'
<1>. DEFINE sz == 1 + n
            ps == IF contiguous THEN Padding(w, sz) ELSE 0
<1>0. p \in Threads /\ TypeInv /\ TypeOK
  BY DEF Threads, ReservationInv, TypeInv
<1>1. n \in 0 .. BufWords - 1 /\ sz \in 1 .. BufWords /\ n \in Nat /\ sz = 1 + n
  BY SizeAssumption
<1>2. w \in Cursor /\ w = total /\ total \in Nat
  BY <1>0, SizeAssumption DEF TypeOK, ReservationInv, BelowW
<1>3. ps \in Nat
  BY <1>1, <1>2, PaddingIsShort, SizeAssumption
<1>4. total + ps + sz <= MaxTraffic /\ total' = total + ps + sz
      /\ w' = Add(w, Reserved(ps, sz))
  BY DEF Reserve
<1>5. total' < CursorMod /\ CursorMod \in Nat
  BY SizeAssumption
<1>6. /\ op'  = [op EXCEPT ![p] = w]
      /\ np'  = [np EXCEPT ![p] = Add(w, Reserved(ps, sz))]
      /\ pad' = [pad EXCEPT ![p] = ps]
      /\ msg' = [msg EXCEPT ![p] = [len |-> n, data |-> d]]
      /\ tickets' = tickets \cup NewTickets(w, ps, n, d)
      /\ pc' = [pc EXCEPT ![p] = "peek"]
  BY DEF Reserve, Goto
<1>. HIDE DEF ps, sz
<1>7. Add(w, Reserved(ps, sz)) = w + ps + sz /\ Add(w, ps) = w + ps
  BY <1>1, <1>2, <1>3, <1>4, <1>5, AddWithoutWrap DEF Reserved
<1>8. w' = total' /\ w' = w + ps + sz
  BY <1>1, <1>2, <1>3, <1>4, <1>7
<1>9. \A t \in tickets : t.at \in Nat /\ t.len \in Nat /\ t.at + 1 + t.len <= w
  BY <1>0, SizeAssumption DEF TypeOK, ReservationInv, BelowW, Cursor
<1>10. ASSUME NEW t \in NewTickets(w, ps, n, d)
       PROVE  \/ t.at = w + ps /\ t.len = n /\ t.at + 1 + t.len = w'
              \/ ps > 0 /\ t.at = w /\ t.len = ps - 1
  BY <1>1, <1>2, <1>3, <1>7, <1>8, <1>10 DEF NewTickets
<1>11. \A t, u \in NewTickets(w, ps, n, d) : t # u =>
         t.at + 1 + t.len <= u.at \/ u.at + 1 + u.len <= t.at
  BY <1>1, <1>2, <1>3, <1>7 DEF NewTickets
<1>12. BelowW'
  BY <1>1, <1>2, <1>3, <1>6, <1>8, <1>9, <1>10 DEF BelowW
<1>13. \A t, u \in tickets' : t # u =>
         t.at + 1 + t.len <= u.at \/ u.at + 1 + u.len <= t.at
  <2>1. \A t, u \in tickets : t # u =>
          t.at + 1 + t.len <= u.at \/ u.at + 1 + u.len <= t.at
    BY DEF ReservationInv, ReservationsDisjoint
  <2>2. \A t \in tickets, u \in NewTickets(w, ps, n, d) : t.at + 1 + t.len <= u.at
    BY <1>1, <1>2, <1>3, <1>9, <1>10
  <2>. QED  BY <1>6, <1>11, <2>1, <2>2
<1>14. ASSUME NEW q \in Producers, pc'[q] # "idle"
       PROVE  op'[q] + pad'[q] + 1 + msg'[q].len = np'[q] /\ np'[q] <= w'
  <2>1. CASE q = p
    BY <1>0, <1>1, <1>2, <1>3, <1>6, <1>7, <1>8, <2>1 DEF TypeOK
  <2>2. CASE q # p
    <3>1. q \in Threads /\ pc[q] # "idle"
      BY <1>0, <1>6, <1>14, <2>2 DEF Threads, TypeOK
    <3>2. op[q] + pad[q] + 1 + msg[q].len = np[q] /\ np[q] <= w
      BY <3>1 DEF ReservationInv, ReservationsDisjoint
    <3>3. np[q] \in Nat /\ w \in Nat
      BY <1>0, <3>1, SizeAssumption DEF TypeOK, Cursor
    <3>4. op'[q] = op[q] /\ pad'[q] = pad[q] /\ msg'[q] = msg[q] /\ np'[q] = np[q]
      BY <1>0, <1>6, <2>2, <3>1 DEF TypeOK
    <3>. QED  BY <1>1, <1>3, <1>8, <3>2, <3>3, <3>4
  <2>. QED  BY <2>1, <2>2
<1>. QED  BY <1>12, <1>13, <1>14 DEF ReservationsDisjoint

\* A step that reserves nothing leaves tickets and w alone; a producer it moves
\* either keeps its reservation, or publishes its padding, or is finished.
LEMMA OthersKeepDisjoint ==
  ASSUME ReservationInv,
         UNCHANGED <<w, total, tickets>>,
         \A p \in Producers : pc'[p] # "idle" =>
           /\ pc[p] # "idle" /\ np'[p] = np[p] /\ msg'[p] = msg[p]
           /\ op'[p] + pad'[p] = op[p] + pad[p]
  PROVE  BelowW' /\ ReservationsDisjoint'
<1>1. BelowW'
  BY DEF ReservationInv, BelowW
<1>2. ASSUME NEW p \in Producers, pc'[p] # "idle"
      PROVE  op'[p] + pad'[p] + 1 + msg'[p].len = np'[p] /\ np'[p] <= w'
  BY <1>2 DEF ReservationInv, ReservationsDisjoint
<1>. QED  BY <1>1, <1>2 DEF ReservationInv, ReservationsDisjoint

\* After it has reserved, a producer only gives up words of its own.
LEMMA FinishAllocateKeepsDisjoint ==
  ASSUME ReservationInv, NEW p \in Producers, FinishAllocate(p)
  PROVE  BelowW' /\ ReservationsDisjoint'
<1>0. p \in Threads /\ Producers \subseteq Threads /\ TypeOK
  BY DEF Threads, ReservationInv, TypeInv
<1>1. CASE LoadHeader(p)
  BY <1>0, <1>1, OthersKeepDisjoint DEF LoadHeader, Goto, history, TypeOK
<1>2. CASE WaitForLap(p)
  BY <1>0, <1>2, OthersKeepDisjoint DEF WaitForLap, Goto, history, TypeOK
<1>3. CASE Spin(p)
  BY <1>0, <1>3, OthersKeepDisjoint DEF Spin, Goto, history, TypeOK
<1>4. CASE WritePad(p)
  <2>1. pc[p] = "pad" /\ op[p] \in Nat /\ pad[p] \in Nat /\ np[p] \in Nat
        /\ msg[p].len \in Nat /\ w \in Nat
    BY <1>0, <1>4, SizeAssumption DEF WritePad, TypeOK, Cursor
  <2>2. op[p] + pad[p] + 1 + msg[p].len = np[p] /\ np[p] <= w
    BY <2>1 DEF ReservationInv, ReservationsDisjoint
  <2>3. w < CursorMod /\ CursorMod \in Nat
    BY <1>0, SizeAssumption DEF TypeOK, Cursor
  <2>4. Add(op[p], pad[p]) = op[p] + pad[p]
    BY <2>1, <2>2, <2>3, AddWithoutWrap
  <2>5. /\ op'  = [op EXCEPT ![p] = Add(op[p], pad[p])]
        /\ pad' = [pad EXCEPT ![p] = 0]
        /\ pc' = [pc EXCEPT ![p] = "reload"]
        /\ UNCHANGED <<w, r, e, np, ep, hd, msg, seen, tickets, total>>
    BY <1>4 DEF WritePad, Goto, history
  <2>6. ASSUME NEW q \in Producers, pc'[q] # "idle"
        PROVE  /\ pc[q] # "idle" /\ np'[q] = np[q] /\ msg'[q] = msg[q]
               /\ op'[q] + pad'[q] = op[q] + pad[q]
    <3>1. CASE q = p
      BY <1>0, <2>1, <2>4, <2>5, <3>1 DEF TypeOK
    <3>2. CASE q # p
      BY <1>0, <2>5, <2>6, <3>2 DEF TypeOK
    <3>. QED  BY <3>1, <3>2
  <2>. QED  BY <2>5, <2>6, OthersKeepDisjoint
<1>5. CASE MarkReady(p)
  BY <1>0, <1>5, OthersKeepDisjoint DEF MarkReady, Goto, locals, history, TypeOK
<1>6. CASE Encode(p)
  BY <1>0, <1>6, OthersKeepDisjoint DEF Encode, Goto, locals, history, TypeOK
<1>7. CASE Commit(p)
  <2>1. /\ pc' = [pc EXCEPT ![p] = "idle"] /\ op' = [op EXCEPT ![p] = 0]
        /\ np' = [np EXCEPT ![p] = 0] /\ UNCHANGED <<pad, w, total, tickets>>
        /\ msg' = [msg EXCEPT ![p] = [len |-> 0, data |-> Zero]]
    BY <1>7 DEF Commit, Return, Goto, history
  <2>2. \A q \in Producers : pc'[q] # "idle" =>
          /\ pc[q] # "idle" /\ np'[q] = np[q] /\ msg'[q] = msg[q]
          /\ op'[q] + pad'[q] = op[q] + pad[q]
    BY <1>0, <2>1 DEF TypeOK
  <2>. QED  BY <2>1, <2>2, OthersKeepDisjoint
<1>. QED  BY <1>1, <1>2, <1>3, <1>4, <1>5, <1>6, <1>7 DEF FinishAllocate

\* A consumer's step touches no producer's locals.
LEMMA ConsumerKeepsDisjoint ==
  ASSUME ReservationInv, NEW c \in Consumers, Consume(c) \/ Finalize(c)
  PROVE  BelowW' /\ ReservationsDisjoint'
<1>0. /\ c \in Threads /\ c \notin Producers /\ Producers \subseteq Threads /\ TypeOK
  BY ThreadAssumption DEF Threads, ReservationInv, TypeInv
<1>1. UNCHANGED <<w, total, tickets, msg>>
  BY DEF Consume, Finalize, LoadCursors, AwaitSpace, ReadHeader, Claim, MarkRead,
         Decode, Wipe, Release, LoadEmpty, PeekEmpty, ClearHeader, Advance,
         UnswapHeader, locals, history
<1>2. \A t \in Threads : t # c =>
        pc'[t] = pc[t] /\ op'[t] = op[t] /\ np'[t] = np[t] /\ pad'[t] = pad[t]
  <2>1. CASE LoadCursors(c) \/ AwaitSpace(c) \/ Claim(c) \/ Decode(c)
    BY <1>0, <2>1 DEF LoadCursors, AwaitSpace, Claim, Decode, Goto, TypeOK
  <2>2. CASE ReadHeader(c) \/ ClearHeader(c)
    BY <1>0, <2>2 DEF ReadHeader, ClearHeader, Return, Goto, TypeOK
  <2>3. CASE MarkRead(c) \/ Release(c) \/ UnswapHeader(c)
    BY <1>0, <2>3 DEF MarkRead, Release, UnswapHeader, Goto, locals, TypeOK
  <2>4. CASE Wipe(c) \/ LoadEmpty(c) \/ PeekEmpty(c) \/ Advance(c)
    BY <1>0, <2>4 DEF Wipe, LoadEmpty, PeekEmpty, Advance, GoOn, Goto, TypeOK
  <2>. QED  BY <2>1, <2>2, <2>3, <2>4 DEF Consume, Finalize
<1>. QED  BY <1>0, <1>1, <1>2, OthersKeepDisjoint

\* No two reservations ever overlap, whatever the number of producers and
\* however they interleave, as long as the cursors do not wrap.
THEOREM NoOverlap ==
  ASSUME MaxTraffic < CursorMod
  PROVE  Spec => []ReservationsDisjoint
<1>1. Init => ReservationInv
  <2>. SUFFICES ASSUME Init PROVE ReservationInv
    OBVIOUS
  <2>1. \A p \in Producers : pc[p] = "idle"
    BY DEF Init, Threads
  <2>. QED  BY <2>1, InitTypeInv DEF Init, ReservationInv, BelowW, ReservationsDisjoint
<1>2. ReservationInv /\ [Next]_vars => ReservationInv'
  <2>. SUFFICES ASSUME ReservationInv, [Next]_vars PROVE ReservationInv'
    OBVIOUS
  <2>0. TypeInv
    BY DEF ReservationInv
  <2>1. CASE \E p \in Producers : StartAllocate(p)
    <3>1. PICK p \in Producers, n \in Sizes, contiguous \in Contiguity, d \in DataWords :
            Reserve(p, n, contiguous, d)
      BY <2>1 DEF StartAllocate
    <3>2. TypeInv'
      BY <2>0, <3>1, ReserveType
    <3>3. total' < CursorMod
      BY <3>2, SizeAssumption DEF TypeInv, TypeOK
    <3> QED
      BY <3>1, <3>2, <3>3, ReserveKeepsDisjoint DEF ReservationInv
  <2>2. CASE \E p \in Producers : FinishAllocate(p)
    BY <2>0, <2>2, FinishAllocateType, FinishAllocateKeepsDisjoint DEF ReservationInv
  <2>3. CASE \E c \in Consumers : Consume(c)
    BY <2>0, <2>3, ConsumeType, ConsumerKeepsDisjoint DEF ReservationInv
  <2>4. CASE \E c \in Consumers : Finalize(c)
    BY <2>0, <2>4, FinalizeType, ConsumerKeepsDisjoint DEF ReservationInv
  <2>5. CASE UNCHANGED vars
    BY <2>5 DEF vars, locals, history, ReservationInv, TypeInv, TypeOK,
                PadPending, BelowW, ReservationsDisjoint
  <2>. QED  BY <2>1, <2>2, <2>3, <2>4, <2>5 DEF Next
<1>3. ReservationInv => ReservationsDisjoint
  BY DEF ReservationInv
<1>. QED  BY <1>1, <1>2, <1>3, PTL DEF Spec

-----------------------------------------------------------------------------
(* Positions. *)

\* A remainder is determined by the number and some multiple below it.
LEMMA PosUnique ==
  ASSUME NEW a \in Nat, NEW k \in Int, NEW s \in 0 .. BufWords - 1,
         a = BufWords * k + s
  PROVE  Pos(a) = s
<1> DEFINE q == a \div BufWords
<1>0. BufWords \in Nat /\ BufWords > 0
  BY SizeAssumption
<1>1. q \in Nat /\ a = BufWords * q + Pos(a) /\ Pos(a) \in 0 .. BufWords - 1
  BY <1>0, Z3 DEF Pos
<1> HIDE DEF q
<1>2. Pos(a) - s = BufWords * (k - q)
  <2>1. BufWords * (k - q) = BufWords * k - BufWords * q
    BY <1>0, <1>1
  <2>2. BufWords * k \in Int /\ BufWords * q \in Int
    BY <1>0, <1>1
  <2> QED
    <3> DEFINE bk == BufWords * k
               bq == BufWords * q
               bd == BufWords * (k - q)
    <3>1. /\ bk \in Int /\ bq \in Int /\ bd = bk - bq
          /\ a = bk + s /\ a = bq + Pos(a) /\ s \in Int /\ Pos(a) \in Int
      BY <2>1, <2>2, <1>0, <1>1
    <3> HIDE DEF bk, bq, bd
    <3>2. Pos(a) - s = bd
      BY <3>1
    <3> QED
      BY <3>2 DEF bd
<1>3. k - q < 1
  <2> SUFFICES ASSUME k - q >= 1 PROVE FALSE
    BY <1>1
  <2>1. BufWords * (k - q) >= BufWords * 1
    BY <1>0, <1>1, Z3
  <2> QED
    BY <2>1, <1>0, <1>1, <1>2
<1>4. k - q > -1
  <2> SUFFICES ASSUME q - k >= 1 PROVE FALSE
    BY <1>1
  <2>1. BufWords * (q - k) >= BufWords * 1
    BY <1>0, <1>1, Z3
  <2>2. BufWords * (q - k) = BufWords * q - BufWords * k
    BY <1>0, <1>1
  <2> QED
    BY <2>1, <2>2, <1>0, <1>1
<1>5. k = q
  BY <1>1, <1>3, <1>4
<1> QED
  BY <1>0, <1>1, <1>5

\* Every number lies at its position above some multiple.
LEMMA PosQuotient ==
  ASSUME NEW a \in Nat
  PROVE  \E k \in Nat : a = BufWords * k + Pos(a)
<1>0. BufWords \in Nat /\ BufWords > 0
  BY SizeAssumption
<1>1. a \div BufWords \in Nat /\ a = BufWords * (a \div BufWords) + Pos(a)
  BY <1>0, Z3 DEF Pos
<1> QED
  BY <1>1

\* A position advanced is the position of the cursor advanced.
LEMMA PosShift ==
  ASSUME NEW a \in Nat, NEW i \in Nat
  PROVE  Pos(Pos(a) + i) = Pos(a + i)
<1>0. BufWords \in Nat /\ BufWords > 0
  BY SizeAssumption
<1>1. Pos(a) \in 0 .. BufWords - 1
  BY PosInBuffer
<1>2. PICK k \in Nat : a = BufWords * k + Pos(a)
  BY PosQuotient
<1>3. Pos(a) + i \in Nat
  BY <1>0, <1>1
<1>4. PICK j \in Nat : Pos(a) + i = BufWords * j + Pos(Pos(a) + i)
  BY <1>3, PosQuotient
<1>5. Pos(Pos(a) + i) \in 0 .. BufWords - 1
  BY <1>3, PosInBuffer
<1>6. BufWords * (k + j) = BufWords * k + BufWords * j
  BY <1>0
<1>7. a + i = BufWords * (k + j) + Pos(Pos(a) + i)
  BY <1>0, <1>1, <1>2, <1>4, <1>5, <1>6
<1>8. k + j \in Int /\ a + i \in Nat
  OBVIOUS
<1> QED
  BY <1>5, <1>7, <1>8, PosUnique

\* A whole buffer further on is the same position.
LEMMA PosPeriod ==
  ASSUME NEW a \in Nat
  PROVE  Pos(a + BufWords) = Pos(a)
<1>0. BufWords \in Nat /\ BufWords > 0
  BY SizeAssumption
<1>1. PICK k \in Nat : a = BufWords * k + Pos(a)
  BY PosQuotient
<1>2. Pos(a) \in 0 .. BufWords - 1
  BY PosInBuffer
<1>3. a + BufWords = BufWords * (k + 1) + Pos(a)
  BY <1>0, <1>1, <1>2, Z3
<1>4. k + 1 \in Int /\ a + BufWords \in Nat
  BY <1>0
<1> QED
  BY <1>2, <1>3, <1>4, PosUnique

\* Numbers less than a buffer apart have positions of their own.
LEMMA PosApart ==
  ASSUME NEW a \in Nat, NEW b \in Nat, a < b, b < a + BufWords
  PROVE  Pos(a) # Pos(b)
<1> SUFFICES ASSUME Pos(a) = Pos(b) PROVE FALSE
  OBVIOUS
<1>0. BufWords \in Nat /\ BufWords > 0
  BY SizeAssumption
<1>1. PICK k \in Nat : a = BufWords * k + Pos(a)
  BY PosQuotient
<1>2. PICK j \in Nat : b = BufWords * j + Pos(b)
  BY PosQuotient
<1>3. Pos(a) \in Nat
  BY PosInBuffer
<1>4. b - a = BufWords * (j - k)
  <2>1. BufWords * (j - k) = BufWords * j - BufWords * k
    BY <1>0
  <2> QED
    BY <2>1, <1>0, <1>1, <1>2, <1>3
<1>5. j - k < 1
  <2> SUFFICES ASSUME j - k >= 1 PROVE FALSE
    OBVIOUS
  <2>1. BufWords * (j - k) >= BufWords * 1
    BY <1>0, Z3
  <2> QED
    BY <2>1, <1>0, <1>4
<1>6. j - k > 0
  <2> SUFFICES ASSUME k - j >= 0 PROVE FALSE
    OBVIOUS
  <2>1. BufWords * (k - j) >= 0
    BY <1>0, Z3
  <2>2. BufWords * (k - j) = BufWords * k - BufWords * j
    BY <1>0
  <2> QED
    BY <2>1, <2>2, <1>0, <1>1, <1>2, <1>3
<1> QED
  BY <1>5, <1>6

\* Every position is that of some number in a window of a buffer's length.
LEMMA PosInWindow ==
  ASSUME NEW a \in Nat, NEW b \in Nat
  PROVE  \E x \in Nat : a <= x /\ x < a + BufWords /\ Pos(x) = Pos(b)
<1>0. BufWords \in Nat /\ BufWords > 0
  BY SizeAssumption
<1>1. PICK k \in Nat : a = BufWords * k + Pos(a)
  BY PosQuotient
<1>2. Pos(a) \in 0 .. BufWords - 1 /\ Pos(b) \in 0 .. BufWords - 1
  BY PosInBuffer
<1>3. BufWords * (k + 1) = BufWords * k + BufWords /\ BufWords * k \in Nat
  BY <1>0, Z3
<1>4. CASE Pos(a) <= Pos(b)
  <2> DEFINE x == BufWords * k + Pos(b)
  <2>1. x \in Nat /\ a <= x /\ x < a + BufWords
    BY <1>0, <1>1, <1>2, <1>3, <1>4
  <2>2. Pos(x) = Pos(b)
    BY <2>1, <1>2, PosUnique
  <2> QED
    BY <2>1, <2>2
<1>5. CASE Pos(b) < Pos(a)
  <2> DEFINE x == BufWords * (k + 1) + Pos(b)
  <2>1. x \in Nat /\ a <= x /\ x < a + BufWords
    BY <1>0, <1>1, <1>2, <1>3, <1>5
  <2>2. k + 1 \in Int
    OBVIOUS
  <2>3. Pos(x) = Pos(b)
    BY <2>1, <2>2, <1>2, PosUnique
  <2> QED
    BY <2>1, <2>3
<1> QED
  BY <1>2, <1>4, <1>5

\* Cursors whose difference is at position 0 are at the same position.
LEMMA PosOfDifference ==
  ASSUME NEW a \in Nat, NEW b \in Nat, a <= b, Pos(b - a) = 0
  PROVE  Pos(a) = Pos(b)
<1>1. b - a \in Nat
  OBVIOUS
<1>2. Pos(Pos(b - a) + a) = Pos((b - a) + a)
  BY <1>1, PosShift
<1>3. (b - a) + a = b /\ 0 + a = a
  OBVIOUS
<1> QED
  BY <1>2, <1>3

-----------------------------------------------------------------------------
(* The invariant. *)

\* The payload cannot be taken for a header that is ready to clear.
PlainData == \A d \in DataWords : ~(d.state = "empty" /\ d.type = "jump")

BeforeWrap == total + BufWords < CursorMod

\* The word a number stands for, while it is in e - BufWords .. e - 1.
W(x) == mem[Pos(x)]

\* A producer that has reserved and not yet stored its header; a finalizer that
\* has zeroed a header and not yet moved e.
Ahead == {"peek", "lap", "pad", "reload", "wait"}
Holder(c) == pc[c] \in {"advance", "unswap"}

End(t) == t.at + 1 + t.len
Inside(t) == t.at + 1 .. t.at + t.len
Live(t) == e <= t.at + BufWords

MsgTicket(p) ==
  [at |-> op[p] + pad[p], len |-> msg[p].len, type |-> "normal", data |-> msg[p].data]
PadTicket(p) == [at |-> op[p], len |-> pad[p] - 1, type |-> "pad", data |-> Zero]

\* The header of a message that is committed, being read, and finalized.
Sealed(t) == [state |-> "full", type |-> t.type, size |-> t.len]
Opened(t) == [state |-> "mid_read", type |-> t.type, size |-> t.len]
Spent(t)  == [state |-> "empty", type |-> "jump", size |-> t.len]

(* Where the cursors and the threads are. *)

Roles ==
  /\ \A p \in Producers : pc[p] \in Ahead \cup {"idle", "encode", "commit"}
  /\ \A c \in Consumers : pc[c] \notin Ahead \cup {"encode", "commit"}

\* Messages follow each other without a gap, and begin where a cursor stands.
Boundary(x) == x = w \/ \E t \in tickets : t.at = x

Cover ==
  /\ \A x \in Nat : x < w => \E t \in tickets : t.at <= x /\ x < End(t)
  /\ \A t \in tickets : ~(t.data.state = "empty" /\ t.data.type = "jump")

Cursors ==
  /\ BufWords <= e /\ e <= r + BufWords /\ r <= e /\ r <= w
  /\ Boundary(r) /\ Boundary(e - BufWords)

SeenEmpty == \A t \in Threads : ep[t] <= e

Reserves(p) ==
  /\ r <= op[p]
  /\ MsgTicket(p) \in tickets
  /\ pad[p] > 0 => PadTicket(p) \in tickets /\ pc[p] \in {"peek", "lap", "pad"}
  /\ Encoding(p) => np[p] <= ep[p]

Allocating == \A p \in Producers : pc[p] # "idle" => Reserves(p)

ProducersApart ==
  \A p, q \in Producers : p # q /\ pc[p] # "idle" /\ pc[q] # "idle" =>
    np[p] <= op[q] \/ np[q] <= op[p]

Claims(c) ==
  /\ pc[c] \in {"header", "claim"} => op[c] <= r
  /\ pc[c] = "claim" /\ op[c] = r => r < e /\ W(r) = hd[c] /\ Committed(hd[c])
  /\ pc[c] = "clear" => hd[c].state = "empty" /\ hd[c].type = "jump"

Claiming == \A c \in Consumers : Claims(c)

ReadersApart ==
  \A c, d \in Consumers : c # d /\ Reading(c) /\ Reading(d) => op[c] # op[d]

HoldersApart ==
  \A c, d \in Consumers : c # d /\ Holder(c) /\ Holder(d) => Pos(ep[c]) # Pos(ep[d])

(* What is stored where. *)

\* Space that a producer waits for is clean as far as e has come.
Waits(p) == \A x \in Nat : op[p] <= x /\ x < np[p] /\ x < e => W(x) = Zero

Writes(p) ==
  /\ W(op[p]).state = "empty" /\ W(op[p]).type = "pad" /\ W(op[p]).size = hd[p].size
  /\ \A x \in op[p] + 1 .. op[p] + msg[p].len :
       W(x) = IF pc[p] = "encode" THEN Zero ELSE msg[p].data

ReadBy(t, c) ==
  /\ t.at = op[c] /\ Live(t) /\ t.at < r
  /\ hd[c].size = t.len /\ hd[c].type = t.type
  /\ W(t.at) = IF pc[c] = "mark" THEN Sealed(t) ELSE Opened(t)
  /\ pc[c] = "mark" => hd[c] = Sealed(t)
  /\ \A x \in Inside(t) : W(x) = IF pc[c] = "release" THEN Zero ELSE t.data
  /\ pc[c] = "wipe" /\ t.type = "normal" /\ t.len > 0 => seen[c] = {t.data}

HeldBy(t, c) ==
  /\ Live(t) /\ t.at < r /\ Pos(ep[c]) = Pos(t.at)
  /\ W(t.at) = Zero /\ hd[c] = Spent(t)

ProducerWords ==
  \A p \in Producers : (pc[p] \in Ahead => Waits(p)) /\ (Encoding(p) => Writes(p))

ConsumerWords ==
  \A c \in Consumers :
    /\ Reading(c) => \E t \in tickets : ReadBy(t, c)
    /\ Holder(c) => \E t \in tickets : HeldBy(t, c)

\* A message that is committed and not claimed, and one that is finalized.
Sent(t) ==
  t \notin Pending /\ r <= t.at =>
    /\ End(t) <= e
    /\ W(t.at) = Sealed(t)
    /\ \A x \in Inside(t) : W(x) = t.data

Done(t) ==
  Live(t) /\ t.at < r /\ (\A c \in Consumers : ~(Reading(c) /\ op[c] = t.at)) =>
    /\ W(t.at) = Spent(t) \/ W(t.at) = Zero
    /\ \A x \in Inside(t) : W(x) = Zero

TicketWords == \A t \in tickets : Sent(t) /\ Done(t)

FreeWords == \A x \in Nat : w <= x /\ x < e => W(x) = Zero

Placed == Cover /\ Cursors /\ SeenEmpty
Threading == Roles /\ Allocating /\ ProducersApart /\ Claiming /\ ReadersApart /\ HoldersApart
Stored == ProducerWords /\ ConsumerWords /\ TicketWords /\ FreeWords

SafeInv == ReservationInv /\ Placed /\ Threading /\ Stored
RingInv == TypeInv /\ (BeforeWrap => SafeInv)

-----------------------------------------------------------------------------
(* Facts about the state that the steps below rely on. *)

\* Cursors are numbers, and so is everything computed from them.
LEMMA Numbers ==
  ASSUME SafeInv
  PROVE  /\ w \in Nat /\ r \in Nat /\ e \in Nat /\ w = total
         /\ BufWords \in Nat /\ BufWords > 0
         /\ \A t \in Threads :
              /\ op[t] \in Nat /\ np[t] \in Nat /\ ep[t] \in Nat /\ pad[t] \in Nat
              /\ hd[t] \in Word /\ msg[t].len \in Nat /\ msg[t].data \in Word
         /\ \A t \in tickets :
              /\ t.at \in Nat /\ t.len \in Nat /\ End(t) <= w
              /\ t.data \in Word /\ t.type \in Types
<1>1. TypeOK /\ BelowW
  BY DEF SafeInv, ReservationInv, TypeInv
<1>2. (\A c \in Cursor : c \in Nat) /\ BufWords \in Nat /\ BufWords > 0
  BY SizeAssumption DEF Cursor
<1>3. \A t \in Threads : msg[t] \in [len : 0 .. BufWords - 1, data : Word]
  BY <1>1 DEF TypeOK
<1>4. \A t \in tickets : t \in [at : Cursor, len : 0 .. BufWords - 1, type : Types, data : Word]
  BY <1>1 DEF TypeOK
<1>5. /\ w \in Cursor /\ r \in Cursor /\ e \in Cursor /\ w = total
      /\ \A t \in Threads : op[t] \in Cursor /\ np[t] \in Cursor /\ ep[t] \in Cursor
                           /\ pad[t] \in 0 .. BufWords /\ hd[t] \in Word
  BY <1>1 DEF TypeOK, BelowW
<1>6. \A t \in Threads :
        /\ op[t] \in Nat /\ np[t] \in Nat /\ ep[t] \in Nat /\ pad[t] \in Nat
        /\ hd[t] \in Word /\ msg[t].len \in Nat /\ msg[t].data \in Word
  <2> SUFFICES ASSUME NEW t \in Threads
               PROVE  /\ op[t] \in Nat /\ np[t] \in Nat /\ ep[t] \in Nat /\ pad[t] \in Nat
                      /\ hd[t] \in Word /\ msg[t].len \in Nat /\ msg[t].data \in Word
    OBVIOUS
  <2>1. op[t] \in Nat /\ np[t] \in Nat /\ ep[t] \in Nat /\ pad[t] \in Nat /\ hd[t] \in Word
    BY <1>2, <1>5
  <2>2. msg[t] \in [len : 0 .. BufWords - 1, data : Word]
    BY <1>3
  <2> QED
    BY <2>1, <2>2
<1>7. \A t \in tickets : t.at \in Nat /\ t.len \in Nat /\ t.data \in Word /\ t.type \in Types
  <2> SUFFICES ASSUME NEW t \in tickets
               PROVE  t.at \in Nat /\ t.len \in Nat /\ t.data \in Word /\ t.type \in Types
    OBVIOUS
  <2>1. t \in [at : Cursor, len : 0 .. BufWords - 1, type : Types, data : Word]
    BY <1>4
  <2>2. t.at \in Cursor /\ t.len \in 0 .. BufWords - 1 /\ t.data \in Word /\ t.type \in Types
    BY <2>1
  <2> QED
    BY <1>2, <2>2
<1>8. \A t \in tickets : End(t) <= w
  BY <1>1 DEF BelowW, End
<1> QED
  BY <1>2, <1>5, <1>6, <1>7, <1>8

\* Two messages lie apart, and one begins at each place where another may.
LEMMA TicketsApart ==
  ASSUME SafeInv, NEW t \in tickets, NEW u \in tickets
  PROVE  /\ t # u => End(t) <= u.at \/ End(u) <= t.at
         /\ t.at = u.at => t = u
         /\ t.at < u.at => End(t) <= u.at
<1>1. t # u => End(t) <= u.at \/ End(u) <= t.at
  BY DEF SafeInv, ReservationInv, ReservationsDisjoint, End
<1> QED
  BY <1>1, Numbers DEF End

\* A ticket that begins before a boundary also ends at or before it.
LEMMA BoundaryBelow ==
  ASSUME SafeInv, NEW x \in Nat, Boundary(x), NEW t \in tickets, t.at < x
  PROVE  End(t) <= x
  BY Numbers, TicketsApart DEF Boundary

\* Where a ticket ends, the next one or the free part begins.
LEMMA NextBoundary ==
  ASSUME SafeInv, NEW t \in tickets
  PROVE  Boundary(End(t))
<1>0. /\ t.at \in Nat /\ t.len \in Nat /\ w \in Nat /\ End(t) <= w
  BY Numbers
<1>1. CASE End(t) = w
  BY <1>1 DEF Boundary
<1>2. CASE End(t) < w
  <2>1. End(t) \in Nat
    BY <1>0 DEF End
  <2>2. PICK u \in tickets : u.at <= End(t) /\ End(t) < End(u)
    BY <1>2, <2>1 DEF SafeInv, Placed, Cover
  <2>3. u.at \in Nat /\ u.len \in Nat
    BY Numbers
  <2>4. End(t) <= u.at
    BY <1>0, <2>1, <2>2, <2>3, TicketsApart DEF End
  <2> QED
    BY <2>1, <2>2, <2>3, <2>4 DEF Boundary
<1> QED
  BY <1>0, <1>1, <1>2 DEF End

\* What a producer has reserved, as numbers and as messages.
LEMMA Reservation ==
  ASSUME SafeInv, NEW p \in Producers, pc[p] # "idle"
  PROVE  /\ p \in Threads
         /\ op[p] + pad[p] + 1 + msg[p].len = np[p] /\ np[p] <= w
         /\ r <= op[p] /\ e <= op[p] + BufWords
         /\ MsgTicket(p) \in tickets
         /\ pad[p] > 0 => PadTicket(p) \in tickets /\ pc[p] \in {"peek", "lap", "pad"}
         /\ Encoding(p) => np[p] <= ep[p] /\ np[p] <= e
         /\ pc[p] \notin Ahead => Encoding(p)
         /\ MsgTicket(p) \in Pending /\ (pad[p] > 0 => PadTicket(p) \in Pending)
<1>0. p \in Threads
  BY DEF Threads
<1>1. Reserves(p) /\ pc[p] \in Ahead \cup {"encode", "commit"}
  BY DEF SafeInv, Threading, Allocating, Roles
<1>2. op[p] + pad[p] + 1 + msg[p].len = np[p] /\ np[p] <= w
  BY DEF SafeInv, ReservationInv, ReservationsDisjoint
<1>3. ep[p] <= e /\ e <= r + BufWords
  BY <1>0 DEF SafeInv, Placed, Cursors, SeenEmpty
<1>4. Encoding(p) => np[p] <= ep[p] /\ np[p] <= e
  BY <1>0, <1>1, <1>3, Numbers DEF Reserves
<1>5. r <= op[p] /\ e <= op[p] + BufWords
  BY <1>0, <1>1, <1>3, Numbers DEF Reserves
<1>6. MsgTicket(p) \in Pending /\ (pad[p] > 0 => PadTicket(p) \in Pending)
  BY <1>1 DEF Reserves, Pending, MsgTicket, PadTicket
<1> QED
  BY <1>0, <1>1, <1>2, <1>4, <1>5, <1>6 DEF Reserves, Encoding

\* The messages that are reserved and not committed are the producers'.
LEMMA PendingTickets ==
  ASSUME SafeInv, NEW t \in Pending
  PROVE  \E p \in Producers :
           pc[p] # "idle" /\ (t = MsgTicket(p) \/ (pad[p] > 0 /\ t = PadTicket(p)))
<1>1. PICK p \in Producers : pc[p] # "idle"
                             /\ (t.at = op[p] + pad[p] \/ (pad[p] > 0 /\ t.at = op[p]))
  BY DEF Pending
<1>2. t \in tickets
  BY DEF Pending
<1>3. MsgTicket(p) \in tickets /\ (pad[p] > 0 => PadTicket(p) \in tickets)
  BY <1>1, Reservation
<1>4. MsgTicket(p).at = op[p] + pad[p] /\ PadTicket(p).at = op[p]
  BY DEF MsgTicket, PadTicket
<1> QED
  BY <1>1, <1>2, <1>3, <1>4, TicketsApart

\* A word of a message that a thread has reserved lies in its reservation.
LEMMA ReservationSpan ==
  ASSUME SafeInv, NEW p \in Producers, pc[p] # "idle"
  PROVE  /\ MsgTicket(p).at = op[p] + pad[p] /\ End(MsgTicket(p)) = np[p]
         /\ PadTicket(p).at = op[p]
         /\ pad[p] > 0 => End(PadTicket(p)) = op[p] + pad[p]
<1>1. /\ p \in Threads
      /\ op[p] + pad[p] + 1 + msg[p].len = np[p]
  BY Reservation
<1>2. op[p] \in Nat /\ pad[p] \in Nat /\ msg[p].len \in Nat
  BY <1>1, Numbers
<1>3. /\ MsgTicket(p).at = op[p] + pad[p] /\ MsgTicket(p).len = msg[p].len
      /\ PadTicket(p).at = op[p] /\ PadTicket(p).len = pad[p] - 1
  BY DEF MsgTicket, PadTicket
<1> QED
  BY <1>1, <1>2, <1>3 DEF End

-----------------------------------------------------------------------------
(* Stores. *)

\* Numbers in the window have words of their own.
LEMMA OneWord ==
  ASSUME SafeInv, NEW x \in Nat, NEW y \in Nat,
         e <= x + BufWords, x < e, e <= y + BufWords, y < e, x # y
  PROVE  Pos(x) # Pos(y)
<1>1. CASE x < y
  BY <1>1, Numbers, PosApart
<1>2. CASE y < x
  BY <1>2, Numbers, PosApart
<1> QED
  BY <1>1, <1>2

\* The step changes words only for the numbers a .. b - 1 of the window.
ChangesOnly(a, b) ==
  \A x \in Nat : e <= x + BufWords /\ x < e /\ ~(a <= x /\ x < b) => W(x)' = W(x)

\* A store through a cursor changes the word of one number, whatever lap the
\* cursor is of.
LEMMA StoreChanges ==
  ASSUME SafeInv, NEW x \in Nat, e <= x + BufWords, x < e,
         NEW c \in Nat, Pos(c) = Pos(x), NEW word, Store(c, word)
  PROVE  W(x)' = word /\ ChangesOnly(x, x + 1)
<1>1. mem \in [0 .. BufWords - 1 -> Word]
  BY DEF SafeInv, ReservationInv, TypeInv, TypeOK
<1>2. mem' = [mem EXCEPT ![Pos(x)] = word] /\ Pos(x) \in 0 .. BufWords - 1
  BY PosInBuffer DEF Store
<1>3. W(x)' = word
  BY <1>1, <1>2 DEF W
<1>4. ASSUME NEW y \in Nat, e <= y + BufWords, y < e, ~(x <= y /\ y < x + 1)
      PROVE  W(y)' = W(y)
  <2>1. Pos(y) # Pos(x)
    BY <1>4, OneWord
  <2> QED
    BY <1>1, <1>2, <2>1 DEF W
<1> QED
  BY <1>3, <1>4 DEF ChangesOnly

\* The body of a message at c.
LEMMA BodyPositions ==
  ASSUME NEW c \in Nat, NEW n \in Nat
  PROVE  /\ Body(c, n) = {Pos(x) : x \in c + 1 .. c + n}
         /\ Region(c, n) = {Pos(x) : x \in c .. c + n}
<1>1. \A i \in 1 .. n : Pos(Pos(c) + i) = Pos(c + i)
  BY PosShift
<1>2. Body(c, n) = {Pos(x) : x \in c + 1 .. c + n}
  <2>1. ASSUME NEW y \in Body(c, n) PROVE y \in {Pos(x) : x \in c + 1 .. c + n}
    BY <1>1 DEF Body
  <2>2. ASSUME NEW x \in c + 1 .. c + n PROVE Pos(x) \in Body(c, n)
    <3>1. x - c \in 1 .. n /\ c + (x - c) = x
      OBVIOUS
    <3> QED
      BY <1>1, <3>1 DEF Body
  <2> QED
    BY <2>1, <2>2
<1>3. {Pos(c)} \cup {Pos(x) : x \in c + 1 .. c + n} = {Pos(x) : x \in c .. c + n}
  OBVIOUS
<1> QED
  BY <1>2, <1>3 DEF Region

\* A fill of the words after a header changes the words of those numbers and no
\* others.
LEMMA BodyChanges ==
  ASSUME SafeInv, NEW c \in Nat, NEW n \in Nat, NEW v,
         e <= c + BufWords, c + 1 + n <= e,
         mem' = [x \in DOMAIN mem |-> IF x \in Body(c, n) THEN v ELSE mem[x]]
  PROVE  (\A x \in c + 1 .. c + n : W(x)' = v) /\ ChangesOnly(c + 1, c + 1 + n)
<1>1. DOMAIN mem = 0 .. BufWords - 1
  BY DEF SafeInv, ReservationInv, TypeInv, TypeOK
<1>2. \A x \in Nat : Pos(x) \in DOMAIN mem
  BY <1>1, PosInBuffer
<1>3. ASSUME NEW x \in c + 1 .. c + n PROVE W(x)' = v
  <2>1. x \in Nat /\ Pos(x) \in Body(c, n)
    BY BodyPositions
  <2> QED
    BY <1>2, <2>1 DEF W
<1>4. ASSUME NEW y \in Nat, e <= y + BufWords, y < e, ~(c + 1 <= y /\ y < c + 1 + n)
      PROVE  W(y)' = W(y)
  <2>1. ASSUME NEW x \in c + 1 .. c + n PROVE Pos(x) # Pos(y)
    <3>1. x \in Nat /\ e <= x + BufWords /\ x < e /\ x # y
      BY <1>4, Numbers
    <3> QED
      BY <1>4, <3>1, OneWord
  <2>2. Pos(y) \notin Body(c, n)
    BY <2>1, BodyPositions
  <2> QED
    BY <1>2, <2>2 DEF W
<1> QED
  BY <1>3, <1>4 DEF ChangesOnly

-----------------------------------------------------------------------------
(* What a step leaves alone. *)

\* The step changes nothing of thread t.
Stays(t) ==
  /\ pc'[t] = pc[t] /\ op'[t] = op[t] /\ np'[t] = np[t] /\ pad'[t] = pad[t]
  /\ ep'[t] = ep[t] /\ hd'[t] = hd[t] /\ msg'[t] = msg[t] /\ seen'[t] = seen[t]

\* A step of one thread leaves the other threads where they are.
LEMMA OthersStay ==
  ASSUME TypeOK, NEW u \in Threads, NEW t \in Threads, t # u,
         StartAllocate(u) \/ FinishAllocate(u) \/ Consume(u) \/ Finalize(u)
  PROVE  Stays(t)
<1>1. CASE StartAllocate(u)
  BY <1>1 DEF StartAllocate, Reserve, Goto, Stays, TypeOK
<1>2. CASE FinishAllocate(u)
  <2>1. CASE LoadHeader(u) \/ WaitForLap(u) \/ Spin(u)
    BY <2>1 DEF LoadHeader, WaitForLap, Spin, Goto, Stays, TypeOK
  <2>2. CASE WritePad(u) \/ MarkReady(u) \/ Encode(u)
    BY <2>2 DEF WritePad, MarkReady, Encode, Goto, locals, Stays, TypeOK
  <2>3. CASE Commit(u)
    BY <2>3 DEF Commit, Return, Goto, Stays, TypeOK
  <2> QED
    BY <1>2, <2>1, <2>2, <2>3 DEF FinishAllocate
<1>3. CASE Consume(u)
  <2>1. CASE LoadCursors(u) \/ AwaitSpace(u) \/ Claim(u)
    BY <2>1 DEF LoadCursors, AwaitSpace, Claim, Goto, Stays, TypeOK
  <2>2. CASE ReadHeader(u)
    BY <2>2 DEF ReadHeader, Return, Goto, Stays, TypeOK
  <2>3. CASE MarkRead(u) \/ Decode(u)
    BY <2>3 DEF MarkRead, Decode, Goto, locals, Stays, TypeOK
  <2> QED
    BY <1>3, <2>1, <2>2, <2>3 DEF Consume
<1>4. CASE Finalize(u)
  <2>1. CASE Wipe(u) \/ Release(u) \/ LoadEmpty(u) \/ PeekEmpty(u)
    BY <2>1 DEF Wipe, Release, LoadEmpty, PeekEmpty, Goto, locals, Stays, TypeOK
  <2>2. CASE ClearHeader(u)
    BY <2>2 DEF ClearHeader, Return, Goto, Stays, TypeOK
  <2>3. CASE Advance(u) \/ UnswapHeader(u)
    BY <2>3 DEF Advance, GoOn, UnswapHeader, Goto, locals, Stays, TypeOK
  <2> QED
    BY <1>4, <2>1, <2>2, <2>3 DEF Finalize
<1> QED
  BY <1>1, <1>2, <1>3, <1>4

\* Stores to one message leave the words of the others as they were.
LEMMA OtherTickets ==
  ASSUME SafeInv, NEW m \in tickets, ChangesOnly(m.at, End(m)),
         NEW t \in tickets, t # m, Live(t), NEW x \in Nat, t.at <= x, x < End(t), x < e
  PROVE  W(x)' = W(x)
<1>1. ~(m.at <= x /\ x < End(m))
  BY Numbers, TicketsApart DEF End
<1>2. e <= x + BufWords
  BY Numbers DEF Live
<1> QED
  BY <1>1, <1>2 DEF ChangesOnly

\* A write inside a ticket leaves the free words as they are.
LEMMA OtherFree ==
  ASSUME SafeInv, NEW m \in tickets, ChangesOnly(m.at, End(m)),
         NEW x \in Nat, w <= x, x < e
  PROVE  W(x)' = W(x)
<1>1. ~(m.at <= x /\ x < End(m))
  BY Numbers DEF End
<1>2. e <= x + BufWords
  BY Numbers DEF SafeInv, Placed, Cursors
<1> QED
  BY <1>1, <1>2 DEF ChangesOnly

\* The space of a producer, unless the message is one of its own.
NotOf(m, p) == m # MsgTicket(p) /\ (pad[p] > 0 => m # PadTicket(p))

\* A write inside a ticket leaves the reservations that ticket is not of as
\* they are.
LEMMA OtherReservation ==
  ASSUME SafeInv, NEW m \in tickets, ChangesOnly(m.at, End(m)),
         NEW p \in Producers, pc[p] # "idle", NotOf(m, p),
         NEW x \in Nat, op[p] <= x, x < np[p], x < e
  PROVE  W(x)' = W(x)
<1>0. /\ p \in Threads /\ MsgTicket(p) \in tickets /\ e <= op[p] + BufWords
      /\ pad[p] > 0 => PadTicket(p) \in tickets
      /\ MsgTicket(p).at = op[p] + pad[p] /\ End(MsgTicket(p)) = np[p]
      /\ PadTicket(p).at = op[p]
      /\ pad[p] > 0 => End(PadTicket(p)) = op[p] + pad[p]
  BY Reservation, ReservationSpan
<1>1. op[p] \in Nat /\ pad[p] \in Nat /\ np[p] \in Nat /\ e \in Nat /\ BufWords \in Nat
  BY <1>0, Numbers
<1>2. CASE op[p] + pad[p] <= x
  <2>1. Live(MsgTicket(p))
    BY <1>0, <1>1 DEF Live
  <2> QED
    BY <1>0, <1>2, <2>1, OtherTickets DEF NotOf
<1>3. CASE x < op[p] + pad[p]
  <2>1. pad[p] > 0 /\ PadTicket(p) \in tickets /\ Live(PadTicket(p))
    BY <1>0, <1>1, <1>3 DEF Live
  <2> QED
    BY <1>0, <1>3, <2>1, OtherTickets DEF NotOf
<1> QED
  BY <1>1, <1>2, <1>3

\* The message that thread u stores to is nobody else's, and u has no other.
Alone(u, m) ==
  /\ \A p \in Producers : p # u /\ pc[p] # "idle" => NotOf(m, p)
  /\ \A c \in Consumers : c # u /\ Reading(c) => op[c] # m.at
  /\ \A c \in Consumers : c # u /\ Holder(c) => Pos(ep[c]) # Pos(m.at)
  /\ u \in Consumers /\ Reading(u) => op[u] = m.at

\* Such a step keeps what the invariant says of the other threads' words, of
\* the other messages and of free space.
LEMMA OthersKeep ==
  ASSUME SafeInv, NEW u \in Threads, NEW m \in tickets, Alone(u, m),
         \A t \in Threads : t # u => Stays(t),
         ChangesOnly(m.at, End(m)), UNCHANGED <<w, r, e, tickets>>
  PROVE  /\ \A p \in Producers : p # u =>
              (pc'[p] \in Ahead => Waits(p)') /\ (Encoding(p)' => Writes(p)')
         /\ \A c \in Consumers : c # u =>
              /\ Reading(c)' => \E t \in tickets' : ReadBy(t, c)'
              /\ Holder(c)' => \E t \in tickets' : HeldBy(t, c)'
         /\ \A t \in tickets : t # m => Done(t)'
         /\ Pending \subseteq Pending' \cup {m} => \A t \in tickets : t # m => Sent(t)'
         /\ FreeWords'
<1>0. Producers \subseteq Threads /\ Consumers \subseteq Threads
  BY DEF Threads
<1>1. ASSUME NEW p \in Producers, p # u, pc'[p] \in Ahead
      PROVE  Waits(p)'
  <2>1. Stays(p) /\ pc[p] \in Ahead /\ pc[p] # "idle" /\ NotOf(m, p)
    BY <1>0, <1>1 DEF Stays, Ahead, Alone
  <2>2. ASSUME NEW x \in Nat, op[p] <= x, x < np[p], x < e PROVE W(x)' = Zero
    <3>1. W(x)' = W(x)
      BY <2>1, <2>2, OtherReservation
    <3>2. Waits(p)
      BY <2>1 DEF SafeInv, Stored, ProducerWords
    <3> QED
      BY <2>2, <3>1, <3>2 DEF Waits
  <2> QED
    BY <2>1, <2>2 DEF Waits, Stays
<1>2. ASSUME NEW p \in Producers, p # u, Encoding(p)'
      PROVE  Writes(p)'
  <2>1. Stays(p) /\ Encoding(p) /\ pc[p] # "idle" /\ NotOf(m, p) /\ Writes(p)
    BY <1>0, <1>2 DEF Stays, Encoding, Alone, SafeInv, Stored, ProducerWords
  <2>2. /\ op[p] + pad[p] + 1 + msg[p].len = np[p] /\ np[p] <= e /\ pad[p] = 0
        /\ op[p] \in Nat /\ msg[p].len \in Nat /\ e \in Nat /\ np[p] \in Nat
    BY <1>0, <2>1, Reservation, Numbers DEF Encoding
  <2>3. \A x \in op[p] .. op[p] + msg[p].len : W(x)' = W(x)
    BY <2>1, <2>2, OtherReservation
  <2>4. op'[p] = op[p] /\ msg'[p] = msg[p] /\ pc'[p] = pc[p] /\ hd'[p] = hd[p]
    BY <2>1 DEF Stays
  <2>5. W(op[p])' = W(op[p]) /\ \A x \in op[p] + 1 .. op[p] + msg[p].len : W(x)' = W(x)
    BY <2>2, <2>3, <2>4 DEF W
  <2> QED
    BY <2>1, <2>4, <2>5 DEF Writes, W
<1>3. ASSUME NEW c \in Consumers, c # u, Reading(c)'
      PROVE  \E t \in tickets' : ReadBy(t, c)'
  <2>1. Stays(c) /\ Reading(c) /\ op[c] # m.at
    BY <1>0, <1>3 DEF Stays, Reading, Alone
  <2>2. PICK t \in tickets : ReadBy(t, c)
    BY <2>1 DEF SafeInv, Stored, ConsumerWords
  <2>3. t # m /\ Live(t) /\ t.at < r
    BY <2>1, <2>2 DEF ReadBy
  <2>4. \A x \in t.at .. t.at + t.len : W(x)' = W(x)
    <3>1. End(t) <= e
      BY <2>3, BoundaryBelow, Numbers DEF SafeInv, Placed, Cursors, End
    <3> QED
      BY <2>3, <3>1, OtherTickets, Numbers DEF End
  <2>5. W(t.at)' = W(t.at) /\ \A x \in Inside(t) : W(x)' = W(x)
    BY <2>4, Numbers DEF Inside
  <2>6. pc'[c] = pc[c] /\ op'[c] = op[c] /\ hd'[c] = hd[c] /\ seen'[c] = seen[c]
    BY <2>1 DEF Stays
  <2>7. ReadBy(t, c)'
    BY <2>2, <2>5, <2>6 DEF ReadBy, Live, W, Inside
  <2> QED
    BY <2>7
<1>4. ASSUME NEW c \in Consumers, c # u, Holder(c)'
      PROVE  \E t \in tickets' : HeldBy(t, c)'
  <2>1. Stays(c) /\ Holder(c) /\ Pos(ep[c]) # Pos(m.at)
    BY <1>0, <1>4 DEF Stays, Holder, Alone
  <2>2. PICK t \in tickets : HeldBy(t, c)
    BY <2>1 DEF SafeInv, Stored, ConsumerWords
  <2>3. t # m /\ Live(t) /\ t.at < r /\ t.at < e
    BY <2>1, <2>2, Numbers DEF HeldBy, SafeInv, Placed, Cursors
  <2>4. W(t.at)' = W(t.at)
    BY <2>3, OtherTickets, Numbers DEF End
  <2>5. HeldBy(t, c)'
    BY <2>1, <2>2, <2>4 DEF HeldBy, Live, Stays, W
  <2> QED
    BY <2>5
<1>5. ASSUME NEW t \in tickets, t # m
      PROVE  Done(t)'
  <2> SUFFICES ASSUME Live(t)', (t.at < r)',
                      \A c \in Consumers : ~(Reading(c)' /\ op'[c] = t.at)
               PROVE  /\ W(t.at)' = Spent(t) \/ W(t.at)' = Zero
                      /\ \A x \in Inside(t) : W(x)' = Zero
    BY DEF Done, Inside, Spent
  <2>1. Live(t) /\ t.at < r
    BY DEF Live
  <2>2. ASSUME NEW c \in Consumers PROVE ~(Reading(c) /\ op[c] = t.at)
    <3>1. CASE c = u
      BY <3>1, <1>5, TicketsApart DEF Alone
    <3>2. CASE c # u
      BY <1>0, <3>2 DEF Stays, Reading
    <3> QED
      BY <3>1, <3>2
  <2>3. /\ W(t.at) = Spent(t) \/ W(t.at) = Zero
        /\ \A x \in Inside(t) : W(x) = Zero
    BY <2>1, <2>2 DEF SafeInv, Stored, TicketWords, Done
  <2>4. \A x \in t.at .. t.at + t.len : W(x)' = W(x)
    <3>1. End(t) <= e
      BY <2>1, BoundaryBelow, Numbers DEF SafeInv, Placed, Cursors, End
    <3> QED
      BY <1>5, <2>1, <3>1, OtherTickets, Numbers DEF End
  <2> QED
    BY <2>3, <2>4, Numbers DEF Inside
<1>6. ASSUME NEW t \in tickets, t # m, Pending \subseteq Pending' \cup {m}
      PROVE  Sent(t)'
  <2> SUFFICES ASSUME t \notin Pending', r <= t.at
               PROVE  /\ End(t) <= e
                      /\ W(t.at)' = Sealed(t)
                      /\ \A x \in Inside(t) : W(x)' = t.data
    BY DEF Sent, Inside, Sealed, End
  <2>1. t \notin Pending
    BY <1>6
  <2>2. /\ End(t) <= e /\ W(t.at) = Sealed(t)
        /\ \A x \in Inside(t) : W(x) = t.data
    BY <2>1 DEF SafeInv, Stored, TicketWords, Sent
  <2>3. Live(t)
    BY Numbers DEF SafeInv, Placed, Cursors, Live
  <2>4. \A x \in t.at .. t.at + t.len : W(x)' = W(x)
    BY <1>6, <2>2, <2>3, OtherTickets, Numbers DEF End
  <2> QED
    BY <2>2, <2>4, Numbers DEF Inside
<1>7. FreeWords'
  BY OtherFree DEF FreeWords, SafeInv, Stored
<1> QED
  BY <1>1, <1>2, <1>3, <1>4, <1>5, <1>6, <1>7

\* A full header at r is that of a committed message.
LEMMA FullIsCommitted ==
  ASSUME SafeInv, r < e, W(r).state = "full"
  PROVE  \E t \in tickets : t \notin Pending /\ t.at = r
<1>0. /\ r \in Nat /\ e \in Nat /\ w \in Nat
      /\ Boundary(r) /\ "full" # "empty" /\ Zero.state = "empty"
  BY Numbers DEF SafeInv, Placed, Cursors, Zero
<1>1. CASE r = w
  <2>1. W(r) = Zero
    BY <1>0, <1>1 DEF SafeInv, Stored, FreeWords
  <2> QED
    BY <1>0, <2>1
<1>2. CASE \E t \in tickets : t.at = r
  <2>1. PICK t \in tickets : t.at = r
    BY <1>2
  <2>2. ASSUME t \in Pending PROVE FALSE
    <3>1. PICK p \in Producers :
            pc[p] # "idle" /\ (t = MsgTicket(p) \/ (pad[p] > 0 /\ t = PadTicket(p)))
      BY <2>2, PendingTickets
    <3>2. /\ op[p] = r /\ op[p] < np[p] /\ pc[p] \in Ahead \cup {"encode", "commit"}
      BY <2>1, <3>1, Reservation, ReservationSpan, Numbers DEF Encoding
    <3>3. CASE pc[p] \in Ahead
      BY <1>0, <3>2, <3>3 DEF SafeInv, Stored, ProducerWords, Waits
    <3>4. CASE pc[p] \in {"encode", "commit"}
      BY <1>0, <3>2, <3>4 DEF SafeInv, Stored, ProducerWords, Writes, Encoding
    <3> QED
      BY <3>2, <3>3, <3>4
  <2> QED
    BY <2>1, <2>2
<1> QED
  BY <1>0, <1>1, <1>2 DEF Boundary

\* Which messages are pending is a matter of the producers alone.
LEMMA PendingKeeps ==
  ASSUME SafeInv, NEW u \in Threads, UNCHANGED tickets,
         \A t \in Threads : t # u => Stays(t),
         u \in Producers /\ pc[u] # "idle" =>
           pc'[u] # "idle" /\ op'[u] = op[u] /\ pad'[u] = pad[u]
  PROVE  Pending \subseteq Pending'
<1> SUFFICES ASSUME NEW t \in Pending PROVE t \in Pending'
  OBVIOUS
<1>1. PICK p \in Producers : pc[p] # "idle"
                             /\ (t.at = op[p] + pad[p] \/ (pad[p] > 0 /\ t.at = op[p]))
  BY DEF Pending
<1>2. t \in tickets' /\ p \in Threads
  BY DEF Pending, Threads
<1>3. pc'[p] # "idle" /\ op'[p] = op[p] /\ pad'[p] = pad[p]
  BY <1>1, <1>2 DEF Stays
<1> QED
  BY <1>1, <1>2, <1>3 DEF Pending

\* A thread's step keeps the places of the others; what it has to show is that
\* it stays within its own.
LEMMA ThreadsKeep ==
  ASSUME SafeInv, NEW u \in Threads, UNCHANGED <<w, r, e, tickets, total>>,
         \A t \in Threads : t # u => Stays(t),
         ep'[u] <= e,
         u \in Producers =>
           /\ pc'[u] \in Ahead \cup {"idle", "encode", "commit"}
           /\ pc'[u] # "idle" =>
                /\ pc[u] # "idle" /\ Reserves(u)' /\ np'[u] = np[u]
                /\ op[u] <= op'[u] /\ op'[u] \in Nat,
         u \in Consumers =>
           /\ pc'[u] \notin Ahead \cup {"encode", "commit"}
           /\ Claims(u)'
           /\ Reading(u)' => Reading(u) /\ op'[u] = op[u]
           /\ Holder(u)' =>
                \A d \in Consumers : d # u /\ Holder(d) => Pos(ep'[u]) # Pos(ep[d]),
         \A c \in Consumers : c # u /\ pc[c] = "claim" /\ op[c] = r => W(r)' = W(r)
  PROVE  Placed' /\ Threading'
<1>0. /\ Producers \subseteq Threads /\ Consumers \subseteq Threads
      /\ Producers \cap Consumers = {}
  BY ThreadAssumption DEF Threads
<1>1. Placed'
  <2>1. Cover' /\ Cursors'
    BY DEF SafeInv, Placed, Cover, Cursors, Boundary, End
  <2>2. SeenEmpty'
    BY DEF SafeInv, Placed, SeenEmpty, Stays
  <2> QED
    BY <2>1, <2>2 DEF Placed
<1>2. Roles'
  BY <1>0 DEF SafeInv, Threading, Roles, Stays
<1>3. Allocating'
  <2> SUFFICES ASSUME NEW p \in Producers, pc'[p] # "idle" PROVE Reserves(p)'
    BY DEF Allocating
  <2>1. CASE p # u
    <3>1. Stays(p) /\ Reserves(p)
      BY <1>0, <2>1 DEF SafeInv, Threading, Allocating, Stays
    <3> QED
      BY <3>1 DEF Reserves, Stays, MsgTicket, PadTicket, Encoding
  <2> QED
    BY <2>1
<1>4. ProducersApart'
  <2> SUFFICES ASSUME NEW p \in Producers, NEW q \in Producers, p # q,
                      pc'[p] # "idle", pc'[q] # "idle"
               PROVE  np'[p] <= op'[q] \/ np'[q] <= op'[p]
    BY DEF ProducersApart
  <2>1. pc[p] # "idle" /\ pc[q] # "idle"
    BY <1>0 DEF Stays
  <2>2. np[p] <= op[q] \/ np[q] <= op[p]
    BY <2>1 DEF SafeInv, Threading, ProducersApart
  <2>3. /\ np'[p] = np[p] /\ op[p] <= op'[p] /\ np'[q] = np[q] /\ op[q] <= op'[q]
        /\ op[p] \in Nat /\ op[q] \in Nat /\ np[p] \in Nat /\ np[q] \in Nat
        /\ op'[p] \in Nat /\ op'[q] \in Nat
    BY <1>0, Numbers DEF Stays
  <2> QED
    BY <2>2, <2>3
<1>5. Claiming'
  <2> SUFFICES ASSUME NEW c \in Consumers PROVE Claims(c)'
    BY DEF Claiming
  <2>1. CASE c # u
    <3>1. Stays(c) /\ Claims(c)
      BY <1>0, <2>1 DEF SafeInv, Threading, Claiming
    <3> QED
      BY <2>1, <3>1 DEF Claims, Stays, W
  <2> QED
    BY <2>1
<1>6. ReadersApart'
  BY <1>0 DEF SafeInv, Threading, ReadersApart, Reading, Stays
<1>7. HoldersApart'
  BY <1>0 DEF SafeInv, Threading, HoldersApart, Holder, Stays
<1> QED
  BY <1>1, <1>2, <1>3, <1>4, <1>5, <1>6, <1>7 DEF Threading

\* A step that stores nothing keeps what is stored for everybody else.
LEMMA QuietKeeps ==
  ASSUME SafeInv, NEW u \in Threads, UNCHANGED <<w, r, e, tickets, mem>>,
         \A t \in Threads : t # u => Stays(t),
         u \in Consumers /\ Reading(u) => Reading(u)' /\ op'[u] = op[u],
         u \in Producers /\ pc[u] # "idle" =>
           pc'[u] # "idle" /\ op'[u] = op[u] /\ pad'[u] = pad[u],
         u \in Producers => (pc'[u] \in Ahead => Waits(u)') /\ (Encoding(u)' => Writes(u)'),
         u \in Consumers =>
           /\ Reading(u)' => \E t \in tickets : ReadBy(t, u)'
           /\ Holder(u)' => \E t \in tickets : HeldBy(t, u)'
  PROVE  Stored'
<1>0. Producers \subseteq Threads /\ Consumers \subseteq Threads
  BY DEF Threads
<1>1. ProducerWords'
  <2> SUFFICES ASSUME NEW p \in Producers
               PROVE  (pc'[p] \in Ahead => Waits(p)') /\ (Encoding(p)' => Writes(p)')
    BY DEF ProducerWords
  <2>1. CASE p # u
    <3>1. Stays(p) /\ (pc[p] \in Ahead => Waits(p)) /\ (Encoding(p) => Writes(p))
      BY <1>0, <2>1 DEF SafeInv, Stored, ProducerWords
    <3>2. pc'[p] \in Ahead => Waits(p)'
      BY <3>1 DEF Stays, Waits, W
    <3>3. Encoding(p)' => Writes(p)'
      BY <3>1 DEF Stays, Writes, W, Encoding
    <3> QED
      BY <3>2, <3>3
  <2> QED
    BY <2>1
<1>2. ConsumerWords'
  <2> SUFFICES ASSUME NEW c \in Consumers, c # u
               PROVE  /\ Reading(c)' => \E t \in tickets' : ReadBy(t, c)'
                      /\ Holder(c)' => \E t \in tickets' : HeldBy(t, c)'
    BY DEF ConsumerWords
  <2>1. /\ Stays(c) /\ (Reading(c) => \E t \in tickets : ReadBy(t, c))
        /\ Holder(c) => \E t \in tickets : HeldBy(t, c)
    BY <1>0 DEF SafeInv, Stored, ConsumerWords
  <2>2. \A t \in tickets : ReadBy(t, c) => ReadBy(t, c)'
    BY <2>1 DEF ReadBy, Stays, W, Inside, Live
  <2>3. \A t \in tickets : HeldBy(t, c) => HeldBy(t, c)'
    BY <2>1 DEF HeldBy, Stays, W, Live
  <2> QED
    BY <2>1, <2>2, <2>3 DEF Stays, Reading, Holder
<1>3. TicketWords'
  <2> SUFFICES ASSUME NEW t \in tickets PROVE Sent(t)' /\ Done(t)'
    BY DEF TicketWords
  <2>1. Sent(t) /\ Done(t)
    BY DEF SafeInv, Stored, TicketWords
  <2>2. Sent(t)'
    BY <2>1, PendingKeeps DEF Sent, W, Inside, End, Sealed
  <2>3. (\A c \in Consumers : ~(Reading(c)' /\ op'[c] = t.at)) =>
          \A c \in Consumers : ~(Reading(c) /\ op[c] = t.at)
    BY <1>0 DEF Reading, Stays
  <2>4. Done(t)'
    BY <2>1, <2>3 DEF Done, W, Inside, Live, Spent
  <2> QED
    BY <2>2, <2>4
<1>4. FreeWords'
  BY DEF SafeInv, Stored, FreeWords, W
<1> QED
  BY <1>1, <1>2, <1>3, <1>4 DEF Stored

-----------------------------------------------------------------------------
(* Steps of producers. *)

\* What a producer that has a reservation leaves alone.
LEMMA ProducerFrame ==
  ASSUME SafeInv, NEW p \in Producers, FinishAllocate(p)
  PROVE  /\ p \in Threads /\ p \notin Consumers
         /\ \A t \in Threads : t # p => Stays(t)
         /\ UNCHANGED <<w, r, e, tickets, total>>
         /\ pc[p] # "idle"
<1>1. p \in Threads /\ p \notin Consumers
  BY ThreadAssumption DEF Threads
<1>2. TypeOK
  BY DEF SafeInv, ReservationInv, TypeInv
<1>3. UNCHANGED <<w, r, e, tickets, total>> /\ pc[p] # "idle"
  BY DEF FinishAllocate, LoadHeader, WaitForLap, Spin, WritePad, MarkReady, Encode,
         Commit, history
<1> QED
  BY <1>1, <1>2, <1>3, OthersStay

\* Looking at the header, and waiting for space, disturb nothing.
LEMMA WaitingKeeps ==
  ASSUME SafeInv, NEW p \in Producers, LoadHeader(p) \/ WaitForLap(p) \/ Spin(p)
  PROVE  Placed' /\ Threading' /\ Stored'
<1>0. FinishAllocate(p)
  BY DEF FinishAllocate
<1>1. /\ p \in Threads /\ p \notin Consumers /\ pc[p] # "idle"
      /\ \A t \in Threads : t # p => Stays(t)
      /\ UNCHANGED <<w, r, e, tickets, total>>
  BY <1>0, ProducerFrame
<1>2. /\ pc \in [Threads -> PC] /\ ep \in [Threads -> Cursor]
      /\ Reserves(p) /\ ep[p] <= e /\ e \in Nat
  BY <1>1, Numbers DEF SafeInv, ReservationInv, TypeInv, TypeOK, Placed, SeenEmpty,
                       Threading, Allocating
<1>3. UNCHANGED <<mem, op, np, pad, msg>>
  BY DEF LoadHeader, WaitForLap, Spin
<1>4. ep'[p] <= e
  BY <1>1, <1>2 DEF LoadHeader, WaitForLap, Spin
<1>5. /\ pc[p] \in Ahead /\ pc'[p] \in Ahead
      /\ pad[p] > 0 => pc'[p] \in {"peek", "lap", "pad"}
  BY <1>1, <1>2 DEF LoadHeader, WaitForLap, Spin, Goto, Ahead, Reserves
<1>6. Reserves(p)'
  BY <1>1, <1>2, <1>3, <1>5 DEF Reserves, MsgTicket, PadTicket, Encoding, Ahead
<1>7. Placed' /\ Threading'
  <2>1. op[p] \in Nat
    BY <1>1, Numbers
  <2>2. op[p] <= op'[p] /\ op'[p] \in Nat
    BY <1>3, <2>1
  <2>3. \A c \in Consumers : W(r)' = W(r)
    BY <1>1, <1>3 DEF W
  <2> QED
    BY <1>1, <1>3, <1>4, <1>5, <1>6, <2>2, <2>3, ThreadsKeep
<1>8. Stored'
  <2>1. Waits(p)'
    BY <1>1, <1>3, <1>5 DEF SafeInv, Stored, ProducerWords, Waits, W
  <2>2. ~Encoding(p)' /\ pc'[p] # "idle"
    BY <1>5 DEF Encoding, Ahead
  <2>3. UNCHANGED <<w, r, e, tickets, mem>>
    BY <1>1, <1>3
  <2> QED
    BY <1>1, <1>3, <2>1, <2>2, <2>3, QuietKeeps
<1> QED
  BY <1>7, <1>8

\* A stored header and body stay within their message.
LEMMA Widen ==
  ASSUME SafeInv, NEW a \in Nat, NEW b \in Nat, NEW c \in Nat, NEW d \in Nat,
         ChangesOnly(c, d), a <= c, d <= b
  PROVE  ChangesOnly(a, b)
  BY DEF ChangesOnly

\* A producer's messages are nobody else's.
LEMMA ProducerAlone ==
  ASSUME SafeInv, NEW p \in Producers, pc[p] # "idle", NEW m,
         m = MsgTicket(p) \/ (pad[p] > 0 /\ m = PadTicket(p)), m.at < e
  PROVE  /\ m \in tickets /\ m \in Pending /\ Alone(p, m)
         /\ op[p] <= m.at /\ End(m) <= np[p] /\ r <= m.at /\ Live(m)
<1>0. /\ p \in Threads /\ p \notin Consumers
      /\ Producers \subseteq Threads /\ Consumers \subseteq Threads
  BY ThreadAssumption DEF Threads
<1>1. /\ op[p] + pad[p] + 1 + msg[p].len = np[p] /\ np[p] <= w
      /\ r <= op[p] /\ e <= op[p] + BufWords
      /\ m \in tickets /\ m \in Pending
  BY Reservation
<1>2. /\ op[p] \in Nat /\ pad[p] \in Nat /\ np[p] \in Nat /\ msg[p].len \in Nat
      /\ r \in Nat /\ e \in Nat /\ BufWords \in Nat
      /\ m.at \in Nat /\ m.len \in Nat
  BY <1>0, <1>1, Numbers
<1>3. op[p] <= m.at /\ End(m) <= np[p]
  BY <1>1, <1>2, ReservationSpan
<1>4. r <= m.at /\ Live(m)
  BY <1>1, <1>2, <1>3 DEF Live
<1>5. ASSUME NEW q \in Producers, q # p, pc[q] # "idle" PROVE NotOf(m, q)
  <2>1. np[p] <= op[q] \/ np[q] <= op[p]
    BY <1>5 DEF SafeInv, Threading, ProducersApart
  <2>2. /\ op[q] + pad[q] + 1 + msg[q].len = np[q]
        /\ MsgTicket(q).at = op[q] + pad[q] /\ PadTicket(q).at = op[q]
    BY <1>5, Reservation, ReservationSpan
  <2>3. op[q] \in Nat /\ pad[q] \in Nat /\ np[q] \in Nat /\ msg[q].len \in Nat
    BY <1>0, Numbers
  <2>4. m.at < End(m)
    BY <1>2 DEF End
  <2>5. End(m) \in Nat
    BY <1>2 DEF End
  <2>6. m.at # op[q] + pad[q] /\ m.at # op[q]
    BY <1>2, <1>3, <2>1, <2>2, <2>3, <2>4, <2>5
  <2> QED
    BY <2>2, <2>6 DEF NotOf
<1>6. ASSUME NEW c \in Consumers, Reading(c) PROVE op[c] # m.at
  <2>1. PICK t \in tickets : ReadBy(t, c)
    BY <1>6 DEF SafeInv, Stored, ConsumerWords
  <2> QED
    BY <1>2, <1>4, <2>1, Numbers DEF ReadBy
<1>7. ASSUME NEW c \in Consumers, Holder(c) PROVE Pos(ep[c]) # Pos(m.at)
  <2>1. PICK t \in tickets : HeldBy(t, c)
    BY <1>7 DEF SafeInv, Stored, ConsumerWords
  <2>2. t.at \in Nat /\ t.at < r /\ Live(t) /\ t.at < e /\ Pos(ep[c]) = Pos(t.at)
    BY <2>1, <1>2, <1>4, Numbers DEF HeldBy
  <2>3. Pos(t.at) # Pos(m.at)
    BY <1>2, <1>4, <2>2, OneWord DEF Live
  <2> QED
    BY <2>2, <2>3
<1> QED
  BY <1>0, <1>1, <1>3, <1>4, <1>5, <1>6, <1>7 DEF Alone

\* A store to a message not yet committed is not to the one at r that a
\* consumer is about to claim.
LEMMA ClaimUndisturbed ==
  ASSUME SafeInv, UNCHANGED r, NEW m \in Pending, ChangesOnly(m.at, End(m)),
         NEW c \in Consumers, pc[c] = "claim", op[c] = r
  PROVE  W(r)' = W(r)
<1>1. r < e /\ W(r).state = "full"
  BY DEF SafeInv, Threading, Claiming, Claims, Committed
<1>2. PICK t \in tickets : t \notin Pending /\ t.at = r
  BY <1>1, FullIsCommitted
<1>3. m \in tickets /\ t # m
  BY <1>2 DEF Pending
<1>4. Live(t) /\ t.at \in Nat /\ t.at < End(t) /\ t.at < e
  BY <1>1, <1>2, Numbers DEF Live, End, SafeInv, Placed, Cursors
<1>5. W(t.at)' = W(t.at)
  BY <1>3, <1>4, OtherTickets
<1> QED
  BY <1>2, <1>5

\* What a producer has to show of a store.
LEMMA ProducerStores ==
  ASSUME SafeInv, NEW p \in Producers, FinishAllocate(p), NEW m,
         m = MsgTicket(p) \/ (pad[p] > 0 /\ m = PadTicket(p)), m.at < e,
         ChangesOnly(m.at, End(m)),
         ep'[p] <= e,
         pc'[p] \in Ahead \cup {"idle", "encode", "commit"},
         pc'[p] # "idle" =>
           Reserves(p)' /\ np'[p] = np[p] /\ op[p] <= op'[p] /\ op'[p] \in Nat,
         Pending \subseteq Pending' \cup {m},
         pc'[p] \in Ahead => Waits(p)',
         Encoding(p)' => Writes(p)',
         m \notin Pending' =>
           End(m) <= e /\ W(m.at)' = Sealed(m) /\ \A x \in Inside(m) : W(x)' = m.data
  PROVE  Placed' /\ Threading' /\ Stored'
<1>1. /\ p \in Threads /\ p \notin Consumers /\ pc[p] # "idle"
      /\ \A t \in Threads : t # p => Stays(t)
      /\ UNCHANGED <<w, r, e, tickets, total>>
  BY ProducerFrame
<1>2. m \in tickets /\ m \in Pending /\ Alone(p, m) /\ r <= m.at
  BY <1>1, ProducerAlone
<1>3. Placed' /\ Threading'
  <2>1. \A c \in Consumers : pc[c] = "claim" /\ op[c] = r => W(r)' = W(r)
    BY <1>1, <1>2, ClaimUndisturbed
  <2> QED
    BY <1>1, <2>1, ThreadsKeep
<1>4. Stored'
  <2>1. UNCHANGED <<w, r, e, tickets>>
    BY <1>1
  <2>2. /\ \A q \in Producers : q # p =>
             (pc'[q] \in Ahead => Waits(q)') /\ (Encoding(q)' => Writes(q)')
        /\ \A c \in Consumers : c # p =>
             /\ Reading(c)' => \E t \in tickets' : ReadBy(t, c)'
             /\ Holder(c)' => \E t \in tickets' : HeldBy(t, c)'
        /\ \A t \in tickets : t # m => Done(t)'
        /\ \A t \in tickets : t # m => Sent(t)'
        /\ FreeWords'
    BY <1>1, <1>2, <2>1, OthersKeep
  <2>3. ProducerWords'
    BY <2>2 DEF ProducerWords
  <2>4. ConsumerWords'
    BY <1>1, <2>2 DEF ConsumerWords
  <2>5. Sent(m)'
    BY <1>1 DEF Sent, Inside, End, Sealed
  <2>6. Done(m)'
    <3>1. ~(m.at < r)'
      BY <1>1, <1>2, Numbers
    <3> QED
      BY <3>1 DEF Done
  <2>7. TicketWords'
    BY <1>1, <2>2, <2>5, <2>6 DEF TicketWords
  <2> QED
    BY <2>2, <2>3, <2>4, <2>7 DEF Stored
<1> QED
  BY <1>3, <1>4

\* Cursors that do not wrap add up as numbers do.
LEMMA ReservationAdds ==
  ASSUME SafeInv, BeforeWrap, NEW p \in Producers, pc[p] # "idle"
  PROVE  Add(op[p], pad[p]) = op[p] + pad[p]
<1>1. /\ p \in Threads /\ op[p] + pad[p] + 1 + msg[p].len = np[p] /\ np[p] <= w
  BY Reservation
<1>2. op[p] \in Nat /\ pad[p] \in Nat /\ np[p] \in Nat /\ msg[p].len \in Nat /\ w = total
      /\ w \in Nat /\ BufWords \in Nat
  BY <1>1, Numbers
<1>3. CursorMod \in Nat
  BY SizeAssumption
<1>4. op[p] + pad[p] < CursorMod
  BY <1>1, <1>2, <1>3 DEF BeforeWrap
<1> QED
  BY <1>2, <1>4, AddWithoutWrap

\* write_pad: the padding is committed, and the rest of the reservation becomes
\* the message.
LEMMA WritePadKeeps ==
  ASSUME SafeInv, BeforeWrap, NEW p \in Producers, WritePad(p)
  PROVE  Placed' /\ Threading' /\ Stored'
<1>0. FinishAllocate(p) /\ PadPending
  BY DEF FinishAllocate, SafeInv, ReservationInv, TypeInv
<1>1. /\ p \in Threads /\ p \notin Consumers /\ pc[p] = "pad" /\ pc[p] # "idle"
      /\ \A t \in Threads : t # p => Stays(t)
      /\ UNCHANGED <<w, r, e, tickets, total>>
  BY <1>0, ProducerFrame DEF WritePad
<1>2. /\ pad[p] > 0 /\ MsgTicket(p).at = op[p] + pad[p]
      /\ op[p] + pad[p] + 1 + msg[p].len = np[p] /\ Add(op[p], pad[p]) = op[p] + pad[p]
      /\ r <= op[p] /\ e <= op[p] + BufWords /\ MsgTicket(p) \in tickets
      /\ ep[p] <= e
  BY <1>0, <1>1, Reservation, ReservationSpan, ReservationAdds
     DEF PadPending, SafeInv, Placed, SeenEmpty
<1>3. /\ op[p] \in Nat /\ pad[p] \in Nat /\ np[p] \in Nat /\ msg[p].len \in Nat
      /\ r \in Nat /\ e \in Nat /\ BufWords \in Nat /\ ep[p] \in Nat
  BY <1>1, Numbers
<1>4. PICK m : m = PadTicket(p)
  OBVIOUS
<1>5. /\ m.at = op[p] /\ m.len = pad[p] - 1 /\ End(m) = op[p] + pad[p]
      /\ m.type = "pad" /\ m.data = Zero /\ m.at \in Nat /\ m # MsgTicket(p)
  BY <1>1, <1>2, <1>3, <1>4, ReservationSpan DEF PadTicket
<1>6. op[p] + pad[p] <= e /\ m.at < e
  BY <1>2, <1>3, <1>5 DEF WritePad, SpaceFree
<1>7. /\ pc \in [Threads -> PC] /\ op \in [Threads -> Cursor]
      /\ pad \in [Threads -> 0 .. BufWords]
  BY DEF SafeInv, ReservationInv, TypeInv, TypeOK
<1>8. /\ pc'[p] = "reload" /\ op'[p] = op[p] + pad[p] /\ pad'[p] = 0
      /\ np' = np /\ ep' = ep /\ msg' = msg
  BY <1>1, <1>2, <1>7 DEF WritePad, Goto
<1>9. W(m.at)' = Sealed(m) /\ ChangesOnly(m.at, m.at + 1)
  <2>1. Store(m.at, [state |-> "full", type |-> "pad", size |-> pad[p] - 1])
    BY <1>5 DEF WritePad
  <2> QED
    BY <1>2, <1>5, <1>6, <2>1, StoreChanges DEF Sealed
<1>10. ChangesOnly(m.at, End(m))
  <2>1. m.at + 1 \in Nat /\ End(m) \in Nat /\ m.at + 1 <= End(m)
    BY <1>2, <1>3, <1>5
  <2> QED
    BY <1>5, <1>9, <2>1, Widen
<1>11. ASSUME NEW x \in Nat, op[p] < x, x < np[p], x < e
       PROVE  W(x)' = Zero
  <2>1. W(x) = Zero
    BY <1>1, <1>3, <1>11 DEF SafeInv, Stored, ProducerWords, Waits, Ahead
  <2>2. W(x)' = W(x)
    BY <1>2, <1>3, <1>5, <1>9, <1>11 DEF ChangesOnly
  <2> QED
    BY <2>1, <2>2
<1>12. Reserves(p)'
  <2>1. MsgTicket(p)' = MsgTicket(p)
    BY <1>3, <1>8 DEF MsgTicket
  <2> QED
    BY <1>1, <1>2, <1>3, <1>8, <2>1 DEF Reserves, Encoding
<1>13. Waits(p)'
  BY <1>1, <1>2, <1>3, <1>8, <1>11 DEF Waits
<1>14. /\ End(m) <= e
       /\ \A x \in Inside(m) : W(x)' = m.data
  BY <1>2, <1>3, <1>5, <1>6, <1>11 DEF Inside, End
<1>15. Pending \subseteq Pending' \cup {m}
  <2> SUFFICES ASSUME NEW t \in Pending, t # m PROVE t \in Pending'
    OBVIOUS
  <2>1. PICK q \in Producers : pc[q] # "idle"
                               /\ (t.at = op[q] + pad[q] \/ (pad[q] > 0 /\ t.at = op[q]))
    BY DEF Pending
  <2>2. t \in tickets /\ t \in tickets' /\ q \in Threads
    BY <1>1 DEF Pending, Threads
  <2>3. CASE q # p
    <3>1. pc'[q] # "idle" /\ op'[q] = op[q] /\ pad'[q] = pad[q]
      BY <1>1, <2>1, <2>2, <2>3 DEF Stays
    <3> QED
      BY <2>1, <2>2, <3>1 DEF Pending
  <2>4. CASE q = p
    <3>1. m \in tickets
      BY <1>1, <1>2, <1>4, Reservation
    <3>2. t.at # op[p]
      BY <1>5, <2>2, <3>1, TicketsApart
    <3>3. t.at = op'[p] + pad'[p]
      BY <1>3, <1>8, <2>1, <2>4, <3>2
    <3> QED
      BY <1>8, <2>2, <2>4, <3>3 DEF Pending
  <2> QED
    BY <2>3, <2>4
<1> QED
  <2>1. op[p] <= op'[p] /\ op'[p] \in Nat /\ np'[p] = np[p] /\ ep'[p] <= e
    BY <1>2, <1>3, <1>8
  <2>2. pc'[p] \in Ahead /\ pc'[p] # "idle" /\ ~Encoding(p)'
    BY <1>8 DEF Ahead, Encoding
  <2> QED
    BY <1>0, <1>2, <1>4, <1>6, <1>9, <1>10, <1>12, <1>13, <1>14, <1>15, <2>1, <2>2,
       ProducerStores

\* What a producer at its message knows of it.
LEMMA AtMessage ==
  ASSUME SafeInv, NEW p \in Producers, pc[p] \in {"wait", "encode", "commit"}, np[p] <= ep[p],
         NEW m, m = MsgTicket(p)
  PROVE  /\ m.at = op[p] /\ m.len = msg[p].len /\ m.type = "normal" /\ m.data = msg[p].data
         /\ m.at \in Nat /\ m.len \in Nat /\ End(m) \in Nat /\ End(m) = op[p] + 1 + msg[p].len
         /\ pad[p] = 0 /\ np[p] = End(m) /\ m.at < e /\ End(m) <= e /\ e <= m.at + BufWords
         /\ m \in tickets /\ r <= m.at
         /\ op[p] \in Nat /\ msg[p].len \in Nat /\ np[p] \in Nat /\ ep[p] \in Nat /\ e \in Nat
         /\ ep[p] <= e
<1>1. /\ p \in Threads /\ pc[p] # "idle"
      /\ op[p] + pad[p] + 1 + msg[p].len = np[p]
      /\ r <= op[p] /\ e <= op[p] + BufWords
      /\ MsgTicket(p) \in tickets
      /\ pad[p] > 0 => pc[p] \in {"peek", "lap", "pad"}
      /\ MsgTicket(p).at = op[p] + pad[p]
  BY Reservation, ReservationSpan
<1>2. /\ op[p] \in Nat /\ pad[p] \in Nat /\ np[p] \in Nat /\ msg[p].len \in Nat
      /\ r \in Nat /\ e \in Nat /\ BufWords \in Nat /\ ep[p] \in Nat
  BY <1>1, Numbers
<1>3. pad[p] = 0
  BY <1>1, <1>2
<1>4. ep[p] <= e
  BY <1>1 DEF SafeInv, Placed, SeenEmpty
<1>5. /\ m.at = op[p] /\ m.len = msg[p].len /\ m.type = "normal" /\ m.data = msg[p].data
  BY <1>1, <1>2, <1>3 DEF MsgTicket
<1> QED
  BY <1>1, <1>2, <1>3, <1>4, <1>5 DEF End

\* Marking the header ready takes the space into possession.
LEMMA MarkReadyKeeps ==
  ASSUME SafeInv, BeforeWrap, NEW p \in Producers, MarkReady(p)
  PROVE  Placed' /\ Threading' /\ Stored'
<1>0. FinishAllocate(p)
  BY DEF FinishAllocate
<1>1. /\ p \in Threads /\ p \notin Consumers /\ pc[p] = "wait"
      /\ \A t \in Threads : t # p => Stays(t)
      /\ UNCHANGED <<w, r, e, tickets, total>>
  BY <1>0, ProducerFrame DEF MarkReady
<1>2. np[p] <= ep[p]
  BY <1>1, Numbers DEF MarkReady, SpaceFree
<1>3. PICK m : m = MsgTicket(p)
  OBVIOUS
<1>4. /\ m.at = op[p] /\ m.len = msg[p].len
      /\ m.at \in Nat /\ m.len \in Nat /\ End(m) \in Nat /\ End(m) = op[p] + 1 + msg[p].len
      /\ pad[p] = 0 /\ np[p] = End(m) /\ m.at < e /\ End(m) <= e /\ e <= m.at + BufWords
      /\ m \in tickets /\ r <= m.at
      /\ op[p] \in Nat /\ msg[p].len \in Nat /\ np[p] \in Nat /\ ep[p] <= e
      /\ e \in Nat /\ BufWords \in Nat
  BY <1>1, <1>2, <1>3, AtMessage, Numbers
<1>5. pc \in [Threads -> PC] /\ hd[p] \in Word
  BY <1>1, Numbers DEF SafeInv, ReservationInv, TypeInv, TypeOK
<1>6. pc'[p] = "encode" /\ UNCHANGED <<op, np, pad, ep, hd, msg>>
  BY <1>1, <1>5 DEF MarkReady, Goto, locals
<1>7. /\ W(m.at)' = [hd[p] EXCEPT !.state = "empty", !.type = "pad"]
      /\ ChangesOnly(m.at, m.at + 1)
  <2>1. Store(m.at, [hd[p] EXCEPT !.state = "empty", !.type = "pad"])
    BY <1>4 DEF MarkReady
  <2> QED
    BY <1>4, <2>1, StoreChanges
<1>8. ChangesOnly(m.at, End(m))
  <2>1. m.at + 1 \in Nat /\ m.at + 1 <= End(m)
    BY <1>4
  <2> QED
    BY <1>4, <1>7, <2>1, Widen
<1>9. Writes(p)'
  <2>1. W(m.at)'.state = "empty" /\ W(m.at)'.type = "pad" /\ W(m.at)'.size = hd[p].size
    BY <1>5, <1>7 DEF Word
  <2>2. ASSUME NEW x \in m.at + 1 .. m.at + m.len PROVE W(x)' = Zero
    <3>1. x \in Nat /\ op[p] <= x /\ x < np[p] /\ x < e
      BY <1>4
    <3>2. W(x) = Zero
      BY <1>1, <3>1 DEF SafeInv, Stored, ProducerWords, Waits, Ahead
    <3>3. W(x)' = W(x)
      BY <1>4, <1>7, <3>1 DEF ChangesOnly
    <3> QED
      BY <3>2, <3>3
  <2>3. op'[p] = m.at /\ msg'[p].len = m.len
    BY <1>4, <1>6
  <2> QED
    BY <1>6, <2>1, <2>2, <2>3 DEF Writes, W
<1>10. Reserves(p)' /\ op[p] <= op'[p] /\ op'[p] \in Nat /\ np'[p] = np[p] /\ ep'[p] <= e
  BY <1>1, <1>2, <1>3, <1>4, <1>6 DEF Reserves, MsgTicket, Encoding
<1>11. m \in Pending' /\ Pending \subseteq Pending'
  <2>1. pc'[p] # "idle" /\ op'[p] = op[p] /\ pad'[p] = pad[p]
    BY <1>6
  <2>2. UNCHANGED tickets
    BY <1>1
  <2>3. Pending \subseteq Pending'
    BY <1>1, <2>1, <2>2, PendingKeeps
  <2>4. m \in Pending
    BY <1>1, <1>3, Reservation
  <2> QED
    BY <2>3, <2>4
<1> QED
  <2>1. pc'[p] \notin Ahead /\ pc'[p] \in {"encode", "commit"}
    BY <1>6 DEF Ahead
  <2> QED
    BY <1>0, <1>3, <1>4, <1>8, <1>9, <1>10, <1>11, <2>1, ProducerStores

\* Encoding fills the body of the producer's own message.
LEMMA EncodeKeeps ==
  ASSUME SafeInv, BeforeWrap, NEW p \in Producers, Encode(p)
  PROVE  Placed' /\ Threading' /\ Stored'
<1>0. FinishAllocate(p)
  BY DEF FinishAllocate
<1>1. /\ p \in Threads /\ p \notin Consumers /\ pc[p] = "encode"
      /\ \A t \in Threads : t # p => Stays(t)
      /\ UNCHANGED <<w, r, e, tickets, total>>
  BY <1>0, ProducerFrame DEF Encode
<1>2. np[p] <= ep[p] /\ Writes(p)
  BY <1>1, Reservation DEF Encoding, SafeInv, Stored, ProducerWords
<1>3. PICK m : m = MsgTicket(p)
  OBVIOUS
<1>4. /\ m.at = op[p] /\ m.len = msg[p].len /\ m.data = msg[p].data
      /\ m.at \in Nat /\ m.len \in Nat /\ End(m) \in Nat /\ End(m) = op[p] + 1 + msg[p].len
      /\ pad[p] = 0 /\ np[p] = End(m) /\ m.at < e /\ End(m) <= e /\ e <= m.at + BufWords
      /\ m \in tickets /\ r <= m.at
      /\ op[p] \in Nat /\ msg[p].len \in Nat /\ np[p] \in Nat /\ ep[p] <= e
  BY <1>1, <1>2, <1>3, AtMessage
<1>5. pc \in [Threads -> PC]
  BY DEF SafeInv, ReservationInv, TypeInv, TypeOK
<1>6. pc'[p] = "commit" /\ UNCHANGED <<op, np, pad, ep, hd, msg>>
  BY <1>1, <1>5 DEF Encode, Goto, locals
<1>7. /\ \A x \in m.at + 1 .. m.at + m.len : W(x)' = m.data
      /\ ChangesOnly(m.at + 1, m.at + 1 + m.len)
  <2>1. mem' = [x \in DOMAIN mem |-> IF x \in Body(m.at, m.len) THEN m.data ELSE mem[x]]
    BY <1>4 DEF Encode
  <2>2. m.at + 1 + m.len <= e
    BY <1>4
  <2> QED
    BY <1>4, <2>1, <2>2, BodyChanges
<1>8. ChangesOnly(m.at, End(m)) /\ W(m.at)' = W(m.at)
  <2>1. m.at + 1 \in Nat /\ m.at + 1 + m.len \in Nat /\ m.at <= m.at + 1
        /\ m.at + 1 + m.len <= End(m)
    BY <1>4
  <2>2. ChangesOnly(m.at, End(m))
    BY <1>4, <1>7, <2>1, Widen
  <2>3. ~(m.at + 1 <= m.at)
    BY <1>4
  <2> QED
    BY <1>4, <1>7, <2>2, <2>3 DEF ChangesOnly
<1>9. Writes(p)'
  <2>1. W(m.at)'.state = "empty" /\ W(m.at)'.type = "pad" /\ W(m.at)'.size = hd[p].size
    BY <1>2, <1>4, <1>8 DEF Writes
  <2>2. op'[p] = m.at /\ msg'[p].len = m.len /\ msg'[p].data = m.data
    BY <1>4, <1>6
  <2> QED
    BY <1>6, <1>7, <2>1, <2>2 DEF Writes, W
<1>10. Reserves(p)' /\ op[p] <= op'[p] /\ op'[p] \in Nat /\ np'[p] = np[p] /\ ep'[p] <= e
  BY <1>1, <1>2, <1>3, <1>4, <1>6 DEF Reserves, MsgTicket, Encoding
<1>11. m \in Pending' /\ Pending \subseteq Pending'
  <2>1. pc'[p] # "idle" /\ op'[p] = op[p] /\ pad'[p] = pad[p]
    BY <1>6
  <2>2. UNCHANGED tickets
    BY <1>1
  <2>3. Pending \subseteq Pending'
    BY <1>1, <2>1, <2>2, PendingKeeps
  <2>4. m \in Pending
    BY <1>1, <1>3, Reservation
  <2> QED
    BY <2>3, <2>4
<1> QED
  <2>1. pc'[p] \notin Ahead /\ pc'[p] \in {"encode", "commit"}
    BY <1>6 DEF Ahead
  <2> QED
    BY <1>0, <1>3, <1>4, <1>8, <1>9, <1>10, <1>11, <2>1, ProducerStores

\* Committing seals the message.
LEMMA CommitKeeps ==
  ASSUME SafeInv, BeforeWrap, NEW p \in Producers, Commit(p)
  PROVE  Placed' /\ Threading' /\ Stored'
<1>0. FinishAllocate(p)
  BY DEF FinishAllocate
<1>1. /\ p \in Threads /\ p \notin Consumers /\ pc[p] = "commit"
      /\ \A t \in Threads : t # p => Stays(t)
      /\ UNCHANGED <<w, r, e, tickets, total>>
  BY <1>0, ProducerFrame DEF Commit
<1>2. np[p] <= ep[p] /\ Writes(p)
  BY <1>1, Reservation DEF Encoding, SafeInv, Stored, ProducerWords
<1>3. PICK m : m = MsgTicket(p)
  OBVIOUS
<1>4. /\ m.at = op[p] /\ m.len = msg[p].len /\ m.data = msg[p].data /\ m.type = "normal"
      /\ m.at \in Nat /\ m.len \in Nat /\ End(m) \in Nat /\ End(m) = op[p] + 1 + msg[p].len
      /\ pad[p] = 0 /\ np[p] = End(m) /\ m.at < e /\ End(m) <= e /\ e <= m.at + BufWords
      /\ m \in tickets /\ r <= m.at /\ e \in Nat
  BY <1>1, <1>2, <1>3, AtMessage
<1>5. pc \in [Threads -> PC] /\ ep \in [Threads -> Cursor]
  BY DEF SafeInv, ReservationInv, TypeInv, TypeOK
<1>6. pc'[p] = "idle" /\ ep'[p] = 0 /\ ep'[p] <= e
  BY <1>1, <1>4, <1>5 DEF Commit, Return, Goto
<1>7. W(m.at)' = Sealed(m) /\ ChangesOnly(m.at, m.at + 1)
  <2>1. Store(m.at, [state |-> "full", type |-> "normal", size |-> msg[p].len])
    BY <1>4 DEF Commit
  <2> QED
    BY <1>4, <2>1, StoreChanges DEF Sealed
<1>8. ChangesOnly(m.at, End(m))
  <2>1. m.at + 1 \in Nat /\ m.at + 1 <= End(m)
    BY <1>4
  <2> QED
    BY <1>4, <1>7, <2>1, Widen
<1>9. \A x \in Inside(m) : W(x)' = m.data
  <2> SUFFICES ASSUME NEW x \in m.at + 1 .. m.at + m.len PROVE W(x)' = m.data
    BY DEF Inside
  <2>1. W(x) = m.data
    BY <1>1, <1>2, <1>4 DEF Writes
  <2>2. x \in Nat /\ e <= x + BufWords /\ x < e /\ ~(x < m.at + 1)
    BY <1>4, SizeAssumption
  <2> QED
    BY <1>7, <2>1, <2>2 DEF ChangesOnly
<1>10. Pending \subseteq Pending' \cup {m}
  <2> SUFFICES ASSUME NEW t \in Pending, t # m PROVE t \in Pending'
    OBVIOUS
  <2>1. PICK q \in Producers : pc[q] # "idle"
                               /\ (t.at = op[q] + pad[q] \/ (pad[q] > 0 /\ t.at = op[q]))
    BY DEF Pending
  <2>2. t \in tickets /\ t \in tickets' /\ q \in Threads
    BY <1>1 DEF Pending, Threads
  <2>3. q # p
    <3>1. t.at # m.at
      BY <1>4, <2>2, TicketsApart
    <3> QED
      BY <1>4, <2>1, <3>1
  <2>4. pc'[q] # "idle" /\ op'[q] = op[q] /\ pad'[q] = pad[q]
    BY <1>1, <2>1, <2>2, <2>3 DEF Stays
  <2> QED
    BY <2>1, <2>2, <2>4 DEF Pending
<1> QED
  <2>1. pc'[p] \notin Ahead /\ ~Encoding(p)'
    BY <1>6 DEF Ahead, Encoding
  <2> QED
    BY <1>0, <1>3, <1>4, <1>6, <1>7, <1>8, <1>9, <1>10, <2>1, ProducerStores

-----------------------------------------------------------------------------
(* Steps of consumers. *)

\* What a consumer leaves alone.
LEMMA ConsumerFrame ==
  ASSUME SafeInv, NEW c \in Consumers, Consume(c) \/ Finalize(c)
  PROVE  /\ c \in Threads /\ c \notin Producers
         /\ \A t \in Threads : t # c => Stays(t)
         /\ UNCHANGED <<w, tickets, total>>
<1>1. c \in Threads /\ c \notin Producers
  BY ThreadAssumption DEF Threads
<1>2. TypeOK
  BY DEF SafeInv, ReservationInv, TypeInv
<1>3. UNCHANGED <<w, tickets, total>>
  BY DEF Consume, Finalize, LoadCursors, AwaitSpace, ReadHeader, Claim, MarkRead,
         Decode, Wipe, Release, LoadEmpty, PeekEmpty, ClearHeader, Advance,
         UnswapHeader, locals, history
<1> QED
  BY <1>1, <1>2, <1>3, OthersStay

\* What a consumer knows of its own locals.
LEMMA ConsumerLocals ==
  ASSUME SafeInv, NEW c \in Consumers
  PROVE  /\ pc \in [Threads -> PC] /\ op \in [Threads -> Cursor]
         /\ ep \in [Threads -> Cursor] /\ hd \in [Threads -> Word]
         /\ seen \in [Threads -> SUBSET Word]
         /\ ep[c] <= e /\ Claims(c)
         /\ pc[c] \notin Ahead \cup {"encode", "commit"}
         /\ e \in Nat /\ r \in Nat /\ w \in Nat /\ BufWords \in Nat
         /\ op[c] \in Nat /\ ep[c] \in Nat
<1>1. c \in Threads
  BY DEF Threads
<1>2. TypeOK
  BY DEF SafeInv, ReservationInv, TypeInv
<1>3. ep[c] <= e /\ Claims(c) /\ pc[c] \notin Ahead \cup {"encode", "commit"}
  BY <1>1 DEF SafeInv, Placed, SeenEmpty, Threading, Claiming, Roles
<1> QED
  BY <1>1, <1>2, <1>3, Numbers DEF TypeOK

\* Looking for a message, and for something to free, disturbs nothing.
LEMMA LookingKeeps ==
  ASSUME SafeInv, NEW c \in Consumers, Consume(c) \/ Finalize(c),
         UNCHANGED <<r, e, mem>>, ep'[c] <= e,
         ~Reading(c), ~Reading(c)', ~Holder(c)', pc'[c] \notin Ahead \cup {"encode", "commit"},
         Claims(c)'
  PROVE  Placed' /\ Threading' /\ Stored'
<1>1. /\ c \in Threads /\ c \notin Producers
      /\ \A t \in Threads : t # c => Stays(t)
      /\ UNCHANGED <<w, tickets, total>>
  BY ConsumerFrame
<1>2. \A d \in Consumers : W(r)' = W(r)
  BY DEF W
<1>3. UNCHANGED <<w, r, e, tickets, total>> /\ UNCHANGED <<w, r, e, tickets, mem>>
  BY <1>1
<1>4. Placed' /\ Threading'
  BY <1>1, <1>2, <1>3, ThreadsKeep
<1>5. Stored'
  BY <1>1, <1>3, QuietKeeps
<1> QED
  BY <1>4, <1>5

\* The steps up to the claim.
LEMMA PeekingKeeps ==
  ASSUME SafeInv, NEW c \in Consumers,
         LoadCursors(c) \/ AwaitSpace(c) \/ ReadHeader(c) \/ (Claim(c) /\ ~Unclaimed(c))
  PROVE  Placed' /\ Threading' /\ Stored'
<1>0. Consume(c) /\ c \in Threads
  BY DEF Consume, Threads
<1>1. /\ pc \in [Threads -> PC] /\ op \in [Threads -> Cursor]
      /\ ep \in [Threads -> Cursor] /\ hd \in [Threads -> Word]
      /\ ep[c] <= e /\ Claims(c)
      /\ e \in Nat /\ r \in Nat /\ op[c] \in Nat /\ ep[c] \in Nat
  BY ConsumerLocals
<1>2. UNCHANGED <<r, e, mem>>
  BY DEF LoadCursors, AwaitSpace, ReadHeader, Claim
<1>3. CASE LoadCursors(c)
  <2>1. pc'[c] = "header" /\ op'[c] = r /\ ep'[c] = e
    BY <1>0, <1>1, <1>3 DEF LoadCursors, Goto
  <2> QED
    BY <1>0, <1>1, <1>2, <1>3, <2>1, LookingKeeps
       DEF LoadCursors, Claims, Reading, Holder, Ahead
<1>4. CASE AwaitSpace(c)
  <2>1. pc'[c] = "header" /\ pc[c] = "header" /\ op'[c] = op[c] /\ ep'[c] = e
    BY <1>0, <1>1, <1>4 DEF AwaitSpace
  <2> QED
    BY <1>0, <1>1, <1>2, <2>1, LookingKeeps DEF Claims, Reading, Holder, Ahead
<1>5. CASE ReadHeader(c) /\ Committed(mem[Pos(op[c])])
  <2>1. /\ pc'[c] = "claim" /\ pc[c] = "header" /\ op'[c] = op[c] /\ ep'[c] = ep[c]
        /\ hd'[c] = mem[Pos(op[c])] /\ op[c] < ep[c]
    BY <1>0, <1>1, <1>5 DEF ReadHeader, Goto, InWindow
  <2>2. Claims(c)'
    <3>1. op'[c] <= r'
      BY <1>1, <1>2, <2>1 DEF Claims
    <3>2. op'[c] = r' => r' < e' /\ mem'[Pos(r')] = hd'[c] /\ Committed(hd'[c])
      BY <1>1, <1>2, <1>5, <2>1
    <3> QED
      BY <2>1, <3>1, <3>2 DEF Claims, W, Committed
  <2> QED
    BY <1>0, <1>1, <1>2, <2>1, <2>2, LookingKeeps DEF Reading, Holder, Ahead
<1>6. CASE ReadHeader(c) /\ ~Committed(mem[Pos(op[c])])
  <2>1. pc'[c] = "idle" /\ pc[c] = "header" /\ ep'[c] = 0
    BY <1>0, <1>1, <1>6 DEF ReadHeader, Return, Goto
  <2> QED
    BY <1>0, <1>1, <1>2, <2>1, LookingKeeps DEF Claims, Reading, Holder, Ahead
<1>7. CASE Claim(c) /\ ~Unclaimed(c)
  <2>1. pc'[c] = "header" /\ pc[c] = "claim" /\ op'[c] = r /\ ep'[c] = ep[c]
    BY <1>0, <1>1, <1>7 DEF Claim, Goto
  <2> QED
    BY <1>0, <1>1, <1>2, <2>1, LookingKeeps DEF Claims, Reading, Holder, Ahead
<1> QED
  BY <1>3, <1>4, <1>5, <1>6, <1>7

\* The steps up to the clearing of a header.
LEMMA LookingToFreeKeeps ==
  ASSUME SafeInv, NEW c \in Consumers,
         LoadEmpty(c) \/ PeekEmpty(c) \/ (ClearHeader(c) /\ mem[Pos(ep[c])] # hd[c])
  PROVE  Placed' /\ Threading' /\ Stored'
<1>0. Finalize(c) /\ c \in Threads
  BY DEF Finalize, Threads
<1>1. /\ pc \in [Threads -> PC] /\ op \in [Threads -> Cursor]
      /\ ep \in [Threads -> Cursor] /\ hd \in [Threads -> Word]
      /\ ep[c] <= e /\ Claims(c) /\ mem[Pos(ep[c])] \in Word
      /\ e \in Nat /\ r \in Nat /\ op[c] \in Nat /\ ep[c] \in Nat
  BY ConsumerLocals, PosInBuffer DEF SafeInv, ReservationInv, TypeInv, TypeOK
<1>2. UNCHANGED <<r, e, mem>>
  BY DEF LoadEmpty, PeekEmpty, ClearHeader
<1>3. CASE LoadEmpty(c)
  <2>1. pc'[c] = "peek_e" /\ pc[c] = "load_e" /\ ep'[c] = e
    BY <1>0, <1>1, <1>3 DEF LoadEmpty, Goto
  <2> QED
    BY <1>0, <1>1, <1>2, <2>1, LookingKeeps DEF Claims, Reading, Holder, Ahead
<1>4. CASE PeekEmpty(c)
  <2>1. pc'[c] = "clear" /\ pc[c] = "peek_e" /\ ep'[c] = ep[c]
        /\ hd'[c] = Expected(mem[Pos(ep[c])])
    BY <1>0, <1>1, <1>4 DEF PeekEmpty, Goto
  <2>2. hd'[c].state = "empty" /\ hd'[c].type = "jump"
    BY <1>1, <2>1 DEF Expected, Cleared, Word
  <2> QED
    BY <1>0, <1>1, <1>2, <2>1, <2>2, LookingKeeps DEF Claims, Reading, Holder, Ahead
<1>5. CASE ClearHeader(c) /\ mem[Pos(ep[c])] # hd[c]
  <2>1. pc'[c] = "idle" /\ pc[c] = "clear" /\ ep'[c] = 0
    BY <1>0, <1>1, <1>5 DEF ClearHeader, Return, Goto
  <2> QED
    BY <1>0, <1>1, <1>2, <2>1, LookingKeeps DEF Claims, Reading, Holder, Ahead
<1> QED
  BY <1>3, <1>4, <1>5

\* Decoding a message and then wiping it: what is seen is what was sent.
LEMMA DecodeKeeps ==
  ASSUME SafeInv, NEW c \in Consumers, Decode(c)
  PROVE  Placed' /\ Threading' /\ Stored'
<1>0. Consume(c)
  BY DEF Consume
<1>1. /\ c \in Threads /\ c \notin Producers
      /\ \A t \in Threads : t # c => Stays(t)
      /\ UNCHANGED <<w, tickets, total>> /\ UNCHANGED <<r, e, mem>>
  BY <1>0, ConsumerFrame DEF Decode
<1>2. /\ pc \in [Threads -> PC] /\ hd \in [Threads -> Word]
      /\ seen \in [Threads -> SUBSET Word] /\ ep[c] <= e
  BY ConsumerLocals
<1>3. /\ pc[c] = "decode" /\ pc'[c] = "wipe" /\ op'[c] = op[c] /\ ep'[c] = ep[c]
      /\ hd'[c] = mem[Pos(op[c])]
      /\ seen'[c] = IF mem[Pos(op[c])].type = "pad" THEN {}
                    ELSE {mem[x] : x \in Body(op[c], mem[Pos(op[c])].size)}
  BY <1>1, <1>2 DEF Decode, Goto
<1>4. PICK t \in tickets : ReadBy(t, c)
  BY <1>3 DEF Reading, SafeInv, Stored, ConsumerWords
<1>5. /\ t.at = op[c] /\ Live(t) /\ t.at < r /\ mem[Pos(t.at)] = Opened(t)
      /\ \A x \in Inside(t) : mem[Pos(x)] = t.data
      /\ t.at \in Nat /\ t.len \in Nat
  BY <1>3, <1>4, Numbers DEF ReadBy, W
<1>6. hd'[c] = Opened(t) /\ hd'[c].size = t.len /\ hd'[c].type = t.type
  BY <1>3, <1>5 DEF Opened
<1>7. ASSUME t.type = "normal", t.len > 0 PROVE seen'[c] = {t.data}
  <2>1. seen'[c] = {mem[y] : y \in Body(t.at, t.len)}
    BY <1>3, <1>5, <1>7 DEF Opened
  <2>2. Body(t.at, t.len) = {Pos(x) : x \in Inside(t)}
    BY <1>5, BodyPositions DEF Inside
  <2>3. \A y \in Body(t.at, t.len) : mem[y] = t.data
    BY <1>5, <2>2
  <2>4. t.at + 1 \in Inside(t)
    BY <1>5, <1>7 DEF Inside
  <2>5. Pos(t.at + 1) \in Body(t.at, t.len)
    BY <2>2, <2>4
  <2> QED
    BY <2>1, <2>3, <2>5
<1>8. ReadBy(t, c)'
  <2>1. W(t.at)' = Opened(t)
    BY <1>1, <1>5 DEF W
  <2>2. \A x \in Inside(t) : W(x)' = t.data
    BY <1>1, <1>5 DEF W
  <2> QED
    BY <1>1, <1>3, <1>5, <1>6, <1>7, <2>1, <2>2 DEF ReadBy, Live, Inside, Opened
<1>9. /\ Reading(c) /\ Reading(c)' /\ ~Holder(c)' /\ pc'[c] \notin Ahead \cup {"encode", "commit"}
      /\ Claims(c)'
  BY <1>3 DEF Reading, Holder, Ahead, Claims
<1>10. Placed' /\ Threading'
  <2>1. \A d \in Consumers : W(r)' = W(r)
    BY <1>1 DEF W
  <2>2. UNCHANGED <<w, r, e, tickets, total>>
    BY <1>1
  <2> QED
    BY <1>1, <1>2, <1>3, <1>9, <2>1, <2>2, ThreadsKeep
<1>11. Stored'
  <2>1. UNCHANGED <<w, r, e, tickets, mem>>
    BY <1>1
  <2> QED
    BY <1>1, <1>3, <1>8, <1>9, <2>1, QuietKeeps
<1> QED
  BY <1>10, <1>11

\* A holder that finds e elsewhere keeps the word it holds.
LEMMA StaleAdvanceKeeps ==
  ASSUME SafeInv, NEW c \in Consumers, Advance(c), e # ep[c]
  PROVE  Placed' /\ Threading' /\ Stored'
<1>0. Finalize(c)
  BY DEF Finalize
<1>1. /\ c \in Threads /\ c \notin Producers
      /\ \A t \in Threads : t # c => Stays(t)
      /\ UNCHANGED <<w, tickets, total>> /\ UNCHANGED <<r, e, mem>>
      /\ op' = op /\ hd' = hd
  BY <1>0, ConsumerFrame DEF Advance
<1>2. /\ pc \in [Threads -> PC] /\ ep \in [Threads -> Cursor] /\ ep[c] <= e
      /\ e \in Nat /\ ep[c] \in Nat
  BY ConsumerLocals
<1>3. pc[c] = "advance" /\ Holder(c)
  BY DEF Advance, Holder
<1>4. /\ Holder(c)' /\ ~Reading(c)' /\ ~Reading(c)
      /\ pc'[c] \notin Ahead \cup {"encode", "commit"} /\ Claims(c)'
  BY <1>1, <1>2, <1>3 DEF Advance, Goto, Holder, Reading, Ahead, Claims
<1>5. ep'[c] <= e /\ Pos(ep'[c]) = Pos(ep[c])
  <2>1. CASE AtEmptyPosition(c)
    <3>1. Sub(e, ep[c]) = e - ep[c]
      BY <1>2 DEF Sub
    <3>2. Pos(ep[c]) = Pos(e)
      BY <1>2, <2>1, <3>1, PosOfDifference DEF AtEmptyPosition
    <3>3. ep'[c] = e
      BY <1>1, <1>2, <2>1 DEF Advance
    <3> QED
      BY <1>2, <3>2, <3>3
  <2>2. CASE ~AtEmptyPosition(c)
    <3>1. ep' = ep
      BY <2>2 DEF Advance
    <3> QED
      BY <1>2, <3>1
  <2> QED
    BY <2>1, <2>2
<1>6. Placed' /\ Threading'
  <2>1. \A d \in Consumers : W(r)' = W(r)
    BY <1>1 DEF W
  <2>2. UNCHANGED <<w, r, e, tickets, total>>
    BY <1>1
  <2>3. \A d \in Consumers : d # c /\ Holder(d) => Pos(ep'[c]) # Pos(ep[d])
    BY <1>3, <1>5 DEF SafeInv, Threading, HoldersApart
  <2> QED
    BY <1>1, <1>4, <1>5, <2>1, <2>2, <2>3, ThreadsKeep
<1>7. Stored'
  <2>1. UNCHANGED <<w, r, e, tickets, mem>>
    BY <1>1
  <2>2. PICK t \in tickets : HeldBy(t, c)
    BY <1>3 DEF SafeInv, Stored, ConsumerWords
  <2>3. HeldBy(t, c)'
    BY <1>1, <1>5, <2>2 DEF HeldBy, Live, W
  <2> QED
    BY <1>1, <1>4, <2>1, <2>3, QuietKeeps
<1> QED
  BY <1>6, <1>7

\* What a consumer has to show of a store to a message it reads or frees.
LEMMA ConsumerStores ==
  ASSUME SafeInv, NEW c \in Consumers, Consume(c) \/ Finalize(c),
         UNCHANGED <<r, e>>, NEW m \in tickets, Live(m), m.at < r,
         Reading(c) => op[c] = m.at,
         \A d \in Consumers : d # c =>
           (Reading(d) => op[d] # m.at) /\ (Holder(d) => Pos(ep[d]) # Pos(m.at)),
         ChangesOnly(m.at, End(m)),
         ep'[c] <= e, Claims(c)', pc'[c] \notin Ahead \cup {"encode", "commit"},
         Reading(c)' => Reading(c) /\ op'[c] = op[c],
         Holder(c)' => \A d \in Consumers : d # c /\ Holder(d) => Pos(ep'[c]) # Pos(ep[d]),
         Reading(c)' => ReadBy(m, c)',
         Holder(c)' => HeldBy(m, c)',
         Done(m)'
  PROVE  Placed' /\ Threading' /\ Stored'
<1>1. /\ c \in Threads /\ c \notin Producers
      /\ \A t \in Threads : t # c => Stays(t)
      /\ UNCHANGED <<w, tickets, total>>
  BY ConsumerFrame
<1>2. /\ m.at \in Nat /\ m.len \in Nat /\ r \in Nat /\ w \in Nat /\ e \in Nat
      /\ End(m) <= r /\ r <= w /\ e <= r + BufWords /\ BufWords \in Nat
  BY Numbers, BoundaryBelow DEF SafeInv, Placed, Cursors
<1>3. Alone(c, m)
  <2>1. ASSUME NEW p \in Producers, pc[p] # "idle" PROVE NotOf(m, p)
    <3>1. /\ p \in Threads /\ r <= op[p]
          /\ MsgTicket(p).at = op[p] + pad[p] /\ PadTicket(p).at = op[p]
      BY <2>1, Reservation, ReservationSpan
    <3>2. op[p] \in Nat /\ pad[p] \in Nat
      BY <3>1, Numbers
    <3>3. m.at # op[p] + pad[p] /\ m.at # op[p]
      BY <1>2, <3>1, <3>2
    <3> QED
      BY <3>1, <3>3 DEF NotOf
  <2> QED
    BY <2>1 DEF Alone
<1>4. Placed' /\ Threading'
  <2>1. ASSUME NEW d \in Consumers, pc[d] = "claim", op[d] = r PROVE W(r)' = W(r)
    <3>1. r < e /\ ~(m.at <= r /\ r < End(m)) /\ End(m) \in Nat
      BY <1>2, <2>1 DEF End, SafeInv, Threading, Claiming, Claims
    <3> QED
      BY <1>2, <3>1 DEF ChangesOnly, W
  <2> QED
    BY <1>1, <2>1, ThreadsKeep
<1>5. Stored'
  <2>1. UNCHANGED <<w, r, e, tickets>> /\ UNCHANGED tickets
    BY <1>1
  <2>2. Pending \subseteq Pending' \cup {m}
    BY <1>1, <2>1, PendingKeeps
  <2>3. /\ \A q \in Producers : q # c =>
             (pc'[q] \in Ahead => Waits(q)') /\ (Encoding(q)' => Writes(q)')
        /\ \A d \in Consumers : d # c =>
             /\ Reading(d)' => \E t \in tickets' : ReadBy(t, d)'
             /\ Holder(d)' => \E t \in tickets' : HeldBy(t, d)'
        /\ \A t \in tickets : t # m => Done(t)'
        /\ \A t \in tickets : t # m => Sent(t)'
        /\ FreeWords'
    BY <1>1, <1>3, <2>1, <2>2, OthersKeep
  <2>4. ProducerWords'
    BY <1>1, <2>3 DEF ProducerWords
  <2>5. ConsumerWords'
    BY <2>1, <2>3 DEF ConsumerWords
  <2>6. Sent(m)'
    <3>1. ~(r' <= m.at)
      BY <1>2, <2>1
    <3> QED
      BY <3>1 DEF Sent
  <2>7. TicketWords'
    BY <2>1, <2>3, <2>6 DEF TicketWords
  <2> QED
    BY <2>3, <2>4, <2>5, <2>7 DEF Stored
<1> QED
  BY <1>4, <1>5

\* The message a consumer reads is nobody else's.
LEMMA ReaderAlone ==
  ASSUME SafeInv, NEW c \in Consumers, Reading(c), NEW m \in tickets, ReadBy(m, c)
  PROVE  /\ \A d \in Consumers : d # c =>
              (Reading(d) => op[d] # m.at) /\ (Holder(d) => Pos(ep[d]) # Pos(m.at))
         /\ m.at = op[c] /\ Live(m) /\ m.at < r /\ m.at < e /\ End(m) <= r /\ End(m) <= e
         /\ m.at \in Nat /\ m.len \in Nat /\ End(m) \in Nat /\ End(m) = m.at + 1 + m.len
         /\ e \in Nat /\ BufWords \in Nat /\ e <= m.at + BufWords
<1>1. /\ m.at \in Nat /\ m.len \in Nat /\ r \in Nat /\ e \in Nat /\ BufWords \in Nat
      /\ m.at = op[c] /\ Live(m) /\ m.at < r /\ r <= e /\ End(m) <= r
      /\ W(m.at).state # "empty"
  BY Numbers, BoundaryBelow DEF ReadBy, Sealed, Opened, SafeInv, Placed, Cursors
<1>2. ASSUME NEW d \in Consumers, d # c, Reading(d) PROVE op[d] # m.at
  BY <1>1, <1>2 DEF SafeInv, Threading, ReadersApart
<1>3. ASSUME NEW d \in Consumers, Holder(d) PROVE Pos(ep[d]) # Pos(m.at)
  <2>1. PICK t \in tickets : HeldBy(t, d)
    BY <1>3 DEF SafeInv, Stored, ConsumerWords
  <2>2. /\ t.at \in Nat /\ Live(t) /\ t.at < e /\ W(t.at) = Zero
        /\ Pos(ep[d]) = Pos(t.at)
    BY <2>1, <1>1, Numbers DEF HeldBy
  <2>3. t.at # m.at
    BY <1>1, <2>2 DEF Zero
  <2>4. Pos(t.at) # Pos(m.at)
    BY <1>1, <2>2, <2>3, OneWord DEF Live
  <2> QED
    BY <2>2, <2>4
<1> QED
  BY <1>1, <1>2, <1>3 DEF End, Live

\* The header of a claimed message is marked as being read.
LEMMA MarkReadKeeps ==
  ASSUME SafeInv, NEW c \in Consumers, MarkRead(c)
  PROVE  Placed' /\ Threading' /\ Stored'
<1>0. Consume(c) /\ c \in Threads /\ Reading(c)
  BY DEF Consume, MarkRead, Reading, Threads
<1>1. PICK m \in tickets : ReadBy(m, c)
  BY <1>0 DEF SafeInv, Stored, ConsumerWords
<1>2. /\ \A d \in Consumers : d # c =>
           (Reading(d) => op[d] # m.at) /\ (Holder(d) => Pos(ep[d]) # Pos(m.at))
      /\ m.at = op[c] /\ Live(m) /\ m.at < r /\ m.at < e /\ End(m) <= e
      /\ m.at \in Nat /\ m.len \in Nat /\ End(m) \in Nat /\ End(m) = m.at + 1 + m.len
      /\ e \in Nat /\ BufWords \in Nat /\ e <= m.at + BufWords
  BY <1>0, <1>1, ReaderAlone
<1>3. /\ UNCHANGED <<r, e, tickets>> /\ pc[c] = "mark" /\ pc'[c] = "decode"
      /\ op' = op /\ ep' = ep /\ hd' = hd /\ seen' = seen /\ ep[c] <= e
  BY <1>0, ConsumerLocals DEF MarkRead, Goto, locals, history
<1>4. mem[Pos(op[c])] = hd[c] /\ hd[c] = Sealed(m)
      /\ \A x \in Inside(m) : W(x) = m.data
  BY <1>1, <1>2, <1>3 DEF ReadBy, W
<1>5. W(m.at)' = Opened(m) /\ ChangesOnly(m.at, m.at + 1)
  <2>1. [hd[c] EXCEPT !.state = "mid_read"] = Opened(m)
    BY <1>4 DEF Sealed, Opened
  <2>2. Store(m.at, Opened(m))
    BY <1>2, <1>4, <2>1 DEF MarkRead
  <2> QED
    BY <1>2, <2>2, StoreChanges
<1>6. ChangesOnly(m.at, End(m))
  <2>1. m.at + 1 \in Nat /\ m.at + 1 <= End(m)
    BY <1>2
  <2> QED
    BY <1>2, <1>5, <2>1, Widen
<1>7. \A x \in Inside(m) : W(x)' = m.data
  <2> SUFFICES ASSUME NEW x \in m.at + 1 .. m.at + m.len PROVE W(x)' = m.data
    BY DEF Inside
  <2>1. x \in Nat /\ e <= x + BufWords /\ x < e /\ ~(x < m.at + 1)
    BY <1>2
  <2>2. W(x)' = W(x)
    BY <1>5, <2>1 DEF ChangesOnly
  <2> QED
    BY <1>4, <2>2 DEF Inside
<1>8. ReadBy(m, c)'
  <2>1. m.at = op'[c] /\ Live(m)' /\ m.at < r' /\ hd'[c].size = m.len /\ hd'[c].type = m.type
    BY <1>2, <1>3, <1>4 DEF Live, Sealed
  <2> QED
    BY <1>3, <1>5, <1>7, <2>1 DEF ReadBy, Inside, Opened
<1>9. /\ Reading(c)' /\ ~Holder(c)' /\ pc'[c] \notin Ahead \cup {"encode", "commit"} /\ Claims(c)'
      /\ op'[c] = op[c] /\ ep'[c] <= e
  BY <1>3 DEF Reading, Holder, Ahead, Claims
<1>10. Done(m)'
  BY <1>2, <1>3, <1>9 DEF Done
<1> QED
  BY <1>0, <1>2, <1>3, <1>6, <1>8, <1>9, <1>10, ConsumerStores

\* The body of a message that was read is cleared.
LEMMA WipeKeeps ==
  ASSUME SafeInv, NEW c \in Consumers, Wipe(c)
  PROVE  Placed' /\ Threading' /\ Stored'
<1>0. Finalize(c) /\ c \in Threads /\ Reading(c)
  BY DEF Finalize, Wipe, Reading, Threads
<1>1. PICK m \in tickets : ReadBy(m, c)
  BY <1>0 DEF SafeInv, Stored, ConsumerWords
<1>2. /\ \A d \in Consumers : d # c =>
           (Reading(d) => op[d] # m.at) /\ (Holder(d) => Pos(ep[d]) # Pos(m.at))
      /\ m.at = op[c] /\ Live(m) /\ m.at < r /\ m.at < e /\ End(m) <= e
      /\ m.at \in Nat /\ m.len \in Nat /\ End(m) \in Nat /\ End(m) = m.at + 1 + m.len
      /\ e \in Nat /\ BufWords \in Nat /\ e <= m.at + BufWords
  BY <1>0, <1>1, ReaderAlone
<1>3. /\ UNCHANGED <<r, e, tickets>> /\ pc[c] = "wipe" /\ pc'[c] = "release"
      /\ op' = op /\ ep' = ep /\ hd' = hd /\ ep[c] <= e
  BY <1>0, ConsumerLocals DEF Wipe, Goto, history
<1>4. hd[c].size = m.len /\ hd[c].type = m.type /\ W(m.at) = Opened(m)
  BY <1>1, <1>3 DEF ReadBy
<1>5. (\A x \in m.at + 1 .. m.at + m.len : W(x)' = Zero) /\ ChangesOnly(m.at + 1, m.at + 1 + m.len)
  <2>1. mem' = [x \in DOMAIN mem |-> IF x \in Body(m.at, m.len) THEN Zero ELSE mem[x]]
    BY <1>2, <1>4 DEF Wipe, WipedBody
  <2>2. m.at + 1 + m.len <= e
    BY <1>2
  <2> QED
    BY <1>2, <2>1, <2>2, BodyChanges
<1>6. ChangesOnly(m.at, End(m)) /\ W(m.at)' = Opened(m)
  <2>1. m.at + 1 \in Nat /\ m.at + 1 + m.len \in Nat /\ m.at <= m.at + 1
        /\ m.at + 1 + m.len <= End(m)
    BY <1>2
  <2>2. ChangesOnly(m.at, End(m))
    BY <1>2, <1>5, <2>1, Widen
  <2>3. ~(m.at + 1 <= m.at)
    BY <1>2
  <2>4. W(m.at)' = W(m.at)
    BY <1>2, <1>5, <2>3 DEF ChangesOnly
  <2> QED
    BY <1>4, <2>2, <2>4
<1>7. ReadBy(m, c)'
  <2>1. m.at = op'[c] /\ Live(m)' /\ m.at < r' /\ hd'[c].size = m.len /\ hd'[c].type = m.type
    BY <1>2, <1>3, <1>4 DEF Live
  <2> QED
    BY <1>3, <1>5, <1>6, <2>1 DEF ReadBy, Inside, Opened
<1>8. /\ Reading(c)' /\ ~Holder(c)' /\ pc'[c] \notin Ahead \cup {"encode", "commit"} /\ Claims(c)'
      /\ op'[c] = op[c] /\ ep'[c] <= e
  BY <1>3 DEF Reading, Holder, Ahead, Claims
<1>9. Done(m)'
  BY <1>2, <1>3, <1>8 DEF Done
<1> QED
  BY <1>0, <1>2, <1>3, <1>6, <1>7, <1>8, <1>9, ConsumerStores

\* The header of a message that was read is made to say that it can be freed.
LEMMA ReleaseKeeps ==
  ASSUME SafeInv, NEW c \in Consumers, Release(c)
  PROVE  Placed' /\ Threading' /\ Stored'
<1>0. Finalize(c) /\ c \in Threads /\ Reading(c)
  BY DEF Finalize, Release, Reading, Threads
<1>1. PICK m \in tickets : ReadBy(m, c)
  BY <1>0 DEF SafeInv, Stored, ConsumerWords
<1>2. /\ \A d \in Consumers : d # c =>
           (Reading(d) => op[d] # m.at) /\ (Holder(d) => Pos(ep[d]) # Pos(m.at))
      /\ m.at = op[c] /\ Live(m) /\ m.at < r /\ m.at < e /\ End(m) <= e
      /\ m.at \in Nat /\ m.len \in Nat /\ End(m) \in Nat /\ End(m) = m.at + 1 + m.len
      /\ e \in Nat /\ BufWords \in Nat /\ e <= m.at + BufWords
  BY <1>0, <1>1, ReaderAlone
<1>3. /\ UNCHANGED <<r, e, tickets>> /\ pc[c] = "release" /\ pc'[c] = "load_e"
      /\ op' = op /\ ep' = ep /\ hd' = hd /\ ep[c] <= e
  BY <1>0, ConsumerLocals DEF Release, Goto, locals, history
<1>4. mem[Pos(op[c])] = Opened(m) /\ \A x \in Inside(m) : W(x) = Zero
  BY <1>1, <1>2, <1>3 DEF ReadBy, W
<1>5. W(m.at)' = Spent(m) /\ ChangesOnly(m.at, m.at + 1)
  <2>1. Cleared(Opened(m)) = Spent(m)
    <3>1. [[state |-> "mid_read", type |-> m.type, size |-> m.len] EXCEPT !.state = "empty"]
            = [state |-> "empty", type |-> m.type, size |-> m.len]
      OBVIOUS
    <3>2. [[state |-> "empty", type |-> m.type, size |-> m.len] EXCEPT !.type = "jump"]
            = [state |-> "empty", type |-> "jump", size |-> m.len]
      OBVIOUS
    <3> QED
      BY <3>1, <3>2, Zenon DEF Cleared, Opened, Spent
  <2>2. Store(m.at, Spent(m))
    BY <1>2, <1>4, <2>1 DEF Release
  <2> QED
    BY <1>2, <2>2, StoreChanges
<1>6. ChangesOnly(m.at, End(m))
  <2>1. m.at + 1 \in Nat /\ m.at + 1 <= End(m)
    BY <1>2
  <2> QED
    BY <1>2, <1>5, <2>1, Widen
<1>7. \A x \in Inside(m) : W(x)' = Zero
  <2> SUFFICES ASSUME NEW x \in m.at + 1 .. m.at + m.len PROVE W(x)' = Zero
    BY DEF Inside
  <2>1. x \in Nat /\ e <= x + BufWords /\ x < e /\ ~(x < m.at + 1)
    BY <1>2
  <2>2. W(x)' = W(x)
    BY <1>5, <2>1 DEF ChangesOnly
  <2> QED
    BY <1>4, <2>2 DEF Inside
<1>8. /\ ~Reading(c)' /\ ~Holder(c)' /\ pc'[c] \notin Ahead \cup {"encode", "commit"} /\ Claims(c)'
      /\ ep'[c] <= e
  BY <1>3 DEF Reading, Holder, Ahead, Claims
<1>9. Done(m)'
  BY <1>5, <1>7 DEF Done, Inside, Spent
<1> QED
  BY <1>0, <1>2, <1>3, <1>6, <1>8, <1>9, ConsumerStores

\* A message that is neither being read nor still to be claimed, whose header
\* is cleared or zero, is nobody's but its holder's, and its body is wiped.
LEMMA HeldAlone ==
  ASSUME SafeInv, NEW m \in tickets, Live(m), m.at < r, W(m.at).state = "empty"
  PROVE  /\ \A d \in Consumers : Reading(d) => op[d] # m.at
         /\ \A x \in Inside(m) : W(x) = Zero
         /\ W(m.at) = Spent(m) \/ W(m.at) = Zero
         /\ m.at < e /\ End(m) <= r /\ End(m) <= e
         /\ m.at \in Nat /\ m.len \in Nat /\ End(m) \in Nat /\ End(m) = m.at + 1 + m.len
         /\ e \in Nat /\ BufWords \in Nat /\ e <= m.at + BufWords
<1>1. /\ m.at \in Nat /\ m.len \in Nat /\ r \in Nat /\ e \in Nat /\ BufWords \in Nat
      /\ r <= e /\ End(m) <= r
  BY Numbers, BoundaryBelow DEF SafeInv, Placed, Cursors
<1>2. ASSUME NEW d \in Consumers, Reading(d) PROVE op[d] # m.at
  <2>1. PICK t \in tickets : ReadBy(t, d)
    BY <1>2 DEF SafeInv, Stored, ConsumerWords
  <2>2. t.at = op[d] /\ W(t.at).state # "empty"
    BY <2>1 DEF ReadBy, Sealed, Opened
  <2> QED
    BY <2>2, TicketsApart
<1>3. /\ \A x \in Inside(m) : W(x) = Zero
      /\ W(m.at) = Spent(m) \/ W(m.at) = Zero
  BY <1>2 DEF SafeInv, Stored, TicketWords, Done
<1> QED
  BY <1>1, <1>2, <1>3 DEF End, Live

\* A consumer whose cursor e had moved on puts back the header it had taken.
LEMMA UnswapKeeps ==
  ASSUME SafeInv, NEW c \in Consumers, UnswapHeader(c)
  PROVE  Placed' /\ Threading' /\ Stored'
<1>0. Finalize(c) /\ c \in Threads /\ Holder(c) /\ ~Reading(c)
  BY DEF Finalize, UnswapHeader, Holder, Reading, Threads
<1>1. PICK m \in tickets : HeldBy(m, c)
  BY <1>0 DEF SafeInv, Stored, ConsumerWords
<1>2. Live(m) /\ m.at < r /\ W(m.at) = Zero /\ Pos(ep[c]) = Pos(m.at) /\ hd[c] = Spent(m)
  BY <1>1 DEF HeldBy
<1>3. /\ \A d \in Consumers : Reading(d) => op[d] # m.at
      /\ \A x \in Inside(m) : W(x) = Zero
      /\ m.at < e /\ End(m) <= e
      /\ m.at \in Nat /\ m.len \in Nat /\ End(m) \in Nat /\ End(m) = m.at + 1 + m.len
      /\ e \in Nat /\ BufWords \in Nat /\ e <= m.at + BufWords
  BY <1>2, HeldAlone DEF Zero
<1>4. \A d \in Consumers : d # c => (Holder(d) => Pos(ep[d]) # Pos(m.at))
  BY <1>0, <1>2 DEF SafeInv, Threading, HoldersApart
<1>5. /\ UNCHANGED <<r, e, tickets>> /\ pc[c] = "unswap" /\ pc'[c] = "load_e"
      /\ ep' = ep /\ ep[c] <= e /\ ep[c] \in Nat
  BY <1>0, ConsumerLocals DEF UnswapHeader, Goto, locals, history
<1>6. W(m.at)' = Spent(m) /\ ChangesOnly(m.at, m.at + 1)
  <2>1. PICK y \in Nat : y = ep[c]
    BY <1>5
  <2>2. Store(y, Spent(m)) /\ Pos(y) = Pos(m.at)
    BY <1>2, <2>1 DEF UnswapHeader
  <2> QED
    BY <1>3, <2>2, StoreChanges
<1>7. ChangesOnly(m.at, End(m))
  <2>1. m.at + 1 \in Nat /\ m.at + 1 <= End(m)
    BY <1>3
  <2> QED
    BY <1>3, <1>6, <2>1, Widen
<1>8. \A x \in Inside(m) : W(x)' = Zero
  <2> SUFFICES ASSUME NEW x \in m.at + 1 .. m.at + m.len PROVE W(x)' = Zero
    BY DEF Inside
  <2>1. x \in Nat /\ e <= x + BufWords /\ x < e /\ ~(x < m.at + 1)
    BY <1>3
  <2>2. W(x)' = W(x)
    BY <1>6, <2>1 DEF ChangesOnly
  <2> QED
    BY <1>3, <2>2 DEF Inside
<1>9. /\ ~Reading(c)' /\ ~Holder(c)' /\ pc'[c] \notin Ahead \cup {"encode", "commit"} /\ Claims(c)'
      /\ ep'[c] <= e
  BY <1>5 DEF Reading, Holder, Ahead, Claims
<1>10. Done(m)'
  BY <1>6, <1>8 DEF Done, Inside, Spent
<1> QED
  BY <1>0, <1>2, <1>3, <1>4, <1>5, <1>7, <1>9, <1>10, ConsumerStores

\* A word that looks cleared is the header of a finalized message: no other
\* header is, no payload and no free space.
LEMMA ClearedIsSpent ==
  ASSUME SafeInv, NEW x \in Nat, e <= x + BufWords, x < e,
         W(x).state = "empty", W(x).type = "jump"
  PROVE  \E t \in tickets : t.at = x /\ Live(t) /\ t.at < r /\ W(x) = Spent(t)
<1>0. /\ w \in Nat /\ r \in Nat /\ e \in Nat /\ BufWords \in Nat /\ BufWords <= e
      /\ W(x) # Zero /\ e - BufWords \in Nat /\ Boundary(e - BufWords) /\ r <= e
  BY Numbers DEF SafeInv, Placed, Cursors, Zero
<1>1. x < w
  <2> SUFFICES ASSUME w <= x PROVE FALSE
    BY <1>0
  <2> QED
    BY <1>0 DEF SafeInv, Stored, FreeWords
<1>2. PICK t \in tickets : t.at <= x /\ x < End(t)
  BY <1>1 DEF SafeInv, Placed, Cover
<1>3. /\ t.at \in Nat /\ t.len \in Nat /\ End(t) = t.at + 1 + t.len
      /\ ~(t.data.state = "empty" /\ t.data.type = "jump")
  BY Numbers DEF End, SafeInv, Placed, Cover
<1>4. Live(t)
  <2> SUFFICES ASSUME t.at < e - BufWords PROVE FALSE
    BY <1>0, <1>3 DEF Live
  <2>1. End(t) <= e - BufWords
    BY <1>0, BoundaryBelow
  <2> QED
    BY <1>0, <1>2, <1>3, <2>1
<1>5. x = t.at \/ x \in Inside(t)
  BY <1>2, <1>3 DEF Inside
<1>6. CASE r <= t.at /\ t \notin Pending
  <2>1. W(t.at) = Sealed(t) /\ \A y \in Inside(t) : W(y) = t.data
    BY <1>6 DEF SafeInv, Stored, TicketWords, Sent
  <2> QED
    BY <1>3, <1>5, <2>1 DEF Sealed
<1>7. CASE t \in Pending
  <2>1. PICK p \in Producers :
          pc[p] # "idle" /\ (t = MsgTicket(p) \/ (pad[p] > 0 /\ t = PadTicket(p)))
    BY <1>7, PendingTickets
  <2>2. /\ p \in Threads /\ op[p] + pad[p] + 1 + msg[p].len = np[p]
        /\ MsgTicket(p).at = op[p] + pad[p] /\ End(MsgTicket(p)) = np[p]
        /\ PadTicket(p).at = op[p]
        /\ pad[p] > 0 => End(PadTicket(p)) = op[p] + pad[p] /\ pc[p] \in {"peek", "lap", "pad"}
        /\ pc[p] \notin Ahead => Encoding(p)
    BY <2>1, Reservation, ReservationSpan
  <2>3. op[p] \in Nat /\ pad[p] \in Nat /\ np[p] \in Nat /\ msg[p].len \in Nat
    BY <2>2, Numbers
  <2>4. op[p] <= x /\ x < np[p]
    BY <1>2, <1>3, <2>1, <2>2, <2>3
  <2>5. CASE pc[p] \in Ahead
    BY <1>0, <2>4, <2>5 DEF SafeInv, Stored, ProducerWords, Waits
  <2>6. CASE pc[p] \notin Ahead
    <3>1. Writes(p) /\ pad[p] = 0
      BY <2>2, <2>3, <2>6 DEF SafeInv, Stored, ProducerWords, Ahead
    <3>2. t.data = msg[p].data
      BY <2>1, <2>3, <3>1 DEF MsgTicket
    <3>3. x = op[p] \/ x \in op[p] + 1 .. op[p] + msg[p].len
      BY <2>2, <2>3, <2>4, <3>1
    <3>4. CASE x = op[p]
      BY <3>1, <3>4 DEF Writes
    <3>5. CASE x \in op[p] + 1 .. op[p] + msg[p].len
      BY <1>0, <1>3, <3>1, <3>2, <3>5 DEF Writes
    <3> QED
      BY <3>3, <3>4, <3>5
  <2> QED
    BY <2>5, <2>6
<1>8. CASE t.at < r
  <2>1. CASE \E d \in Consumers : Reading(d) /\ op[d] = t.at
    <3>1. PICK d \in Consumers : Reading(d) /\ op[d] = t.at
      BY <2>1
    <3>2. PICK u \in tickets : ReadBy(u, d)
      BY <3>1 DEF SafeInv, Stored, ConsumerWords
    <3>3. u = t
      BY <3>1, <3>2, TicketsApart DEF ReadBy
    <3>4. W(t.at).state # "empty" /\ \A y \in Inside(t) : W(y) = Zero \/ W(y) = t.data
      BY <3>2, <3>3 DEF ReadBy, Sealed, Opened
    <3> QED
      BY <1>0, <1>3, <1>5, <3>4
  <2>2. CASE ~(\E d \in Consumers : Reading(d) /\ op[d] = t.at)
    <3>1. /\ W(t.at) = Spent(t) \/ W(t.at) = Zero
          /\ \A y \in Inside(t) : W(y) = Zero
      BY <1>4, <1>8, <2>2 DEF SafeInv, Stored, TicketWords, Done
    <3> QED
      BY <1>0, <1>4, <1>5, <1>8, <3>1
  <2> QED
    BY <2>1, <2>2
<1> QED
  BY <1>0, <1>3, <1>6, <1>7, <1>8

\* The exchange of the header that is about to be freed, when it succeeds.
LEMMA ClearHeaderKeeps ==
  ASSUME SafeInv, NEW c \in Consumers, ClearHeader(c), mem[Pos(ep[c])] = hd[c]
  PROVE  Placed' /\ Threading' /\ Stored'
<1>0. Finalize(c) /\ c \in Threads /\ ~Reading(c) /\ ~Holder(c)
  BY DEF Finalize, ClearHeader, Holder, Reading, Threads
<1>1. /\ UNCHANGED <<r, e, tickets>> /\ pc[c] = "clear" /\ pc'[c] = "advance"
      /\ op' = op /\ ep' = ep /\ hd' = hd /\ ep[c] <= e /\ ep[c] \in Nat
      /\ hd[c].state = "empty" /\ hd[c].type = "jump"
  BY <1>0, ConsumerLocals DEF ClearHeader, Goto, history, Claims
<1>2. PICK y \in Nat : y = ep[c]
  BY <1>1
<1>3. PICK x \in Nat : e <= x + BufWords /\ x < e /\ Pos(x) = Pos(y)
  <2>1. e - BufWords \in Nat /\ e \in Nat /\ BufWords \in Nat
    BY Numbers DEF SafeInv, Placed, Cursors
  <2>2. PICK x \in Nat : e - BufWords <= x /\ x < (e - BufWords) + BufWords /\ Pos(x) = Pos(y)
    BY <2>1, PosInWindow
  <2> QED
    BY <2>1, <2>2
<1>4. W(x) = hd[c]
  BY <1>2, <1>3 DEF W
<1>5. PICK m \in tickets : m.at = x /\ Live(m) /\ m.at < r /\ W(x) = Spent(m)
  BY <1>1, <1>3, <1>4, ClearedIsSpent
<1>6. /\ \A d \in Consumers : Reading(d) => op[d] # m.at
      /\ \A z \in Inside(m) : W(z) = Zero
      /\ m.at < e /\ End(m) <= e
      /\ m.at \in Nat /\ m.len \in Nat /\ End(m) \in Nat /\ End(m) = m.at + 1 + m.len
      /\ e \in Nat /\ BufWords \in Nat /\ e <= m.at + BufWords
  BY <1>5, HeldAlone DEF Spent
<1>7. \A d \in Consumers : Holder(d) => Pos(ep[d]) # Pos(m.at)
  <2> SUFFICES ASSUME NEW d \in Consumers, Holder(d) PROVE Pos(ep[d]) # Pos(m.at)
    OBVIOUS
  <2>1. PICK t \in tickets : HeldBy(t, d)
    BY DEF SafeInv, Stored, ConsumerWords
  <2>2. t.at \in Nat /\ Live(t) /\ t.at < e /\ W(t.at) = Zero /\ Pos(ep[d]) = Pos(t.at)
    BY <2>1, Numbers DEF HeldBy, SafeInv, Placed, Cursors
  <2>3. t.at # m.at
    BY <1>5, <2>2 DEF Zero, Spent
  <2>4. Pos(t.at) # Pos(m.at)
    BY <1>6, <2>2, <2>3, OneWord DEF Live
  <2> QED
    BY <2>2, <2>4
<1>8. W(m.at)' = Zero /\ ChangesOnly(m.at, m.at + 1)
  <2>1. Store(y, Zero) /\ Pos(y) = Pos(m.at)
    BY <1>2, <1>3, <1>5 DEF ClearHeader
  <2> QED
    BY <1>6, <2>1, StoreChanges
<1>9. ChangesOnly(m.at, End(m))
  <2>1. m.at + 1 \in Nat /\ m.at + 1 <= End(m)
    BY <1>6
  <2> QED
    BY <1>6, <1>8, <2>1, Widen
<1>10. \A z \in Inside(m) : W(z)' = Zero
  <2> SUFFICES ASSUME NEW z \in m.at + 1 .. m.at + m.len PROVE W(z)' = Zero
    BY DEF Inside
  <2>1. z \in Nat /\ e <= z + BufWords /\ z < e /\ ~(z < m.at + 1)
    BY <1>6
  <2>2. W(z)' = W(z)
    BY <1>8, <2>1 DEF ChangesOnly
  <2> QED
    BY <1>6, <2>2 DEF Inside
<1>11. HeldBy(m, c)'
  <2>1. Live(m)' /\ m.at < r' /\ Pos(ep'[c]) = Pos(m.at) /\ hd'[c] = Spent(m)
    BY <1>1, <1>2, <1>3, <1>4, <1>5 DEF Live
  <2> QED
    BY <1>8, <2>1 DEF HeldBy, Spent
<1>12. Done(m)'
  BY <1>8, <1>10 DEF Done, Inside
<1>13. /\ ~Reading(c)' /\ pc'[c] \notin Ahead \cup {"encode", "commit"} /\ Claims(c)'
       /\ ep'[c] <= e /\ Pos(ep'[c]) = Pos(m.at)
  BY <1>1, <1>2, <1>3, <1>5 DEF Reading, Ahead, Claims
<1>14. \A d \in Consumers : d # c /\ Holder(d) => Pos(ep'[c]) # Pos(ep[d])
  BY <1>7, <1>13
<1> QED
  BY <1>0, <1>1, <1>5, <1>6, <1>7, <1>9, <1>11, <1>12, <1>13, <1>14, ConsumerStores

-----------------------------------------------------------------------------
(* Steps that move a cursor. *)

\* What a reservation promises: at most a padding message and then its own.
LEMMA PromisedTickets ==
  ASSUME NEW c \in Nat, NEW ps \in Nat, NEW n \in Nat, NEW d \in Word,
         c + ps < CursorMod
  PROVE  LET own == [at |-> c + ps, len |-> n, type |-> "normal", data |-> d]
             padding == [at |-> c, len |-> ps - 1, type |-> "pad", data |-> Zero]
         IN  /\ NewTickets(c, ps, n, d) = {own} \cup {t \in {padding} : ps > 0}
<1>1. Add(c, ps) = c + ps
  BY AddWithoutWrap
<1>2. CASE ps > 0
  <2>1. 1 .. (IF ps > 0 THEN 1 ELSE 0) = {1}
    BY <1>2
  <2> QED
    BY <1>1, <1>2, <2>1 DEF NewTickets
<1>3. CASE ps = 0
  <2>1. 1 .. (IF ps > 0 THEN 1 ELSE 0) = {}
    BY <1>3
  <2> QED
    BY <1>1, <1>3, <2>1 DEF NewTickets
<1> QED
  BY <1>2, <1>3

\* What a reservation changes: its own message, and one of padding in front of
\* it, are the only new ones, and follow everything reserved before.
Reserving(p, n, d, ps, own, padding) ==
  /\ total' = w + ps + 1 + n /\ w + ps + 1 + n + BufWords < CursorMod
  /\ w' = w + ps + 1 + n /\ UNCHANGED <<r, e, mem, hd, seen>>
  /\ pc[p] = "idle" /\ pc'[p] = "peek" /\ op'[p] = w /\ np'[p] = w + ps + 1 + n
  /\ pad'[p] = ps /\ ep'[p] = e
  /\ msg'[p] = [len |-> n, data |-> d]
  /\ own = [at |-> w + ps, len |-> n, type |-> "normal", data |-> d]
  /\ padding = [at |-> w, len |-> ps - 1, type |-> "pad", data |-> Zero]
  /\ own \in tickets' /\ (ps > 0 => padding \in tickets') /\ tickets \subseteq tickets'
  /\ \A t \in tickets' \ tickets : t = own \/ (ps > 0 /\ t = padding)
  /\ own.at = w + ps /\ End(own) = w' /\ padding.at = w /\ padding.len = ps - 1
  /\ ps > 0 => End(padding) = w + ps
  /\ MsgTicket(p)' = own /\ PadTicket(p)' = padding
  /\ \A t \in tickets' \ tickets : t.at >= w /\ t.at \in Nat

\* A reservation that is made has its words free or waiting to be, and disturbs
\* no other.
LEMMA ReserveAdds ==
  ASSUME SafeInv, BeforeWrap', NEW p \in Producers, StartAllocate(p)
  PROVE  \E n \in Sizes, d \in DataWords, ps \in Nat :
           \E own, padding : Reserving(p, n, d, ps, own, padding)
<1>0. /\ p \in Threads /\ p \notin Consumers
      /\ Producers \subseteq Threads /\ Consumers \subseteq Threads
  BY ThreadAssumption DEF Threads
<1>1. PICK n \in Sizes, contiguous \in Contiguity, d \in DataWords : Reserve(p, n, contiguous, d)
  BY DEF StartAllocate
<1>2. /\ n \in Nat /\ 1 + n \in 1 .. BufWords /\ d \in Word /\ CursorMod \in Nat
  BY SizeAssumption
<1>3. PICK ps : ps = IF contiguous THEN Padding(w, 1 + n) ELSE 0
  OBVIOUS
<1>4. TypeOK /\ \A t \in Threads : t # p => Stays(t)
  <2>1. TypeOK
    BY DEF SafeInv, ReservationInv, TypeInv
  <2> QED
    BY <1>0, <2>1, OthersStay
<1>5. ps \in Nat /\ w \in Nat /\ r \in Nat /\ e \in Nat /\ BufWords \in Nat /\ total = w
  <2>1. w \in Cursor
    BY <1>4 DEF TypeOK
  <2> QED
    BY <1>2, <1>3, <2>1, PaddingIsShort, Numbers
<1>6. /\ total' = w + ps + 1 + n /\ w + ps + 1 + n + BufWords < CursorMod
  <2>1. total' = total + ps + (1 + n)
    BY <1>1, <1>3 DEF Reserve
  <2> QED
    BY <1>2, <1>5, <2>1 DEF BeforeWrap
<1>7. Add(w, ps + (1 + n)) = w + ps + 1 + n /\ w + ps < CursorMod
  BY <1>2, <1>5, <1>6, AddWithoutWrap
<1>8. /\ w' = w + ps + 1 + n /\ UNCHANGED <<r, e, mem, hd, seen>>
      /\ pc[p] = "idle" /\ pc'[p] = "peek" /\ op'[p] = w /\ np'[p] = w + ps + 1 + n
      /\ pad'[p] = ps /\ ep'[p] = e
      /\ msg'[p] = [len |-> n, data |-> d]
      /\ tickets' = tickets \cup NewTickets(w, ps, n, d)
  <2>1. w' = Add(w, ps + (1 + n))
    BY <1>1, <1>3 DEF Reserve, Reserved
  <2>2. np'[p] = Add(w, ps + (1 + n))
    BY <1>0, <1>1, <1>3, <1>4 DEF Reserve, Reserved, TypeOK
  <2> QED
    BY <1>0, <1>1, <1>3, <1>4, <1>7, <2>1, <2>2 DEF Reserve, Goto, TypeOK
<1>9. PICK own : own = [at |-> w + ps, len |-> n, type |-> "normal", data |-> d]
  OBVIOUS
<1>10. PICK padding : padding = [at |-> w, len |-> ps - 1, type |-> "pad", data |-> Zero]
  OBVIOUS
<1>11. NewTickets(w, ps, n, d) = {own} \cup {t \in {padding} : ps > 0}
  BY <1>2, <1>5, <1>7, <1>9, <1>10, PromisedTickets
<1>12. /\ own \in tickets' /\ (ps > 0 => padding \in tickets') /\ tickets \subseteq tickets'
       /\ \A t \in tickets' \ tickets : t = own \/ (ps > 0 /\ t = padding)
       /\ own.at = w + ps /\ End(own) = w' /\ padding.at = w /\ padding.len = ps - 1
       /\ ps > 0 => End(padding) = w + ps
  BY <1>2, <1>5, <1>8, <1>9, <1>10, <1>11 DEF End
<1>13. /\ MsgTicket(p)' = own /\ PadTicket(p)' = padding
  BY <1>2, <1>5, <1>8, <1>9, <1>10 DEF MsgTicket, PadTicket
<1>14. \A t \in tickets' \ tickets : t.at >= w /\ t.at \in Nat
  BY <1>5, <1>12
<1> QED
  BY <1>5, <1>6, <1>8, <1>9, <1>10, <1>12, <1>13, <1>14 DEF Reserving

\* Reserving takes free space behind everything that is reserved.
LEMMA ReserveKeeps ==
  ASSUME PlainData, SafeInv, BeforeWrap', NEW p \in Producers, StartAllocate(p)
  PROVE  Placed' /\ Threading' /\ Stored'
<1>0. /\ p \in Threads /\ p \notin Consumers
      /\ Producers \subseteq Threads /\ Consumers \subseteq Threads
  BY ThreadAssumption DEF Threads
<1>1a. PICK n \in Sizes, d \in DataWords, ps \in Nat :
          \E own, padding : Reserving(p, n, d, ps, own, padding)
  BY ReserveAdds
<1>1. PICK own, padding : Reserving(p, n, d, ps, own, padding)
  BY <1>1a
<1>2. n \in Nat /\ d \in Word /\ ~(d.state = "empty" /\ d.type = "jump")
  BY SizeAssumption DEF PlainData
<1>3. TypeOK /\ \A t \in Threads : t # p => Stays(t)
  <2>1. TypeOK
    BY DEF SafeInv, ReservationInv, TypeInv
  <2> QED
    BY <1>0, <2>1, OthersStay
<1>4. ps \in Nat /\ w \in Nat /\ r \in Nat /\ e \in Nat /\ BufWords \in Nat
  BY Numbers
<1>5. /\ w' = w + ps + 1 + n /\ UNCHANGED <<r, e, mem, hd, seen>>
      /\ pc[p] = "idle" /\ pc'[p] = "peek" /\ op'[p] = w /\ np'[p] = w + ps + 1 + n
      /\ pad'[p] = ps /\ ep'[p] = e
  BY <1>1 DEF Reserving
<1>6. own = [at |-> w + ps, len |-> n, type |-> "normal", data |-> d]
  BY <1>1 DEF Reserving
<1>7. padding = [at |-> w, len |-> ps - 1, type |-> "pad", data |-> Zero]
  BY <1>1 DEF Reserving
<1>8. /\ own \in tickets' /\ (ps > 0 => padding \in tickets') /\ tickets \subseteq tickets'
      /\ \A t \in tickets' \ tickets : t = own \/ (ps > 0 /\ t = padding)
      /\ own.at = w + ps /\ End(own) = w' /\ padding.at = w /\ padding.len = ps - 1
      /\ ps > 0 => End(padding) = w + ps
  BY <1>1 DEF Reserving
<1>9. MsgTicket(p)' = own /\ PadTicket(p)' = padding
  BY <1>1 DEF Reserving
<1>10. \A t \in tickets' \ tickets : t.at >= w /\ t.at \in Nat
  BY <1>1 DEF Reserving
<1>11. ASSUME NEW t \in Threads, t # p
       PROVE  /\ pc'[t] = pc[t] /\ op'[t] = op[t] /\ np'[t] = np[t] /\ pad'[t] = pad[t]
              /\ ep'[t] = ep[t] /\ hd'[t] = hd[t] /\ msg'[t] = msg[t] /\ seen'[t] = seen[t]
  BY <1>3, <1>11 DEF Stays
<1>12. Placed'
  <2>1. ASSUME NEW x \in Nat, x < w' PROVE \E t \in tickets' : t.at <= x /\ x < End(t)
    <3>1. CASE x < w
      BY <1>8, <3>1 DEF SafeInv, Placed, Cover
    <3>2. CASE w <= x /\ x < w + ps
      BY <1>4, <1>8, <3>2
    <3>3. CASE w + ps <= x
      BY <1>4, <1>8, <2>1, <3>3
    <3> QED
      BY <1>4, <3>1, <3>2, <3>3
  <2>2. ASSUME NEW t \in tickets' PROVE ~(t.data.state = "empty" /\ t.data.type = "jump")
    <3>1. CASE t \in tickets
      BY <3>1 DEF SafeInv, Placed, Cover
    <3>2. CASE t \notin tickets
      BY <1>2, <1>6, <1>7, <1>8, <3>2 DEF Zero
    <3> QED
      BY <3>1, <3>2
  <2>3. Cover'
    BY <2>1, <2>2 DEF Cover, End
  <2>4. ASSUME NEW x, Boundary(x) PROVE x = w' \/ \E t \in tickets' : t.at = x
    <3>1. CASE x = w
      BY <1>4, <1>8, <3>1
    <3> QED
      BY <1>8, <2>4, <3>1 DEF Boundary
  <2>5. Cursors'
    <3>1. BufWords <= e /\ e <= r + BufWords /\ r <= e /\ r <= w
          /\ Boundary(r) /\ Boundary(e - BufWords)
      BY DEF SafeInv, Placed, Cursors
    <3>2. r <= w'
      BY <1>2, <1>4, <1>5, <3>1
    <3>3. r = w' \/ \E t \in tickets' : t.at = r
      BY <2>4, <3>1
    <3>4. e - BufWords = w' \/ \E t \in tickets' : t.at = e - BufWords
      BY <2>4, <3>1
    <3> QED
      BY <1>5, <3>1, <3>2, <3>3, <3>4 DEF Cursors, Boundary
  <2>6. SeenEmpty'
    BY <1>4, <1>5, <1>11 DEF SafeInv, Placed, SeenEmpty
  <2> QED
    BY <2>3, <2>5, <2>6 DEF Placed
<1>13. Threading'
  <2>1. Roles'
    BY <1>0, <1>5, <1>11 DEF SafeInv, Threading, Roles, Ahead
  <2>2. ASSUME NEW q \in Producers, pc'[q] # "idle" PROVE Reserves(q)'
    <3>1. CASE q = p
      <4>1. r' <= op'[p]
        BY <1>5 DEF SafeInv, Placed, Cursors
      <4>2. ~Encoding(p)'
        BY <1>5 DEF Encoding
      <4> QED
        BY <1>5, <1>8, <1>9, <3>1, <4>1, <4>2 DEF Reserves
    <3>2. CASE q # p
      <4>1. Stays(q) /\ Reserves(q)
        BY <1>0, <1>3, <2>2, <3>2 DEF SafeInv, Threading, Allocating, Stays
      <4> QED
        BY <1>5, <1>8, <4>1 DEF Reserves, Stays, MsgTicket, PadTicket, Encoding
    <3> QED
      BY <3>1, <3>2
  <2>3. ASSUME NEW q1 \in Producers, NEW q2 \in Producers, q1 # q2,
               pc'[q1] # "idle", pc'[q2] # "idle"
        PROVE  np'[q1] <= op'[q2] \/ np'[q2] <= op'[q1]
    <3>1. ASSUME NEW q \in Producers, q # p, pc'[q] # "idle" PROVE np'[q] <= op'[p]
      <4>1. pc[q] # "idle" /\ np'[q] = np[q] /\ np[q] <= w
        BY <1>0, <1>11, <3>1, Reservation
      <4> QED
        BY <1>5, <4>1
    <3>2. CASE q1 = p \/ q2 = p
      BY <2>3, <3>1, <3>2
    <3>3. CASE q1 # p /\ q2 # p
      BY <1>0, <1>11, <2>3, <3>3 DEF SafeInv, Threading, ProducersApart
    <3> QED
      BY <3>2, <3>3
  <2>4. ASSUME NEW c \in Consumers PROVE Claims(c)'
    <3>1. Stays(c) /\ Claims(c)
      BY <1>0, <1>3 DEF SafeInv, Threading, Claiming
    <3> QED
      BY <1>5, <3>1 DEF Claims, Stays, W
  <2>5. ReadersApart' /\ HoldersApart'
    BY <1>0, <1>11 DEF SafeInv, Threading, ReadersApart, HoldersApart, Reading, Holder
  <2> QED
    BY <2>1, <2>2, <2>3, <2>4, <2>5 DEF Threading, Allocating, ProducersApart, Claiming
<1>14. Stored'
  <2>1. ASSUME NEW q \in Producers
        PROVE  (pc'[q] \in Ahead => Waits(q)') /\ (Encoding(q)' => Writes(q)')
    <3>1. CASE q = p
      <4>1. ASSUME NEW x \in Nat, w <= x, x < e PROVE W(x)' = Zero
        BY <1>5, <4>1 DEF SafeInv, Stored, FreeWords, W
      <4>2. Waits(p)'
        BY <1>5, <4>1 DEF Waits
      <4>3. ~Encoding(p)'
        BY <1>5 DEF Encoding
      <4> QED
        BY <3>1, <4>2, <4>3
    <3>2. CASE q # p
      <4>1. Stays(q) /\ (pc[q] \in Ahead => Waits(q)) /\ (Encoding(q) => Writes(q))
        BY <1>0, <1>3, <3>2 DEF SafeInv, Stored, ProducerWords
      <4>2. pc'[q] \in Ahead => Waits(q)'
        BY <1>5, <4>1 DEF Stays, Waits, W
      <4>3. Encoding(q)' => Writes(q)'
        BY <1>5, <4>1 DEF Stays, Writes, W, Encoding
      <4> QED
        BY <4>2, <4>3
    <3> QED
      BY <3>1, <3>2
  <2>2. ASSUME NEW c \in Consumers
        PROVE  /\ Reading(c)' => \E t \in tickets' : ReadBy(t, c)'
               /\ Holder(c)' => \E t \in tickets' : HeldBy(t, c)'
    <3>1. /\ Stays(c) /\ (Reading(c) => \E t \in tickets : ReadBy(t, c))
          /\ Holder(c) => \E t \in tickets : HeldBy(t, c)
      BY <1>0, <1>3 DEF SafeInv, Stored, ConsumerWords
    <3>2. \A t \in tickets : ReadBy(t, c) => ReadBy(t, c)'
      BY <1>5, <3>1 DEF ReadBy, Stays, W, Inside, Live
    <3>3. \A t \in tickets : HeldBy(t, c) => HeldBy(t, c)'
      BY <1>5, <3>1 DEF HeldBy, Stays, W, Live
    <3> QED
      BY <1>8, <3>1, <3>2, <3>3 DEF Stays, Reading, Holder
  <2>3. ASSUME NEW t \in tickets' PROVE Sent(t)' /\ Done(t)'
    <3>1. CASE t \in tickets
      <4>1. Sent(t) /\ Done(t)
        BY <3>1 DEF SafeInv, Stored, TicketWords
      <4>2. t \in Pending => t \in Pending'
        <5> SUFFICES ASSUME t \in Pending PROVE t \in Pending'
          OBVIOUS
        <5>1. PICK q \in Producers :
                pc[q] # "idle" /\ (t.at = op[q] + pad[q] \/ (pad[q] > 0 /\ t.at = op[q]))
          BY DEF Pending
        <5>2. pc'[q] # "idle" /\ op'[q] = op[q] /\ pad'[q] = pad[q]
          BY <1>0, <1>5, <1>11, <5>1
        <5> QED
          BY <2>3, <5>1, <5>2 DEF Pending
      <4>3. Sent(t)'
        BY <1>5, <4>1, <4>2 DEF Sent, W, Inside, End, Sealed
      <4>4. (\A c \in Consumers : ~(Reading(c)' /\ op'[c] = t.at)) =>
              \A c \in Consumers : ~(Reading(c) /\ op[c] = t.at)
        BY <1>0, <1>11 DEF Reading
      <4>5. Done(t)'
        BY <1>5, <4>1, <4>4 DEF Done, W, Inside, Live, Spent
      <4> QED
        BY <4>3, <4>5
    <3>2. CASE t \notin tickets
      <4>1. t.at = op'[p] + pad'[p] \/ (pad'[p] > 0 /\ t.at = op'[p])
        BY <1>5, <1>8, <3>2
      <4>2. t \in Pending'
        BY <1>5, <2>3, <4>1 DEF Pending
      <4>3. ~(t.at < r')
        BY <1>4, <1>5, <1>10, <2>3, <3>2 DEF SafeInv, Placed, Cursors
      <4> QED
        BY <4>2, <4>3 DEF Sent, Done
    <3> QED
      BY <3>1, <3>2
  <2>4. FreeWords'
    <3>1. ASSUME NEW x \in Nat, w' <= x, x < e PROVE W(x)' = Zero
      <4>1. w <= x
        BY <1>2, <1>4, <1>5, <3>1
      <4> QED
        BY <1>5, <3>1, <4>1 DEF SafeInv, Stored, FreeWords, W
    <3> QED
      BY <1>5, <3>1 DEF FreeWords
  <2> QED
    BY <2>1, <2>2, <2>3, <2>4 DEF Stored, ProducerWords, ConsumerWords, TicketWords
<1> QED
  BY <1>12, <1>13, <1>14

\* Claiming passes r over exactly one message, the one committed at r.
LEMMA ClaimedMessage ==
  ASSUME SafeInv, BeforeWrap, NEW c \in Consumers, Claim(c), Unclaimed(c)
  PROVE  \E t \in tickets :
           /\ t \notin Pending /\ t.at = r /\ r' = End(t)
           /\ End(t) <= e /\ W(t.at) = Sealed(t) /\ hd[c] = Sealed(t)
           /\ \A x \in Inside(t) : W(x) = t.data
<1>1. /\ c \in Threads /\ Claims(c)
      /\ e \in Nat /\ r \in Nat /\ w \in Nat /\ w = total /\ BufWords \in Nat
      /\ CursorMod \in Nat
  BY ConsumerLocals, Numbers, SizeAssumption DEF Threads
<1>2. pc[c] = "claim" /\ op[c] = r /\ r' = Add(r, 1 + hd[c].size)
  BY DEF Claim, Unclaimed
<1>3. r < e /\ W(r) = hd[c] /\ hd[c].state = "full"
  BY <1>1, <1>2 DEF Claims, Committed
<1>4. PICK t \in tickets : t \notin Pending /\ t.at = r
  BY <1>3, FullIsCommitted
<1>5. t.at \in Nat /\ t.len \in Nat /\ End(t) <= w /\ End(t) = t.at + 1 + t.len
  BY Numbers DEF End
<1>6. End(t) <= e /\ W(t.at) = Sealed(t) /\ \A x \in Inside(t) : W(x) = t.data
  BY <1>1, <1>4 DEF SafeInv, Stored, TicketWords, Sent
<1>7. hd[c] = Sealed(t) /\ hd[c].size = t.len
  BY <1>3, <1>4, <1>6 DEF Sealed
<1>8. r' = End(t)
  <2>1. r + (1 + t.len) < CursorMod
    BY <1>1, <1>4, <1>5 DEF BeforeWrap
  <2>2. 1 + t.len \in Nat
    BY <1>5
  <2>3. Add(r, 1 + t.len) = r + (1 + t.len)
    BY <1>1, <2>1, <2>2, AddWithoutWrap
  <2> QED
    BY <1>1, <1>2, <1>4, <1>5, <1>7, <2>3
<1> QED
  BY <1>4, <1>6, <1>7, <1>8

\* What was committed is now being read.
LEMMA ClaimKeeps ==
  ASSUME SafeInv, BeforeWrap, NEW c \in Consumers, Claim(c), Unclaimed(c)
  PROVE  Placed' /\ Threading' /\ Stored'
<1>0. Consume(c) /\ Producers \subseteq Threads /\ Consumers \subseteq Threads
  BY DEF Consume, Threads
<1>1. /\ c \in Threads /\ c \notin Producers
      /\ \A t \in Threads : t # c => Stays(t)
      /\ UNCHANGED <<w, e, tickets, total, mem>>
  BY <1>0, ConsumerFrame DEF Claim
<1>2. /\ pc \in [Threads -> PC] /\ ep[c] <= e /\ Claims(c)
      /\ e \in Nat /\ r \in Nat /\ w \in Nat /\ w = total /\ BufWords \in Nat
      /\ CursorMod \in Nat
  BY ConsumerLocals, Numbers, SizeAssumption
<1>3. /\ pc[c] = "claim" /\ pc'[c] = "mark" /\ op' = op /\ ep' = ep /\ hd' = hd /\ op[c] = r
      /\ r' = Add(r, 1 + hd[c].size)
  BY <1>1, <1>2 DEF Claim, Goto, Unclaimed
<1>5. PICK t \in tickets :
        /\ t \notin Pending /\ t.at = r /\ r' = End(t)
        /\ End(t) <= e /\ W(t.at) = Sealed(t) /\ hd[c] = Sealed(t)
        /\ \A x \in Inside(t) : W(x) = t.data
  BY ClaimedMessage
<1>6. t.at \in Nat /\ t.len \in Nat /\ End(t) <= w /\ End(t) = t.at + 1 + t.len
  BY Numbers DEF End
<1>7. End(t) <= e /\ W(t.at) = Sealed(t) /\ \A x \in Inside(t) : W(x) = t.data
  BY <1>5
<1>8. hd[c] = Sealed(t) /\ hd[c].size = t.len /\ hd[c].type = t.type
  BY <1>5 DEF Sealed
<1>9. r' = End(t) /\ r < r' /\ r' \in Nat
  BY <1>2, <1>5, <1>6
<1>10. Placed'
  <2>1. Boundary(End(t))
    BY NextBoundary
  <2>2. Cursors'
    <3>1. BufWords <= e /\ e <= r + BufWords /\ Boundary(e - BufWords)
      BY DEF SafeInv, Placed, Cursors
    <3>2. e' <= r' + BufWords /\ r' <= e' /\ r' <= w'
      BY <1>1, <1>2, <1>6, <1>7, <1>9, <3>1
    <3>3. r' = w' \/ \E u \in tickets' : u.at = r'
      BY <1>1, <1>9, <2>1 DEF Boundary
    <3>4. e' - BufWords = w' \/ \E u \in tickets' : u.at = e' - BufWords
      BY <1>1, <3>1 DEF Boundary
    <3> QED
      BY <1>1, <3>1, <3>2, <3>3, <3>4 DEF Cursors, Boundary
  <2>3. Cover' /\ SeenEmpty'
    BY <1>1, <1>3 DEF SafeInv, Placed, Cover, SeenEmpty, End
  <2> QED
    BY <2>2, <2>3 DEF Placed
<1>11. Threading'
  <2>1. Roles'
    BY <1>0, <1>1, <1>3 DEF SafeInv, Threading, Roles, Stays, Ahead
  <2>2. ASSUME NEW p \in Producers, pc'[p] # "idle" PROVE Reserves(p)'
    <3>1. Stays(p) /\ pc[p] # "idle" /\ Reserves(p)
      BY <1>0, <1>1, <2>2 DEF SafeInv, Threading, Allocating, Stays
    <3>2. /\ p \in Threads /\ r <= op[p] /\ MsgTicket(p) \in tickets /\ MsgTicket(p) \in Pending
          /\ pad[p] > 0 => PadTicket(p) \in tickets /\ PadTicket(p) \in Pending
          /\ MsgTicket(p).at = op[p] + pad[p] /\ PadTicket(p).at = op[p]
      BY <3>1, Reservation, ReservationSpan
    <3>3. op[p] \in Nat /\ pad[p] \in Nat
      BY <3>2, Numbers
    <3>4. op[p] # r
      <4> SUFFICES ASSUME op[p] = r PROVE FALSE
        OBVIOUS
      <4>1. CASE pad[p] > 0
        BY <1>5, <3>2, <4>1, TicketsApart
      <4>2. CASE pad[p] = 0
        BY <1>5, <3>2, <3>3, <4>2, TicketsApart
      <4> QED
        BY <3>3, <4>1, <4>2
    <3>5. End(t) <= op[p]
      <4>1. CASE pad[p] > 0
        BY <1>2, <1>5, <3>2, <3>3, <3>4, <4>1, TicketsApart
      <4>2. CASE pad[p] = 0
        BY <1>2, <1>5, <3>2, <3>3, <3>4, <4>2, TicketsApart
      <4> QED
        BY <3>3, <4>1, <4>2
    <3> QED
      BY <1>1, <1>9, <3>1, <3>5 DEF Reserves, Stays, MsgTicket, PadTicket, Encoding
  <2>3. ProducersApart'
    BY <1>0, <1>1 DEF SafeInv, Threading, ProducersApart, Stays
  <2>4. ASSUME NEW d \in Consumers PROVE Claims(d)'
    <3>1. CASE d = c
      BY <1>3, <3>1 DEF Claims
    <3>2. CASE d # c
      <4>1. Stays(d) /\ Claims(d) /\ op[d] \in Nat
        BY <1>0, <1>1, <3>2, Numbers DEF SafeInv, Threading, Claiming
      <4>2. pc'[d] \in {"header", "claim"} => op'[d] < r'
        BY <1>2, <1>9, <4>1 DEF Claims, Stays
      <4>3. pc'[d] = "clear" => hd'[d].state = "empty" /\ hd'[d].type = "jump"
        BY <4>1 DEF Claims, Stays
      <4>4. op'[d] \in Nat
        BY <4>1 DEF Stays
      <4> QED
        BY <1>9, <4>2, <4>3, <4>4 DEF Claims
    <3> QED
      BY <3>1, <3>2
  <2>5. ReadersApart'
    <3>1. ASSUME NEW d \in Consumers, d # c, Reading(d)' PROVE op'[d] # op'[c]
      <4>1. Reading(d) /\ op'[d] = op[d]
        BY <1>0, <1>1, <3>1 DEF Reading, Stays
      <4>2. PICK u \in tickets : ReadBy(u, d)
        BY <4>1 DEF SafeInv, Stored, ConsumerWords
      <4>3. op[d] < r /\ op[d] \in Nat
        BY <1>0, <4>2, Numbers DEF ReadBy
      <4> QED
        BY <1>2, <1>3, <4>1, <4>3
    <3> QED
      BY <1>0, <1>1, <3>1 DEF SafeInv, Threading, ReadersApart, Reading, Stays
  <2>6. HoldersApart'
    BY <1>0, <1>1, <1>3 DEF SafeInv, Threading, HoldersApart, Holder, Stays
  <2> QED
    BY <2>1, <2>2, <2>3, <2>4, <2>5, <2>6 DEF Threading, Allocating, Claiming
<1>12. Stored'
  <2>1. ASSUME NEW q \in Producers
        PROVE  (pc'[q] \in Ahead => Waits(q)') /\ (Encoding(q)' => Writes(q)')
    <3>1. Stays(q) /\ (pc[q] \in Ahead => Waits(q)) /\ (Encoding(q) => Writes(q))
      BY <1>0, <1>1 DEF SafeInv, Stored, ProducerWords
    <3>2. pc'[q] \in Ahead => Waits(q)'
      BY <1>1, <3>1 DEF Stays, Waits, W
    <3>3. Encoding(q)' => Writes(q)'
      BY <1>1, <3>1 DEF Stays, Writes, W, Encoding
    <3> QED
      BY <3>2, <3>3
  <2>2. ReadBy(t, c)'
    <3>1. Live(t)' /\ t.at < r' /\ t.at = op'[c]
      BY <1>1, <1>2, <1>3, <1>5, <1>9 DEF Live, SafeInv, Placed, Cursors
    <3>2. W(t.at)' = Sealed(t) /\ \A x \in Inside(t) : W(x)' = t.data
      BY <1>1, <1>7 DEF W
    <3> QED
      BY <1>3, <1>8, <3>1, <3>2 DEF ReadBy, Inside, Sealed
  <2>3. ASSUME NEW d \in Consumers, d # c
        PROVE  /\ Reading(d)' => \E u \in tickets' : ReadBy(u, d)'
               /\ Holder(d)' => \E u \in tickets' : HeldBy(u, d)'
    <3>1. /\ Stays(d) /\ (Reading(d) => \E u \in tickets : ReadBy(u, d))
          /\ Holder(d) => \E u \in tickets : HeldBy(u, d)
      BY <1>0, <1>1, <2>3 DEF SafeInv, Stored, ConsumerWords
    <3>2. \A u \in tickets : u.at < r => u.at < r'
      BY <1>2, <1>9, Numbers
    <3>3. \A u \in tickets : ReadBy(u, d) => ReadBy(u, d)'
      BY <1>1, <3>1, <3>2 DEF ReadBy, Stays, W, Inside, Live
    <3>4. \A u \in tickets : HeldBy(u, d) => HeldBy(u, d)'
      BY <1>1, <3>1, <3>2 DEF HeldBy, Stays, W, Live
    <3> QED
      BY <1>1, <3>1, <3>3, <3>4 DEF Stays, Reading, Holder
  <2>4. ConsumerWords'
    <3>1. Reading(c)' /\ ~Holder(c)'
      BY <1>3 DEF Reading, Holder
    <3> QED
      BY <1>1, <2>2, <2>3, <3>1 DEF ConsumerWords
  <2>5. ASSUME NEW u \in tickets PROVE Sent(u)' /\ Done(u)'
    <3>1. Sent(u) /\ Done(u) /\ u.at \in Nat
      BY Numbers DEF SafeInv, Stored, TicketWords
    <3>2. Sent(u)'
      <4>1. Pending \subseteq Pending'
        BY <1>1, PendingKeeps
      <4>2. r' <= u.at => r <= u.at
        BY <1>2, <1>9, <3>1
      <4> QED
        BY <1>1, <3>1, <4>1, <4>2 DEF Sent, W, Inside, End, Sealed
    <3>3. CASE u = t
      <4>1. Reading(c)' /\ op'[c] = u.at
        BY <1>3, <1>5, <3>3 DEF Reading
      <4> QED
        BY <3>2, <4>1 DEF Done
    <3>4. CASE u # t
      <4>1. u.at < r' => u.at < r
        BY <1>2, <1>5, <1>6, <1>9, <3>1, <3>4, TicketsApart
      <4>2. (\A d \in Consumers : ~(Reading(d)' /\ op'[d] = u.at)) =>
              \A d \in Consumers : ~(Reading(d) /\ op[d] = u.at)
        BY <1>0, <1>1, <1>3 DEF Reading, Stays
      <4>3. Done(u)'
        BY <1>1, <3>1, <4>1, <4>2 DEF Done, W, Inside, Live, Spent
      <4> QED
        BY <3>2, <4>3
    <3> QED
      BY <3>3, <3>4
  <2>6. FreeWords'
    BY <1>1 DEF SafeInv, Stored, FreeWords, W
  <2> QED
    BY <1>1, <2>1, <2>4, <2>5, <2>6 DEF Stored, ProducerWords, TicketWords
<1> QED
  BY <1>10, <1>11, <1>12

\* Moving e frees exactly the message at e's position, whose words are all zero.
LEMMA FreedMessage ==
  ASSUME SafeInv, BeforeWrap, NEW c \in Consumers, Advance(c), e = ep[c]
  PROVE  \E t \in tickets :
           /\ HeldBy(t, c) /\ t.at + BufWords = e /\ e' = End(t) + BufWords
           /\ \A d \in Consumers : Reading(d) => op[d] # t.at
           /\ \A x \in Inside(t) : W(x) = Zero
<1>1. /\ e \in Nat /\ r \in Nat /\ w \in Nat /\ w = total /\ BufWords \in Nat /\ BufWords > 0
      /\ CursorMod \in Nat /\ r <= w /\ r <= e /\ e <= r + BufWords /\ BufWords <= e
  BY ConsumerLocals, Numbers, SizeAssumption DEF SafeInv, Placed, Cursors
<1>2. Holder(c) /\ e' = Add(e, 1 + hd[c].size)
  BY DEF Advance, Holder
<1>3. PICK t \in tickets : HeldBy(t, c)
  BY <1>2 DEF SafeInv, Stored, ConsumerWords
<1>4. Live(t) /\ t.at < r /\ Pos(e) = Pos(t.at) /\ W(t.at) = Zero /\ hd[c].size = t.len
  BY <1>3 DEF HeldBy, Spent
<1>5. /\ \A d \in Consumers : Reading(d) => op[d] # t.at
      /\ \A x \in Inside(t) : W(x) = Zero
      /\ End(t) <= r /\ t.at \in Nat /\ t.len \in Nat /\ End(t) \in Nat
      /\ End(t) = t.at + 1 + t.len /\ t.at < e
  BY <1>4, HeldAlone DEF Zero
<1>6. t.at + BufWords = e
  <2>1. PICK y \in Nat : y = e - BufWords
    BY <1>1
  <2>2. Pos(y) = Pos(e)
    <3>1. y + BufWords = e
      BY <1>1, <2>1
    <3> QED
      BY <2>1, <3>1, PosPeriod
  <2>3. y = t.at
    BY <1>1, <1>4, <1>5, <2>1, <2>2, OneWord DEF Live
  <2> QED
    BY <1>1, <2>1, <2>3
<1>7. e' = End(t) + BufWords
  <2>1. 1 + t.len \in Nat /\ e + (1 + t.len) < CursorMod
    BY <1>1, <1>5, <1>6 DEF BeforeWrap
  <2>2. Add(e, 1 + t.len) = e + (1 + t.len)
    BY <1>1, <2>1, AddWithoutWrap
  <2> QED
    BY <1>1, <1>2, <1>4, <1>5, <1>6, <2>2
<1> QED
  BY <1>3, <1>5, <1>6, <1>7

\* The freed words are clean for whoever reserves them next.
LEMMA AdvanceKeeps ==
  ASSUME SafeInv, BeforeWrap, NEW c \in Consumers, Advance(c), e = ep[c]
  PROVE  Placed' /\ Threading' /\ Stored'
<1>0. Finalize(c) /\ Producers \subseteq Threads /\ Consumers \subseteq Threads
  BY DEF Finalize, Threads
<1>1. /\ c \in Threads /\ c \notin Producers
      /\ \A t \in Threads : t # c => Stays(t)
      /\ UNCHANGED <<w, r, tickets, total, mem>>
  BY <1>0, ConsumerFrame DEF Advance
<1>2. /\ pc \in [Threads -> PC] /\ ep \in [Threads -> Cursor]
      /\ e \in Nat /\ r \in Nat /\ w \in Nat /\ w = total /\ BufWords \in Nat /\ BufWords > 0
      /\ CursorMod \in Nat /\ r <= w /\ r <= e /\ e <= r + BufWords /\ BufWords <= e
  BY ConsumerLocals, Numbers, SizeAssumption DEF SafeInv, Placed, Cursors
<1>3. /\ pc[c] = "advance" /\ pc'[c] = "peek_e" /\ op' = op /\ hd' = hd
      /\ e' = Add(e, 1 + hd[c].size) /\ ep'[c] = e'
      /\ Holder(c)
  BY <1>1, <1>2 DEF Advance, GoOn, Goto, Holder
<1>4. PICK t \in tickets :
        /\ HeldBy(t, c) /\ t.at + BufWords = e /\ e' = End(t) + BufWords
        /\ \A d \in Consumers : Reading(d) => op[d] # t.at
        /\ \A x \in Inside(t) : W(x) = Zero
  BY FreedMessage
<1>5. Live(t) /\ t.at < r /\ Pos(e) = Pos(t.at) /\ Pos(ep[c]) = Pos(t.at)
      /\ W(t.at) = Zero /\ hd[c].size = t.len
  BY <1>4 DEF HeldBy, Spent
<1>6. /\ \A d \in Consumers : Reading(d) => op[d] # t.at
      /\ \A x \in Inside(t) : W(x) = Zero
      /\ End(t) <= r /\ t.at \in Nat /\ t.len \in Nat /\ End(t) \in Nat
      /\ End(t) = t.at + 1 + t.len /\ t.at < e
  BY <1>4, <1>5, HeldAlone DEF Zero
<1>7. t.at + BufWords = e
  BY <1>4
<1>8. e' = End(t) + BufWords /\ e < e' /\ e' \in Nat
  BY <1>2, <1>4, <1>6, <1>7
<1>9. ASSUME NEW x \in Nat, e <= x, x < e'
      PROVE  W(x) = Zero /\ W(x)' = Zero
  <2>1. PICK y \in Nat : y + BufWords = x
    <3>1. x - BufWords \in Nat /\ (x - BufWords) + BufWords = x
      BY <1>2, <1>9
    <3> QED
      BY <3>1
  <2>2. y = t.at \/ y \in Inside(t)
    BY <1>2, <1>6, <1>7, <1>8, <1>9, <2>1 DEF Inside
  <2>3. W(y) = Zero
    BY <1>5, <1>6, <2>2
  <2>4. Pos(x) = Pos(y)
    BY <2>1, PosPeriod
  <2> QED
    BY <1>1, <2>3, <2>4 DEF W
<1>10. ASSUME NEW u \in tickets, Live(u), u # t PROVE Live(u)'
  <2>1. u.at \in Nat /\ u.len \in Nat
    BY Numbers
  <2>2. t.at < u.at
    <3>1. t.at <= u.at
      BY <1>2, <1>6, <1>7, <1>10, <2>1 DEF Live
    <3>2. t.at # u.at
      BY <1>10, TicketsApart
    <3> QED
      BY <1>6, <2>1, <3>1, <3>2
  <2>3. End(t) <= u.at
    BY <2>2, TicketsApart
  <2> QED
    BY <1>1, <1>2, <1>6, <1>8, <2>1, <2>3 DEF Live
<1>11. Placed'
  <2>1. Boundary(End(t))
    BY NextBoundary
  <2>2. Cursors'
    <3>1. BufWords <= e' /\ e' <= r + BufWords /\ r <= e' /\ Boundary(r)
      BY <1>2, <1>6, <1>8 DEF SafeInv, Placed, Cursors
    <3>2. e' - BufWords = End(t)
      BY <1>2, <1>6, <1>8
    <3>3. End(t) = w' \/ \E u \in tickets' : u.at = End(t)
      BY <1>1, <2>1 DEF Boundary
    <3>4. r' = w' \/ \E u \in tickets' : u.at = r'
      BY <1>1, <3>1 DEF Boundary
    <3> QED
      BY <1>1, <1>2, <3>1, <3>2, <3>3, <3>4 DEF Cursors, Boundary
  <2>3. SeenEmpty'
    <3>1. ASSUME NEW u \in Threads, u # c PROVE ep'[u] <= e'
      <4>1. ep'[u] = ep[u] /\ ep[u] <= e /\ ep[u] \in Nat
        BY <1>1, <3>1, Numbers DEF Stays, SafeInv, Placed, SeenEmpty
      <4> QED
        BY <1>2, <1>8, <4>1
    <3> QED
      BY <1>3, <1>8, <3>1 DEF SeenEmpty
  <2>4. Cover'
    BY <1>1 DEF SafeInv, Placed, Cover, End
  <2> QED
    BY <2>2, <2>3, <2>4 DEF Placed
<1>12. Threading'
  <2>1. Roles'
    BY <1>0, <1>1, <1>3 DEF SafeInv, Threading, Roles, Stays, Ahead
  <2>2. ASSUME NEW p \in Producers, pc'[p] # "idle" PROVE Reserves(p)'
    <3>1. Stays(p) /\ pc[p] # "idle" /\ Reserves(p)
      BY <1>0, <1>1, <2>2 DEF SafeInv, Threading, Allocating, Stays
    <3> QED
      BY <1>1, <3>1 DEF Reserves, Stays, MsgTicket, PadTicket, Encoding
  <2>3. ProducersApart'
    BY <1>0, <1>1 DEF SafeInv, Threading, ProducersApart, Stays
  <2>4. ASSUME NEW d \in Consumers PROVE Claims(d)'
    <3>1. CASE d = c
      BY <1>3, <3>1 DEF Claims
    <3>2. CASE d # c
      <4>1. Stays(d) /\ Claims(d)
        BY <1>0, <1>1, <3>2 DEF SafeInv, Threading, Claiming
      <4>2. r < e => r' < e'
        BY <1>1, <1>2, <1>8
      <4> QED
        BY <1>1, <4>1, <4>2 DEF Claims, Stays, W
    <3> QED
      BY <3>1, <3>2
  <2>5. ReadersApart'
    BY <1>0, <1>1, <1>3 DEF SafeInv, Threading, ReadersApart, Reading, Stays
  <2>6. HoldersApart'
    BY <1>0, <1>1, <1>3 DEF SafeInv, Threading, HoldersApart, Holder, Stays
  <2> QED
    BY <2>1, <2>2, <2>3, <2>4, <2>5, <2>6 DEF Threading, Allocating, Claiming
<1>13. Stored'
  <2>1. ASSUME NEW q \in Producers
        PROVE  (pc'[q] \in Ahead => Waits(q)') /\ (Encoding(q)' => Writes(q)')
    <3>1. Stays(q) /\ (pc[q] \in Ahead => Waits(q)) /\ (Encoding(q) => Writes(q))
      BY <1>0, <1>1 DEF SafeInv, Stored, ProducerWords
    <3>2. ASSUME pc'[q] \in Ahead PROVE Waits(q)'
      <4>1. ASSUME NEW x \in Nat, op'[q] <= x, x < np'[q], x < e' PROVE W(x)' = Zero
        <5>1. CASE x < e
          BY <1>1, <3>1, <3>2, <4>1, <5>1 DEF Stays, Waits, W
        <5>2. CASE e <= x
          BY <1>9, <4>1, <5>2
        <5> QED
          BY <1>2, <5>1, <5>2
      <4> QED
        BY <4>1 DEF Waits
    <3>3. Encoding(q)' => Writes(q)'
      BY <1>1, <3>1 DEF Stays, Writes, W, Encoding
    <3> QED
      BY <3>2, <3>3
  <2>2. ASSUME NEW d \in Consumers
        PROVE  /\ Reading(d)' => \E u \in tickets' : ReadBy(u, d)'
               /\ Holder(d)' => \E u \in tickets' : HeldBy(u, d)'
    <3>1. CASE d = c
      BY <1>3, <3>1 DEF Reading, Holder
    <3>2. CASE d # c
      <4>1. /\ Stays(d) /\ (Reading(d) => \E u \in tickets : ReadBy(u, d))
            /\ Holder(d) => \E u \in tickets : HeldBy(u, d)
        BY <1>0, <1>1, <3>2 DEF SafeInv, Stored, ConsumerWords
      <4>2. ASSUME Reading(d)' PROVE \E u \in tickets' : ReadBy(u, d)'
        <5>1. PICK u \in tickets : ReadBy(u, d)
          BY <4>1, <4>2 DEF Stays, Reading
        <5>2. u # t /\ Live(u)
          BY <1>6, <4>1, <4>2, <5>1 DEF ReadBy, Stays, Reading
        <5>3. Live(u)'
          BY <1>10, <5>2
        <5>4. ReadBy(u, d)'
          BY <1>1, <4>1, <5>1, <5>3 DEF ReadBy, Stays, W, Inside
        <5> QED
          BY <1>1, <5>4
      <4>3. ASSUME Holder(d)' PROVE \E u \in tickets' : HeldBy(u, d)'
        <5>1. PICK u \in tickets : HeldBy(u, d)
          BY <4>1, <4>3 DEF Stays, Holder
        <5>2. Holder(d) /\ Pos(ep[d]) # Pos(ep[c])
          BY <1>3, <3>2, <4>1, <4>3 DEF Stays, Holder, SafeInv, Threading, HoldersApart
        <5>3. u # t /\ Live(u)
          BY <1>5, <5>1, <5>2 DEF HeldBy
        <5>4. Live(u)'
          BY <1>10, <5>3
        <5>5. HeldBy(u, d)'
          BY <1>1, <4>1, <5>1, <5>4 DEF HeldBy, Stays, W
        <5> QED
          BY <1>1, <5>5
      <4> QED
        BY <4>2, <4>3
    <3> QED
      BY <3>1, <3>2
  <2>3. ASSUME NEW u \in tickets PROVE Sent(u)' /\ Done(u)'
    <3>1. Sent(u) /\ Done(u) /\ u.at \in Nat /\ u.len \in Nat
      BY Numbers DEF SafeInv, Stored, TicketWords
    <3>2. Sent(u)'
      <4>1. Pending \subseteq Pending'
        BY <1>1, PendingKeeps
      <4>2. End(u) <= e => End(u) <= e'
        BY <1>2, <1>8, <3>1 DEF End
      <4> QED
        BY <1>1, <3>1, <4>1, <4>2 DEF Sent, W, Inside, End, Sealed
    <3>3. Done(u)'
      <4>1. Live(u)' => Live(u)
        BY <1>1, <1>2, <1>8, <3>1 DEF Live
      <4>2. (\A d \in Consumers : ~(Reading(d)' /\ op'[d] = u.at)) =>
              \A d \in Consumers : ~(Reading(d) /\ op[d] = u.at)
        BY <1>0, <1>1, <1>3 DEF Reading, Stays
      <4> QED
        BY <1>1, <3>1, <4>1, <4>2 DEF Done, W, Inside, Spent
    <3> QED
      BY <3>2, <3>3
  <2>4. FreeWords'
    <3>1. ASSUME NEW x \in Nat, w' <= x, x < e' PROVE W(x)' = Zero
      <4>1. CASE x < e
        BY <1>1, <3>1, <4>1 DEF SafeInv, Stored, FreeWords, W
      <4>2. CASE e <= x
        BY <1>9, <3>1, <4>2
      <4> QED
        BY <1>2, <4>1, <4>2
    <3> QED
      BY <3>1 DEF FreeWords
  <2> QED
    BY <1>1, <2>1, <2>2, <2>3, <2>4 DEF Stored, ProducerWords, ConsumerWords, TicketWords
<1> QED
  BY <1>11, <1>12, <1>13

-----------------------------------------------------------------------------
(* The invariant holds. *)

\* The queue is empty: every word is free.
LEMMA InitInv == Init => RingInv
<1> SUFFICES ASSUME Init PROVE RingInv
  OBVIOUS
<1>1. TypeInv
  BY InitTypeInv
<1>2. /\ Producers \subseteq Threads /\ Consumers \subseteq Threads
      /\ BufWords \in Nat /\ BufWords - BufWords = 0 /\ BufWords <= 0 + BufWords /\ 0 <= BufWords
  BY SizeAssumption DEF Threads
<1>3. /\ w = 0 /\ r = 0 /\ e = BufWords /\ tickets = {} /\ total = 0
      /\ \A t \in Threads : pc[t] = "idle" /\ ep[t] = 0
      /\ \A x \in 0 .. BufWords - 1 : mem[x] = Zero
  BY DEF Init
<1>4. ReservationInv
  BY <1>1, <1>2, <1>3 DEF ReservationInv, BelowW, ReservationsDisjoint
<1>5. Placed
  BY <1>2, <1>3 DEF Placed, Cover, Cursors, Boundary, SeenEmpty
<1>6. Threading
  BY <1>2, <1>3 DEF Threading, Roles, Allocating, ProducersApart, Claiming, Claims,
                    ReadersApart, HoldersApart, Reading, Holder, Ahead
<1>7. Stored
  <2>1. FreeWords
    BY <1>3, PosInBuffer DEF FreeWords, W
  <2>2. ProducerWords /\ ConsumerWords /\ TicketWords
    BY <1>2, <1>3 DEF ProducerWords, ConsumerWords, TicketWords, Ahead, Encoding, Reading, Holder
  <2> QED
    BY <2>1, <2>2 DEF Stored
<1> QED
  BY <1>1, <1>4, <1>5, <1>6, <1>7 DEF RingInv, SafeInv

\* Every step of a producer after it reserved keeps the invariant.
LEMMA ProducerKeeps ==
  ASSUME SafeInv, BeforeWrap, NEW p \in Producers, FinishAllocate(p)
  PROVE  SafeInv'
<1>1. Placed' /\ Threading' /\ Stored'
  BY WaitingKeeps, WritePadKeeps, MarkReadyKeeps, EncodeKeeps, CommitKeeps DEF FinishAllocate
<1>2. ReservationInv'
  BY FinishAllocateType, FinishAllocateKeepsDisjoint DEF SafeInv, ReservationInv
<1> QED
  BY <1>1, <1>2 DEF SafeInv

\* Every step of a consumer keeps the invariant.
LEMMA ConsumerKeeps ==
  ASSUME SafeInv, BeforeWrap, NEW c \in Consumers, Consume(c) \/ Finalize(c)
  PROVE  SafeInv'
<1>1. ASSUME Consume(c) PROVE Placed' /\ Threading' /\ Stored'
  BY <1>1, PeekingKeeps, ClaimKeeps, MarkReadKeeps, DecodeKeeps DEF Consume
<1>2. ASSUME Finalize(c) PROVE Placed' /\ Threading' /\ Stored'
  BY <1>2, WipeKeeps, ReleaseKeeps, LookingToFreeKeeps, ClearHeaderKeeps, AdvanceKeeps,
     StaleAdvanceKeeps, UnswapKeeps DEF Finalize
<1>3. ReservationInv'
  BY ConsumeType, FinalizeType, ConsumerKeepsDisjoint DEF SafeInv, ReservationInv
<1> QED
  BY <1>1, <1>2, <1>3 DEF SafeInv

\* Every step keeps the invariant; once the cursors have reached the end of
\* their range it says nothing, and they never come back from there.
LEMMA StepKeeps ==
  ASSUME PlainData, RingInv, [Next]_vars
  PROVE  RingInv' /\ (BeforeWrap' => BeforeWrap)
<1>0. TypeInv /\ (BeforeWrap => SafeInv)
  BY DEF RingInv
<1>1. total \in Nat /\ CursorMod \in Nat /\ BufWords \in Nat
  BY <1>0, SizeAssumption DEF TypeInv, TypeOK
<1>2. CASE \E p \in Producers : StartAllocate(p)
  <2>1. PICK p \in Producers, n \in Sizes, contiguous \in Contiguity, d \in DataWords :
          Reserve(p, n, contiguous, d)
    BY <1>2 DEF StartAllocate
  <2>2. StartAllocate(p)
    BY <2>1 DEF StartAllocate
  <2>3. TypeInv'
    BY <1>0, <2>1, ReserveType
  <2>4. total <= total' /\ total' \in Nat
    <3>1. n \in Nat /\ w \in Cursor /\ 1 + n \in 1 .. BufWords
      BY <1>0, SizeAssumption DEF TypeInv, TypeOK
    <3>2. (IF contiguous THEN Padding(w, 1 + n) ELSE 0) \in Nat
      BY <3>1, PaddingIsShort, SizeAssumption
    <3> QED
      BY <1>1, <2>1, <3>1, <3>2 DEF Reserve
  <2>5. BeforeWrap' => BeforeWrap /\ total' < CursorMod
    <3>1. \A a, b \in Nat : a <= b /\ b + BufWords < CursorMod =>
                            a + BufWords < CursorMod /\ b < CursorMod
      BY <1>1
    <3>2. total' + BufWords < CursorMod => total + BufWords < CursorMod /\ total' < CursorMod
      BY <1>1, <2>4, <3>1, Zenon
    <3> QED
      BY <3>2 DEF BeforeWrap
  <2>6. ASSUME BeforeWrap' PROVE SafeInv'
    <3>1. SafeInv /\ total' < CursorMod
      BY <1>0, <2>5, <2>6
    <3>2. ReservationInv /\ ReservationInv'
      BY <2>1, <2>3, <3>1, ReserveKeepsDisjoint DEF SafeInv, ReservationInv
    <3> QED
      BY <2>2, <2>6, <3>1, <3>2, ReserveKeeps DEF SafeInv
  <2> QED
    BY <2>3, <2>5, <2>6 DEF RingInv
<1>3. CASE \E p \in Producers : FinishAllocate(p)
  <2>1. PICK p \in Producers : FinishAllocate(p)
    BY <1>3
  <2>2. TypeInv'
    BY <1>0, <2>1, FinishAllocateType
  <2>3. total' = total
    BY <2>1 DEF FinishAllocate, LoadHeader, WaitForLap, Spin, WritePad, MarkReady, Encode,
                Commit, history
  <2>4. BeforeWrap' => BeforeWrap
    BY <2>3 DEF BeforeWrap
  <2> QED
    BY <1>0, <2>1, <2>2, <2>4, ProducerKeeps DEF RingInv
<1>4. CASE \E c \in Consumers : Consume(c) \/ Finalize(c)
  <2>1. PICK c \in Consumers : Consume(c) \/ Finalize(c)
    BY <1>4
  <2>2. TypeInv'
    BY <1>0, <2>1, ConsumeType, FinalizeType
  <2>3. total' = total
    BY <2>1 DEF Consume, Finalize, LoadCursors, AwaitSpace, ReadHeader, Claim, MarkRead,
                Decode, Wipe, Release, LoadEmpty, PeekEmpty, ClearHeader, Advance,
                UnswapHeader, history
  <2>4. BeforeWrap' => BeforeWrap
    BY <2>3 DEF BeforeWrap
  <2> QED
    BY <1>0, <2>1, <2>2, <2>4, ConsumerKeeps DEF RingInv
<1>5. CASE UNCHANGED vars
  <2> USE <1>5 DEF vars, locals, history
  <2>1. TypeInv' /\ (BeforeWrap' => BeforeWrap)
    BY <1>0 DEF TypeInv, TypeOK, PadPending, BeforeWrap
  <2>2. ASSUME SafeInv PROVE SafeInv'
    <3>1. ReservationInv'
      BY <2>2, <2>1 DEF SafeInv, ReservationInv, BelowW, ReservationsDisjoint
    <3>2. Placed'
      BY <2>2 DEF SafeInv, Placed, Cover, Cursors, Boundary, SeenEmpty, End
    <3>3. Threading'
      <4>1. Roles' /\ ProducersApart' /\ ReadersApart' /\ HoldersApart'
        BY <2>2 DEF SafeInv, Threading, Roles, ProducersApart, ReadersApart, HoldersApart,
                    Reading, Holder
      <4>2. Allocating' /\ Claiming'
        BY <2>2 DEF SafeInv, Threading, Allocating, Claiming, Reserves, Claims, MsgTicket,
                    PadTicket, Encoding, W
      <4> QED
        BY <4>1, <4>2 DEF Threading
    <3>4. ProducerWords'
      BY <2>2 DEF SafeInv, Stored, ProducerWords, Waits, Writes, Encoding, W
    <3>5. ConsumerWords'
      BY <2>2 DEF SafeInv, Stored, ConsumerWords, ReadBy, HeldBy, Reading, Holder, W, Live, Inside
    <3>6. TicketWords'
      BY <2>2 DEF SafeInv, Stored, TicketWords, Sent, Done, Pending, Reading, W, Live, Inside,
                  End, Sealed, Spent
    <3>7. FreeWords'
      BY <2>2 DEF SafeInv, Stored, FreeWords, W
    <3> QED
      BY <3>1, <3>2, <3>3, <3>4, <3>5, <3>6, <3>7 DEF SafeInv, Stored
  <2> QED
    BY <1>0, <2>1, <2>2 DEF RingInv
<1> QED
  BY <1>2, <1>3, <1>4, <1>5 DEF Next

\* The invariant holds of every behaviour.
LEMMA Invariance == ASSUME PlainData PROVE Spec => []RingInv
<1>1. Init => RingInv
  BY InitInv
<1>2. RingInv /\ [Next]_vars => RingInv'
  BY StepKeeps
<1> QED
  BY <1>1, <1>2, PTL DEF Spec

-----------------------------------------------------------------------------
(* What the invariant is for. *)

\* The words a thread reads and writes with plain accesses are those of one
\* message, which is wholly inside the buffer.
LEMMA OwnedMessage ==
  ASSUME SafeInv, NEW t \in Threads, Encoding(t) \/ Reading(t)
  PROVE  \E m \in tickets :
           /\ Owned(t) = {Pos(x) : x \in m.at .. m.at + m.len}
           /\ Live(m) /\ End(m) <= e
           /\ Encoding(t) => /\ t \in Producers /\ r <= m.at
                             /\ m.at = op[t] /\ m.len = msg[t].len /\ End(m) = np[t]
           /\ Reading(t) => t \in Consumers /\ m.at = op[t] /\ m.at < r /\ ReadBy(m, t)
<1>0. t \in Producers \/ t \in Consumers
  BY DEF Threads
<1>1. CASE t \in Producers
  <2>1. pc[t] \in Ahead \cup {"idle", "encode", "commit"}
    BY <1>1 DEF SafeInv, Threading, Roles
  <2>2. Encoding(t) /\ ~Reading(t) /\ pc[t] # "idle" /\ pc[t] \in {"wait", "encode", "commit"}
    BY <2>1 DEF Encoding, Reading, Ahead
  <2>3. np[t] <= ep[t]
    BY <1>1, <2>2, Reservation DEF SafeInv, Threading, Allocating, Reserves
  <2>4. PICK m : m = MsgTicket(t)
    OBVIOUS
  <2>5. /\ m.at = op[t] /\ m.len = msg[t].len /\ m \in tickets /\ r <= m.at
        /\ m.at \in Nat /\ m.len \in Nat /\ End(m) <= e /\ e <= m.at + BufWords
        /\ np[t] = End(m)
    BY <1>1, <2>2, <2>3, <2>4, AtMessage
  <2>6. Owned(t) = {Pos(x) : x \in m.at .. m.at + m.len}
    BY <2>2, <2>5, BodyPositions DEF Owned
  <2> QED
    BY <1>1, <2>2, <2>5, <2>6 DEF Live
<1>2. CASE t \in Consumers
  <2>1. pc[t] \notin Ahead \cup {"encode", "commit"}
    BY <1>2 DEF SafeInv, Threading, Roles
  <2>2. Reading(t) /\ ~Encoding(t)
    BY <2>1 DEF Encoding
  <2>3. PICK m \in tickets : ReadBy(m, t)
    BY <1>2, <2>2 DEF SafeInv, Stored, ConsumerWords
  <2>4. /\ m.at = op[t] /\ Live(m) /\ m.at < r /\ End(m) <= e
        /\ m.at \in Nat /\ m.len \in Nat /\ hd[t].size = m.len
    BY <1>2, <2>2, <2>3, ReaderAlone DEF ReadBy
  <2>5. Owned(t) = {Pos(x) : x \in m.at .. m.at + m.len}
    BY <2>2, <2>4, BodyPositions DEF Owned
  <2> QED
    BY <1>2, <2>2, <2>3, <2>4, <2>5
<1> QED
  BY <1>0, <1>1, <1>2

\* Two threads never hold the same word: their tickets differ.
LEMMA RegionsExclude ==
  ASSUME SafeInv
  PROVE  ExclusiveRegions
<1> SUFFICES ASSUME NEW t \in Threads, NEW u \in Threads, t # u
             PROVE  Owned(t) \cap Owned(u) = {}
  BY DEF ExclusiveRegions
<1>1. CASE ~(Encoding(t) \/ Reading(t)) \/ ~(Encoding(u) \/ Reading(u))
  BY <1>1 DEF Owned
<1>2. CASE (Encoding(t) \/ Reading(t)) /\ (Encoding(u) \/ Reading(u))
  <2>1. PICK m \in tickets :
           /\ Owned(t) = {Pos(x) : x \in m.at .. m.at + m.len}
           /\ Live(m) /\ End(m) <= e
           /\ Encoding(t) => /\ t \in Producers /\ r <= m.at
                             /\ m.at = op[t] /\ m.len = msg[t].len /\ End(m) = np[t]
           /\ Reading(t) => t \in Consumers /\ m.at = op[t] /\ m.at < r /\ ReadBy(m, t)
    BY <1>2, OwnedMessage
  <2>2. PICK k \in tickets :
           /\ Owned(u) = {Pos(x) : x \in k.at .. k.at + k.len}
           /\ Live(k) /\ End(k) <= e
           /\ Encoding(u) => /\ u \in Producers /\ r <= k.at
                             /\ k.at = op[u] /\ k.len = msg[u].len /\ End(k) = np[u]
           /\ Reading(u) => u \in Consumers /\ k.at = op[u] /\ k.at < r /\ ReadBy(k, u)
    BY <1>2, OwnedMessage
  <2>3. /\ m.at \in Nat /\ m.len \in Nat /\ k.at \in Nat /\ k.len \in Nat /\ e \in Nat
        /\ End(m) = m.at + 1 + m.len /\ End(k) = k.at + 1 + k.len /\ BufWords \in Nat /\ r \in Nat
    BY Numbers DEF End
  <2>4. m.at # k.at
    <3>1. CASE Encoding(t) /\ Encoding(u)
      <4>1. np[t] <= op[u] \/ np[u] <= op[t]
        BY <2>1, <2>2, <3>1 DEF SafeInv, Threading, ProducersApart, Encoding
      <4> QED
        BY <2>1, <2>2, <2>3, <3>1, <4>1
    <3>2. CASE Reading(t) /\ Reading(u)
      BY <2>1, <2>2, <3>2 DEF SafeInv, Threading, ReadersApart
    <3>3. CASE (Encoding(t) /\ Reading(u)) \/ (Reading(t) /\ Encoding(u))
      BY <2>1, <2>2, <2>3, <3>3
    <3> QED
      BY <1>2, <3>1, <3>2, <3>3
  <2>5. ASSUME NEW x \in m.at .. m.at + m.len, NEW y \in k.at .. k.at + k.len
        PROVE  Pos(x) # Pos(y)
    <3>1. End(m) <= k.at \/ End(k) <= m.at
      BY <2>3, <2>4, TicketsApart
    <3>2. x \in Nat /\ y \in Nat /\ x # y
      BY <2>3, <3>1
    <3>3. e <= x + BufWords /\ x < e /\ e <= y + BufWords /\ y < e
      BY <2>1, <2>2, <2>3 DEF Live
    <3> QED
      BY <3>2, <3>3, OneWord
  <2> QED
    BY <2>1, <2>2, <2>5
<1> QED
  BY <1>1, <1>2

\* What a consumer has decoded is the data of the ticket it claimed.
LEMMA MessagesWhole ==
  ASSUME SafeInv
  PROVE  MessagesArriveWhole
<1> SUFFICES ASSUME NEW c \in Consumers, Reading(c)
             PROVE  \E t \in tickets :
                      /\ t.at = op[c] /\ t.len = hd[c].size /\ t.type = hd[c].type
                      /\ pc[c] = "wipe" /\ t.type = "normal" /\ t.len > 0 => seen[c] = {t.data}
  BY DEF MessagesArriveWhole
<1>1. PICK t \in tickets : ReadBy(t, c)
  BY DEF SafeInv, Stored, ConsumerWords
<1> QED
  BY <1>1 DEF ReadBy

\* The words of a reservation are zero from when the producer stops waiting.
LEMMA AllocationClean ==
  ASSUME SafeInv, BeforeWrap
  PROVE  AllocationIsClean
<1> SUFFICES ASSUME NEW p \in Producers
             PROVE  /\ pc[p] = "pad" /\ ep[p] >= Add(op[p], pad[p])
                         => mem[Pos(op[p])].state = "empty"
                    /\ pc[p] = "wait" /\ ep[p] >= np[p]
                         => /\ mem[Pos(op[p])].state = "empty"
                            /\ \A x \in Body(op[p], msg[p].len) : mem[x] = Zero
  BY DEF AllocationIsClean
<1>0. /\ p \in Threads
      /\ pc[p] \in Ahead => Waits(p)
  BY DEF Threads, SafeInv, Stored, ProducerWords
<1>1. /\ op[p] \in Nat /\ np[p] \in Nat /\ ep[p] \in Nat /\ pad[p] \in Nat /\ msg[p].len \in Nat
      /\ e \in Nat /\ ep[p] <= e
  BY <1>0, Numbers DEF SafeInv, Placed, SeenEmpty
<1>2. ASSUME pc[p] = "pad", ep[p] >= Add(op[p], pad[p]) PROVE mem[Pos(op[p])].state = "empty"
  <2>1. Add(op[p], pad[p]) = op[p] + pad[p] /\ op[p] + pad[p] + 1 + msg[p].len = np[p]
    BY <1>2, ReservationAdds, Reservation
  <2>2. pad[p] > 0
    BY <1>0, <1>2 DEF SafeInv, ReservationInv, TypeInv, PadPending
  <2>3. op[p] < e /\ op[p] < np[p]
    BY <1>1, <1>2, <2>1, <2>2
  <2> QED
    BY <1>0, <1>1, <1>2, <2>3 DEF Waits, W, Ahead, Zero
<1>3. ASSUME pc[p] = "wait", ep[p] >= np[p]
      PROVE  /\ mem[Pos(op[p])].state = "empty"
             /\ \A x \in Body(op[p], msg[p].len) : mem[x] = Zero
  <2>1. op[p] + pad[p] + 1 + msg[p].len = np[p]
    BY <1>3, Reservation
  <2>2. ASSUME NEW x \in op[p] .. op[p] + msg[p].len PROVE mem[Pos(x)] = Zero
    <3>1. x \in Nat /\ op[p] <= x /\ x < np[p] /\ x < e
      BY <1>1, <1>3, <2>1
    <3> QED
      BY <1>0, <1>3, <3>1 DEF Waits, W, Ahead
  <2>3. Body(op[p], msg[p].len) = {Pos(x) : x \in op[p] + 1 .. op[p] + msg[p].len}
    BY <1>1, BodyPositions
  <2>4. op[p] \in op[p] .. op[p] + msg[p].len
    BY <1>1
  <2>5. \A x \in op[p] + 1 .. op[p] + msg[p].len : x \in op[p] .. op[p] + msg[p].len
    BY <1>1
  <2> QED
    BY <2>2, <2>3, <2>4, <2>5 DEF Zero
<1> QED
  BY <1>2, <1>3

\* A header is changed by the thread whose message it is of.
LEMMA HeadersOwned ==
  ASSUME SafeInv
  PROVE  HeadersAreOwned
<1>1. ASSUME NEW p \in Producers, pc[p] = "commit"
      PROVE  mem[Pos(op[p])].state = "empty" /\ mem[Pos(op[p])].type = "pad"
  BY <1>1 DEF SafeInv, Stored, ProducerWords, Encoding, Writes, W
<1>2. ASSUME NEW c \in Consumers
      PROVE  /\ pc[c] = "mark" => mem[Pos(op[c])] = hd[c]
             /\ pc[c] = "release" => mem[Pos(op[c])].state = "mid_read"
  <2> SUFFICES ASSUME Reading(c)
               PROVE  /\ pc[c] = "mark" => mem[Pos(op[c])] = hd[c]
                      /\ pc[c] = "release" => mem[Pos(op[c])].state = "mid_read"
    BY DEF Reading
  <2>1. PICK t \in tickets : ReadBy(t, c)
    BY DEF SafeInv, Stored, ConsumerWords
  <2> QED
    BY <2>1 DEF ReadBy, W, Opened
<1> QED
  BY <1>1, <1>2 DEF HeadersAreOwned

\* r never passes w, and e is from r on at most one buffer ahead of it.
LEMMA CursorsOrdered ==
  ASSUME SafeInv
  PROVE  CursorOrder
  BY DEF SafeInv, Placed, Cursors, ReservationInv, BelowW, CursorOrder

\* A step that another thread takes leaves the message as it was: the invariant
\* says before and after the step, word for word, what is stored in it.
LEMMA AccessIsExclusive ==
  ASSUME SafeInv, SafeInv', NEW t \in Threads, Stays(t), tickets \subseteq tickets',
         NEW y \in Owned(t)
  PROVE  mem'[y] = mem[y]
<1>0. Encoding(t) \/ Reading(t)
  BY DEF Owned
<1>1. PICK m \in tickets :
        /\ Owned(t) = {Pos(x) : x \in m.at .. m.at + m.len}
        /\ Live(m) /\ End(m) <= e
        /\ Encoding(t) => /\ t \in Producers /\ r <= m.at
                          /\ m.at = op[t] /\ m.len = msg[t].len /\ End(m) = np[t]
        /\ Reading(t) => t \in Consumers /\ m.at = op[t] /\ m.at < r /\ ReadBy(m, t)
  BY <1>0, OwnedMessage
<1>2. PICK x \in m.at .. m.at + m.len : y = Pos(x)
  BY <1>1
<1>3. /\ m.at \in Nat /\ m.len \in Nat /\ x \in Nat
      /\ x = m.at \/ x \in m.at + 1 .. m.at + m.len
  BY <1>2, Numbers
<1>4. /\ pc'[t] = pc[t] /\ op'[t] = op[t] /\ hd'[t] = hd[t] /\ msg'[t] = msg[t]
  BY DEF Stays
<1>5. CASE Encoding(t)
  <2>1. Writes(t) /\ Writes(t)'
    BY <1>1, <1>4, <1>5 DEF SafeInv, Stored, ProducerWords, Encoding
  <2>2. CASE x \in m.at + 1 .. m.at + m.len
    <3>1. x \in op[t] + 1 .. op[t] + msg[t].len /\ x \in op'[t] + 1 .. op'[t] + msg'[t].len
      BY <1>1, <1>4, <1>5, <2>2
    <3>2. mem[Pos(x)] = IF pc[t] = "encode" THEN Zero ELSE msg[t].data
      BY <2>1, <3>1 DEF Writes, W
    <3>3. mem'[Pos(x)] = IF pc'[t] = "encode" THEN Zero ELSE msg'[t].data
      BY <2>1, <3>1 DEF Writes, W
    <3> QED
      BY <1>2, <1>4, <3>2, <3>3
  <2>3. CASE x = m.at
    <3>1. y \in 0 .. BufWords - 1
      BY <1>2, <1>3, PosInBuffer
    <3>2. mem[y] \in Word /\ mem'[y] \in Word
      BY <3>1 DEF SafeInv, ReservationInv, TypeInv, TypeOK
    <3>3. y = Pos(op[t]) /\ y = Pos(op'[t])
      BY <1>1, <1>2, <1>4, <1>5, <2>3
    <3>4. mem[y].state = "empty" /\ mem[y].type = "pad" /\ mem[y].size = hd[t].size
      BY <2>1, <3>3 DEF Writes, W
    <3>5. mem'[y].state = "empty" /\ mem'[y].type = "pad" /\ mem'[y].size = hd[t].size
      BY <1>4, <2>1, <3>3 DEF Writes, W
    <3> QED
      BY <3>2, <3>4, <3>5 DEF Word
  <2> QED
    BY <1>3, <2>2, <2>3
<1>6. CASE Reading(t)
  <2>1. Reading(t)' /\ t \in Consumers
    BY <1>1, <1>4, <1>6 DEF Reading
  <2>2. PICK k \in tickets' : ReadBy(k, t)'
    BY <2>1 DEF SafeInv, Stored, ConsumerWords
  <2>3. k = m
    <3>1. k.at = m.at
      BY <1>1, <1>4, <1>6, <2>2 DEF ReadBy
    <3>2. \A a, b \in tickets' : a # b => a.at + 1 + a.len <= b.at \/ b.at + 1 + b.len <= a.at
      BY DEF SafeInv, ReservationInv, ReservationsDisjoint
    <3>3. k \in [at : Cursor, len : 0 .. BufWords - 1, type : Types, data : Word]
      BY DEF SafeInv, ReservationInv, TypeInv, TypeOK
    <3>4. k.len \in Nat
      BY <3>3, SizeAssumption
    <3> QED
      BY <1>3, <3>1, <3>2, <3>4
  <2>4. /\ mem[Pos(m.at)] = IF pc[t] = "mark" THEN Sealed(m) ELSE Opened(m)
        /\ \A z \in Inside(m) : mem[Pos(z)] = IF pc[t] = "release" THEN Zero ELSE m.data
    BY <1>1, <1>6 DEF ReadBy, W
  <2>5. /\ mem'[Pos(m.at)] = IF pc'[t] = "mark" THEN Sealed(m) ELSE Opened(m)
        /\ \A z \in Inside(m) : mem'[Pos(z)] = IF pc'[t] = "release" THEN Zero ELSE m.data
    BY <2>2, <2>3 DEF ReadBy, W, Inside, Sealed, Opened
  <2> QED
    BY <1>2, <1>3, <1>4, <2>4, <2>5 DEF Inside
<1> QED
  BY <1>0, <1>5, <1>6

\* Every step is one thread's; that thread itself moves on when it accesses
\* its message.
LEMMA StepIsExclusive ==
  ASSUME SafeInv, SafeInv', [Next]_vars, NEW t \in Threads, pc'[t] = pc[t], NEW y \in Owned(t)
  PROVE  mem'[y] = mem[y]
<1>0. Encoding(t) \/ Reading(t)
  BY DEF Owned
<1>1. CASE UNCHANGED vars
  BY <1>1 DEF vars
<1>2. CASE Next
  <2>1. PICK u \in Threads :
          StartAllocate(u) \/ FinishAllocate(u) \/ Consume(u) \/ Finalize(u)
    BY <1>2 DEF Next, Threads
  <2>2. TypeOK /\ t \in Threads
    BY DEF SafeInv, ReservationInv, TypeInv
  <2>3. CASE u = t
    <3>1. ~StartAllocate(t)
      BY <1>0 DEF StartAllocate, Reserve, Encoding, Reading
    <3>2. ~FinishAllocate(t)
      BY <1>0, <2>2 DEF FinishAllocate, LoadHeader, WaitForLap, Spin, WritePad, MarkReady, Encode,
         Commit, Return, Goto, Encoding, Reading, TypeOK
    <3>3. ~Consume(t)
      BY <1>0, <2>2 DEF Consume, LoadCursors, AwaitSpace, ReadHeader, Claim, MarkRead, Decode,
         Return, Goto, Encoding, Reading, TypeOK
    <3>4. ~Finalize(t)
      BY <1>0, <2>2 DEF Finalize, Wipe, Release, LoadEmpty, PeekEmpty, ClearHeader, Advance,
         UnswapHeader, Return, Goto, Encoding, Reading, TypeOK
    <3> QED
      BY <2>1, <2>3, <3>1, <3>2, <3>3, <3>4
  <2>4. CASE u # t
    <3>1. Stays(t)
      BY <2>1, <2>2, <2>4, OthersStay
    <3>2. tickets \subseteq tickets'
      <4>1. CASE StartAllocate(u)
        BY <4>1 DEF StartAllocate, Reserve
      <4>2. CASE FinishAllocate(u) \/ Consume(u) \/ Finalize(u)
        BY <4>2 DEF FinishAllocate, LoadHeader, WaitForLap, Spin, WritePad, MarkReady, Encode,
           Commit, Consume, LoadCursors, AwaitSpace, ReadHeader, Claim, MarkRead, Decode,
           Finalize, Wipe, Release, LoadEmpty, PeekEmpty, ClearHeader, Advance,
           UnswapHeader, history
      <4> QED
        BY <2>1, <4>1, <4>2
    <3> QED
      BY <3>1, <3>2, AccessIsExclusive
  <2> QED
    BY <2>3, <2>4
<1> QED
  BY <1>1, <1>2

\* A bound on the traffic keeps the cursors from wrapping.
LEMMA BoundedTraffic ==
  ASSUME MaxTraffic + BufWords < CursorMod, RingInv
  PROVE  BeforeWrap /\ SafeInv
<1>1. total \in 0 .. MaxTraffic /\ MaxTraffic \in Nat /\ BufWords \in Nat /\ CursorMod \in Nat
  BY SizeAssumption DEF RingInv, TypeInv, TypeOK
<1>2. BeforeWrap
  BY <1>1 DEF BeforeWrap
<1> QED
  BY <1>2 DEF RingInv

\* Until the cursors reach the end of their range every guarantee of the queue
\* holds, for any number of threads, any buffer and any sizes: the cursors keep
\* their order, reservations and regions in use never overlap, allocated space
\* is clean, headers change only by their owner's hand.
THEOREM SafeUntilWrap ==
  ASSUME PlainData
  PROVE  Spec => []SafeBeforeWrap
<1>1. Spec => []RingInv
  BY Invariance
<1>2. RingInv => SafeBeforeWrap
  <2> SUFFICES ASSUME RingInv, BeforeWrap
               PROVE  /\ CursorOrder /\ ReservationsDisjoint
                      /\ ExclusiveRegions /\ AllocationIsClean /\ HeadersAreOwned
    BY DEF SafeBeforeWrap, BeforeWrap
  <2>1. SafeInv
    BY DEF RingInv
  <2>2. ReservationsDisjoint
    BY <2>1 DEF SafeInv, ReservationInv
  <2> QED
    BY <2>1, <2>2, CursorsOrdered, RegionsExclude, AllocationClean, HeadersOwned
<1> QED
  BY <1>1, <1>2, PTL

\* "we now have exclusive access to our range of memory": a message being
\* encoded or decoded shares no word with another one.
THEOREM RegionsAreExclusive ==
  ASSUME PlainData, MaxTraffic + BufWords < CursorMod
  PROVE  Spec => []ExclusiveRegions
<1>1. Spec => []RingInv
  BY Invariance
<1>2. RingInv => ExclusiveRegions
  BY BoundedTraffic, RegionsExclude
<1> QED
  BY <1>1, <1>2, PTL

\* And no step of another thread changes it meanwhile.
THEOREM AccessExclusive ==
  ASSUME PlainData, MaxTraffic + BufWords < CursorMod
  PROVE  Spec => ExclusiveAccess
<1>1. Spec => []RingInv
  BY Invariance
<1>2. RingInv /\ RingInv' /\ [Next]_vars =>
        [\A t \in Threads : pc'[t] = pc[t] => \A x \in Owned(t) : mem'[x] = mem[x]]_vars
  <2> SUFFICES ASSUME RingInv, RingInv', [Next]_vars
               PROVE  \A t \in Threads : pc'[t] = pc[t] => \A x \in Owned(t) : mem'[x] = mem[x]
    OBVIOUS
  <2>1. SafeInv
    BY BoundedTraffic
  <2>2. SafeInv'
    BY BoundedTraffic, PTL
  <2> QED
    BY <2>1, <2>2, StepIsExclusive
<1> QED
  BY <1>1, <1>2, PTL DEF Spec, ExclusiveAccess

\* A consumer holds a message that some producer reserved, framed as it was
\* reserved, and decodes from it what that producer encoded.
THEOREM DeliveredWhole ==
  ASSUME PlainData, MaxTraffic + BufWords < CursorMod
  PROVE  Spec => []MessagesArriveWhole
<1>1. Spec => []RingInv
  BY Invariance
<1>2. RingInv => MessagesArriveWhole
  BY BoundedTraffic, MessagesWhole
<1> QED
  BY <1>1, <1>2, PTL

\* The assertions of impl_allocate hold: the space a producer has waited for
\* has an empty header and a wiped body.
THEOREM CleanAllocation ==
  ASSUME PlainData, MaxTraffic + BufWords < CursorMod
  PROVE  Spec => []AllocationIsClean
<1>1. Spec => []RingInv
  BY Invariance
<1>2. RingInv => AllocationIsClean
  BY BoundedTraffic, AllocationClean
<1> QED
  BY <1>1, <1>2, PTL

-----------------------------------------------------------------------------
(* The queue implements the ordered channel. *)

Finished == {t \in Taken : \A c \in Consumers : ~(Reading(c) /\ op[c] = t.at)}
Reusable == {t \in tickets : t.at + BufWords < e}

\* The channel's variables under the refinement, by name.
LEMMA ChannelVars ==
  Channel!chvars = <<tickets, tickets \ Pending, Taken, Finished, Reusable>>
  BY DEF Channel!chvars, Finished, Reusable

\* The channel does not see a step that moves no cursor past a message and
\* neither starts nor ends one.
LEMMA Unseen ==
  ASSUME UNCHANGED <<tickets, r, e>>, Pending' = Pending,
         \A c \in Consumers : (Reading(c)' <=> Reading(c)) /\ (Reading(c) => op'[c] = op[c])
  PROVE  UNCHANGED Channel!chvars
<1>1. Taken' = Taken /\ Reusable' = Reusable
  BY DEF Taken, Reusable
<1>2. Finished' = Finished
  BY <1>1 DEF Finished
<1> QED
  BY <1>1, <1>2 DEF Channel!chvars, Finished, Reusable

\* The messages to be committed are those of the reservations the producers
\* have.
LEMMA PendingSame ==
  ASSUME NEW u \in Threads, UNCHANGED tickets,
         \A t \in Threads : t # u => Stays(t),
         u \in Producers =>
           (pc'[u] = "idle" <=> pc[u] = "idle") /\ op'[u] = op[u] /\ pad'[u] = pad[u]
  PROVE  Pending' = Pending
<1>1. \A p \in Producers :
        (pc'[p] = "idle" <=> pc[p] = "idle") /\ op'[p] = op[p] /\ pad'[p] = pad[p]
  BY DEF Threads, Stays
<1> QED
  BY <1>1 DEF Pending

\* The channel does not see a producer wait for space, or write what it has not
\* committed.
LEMMA WaitingUnseen ==
  ASSUME SafeInv, NEW p \in Producers,
         LoadHeader(p) \/ WaitForLap(p) \/ Spin(p) \/ MarkReady(p) \/ Encode(p)
  PROVE  UNCHANGED Channel!chvars
<1>0. FinishAllocate(p)
  BY DEF FinishAllocate
<1>1. /\ p \in Threads /\ p \notin Consumers /\ pc[p] # "idle" /\ Consumers \subseteq Threads
      /\ \A t \in Threads : t # p => Stays(t)
      /\ UNCHANGED <<w, r, e, tickets, total>>
  BY <1>0, ProducerFrame DEF Threads
<1>2. pc'[p] # "idle" /\ op' = op /\ pad' = pad
  BY <1>1 DEF LoadHeader, WaitForLap, Spin, MarkReady, Encode, Goto, locals,
              SafeInv, ReservationInv, TypeInv, TypeOK
<1>3. Pending' = Pending
  <2>1. UNCHANGED tickets
    BY <1>1
  <2> QED
    BY <1>1, <1>2, <2>1, PendingSame
<1>4. \A c \in Consumers : (Reading(c)' <=> Reading(c)) /\ (Reading(c) => op'[c] = op[c])
  BY <1>1 DEF Reading, Stays
<1> QED
  BY <1>1, <1>3, <1>4, Unseen

\* A producer that stores the header of its padding, or of its message, commits
\* that message.
LEMMA Commits ==
  ASSUME SafeInv, NEW p \in Producers, FinishAllocate(p), NEW m,
         m = MsgTicket(p) \/ (pad[p] > 0 /\ m = PadTicket(p)), End(m) <= e,
         Pending \subseteq Pending' \cup {m},
         \A t \in tickets :
           pc'[p] # "idle" /\ (t.at = op'[p] + pad'[p] \/ (pad'[p] > 0 /\ t.at = op'[p])) =>
             t # m /\ t \in Pending
  PROVE  Channel!CommitMessage(m) /\ m \in tickets
<1>1. /\ p \in Threads /\ p \notin Consumers /\ pc[p] # "idle" /\ Consumers \subseteq Threads
      /\ Producers \subseteq Threads
      /\ \A t \in Threads : t # p => Stays(t)
      /\ UNCHANGED <<w, r, e, tickets, total>>
  BY ProducerFrame DEF Threads
<1>2. m \in tickets /\ m \in Pending
  BY <1>1, Reservation
<1>3. /\ m.at \in Nat /\ m.len \in Nat /\ e \in Nat /\ BufWords \in Nat
      /\ End(m) = m.at + 1 + m.len /\ m.at < e
  BY <1>2, Numbers DEF End
<1>4. Alone(p, m)
  BY <1>1, <1>3, ProducerAlone
<1>5. m \notin Pending' /\ Pending' \subseteq Pending
  <2> SUFFICES ASSUME NEW t \in Pending' PROVE t # m /\ t \in Pending
    OBVIOUS
  <2>1. t \in tickets
    BY <1>1 DEF Pending
  <2>2. PICK q \in Producers : pc'[q] # "idle"
                               /\ (t.at = op'[q] + pad'[q] \/ (pad'[q] > 0 /\ t.at = op'[q]))
    BY DEF Pending
  <2>3. CASE q = p
    BY <2>1, <2>2, <2>3
  <2>4. CASE q # p
    <3>1. pc[q] # "idle" /\ (t.at = op[q] + pad[q] \/ (pad[q] > 0 /\ t.at = op[q]))
      BY <1>1, <2>2, <2>4 DEF Stays
    <3>2. t \in Pending
      BY <2>1, <3>1 DEF Pending
    <3>3. NotOf(m, q)
      BY <1>4, <2>4, <3>1 DEF Alone
    <3>4. t = MsgTicket(q) \/ (pad[q] > 0 /\ t = PadTicket(q))
      BY <2>1, <3>1, Reservation, ReservationSpan, TicketsApart
    <3> QED
      BY <3>2, <3>3, <3>4 DEF NotOf
  <2> QED
    BY <2>3, <2>4
<1>6. (tickets \ Pending)' = (tickets \ Pending) \cup {m}
  BY <1>1, <1>2, <1>5
<1>7. \A c \in Consumers : (Reading(c)' <=> Reading(c)) /\ (Reading(c) => op'[c] = op[c])
  BY <1>1 DEF Reading, Stays
<1>8. Taken' = Taken /\ Finished' = Finished /\ Reusable' = Reusable
  BY <1>1, <1>7 DEF Taken, Finished, Reusable
<1>9. \A k \in tickets \ Reusable : Channel!End(m) <= k.at + BufWords
  <2> SUFFICES ASSUME NEW k \in tickets, ~(k.at + BufWords < e)
               PROVE  m.at + 1 + m.len <= k.at + BufWords
    BY DEF Reusable, Channel!End
  <2>1. k.at \in Nat
    BY Numbers
  <2> QED
    BY <1>3, <2>1
<1> QED
  BY <1>1, <1>2, <1>6, <1>8, <1>9 DEF Channel!CommitMessage, Finished, Reusable

\* Writing the padding commits it as a message of its own.
LEMMA PadCommits ==
  ASSUME SafeInv, BeforeWrap, NEW p \in Producers, WritePad(p)
  PROVE  \E m \in tickets : Channel!CommitMessage(m)
<1>0. FinishAllocate(p) /\ PadPending
  BY DEF FinishAllocate, SafeInv, ReservationInv, TypeInv
<1>1. /\ p \in Threads /\ pc[p] = "pad" /\ pc[p] # "idle" /\ UNCHANGED tickets
      /\ \A t \in Threads : t # p => Stays(t)
  BY <1>0, ProducerFrame DEF WritePad
<1>2. /\ pad[p] > 0 /\ MsgTicket(p).at = op[p] + pad[p]
      /\ PadTicket(p).at = op[p] /\ End(PadTicket(p)) = op[p] + pad[p]
      /\ Add(op[p], pad[p]) = op[p] + pad[p] /\ ep[p] <= e
      /\ MsgTicket(p) \in Pending /\ PadTicket(p) \in tickets
  BY <1>0, <1>1, Reservation, ReservationSpan, ReservationAdds
     DEF PadPending, SafeInv, Placed, SeenEmpty
<1>3. /\ op[p] \in Nat /\ pad[p] \in Nat /\ e \in Nat /\ ep[p] \in Nat
      /\ pc \in [Threads -> PC] /\ op \in [Threads -> Cursor]
      /\ pad \in [Threads -> 0 .. BufWords]
  BY <1>1, Numbers DEF SafeInv, ReservationInv, TypeInv, TypeOK
<1>4. PICK m : m = PadTicket(p)
  OBVIOUS
<1>5. End(m) <= e
  BY <1>2, <1>3, <1>4 DEF WritePad, SpaceFree
<1>6. pc'[p] = "reload" /\ op'[p] = op[p] + pad[p] /\ pad'[p] = 0
  BY <1>1, <1>2, <1>3 DEF WritePad, Goto
<1>7. Pending \subseteq Pending' \cup {m}
  <2> SUFFICES ASSUME NEW t \in Pending, t # m PROVE t \in Pending'
    OBVIOUS
  <2>1. PICK q \in Producers : pc[q] # "idle"
                               /\ (t.at = op[q] + pad[q] \/ (pad[q] > 0 /\ t.at = op[q]))
    BY DEF Pending
  <2>2. t \in tickets /\ t \in tickets' /\ q \in Threads
    BY <1>1 DEF Pending, Threads
  <2>3. CASE q # p
    <3>1. pc'[q] # "idle" /\ op'[q] = op[q] /\ pad'[q] = pad[q]
      BY <1>1, <2>1, <2>2, <2>3 DEF Stays
    <3> QED
      BY <2>1, <2>2, <3>1 DEF Pending
  <2>4. CASE q = p
    <3>1. t.at # op[p]
      BY <1>2, <1>4, <2>2, TicketsApart
    <3>2. t.at = op'[p] + pad'[p]
      BY <1>3, <1>6, <2>1, <2>4, <3>1
    <3> QED
      BY <1>6, <2>2, <2>4, <3>2 DEF Pending
  <2> QED
    BY <2>3, <2>4
<1>8. ASSUME NEW t \in tickets, t.at = op'[p] + pad'[p] \/ (pad'[p] > 0 /\ t.at = op'[p])
      PROVE  t # m /\ t \in Pending
  <2>1. t.at = op[p] + pad[p] /\ t.at # op[p]
    BY <1>2, <1>3, <1>6, <1>8
  <2> QED
    BY <1>1, <1>2, <1>4, <2>1 DEF Pending
<1> QED
  BY <1>0, <1>2, <1>4, <1>5, <1>7, <1>8, Commits

\* commit() commits the message of the reservation.
LEMMA MessageCommits ==
  ASSUME SafeInv, NEW p \in Producers, Commit(p)
  PROVE  \E m \in tickets : Channel!CommitMessage(m)
<1>0. FinishAllocate(p)
  BY DEF FinishAllocate
<1>1. /\ p \in Threads /\ pc[p] = "commit" /\ UNCHANGED tickets
      /\ \A t \in Threads : t # p => Stays(t)
  BY <1>0, ProducerFrame DEF Commit
<1>2. np[p] <= ep[p]
  BY <1>1, Reservation DEF Encoding
<1>3. PICK m : m = MsgTicket(p)
  OBVIOUS
<1>4. m.at = op[p] /\ pad[p] = 0 /\ End(m) <= e /\ m \in tickets /\ op[p] \in Nat
  BY <1>1, <1>2, <1>3, AtMessage
<1>5. pc'[p] = "idle"
  BY <1>1 DEF Commit, Return, Goto, SafeInv, ReservationInv, TypeInv, TypeOK
<1>6. Pending \subseteq Pending' \cup {m}
  <2> SUFFICES ASSUME NEW t \in Pending, t # m PROVE t \in Pending'
    OBVIOUS
  <2>1. PICK q \in Producers : pc[q] # "idle"
                               /\ (t.at = op[q] + pad[q] \/ (pad[q] > 0 /\ t.at = op[q]))
    BY DEF Pending
  <2>2. t \in tickets /\ t \in tickets' /\ q \in Threads
    BY <1>1 DEF Pending, Threads
  <2>3. q # p
    <3>1. t.at # m.at
      BY <1>4, <2>2, TicketsApart
    <3> QED
      BY <1>4, <2>1, <3>1
  <2>4. pc'[q] # "idle" /\ op'[q] = op[q] /\ pad'[q] = pad[q]
    BY <1>1, <2>1, <2>2, <2>3 DEF Stays
  <2> QED
    BY <2>1, <2>2, <2>4 DEF Pending
<1> QED
  BY <1>0, <1>3, <1>4, <1>5, <1>6, Commits


\* Reserving adds new messages behind all the earlier ones.
LEMMA ReservesBehind ==
  ASSUME SafeInv, BeforeWrap', NEW p \in Producers, StartAllocate(p)
  PROVE  Channel!ReserveMessages
<1>0. /\ p \in Threads /\ p \notin Consumers
      /\ Producers \subseteq Threads /\ Consumers \subseteq Threads
  BY ThreadAssumption DEF Threads
<1>1a. PICK n \in Sizes, d \in DataWords, ps \in Nat :
          \E own, padding : Reserving(p, n, d, ps, own, padding)
  BY ReserveAdds
<1>1. PICK own, padding : Reserving(p, n, d, ps, own, padding)
  BY <1>1a
<1>2. /\ n \in Nat /\ w \in Nat /\ r \in Nat /\ e \in Nat /\ BufWords \in Nat
      /\ r <= w /\ e <= r + BufWords
      /\ \A t \in tickets : t.at \in Nat /\ t.len \in Nat /\ End(t) <= w
  BY SizeAssumption, Numbers DEF SafeInv, Placed, Cursors
<1>3. /\ UNCHANGED <<r, e>> /\ tickets \subseteq tickets'
      /\ pc[p] = "idle" /\ pc'[p] = "peek" /\ op'[p] = w /\ pad'[p] = ps
      /\ \A t \in tickets' \ tickets : t = own \/ (ps > 0 /\ t = padding)
      /\ own.at = w + ps /\ padding.at = w
      /\ \A t \in tickets' \ tickets : t.at >= w /\ t.at \in Nat
  BY <1>1 DEF Reserving
<1>4. \A t \in Threads : t # p => Stays(t)
  <2>1. TypeOK
    BY DEF SafeInv, ReservationInv, TypeInv
  <2> QED
    BY <1>0, <2>1, OthersStay
<1>5. \A t \in tickets : t.at < w
  BY <1>2 DEF End
<1>6. Pending' = Pending \cup (tickets' \ tickets)
  <2>1. ASSUME NEW t \in tickets' \ tickets PROVE t \in Pending'
    <3>1. t.at = op'[p] + pad'[p] \/ (pad'[p] > 0 /\ t.at = op'[p])
      BY <1>3, <2>1
    <3> QED
      BY <1>3, <2>1, <3>1 DEF Pending
  <2>2. ASSUME NEW t \in Pending PROVE t \in Pending'
    <3>1. PICK q \in Producers :
            pc[q] # "idle" /\ (t.at = op[q] + pad[q] \/ (pad[q] > 0 /\ t.at = op[q]))
      BY DEF Pending
    <3>2. pc'[q] # "idle" /\ op'[q] = op[q] /\ pad'[q] = pad[q] /\ t \in tickets'
      BY <1>0, <1>3, <1>4, <2>2, <3>1 DEF Stays, Pending
    <3> QED
      BY <3>1, <3>2 DEF Pending
  <2>3. ASSUME NEW t \in Pending', t \in tickets PROVE t \in Pending
    <3>1. PICK q \in Producers :
            pc'[q] # "idle" /\ (t.at = op'[q] + pad'[q] \/ (pad'[q] > 0 /\ t.at = op'[q]))
      BY DEF Pending
    <3>2. q # p
      <4>1. t.at < w /\ t.at \in Nat
        BY <1>2, <1>5, <2>3
      <4> QED
        BY <1>2, <1>3, <3>1, <4>1
    <3>3. pc[q] # "idle" /\ op'[q] = op[q] /\ pad'[q] = pad[q]
      BY <1>0, <1>4, <3>1, <3>2 DEF Stays
    <3> QED
      BY <2>3, <3>1, <3>3 DEF Pending
  <2>4. Pending' \subseteq tickets'
    BY DEF Pending
  <2> QED
    BY <2>1, <2>2, <2>3, <2>4
<1>7. (tickets \ Pending)' = tickets \ Pending
  BY <1>3, <1>6
<1>8. Taken' = Taken
  <2>1. ASSUME NEW t \in tickets' \ tickets PROVE ~(t.at < r')
    BY <1>2, <1>3, <2>1
  <2> QED
    BY <1>3, <2>1 DEF Taken
<1>9. Finished' = Finished
  <2>1. \A c \in Consumers : (Reading(c)' <=> Reading(c)) /\ op'[c] = op[c]
    BY <1>0, <1>4 DEF Reading, Stays
  <2> QED
    BY <1>8, <2>1 DEF Finished
<1>10. Reusable' = Reusable
  <2>1. ASSUME NEW t \in tickets' \ tickets PROVE ~(t.at + BufWords < e')
    BY <1>2, <1>3, <2>1
  <2> QED
    BY <1>3, <2>1 DEF Reusable
<1>11. \A m \in tickets' \ tickets, k \in tickets : Channel!End(k) <= m.at
  <2> SUFFICES ASSUME NEW m \in tickets' \ tickets, NEW k \in tickets
               PROVE  k.at + 1 + k.len <= m.at
    BY DEF Channel!End
  <2>1. k.at \in Nat /\ k.len \in Nat /\ End(k) <= w /\ m.at >= w /\ m.at \in Nat /\ w \in Nat
    BY <1>2, <1>3
  <2> QED
    BY <2>1 DEF End
<1> QED
  BY <1>3, <1>7, <1>8, <1>9, <1>10, <1>11 DEF Channel!ReserveMessages, Finished, Reusable

\* Consumers leave alone which messages are pending.
LEMMA ConsumersSeePending ==
  ASSUME SafeInv, NEW c \in Consumers, Consume(c) \/ Finalize(c)
  PROVE  Pending' = Pending /\ (tickets \ Pending)' = tickets \ Pending
<1>1. /\ c \in Threads /\ c \notin Producers
      /\ \A t \in Threads : t # c => Stays(t)
      /\ UNCHANGED <<w, tickets, total>>
  BY ConsumerFrame
<1>2. UNCHANGED tickets
  BY <1>1
<1>3. Pending' = Pending
  BY <1>1, <1>2, PendingSame
<1> QED
  BY <1>2, <1>3

\* A claim takes the next message in the order of reservation.
LEMMA ClaimTakes ==
  ASSUME SafeInv, BeforeWrap, NEW c \in Consumers, Claim(c), Unclaimed(c)
  PROVE  \E m \in tickets : Channel!TakeMessage(m)
<1>0. Consume(c) /\ Consumers \subseteq Threads
  BY DEF Consume, Threads
<1>1. /\ c \in Threads /\ \A t \in Threads : t # c => Stays(t)
      /\ UNCHANGED <<e, tickets>>
  BY <1>0, ConsumerFrame DEF Claim
<1>2. PICK m \in tickets : m \notin Pending /\ m.at = r /\ r' = End(m)
  BY ClaimedMessage
<1>3. /\ m.at \in Nat /\ m.len \in Nat /\ r \in Nat /\ End(m) = m.at + 1 + m.len
      /\ \A t \in tickets : t.at \in Nat
  BY Numbers DEF End
<1>4. pc[c] = "claim" /\ pc'[c] = "mark" /\ op' = op /\ op[c] = r
  BY <1>1, ConsumerLocals DEF Claim, Goto, Unclaimed
<1>5. Taken' = Taken \cup {m}
  <2>1. ASSUME NEW t \in tickets PROVE t.at < r' <=> t.at < r \/ t = m
    <3>1. CASE t = m
      BY <1>2, <1>3, <3>1
    <3>2. CASE t # m
      <4>1. t.at # m.at
        BY <3>2, TicketsApart
      <4>2. m.at < t.at => End(m) <= t.at
        BY TicketsApart
      <4> QED
        BY <1>2, <1>3, <3>2, <4>1, <4>2
    <3> QED
      BY <3>1, <3>2
  <2> QED
    BY <1>1, <2>1 DEF Taken
<1>6. Finished' = Finished
  <2>1. ASSUME NEW t \in tickets
        PROVE  (t.at < r' /\ \A d \in Consumers : ~(Reading(d)' /\ op'[d] = t.at))
                 <=> (t.at < r /\ \A d \in Consumers : ~(Reading(d) /\ op[d] = t.at))
    <3>1. \A d \in Consumers : d # c => (Reading(d)' <=> Reading(d))
      BY <1>0, <1>1 DEF Reading, Stays
    <3>2. Reading(c)' /\ ~Reading(c)
      BY <1>4 DEF Reading
    <3>3. t.at < r' <=> t.at < r \/ t = m
      BY <1>1, <1>5, <2>1 DEF Taken
    <3>4. ~(m.at < r)
      BY <1>2, <1>3
    <3>5. t.at < r => t.at # r
      BY <1>3, <2>1
    <3> QED
      BY <1>2, <1>4, <3>1, <3>2, <3>3, <3>4, <3>5
  <2> QED
    BY <1>1, <2>1 DEF Finished, Taken
<1>7. Reusable' = Reusable
  BY <1>1 DEF Reusable
<1>8. m \notin Taken /\ Channel!Earlier(m) \subseteq Taken
  BY <1>2, <1>3 DEF Taken, Channel!Earlier
<1>9. (tickets \ Pending)' = tickets \ Pending
  BY <1>0, ConsumersSeePending
<1> QED
  BY <1>1, <1>2, <1>5, <1>6, <1>7, <1>8, <1>9 DEF Channel!TakeMessage, Finished, Reusable

\* Finalizing, once the header says so, is the end of a message's reading.
LEMMA ReleaseFinishes ==
  ASSUME SafeInv, NEW c \in Consumers, Release(c)
  PROVE  \E m \in tickets : Channel!FinishMessage(m)
<1>0. Finalize(c) /\ Reading(c) /\ Consumers \subseteq Threads
  BY DEF Finalize, Release, Reading, Threads
<1>1. /\ c \in Threads /\ \A t \in Threads : t # c => Stays(t)
      /\ UNCHANGED <<r, e, tickets>>
  BY <1>0, ConsumerFrame DEF Release
<1>2. PICK m \in tickets : ReadBy(m, c)
  BY <1>0 DEF SafeInv, Stored, ConsumerWords
<1>3. /\ \A d \in Consumers : d # c => (Reading(d) => op[d] # m.at)
      /\ m.at = op[c] /\ m.at < r
  BY <1>0, <1>2, ReaderAlone
<1>4. pc[c] = "release" /\ pc'[c] = "load_e" /\ op' = op
  BY <1>1, ConsumerLocals DEF Release, Goto, locals
<1>5. Taken' = Taken /\ Reusable' = Reusable
  BY <1>1 DEF Taken, Reusable
<1>6. m \in Taken /\ m \notin Finished
  BY <1>0, <1>2, <1>3 DEF Taken, Finished
<1>7. Finished' = Finished \cup {m}
  <2>1. ~Reading(c)' /\ \A d \in Consumers : d # c => (Reading(d)' <=> Reading(d))
    BY <1>0, <1>1, <1>4 DEF Reading, Stays
  <2>2. ASSUME NEW t \in Taken
        PROVE  (\A d \in Consumers : ~(Reading(d)' /\ op'[d] = t.at))
                 <=> t = m \/ \A d \in Consumers : ~(Reading(d) /\ op[d] = t.at)
    <3>1. CASE t = m
      BY <1>3, <1>4, <2>1, <3>1
    <3>2. CASE t # m
      <4>1. t.at # op[c]
        BY <1>2, <1>3, <2>2, <3>2, TicketsApart DEF Taken
      <4> QED
        BY <1>4, <2>1, <3>2, <4>1
    <3> QED
      BY <3>1, <3>2
  <2> QED
    BY <1>5, <1>6, <2>2 DEF Finished
<1>8. (tickets \ Pending)' = tickets \ Pending
  BY <1>0, ConsumersSeePending
<1> QED
  BY <1>1, <1>2, <1>5, <1>6, <1>7, <1>8 DEF Channel!FinishMessage, Finished, Reusable

\* Moving e frees the oldest message that is not free.
LEMMA AdvanceFrees ==
  ASSUME SafeInv, BeforeWrap, NEW c \in Consumers, Advance(c), e = ep[c]
  PROVE  \E m \in tickets : Channel!FreeMessage(m)
<1>0. Finalize(c) /\ Consumers \subseteq Threads
  BY DEF Finalize, Threads
<1>1. /\ c \in Threads /\ \A t \in Threads : t # c => Stays(t)
      /\ UNCHANGED <<r, tickets>>
  BY <1>0, ConsumerFrame DEF Advance
<1>2. PICK m \in tickets :
        /\ HeldBy(m, c) /\ m.at + BufWords = e /\ e' = End(m) + BufWords
        /\ \A d \in Consumers : Reading(d) => op[d] # m.at
  BY FreedMessage
<1>3. /\ m.at \in Nat /\ m.len \in Nat /\ e \in Nat /\ BufWords \in Nat
      /\ End(m) = m.at + 1 + m.len /\ m.at < r
      /\ \A t \in tickets : t.at \in Nat /\ t.len \in Nat
  BY <1>2, Numbers DEF End, HeldBy
<1>4. pc[c] = "advance" /\ pc'[c] = "peek_e" /\ op' = op
  BY <1>1, <1>2, ConsumerLocals DEF Advance, GoOn, Goto
<1>5. Taken' = Taken
  BY <1>1 DEF Taken
<1>6. Finished' = Finished
  <2>1. \A d \in Consumers : Reading(d)' <=> Reading(d)
    BY <1>0, <1>1, <1>4 DEF Reading, Stays
  <2> QED
    BY <1>4, <1>5, <2>1 DEF Finished
<1>7. m \in Finished /\ m \notin Reusable
  BY <1>2, <1>3 DEF Finished, Taken, Reusable
<1>8. Channel!Earlier(m) \subseteq Reusable
  BY <1>2, <1>3 DEF Channel!Earlier, Reusable
<1>9. Reusable' = Reusable \cup {m}
  <2>1. ASSUME NEW t \in tickets PROVE t.at + BufWords < e' <=> t.at + BufWords < e \/ t = m
    <3>1. t.at < End(m) <=> t.at < m.at \/ t = m
      <4>1. CASE t = m
        BY <1>3, <4>1
      <4>2. CASE t # m
        <5>1. t.at # m.at /\ (m.at < t.at => End(m) <= t.at)
          BY <4>2, TicketsApart
        <5> QED
          BY <1>3, <2>1, <4>2, <5>1
      <4> QED
        BY <4>1, <4>2
    <3> QED
      BY <1>2, <1>3, <2>1, <3>1
  <2> QED
    BY <1>1, <2>1 DEF Reusable
<1>10. (tickets \ Pending)' = tickets \ Pending
  BY <1>0, ConsumersSeePending
<1> QED
  BY <1>1, <1>2, <1>5, <1>6, <1>7, <1>8, <1>9, <1>10
     DEF Channel!FreeMessage, Finished, Reusable

\* Looking for a message, reading one and looking for one to free are the
\* consumer's own business.
LEMMA ConsumingUnseen ==
  ASSUME SafeInv, NEW c \in Consumers, Consume(c) \/ Finalize(c),
         ~(Claim(c) /\ Unclaimed(c)), ~Release(c), ~(Advance(c) /\ e = ep[c])
  PROVE  UNCHANGED Channel!chvars
<1>0. /\ c \in Threads /\ Consumers \subseteq Threads
      /\ \A t \in Threads : t # c => Stays(t)
      /\ UNCHANGED tickets
  BY ConsumerFrame DEF Threads
<1>1. Pending' = Pending
  BY ConsumersSeePending
<1>2. pc \in [Threads -> PC] /\ op \in [Threads -> Cursor]
  BY ConsumerLocals
<1>3. /\ UNCHANGED <<r, e>>
      /\ Reading(c)' <=> Reading(c)
      /\ Reading(c) => op'[c] = op[c]
  <2>1. CASE LoadCursors(c) \/ AwaitSpace(c) \/ ReadHeader(c)
    BY <1>0, <1>2, <2>1 DEF LoadCursors, AwaitSpace, ReadHeader, Return, Goto, Reading
  <2>2. CASE Claim(c)
    BY <1>0, <1>2, <2>2 DEF Claim, Goto, Reading
  <2>3. CASE MarkRead(c) \/ Decode(c) \/ Wipe(c)
    BY <1>0, <1>2, <2>3 DEF MarkRead, Decode, Wipe, Goto, Reading, locals
  <2>4. CASE LoadEmpty(c) \/ PeekEmpty(c) \/ UnswapHeader(c)
    BY <1>0, <1>2, <2>4 DEF LoadEmpty, PeekEmpty, UnswapHeader, Goto, Reading, locals
  <2>5. CASE ClearHeader(c)
    BY <1>0, <1>2, <2>5 DEF ClearHeader, Return, Goto, Reading
  <2>6. CASE Advance(c)
    BY <1>0, <1>2, <2>6 DEF Advance, Goto, Reading
  <2> QED
    BY <2>1, <2>2, <2>3, <2>4, <2>5, <2>6 DEF Consume, Finalize
<1>4. \A d \in Consumers : (Reading(d)' <=> Reading(d)) /\ (Reading(d) => op'[d] = op[d])
  <2> SUFFICES ASSUME NEW d \in Consumers, d # c
               PROVE  (Reading(d)' <=> Reading(d)) /\ op'[d] = op[d]
    BY <1>3
  <2> QED
    BY <1>0 DEF Reading, Stays
<1> QED
  BY <1>0, <1>1, <1>3, <1>4, Unseen

\* Every step of the queue is one of the channel, or one the channel does not see.
LEMMA StepImplements ==
  ASSUME SafeInv, BeforeWrap, BeforeWrap', [Next]_vars
  PROVE  [Channel!ChNext]_(Channel!chvars)
<1>1. CASE \E p \in Producers : StartAllocate(p)
  BY <1>1, ReservesBehind DEF Channel!ChNext
<1>2. CASE \E p \in Producers : FinishAllocate(p)
  <2>1. PICK p \in Producers : FinishAllocate(p)
    BY <1>2
  <2>2. CASE WritePad(p) \/ Commit(p)
    BY <2>2, PadCommits, MessageCommits DEF Channel!ChNext
  <2>3. CASE ~(WritePad(p) \/ Commit(p))
    BY <2>1, <2>3, WaitingUnseen DEF FinishAllocate
  <2> QED
    BY <2>2, <2>3
<1>3. CASE \E c \in Consumers : Consume(c) \/ Finalize(c)
  <2>1. PICK c \in Consumers : Consume(c) \/ Finalize(c)
    BY <1>3
  <2>2. CASE Claim(c) /\ Unclaimed(c)
    BY <2>2, ClaimTakes DEF Channel!ChNext
  <2>3. CASE Release(c)
    BY <2>3, ReleaseFinishes DEF Channel!ChNext
  <2>4. CASE Advance(c) /\ e = ep[c]
    BY <2>4, AdvanceFrees DEF Channel!ChNext
  <2>5. CASE ~(Claim(c) /\ Unclaimed(c)) /\ ~Release(c) /\ ~(Advance(c) /\ e = ep[c])
    BY <2>1, <2>5, ConsumingUnseen
  <2> QED
    BY <2>2, <2>3, <2>4, <2>5
<1>4. CASE UNCHANGED vars
  <2>1. UNCHANGED <<tickets, r, e, pc, op, pad>>
    BY <1>4 DEF vars, locals, history
  <2>2. Pending' = Pending /\ \A c \in Consumers : Reading(c)' <=> Reading(c)
    BY <2>1 DEF Pending, Reading
  <2> QED
    BY <2>1, <2>2, Unseen
<1> QED
  BY <1>1, <1>2, <1>3, <1>4 DEF Next

\* The queue is an ordered channel: whatever the number of threads, messages
\* are committed once, over free space only, taken in the order they were
\* reserved and freed in that order after the last look at them.
THEOREM QueueImplementsChannel ==
  ASSUME PlainData, MaxTraffic + BufWords < CursorMod
  PROVE  Spec => ImplementsChannel
<1>1. Spec => []RingInv
  BY Invariance
<1>2. Init => Channel!ChInit
  <2> SUFFICES ASSUME Init PROVE Channel!ChInit
    OBVIOUS
  <2>1. tickets = {}
    BY DEF Init
  <2> QED
    BY <2>1 DEF Channel!ChInit, Pending, Taken
<1>3. RingInv /\ RingInv' /\ [Next]_vars => [Channel!ChNext]_(Channel!chvars)
  <2> SUFFICES ASSUME RingInv, RingInv', [Next]_vars
               PROVE  [Channel!ChNext]_(Channel!chvars)
    OBVIOUS
  <2>1. SafeInv /\ BeforeWrap
    BY BoundedTraffic
  <2>2. BeforeWrap'
    BY BoundedTraffic, PTL
  <2> QED
    BY <2>1, <2>2, StepImplements
<1> QED
  BY <1>1, <1>2, <1>3, PTL DEF Spec, ImplementsChannel, Channel!ChSpec

=============================================================================
