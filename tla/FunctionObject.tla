--------------------------- MODULE FunctionObject ---------------------------
(***************************************************************************)
(* The function objects (include/atma/function.hpp) and their way into a   *)
(* queue of functions (include/atma/threading.hpp).                        *)
(*                                                                         *)
(* A function object has a vtable and a buffer.  A functor that fits is    *)
(* kept inside the buffer, behind a pointer; a larger one is kept where    *)
(* the pointer points: on the heap, in a buffer that the object was given, *)
(* or, for a queued function, behind the object itself.  The vtable knows  *)
(* the functor's type and the size and kind of the buffer: assigning to an *)
(* object destroys its functor, gives it the vtable for the new functor in *)
(* ITS kind of buffer, and copies the functor there.  A move does the same:*)
(* the functor is taken by a pointer to const, and what is moved from a    *)
(* const object is copied.                                                 *)
(*                                                                         *)
(* Sizes are in words.  A functor is named by its size; the empty function *)
(* is a pointer to a function, one word.                                   *)
(***************************************************************************)
EXTENDS Naturals

CONSTANTS
    Functors,       \* naturals from 1: functors, each of another size
    BufferSize,     \* words in the buffer of a function (4)
    QueuedSize      \* words in the buffer of a queued function (2)

VARIABLES
    fns,        \* object -> its vtable and pointer, or Gone
    live,       \* place -> the functor that is alive there
    wanted,     \* object -> the functor it should hold
    room        \* words allocated in the queue for the queued function

vars == <<fns, live, wanted, room>>

EmptyFn == 0
Gone == [functor |-> EmptyFn, bs |-> 0, storage |-> "gone"]
Null == <<"null">>

(* Two functions, one with a buffer it was given, and one in a queue.      *)
Objects == {"f", "g", "external", "queued"}
Assignable == Objects \ {"queued"}
Storage == [x \in Objects |-> CASE x = "external" -> "external"
                                [] x = "queued" -> "relative"
                                [] OTHER -> "heap"]
BS == [x \in Objects |-> IF x = "queued" THEN QueuedSize ELSE BufferSize]
Exbuf == [x \in Objects |-> IF Storage[x] = "heap" THEN Null ELSE <<"given to", x>>]

Size(functor) == IF functor = EmptyFn THEN 1 ELSE functor
EnableSFO(bs, functor) == Size(functor) + 1 <= bs
ExternalSize(fn) == IF EnableSFO(fn.bs, fn.functor) THEN 0 ELSE Size(fn.functor)

Target(x, fn) == IF EnableSFO(fn.bs, fn.functor) THEN <<"inside", x>> ELSE fn.ptr

-----------------------------------------------------------------------------
(* The entries of a vtable, on the memory m of objects and functors        *)

Memory == [fns |-> fns, live |-> live]

Destruct(m, x) ==
    [fns |-> m.fns,
     live |-> [p \in DOMAIN m.live \ {Target(x, m.fns[x])} |-> m.live[p]]]

NewPlace(m) == CHOOSE p \in {<<"heap", n>> : n \in 1 .. 4} : p \notin DOMAIN m.live

MkVtable(m, x, bs, storage, functor) ==
    LET ptr == IF m.fns[x] = Gone THEN Null ELSE m.fns[x].ptr
        fn == [functor |-> functor, bs |-> bs, storage |-> storage, ptr |-> ptr]
    IN  [fns |-> [m.fns EXCEPT ![x] = fn], live |-> m.live]

(* A null pointer leaves the one the buffer has.                           *)
Construct(m, x, exbuf, value) ==
    LET fn == m.fns[x]
        ptr == IF fn.storage # "heap" THEN (IF exbuf = Null THEN fn.ptr ELSE exbuf)
               ELSE IF EnableSFO(fn.bs, fn.functor) THEN fn.ptr ELSE NewPlace(m)
        made == [fn EXCEPT !.ptr = ptr]
        place == Target(x, made)
    IN  [fns |-> [m.fns EXCEPT ![x] = made],
         live |-> [p \in DOMAIN m.live \cup {place} |-> IF p = place THEN value ELSE m.live[p]]]

ValueOf(m, y) == m.live[Target(y, m.fns[y])]

AssignIntoAsSource(m, x, y) ==    \* mutant: the vtable is for the source's buffer
    LET cleared == Destruct(m, x)
        typed == MkVtable(cleared, x, m.fns[y].bs, m.fns[y].storage, m.fns[y].functor)
    IN  Construct(typed, x, Null, ValueOf(m, y))
AssignInto(m, x, y) ==
    LET cleared == Destruct(m, x)
        typed == MkVtable(cleared, x, m.fns[x].bs, m.fns[x].storage, m.fns[y].functor)
    IN  Construct(typed, x, Null, ValueOf(m, y))

FromFunctor(m, x, functor, exbuf) ==
    Construct(MkVtable(m, x, BS[x], Storage[x], functor), x, exbuf, functor)
FromFunction(m, x, y) ==
    Construct(MkVtable(m, x, BS[x], Storage[x], m.fns[y].functor), x, Null, ValueOf(m, y))

(* With a buffer for it: empty first, and assigned the function then.      *)
FromBuffered(m, x, y) == AssignInto(FromFunctor(m, x, EmptyFn, Exbuf[x]), x, y)

-----------------------------------------------------------------------------
Init ==
    /\ fns = [x \in Objects |-> Gone]
    /\ live = [p \in {} |-> EmptyFn]
    /\ wanted = [x \in Objects |-> EmptyFn]
    /\ room = 0

Is(x) == fns[x] # Gone
Become(m) == fns' = m.fns /\ live' = m.live

(* From nothing, the empty function and no buffer, or from a functor.      *)
Make(x, functor) ==
    /\ x \in Assignable /\ ~Is(x)
    /\ Become(FromFunctor(Memory, x, functor, IF functor = EmptyFn THEN Null ELSE Exbuf[x]))
    /\ wanted' = [wanted EXCEPT ![x] = functor]
    /\ UNCHANGED room

MakeFrom(x, y) ==
    /\ ~Is(x) /\ Is(y)
    /\ Become(IF Storage[x] = "heap" THEN FromFunction(Memory, x, y) ELSE FromBuffered(Memory, x, y))
    /\ wanted' = [wanted EXCEPT ![x] = wanted[y]]
    /\ UNCHANGED room

(* Assignment to itself does nothing.                                      *)
Assign(x, y) ==
    /\ x # y /\ Is(x) /\ Is(y)
    /\ Become(AssignInto(Memory, x, y))
    /\ wanted' = [wanted EXCEPT ![x] = wanted[y]]
    /\ UNCHANGED room

Destroyed(x) ==
    LET m == Destruct(Memory, x)
    IN  /\ Is(x)
        /\ fns' = [fns EXCEPT ![x] = Gone] /\ live' = m.live
        /\ wanted' = [wanted EXCEPT ![x] = EmptyFn]
        /\ room' = IF x = "queued" THEN 0 ELSE room

(* enqueue_function_to_queue: the room is that of the function it copies,  *)
(* and of what that keeps outside of its own buffer.                       *)
Enqueue(x) ==
    /\ Is(x) /\ Storage[x] = "heap" /\ ~Is("queued")
    /\ Become(FromBuffered(Memory, "queued", x))
    /\ wanted' = [wanted EXCEPT !["queued"] = wanted[x]]
    /\ room' = 1 + BufferSize + ExternalSize(fns[x])

(* An external function that was made empty has no buffer: one that does   *)
(* not fit inside is constructed at a null pointer, and nothing follows.   *)
AtNull == Null \in DOMAIN live

Next ==
    ~AtNull /\ \E x \in Objects :
        \/ \E functor \in Functors \cup {EmptyFn} : Make(x, functor)
        \/ \E y \in Assignable :
             /\ x \in Assignable
             /\ MakeFrom(x, y) \/ Assign(x, y)
        \/ Destroyed(x)     \* the queued one, by its consumer
        \/ Enqueue(x)

-----------------------------------------------------------------------------
(* Every object that is there holds the functor it was last given, alive,  *)
(* in a place of its own; and nothing else is alive: unless one is at the  *)
(* null pointer.                                                           *)
HoldFunctors ==
    ~AtNull =>
    LET there == {x \in Objects : Is(x)}
        places == [x \in there |-> Target(x, fns[x])]
    IN  /\ \A x, y \in there : x # y => places[x] # places[y]
        /\ DOMAIN live = {places[x] : x \in there}
        /\ \A x \in there : live[places[x]] = wanted[x]

(* What a queued function takes is inside its room in the queue, but for a *)
(* functor that fits inside a function and not in what the smaller buffer  *)
(* of the queued one leaves of the room.                                   *)
Taken(fn) == 1 + QueuedSize + ExternalSize(fn)
QueuedFits ==
    LET fn == fns["queued"]
        between == EnableSFO(BufferSize, fn.functor) /\ Size(fn.functor) > BufferSize - QueuedSize
    IN  Is("queued") /\ ~between => Taken(fn) <= room

Agrees == HoldFunctors /\ QueuedFits

=============================================================================
