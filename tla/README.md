# Verification of atma

atma is a C++ library of lock-free queues, engines, handle tables, events, logging, containers and
text, and rose a small layer of operating-system services over it. This directory holds TLA+ modules
of the parts in which several threads meet, the TLC configurations that check them, and TLAPS proofs.

    tlc -config RingSafety.cfg MCRingQueue      # check one run (PROJECT.json lists them)
    tlapm RingQueueProofs.tla                   # check the proofs

## The system

Paths are relative to the repository; `include/atma` is abbreviated to `ia`.

| component | state | operations | meets | hard behaviours |
|---|---|---|---|---|
| ring queue, `ia/lockfree_queue.hpp` | a byte buffer, cursors `w`, `r`, `e`, a header word per message | `allocate`, encode, `commit`; `consume`, decode, `finalize` | under every component below down to logging | every thread works on the same words without a lock; stale cursors; messages that wrap; padding |
| linked queue, `ia/lockfree/queue.hpp` | a list with a dummy node, two spin locks | `push`, batch `push`, `pop` | under `engine_t` | the two locks protect two ends of one list, which meet at the dummy |
| engines, `ia/threading.hpp` (`inplace_engine_t`), `ia/thread/engine.hpp` (`engine_t`) | a queue of functions, a thread, `running_` | `ensure_running`, `signal`, `signal_evergreen`, `signal_block`, destruction | clients by the queue, `signal_block` by a flag | functions run in their slot of the ring; nested loops; a thread that must not wait for itself |
| work tokens and the thread pool, `ia/threading.hpp` | a token's two 16-bit indices and a flag; a ring queue and its workers | `enqueue_against`, `enqueue_repeat_against`, the token's destructor; `enqueue`, the pool's destructor | tokens hand turns from worker to worker | index order against queue order; repeat tasks against the destructor; wrap |
| handle table, `ia/handle_table.hpp` | pages of slots in a list, a bitmap and a size per page, two counts per slot | `construct`, `retain`, `release`, `weak_retain`, `weak_release` | threads share handles | pages that race to be linked; bits and sizes that change apart; last references dropped at once |
| event system, `ia/event.hpp` | bindings, a queue per thread, two mutexes | `bind`, `unbind`, `raise`, `process_events` | queues raises for other threads | handlers run under a mutex; argument copies freed by a queued deletion |
| logging runtime, `ia/logging.hpp` | handlers, replicants, a ring queue, a thread | `log`, `flush`, attach, connect | replicants forward to one another | flush against stop; cycles of replicants with full queues |
| arena allocator, `ia/arena_allocator.hpp` | pages with a bitmap | `allocate`, `deallocate` | shared by threads | runs of blocks across a word of the bitmap |
| shared memory, intrusive pointers | a count | copy, move, assign, release | shared by threads | assignment; last release |
| vector, memory operations | a buffer, size, capacity | insert, erase, resize, reserve | | lifetimes of elements through shifts and growth |
| directory watching, `source/rose/runtime.cpp` | watches, callbacks, an engine and a token | `register_directory_watch`, destruction | engine, token | first registration by two threads; members destroyed while the engine runs |
| rope, `ia/rope.hpp` | an immutable B-tree of text leaves | insert, erase, split, concatenation | | a CR-LF pair must not be split between leaves; balance |
| utf-8 strings, functions, streams, hash map, AtmaCS red-black tree | buffers and trees | sequential | | boundaries of characters; buffers of callables; rotations |

What makes each correct, in a line: the ring queue and the linked queue are ordered channels whose
memory has one owner at a time; an engine runs what it is signalled, in order, and `signal_block` is a
barrier; a token's tasks run one at a time in order and never after the token; a handle with a
reference names its payload until the last reference goes; a raise reaches the handlers bound at the
time; a flushed log is written; blocks of an arena and elements of a vector are used by one owner
within their lifetime; a rope is the text its edits say.

`PROJECT.json` lists every component with what is modelled of it, and under `hazards` every line at
which this code can go wrong in a way a test would hardly reach, with the properties that watch it.

## Modules

| module | models | instances and runs |
|---|---|---|
| `RingQueue` | `base_lockfree_queue_t`, `lockfree_queue_t` | `MCRingQueue`, `Ring*.cfg` |
| `MessageChannel` | what the ring queue promises | refined by `RingQueue` |
| `LinkedQueue` | `lockfree::queue_t` | `MCLinkedQueue`, `Linked.cfg` |
| `FifoQueue` | what the linked queue promises | refined by `LinkedQueue` |
| `Engine` | `inplace_engine_t` | `MCEngine`, `Engine*.cfg` |
| `WorkToken` | `work_token_t`, `enqueue_against`, `thread_pool_t` | `MCWorkToken`, `Token*.cfg` |
| `HandleTable` | `handle_table_t` | `MCHandleTable`, `Table*.cfg` |
| `EventSystem` | `event_t`, `event_system_t` and the bindings between them | `MCEventSystem`, `Events.cfg` |
| `LoggingRuntime` | `logging_runtime_t` and its replicants | `MCLoggingRuntime`, `Logging.cfg` |
| `LogRecord` | `send_log`, the encoder, the decoder, `memory_stream_t` | `Structures` |
| `RopeText`, `RopeTree`, `RopeEdits`, `Rope` | `basic_rope_t`: seams and cuts, the tree, the edits, the rope | `MCStructures`; `MCRope`, `Rope*.cfg` |
| `Utf8String` | `utf8_string_t` | `Structures` |
| `HashTable` | `hash_set`, `hash_map` | `Structures` |
| `RedBlackTree` | AtmaCS `ImmutableRedBlackTree` | `MCStructures` |
| `Arena` | `arena_memory_resource_t` | `Structures`, `ArenaOverlap.cfg` |
| `Structures` | the seven structures above that share nothing | `MCStructures`, `Structures.cfg` |
| `FunctionObject` | `basic_generic_function_t`, the functions of a queue | `Structures` |
| `SharedMemory` | `shared_memory_t` | `Structures` |
| `DirectoryWatch` | `runtime_t` of rose | `Structures` |
| `RingQueueProofs`, `LinkedListProofs`, `HandleTableProofs`, `EngineProofs`, `WorkTokenProofs`, `LoggingProofs`, `EventProofs`, `StructureProofs` | theorems about the module each is named for (`LinkedListProofs`: `LinkedQueue`; `EventProofs`: `EventSystem`; `StructureProofs`: `Structures`) | |

The modules compose as the code does: `RingQueue` implements `MessageChannel`, and `Engine`, `WorkToken`,
`EventSystem` and `LoggingRuntime` use a queue that does what `MessageChannel` says, as a bounded sequence;
`DirectoryWatch` runs in the turns that `WorkToken` gives; `LogRecord` is what a command of
`LoggingRuntime` carries. `Structures` is a bench: the structures on it share nothing, `kind` chooses one
at the start of a behaviour, and the variables of the others stay unused. `MCStructures` adds the rope and the red-black
tree, whose operators are recursive, in the same way.

A definition that a comment calls a mutant is a broken variant of the one after it. Nothing uses it;
`PROJECT.json` names, for each property, the mutant under which it must fail.

### RingQueue

The buffer is counted in 4-byte words, the size of a header: `impl_allocate_default` rounds every size
up to words. A word is a record of the header's fields, and a payload word is an arbitrary word, which
may look like a header. Each action is one access to shared memory. A producer goes through `Reserve`
(a compare-and-swap loop or an atomic add on `w`; a failed exchange only reloads `w`, so the loop is its
last round), `LoadHeader`, `WaitForLap`, `Spin`, `WritePad`, `MarkReady`, `Encode` and `Commit`; a consumer
through `LoadCursors`, `AwaitSpace`, `ReadHeader`, `Claim`, `MarkRead`, `Decode`, `Wipe`, `Release`,
`LoadEmpty`, `PeekEmpty`, `ClearHeader`, `Advance` and `UnswapHeader`. The cursors are integers modulo
`CursorMod`, which must exceed two buffers. `tickets` and `total` are history.

`MessageChannel` is the promise: messages get consecutive space, are taken in the order of that space
once committed, and space is freed in the same order when finalized, never more than a buffer's worth
at a time. The refinement mapping reads all of it off the tickets and the cursors.

### LinkedQueue

Nodes are a finite pool, so that a deleted node can be allocated again and a use after free is seen.
One action per access under a lock, since the two ends have different locks. `FifoQueue` is a sequence;
`push` takes effect when the chain is linked and `pop` when `head_` moves, which is where the history
variable `order` changes.

### Engine

The ring is a sequence of slots, each ready, running or done: the part of `MessageChannel` an engine
sees. A function runs in its slot; `signal_block` on the engine thread puts a function into the ring and
enters a nested loop (`depth`), so several slots can be running, and are done out of order and freed in
order. Functions are known by kind: one that ends, one that repeats (`signal_evergreen`), one that calls
`signal_block`, the one `signal_block` waits for, the destructor's. `running_` is tested once in
`SignalBlock` where the code tests it in `signal_block` and again in `signal`: it cannot become false while
a client is in a call, since only the destructor's function clears it.

### WorkToken

Tokens count without wrapping (`issued`, `executed`, `place`); the code's indices are these modulo
`IdxMod`, and every comparison of the model compares indices. The pool's queue is a bounded sequence;
a worker copies a function out of it and frees the slot before calling it, as `with_consumption` does.

### HandleTable

Handles are packed integers, pages and slots their parts. One action per atomic access, except the
exchange loop that clears a bit, which has no effect until it succeeds. Clients hold references in
`strong` and `weak` and use a handle only while they hold one of it; `Retain` and `WeakRetain` pass a new
reference to any thread. `Gets` and `Expired` are what `get` and `expired` answer. `MaxRefs` bounds the references
a thread holds, below what a counter can count.

### EventSystem

A thread is a stack of activities, since a handler called at once may raise an event: the instance has two
events that share a system, and each handler raises the event the other may be bound to. Each step of a raise (lock, queue a
call, queue the job that frees the arguments, call, go to the next system) is an action, so that another
thread can bind, unbind, raise or process in between. The list of bindings and the map of queues are
shared without a common mutex; `raced` records that two threads met there, and the model goes no further,
because the code's behaviour is then undefined. A walk over bindings is a place in their list: the next is the
first one behind it that the event wants (`IsNext`), and the walk ends where there is none (`AtEnd`). `due` and
`calls` are history. `CallsFollowRaises` is about one system: a handler that was bound to two, one after the
other, may be called for an earlier raise after a later one.

### LoggingRuntime

A command is a record in the queue of a runtime; its thread does one at a time, and passing a message on to
the replicants is one step for each, which waits while the replicant's queue is full. A message that a
replicant reads from a runtime has lost its level and text (hazard at line 277) and is `Garbled`. `dangled`
says that a destroyed runtime is still another one's replicant; the model goes no further. `accepted` and `seen`
are history. `LogRecord` is the content of one message, over a small alphabet of bytes that are also
instructions, in a buffer that is soon full. `encode_sprintf` prints a text into 2048 bytes on its stack before it writes
it (`ia/logging.hpp:391`), and asks nothing of its length: `FormatRoom` is that buffer, a text that does not fit sets
`logged.overran`, and the model goes no further. `SaysWhatWasLogged` speaks of the records to which that does not happen.

### Rope

Nodes live in a heap because ropes share them: an edit may append to a leaf's buffer or a branch's children
in place when it ends where its view ends, and `CopyKeepsText` is about the rope that shares it. Every
algorithm (`insert`, `erase`, `split`, `tree_concat_`, seams, both builders) takes a heap and returns one. Bytes are CR, LF, a
lead byte or a run-on byte. Where the code drops a result, keeps a node twice or asserts, the
edit names it in `flaws`; the properties are about the other edits, and the rope is dropped for its copy after
one. `RopeNewline.cfg` and `RopeSplit.cfg` show two of these paths.

Whether `char` is signed decides what a rope does with characters of more than one byte. The lengths of characters are
looked up by `char_length_table[*leading]` with a plain `char` (`ia/utf/utf8_string.hpp:565`, `:1192`), and
`text_info_t::from_str` does so for every text that is built or inserted (`ia/rope.hpp:1177`). Where `char` is signed, as with
the compiler the repository is built with, a byte that leads a longer character is a negative index: the rope is `adrift`,
nothing follows, and no property promises anything. Only ASCII is safe in that build, in which `is_break` does not see a
run-on byte either (`:1647`). `MCStructures` therefore checks two ropes: `Ropes`, where `char` is signed, with one text and one
insertion that set it adrift, and `WideRopes`, where it is not, whose texts have characters of two and three bytes over the
places where leaves are cut. There `TreeIsSound` includes the assertion of `:1814`, that no leaf is cut inside a character.
Iteration does not keep up in either build: `operator *` takes the index of a character for that of a byte (`:4143`), so
behind a longer character it reads another character or halts. `ReadsAsEdited` says what is left: the edits are where
the text says, and a rope is read rightly up to its first longer character, and wholly if it has none.

The model is of a build without `ATMA_ENABLE_ASSERTS`, whose `tree_merge_nodes_` does not compare the totals of its right node
with those of the node's own children (`:2271`); with it, merging a view that knows of fewer children than its node has
would stop there.

### The other structures

`Utf8String`: blocks of quantized capacity, the terminator, and a string given to itself; a walk forwards is defined
for both builds (`charIsSigned`), and where `char` is signed it ends at the first character that is not ASCII, because the
table of lengths is then read before its start (`IsInTable`). `HashTable`: chains of
elements, `reset`, insertions and the `find` whose loop does not shift. `RedBlackTree`: insertion and deletion with
colours as numbers, the doubled black, and the exception of a deletion. `FunctionObject`: vtable and buffer kinds
through construction, assignment, copies and the way into a queue; an external function that was made empty has no
buffer (`ia/function.hpp:711`), and is not assigned a functor that needs one, or nothing follows (`AtNull`). `SharedMemory`: each operation is one step,
because nobody can find a block whose owners are gone; `owed` is how far copy assignments put a count off.
`Arena`: every access to the mask is a step; `flaws` records a run that crosses a word of the mask and a word that
changed and changed back. `DirectoryWatch`: registration, the completion routine with its buffer of records, and
the pass that calls back; the operating system collects changes and completes reads as the code expects of it, but
may refuse to start a read again, after which the directory is `deaf`: the code asks for no result (`source/rose/runtime.cpp:52`).

## Runs

All constants are model values and bounds in the `.cfg`; a bound is named in its module ("bound:").

| run | shows | bounds, and why they are enough |
|---|---|---|
| `ring_safety` | exclusive regions and access, whole messages, clean allocations, disjoint reservations | two producers and consumers, messages of two words in a ring of five, contiguous or not: a lap, padding at the end, and a message over the end |
| `ring_consumers` | refinement of `MessageChannel` | three consumers and four empty messages in two words, so the fourth is on the second lap: a stale `e` at another and at the same position, and the un-swap, all occur |
| `ring_wrap` | types; everything until the wrap; every message drains | a cursor range of 11 words, not a multiple of the buffer of four, and 12 words of traffic: the ring is full twice before the wrap |
| `linked` | `ListIsSound` (types, the list's shape, no use of a freed node), exclusion, refinement of `FifoQueue`, progress | three nodes: the dummy and a batch of two, so that a node is used again after every pop; two producers and two consumers |
| `engine` | `signal_block` is a barrier and the destructor leaves nothing signalled behind; loops nest; calls return | two clients, three calls each, a ring of three that fills, one repetition, nesting two deep: the least at which slots finish out of order twice |
| `token_turns` | turns, indices, the destructor | indices modulo 4 with 3 outstanding, up to eight indices: two wraps |
| `token_outlived` | a finding | one client, one repeat task |
| `table_shared` | `PagesAreSound` (types, the linked list, sizes), counts, ownership | two threads, two pages of two slots in one word, two references of each kind: a lost link, a full page and a slot used again all occur |
| `events` | counts of bindings, order of calls, copies of arguments, every call owed is made | two threads, two raises that a program begins and two more by handlers, two binds, two events on one system, queues of three jobs: a raise within a raise, two events whose handlers raise each other on two threads, an unbind between the steps of a raise, jobs queued by either thread for the other until its queue is full, also while a job of it runs |
| `logging` | handlers see their logs, a flush is a barrier and returns | two threads, two runtimes that can be each other's replicants, queues of two that fill, four commands: the circle, the garbled message and a destruction in the middle all occur |
| `structures` | each structure against what it stands for | see below |
| `rope_newline` | a finding | one edit of five texts |

The bounds of `structures`: chains of two elements and limits of one and three, in tables of one and four slots, so
that a second chain is needed, refused and reset; strings of up to four bytes in quanta of two, with characters
of two bytes; trees of six values, which is enough for every rotation and the exception of a deletion;
arenas of three blocks in words of two bits, two threads, two allocations held and two pages; log records of fifteen bytes with
texts that look like instructions, of which one fills the printing buffer of seven, one fits the record and not that buffer, and
one is longer than its size can say; functors that fit,
exactly fill and exceed a buffer of four; three owners of two blocks; two directories, two callbacks and three changes
with infos that outgrow their first room; ropes of up to five leaves with branches of four and buffers of nine,
two edits, at every seventh place and next to the ends, with a CR-LF over the end of a leaf, a leaf that begins with a lone
LF, and characters of two and three bytes over the ends of leaves. The two directories are
interchangeable, and so are the two callbacks: no step and no property names one, and the run declares both sets symmetric (it
checks no liveness).

Deadlock is checked in the runs of the two queues, whose consumers poll for ever. The others stop when
the component has been destroyed, the program is undefined or the bounds are spent, and say so with `CHECK_DEADLOCK FALSE`; the
states in which an engine, a pool or a thread raising an event blocks itself are among those, and the
liveness properties name them.

### Fairness

`FairSpec` assumes weak fairness of every thread's steps within a call, and of polling consumers,
workers and runtime threads: the operating system runs every thread, and the code's waits are loops that do
not block in the kernel. It never assumes that a client makes a call. It does not assume that the spin locks are
fair (`HeadMoves` of `linked` says only that some consumer succeeds), nor that an exchange that fails will
succeed. In `events` a mutex is held while handlers run, and a handler may wait: for a mutex, or for room in the queue of
another thread. Where no threads wait for one another in a circle (`WaitsInACircle`), the holder of each mutex goes on until it gives
it up, and since the raises are bounded a thread that waits gets it at last. There `FairSpec` also assumes that a thread
that is idle again and again calls `process_events` for every system again and again, which a program has to see to. In `logging` a runtime's thread runs until the runtime is
destroyed, and nothing makes it pass on a garbled message, which may be larger than any queue.

`CallsReturn`, `EverythingDrains`, `CallsHappen` and `FlushesReturn` name, in their conclusions, what the code does not
survive: the engine thread waiting for itself, the wrap of the cursors, threads that raise events and wait for one another's
mutexes or queues in a circle (one thread whose handler raises its own event; two whose handlers raise each other's
events), replicants in a circle.

## Findings

Two disagreements with what the source says of itself are listed in `PROJECT.json`, each with a quotation and a run
whose trace shows it.

1. `token_outlived`: a repeat task uses its token after the token's destructor has waited for "all our tasks".
2. `rope_newline`: a line feed inserted at the front of a chunk that follows no carriage return is lost.

Other behaviours at the edge of what the code is meant for have configurations beside the runs, each with a
trace to one of them:

- `RingWrapBroken.cfg`: past the 4 GiB wrap of the cursors a producer no longer waits for space.
- `RingLookalike.cfg`: a finalizer with a stale `e` zeroes a payload word that looks like a cleared header.
- `EngineSpins.cfg`: a function that calls `signal_block` before `handle_` is assigned hangs the engine.
- `TableStuck.cfg`: with page 0 full but for its reserved slot, `construct()` searches for ever.
- `ArenaOverlap.cfg`: a run of blocks that crosses a word of the mask is given out twice.
- `RopeSplit.cfg`: a split at certain places keeps a node on both sides.

The passing runs and the theorems say how far the code does hold: `SafeBeforeWrap`, `EverythingDrains` and the theorems about
regions, accesses and messages stop at the wrap; the payload words of the safety runs do not look like a cleared header;
`OnlyRepeatsOutlive` says that functions that run once never outlive their token; `MarksFollowAllocations`
excepts runs over two words; `CountsOwners` says that a count is off by what copy assignments did and by
nothing else; `NothingLeftBehind` allows a nested loop to serve a client's `signal_block` before the function it
nests in has returned; `FunctionsAgree` excepts the sizes for which the room of a queued function is too small;
`TreeAgrees` drops the colours, but not the order or the contents, once something was deleted.

Two more behaviours can be read off the models. A repeat function that
signals itself into a full ring waits for room only its own thread could make (`NeverFillsItself`, a premise
of `CallsReturn`). Two threads can enqueue against one token in the opposite order of their indices; one
worker then waits in `wait_for_idx()` for a function behind it in its own queue.

## Proofs

Each theorem holds for all values of the constants that satisfy the named `ASSUME`s of the modules: producers
and consumers are disjoint, sizes fit in the buffer, the cursor range exceeds two buffers, fewer indices are out
than `IdxMod`, the names of clients are not depths of nesting. TLC evaluates the assumptions on every run. In
each proof the invariant named below is inductive, and there is a lemma for each action that disturbs it.

`RingQueueProofs` proves, for any threads, buffer size, payload words, cursor range and traffic:

- `Typing`, `Spec => []TypeOK`. Inductive with one addition, `PadPending`: a producer still has padding to write
  only before it writes it, and then its padding fits the buffer.
- `NoOverlap`, `Spec => []ReservationsDisjoint` when `MaxTraffic < CursorMod`, that is before the cursors wrap.
  `ReservationsDisjoint` alone is not inductive: a new ticket starts at `w`, so one must know that every ticket
  ends at or before `w` (`BelowW`) and that `w` is the history's `total`, which makes additions exact.
- `SafeUntilWrap`, `Spec => []SafeBeforeWrap`, and for traffic that stays a buffer below the wrap (`MaxTraffic +
  BufWords < CursorMod`) `RegionsAreExclusive`, `AccessExclusive`, `DeliveredWhole` and `CleanAllocation`. The
  invariant is `RingInv`: types, and before the wrap `SafeInv`. Each of the numbers `e - BufWords .. e - 1`
  stands for one word of the buffer. `Placed` says that tickets cover all numbers below `w` (`Cover`), that `r`
  and `e - BufWords` stand where a message begins and no more than a buffer apart (`Cursors`), and that what a
  thread has read of `e` is at most `e` (`SeenEmpty`). `Threading` ties each thread's local copies to a ticket
  of its own, and `Stored` says what every word holds: a header in the state its threads have brought it to, the
  payload, or zero. The consumer that finds a header cleared, wipes it and tries to advance `e` needs all of
  these at once: it must not be late for its own position, nor take another's header for its own. The theorems
  need payload words that do not look like a cleared header (`PlainData`), because otherwise what they say is
  false (`RingLookalike.cfg`), and cursors that do not wrap, for the same reason (`RingWrapBroken.cfg`).
- `QueueImplementsChannel`, `Spec => ImplementsChannel`, under the same two assumptions: reserving, committing,
  claiming and finalizing are the channel's steps, advancing `e` is its freeing, and every other step of the
  code is one the channel does not see. The un-swap of a header is the step that needs the invariant: it changes
  memory and nothing the channel promises.

`HandleTableProofs` proves `PagesSound`, `CountsRight` and `OneOwner`, `Spec => []PagesAreSound` and so on, for
any finite set of threads and any pages and slots. `PagesInv` says which threads have pages on their way to the
list, a page each; `HandleInv` that the counts of a handle are the references held, where all strong references
together hold one weak one and a thread that drops the last strong reference holds it until it has, and that a
slot without a count is free or in the hands of one thread. The size of a page counts its taken slots and the
threads about to take or free one, by an injection into them, so that it never goes below zero though bits and
size change apart. The counts are sums over threads, hence the finiteness; `MaxRefs` keeps them below the
counter's width.

`LinkedListProofs` proves `Exclusion`, `Spec => []MutualExclusion`, for any threads, nodes and values, from
`LockInv`: the flag of each lock is up exactly when a thread is between its acquisition and its release, and
there is one such thread. It goes on to `Soundness`, `Spec => []ListIsSound`, and `Refinement`, `Spec =>
ImplementsFifo`. The list, the old dummy a consumer has yet to free and the chains that producers collect
outside the lock are apart, and the life of a node says which of them it may be in: `ListInv` is the list
(`Distinct`, `Chained`, `Filled`, `HeadLife`, `TailLast`) and what the threads hold of it (`Popping`, `Pushing`,
`Collected`, `ChainsApart`). It says what `ListIsSound` does not: that the value a consumer copies is still in
the node that became the dummy, and that a chain a producer links holds nothing freed. `LinkChain` then adds the
chain's values at the end of the FIFO queue in one step, `SetHead` takes one from its front, and every other
step leaves both the queue and what was popped alone.

`EngineProofs` proves `LoopsAreNested`, `Spec => []LoopsNest`, and `NothingIsLeftBehind`, `Spec =>
[]NothingLeftBehind`, for any clients, ring size, calls and depth of nesting. The invariant has two halves.
`LoopInv` is the engine thread's: what is behind a slot that waits to be run waits too, a loop runs one slot,
and the running slots are as many as the loops. `ClientInv` is the callers': a `signal_block` that waits has its
unblocking function in the ring behind all that the caller signalled (`Blocking`), and the destructor's function
is the last (`Ending`, `Owning`). So when that function runs, what is before it is done or in a loop that
encloses this one; and at the destructor's no loop encloses it.

`WorkTokenProofs` proves `Turns`, `Holders` and `Waits` for any clients, workers, capacity and bounds, from one
inductive invariant, `TurnInv`. Its core is `PlacesAreHeld`: every index between the two counters is held by
exactly one queued function or thread, at most `MaxPending` of them. Then no two of them are equal modulo
`IdxMod` (`IdxTellsApart`, the one lemma of arithmetic), so that comparing wrapped indices, as the code does,
compares places; whoever runs has place `executed` (`RunsInTurn`), hence one at a time and in order.
`ClosesInOrder` adds that nobody enqueues once the destructor has begun, and that when it has seen the counters
equal, whatever still names the token repeats: there is no index left for anything else to hold.

`LoggingProofs` proves `HandlersSee`, `Spec => []HandlersSeeTheirLogs`, and `FlushesAreBarriers`, `Spec =>
[]FlushIsBarrier`, for any runtimes, threads, handlers and size of the queues. The queue of a runtime holds its
clients' commands among the messages that other runtimes pass on to it: `Rest` says, by a bijection that keeps
the order, that the commands that wait are the last of those accepted. `Effects` says that the others have been
done in order: the handlers are those they left attached, and each handler has seen the messages logged while it
was. `Passing` keeps a message that is being passed on at the front of the queue though it has been handled,
also when the runtime passes it to itself. `Flushing` says that a flush that waits has a thread that waits for
it, and only one.

`EventProofs` proves `StackSound`, `UsesCounted`, `CopiesLive` and `CallsInOrder` for any threads, events,
systems, handlers and bounds, the last three `Spec => []UsesCountBindings` and so on: all that `events` checks
but its liveness. The invariant is in four layers, each proved with those before it.

- `EventTypes` and `BindInv` (`EventTyping`, `BindingsSound`): counts are right, and a handler is bound once.
  What the provers need for the counts is a lemma on the indices of a list that an append or a removal keeps,
  moves or adds (`CountAppended`, `CountWithout`).
- `StackInv` (`StackSound`): a raise that has passed its mutex holds it, so no two of those are of one event, on
  one thread or on two; only the innermost activity of a thread waits. Every action is a move of a thread's
  stack (`Moves`): it goes back to some depth and begins at most two activities.
- `CopyInv` (`CopiesLive`): `Kept` says of the jobs a system has queued for a thread that they use its copies; a
  copy whose raise has still to queue the freeing job (`Untold`) is used by calls only, and any other has one
  freeing job, behind all of them.
- `OrderInv` (`CallsInOrder`): `InLine` orders the calls of a thread through one system, those made before the
  one entered before those queued. It is inductive with `OrderOk`: to whom a raise owes a call (`Owes`), no
  raise of its number or a later one has led to a call (`Issued`). A raise within a handler, of another event,
  cannot, because a handler is bound to one event; one of the same event has still to wait for the mutex.

Like the property, the theorems go as far as the program is defined: where two threads have met in the list of
bindings or the map of queues (`raced`) the model stops.

`StructureProofs` is about `Structures`, whose behaviours are each of one structure: `Steps` and `Begins` take a
behaviour to that structure's own steps. Each theorem is `Spec => []` of the property that `structures` checks.

- `Counts` (`CountsOwners`), for any finite set of owners and any blocks: the cardinality of a block's owners changes
  by one with each construction, move and release, and a copy assignment puts it off by what `owed` records.
- `Marks` (`MarksFollowAllocations`), for any threads, page size, word size and lengths. The invariant adds where
  each searching thread is (`JobsAreInPage`) and that what is held lies in the page (`HeldAreInPage`). `MarkStep` is
  the argument of the code: if the word is what was read, and the run lies in the word and was free in what was
  read, then it is free now, so nobody's blocks are in it.
- `Watches` (`WatchesAgree`), for any directories, callbacks, changes and size of the record buffer. What an info has
  read or reports is of its own directory, and no two infos read the same one (`InfosAreSound`); until a
  registration fails infos and paths are one to one (`WatchersPoint`), which is what makes the
  index kept at the first registration of a path the place where later callbacks for it belong; and a change's number is the
  number of changes there were (`ChangesAreNumbered`), so that none is told twice.
- `Functions` (`FunctionsAgree`), for any functors and sizes of buffers. `Holds` says that the places of the functors
  are apart and are exactly what is alive; construction, assignment, enqueueing and destruction each change it in
  one or two places (`MakeStep`, `MakeFromStep`, `AssignStep`, `EnqueueStep`, `DestroyedStep`), and the room of the queued function stays the
  room that was made for its functor (`RoomIsTaken`).
- `Hashes` (`HashAgrees`), for any keys, payloads, slot counts, limits and chain lengths. `HashInv` says that the
  chains of a slot are filled from the front (`FrontFilled`) and that a slot holds each key that belongs to it, once,
  with its payload, and nothing else (`HoldsPart`). An insertion puts an element into the first chain with room, or
  into a new one, which keeps the chains filled (`PlacedIs`), and touches the part of no other slot (`OtherPart`,
  `OneSlot`). A key's slot is within the table because the mask is smaller than the table (`LogIsSmaller`,
  `MaskIsSmaller`); the mask is
  a logarithm, so the model's five bits are all it has of a size of 32 bits.
- `Records` (`SaysWhatWasLogged`), for any base, room, printing buffer, styles, colours and texts of bytes, as long as no
  text overran the printing buffer. `LogInv` says that pieces
  lie one behind the other in the stream (`Laid`), up to its end, or up to a piece of which only the beginning was
  written (`CutAfter`). Reading then finds each piece where it was put, and the decoder's recursion over what
  remains returns the list of pieces.
- `StringTexts` (`StringsAgree`), for any quantum and texts. `StringInv` says that a string's block has room for its bytes
  and a terminator behind them (`Block`), and that its bytes are its text and whole characters, or nothing is said of it
  (`Tells`). Then ++ and -- visit the same places in opposite orders: both go through `Bounds`, the ends of the text and
  the starts of its characters; where `char` is signed, ++ visits the first of them, and stops before the end only at a
  character that is not ASCII (`StopsEarly`, `WalksAgree`).

`Hashes`, `Records` and `StringTexts` are about recursive functions over data (the logarithm and the mask, the halving of a
capacity, the decoder, ++ and --). The library's induction theorems, which take an operator, are out of the provers'
reach. `LeastOfSet` gets a least member of any set of naturals from the well-foundedness of strict inclusion on finite sets,
which is a statement about sets; `NatSetInduction` and, for a walk with a rank, the existence of the function that its
recursion defines (`HalvingExists`, and the like for decoder and iteration) follow from it.

The constants are as free as the code leaves them:

- `ArenaAssumption`: lengths and the number of blocks are natural numbers. `WatchAssumption` likewise.
- `SharedAssumption`: owners are finitely many (a count is of owners that exist), and what stands for no block is none.
- `HashAssumption`: a chain holds an element, and a table has a slot.
- `FunctionAssumption`: a functor has a size, as every C++ object, and a queued function has the smaller buffer, which the
  types of `function.hpp` and `threading.hpp` say.
- `LogAssumption`: styles, colours and texts are numbers, and the two bytes of a size can count to the buffer's end:
  the buffer of `send_log` is 8 KiB.
- `StringAssumption`: the smallest capacity is not zero, and the texts given are of whole characters (`WellFormed`): a
  string asserts it nowhere but relies on it, because ++ goes as far as the leading byte says.

One of these proofs corrected a model. `Forward` had no meaning at a run-on byte, whose length in the code's table is zero:
its recursion had no solution there. ++ stays at such a byte, and so does `Forward` now; the texts of the runs never
have it in a place where ++ arrives.

Only model-checked: the rope and the red-black tree (`ReadsAsEdited`, `CopyKeepsText`, `TreeIsSound`, `TreeAgrees`), whose
RECURSIVE operators over trees of nodes cost the provers their SMT backend; and all liveness (`HeadMoves`,
`EverythingDrains`, `CallsReturn` and the like), which is out of their reach because fairness is about ENABLED.

## Not modelled

- Line indices, the debug dump and `operator ==` of ropes; spans, conversions and stream operators of strings;
  `erase()` and the iterators of `lockfree::queue_t`, which nothing calls; the layout of a header's bits and
  alignments above four bytes; `enqueue_repeat` without a token; `swap` and `dump_ascii` of handle tables.
- Intrusive pointers: their count under copies and moves is the question `SharedMemory` asks, and assignment
  there adds the new reference before it drops the old one. Vector and the memory operations under it:
  templates whose behaviour is the lifetimes of elements.
- Atomics (wrappers of compiler intrinsics, each taken as one step), files, the console and memory maps
  (operating-system I/O), matrices and geometry (floating point), ranges, tuples and meta-programming (compile
  time), the test framework, and code under `#if 0` (`ia/lockfree_list.hpp`, `modules/atma/rope.cppm`, the jump to
  a larger ring buffer).

What would come next: vector with element lifetimes; the rope's edits as functions over a heap, so that `ReadsAsEdited` can
be proved with the means of `StringTexts`.
