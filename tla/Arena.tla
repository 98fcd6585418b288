------------------------------- MODULE Arena -------------------------------
(***************************************************************************)
(* The arena memory resource (include/atma/arena_allocator.hpp).           *)
(*                                                                         *)
(* A page has BlockCount blocks and a mask of the blocks in use, kept in   *)
(* words of WordSize bits.  An allocation of n blocks goes through the     *)
(* pages and, in each, tests the runs of n blocks in turn: it reads the    *)
(* word that the run starts in, then the whole mask.  If the run is free   *)
(* it swaps that word, and no other, for one with the run's bits set: the  *)
(* swap succeeds if the word is what was read.  When no page has a run a   *)
(* new page is made and swapped in as the first, if the first is still the *)
(* one that the search ENDED at: the sentinel.  So only the first page is  *)
(* ever put in, and an allocation that finds it full gives up after its    *)
(* attempts and returns null.                                              *)
(*                                                                         *)
(* The run of a released allocation is cleared from the mask at once; an   *)
(* allocation at the start of its page is not found and stays marked.      *)
(*                                                                         *)
(* Blocks are at most as many as the bits of an int, by which the masks    *)
(* are shifted.                                                            *)
(***************************************************************************)
EXTENDS Naturals, FiniteSets

CONSTANTS
    Threads,
    BlockCount, WordSize,
    Lengths,        \* blocks asked for
    MaxPages,
    Attempts,       \* 5 in the code
    MaxHeld         \* bound: allocations held at a time

VARIABLES
    page,       \* the set of blocks marked in the page, or NoPage before there is one
    pages,      \* page_count_: pages ever counted
    job,        \* thread -> what it is doing
    held,       \* the allocations that are in use
    flaws       \* ways in which an allocation went wrong

vars == <<page, pages, job, held, flaws>>

NoPage == {BlockCount}
Idle == [at |-> "idle"]

Run(start, n) == start .. start + n - 1
Word(block) == {b \in 0 .. BlockCount - 1 : b \div WordSize = block \div WordSize}

Init ==
    /\ page = NoPage
    /\ pages = 0
    /\ job = [t \in Threads |-> Idle]
    /\ held = {}
    /\ flaws = {}

At(t, where) == job[t].at = where
Become(t, j) == job' = [job EXCEPT ![t] = j]

Allocate(t, n) ==
    /\ At(t, "idle") /\ Cardinality(held) < MaxHeld
    /\ Become(t, [at |-> "get_page", n |-> n, attempts |-> 0])
    /\ UNCHANGED <<page, pages, held, flaws>>

GetPage(t) ==
    LET j == job[t]
    IN  /\ At(t, "get_page")
        /\ IF j.attempts = Attempts THEN Become(t, Idle)
           ELSE Become(t, [at |-> IF page = NoPage THEN "new_page" ELSE "read_word",
                           n |-> j.n, attempts |-> j.attempts + 1, bit |-> 0])
        /\ UNCHANGED <<page, pages, held, flaws>>

(* has_space, one run at a time.                                           *)
ReadWord(t) ==
    LET j == job[t]
    IN  /\ At(t, "read_word")
        /\ IF j.bit + j.n > BlockCount
           THEN Become(t, [j EXCEPT !.at = "new_page"])
           ELSE Become(t, [at |-> "read_mask", n |-> j.n, attempts |-> j.attempts,
                           bit |-> j.bit, word |-> page \cap Word(j.bit)])
        /\ UNCHANGED <<page, pages, held, flaws>>

ReadMask(t) ==
    LET j == job[t]
    IN  /\ At(t, "read_mask")
        /\ IF Run(j.bit, j.n) \cap page = {}
           THEN Become(t, [j EXCEPT !.at = "mark"])
           ELSE Become(t, [at |-> "read_word", n |-> j.n, attempts |-> j.attempts,
                           bit |-> j.bit + 1])
        /\ UNCHANGED <<page, pages, held, flaws>>

Again(t) == Become(t, [at |-> "get_page", n |-> job[t].n, attempts |-> job[t].attempts])

MarkUncompared(t) ==    \* mutant: the word is stored, not swapped if unchanged
    LET j == job[t]
        run == Run(j.bit, j.n)
        word == Word(j.bit)
    IN  /\ At(t, "mark")
        /\ page' = (page \ word) \cup j.word \cup (run \cap word)
        /\ held' = held \cup {[start |-> j.bit, n |-> j.n]}
        /\ flaws' = flaws
             \cup (IF run \subseteq word THEN {} ELSE {"crossed"})
             \cup (IF run \cap j.word = {} THEN {} ELSE {"torn"})
        /\ Become(t, Idle)
        /\ UNCHANGED pages

Mark(t) ==
    LET j == job[t]
        run == Run(j.bit, j.n)
        word == Word(j.bit)
    IN  /\ At(t, "mark")
        /\ IF page \cap word = j.word
           THEN /\ page' = page \cup (run \cap word)
                /\ held' = held \cup {[start |-> j.bit, n |-> j.n]}
                /\ flaws' = flaws
                     \cup (IF run \subseteq word THEN {} ELSE {"crossed"})
                     \cup (IF run \cap j.word = {} THEN {} ELSE {"torn"})
                /\ Become(t, Idle)
           ELSE Again(t) /\ UNCHANGED <<page, held, flaws>>
        /\ UNCHANGED pages

(* The count is never taken back.                                          *)
NewPage(t) ==
    /\ At(t, "new_page")
    /\ pages' = IF pages > MaxPages THEN pages ELSE pages + 1
    /\ IF pages >= MaxPages THEN Again(t)
       ELSE Become(t, [at |-> "link_page", n |-> job[t].n, attempts |-> job[t].attempts])
    /\ UNCHANGED <<page, held, flaws>>

LinkPage(t) ==
    /\ At(t, "link_page")
    /\ IF page = NoPage
       THEN /\ page' = {}
            /\ Become(t, [at |-> "read_word", n |-> job[t].n, attempts |-> job[t].attempts,
                          bit |-> 0])
       ELSE Again(t) /\ UNCHANGED page
    /\ UNCHANGED <<pages, held, flaws>>

(* By any thread: the arguments of an event are freed where it was handled.*)
Deallocate(t, a) ==
    /\ At(t, "idle") /\ a \in held
    /\ held' = held \ {a}
    /\ page' = IF a.start = 0 THEN page ELSE page \ Run(a.start, a.n)
    /\ UNCHANGED <<pages, job, flaws>>

Next ==
    \E t \in Threads :
        \/ \E n \in Lengths : Allocate(t, n)
        \/ GetPage(t) \/ ReadWord(t) \/ ReadMask(t) \/ Mark(t) \/ NewPage(t) \/ LinkPage(t)
        \/ \E a \in held : Deallocate(t, a)

Spec == Init /\ [][Next]_vars

-----------------------------------------------------------------------------
(* Properties                                                              *)

BlocksOf(a) == Run(a.start, a.n)

(* What an allocation returns is used by nobody else (the comment at the   *)
(* end of do_allocate).                                                    *)
AllocationsAreExclusive ==
    \A a, b \in held : a # b => BlocksOf(a) \cap BlocksOf(b) = {}

(* As long as no run crossed a word, and no word changed and changed back  *)
(* between its being read and being swapped, allocations are apart, their  *)
(* blocks are marked, and the blocks marked besides them are of an         *)
(* allocation at the start of the page.                                    *)
MarksFollowAllocations ==
    flaws = {} =>
        /\ AllocationsAreExclusive
        /\ \A a \in held : BlocksOf(a) \subseteq page
        /\ page # NoPage =>
             page \ UNION {BlocksOf(a) : a \in held}
                 \subseteq UNION {Run(0, n) : n \in Lengths}

=============================================================================
