---------------------------- MODULE SharedMemory ----------------------------
(***************************************************************************)
(* shared_memory_t (include/atma/shared_memory.hpp): blocks of memory that *)
(* carry the number of their owners.                                       *)
(*                                                                         *)
(* Copy assignment takes the other's block and neither counts itself nor   *)
(* gives up the block it had.  owed keeps, for each block, by how much its *)
(* count went wrong that way: what assignments took without counting less  *)
(* what they left without giving up.                                       *)
(*                                                                         *)
(* A count reaches zero in one atomic step, and nobody can find a block    *)
(* whose owners are gone, so each operation is one step.                   *)
(***************************************************************************)
EXTENDS Integers, FiniteSets

CONSTANTS
    Owners,     \* objects of type shared_memory_t
    Blocks,
    NoBlock,    \* the null pointer
    MaxOwed     \* bound: owners of a block that assignments left out of its count

VARIABLES
    data,       \* owner -> its block or NoBlock; Dead when it does not exist
    refs,       \* block -> its count, or 0 when it is not allocated
    owed,       \* block -> owners it does not know of less owners it lost
    broken      \* a block was released twice, or used after its release

vars == <<data, refs, owed, broken>>

Dead == "dead"

Init ==
    /\ data = [o \in Owners |-> Dead]
    /\ refs = [b \in Blocks |-> 0]
    /\ owed = [b \in Blocks |-> 0]
    /\ broken = FALSE

Allocate(o) ==
    /\ data[o] = Dead
    /\ \E b \in Blocks :
         /\ refs[b] = 0 /\ \A x \in Owners : data[x] # b
         /\ data' = [data EXCEPT ![o] = b]
         /\ refs' = [refs EXCEPT ![b] = 1]
         /\ owed' = [owed EXCEPT ![b] = 0]
    /\ UNCHANGED broken

DefaultConstruct(o) ==
    data[o] = Dead /\ data' = [data EXCEPT ![o] = NoBlock] /\ UNCHANGED <<refs, owed, broken>>

CopyUncounted(o, x) ==    \* mutant: the new owner is not counted
    /\ data[o] = Dead /\ data[x] # Dead
    /\ data' = [data EXCEPT ![o] = data[x]]
    /\ UNCHANGED <<refs, owed, broken>>

CopyConstruct(o, x) ==
    /\ data[o] = Dead /\ data[x] # Dead
    /\ data' = [data EXCEPT ![o] = data[x]]
    /\ IF data[x] = NoBlock THEN UNCHANGED <<refs, broken>>
       ELSE /\ refs' = [refs EXCEPT ![data[x]] = @ + 1]
            /\ broken' = (broken \/ refs[data[x]] = 0)
    /\ UNCHANGED owed

MoveConstruct(o, x) ==
    /\ data[o] = Dead /\ data[x] # Dead
    /\ data' = [data EXCEPT ![o] = data[x], ![x] = NoBlock]
    /\ UNCHANGED <<refs, owed, broken>>

MoveAssign(o, x) ==
    /\ data[o] # Dead /\ data[x] # Dead
    /\ data' = [data EXCEPT ![o] = data[x], ![x] = data[o]]
    /\ UNCHANGED <<refs, owed, broken>>

CopyAssign(o, x) ==
    /\ o # x /\ data[o] # Dead /\ data[x] # Dead
    /\ data' = [data EXCEPT ![o] = data[x]]
    /\ owed' = [b \in Blocks |->
                   owed[b] + (IF b = data[x] THEN 1 ELSE 0) - (IF b = data[o] THEN 1 ELSE 0)]
    /\ \A b \in Blocks : owed'[b] \in -MaxOwed .. MaxOwed
    /\ UNCHANGED <<refs, broken>>

Destroy(o) ==
    LET b == data[o]
    IN  /\ b # Dead
        /\ data' = [data EXCEPT ![o] = Dead]
        /\ IF b = NoBlock THEN UNCHANGED <<refs, broken>>
           ELSE /\ refs' = [refs EXCEPT ![b] = IF @ = 0 THEN 0 ELSE @ - 1]
                /\ broken' = (broken \/ refs[b] = 0)
        /\ UNCHANGED owed

Next ==
    /\ ~broken
    /\ \E o \in Owners :
         \/ Allocate(o) \/ DefaultConstruct(o) \/ Destroy(o)
         \/ \E x \in Owners :
              CopyConstruct(o, x) \/ MoveConstruct(o, x) \/ MoveAssign(o, x) \/ CopyAssign(o, x)

Spec == Init /\ [][Next]_vars

-----------------------------------------------------------------------------
OwnersOf(b) == {o \in Owners : data[o] = b}

(* A block's count is off its owners by exactly what copy assignments did  *)
(* to it; so a block that none of them took or left is released with its   *)
(* last owner, neither earlier nor later.                                  *)
CountsOwners ==
    /\ ~broken => \A b \in Blocks : refs[b] + owed[b] = Cardinality(OwnersOf(b))
    /\ broken => \E b \in Blocks : owed[b] > 0

=============================================================================
