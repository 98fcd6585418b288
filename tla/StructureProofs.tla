-------------------------- MODULE StructureProofs --------------------------
(***************************************************************************)
(* What is proved of the data structures that share nothing with each      *)
(* other.                                                                  *)
(***************************************************************************)
EXTENDS Structures, FiniteSetTheorems, TLAPS

-----------------------------------------------------------------------------
(* A behaviour is of one structure                                         *)

\* A behaviour stays with its structure, and takes that structure's steps.
LEMMA Steps ==
  ASSUME [Next]_vars
  PROVE  /\ kind' = kind
         /\ kind = "hash" => [Hash!Next]_hash
         /\ kind = "string" => [Strings!Next]_string
         /\ kind = "arena" => [Pages!Next]_arena
         /\ kind = "record" => [Log!Next]_record
         /\ kind = "function" => [Fns!Next]_function
         /\ kind = "shared" => [Shared!Next]_shared
         /\ kind = "watch" => [Watch!Next]_watch
<1>1. CASE UNCHANGED vars
  BY <1>1 DEF vars, hash, string, arena, record, function, shared, watch
<1>2. CASE Next
  BY <1>2 DEF Next
<1> QED
  BY <1>1, <1>2

\* And begins as it begins.
LEMMA Begins ==
  ASSUME Init
  PROVE  /\ kind = "hash" => Hash!Init
         /\ kind = "string" => Strings!Init
         /\ kind = "arena" => Pages!Init
         /\ kind = "record" => Log!Init
         /\ kind = "function" => Fns!Init
         /\ kind = "shared" => Shared!Init
         /\ kind = "watch" => Watch!Init
  BY DEF Init

-----------------------------------------------------------------------------
(* Shared memory                                                           *)

SharedTyping ==
  /\ data \in [Owners -> Blocks \cup {NoBlock, Shared!Dead}]
  /\ refs \in [Blocks -> Nat] /\ owed \in [Blocks -> Int]
  /\ broken \in BOOLEAN

\* CountsOwners of the structure, with the cardinality that facts are known of.
CountsAreOwners ==
  /\ ~broken => \A b \in Blocks : refs[b] + owed[b] = Cardinality(Shared!OwnersOf(b))
  /\ broken => \E b \in Blocks : owed[b] > 0

SharedInv == SharedTyping /\ CountsAreOwners

LEMMA CountsAgree == CountsAreOwners <=> Shared!CountsOwners
<1>1. \A S : Shared!Cardinality(S) = Cardinality(S)
  BY DEF Shared!Cardinality, Cardinality
<1> QED
  BY <1>1 DEF CountsAreOwners, Shared!CountsOwners

\* The owners of a block are as many as its count and what it is owed.
Owned(b) == refs[b] + owed[b] = Cardinality(Shared!OwnersOf(b))

\* One owner more, or one less.
LEMMA OwnerAdded ==
  ASSUME NEW b, NEW o \in Owners,
         Shared!OwnersOf(b)' = Shared!OwnersOf(b) \cup {o}, o \notin Shared!OwnersOf(b)
  PROVE  /\ Cardinality(Shared!OwnersOf(b)) \in Nat
         /\ Cardinality(Shared!OwnersOf(b))' = Cardinality(Shared!OwnersOf(b)) + 1
<1>1. IsFiniteSet(Shared!OwnersOf(b))
  BY FS_Subset, SharedAssumption DEF Shared!OwnersOf
<1> QED
  BY <1>1, FS_AddElement, FS_CardinalityType

LEMMA OwnerRemoved ==
  ASSUME NEW b, NEW o \in Owners,
         Shared!OwnersOf(b)' = Shared!OwnersOf(b) \ {o}, o \in Shared!OwnersOf(b)
  PROVE  /\ Cardinality(Shared!OwnersOf(b)) \in Nat /\ Cardinality(Shared!OwnersOf(b)) > 0
         /\ Cardinality(Shared!OwnersOf(b))' = Cardinality(Shared!OwnersOf(b)) - 1
<1>1. IsFiniteSet(Shared!OwnersOf(b))
  BY FS_Subset, SharedAssumption DEF Shared!OwnersOf
<1>2. Cardinality(Shared!OwnersOf(b)) \in Nat /\ Cardinality(Shared!OwnersOf(b)) # 0
  BY <1>1, FS_CardinalityType, FS_EmptySet
<1> QED
  BY <1>1, <1>2, FS_RemoveElement

\* One owner in the place of another.
LEMMA OwnerReplaced ==
  ASSUME NEW b, NEW o \in Owners, NEW x \in Owners,
         Shared!OwnersOf(b)' = (Shared!OwnersOf(b) \ {x}) \cup {o}, x \in Shared!OwnersOf(b), o \notin Shared!OwnersOf(b)
  PROVE  Cardinality(Shared!OwnersOf(b))' = Cardinality(Shared!OwnersOf(b))
<1>1. IsFiniteSet(Shared!OwnersOf(b))
  BY FS_Subset, SharedAssumption DEF Shared!OwnersOf
<1>2. /\ IsFiniteSet(Shared!OwnersOf(b) \ {x})
      /\ Cardinality(Shared!OwnersOf(b) \ {x}) = Cardinality(Shared!OwnersOf(b)) - 1
  BY <1>1, FS_RemoveElement
<1>3. Cardinality((Shared!OwnersOf(b) \ {x}) \cup {o}) = Cardinality(Shared!OwnersOf(b) \ {x}) + 1
  BY <1>2, FS_AddElement
<1> QED
  BY <1>1, <1>2, <1>3, FS_CardinalityType

-----------------------------------------------------------------------------
LEMMA AllocateStep ==
  ASSUME SharedInv, ~broken, NEW o \in Owners, Shared!Allocate(o)
  PROVE  SharedInv'
<1>1. PICK b \in Blocks :
        /\ refs[b] = 0 /\ \A x \in Owners : data[x] # b
        /\ data' = [data EXCEPT ![o] = b]
        /\ refs' = [refs EXCEPT ![b] = 1] /\ owed' = [owed EXCEPT ![b] = 0]
  BY DEF Shared!Allocate
<1>2. data[o] = Shared!Dead /\ broken' = broken
  BY DEF Shared!Allocate
<1>3. SharedTyping'
  BY <1>1, <1>2 DEF SharedInv, SharedTyping
<1>4. Owned(b)'
  <2>1. Shared!OwnersOf(b)' = {o}
    BY <1>1 DEF Shared!OwnersOf, SharedInv, SharedTyping
  <2>2. Cardinality(Shared!OwnersOf(b))' = 1
    BY <2>1, FS_Singleton
  <2>3. refs'[b] = 1 /\ owed'[b] = 0
    BY <1>1 DEF SharedInv, SharedTyping
  <2> QED
    BY <2>2, <2>3 DEF Owned
<1>5. ASSUME NEW c \in Blocks \ {b} PROVE Owned(c)'
  <2>1. Shared!OwnersOf(c)' = Shared!OwnersOf(c)
    BY <1>1, <1>2, SharedAssumption DEF Shared!OwnersOf, SharedInv, SharedTyping
  <2> QED
    BY <1>1, <2>1 DEF Owned, SharedInv, SharedTyping, CountsAreOwners
<1> QED
  BY <1>2, <1>3, <1>4, <1>5 DEF SharedInv, CountsAreOwners, Owned

LEMMA ConstructStep ==
  ASSUME SharedInv, ~broken, NEW o \in Owners, Shared!DefaultConstruct(o)
  PROVE  SharedInv'
<1>1. /\ data[o] = Shared!Dead /\ data' = [data EXCEPT ![o] = NoBlock]
      /\ UNCHANGED <<refs, owed, broken>>
  BY DEF Shared!DefaultConstruct
<1>2. \A b \in Blocks : Shared!OwnersOf(b)' = Shared!OwnersOf(b)
  BY <1>1, SharedAssumption DEF Shared!OwnersOf, SharedInv, SharedTyping
<1> QED
  BY <1>1, <1>2 DEF SharedInv, SharedTyping, CountsAreOwners

\* A copy of a block that has owners but no count is one that is owed some.
LEMMA CopyConstructStep ==
  ASSUME SharedInv, ~broken, NEW o \in Owners, NEW x \in Owners,
         Shared!CopyConstruct(o, x)
  PROVE  SharedInv'
<1>1. /\ data[o] = Shared!Dead /\ data[x] # Shared!Dead /\ owed' = owed
      /\ data' = [data EXCEPT ![o] = data[x]]
  BY DEF Shared!CopyConstruct
<1>2. CASE data[x] = NoBlock
  <2>1. \A b \in Blocks : Shared!OwnersOf(b)' = Shared!OwnersOf(b)
    BY <1>1, <1>2, SharedAssumption DEF Shared!OwnersOf, SharedInv, SharedTyping
  <2> QED
    BY <1>1, <1>2, <2>1 DEF Shared!CopyConstruct, SharedInv, SharedTyping, CountsAreOwners
<1>3. CASE data[x] # NoBlock
  <2>1. PICK b \in Blocks : data[x] = b
    BY <1>1, <1>3 DEF SharedInv, SharedTyping
  <2>2. /\ refs' = [refs EXCEPT ![b] = @ + 1]
        /\ broken' = (broken \/ refs[b] = 0)
    BY <1>3, <2>1 DEF Shared!CopyConstruct
  <2>3. SharedTyping'
    BY <1>1, <2>1, <2>2 DEF SharedInv, SharedTyping
  <2>4. /\ Shared!OwnersOf(b)' = Shared!OwnersOf(b) \cup {o}
        /\ o \notin Shared!OwnersOf(b) /\ x \in Shared!OwnersOf(b)
        /\ \A c \in Blocks \ {b} : Shared!OwnersOf(c)' = Shared!OwnersOf(c)
    BY <1>1, <2>1, SharedAssumption DEF Shared!OwnersOf, SharedInv, SharedTyping
  <2>5. /\ Cardinality(Shared!OwnersOf(b)) \in Nat
        /\ Cardinality(Shared!OwnersOf(b))' = Cardinality(Shared!OwnersOf(b)) + 1
    BY <2>4, OwnerAdded
  <2>6. Cardinality(Shared!OwnersOf(b)) # 0
    <3>1. IsFiniteSet(Shared!OwnersOf(b))
      BY FS_Subset, SharedAssumption DEF Shared!OwnersOf
    <3> QED
      BY <2>4, <3>1, FS_EmptySet
  <2>7. ASSUME NEW c \in Blocks PROVE Owned(c)'
    <3>0. refs[c] \in Nat /\ owed[c] \in Int /\ Owned(c)
      BY DEF SharedInv, SharedTyping, CountsAreOwners, Owned
    <3>1. CASE c = b
      <4>1. refs'[c] = refs[c] + 1 /\ owed'[c] = owed[c]
        BY <1>1, <2>2, <3>1 DEF SharedInv, SharedTyping
      <4> QED
        BY <2>5, <3>0, <3>1, <4>1 DEF Owned
    <3>2. CASE c # b
      <4>1. refs'[c] = refs[c] /\ owed'[c] = owed[c] /\ Shared!OwnersOf(c)' = Shared!OwnersOf(c)
        BY <1>1, <2>2, <2>4, <3>2 DEF SharedInv, SharedTyping
      <4> QED
        BY <3>0, <4>1 DEF Owned
    <3> QED
      BY <3>1, <3>2
  <2>8. refs[b] = 0 => owed'[b] > 0
    BY <1>1, <2>5, <2>6 DEF SharedInv, SharedTyping, CountsAreOwners
  <2> QED
    BY <2>2, <2>3, <2>7, <2>8 DEF SharedInv, CountsAreOwners, Owned
<1> QED
  BY <1>2, <1>3

LEMMA MoveConstructStep ==
  ASSUME SharedInv, ~broken, NEW o \in Owners, NEW x \in Owners,
         Shared!MoveConstruct(o, x)
  PROVE  SharedInv'
<1>1. /\ data[o] = Shared!Dead /\ data[x] # Shared!Dead /\ UNCHANGED <<refs, owed, broken>>
      /\ data' = [data EXCEPT ![o] = data[x], ![x] = NoBlock]
  BY DEF Shared!MoveConstruct
<1>2. ASSUME NEW b \in Blocks PROVE Cardinality(Shared!OwnersOf(b))' = Cardinality(Shared!OwnersOf(b))
  <2>1. CASE data[x] = b
    <3>1. /\ Shared!OwnersOf(b)' = (Shared!OwnersOf(b) \ {x}) \cup {o}
          /\ x \in Shared!OwnersOf(b) /\ o \notin Shared!OwnersOf(b)
      BY <1>1, <2>1, SharedAssumption DEF Shared!OwnersOf, SharedInv, SharedTyping
    <3> QED
      BY <3>1, OwnerReplaced
  <2>2. CASE data[x] # b
    <3>1. Shared!OwnersOf(b)' = Shared!OwnersOf(b)
      BY <1>1, <2>2, SharedAssumption DEF Shared!OwnersOf, SharedInv, SharedTyping
    <3> QED
      BY <3>1
  <2> QED
    BY <2>1, <2>2
<1>3. SharedTyping'
  BY <1>1 DEF SharedInv, SharedTyping
<1> QED
  BY <1>1, <1>2, <1>3 DEF SharedInv, CountsAreOwners

LEMMA MoveAssignStep ==
  ASSUME SharedInv, ~broken, NEW o \in Owners, NEW x \in Owners,
         Shared!MoveAssign(o, x)
  PROVE  SharedInv'
<1>1. /\ UNCHANGED <<refs, owed, broken>>
      /\ data' = [data EXCEPT ![o] = data[x], ![x] = data[o]]
  BY DEF Shared!MoveAssign
<1>2. ASSUME NEW b \in Blocks PROVE Cardinality(Shared!OwnersOf(b))' = Cardinality(Shared!OwnersOf(b))
  <2>1. CASE data[x] = b /\ data[o] # b
    <3>1. /\ Shared!OwnersOf(b)' = (Shared!OwnersOf(b) \ {x}) \cup {o}
          /\ x \in Shared!OwnersOf(b) /\ o \notin Shared!OwnersOf(b)
      BY <1>1, <2>1 DEF Shared!OwnersOf, SharedInv, SharedTyping
    <3> QED
      BY <3>1, OwnerReplaced
  <2>2. CASE data[o] = b /\ data[x] # b
    <3>1. /\ Shared!OwnersOf(b)' = (Shared!OwnersOf(b) \ {o}) \cup {x}
          /\ o \in Shared!OwnersOf(b) /\ x \notin Shared!OwnersOf(b)
      BY <1>1, <2>2 DEF Shared!OwnersOf, SharedInv, SharedTyping
    <3> QED
      BY <3>1, OwnerReplaced
  <2>3. CASE data[o] = b <=> data[x] = b
    <3>1. Shared!OwnersOf(b)' = Shared!OwnersOf(b)
      BY <1>1, <2>3 DEF Shared!OwnersOf, SharedInv, SharedTyping
    <3> QED
      BY <3>1
  <2> QED
    BY <2>1, <2>2, <2>3
<1>3. SharedTyping'
  BY <1>1 DEF SharedInv, SharedTyping
<1> QED
  BY <1>1, <1>2, <1>3 DEF SharedInv, CountsAreOwners

\* Copy assignment moves an owner and leaves the counts: what a block is owed
\* makes up for it.
LEMMA CopyAssignStep ==
  ASSUME SharedInv, ~broken, NEW o \in Owners, NEW x \in Owners,
         Shared!CopyAssign(o, x)
  PROVE  SharedInv'
<1>1. /\ UNCHANGED <<refs, broken>> /\ o # x
      /\ data' = [data EXCEPT ![o] = data[x]]
      /\ owed' = [b \in Blocks |->
                     owed[b] + (IF b = data[x] THEN 1 ELSE 0) - (IF b = data[o] THEN 1 ELSE 0)]
  BY DEF Shared!CopyAssign
<1>2. SharedTyping'
  BY <1>1 DEF SharedInv, SharedTyping
<1>3. ASSUME NEW b \in Blocks PROVE Owned(b)'
  <2>0. /\ owed[b] \in Int /\ refs[b] \in Nat /\ Owned(b) /\ refs' = refs
        /\ owed'[b] = owed[b] + (IF b = data[x] THEN 1 ELSE 0) - (IF b = data[o] THEN 1 ELSE 0)
    BY <1>1 DEF SharedInv, SharedTyping, CountsAreOwners, Owned
  <2>1. CASE data[x] = b /\ data[o] # b
    <3>1. Shared!OwnersOf(b)' = Shared!OwnersOf(b) \cup {o} /\ o \notin Shared!OwnersOf(b)
      BY <1>1, <2>1 DEF Shared!OwnersOf, SharedInv, SharedTyping
    <3>2. /\ Cardinality(Shared!OwnersOf(b)) \in Nat
          /\ Cardinality(Shared!OwnersOf(b))' = Cardinality(Shared!OwnersOf(b)) + 1
      BY <3>1, OwnerAdded
    <3>3. owed'[b] = owed[b] + 1 /\ refs'[b] = refs[b]
      BY <2>0, <2>1
    <3> QED
      BY <2>0, <3>2, <3>3 DEF Owned
  <2>2. CASE data[o] = b /\ data[x] # b
    <3>1. Shared!OwnersOf(b)' = Shared!OwnersOf(b) \ {o} /\ o \in Shared!OwnersOf(b)
      BY <1>1, <2>2 DEF Shared!OwnersOf, SharedInv, SharedTyping
    <3>2. /\ Cardinality(Shared!OwnersOf(b)) \in Nat
          /\ Cardinality(Shared!OwnersOf(b))' = Cardinality(Shared!OwnersOf(b)) - 1
      BY <3>1, OwnerRemoved
    <3>3. owed'[b] = owed[b] - 1 /\ refs'[b] = refs[b]
      BY <2>0, <2>2
    <3> QED
      BY <2>0, <3>2, <3>3 DEF Owned
  <2>3. CASE data[o] = b <=> data[x] = b
    <3>1. Shared!OwnersOf(b)' = Shared!OwnersOf(b)
      BY <1>1, <2>3 DEF Shared!OwnersOf, SharedInv, SharedTyping
    <3>2. owed'[b] = owed[b]
      BY <2>0, <2>3
    <3> QED
      BY <2>0, <3>1, <3>2 DEF Owned
  <2> QED
    BY <2>1, <2>2, <2>3
<1> QED
  BY <1>1, <1>2, <1>3 DEF SharedInv, CountsAreOwners, Owned

LEMMA DestroyStep ==
  ASSUME SharedInv, ~broken, NEW o \in Owners, Shared!Destroy(o)
  PROVE  SharedInv'
<1>1. data[o] # Shared!Dead /\ data' = [data EXCEPT ![o] = Shared!Dead] /\ owed' = owed
  BY DEF Shared!Destroy
<1>2. CASE data[o] = NoBlock
  <2>1. \A b \in Blocks : Shared!OwnersOf(b)' = Shared!OwnersOf(b)
    BY <1>1, <1>2, SharedAssumption DEF Shared!OwnersOf, SharedInv, SharedTyping
  <2> QED
    BY <1>1, <1>2, <2>1 DEF Shared!Destroy, SharedInv, SharedTyping, CountsAreOwners
<1>3. CASE data[o] # NoBlock
  <2>1. PICK b \in Blocks : data[o] = b
    BY <1>1, <1>3 DEF SharedInv, SharedTyping
  <2>2. /\ refs' = [refs EXCEPT ![b] = IF @ = 0 THEN 0 ELSE @ - 1]
        /\ broken' = (broken \/ refs[b] = 0)
    BY <1>3, <2>1 DEF Shared!Destroy
  <2>3. SharedTyping'
    BY <1>1, <2>1, <2>2 DEF SharedInv, SharedTyping
  <2>4. /\ Shared!OwnersOf(b)' = Shared!OwnersOf(b) \ {o} /\ o \in Shared!OwnersOf(b)
        /\ \A c \in Blocks \ {b} : Shared!OwnersOf(c)' = Shared!OwnersOf(c)
    BY <1>1, <2>1, SharedAssumption DEF Shared!OwnersOf, SharedInv, SharedTyping
  <2>5. /\ Cardinality(Shared!OwnersOf(b)) \in Nat /\ Cardinality(Shared!OwnersOf(b)) > 0
        /\ Cardinality(Shared!OwnersOf(b))' = Cardinality(Shared!OwnersOf(b)) - 1
    BY <2>4, OwnerRemoved
  <2>6. ASSUME refs[b] # 0, NEW c \in Blocks PROVE Owned(c)'
    <3>0. refs[c] \in Nat /\ owed[c] \in Int /\ Owned(c)
      BY DEF SharedInv, SharedTyping, CountsAreOwners, Owned
    <3>1. CASE c = b
      <4>1. refs'[c] = refs[c] - 1 /\ owed'[c] = owed[c]
        BY <1>1, <2>2, <2>6, <3>1 DEF SharedInv, SharedTyping
      <4> QED
        BY <2>5, <3>0, <3>1, <4>1 DEF Owned
    <3>2. CASE c # b
      <4>1. refs'[c] = refs[c] /\ owed'[c] = owed[c] /\ Shared!OwnersOf(c)' = Shared!OwnersOf(c)
        BY <1>1, <2>2, <2>4, <3>2 DEF SharedInv, SharedTyping
      <4> QED
        BY <3>0, <4>1 DEF Owned
    <3> QED
      BY <3>1, <3>2
  <2>7. refs[b] = 0 => owed'[b] > 0
    BY <1>1, <2>5 DEF SharedInv, SharedTyping, CountsAreOwners
  <2> QED
    BY <2>2, <2>3, <2>6, <2>7 DEF SharedInv, CountsAreOwners, Owned
<1> QED
  BY <1>2, <1>3

LEMMA SharedBegins ==
  ASSUME Shared!Init
  PROVE  SharedInv
<1>1. \A b \in Blocks : Shared!OwnersOf(b) = {}
  BY SharedAssumption DEF Shared!Init, Shared!OwnersOf
<1>2. Cardinality({}) = 0
  BY FS_EmptySet
<1>3. CountsAreOwners
  <2>1. \A b \in Blocks : refs[b] + owed[b] = Cardinality(Shared!OwnersOf(b))
    BY <1>1, <1>2 DEF Shared!Init
  <2>2. broken = FALSE
    BY DEF Shared!Init
  <2> QED
    BY <2>1, <2>2 DEF CountsAreOwners
<1>4. SharedTyping
  <2>1. data \in [Owners -> Blocks \cup {NoBlock, Shared!Dead}]
    BY DEF Shared!Init
  <2>2. refs \in [Blocks -> Nat] /\ owed \in [Blocks -> Int]
    BY DEF Shared!Init
  <2>3. broken \in BOOLEAN
    BY DEF Shared!Init
  <2> QED
    BY <2>1, <2>2, <2>3 DEF SharedTyping
<1> QED
  BY <1>3, <1>4 DEF SharedInv

LEMMA SharedSteps ==
  ASSUME SharedInv, [Shared!Next]_shared
  PROVE  SharedInv'
<1>1. CASE Shared!Next
  <2>1. PICK o \in Owners :
          \/ Shared!Allocate(o) \/ Shared!DefaultConstruct(o) \/ Shared!Destroy(o)
          \/ \E x \in Owners :
               \/ Shared!CopyConstruct(o, x) \/ Shared!MoveConstruct(o, x)
               \/ Shared!MoveAssign(o, x) \/ Shared!CopyAssign(o, x)
    BY <1>1 DEF Shared!Next
  <2>2. ~broken
    BY <1>1 DEF Shared!Next
  <2> QED
    BY <2>1, <2>2, AllocateStep, ConstructStep, CopyConstructStep, MoveConstructStep,
       MoveAssignStep, CopyAssignStep, DestroyStep
<1>2. CASE UNCHANGED shared
  BY <1>2 DEF shared, SharedInv, SharedTyping, CountsAreOwners, Shared!OwnersOf
<1> QED
  BY <1>1, <1>2

\* A block's count is its owners less what copy assignments took without
\* counting, so it is released with its last owner if none did, and only a block
\* that is owed some is ever released too early (shared_memory.hpp: increment,
\* decrement, and the copy assignment that calls neither).
THEOREM Counts == Spec => []CountsOwners
<1> DEFINE IInv == kind = "shared" => SharedInv
<1>1. Init => IInv
  BY Begins, SharedBegins
<1>2. IInv /\ [Next]_vars => IInv'
  BY Steps, SharedSteps
<1>3. IInv => CountsOwners
  BY CountsAgree DEF SharedInv, CountsOwners
<1> QED
  BY <1>1, <1>2, <1>3, PTL DEF Spec

-----------------------------------------------------------------------------
(* The arena                                                               *)

PageBlocks == 0 .. BlockCount - 1

\* Where a thread looks for blocks there is a page, and a run it has read or
\* will mark is inside the page.
Searching == {"read_word", "read_mask", "mark"}
JobsAreInPage ==
  /\ DOMAIN job = Threads
  /\ \A t \in Threads : job[t].at # "idle" => job[t].n \in Lengths
  /\ \A t \in Threads : job[t].at \in Searching =>
       page \subseteq PageBlocks /\ job[t].bit \in Nat
  /\ \A t \in Threads : job[t].at \in {"read_mask", "mark"} =>
       job[t].bit + job[t].n <= BlockCount

HeldAreInPage ==
  /\ page = Pages!NoPage \/ page \subseteq PageBlocks
  /\ page = Pages!NoPage => held = {}
  /\ \A a \in held : a.start \in Nat /\ a.n \in Lengths /\ a.start + a.n <= BlockCount

ArenaInv == JobsAreInPage /\ HeldAreInPage /\ Pages!MarksFollowAllocations

\* A step of the search, that touches neither the page nor what is held.
LEMMA SearchStep ==
  ASSUME HeldAreInPage, Pages!MarksFollowAllocations, UNCHANGED <<page, held, flaws>>
  PROVE  HeldAreInPage' /\ Pages!MarksFollowAllocations'
  BY DEF HeldAreInPage, Pages!MarksFollowAllocations, Pages!AllocationsAreExclusive

\* Marking a run: if the word is as it was read, the run inside it, and free in
\* what was read, then the run was free in the page and nobody has its blocks.
LEMMA MarkStep ==
  ASSUME ArenaInv, NEW t \in Threads, Pages!Mark(t)
  PROVE  HeldAreInPage' /\ Pages!MarksFollowAllocations'
<1> DEFINE j == job[t]
           run == Pages!Run(j.bit, j.n)
           word == Pages!Word(j.bit)
           new == [start |-> j.bit, n |-> j.n]
<1>1. /\ j.at = "mark" /\ j.n \in Lengths /\ j.bit \in Nat /\ j.bit + j.n <= BlockCount
      /\ page \subseteq PageBlocks
  BY DEF Pages!Mark, Pages!At, ArenaInv, JobsAreInPage, Searching
<1>2. CASE page \cap word # j.word
  BY <1>2, SearchStep DEF Pages!Mark, ArenaInv
<1>3. CASE page \cap word = j.word
  <2>1. /\ page' = page \cup (run \cap word)
        /\ held' = held \cup {new}
        /\ flaws' = {} => flaws = {} /\ run \subseteq word /\ run \cap j.word = {}
    BY <1>3 DEF Pages!Mark
  <2>2. word \subseteq PageBlocks
    BY DEF Pages!Word, PageBlocks
  <2>3. Pages!NoPage \cap PageBlocks = {} /\ Pages!NoPage # {}
    BY ArenaAssumption DEF Pages!NoPage, PageBlocks
  <2>4. new.start = j.bit /\ new.n = j.n /\ Pages!BlocksOf(new) = run
    BY DEF Pages!BlocksOf
  <2>5. HeldAreInPage'
    <3>1. page' \subseteq PageBlocks /\ page' # Pages!NoPage
      BY <1>1, <2>1, <2>2, <2>3
    <3>2. \A a \in held' : a.start \in Nat /\ a.n \in Lengths /\ a.start + a.n <= BlockCount
      BY <1>1, <2>1, <2>4 DEF ArenaInv, HeldAreInPage
    <3> QED
      BY <3>1, <3>2 DEF HeldAreInPage, Pages!NoPage, PageBlocks
  <2>6. ASSUME flaws' = {} PROVE /\ Pages!AllocationsAreExclusive'
                                 /\ \A a \in held' : Pages!BlocksOf(a) \subseteq page'
                                 /\ page' \ UNION {Pages!BlocksOf(a) : a \in held'}
                                      \subseteq UNION {Pages!Run(0, n) : n \in Lengths}
    <3>1. run \subseteq word /\ run \cap page = {}
      BY <1>3, <2>1, <2>6
    <3>2. /\ Pages!AllocationsAreExclusive /\ \A a \in held : Pages!BlocksOf(a) \subseteq page
          /\ page \ UNION {Pages!BlocksOf(a) : a \in held}
               \subseteq UNION {Pages!Run(0, n) : n \in Lengths}
      BY <1>1, <2>1, <2>3, <2>6 DEF ArenaInv, Pages!MarksFollowAllocations
    <3>3. \A a \in held' : Pages!BlocksOf(a) \subseteq page'
      BY <2>1, <2>4, <3>1, <3>2
    <3>4. Pages!AllocationsAreExclusive'
      <4> SUFFICES ASSUME NEW a \in held', NEW b \in held', a # b
                   PROVE  Pages!BlocksOf(a) \cap Pages!BlocksOf(b) = {}
        BY DEF Pages!AllocationsAreExclusive, Pages!BlocksOf, Pages!Run
      <4>1. CASE a \in held /\ b \in held
        BY <4>1, <3>2 DEF Pages!AllocationsAreExclusive
      <4>2. CASE a = new
        BY <4>2, <2>1, <2>4, <3>1, <3>2
      <4>3. CASE b = new
        BY <4>3, <2>1, <2>4, <3>1, <3>2
      <4> QED
        BY <2>1, <4>1, <4>2, <4>3
    <3>5. page' \ UNION {Pages!BlocksOf(a) : a \in held'}
            \subseteq page \ UNION {Pages!BlocksOf(a) : a \in held}
      <4>1. \A b \in page' : b \in page \/ b \in Pages!BlocksOf(new)
        BY <2>1, <2>4
      <4>2. held \subseteq held' /\ new \in held'
        BY <2>1
      <4> QED
        BY <4>1, <4>2
    <3> QED
      BY <3>2, <3>3, <3>4, <3>5
  <2> QED
    BY <2>5, <2>6 DEF Pages!MarksFollowAllocations
<1> QED
  BY <1>2, <1>3

\* Making the page: nothing is held yet.
LEMMA LinkStep ==
  ASSUME ArenaInv, NEW t \in Threads, Pages!LinkPage(t)
  PROVE  HeldAreInPage' /\ Pages!MarksFollowAllocations'
<1>1. CASE page # Pages!NoPage
  BY <1>1, SearchStep DEF Pages!LinkPage, ArenaInv
<1>2. CASE page = Pages!NoPage
  <2>1. page' = {} /\ held = {} /\ held' = {}
    BY <1>2 DEF Pages!LinkPage, ArenaInv, HeldAreInPage
  <2> QED
    BY <2>1 DEF HeldAreInPage, Pages!MarksFollowAllocations, Pages!AllocationsAreExclusive,
                Pages!NoPage
<1> QED
  BY <1>1, <1>2

\* Releasing a run clears its blocks, which nobody else has; one at the start
\* of the page stays marked.
LEMMA DeallocateStep ==
  ASSUME ArenaInv, NEW t \in Threads, NEW a \in held, Pages!Deallocate(t, a)
  PROVE  HeldAreInPage' /\ Pages!MarksFollowAllocations'
<1>1. /\ held' = held \ {a} /\ flaws' = flaws /\ page # Pages!NoPage /\ page \subseteq PageBlocks
      /\ page' = IF a.start = 0 THEN page ELSE page \ Pages!BlocksOf(a)
  BY DEF Pages!Deallocate, ArenaInv, HeldAreInPage, Pages!BlocksOf
<1>2. page' \subseteq PageBlocks
  BY <1>1
<1>3. page' # Pages!NoPage
  BY <1>2, ArenaAssumption DEF Pages!NoPage, PageBlocks
<1>4. ASSUME flaws = {} PROVE /\ Pages!AllocationsAreExclusive'
                              /\ \A b \in held' : Pages!BlocksOf(b) \subseteq page'
                              /\ page' \ UNION {Pages!BlocksOf(b) : b \in held'}
                                   \subseteq UNION {Pages!Run(0, n) : n \in Lengths}
  <2>1. /\ Pages!AllocationsAreExclusive /\ \A b \in held : Pages!BlocksOf(b) \subseteq page
        /\ page \ UNION {Pages!BlocksOf(b) : b \in held}
             \subseteq UNION {Pages!Run(0, n) : n \in Lengths}
    BY <1>1, <1>4 DEF ArenaInv, Pages!MarksFollowAllocations
  <2>2. Pages!AllocationsAreExclusive'
    BY <1>1, <2>1 DEF Pages!AllocationsAreExclusive, Pages!BlocksOf, Pages!Run
  <2>3. \A b \in held' : Pages!BlocksOf(b) \subseteq page'
    BY <1>1, <2>1 DEF Pages!AllocationsAreExclusive
  <2>4. ASSUME NEW x \in page', x \notin UNION {Pages!BlocksOf(b) : b \in held'}
        PROVE  x \in UNION {Pages!Run(0, n) : n \in Lengths}
    <3>1. CASE x \notin Pages!BlocksOf(a)
      <4>1. x \in page /\ \A b \in held : x \notin Pages!BlocksOf(b)
        BY <1>1, <2>4, <3>1
      <4> QED
        BY <4>1, <2>1
    <3>2. CASE x \in Pages!BlocksOf(a)
      <4>1. a.start = 0
        BY <1>1, <2>4, <3>2
      <4> QED
        BY <4>1, <3>2 DEF Pages!BlocksOf, ArenaInv, HeldAreInPage
    <3> QED
      BY <3>1, <3>2
  <2> QED
    BY <2>2, <2>3, <2>4
<1>5. HeldAreInPage'
  BY <1>1, <1>2, <1>3 DEF HeldAreInPage, ArenaInv, Pages!NoPage, PageBlocks
<1> QED
  BY <1>1, <1>4, <1>5 DEF Pages!MarksFollowAllocations

\* Jobs go through their places with a page to search and a run inside it.
LEMMA JobsStep ==
  ASSUME ArenaInv, Pages!Next
  PROVE  JobsAreInPage'
<1> USE DEF Pages!At, Pages!Become
<1>0. PICK t \in Threads : \/ \E n \in Lengths : Pages!Allocate(t, n)
                        \/ Pages!GetPage(t) \/ Pages!ReadWord(t) \/ Pages!ReadMask(t)
                        \/ Pages!Mark(t) \/ Pages!NewPage(t) \/ Pages!LinkPage(t)
                        \/ \E a \in held : Pages!Deallocate(t, a)
  BY DEF Pages!Next
<1> DEFINE j == job'[t]
<1>1. /\ DOMAIN job = Threads
      /\ job[t].at # "idle" => job[t].n \in Lengths
      /\ job[t].at \in Searching => page \subseteq PageBlocks /\ job[t].bit \in Nat
      /\ job[t].at \in {"read_mask", "mark"} => job[t].bit + job[t].n <= BlockCount
  BY DEF ArenaInv, JobsAreInPage
<1>2. /\ DOMAIN job' = Threads
      /\ \A u \in Threads \ {t} : job'[u] = job[u]
  BY <1>0, <1>1 DEF Pages!Allocate, Pages!GetPage, Pages!ReadWord, Pages!ReadMask, Pages!Mark,
                    Pages!NewPage, Pages!LinkPage, Pages!Deallocate, Pages!Again
<1>3. page \subseteq PageBlocks => page' \subseteq PageBlocks
  <2>1. CASE Pages!Mark(t)
    BY <2>1 DEF Pages!Mark, Pages!Word, PageBlocks
  <2>2. CASE Pages!LinkPage(t)
    BY <2>2 DEF Pages!LinkPage
  <2>3. CASE \E a \in held : Pages!Deallocate(t, a)
    BY <2>3 DEF Pages!Deallocate
  <2> QED
    BY <1>0, <2>1, <2>2, <2>3 DEF Pages!Allocate, Pages!GetPage, Pages!ReadWord,
                                  Pages!ReadMask, Pages!NewPage
<1>4. /\ j.at # "idle" => j.n \in Lengths
      /\ j.at \in Searching => page' \subseteq PageBlocks /\ j.bit \in Nat
      /\ j.at \in {"read_mask", "mark"} => j.bit + j.n <= BlockCount
  <2>1. CASE \E n \in Lengths : Pages!Allocate(t, n)
    BY <1>1, <2>1 DEF Pages!Allocate, Searching
  <2>2. CASE Pages!GetPage(t)
    <3>1. page # Pages!NoPage => page \subseteq PageBlocks
      BY DEF ArenaInv, HeldAreInPage
    <3>2. /\ job[t].at = "get_page" /\ page' = page
          /\ \/ j = Pages!Idle
             \/ /\ j.n = job[t].n /\ j.bit = 0
                /\ j.at = IF page = Pages!NoPage THEN "new_page" ELSE "read_word"
      BY <1>1, <2>2 DEF Pages!GetPage
    <3> QED
      BY <1>1, <3>1, <3>2 DEF Pages!Idle, Searching
  <2>3. CASE Pages!ReadWord(t)
    <3>1. job[t].at = "read_word" /\ page' = page
      BY <2>3 DEF Pages!ReadWord
    <3>2. CASE job[t].bit + job[t].n > BlockCount
      <4>1. j = [job[t] EXCEPT !.at = "new_page"]
        BY <1>1, <2>3, <3>2 DEF Pages!ReadWord
      <4> QED
        BY <1>1, <3>1, <4>1 DEF Searching
    <3>3. CASE ~(job[t].bit + job[t].n > BlockCount)
      <4>1. j.at = "read_mask" /\ j.n = job[t].n /\ j.bit = job[t].bit
        BY <1>1, <2>3, <3>3 DEF Pages!ReadWord
      <4>2. job[t].n \in Nat /\ job[t].bit \in Nat
        BY <1>1, <3>1, ArenaAssumption DEF Searching
      <4> QED
        BY <1>1, <3>1, <3>3, <4>1, <4>2, ArenaAssumption DEF Searching
    <3> QED
      BY <3>2, <3>3
  <2>4. CASE Pages!ReadMask(t)
    <3>1. job[t].at = "read_mask" /\ page' = page
      BY <2>4 DEF Pages!ReadMask
    <3>2. CASE Pages!Run(job[t].bit, job[t].n) \cap page = {}
      <4>1. j = [job[t] EXCEPT !.at = "mark"]
        BY <1>1, <2>4, <3>2 DEF Pages!ReadMask
      <4> QED
        BY <1>1, <3>1, <4>1 DEF Searching
    <3>3. CASE Pages!Run(job[t].bit, job[t].n) \cap page # {}
      <4>1. j.at = "read_word" /\ j.n = job[t].n /\ j.bit = job[t].bit + 1
        BY <1>1, <2>4, <3>3 DEF Pages!ReadMask
      <4> QED
        BY <1>1, <3>1, <4>1 DEF Searching
    <3> QED
      BY <3>2, <3>3
  <2>5. CASE Pages!Mark(t)
    BY <1>1, <2>5 DEF Pages!Mark, Pages!Again, Pages!Idle, Searching
  <2>6. CASE Pages!NewPage(t)
    BY <1>1, <2>6 DEF Pages!NewPage, Pages!Again, Searching
  <2>7. CASE Pages!LinkPage(t)
    BY <1>1, <2>7 DEF Pages!LinkPage, Pages!Again, Searching
  <2>8. CASE \E a \in held : Pages!Deallocate(t, a)
    BY <1>1, <2>8 DEF Pages!Deallocate, Searching
  <2> QED
    BY <1>0, <2>1, <2>2, <2>3, <2>4, <2>5, <2>6, <2>7, <2>8
<1> QED
  BY <1>2, <1>3, <1>4 DEF ArenaInv, JobsAreInPage

LEMMA ArenaSteps ==
  ASSUME ArenaInv, [Pages!Next]_arena
  PROVE  ArenaInv'
<1>1. CASE Pages!Next
  <2>1. JobsAreInPage'
    BY <1>1, JobsStep
  <2>2. PICK t \in Threads : \/ \E n \in Lengths : Pages!Allocate(t, n)
                          \/ Pages!GetPage(t) \/ Pages!ReadWord(t) \/ Pages!ReadMask(t)
                          \/ Pages!Mark(t) \/ Pages!NewPage(t) \/ Pages!LinkPage(t)
                          \/ \E a \in held : Pages!Deallocate(t, a)
    BY <1>1 DEF Pages!Next
  <2>3. CASE \/ \E n \in Lengths : Pages!Allocate(t, n)
             \/ Pages!GetPage(t) \/ Pages!ReadWord(t) \/ Pages!ReadMask(t) \/ Pages!NewPage(t)
    <3>1. UNCHANGED <<page, held, flaws>>
      BY <2>3 DEF Pages!Allocate, Pages!GetPage, Pages!ReadWord, Pages!ReadMask, Pages!NewPage
    <3> QED
      BY <2>1, <3>1, SearchStep DEF ArenaInv
  <2> QED
    BY <2>1, <2>2, <2>3, MarkStep, LinkStep, DeallocateStep DEF ArenaInv
<1>2. CASE UNCHANGED arena
  BY <1>2 DEF arena, ArenaInv, JobsAreInPage, HeldAreInPage, Pages!MarksFollowAllocations,
              Pages!AllocationsAreExclusive
<1> QED
  BY <1>1, <1>2

\* As long as no run crossed a word and no word changed back while it was being
\* marked, allocations are apart and marked, and what is marked besides them is
\* of allocations at the start of the page (arena_allocator.hpp: do_allocate
\* and do_deallocate).
THEOREM Marks == Spec => []MarksFollowAllocations
<1> DEFINE IInv == kind = "arena" => ArenaInv
<1>1. Init => IInv
  <2>1. Pages!Init => ArenaInv
    BY DEF Pages!Init, ArenaInv, JobsAreInPage, HeldAreInPage, Pages!MarksFollowAllocations,
           Pages!AllocationsAreExclusive, Pages!Idle, Searching
  <2> QED
    BY <2>1, Begins
<1>2. IInv /\ [Next]_vars => IInv'
  BY Steps, ArenaSteps
<1>3. IInv => MarksFollowAllocations
  BY DEF ArenaInv, MarksFollowAllocations
<1> QED
  BY <1>1, <1>2, <1>3, PTL DEF Spec

-----------------------------------------------------------------------------
(* Directory watching                                                      *)

WatchInfo ==
  [path : Paths, callbacks : Seq(Callbacks), read : Seq(Nat), pending : BOOLEAN,
   files : SUBSET Nat, deaf : BOOLEAN]

WatchTyping ==
  /\ infos \in Seq(WatchInfo)
  /\ asked \in [Paths -> Seq(Callbacks)]
  /\ told \subseteq Callbacks \X Paths \X Nat
  /\ handles \in 0 .. Len(infos)
  /\ watchers \in [DOMAIN watchers -> 0 .. Len(infos)] /\ DOMAIN watchers \subseteq Paths

\* A file's number is the number of changes when it changed.
ChangesAreNumbered ==
  /\ IsFiniteSet(changed) /\ Cardinality(changed) <= MaxChanges
  /\ changed \subseteq (DOMAIN watchers) \X (1 .. Cardinality(changed))

IsRead(i) == infos[i].read # Watch!NoRead

\* What an info is going to report, of its own directory, which it is the only
\* one to read.
InfoIsSound(i) ==
  /\ \A f \in infos[i].files : f = Watch!NoName \/ <<infos[i].path, f>> \in changed
  /\ IsRead(i) =>
       /\ infos[i].path \in DOMAIN watchers /\ infos[i].callbacks # <<>>
       /\ \A k \in 1 .. Len(infos[i].read) : <<infos[i].path, infos[i].read[k]>> \in changed
       /\ \A k, l \in 1 .. Len(infos[i].read) :
            infos[i].read[k] = infos[i].read[l] => k = l

InfosAreSound ==
  /\ \A i \in 1 .. Len(infos) : InfoIsSound(i)
  /\ \A i, j \in 1 .. Len(infos) :
       IsRead(i) /\ IsRead(j) /\ infos[i].path = infos[j].path => i = j

\* Until a registration fails, infos and paths are one to one.
WatchersPoint ==
  ~Watch!Failed =>
    /\ handles = Len(infos)
    /\ \A p \in DOMAIN watchers :
         watchers[p] \in 1 .. Len(infos) /\ infos[watchers[p]].path = p
    /\ \A i \in 1 .. Len(infos) :
         infos[i].path \in DOMAIN watchers /\ watchers[infos[i].path] = i
    /\ \A p \in Paths \ DOMAIN watchers : asked[p] = <<>>

NowhereForCause ==
  \A p \in DOMAIN watchers : watchers[p] = Watch!Nowhere => "not read" \in troubles

WatchInv ==
  /\ WatchTyping /\ ChangesAreNumbered /\ InfosAreSound /\ WatchersPoint /\ NowhereForCause
  /\ Watch!CallbacksAreTheirs /\ Watch!ChangesAreTold /\ Watch!LostForCause

LEMMA WatchCardinality == \A S : Watch!Cardinality(S) = Cardinality(S)
  BY DEF Watch!Cardinality, Cardinality

\* A sequence with one element changed.
LEMMA Replaced ==
  ASSUME NEW S, NEW s \in Seq(S), NEW i \in 1 .. Len(s), NEW v \in S
  PROVE  /\ [s EXCEPT ![i] = v] \in Seq(S) /\ Len([s EXCEPT ![i] = v]) = Len(s)
         /\ [s EXCEPT ![i] = v][i] = v
         /\ \A j \in 1 .. Len(s) : j # i => [s EXCEPT ![i] = v][j] = s[j]
  OBVIOUS

LEMMA InfoFields ==
  ASSUME NEW x \in WatchInfo
  PROVE  /\ x.path \in Paths /\ x.callbacks \in Seq(Callbacks) /\ x.read \in Seq(Nat)
         /\ x.pending \in BOOLEAN /\ x.files \in SUBSET Nat
  BY DEF WatchInfo

LEMMA InfoCalling ==
  ASSUME NEW x \in WatchInfo, NEW cs \in Seq(Callbacks)
  PROVE  /\ [x EXCEPT !.callbacks = cs] \in WatchInfo
         /\ [x EXCEPT !.callbacks = cs].callbacks = cs
         /\ [x EXCEPT !.callbacks = cs].path = x.path
         /\ [x EXCEPT !.callbacks = cs].read = x.read
         /\ [x EXCEPT !.callbacks = cs].files = x.files
  BY DEF WatchInfo

LEMMA InfoReading ==
  ASSUME NEW x \in WatchInfo, NEW fs \in Seq(Nat)
  PROVE  /\ [x EXCEPT !.read = fs] \in WatchInfo
         /\ [x EXCEPT !.read = fs].read = fs
         /\ [x EXCEPT !.read = fs].path = x.path
         /\ [x EXCEPT !.read = fs].callbacks = x.callbacks
         /\ [x EXCEPT !.read = fs].files = x.files
  BY DEF WatchInfo

LEMMA InfoReported ==
  ASSUME NEW x \in WatchInfo, NEW y, y = Watch!Reported(x)
  PROVE  /\ y \in WatchInfo
         /\ y.read = x.read /\ y.path = x.path /\ y.callbacks = x.callbacks
         /\ y.files = {}
  BY DEF WatchInfo, Watch!Reported

\* What is lost stays lost for the same reasons.
LEMMA LostStays ==
  ASSUME Watch!LostForCause, crowd \subseteq crowd',
         Len(infos) \in Nat, Len(infos)' \in Nat, Len(infos) <= Len(infos)',
         troubles \subseteq troubles', troubles' \cap {"asserted", "loops"} \subseteq troubles,
         "adrift" \in troubles' => "adrift" \in troubles \/ Len(infos)' > Capacity
  PROVE  Watch!LostForCause'
<1>1. "adrift" \in troubles => Len(infos) > Capacity
  BY DEF Watch!LostForCause
<1>2. ASSUME "loops" \in troubles'
      PROVE  \E p \in Paths : \E s \in SUBSET (1 .. MaxChanges) :
               ~Watch!Ends(Watch!Cardinality(s)) /\ \A f \in s : <<p, f>> \in crowd'
  <2>1. PICK p \in Paths, s \in SUBSET (1 .. MaxChanges) :
          ~Watch!Ends(Watch!Cardinality(s)) /\ \A f \in s : <<p, f>> \in crowd
    BY <1>2 DEF Watch!LostForCause
  <2> QED
    BY <2>1
<1>3. "adrift" \in troubles' => Len(infos)' > Capacity
  BY <1>1, WatchAssumption
<1> QED
  BY <1>2, <1>3 DEF Watch!LostForCause

\* Which infos read and report what, after a step that leaves this as it was.
LEMMA RegisterAgainStep ==
  ASSUME WatchInv, ~Watch!Lost, NEW p \in Paths, NEW c \in Callbacks,
         Watch!RegisterAgain(p, c), UNCHANGED <<told, changed, crowd>>
  PROVE  WatchInv'
<1> DEFINE i == watchers[p]
<1>1. /\ p \in DOMAIN watchers /\ UNCHANGED <<watchers, handles, told, changed, crowd>>
      /\ asked' = [asked EXCEPT ![p] = Append(@, c)]
      /\ i \in 0 .. Len(infos)
  BY DEF Watch!RegisterAgain, WatchInv, WatchTyping
<1>2. asked' \in [Paths -> Seq(Callbacks)]
  BY <1>1 DEF WatchInv, WatchTyping
<1>3. /\ asked'[p] = Append(asked[p], c)
      /\ \A q \in Paths \ {p} : asked'[q] = asked[q]
      /\ asked[p] \in Seq(Callbacks)
  BY <1>1 DEF WatchInv, WatchTyping
<1>4. \A q \in Paths : Watch!ToSet(asked[q]) \subseteq Watch!ToSet(asked'[q])
  <2> TAKE q \in Paths
  <2>1. CASE q = p
    BY <1>3, <2>1 DEF Watch!ToSet
  <2> QED
    BY <1>3, <2>1
<1>5. CASE i = Watch!Nowhere
  <2>1. troubles' = troubles \cup {"asserted"} /\ infos' = infos
    BY <1>5 DEF Watch!RegisterAgain
  <2>2. "not read" \in troubles
    BY <1>1, <1>5 DEF WatchInv, NowhereForCause
  <2>3. Watch!Failed /\ Watch!Failed'
    BY <2>1, <2>2 DEF Watch!Failed
  <2>4. WatchTyping' /\ NowhereForCause'
    BY <1>1, <1>2, <2>1 DEF WatchInv, WatchTyping, NowhereForCause
  <2>7. ChangesAreNumbered' /\ InfosAreSound'
    BY <1>1, <2>1 DEF WatchInv, ChangesAreNumbered, InfosAreSound, InfoIsSound, IsRead
  <2>5. Watch!LostForCause'
    BY <1>1, <2>1, <2>2 DEF WatchInv, Watch!LostForCause
  <2>6. Watch!ChangesAreTold'
    BY <1>1, <2>1 DEF WatchInv, Watch!ChangesAreTold
  <2> QED
    BY <2>3, <2>4, <2>5, <2>6, <2>7 DEF WatchInv, WatchersPoint, Watch!CallbacksAreTheirs
<1>6. CASE i # Watch!Nowhere
  <2>1. /\ infos' = [infos EXCEPT ![i].callbacks = Append(@, c)] /\ troubles' = troubles
        /\ i \in 1 .. Len(infos) /\ infos \in Seq(WatchInfo) /\ infos[i] \in WatchInfo
    BY <1>1, <1>6 DEF Watch!RegisterAgain, Watch!Nowhere, WatchInv, WatchTyping
  <2>2. /\ infos[i].callbacks \in Seq(Callbacks)
        /\ Append(infos[i].callbacks, c) \in Seq(Callbacks)
    BY <2>1, InfoFields
  <2> DEFINE new == [infos[i] EXCEPT !.callbacks = Append(infos[i].callbacks, c)]
  <2>3. /\ new \in WatchInfo /\ new.callbacks = Append(infos[i].callbacks, c)
        /\ new.path = infos[i].path /\ new.read = infos[i].read /\ new.files = infos[i].files
    BY <2>1, <2>2, InfoCalling
  <2>4. infos' = [infos EXCEPT ![i] = new]
    BY <2>1
  <2> HIDE DEF new
  <2>5. /\ infos' \in Seq(WatchInfo) /\ Len(infos') = Len(infos) /\ infos'[i] = new
        /\ \A j \in 1 .. Len(infos) : j # i => infos'[j] = infos[j]
    BY <2>1, <2>3, <2>4, Replaced
  <2>6. /\ infos'[i].callbacks = Append(infos[i].callbacks, c)
        /\ \A j \in 1 .. Len(infos) :
             /\ infos'[j].path = infos[j].path /\ infos'[j].read = infos[j].read
             /\ infos'[j].files = infos[j].files
    BY <2>3, <2>5
  <2>7. \A j \in 1 .. Len(infos) : infos[j].callbacks # <<>> =>
          infos'[j].callbacks # <<>> /\ Head(infos'[j].callbacks) = Head(infos[j].callbacks)
    <3> TAKE j \in 1 .. Len(infos)
    <3>1. CASE j = i
      BY <2>2, <2>6, <3>1
    <3> QED
      BY <2>5, <3>1
  <2>8. WatchTyping'
    BY <1>1, <1>2, <2>5 DEF WatchInv, WatchTyping
  <2>9. ChangesAreNumbered' /\ NowhereForCause'
    BY <1>1, <2>1 DEF WatchInv, ChangesAreNumbered, NowhereForCause
  <2>10. InfosAreSound'
    <3>1. changed' = changed /\ watchers' = watchers /\ Len(infos') = Len(infos)
      BY <1>1, <2>5
    <3>2. ASSUME NEW j \in 1 .. Len(infos) PROVE InfoIsSound(j)'
      <4>1. InfoIsSound(j)
        BY DEF WatchInv, InfosAreSound
      <4>2. /\ infos'[j].path = infos[j].path /\ infos'[j].read = infos[j].read
            /\ infos'[j].files = infos[j].files
            /\ infos[j].callbacks # <<>> => infos'[j].callbacks # <<>>
        BY <2>6, <2>7
      <4> QED
        BY ONLY <3>1, <4>1, <4>2 DEF InfoIsSound, IsRead
    <3>3. \A j, k \in 1 .. Len(infos) :
            IsRead(j) /\ IsRead(k) /\ infos[j].path = infos[k].path => j = k
      BY DEF WatchInv, InfosAreSound
    <3>4. \A j, k \in 1 .. Len(infos') :
            IsRead(j)' /\ IsRead(k)' /\ infos'[j].path = infos'[k].path => j = k
      BY ONLY <2>6, <3>1, <3>3 DEF IsRead
    <3> QED
      BY ONLY <3>1, <3>2, <3>4 DEF InfosAreSound
  <2>11. WatchersPoint'
    <3> SUFFICES ASSUME ~Watch!Failed PROVE WatchersPoint'
      BY <2>1 DEF WatchersPoint, Watch!Failed
    <3>1. /\ handles = Len(infos)
          /\ \A q \in DOMAIN watchers :
               watchers[q] \in 1 .. Len(infos) /\ infos[watchers[q]].path = q
          /\ \A j \in 1 .. Len(infos) :
               infos[j].path \in DOMAIN watchers /\ watchers[infos[j].path] = j
          /\ \A q \in Paths \ DOMAIN watchers : asked[q] = <<>>
      BY DEF WatchInv, WatchersPoint
    <3>2. \A q \in Paths \ DOMAIN watchers : asked'[q] = <<>>
      BY <1>1, <1>3, <3>1
    <3> QED
      BY <1>1, <2>5, <2>6, <3>1, <3>2 DEF WatchersPoint
  <2>12. Watch!CallbacksAreTheirs'
    <3> SUFFICES ASSUME ~Watch!Failed
                 PROVE  /\ \A j \in 1 .. Len(infos) : infos'[j].callbacks = asked'[infos'[j].path]
                        /\ \A t \in told : t[1] \in Watch!ToSet(asked'[t[2]])
                                           /\ (t[3] = Watch!NoName \/ <<t[2], t[3]>> \in changed)
      <4>1. Watch!Failed' <=> Watch!Failed
        BY <2>1 DEF Watch!Failed
      <4>2. DOMAIN infos' = 1 .. Len(infos)
        BY <2>5
      <4> QED
        BY <1>1, <4>1, <4>2 DEF Watch!CallbacksAreTheirs
    <3>0. \A j \in 1 .. Len(infos) : infos[j].path \in Paths
      BY <2>1, InfoFields
    <3>1. infos[i].path = p /\ \A j \in 1 .. Len(infos) : watchers[infos[j].path] = j
      BY <1>1, <2>1 DEF WatchInv, WatchersPoint
    <3>2. \A j \in 1 .. Len(infos) : infos[j].callbacks = asked[infos[j].path]
      BY <2>1 DEF WatchInv, Watch!CallbacksAreTheirs
    <3>3. ASSUME NEW t \in told PROVE t[1] \in Watch!ToSet(asked'[t[2]])
      <4>1. t[1] \in Watch!ToSet(asked[t[2]])
        BY DEF WatchInv, Watch!CallbacksAreTheirs
      <4>2. t[2] \in Paths
        BY DEF WatchInv, WatchTyping
      <4> QED
        BY <4>1, <4>2, <1>4
    <3>4. ASSUME NEW j \in 1 .. Len(infos) PROVE infos'[j].callbacks = asked'[infos'[j].path]
      <4>1. CASE j = i
        <5>1. infos'[j].path = p /\ infos[j].callbacks = asked[p]
          BY <4>1, <2>1, <2>6, <3>1, <3>2
        <5> QED
          BY <4>1, <5>1, <1>3, <2>6
      <4>2. CASE j # i
        BY <4>2, <1>3, <2>5, <2>6, <3>0, <3>1, <3>2
      <4> QED
        BY <4>1, <4>2
    <3> QED
      BY <3>3, <3>4 DEF WatchInv, Watch!CallbacksAreTheirs
  <2>13. Watch!ChangesAreTold'
    <3>1. \A j \in 1 .. Len(infos) : IsRead(j) => infos[j].callbacks # <<>>
      BY DEF WatchInv, InfosAreSound, InfoIsSound
    <3>2. DOMAIN infos = 1 .. Len(infos) /\ DOMAIN infos' = 1 .. Len(infos)
      BY <2>1, <2>5
    <3> QED
      BY <1>1, <2>6, <2>7, <3>1, <3>2 DEF WatchInv, Watch!ChangesAreTold, IsRead
  <2>14. Watch!LostForCause'
    BY <1>1, <2>1, <2>5, LostStays DEF WatchInv
  <2> QED
    BY <2>8, <2>9, <2>10, <2>11, <2>12, <2>13, <2>14 DEF WatchInv
<1> QED
  BY <1>5, <1>6

\* A new path: nobody reads its directory yet, and nothing in it has changed.
LEMMA InfoAdded ==
  ASSUME WatchInv, NEW p \in Paths \ DOMAIN watchers, NEW new \in WatchInfo,
         infos' = Append(infos, new), new.path = p, new.files = {},
         \/ new.read = Watch!NoRead
         \/ new.read = <<>> /\ new.callbacks # <<>> /\ p \in DOMAIN watchers',
         DOMAIN watchers \subseteq DOMAIN watchers', UNCHANGED <<told, changed, crowd>>
  PROVE  /\ infos' \in Seq(WatchInfo) /\ Len(infos') = Len(infos) + 1 /\ Len(infos) \in Nat
         /\ infos'[Len(infos) + 1] = new /\ \A j \in 1 .. Len(infos) : infos'[j] = infos[j]
         /\ ChangesAreNumbered' /\ InfosAreSound' /\ Watch!ChangesAreTold'
<1>1. /\ infos' \in Seq(WatchInfo) /\ Len(infos') = Len(infos) + 1 /\ Len(infos) \in Nat
      /\ infos'[Len(infos) + 1] = new /\ \A j \in 1 .. Len(infos) : infos'[j] = infos[j]
  <2>1. infos \in Seq(WatchInfo)
    BY DEF WatchInv, WatchTyping
  <2> QED
    BY <2>1
<1>2. ChangesAreNumbered'
  BY DEF WatchInv, ChangesAreNumbered
<1>3. \A f : <<p, f>> \notin changed
  BY DEF WatchInv, ChangesAreNumbered
<1>4. \A j \in 1 .. Len(infos) : InfoIsSound(j) /\ (IsRead(j) => infos[j].path # p)
  BY DEF WatchInv, InfosAreSound, InfoIsSound
<1>5. \A j \in 1 .. Len(infos) : InfoIsSound(j)'
  BY <1>1, <1>4 DEF InfoIsSound, IsRead
<1>6. ASSUME NEW n \in Nat, n = Len(infos) + 1
      PROVE  InfoIsSound(n)' /\ infos'[n].path = p
  <2>1. infos'[n] = new
    BY <1>1, <1>6
  <2> QED
    BY <2>1 DEF InfoIsSound, IsRead
<1>7. InfosAreSound'
  <2>1. \A j \in 1 .. Len(infos)' : j \in 1 .. Len(infos) \/ j = Len(infos) + 1
    BY <1>1
  <2>2. \A i, j \in 1 .. Len(infos) : IsRead(i) /\ IsRead(j) /\ infos[i].path = infos[j].path => i = j
    BY DEF WatchInv, InfosAreSound
  <2>3. \A j \in 1 .. Len(infos) :
          /\ IsRead(j)' <=> IsRead(j)
          /\ infos'[j].path = infos[j].path
          /\ IsRead(j) => infos'[j].path # p
    BY <1>1, <1>4 DEF IsRead
  <2>4. ASSUME NEW j \in 1 .. Len(infos)'
        PROVE  InfoIsSound(j)' /\ (j \notin 1 .. Len(infos) => infos'[j].path = p)
    BY <1>5, <1>6, <2>1
  <2>5. ASSUME NEW i \in 1 .. Len(infos)', NEW j \in 1 .. Len(infos)',
               IsRead(i)', IsRead(j)', infos'[i].path = infos'[j].path
        PROVE  i = j
    <3>0. IsRead(i)' /\ IsRead(j)' /\ infos'[i].path = infos'[j].path
      BY <2>5
    <3>1. CASE i \in 1 .. Len(infos) /\ j \in 1 .. Len(infos)
      <4>1. IsRead(i) /\ IsRead(j) /\ infos[i].path = infos[j].path
        BY ONLY <2>3, <3>0, <3>1 DEF IsRead
      <4> QED
        BY ONLY <2>2, <3>1, <4>1
    <3>2. CASE i \in 1 .. Len(infos) /\ j \notin 1 .. Len(infos)
      <4>1. infos'[j].path = p
        BY <2>4, <3>2
      <4>2. IsRead(i)
        BY ONLY <2>3, <3>0, <3>2 DEF IsRead
      <4>3. infos'[i].path # p
        BY ONLY <2>3, <3>2, <4>2
      <4> QED
        BY ONLY <3>0, <4>1, <4>3
    <3>3. CASE i \notin 1 .. Len(infos) /\ j \in 1 .. Len(infos)
      <4>1. infos'[i].path = p
        BY <2>4, <3>3
      <4>2. IsRead(j)
        BY ONLY <2>3, <3>0, <3>3 DEF IsRead
      <4>3. infos'[j].path # p
        BY ONLY <2>3, <3>3, <4>2
      <4> QED
        BY ONLY <3>0, <4>1, <4>3
    <3>4. CASE i \notin 1 .. Len(infos) /\ j \notin 1 .. Len(infos)
      BY ONLY <2>1, <3>4, i \in 1 .. Len(infos)', j \in 1 .. Len(infos)'
    <3> QED
      BY ONLY <3>1, <3>2, <3>3, <3>4
  <2> QED
    BY <2>4, <2>5 DEF InfosAreSound
<1>8. Watch!ChangesAreTold'
  <2>1. DOMAIN infos = 1 .. Len(infos) /\ DOMAIN infos' = 1 .. Len(infos) + 1
    <3>1. infos \in Seq(WatchInfo)
      BY DEF WatchInv, WatchTyping
    <3> QED
      BY <1>1, <3>1
  <2>2. \A j \in 1 .. Len(infos) + 1 : j \in 1 .. Len(infos) \/ j = Len(infos) + 1
    BY <1>1
  <2> QED
    BY <1>1, <1>3, <2>1, <2>2 DEF WatchInv, Watch!ChangesAreTold
<1> QED
  BY <1>1, <1>2, <1>7, <1>8

\* When it cannot be opened, or not be read, a registration has failed.
LEMMA RegisterFailedStep ==
  ASSUME WatchInv, NEW p \in Paths \ DOMAIN watchers, NEW new \in WatchInfo,
         infos' = Append(infos, new), new.path = p, new.files = {}, new.read = Watch!NoRead,
         UNCHANGED <<told, changed, crowd, handles>>,
         troubles \subseteq troubles', troubles' \cap {"asserted", "loops"} \subseteq troubles,
         "adrift" \in troubles' => "adrift" \in troubles \/ Len(infos) >= Capacity,
         asked' \in [Paths -> Seq(Callbacks)],
         \/ "not opened" \in troubles' /\ watchers' = watchers
         \/ /\ "not read" \in troubles'
            /\ watchers' = [q \in DOMAIN watchers \cup {p} |-> IF q = p THEN handles ELSE watchers[q]]
  PROVE  WatchInv'
<1>1. /\ infos' \in Seq(WatchInfo) /\ Len(infos') = Len(infos) + 1 /\ Len(infos) \in Nat
      /\ infos'[Len(infos) + 1] = new /\ \A j \in 1 .. Len(infos) : infos'[j] = infos[j]
      /\ ChangesAreNumbered' /\ InfosAreSound' /\ Watch!ChangesAreTold'
  <2>1. DOMAIN watchers \subseteq DOMAIN watchers'
    OBVIOUS
  <2> QED
    BY <2>1, InfoAdded
<1>2. Watch!Failed'
  BY DEF Watch!Failed
<1>3. WatchTyping'
  <2>0. handles \in 0 .. Len(infos) /\ handles' = handles
    BY DEF WatchInv, WatchTyping
  <2>1. handles' \in 0 .. Len(infos)'
    BY ONLY <1>1, <2>0
  <2>2. watchers' \in [DOMAIN watchers' -> 0 .. Len(infos)'] /\ DOMAIN watchers' \subseteq Paths
    <3>1. watchers \in [DOMAIN watchers -> 0 .. Len(infos)] /\ DOMAIN watchers \subseteq Paths
      BY DEF WatchInv, WatchTyping
    <3>2. 0 .. Len(infos) \subseteq 0 .. Len(infos)'
      BY ONLY <1>1
    <3>3. \/ watchers' = watchers
          \/ watchers' = [q \in DOMAIN watchers \cup {p} |-> IF q = p THEN handles ELSE watchers[q]]
      OBVIOUS
    <3> QED
      BY ONLY <2>0, <3>1, <3>2, <3>3, p \in Paths
  <2> QED
    BY <1>1, <2>1, <2>2 DEF WatchInv, WatchTyping
<1>4. NowhereForCause'
  BY DEF WatchInv, NowhereForCause
<1>5. Watch!LostForCause'
  <2>0. Len(infos) >= Capacity => Len(infos)' > Capacity
    BY ONLY <1>1, WatchAssumption
  <2>1. "adrift" \in troubles' => "adrift" \in troubles \/ Len(infos)' > Capacity
    BY <2>0
  <2>2. Len(infos) \in Nat /\ Len(infos)' \in Nat /\ Len(infos) <= Len(infos)'
    BY ONLY <1>1
  <2>3. crowd \subseteq crowd'
    OBVIOUS
  <2> QED
    BY <2>1, <2>2, <2>3, LostStays DEF WatchInv
<1> QED
  BY <1>1, <1>2, <1>3, <1>4, <1>5 DEF WatchInv, WatchersPoint, Watch!CallbacksAreTheirs

\* When it can, the path and its info point to each other.
LEMMA RegisterOpenedStep ==
  ASSUME WatchInv, NEW p \in Paths \ DOMAIN watchers, NEW c \in Callbacks,
         NEW new \in WatchInfo,
         infos' = Append(infos, new), new.path = p, new.files = {}, new.read = <<>>,
         new.callbacks = <<c>>,
         UNCHANGED <<told, changed, crowd>>, handles' = handles + 1,
         troubles \subseteq troubles', troubles' \subseteq troubles \cup {"adrift"},
         "adrift" \in troubles' => "adrift" \in troubles \/ Len(infos) >= Capacity,
         asked' = [asked EXCEPT ![p] = Append(@, c)],
         watchers' = [q \in DOMAIN watchers \cup {p} |-> IF q = p THEN handles' ELSE watchers[q]]
  PROVE  WatchInv'
<1>1. /\ infos' \in Seq(WatchInfo) /\ Len(infos') = Len(infos) + 1 /\ Len(infos) \in Nat
      /\ infos'[Len(infos) + 1] = new /\ \A j \in 1 .. Len(infos) : infos'[j] = infos[j]
      /\ ChangesAreNumbered' /\ InfosAreSound' /\ Watch!ChangesAreTold'
  <2>1. DOMAIN watchers \subseteq DOMAIN watchers' /\ p \in DOMAIN watchers'
    OBVIOUS
  <2>2. new.callbacks # <<>>
    OBVIOUS
  <2> QED
    BY <2>1, <2>2, InfoAdded
<1>2. /\ asked' \in [Paths -> Seq(Callbacks)] /\ asked[p] \in Seq(Callbacks)
      /\ asked'[p] = Append(asked[p], c) /\ \A q \in Paths \ {p} : asked'[q] = asked[q]
  BY DEF WatchInv, WatchTyping
<1>3. handles \in 0 .. Len(infos) /\ handles' \in 0 .. Len(infos)' /\ handles' = handles + 1 /\ handles' # 0
  BY <1>1 DEF WatchInv, WatchTyping
<1>4. WatchTyping'
  <2>1. watchers' \in [DOMAIN watchers' -> 0 .. Len(infos)'] /\ DOMAIN watchers' \subseteq Paths
    BY <1>1, <1>3 DEF WatchInv, WatchTyping
  <2> QED
    BY <1>1, <1>2, <1>3, <2>1 DEF WatchInv, WatchTyping
<1>5. NowhereForCause'
  BY <1>3 DEF WatchInv, NowhereForCause, Watch!Nowhere
<1>6. Watch!LostForCause'
  <2>0. Len(infos) >= Capacity => Len(infos)' > Capacity
    BY ONLY <1>1, WatchAssumption
  <2>1. "adrift" \in troubles' => "adrift" \in troubles \/ Len(infos)' > Capacity
    BY <2>0
  <2>2. Len(infos) \in Nat /\ Len(infos)' \in Nat /\ Len(infos) <= Len(infos)'
    BY ONLY <1>1
  <2>3. crowd \subseteq crowd'
    OBVIOUS
  <2> QED
    BY <2>1, <2>2, <2>3, LostStays DEF WatchInv
<1>7. Watch!Failed' <=> Watch!Failed
  BY DEF Watch!Failed
<1>8. ASSUME ~Watch!Failed
      PROVE  /\ handles = Len(infos)
             /\ \A q \in DOMAIN watchers :
                  watchers[q] \in 1 .. Len(infos) /\ infos[watchers[q]].path = q
             /\ \A j \in 1 .. Len(infos) :
                  infos[j].path \in DOMAIN watchers /\ watchers[infos[j].path] = j
             /\ \A q \in Paths \ DOMAIN watchers : asked[q] = <<>>
  BY <1>8 DEF WatchInv, WatchersPoint
<1>9. WatchersPoint'
  <2> SUFFICES ASSUME ~Watch!Failed PROVE WatchersPoint'
    BY <1>7 DEF WatchersPoint
  <2>1. \A q \in DOMAIN watchers' :
          watchers'[q] \in 1 .. Len(infos)' /\ infos'[watchers'[q]].path = q
    BY <1>1, <1>3, <1>8
  <2>2. \A j \in 1 .. Len(infos)' :
          infos'[j].path \in DOMAIN watchers' /\ watchers'[infos'[j].path] = j
    <3> TAKE j \in 1 .. Len(infos)'
    <3>1. CASE j = Len(infos) + 1
      BY <1>1, <1>3, <1>8, <3>1
    <3>2. CASE j \in 1 .. Len(infos)
      BY <1>1, <1>8, <3>2
    <3> QED
      BY <1>1, <3>1, <3>2
  <2>3. \A q \in Paths \ DOMAIN watchers' : asked'[q] = <<>>
    BY <1>2, <1>8
  <2> QED
    BY <1>1, <1>3, <1>8, <2>1, <2>2, <2>3 DEF WatchersPoint
<1>10. Watch!CallbacksAreTheirs'
  <2> SUFFICES ASSUME ~Watch!Failed
               PROVE  /\ \A j \in 1 .. Len(infos)' : infos'[j].callbacks = asked'[infos'[j].path]
                      /\ \A t \in told : t[1] \in Watch!ToSet(asked'[t[2]])
                                         /\ (t[3] = Watch!NoName \/ <<t[2], t[3]>> \in changed)
    <3>1. DOMAIN infos' = 1 .. Len(infos)'
      BY <1>1
    <3> QED
      BY <1>7, <3>1 DEF Watch!CallbacksAreTheirs
  <2>1. asked[p] = <<>>
    BY <1>8
  <2>2. \A j \in 1 .. Len(infos) : infos[j].callbacks = asked[infos[j].path] /\ infos[j].path \in Paths \ {p}
    <3>1. infos \in Seq(WatchInfo) /\ DOMAIN infos = 1 .. Len(infos)
      BY DEF WatchInv, WatchTyping
    <3>2. \A j \in 1 .. Len(infos) : infos[j].path \in Paths
      BY <3>1, InfoFields
    <3> QED
      BY <1>8, <3>1, <3>2 DEF WatchInv, Watch!CallbacksAreTheirs
  <2>3. ASSUME NEW j \in 1 .. Len(infos)' PROVE infos'[j].callbacks = asked'[infos'[j].path]
    <3>1. CASE j = Len(infos) + 1
      <4>1. Append(<<>>, c) = <<c>>
        OBVIOUS
      <4> QED
        BY <1>1, <1>2, <2>1, <3>1, <4>1
    <3>2. CASE j \in 1 .. Len(infos)
      BY <1>1, <1>2, <2>2, <3>2
    <3> QED
      BY <1>1, <3>1, <3>2
  <2>4. ASSUME NEW t \in told PROVE t[1] \in Watch!ToSet(asked'[t[2]])
    <3>1. t[1] \in Watch!ToSet(asked[t[2]]) /\ t[2] \in Paths
      BY DEF WatchInv, WatchTyping, Watch!CallbacksAreTheirs
    <3>2. t[2] # p
      BY <2>1, <3>1 DEF Watch!ToSet
    <3> QED
      BY <1>2, <3>1, <3>2
  <2> QED
    BY <2>3, <2>4 DEF WatchInv, Watch!CallbacksAreTheirs
<1> QED
  BY <1>1, <1>4, <1>5, <1>6, <1>9, <1>10 DEF WatchInv

LEMMA NewInfo ==
  ASSUME NEW x, NEW p \in Paths, NEW cs \in Seq(Callbacks), NEW fs \in Seq(Nat),
         x = [path |-> p, callbacks |-> cs, read |-> fs, pending |-> FALSE, files |-> {},
              deaf |-> FALSE]
  PROVE  x \in WatchInfo /\ x.path = p /\ x.read = fs /\ x.files = {}
  BY DEF WatchInfo

LEMMA RegisterNewStep ==
  ASSUME WatchInv, NEW p \in Paths, NEW c \in Callbacks,
         Watch!RegisterNew(p, c), UNCHANGED <<told, changed, crowd>>
  PROVE  WatchInv'
<1> DEFINE fresh == [path |-> p, callbacks |-> <<>>, read |-> Watch!NoRead,
                     pending |-> FALSE, files |-> {}, deaf |-> FALSE]
           opened(read) == [fresh EXCEPT !.callbacks = <<c>>, !.read = read]
           grown == troubles \cup IF Len(infos) >= Capacity /\ handles > 0 THEN {"adrift"} ELSE {}
<1>1. /\ <<>> \in Seq(Nat) /\ Watch!NoRead \in Seq(Nat) /\ Watch!NoRead # <<>>
      /\ <<>> \in Seq(Callbacks) /\ <<c>> \in Seq(Callbacks) /\ <<c>> # <<>>
  BY DEF Watch!NoRead
<1>2. /\ fresh \in WatchInfo /\ fresh.path = p /\ fresh.read = Watch!NoRead /\ fresh.files = {}
  <2> DEFINE x == fresh
  <2>1. x = [path |-> p, callbacks |-> <<>>, read |-> Watch!NoRead, pending |-> FALSE, files |-> {},
             deaf |-> FALSE]
    OBVIOUS
  <2> HIDE DEF x
  <2>2. x \in WatchInfo /\ x.path = p /\ x.read = Watch!NoRead /\ x.files = {}
    BY <1>1, <2>1, NewInfo
  <2> QED
    BY <2>2 DEF x
<1> HIDE DEF fresh
<1> DEFINE cs == <<c>>
           called == [fresh EXCEPT !.callbacks = cs]
<1>a. /\ called \in WatchInfo /\ called.path = p /\ called.callbacks = <<c>> /\ called.files = {}
  <2>1. cs \in Seq(Callbacks) /\ cs = <<c>>
    BY <1>1
  <2> HIDE DEF cs
  <2> QED
    BY <1>2, <2>1, InfoCalling
<1>b. \A read : opened(read) = [called EXCEPT !.read = read]
  OBVIOUS
<1> HIDE DEF called
<1>c. /\ opened(Watch!NoRead) \in WatchInfo /\ opened(Watch!NoRead).path = p
      /\ opened(Watch!NoRead).read = Watch!NoRead /\ opened(Watch!NoRead).files = {}
  <2>1. opened(Watch!NoRead) = [called EXCEPT !.read = Watch!NoRead]
    BY <1>b
  <2> HIDE DEF opened
  <2> QED
    BY <1>1, <1>a, <2>1, InfoReading
<1>d. /\ opened(<<>>) \in WatchInfo /\ opened(<<>>).path = p
      /\ opened(<<>>).read = <<>> /\ opened(<<>>).callbacks = <<c>> /\ opened(<<>>).files = {}
  <2> DEFINE fs == <<>>
  <2>1. opened(<<>>) = [called EXCEPT !.read = fs] /\ fs \in Seq(Nat) /\ fs = <<>>
    BY <1>1, <1>b
  <2> HIDE DEF opened, fs
  <2>2. /\ [called EXCEPT !.read = fs] \in WatchInfo /\ [called EXCEPT !.read = fs].path = p
        /\ [called EXCEPT !.read = fs].read = fs /\ [called EXCEPT !.read = fs].callbacks = <<c>>
        /\ [called EXCEPT !.read = fs].files = {}
    BY <1>a, <2>1, InfoReading
  <2> QED
    BY ONLY <2>1, <2>2
<1> HIDE DEF opened
<1>3. /\ troubles \subseteq grown /\ grown \subseteq troubles \cup {"adrift"}
      /\ "adrift" \in grown => "adrift" \in troubles \/ Len(infos) >= Capacity
  OBVIOUS
<1>4. p \in Paths \ DOMAIN watchers
  BY DEF Watch!RegisterNew
<1>5. /\ asked \in [Paths -> Seq(Callbacks)]
      /\ [asked EXCEPT ![p] = Append(@, c)] \in [Paths -> Seq(Callbacks)]
  BY DEF WatchInv, WatchTyping
<1>6. \/ /\ infos' = Append(infos, fresh)
         /\ troubles' = grown \cup {"not opened"}
         /\ UNCHANGED <<watchers, handles, asked>>
      \/ \E read \in {Watch!NoRead, <<>>} :
           /\ infos' = Append(infos, opened(read))
           /\ handles' = IF read = Watch!NoRead THEN handles ELSE handles + 1
           /\ troubles' = grown \cup IF read = Watch!NoRead THEN {"not read"} ELSE {}
           /\ watchers' = [q \in DOMAIN watchers \cup {p} |->
                              IF q = p THEN handles' ELSE watchers[q]]
           /\ asked' = [asked EXCEPT ![p] = Append(@, c)]
  BY DEF Watch!RegisterNew, Watch!InfoIndex, fresh, opened
<1> HIDE DEF grown
<1>7. CASE /\ infos' = Append(infos, fresh)
           /\ troubles' = grown \cup {"not opened"}
           /\ UNCHANGED <<watchers, handles, asked>>
  <2>1. /\ troubles \subseteq troubles' /\ troubles' \cap {"asserted", "loops"} \subseteq troubles
        /\ "adrift" \in troubles' => "adrift" \in troubles \/ Len(infos) >= Capacity
        /\ "not opened" \in troubles'
    BY <1>3, <1>7
  <2>2. asked' \in [Paths -> Seq(Callbacks)] /\ watchers' = watchers /\ handles' = handles
    BY <1>5, <1>7
  <2> QED
    BY <1>1, <1>2, <1>4, <1>7, <2>1, <2>2, RegisterFailedStep
<1>8. CASE /\ infos' = Append(infos, opened(Watch!NoRead))
           /\ handles' = handles
           /\ troubles' = grown \cup {"not read"}
           /\ watchers' = [q \in DOMAIN watchers \cup {p} |-> IF q = p THEN handles' ELSE watchers[q]]
           /\ asked' = [asked EXCEPT ![p] = Append(@, c)]
  <2>1. /\ troubles \subseteq troubles' /\ troubles' \cap {"asserted", "loops"} \subseteq troubles
        /\ "adrift" \in troubles' => "adrift" \in troubles \/ Len(infos) >= Capacity
        /\ "not read" \in troubles'
    BY <1>3, <1>8
  <2>2. /\ asked' \in [Paths -> Seq(Callbacks)] /\ handles' = handles
        /\ watchers' = [q \in DOMAIN watchers \cup {p} |-> IF q = p THEN handles ELSE watchers[q]]
    BY <1>5, <1>8
  <2>4. UNCHANGED <<told, changed, crowd, handles>> /\ infos' = Append(infos, opened(Watch!NoRead))
    BY <1>8
  <2> QED
    BY ONLY WatchInv, <1>c, <1>4, <2>1, <2>2, <2>4, RegisterFailedStep
<1>9. CASE /\ infos' = Append(infos, opened(<<>>))
           /\ handles' = handles + 1
           /\ troubles' = grown
           /\ watchers' = [q \in DOMAIN watchers \cup {p} |-> IF q = p THEN handles' ELSE watchers[q]]
           /\ asked' = [asked EXCEPT ![p] = Append(@, c)]
  <2>1. /\ troubles \subseteq troubles' /\ troubles' \subseteq troubles \cup {"adrift"}
        /\ "adrift" \in troubles' => "adrift" \in troubles \/ Len(infos) >= Capacity
    BY <1>3, <1>9
  <2> QED
    BY <1>d, <1>4, <1>9, <2>1, RegisterOpenedStep
<1> QED
  <2>1. ASSUME \E read \in {Watch!NoRead, <<>>} :
                 /\ infos' = Append(infos, opened(read))
                 /\ handles' = IF read = Watch!NoRead THEN handles ELSE handles + 1
                 /\ troubles' = grown \cup IF read = Watch!NoRead THEN {"not read"} ELSE {}
                 /\ watchers' = [q \in DOMAIN watchers \cup {p} |->
                                    IF q = p THEN handles' ELSE watchers[q]]
                 /\ asked' = [asked EXCEPT ![p] = Append(@, c)]
        PROVE  WatchInv'
    <3>1. PICK read \in {Watch!NoRead, <<>>} :
            /\ infos' = Append(infos, opened(read))
            /\ handles' = IF read = Watch!NoRead THEN handles ELSE handles + 1
            /\ troubles' = grown \cup IF read = Watch!NoRead THEN {"not read"} ELSE {}
            /\ watchers' = [q \in DOMAIN watchers \cup {p} |->
                               IF q = p THEN handles' ELSE watchers[q]]
            /\ asked' = [asked EXCEPT ![p] = Append(@, c)]
      BY <2>1
    <3>2. CASE read = Watch!NoRead
      <4>1. handles' = handles /\ troubles' = grown \cup {"not read"}
        BY ONLY <3>1, <3>2
      <4> QED
        BY ONLY <1>8, <3>1, <3>2, <4>1
    <3>3. CASE read = <<>>
      <4>1. handles' = handles + 1 /\ troubles' = grown
        BY ONLY <1>1, <3>1, <3>3
      <4> QED
        BY ONLY <1>9, <3>1, <3>3, <4>1
    <3> QED
      BY ONLY <3>2, <3>3, read \in {Watch!NoRead, <<>>}
  <2> QED
    BY <1>6, <1>7, <2>1

LEMMA RegisterStep ==
  ASSUME WatchInv, ~Watch!Lost, NEW p \in Paths, NEW c \in Callbacks, Watch!Register(p, c)
  PROVE  WatchInv'
<1>1. Watch!RegisterAgain(p, c) \/ Watch!RegisterNew(p, c)
  BY DEF Watch!Register
<1>2. UNCHANGED <<told, changed, crowd>>
  BY DEF Watch!Register
<1> QED
  BY <1>1, <1>2, RegisterAgainStep, RegisterNewStep

\* What does not move an info leaves the paths pointing.
LEMMA PointStays ==
  ASSUME WatchersPoint, Len(infos') = Len(infos),
         \A j \in 1 .. Len(infos) : infos'[j].path = infos[j].path,
         UNCHANGED <<watchers, handles, asked>>, Watch!Failed' <=> Watch!Failed
  PROVE  WatchersPoint'
<1> SUFFICES ASSUME ~Watch!Failed PROVE WatchersPoint'
  BY DEF WatchersPoint
<1>1. /\ handles = Len(infos)
      /\ \A q \in DOMAIN watchers :
           watchers[q] \in 1 .. Len(infos) /\ infos[watchers[q]].path = q
      /\ \A j \in 1 .. Len(infos) :
           infos[j].path \in DOMAIN watchers /\ watchers[infos[j].path] = j
      /\ \A q \in Paths \ DOMAIN watchers : asked[q] = <<>>
  BY DEF WatchersPoint
<1> QED
  BY <1>1 DEF WatchersPoint

\* And callbacks their directories', when changes are only added.
LEMMA CallbacksStay ==
  ASSUME Watch!CallbacksAreTheirs, infos \in Seq(WatchInfo), infos' \in Seq(WatchInfo),
         Len(infos') = Len(infos),
         \A j \in 1 .. Len(infos) :
           infos'[j].path = infos[j].path /\ infos'[j].callbacks = infos[j].callbacks,
         changed \subseteq changed', UNCHANGED asked, Watch!Failed' <=> Watch!Failed,
         ~Watch!Failed => \A t \in told' : t \in told \/
            (t[1] \in Watch!ToSet(asked[t[2]]) /\ (t[3] = Watch!NoName \/ <<t[2], t[3]>> \in changed))
  PROVE  Watch!CallbacksAreTheirs'
<1> SUFFICES ASSUME ~Watch!Failed
             PROVE  /\ \A j \in 1 .. Len(infos) : infos'[j].callbacks = asked'[infos'[j].path]
                    /\ \A t \in told' : t[1] \in Watch!ToSet(asked'[t[2]])
                                       /\ (t[3] = Watch!NoName \/ <<t[2], t[3]>> \in changed')
  <2>1. DOMAIN infos' = 1 .. Len(infos)
    OBVIOUS
  <2> QED
    BY <2>1 DEF Watch!CallbacksAreTheirs
<1>1. \A j \in 1 .. Len(infos) : infos[j].callbacks = asked[infos[j].path]
  BY DEF Watch!CallbacksAreTheirs
<1>2. \A t \in told : t[1] \in Watch!ToSet(asked[t[2]])
                      /\ (t[3] = Watch!NoName \/ <<t[2], t[3]>> \in changed)
  BY DEF Watch!CallbacksAreTheirs
<1> QED
  BY <1>1, <1>2

LEMMA IsASeq == \A S : \A n \in Nat : \A f \in [1 .. n -> S] : f \in Seq(S) /\ Len(f) = n
  OBVIOUS

\* An info in place of another of the same directory.
LEMMA InfoReplaced ==
  ASSUME WatchInv, NEW i \in 1 .. Len(infos), NEW new \in WatchInfo,
         infos' = [infos EXCEPT ![i] = new],
         new.path = infos[i].path, new.callbacks = infos[i].callbacks
  PROVE  /\ infos \in Seq(WatchInfo) /\ infos' \in Seq(WatchInfo)
         /\ Len(infos) \in Nat /\ Len(infos') = Len(infos)
         /\ infos'[i] = new /\ \A j \in 1 .. Len(infos) : j # i => infos'[j] = infos[j]
         /\ \A j \in 1 .. Len(infos) :
              infos'[j].path = infos[j].path /\ infos'[j].callbacks = infos[j].callbacks
<1>1. infos \in Seq(WatchInfo)
  BY DEF WatchInv, WatchTyping
<1>2. /\ infos' \in Seq(WatchInfo) /\ Len(infos') = Len(infos)
      /\ infos'[i] = new /\ \A j \in 1 .. Len(infos) : j # i => infos'[j] = infos[j]
  BY <1>1, Replaced
<1> QED
  BY <1>1, <1>2

\* A change is of a file that has not changed before.
LEMMA ChangeStep ==
  ASSUME WatchInv, NEW i \in 1 .. Len(infos), Watch!Change(i)
  PROVE  WatchInv'
<1> DEFINE n == Cardinality(changed)
           x == infos[i]
           read == Append(x.read, n + 1)
           new == [x EXCEPT !.read = read]
<1>1. /\ IsRead(i) /\ n + 1 <= MaxChanges /\ infos' = [infos EXCEPT ![i] = new]
      /\ changed' = changed \cup {<<x.path, n + 1>>}
      /\ UNCHANGED <<watchers, handles, asked, told, crowd, troubles>>
  BY WatchCardinality DEF Watch!Change, IsRead
<1>2. /\ n \in Nat /\ IsFiniteSet(changed) /\ changed \subseteq (DOMAIN watchers) \X (1 .. n)
      /\ DOMAIN watchers \subseteq Paths
  BY FS_CardinalityType DEF WatchInv, ChangesAreNumbered, WatchTyping
<1>3. x \in WatchInfo /\ x.read \in Seq(Nat) /\ x.path \in Paths
  <2>1. x \in WatchInfo
    BY DEF WatchInv, WatchTyping
  <2> QED
    BY <2>1, InfoFields
<1>4. read \in Seq(Nat)
  BY <1>2, <1>3
<1>5. /\ Len(read) = Len(x.read) + 1 /\ Len(x.read) \in Nat /\ read[Len(x.read) + 1] = n + 1
      /\ \A k \in 1 .. Len(x.read) : read[k] = x.read[k]
  BY <1>2, <1>3
<1> HIDE DEF read
<1>6. /\ new \in WatchInfo /\ new.read = read /\ new.path = x.path
      /\ new.callbacks = x.callbacks /\ new.files = x.files
  BY <1>3, <1>4, InfoReading
<1> HIDE DEF new, n
<1>7. /\ infos \in Seq(WatchInfo) /\ infos' \in Seq(WatchInfo)
      /\ Len(infos) \in Nat /\ Len(infos') = Len(infos)
      /\ infos'[i] = new /\ \A j \in 1 .. Len(infos) : j # i => infos'[j] = infos[j]
      /\ \A j \in 1 .. Len(infos) :
           infos'[j].path = infos[j].path /\ infos'[j].callbacks = infos[j].callbacks
  BY <1>1, <1>6, InfoReplaced
<1>8. \A k \in 1 .. Len(x.read) : <<x.path, x.read[k]>> \in changed
  BY <1>1 DEF WatchInv, InfosAreSound, InfoIsSound
<1>9. \A k, l \in 1 .. Len(x.read) : x.read[k] = x.read[l] => k = l
  BY <1>1 DEF WatchInv, InfosAreSound, InfoIsSound
<1>10. \A k \in 1 .. Len(x.read) : x.read[k] \in 1 .. n
  BY <1>2, <1>8
<1>11. /\ x.path \in DOMAIN watchers /\ x.callbacks # <<>>
       /\ \A f \in x.files : f = Watch!NoName \/ <<x.path, f>> \in changed
  BY <1>1 DEF WatchInv, InfosAreSound, InfoIsSound
<1>12. \A j \in 1 .. Len(infos) : IsRead(j) /\ infos[j].path = x.path => j = i
  BY <1>1 DEF WatchInv, InfosAreSound
<1>13. WatchTyping'
  BY <1>1, <1>7 DEF WatchInv, WatchTyping
<1>14. ChangesAreNumbered'
  <2>1. <<x.path, n + 1>> \notin changed
    BY <1>2
  <2>2. IsFiniteSet(changed') /\ Cardinality(changed') = n + 1
    BY <1>1, <1>2, <2>1, FS_AddElement DEF n
  <2>3. changed' \subseteq (DOMAIN watchers) \X (1 .. n + 1)
    BY <1>1, <1>2, <1>11
  <2> QED
    BY <1>1, <2>2, <2>3 DEF ChangesAreNumbered
<1>15. ASSUME NEW j \in 1 .. Len(infos) PROVE InfoIsSound(j)'
  <2>1. CASE j # i
    <3>1. InfoIsSound(j) /\ infos'[j] = infos[j]
      BY <1>7, <2>1 DEF WatchInv, InfosAreSound
    <3>2. changed \subseteq changed' /\ watchers' = watchers
      BY <1>1
    <3> QED
      BY <3>1, <3>2 DEF InfoIsSound, IsRead
  <2>2. CASE j = i
    <3>1. infos'[j].read = read /\ infos'[j].path = x.path /\ infos'[j].files = x.files
          /\ infos'[j].callbacks = x.callbacks
      BY <1>6, <1>7, <2>2
    <3>2. \A k \in 1 .. Len(read) : k \in 1 .. Len(x.read) \/ k = Len(x.read) + 1
      BY ONLY <1>5
    <3>3. \A k \in 1 .. Len(read) : <<x.path, read[k]>> \in changed'
      <4> TAKE k \in 1 .. Len(read)
      <4>1. CASE k \in 1 .. Len(x.read)
        BY <1>1, <1>5, <1>8, <4>1
      <4> QED
        BY <1>1, <1>5, <3>2, <4>1
    <3>4. \A k, l \in 1 .. Len(read) : read[k] = read[l] => k = l
      <4>1. \A k \in 1 .. Len(x.read) : read[k] # n + 1
        BY ONLY <1>2, <1>5, <1>10
      <4>2. ASSUME NEW k \in 1 .. Len(read), NEW l \in 1 .. Len(read), read[k] = read[l]
            PROVE  k = l
        <5>1. CASE k \in 1 .. Len(x.read) /\ l \in 1 .. Len(x.read)
          BY ONLY <1>5, <1>9, <4>2, <5>1
        <5>2. CASE k \notin 1 .. Len(x.read) \/ l \notin 1 .. Len(x.read)
          BY ONLY <1>5, <3>2, <4>1, <4>2, <5>2
        <5> QED
          BY <5>1, <5>2
      <4> QED
        BY <4>2
    <3>5. \A f \in x.files : f = Watch!NoName \/ <<x.path, f>> \in changed'
      BY <1>1, <1>11
    <3>6. x.path \in DOMAIN watchers'
      BY <1>1, <1>11
    <3> QED
      BY <1>11, <3>1, <3>3, <3>4, <3>5, <3>6 DEF InfoIsSound
  <2> QED
    BY <2>1, <2>2
<1>16. \A j \in 1 .. Len(infos) : IsRead(j)' => IsRead(j)
  BY <1>1, <1>7 DEF IsRead
<1>17. InfosAreSound'
  <2>1. \A j, k \in 1 .. Len(infos) : IsRead(j) /\ IsRead(k) /\ infos[j].path = infos[k].path => j = k
    BY DEF WatchInv, InfosAreSound
  <2>2. \A j, k \in 1 .. Len(infos) :
          IsRead(j)' /\ IsRead(k)' /\ infos'[j].path = infos'[k].path => j = k
    BY ONLY <1>7, <1>16, <2>1 DEF IsRead
  <2> QED
    BY <1>7, <1>15, <2>2 DEF InfosAreSound
<1>18. WatchersPoint'
  <2>1. Watch!Failed' <=> Watch!Failed
    BY <1>1 DEF Watch!Failed
  <2> QED
    BY <1>1, <1>7, <2>1, PointStays DEF WatchInv
<1>19. NowhereForCause'
  BY <1>1 DEF WatchInv, NowhereForCause
<1>20. Watch!CallbacksAreTheirs'
  <2>1. Watch!Failed' <=> Watch!Failed
    BY <1>1 DEF Watch!Failed
  <2>2. changed \subseteq changed' /\ told' = told /\ asked' = asked
    BY <1>1
  <2> QED
    BY <1>7, <2>1, <2>2, CallbacksStay DEF WatchInv
<1>21. Watch!ChangesAreTold'
  <2>1. DOMAIN infos' = 1 .. Len(infos) /\ DOMAIN infos = 1 .. Len(infos)
    BY <1>7
  <2> SUFFICES ASSUME NEW j \in 1 .. Len(infos), infos'[j].read # Watch!NoRead,
                      NEW f \in 1 .. MaxChanges, <<infos'[j].path, f>> \in changed'
               PROVE  \/ f \in Watch!ToSet(infos'[j].read) \cup infos'[j].files
                      \/ <<Head(infos'[j].callbacks), infos'[j].path, f>> \in told'
                      \/ <<infos'[j].path, f>> \in crowd'
    BY <2>1 DEF Watch!ChangesAreTold
  <2>2. IsRead(j)
    BY <1>16 DEF IsRead
  <2>3. <<infos[j].path, f>> \in changed =>
          \/ f \in Watch!ToSet(infos[j].read) \cup infos[j].files
          \/ <<Head(infos[j].callbacks), infos[j].path, f>> \in told
          \/ <<infos[j].path, f>> \in crowd
    BY <2>1, <2>2 DEF WatchInv, Watch!ChangesAreTold, IsRead
  <2>4. CASE j # i
    <3>1. <<infos[j].path, f>> \in changed
      BY <1>1, <1>7, <1>12, <2>2, <2>4
    <3> QED
      BY <1>1, <1>7, <2>3, <2>4, <3>1
  <2>5. CASE j = i
    <3>1. Watch!ToSet(infos[j].read) \cup {n + 1} \subseteq Watch!ToSet(infos'[j].read)
      <4>1. infos'[j].read = read
        BY <1>6, <1>7, <2>5
      <4>2. DOMAIN read = 1 .. Len(read) /\ DOMAIN x.read = 1 .. Len(x.read)
        BY <1>3, <1>4
      <4>3. \A k \in 1 .. Len(x.read) : k \in 1 .. Len(read) /\ read[k] = x.read[k]
        BY ONLY <1>5
      <4>4. Len(x.read) + 1 \in 1 .. Len(read)
        BY ONLY <1>5
      <4> QED
        BY <1>5, <2>5, <4>1, <4>2, <4>3, <4>4 DEF Watch!ToSet
    <3>2. infos'[j].path = x.path /\ infos'[j].files = x.files /\ infos'[j].callbacks = x.callbacks
      BY <1>6, <1>7, <2>5
    <3>3. CASE f = n + 1
      BY <3>1, <3>3
    <3>4. CASE <<x.path, f>> \in changed
      <4>1. \/ f \in Watch!ToSet(x.read) \cup x.files
            \/ <<Head(x.callbacks), x.path, f>> \in told
            \/ <<x.path, f>> \in crowd
        BY <2>3, <2>5, <3>4
      <4>2. Watch!ToSet(x.read) \subseteq Watch!ToSet(infos'[j].read)
        BY <2>5, <3>1
      <4>3. told' = told /\ crowd \subseteq crowd'
        BY <1>1
      <4> QED
        BY ONLY <3>2, <4>1, <4>2, <4>3
    <3>5. <<x.path, f>> \in changed \/ f = n + 1
      <4>1. <<x.path, f>> \in changed' /\ changed' = changed \cup {<<x.path, n + 1>>}
        BY <1>1, <3>2 DEF n
      <4> QED
        BY ONLY <4>1
    <3> QED
      BY ONLY <3>3, <3>4, <3>5
  <2> QED
    BY <2>4, <2>5
<1>22. Watch!LostForCause'
  BY <1>1, <1>7, LostStays DEF WatchInv
<1> QED
  BY <1>13, <1>14, <1>17, <1>18, <1>19, <1>20, <1>21, <1>22 DEF WatchInv

\* The callbacks of one directory, of which some are called.
LEMMA SomeTold ==
  ASSUME WatchInv, NEW i \in 1 .. Len(infos), NEW c \in Watch!ToSet(infos[i].callbacks),
         NEW f \in infos[i].files
  PROVE  /\ c \in Callbacks /\ infos[i].path \in Paths /\ f \in Nat
         /\ ~Watch!Failed => c \in Watch!ToSet(asked[infos[i].path])
         /\ f = Watch!NoName \/ <<infos[i].path, f>> \in changed
<1>1. infos[i] \in WatchInfo /\ DOMAIN infos = 1 .. Len(infos)
  BY DEF WatchInv, WatchTyping
<1>2. infos[i].callbacks \in Seq(Callbacks) /\ infos[i].files \in SUBSET Nat /\ infos[i].path \in Paths
  BY <1>1, InfoFields
<1>3. c \in Callbacks
  BY <1>2 DEF Watch!ToSet
<1>4. ~Watch!Failed => infos[i].callbacks = asked[infos[i].path]
  BY <1>1 DEF WatchInv, Watch!CallbacksAreTheirs
<1>5. f = Watch!NoName \/ <<infos[i].path, f>> \in changed
  BY DEF WatchInv, InfosAreSound, InfoIsSound
<1> QED
  BY <1>2, <1>3, <1>4, <1>5

LEMMA ReportStep ==
  ASSUME WatchInv, NEW quiet \in SUBSET (1 .. Len(infos)), Watch!Report(quiet)
  PROVE  WatchInv'
<1> DEFINE Calls(i) == {<<c, infos[i].path, f>> :
                          c \in Watch!ToSet(infos[i].callbacks), f \in infos[i].files}
<1>1. /\ infos' = [i \in DOMAIN infos |-> IF i \in quiet THEN Watch!Reported(infos[i]) ELSE infos[i]]
      /\ told' = told \cup UNION {Calls(i) : i \in quiet}
      /\ UNCHANGED <<watchers, handles, asked, changed, crowd, troubles>>
  BY DEF Watch!Report
<1>2. infos \in Seq(WatchInfo) /\ Len(infos) \in Nat /\ DOMAIN infos = 1 .. Len(infos)
  BY DEF WatchInv, WatchTyping
<1>3. ASSUME NEW j \in 1 .. Len(infos)
      PROVE  /\ infos'[j] \in WatchInfo
             /\ infos'[j].read = infos[j].read /\ infos'[j].path = infos[j].path
             /\ infos'[j].callbacks = infos[j].callbacks
             /\ infos'[j].files = IF j \in quiet THEN {} ELSE infos[j].files
  <2>1. infos[j] \in WatchInfo
    BY <1>2
  <2>2. CASE j \in quiet
    <3>1. infos'[j] = Watch!Reported(infos[j])
      BY <1>1, <1>2, <2>2
    <3> QED
      BY <2>1, <2>2, <3>1, InfoReported
  <2>3. CASE j \notin quiet
    BY <1>1, <1>2, <2>1, <2>3
  <2> QED
    BY <2>2, <2>3
<1>4. infos' \in Seq(WatchInfo) /\ Len(infos') = Len(infos) /\ DOMAIN infos' = 1 .. Len(infos)
  <2>1. DOMAIN infos' = 1 .. Len(infos)
    BY <1>1, <1>2
  <2>2. infos' \in [1 .. Len(infos) -> WatchInfo]
    <3>1. infos' = [j \in 1 .. Len(infos) |-> infos'[j]]
      BY <1>1, <1>2
    <3> QED
      BY <1>3, <3>1
  <2> QED
    BY <1>2, <2>1, <2>2, IsASeq
<1>5. ASSUME NEW t \in told'
      PROVE  \/ t \in told
             \/ /\ t \in Callbacks \X Paths \X Nat
                /\ ~Watch!Failed => t[1] \in Watch!ToSet(asked[t[2]])
                /\ t[3] = Watch!NoName \/ <<t[2], t[3]>> \in changed
  <2>0. t \in told \/ \E i \in quiet : t \in Calls(i)
    <3> HIDE DEF Calls
    <3>1. told' = told \cup UNION {Calls(i) : i \in quiet}
      BY <1>1
    <3> QED
      BY ONLY <3>1, t \in told'
  <2> SUFFICES ASSUME NEW i \in quiet, t \in Calls(i)
               PROVE  /\ t \in Callbacks \X Paths \X Nat
                      /\ ~Watch!Failed => t[1] \in Watch!ToSet(asked[t[2]])
                      /\ t[3] = Watch!NoName \/ <<t[2], t[3]>> \in changed
    BY <2>0
  <2>1. PICK c \in Watch!ToSet(infos[i].callbacks), f \in infos[i].files : t = <<c, infos[i].path, f>>
    OBVIOUS
  <2> QED
    BY <2>1, SomeTold
<1> HIDE DEF Calls
<1>6. WatchTyping'
  BY <1>1, <1>4, <1>5 DEF WatchInv, WatchTyping
<1>7. ChangesAreNumbered' /\ NowhereForCause'
  BY <1>1 DEF WatchInv, ChangesAreNumbered, NowhereForCause
<1>8. InfosAreSound'
  <2>1. \A j \in 1 .. Len(infos) : InfoIsSound(j)'
    <3>1. ASSUME NEW j \in 1 .. Len(infos) PROVE InfoIsSound(j)'
      <4>1. InfoIsSound(j) /\ changed' = changed /\ watchers' = watchers
        BY <1>1 DEF WatchInv, InfosAreSound
      <4>2. infos'[j].files \subseteq infos[j].files
        BY <1>3
      <4> QED
        BY <1>3, <4>1, <4>2 DEF InfoIsSound, IsRead
    <3> QED
      BY <3>1
  <2> QED
    BY <1>3, <1>4, <2>1 DEF WatchInv, InfosAreSound, IsRead
<1>9. Watch!Failed' <=> Watch!Failed
  BY <1>1 DEF Watch!Failed
<1>10. WatchersPoint'
  BY <1>1, <1>3, <1>4, <1>9, PointStays DEF WatchInv
<1>11. Watch!CallbacksAreTheirs'
  <2>1. changed \subseteq changed' /\ asked' = asked
    BY <1>1
  <2> QED
    BY <1>2, <1>3, <1>4, <1>5, <1>9, <2>1, CallbacksStay DEF WatchInv
<1>12. Watch!ChangesAreTold'
  <2> SUFFICES ASSUME NEW j \in 1 .. Len(infos), infos'[j].read # Watch!NoRead,
                      NEW f \in 1 .. MaxChanges, <<infos'[j].path, f>> \in changed'
               PROVE  \/ f \in Watch!ToSet(infos'[j].read) \cup infos'[j].files
                      \/ <<Head(infos'[j].callbacks), infos'[j].path, f>> \in told'
                      \/ <<infos'[j].path, f>> \in crowd'
    BY <1>4 DEF Watch!ChangesAreTold
  <2>1. \/ f \in Watch!ToSet(infos[j].read) \cup infos[j].files
        \/ <<Head(infos[j].callbacks), infos[j].path, f>> \in told
        \/ <<infos[j].path, f>> \in crowd
    BY <1>1, <1>2, <1>3 DEF WatchInv, Watch!ChangesAreTold
  <2>2. CASE j \in quiet /\ f \in infos[j].files
    <3>1. infos[j].callbacks # <<>> /\ infos[j].callbacks \in Seq(Callbacks)
      <4>1. IsRead(j)
        BY <1>3 DEF IsRead
      <4>2. infos[j] \in WatchInfo
        BY <1>2
      <4> QED
        BY <4>1, <4>2, InfoFields DEF WatchInv, InfosAreSound, InfoIsSound
    <3>2. Head(infos[j].callbacks) \in Watch!ToSet(infos[j].callbacks)
      <4>1. 1 \in DOMAIN infos[j].callbacks /\ Head(infos[j].callbacks) = infos[j].callbacks[1]
        BY <3>1
      <4> QED
        BY <4>1 DEF Watch!ToSet
    <3>3. <<Head(infos[j].callbacks), infos[j].path, f>> \in Calls(j)
      BY <2>2, <3>2 DEF Calls
    <3>4. <<Head(infos[j].callbacks), infos[j].path, f>> \in told'
      BY ONLY <1>1, <2>2, <3>3
    <3> QED
      BY <1>3, <3>4
  <2>3. CASE ~(j \in quiet /\ f \in infos[j].files)
    <3>1. told \subseteq told' /\ crowd' = crowd
      BY <1>1
    <3>2. /\ infos'[j].read = infos[j].read /\ infos'[j].path = infos[j].path
          /\ infos'[j].callbacks = infos[j].callbacks
          /\ f \in infos[j].files => f \in infos'[j].files
      BY <1>3, <2>3
    <3> QED
      BY <2>1, <3>1, <3>2
  <2> QED
    BY <2>2, <2>3
<1>13. Watch!LostForCause'
  <2>1. crowd \subseteq crowd' /\ troubles' = troubles
    BY <1>1
  <2> QED
    BY <1>2, <1>4, <2>1, LostStays DEF WatchInv
<1> QED
  BY <1>6, <1>7, <1>8, <1>10, <1>11, <1>12, <1>13 DEF WatchInv

\* The routine comes by records of the batch only.
LEMMA SeenInside ==
  ASSUME NEW n \in Nat, n # 0
  PROVE  /\ Watch!Seen(n) \subseteq 1 .. n
         /\ n = 1 => Watch!Seen(n) = {1}
  BY DEF Watch!Seen

\* Four files of one batch are four changes at once.
LEMMA FourAtOnce ==
  ASSUME NEW batch \in Seq(Nat), Len(batch) > 3,
         \A k, l \in 1 .. Len(batch) : batch[k] = batch[l] => k = l
  PROVE  \E some \in SUBSET {batch[k] : k \in 1 .. Len(batch)} : ~Watch!Ends(Watch!Cardinality(some))
<1> DEFINE s1 == {batch[1]}
           s2 == s1 \cup {batch[2]}
           s3 == s2 \cup {batch[3]}
           s == s3 \cup {batch[4]}
<1>1. batch[2] \notin s1 /\ batch[3] \notin s2 /\ batch[4] \notin s3
  OBVIOUS
<1>2. Cardinality(s1) = 1 /\ IsFiniteSet(s1)
  BY FS_Singleton
<1> HIDE DEF s1
<1>3. Cardinality(s2) = 1 + 1 /\ IsFiniteSet(s2)
  BY <1>1, <1>2, FS_AddElement
<1> HIDE DEF s2
<1>4. Cardinality(s3) = 1 + 1 + 1 /\ IsFiniteSet(s3)
  BY <1>1, <1>3, FS_AddElement
<1> HIDE DEF s3
<1>7. Cardinality(s) = 1 + 1 + 1 + 1
  BY <1>1, <1>4, FS_AddElement
<1>8. s \in SUBSET {batch[k] : k \in 1 .. Len(batch)}
  <2>1. 1 \in 1 .. Len(batch) /\ 2 \in 1 .. Len(batch) /\ 3 \in 1 .. Len(batch) /\ 4 \in 1 .. Len(batch)
    OBVIOUS
  <2> QED
    BY <2>1 DEF s1, s2, s3
<1>9. ~Watch!Ends(Watch!Cardinality(s))
  BY <1>7, WatchCardinality DEF Watch!Ends
<1> HIDE DEF s
<1> QED
  BY <1>8, <1>9

\* A read completes, with all its changes or with none.
LEMMA CompletedStep ==
  ASSUME WatchInv, NEW i \in 1 .. Len(infos), Watch!Completed(i)
  PROVE  WatchInv'
<1> DEFINE x == infos[i]
           batch == x.read
           Crowded == {<<x.path, f>> : f \in Watch!ToSet(batch)}
           New(names, fails) == [x EXCEPT !.read = <<>>, !.pending = TRUE, !.files = @ \cup names,
                                          !.deaf = fails]
<1>1. IsRead(i) /\ batch # <<>>
  BY DEF Watch!Completed, IsRead
<1>2. UNCHANGED <<watchers, handles, asked, told, changed>>
  BY DEF Watch!Completed
<1>3. x \in WatchInfo /\ batch \in Seq(Nat) /\ x.path \in Paths /\ x.files \in SUBSET Nat
  <2>1. x \in WatchInfo
    BY DEF WatchInv, WatchTyping
  <2> QED
    BY <2>1, InfoFields
<1>4. Len(batch) \in Nat /\ Len(batch) # 0 /\ DOMAIN batch = 1 .. Len(batch)
  BY <1>1, <1>3
<1>5. PICK names \in SUBSET Nat, fails \in BOOLEAN :
        /\ infos' = [infos EXCEPT ![i] = New(names, fails)]
        /\ \A f \in names : f = Watch!NoName \/ f \in Watch!ToSet(batch)
        /\ \/ Len(batch) = 1 /\ batch[1] \in names /\ crowd' = crowd
           \/ crowd' = crowd \cup Crowded
        /\ \/ troubles' = troubles
           \/ /\ troubles' = troubles \cup {"loops"} /\ ~Watch!Ends(Len(batch))
              /\ crowd' = crowd \cup Crowded
  <2>1. CASE /\ \E fails \in BOOLEAN :
                  infos' = [infos EXCEPT ![i] = New({batch[n] : n \in Watch!Seen(Len(batch))}, fails)]
             /\ troubles' = troubles \cup IF Watch!Ends(Len(batch)) THEN {} ELSE {"loops"}
             /\ crowd' = IF Len(batch) = 1 THEN crowd ELSE crowd \cup Crowded
    <3> DEFINE names == {batch[n] : n \in Watch!Seen(Len(batch))}
    <3>1. \A n \in Watch!Seen(Len(batch)) : n \in DOMAIN batch /\ batch[n] \in Nat
      BY <1>3, <1>4, SeenInside
    <3>2. names \in SUBSET Nat /\ \A f \in names : f \in Watch!ToSet(batch)
      BY <3>1 DEF Watch!ToSet
    <3>3. Len(batch) = 1 => batch[1] \in names
      BY <1>4, SeenInside
    <3>4. troubles' # troubles => troubles' = troubles \cup {"loops"} /\ ~Watch!Ends(Len(batch))
      BY <2>1
    <3>5. Len(batch) = 1 => Watch!Ends(Len(batch))
      BY DEF Watch!Ends
    <3> HIDE DEF names
    <3> QED
      BY <2>1, <3>2, <3>3, <3>4, <3>5 DEF names
  <2>2. CASE /\ \E fails \in BOOLEAN : infos' = [infos EXCEPT ![i] = New({Watch!NoName}, fails)]
             /\ crowd' = crowd \cup Crowded
             /\ UNCHANGED troubles
    <3>1. {Watch!NoName} \in SUBSET Nat
      BY DEF Watch!NoName
    <3> QED
      BY <2>2, <3>1
  <2> QED
    BY <2>1, <2>2 DEF Watch!Completed
<1> DEFINE new == New(names, fails)
<1>6. /\ new \in WatchInfo /\ new.read = <<>> /\ new.path = x.path
      /\ new.callbacks = x.callbacks /\ new.files = x.files \cup names
  <2> DEFINE fs == x.files \cup names
  <2>1. <<>> \in Seq(Nat)
    OBVIOUS
  <2>0. fs \in SUBSET Nat
    BY <1>3
  <2>2. new = [x EXCEPT !.read = <<>>, !.pending = TRUE, !.files = fs, !.deaf = fails]
    OBVIOUS
  <2> HIDE DEF new, New, fs
  <2>3. /\ new \in WatchInfo /\ new.read = <<>> /\ new.path = x.path
        /\ new.callbacks = x.callbacks /\ new.files = fs
    BY ONLY <1>3, fails \in BOOLEAN, <2>0, <2>1, <2>2 DEF WatchInfo
  <2> QED
    BY <2>3 DEF fs
<1>7. infos' = [infos EXCEPT ![i] = new]
  BY <1>5
<1> HIDE DEF new, New
<1>8. /\ infos \in Seq(WatchInfo) /\ infos' \in Seq(WatchInfo)
      /\ Len(infos) \in Nat /\ Len(infos') = Len(infos)
      /\ infos'[i] = new /\ \A j \in 1 .. Len(infos) : j # i => infos'[j] = infos[j]
      /\ \A j \in 1 .. Len(infos) :
           infos'[j].path = infos[j].path /\ infos'[j].callbacks = infos[j].callbacks
  BY <1>6, <1>7, InfoReplaced
<1>9. /\ x.path \in DOMAIN watchers /\ x.callbacks # <<>>
      /\ \A f \in x.files : f = Watch!NoName \/ <<x.path, f>> \in changed
      /\ \A k \in 1 .. Len(batch) : <<x.path, batch[k]>> \in changed
      /\ \A k, l \in 1 .. Len(batch) : batch[k] = batch[l] => k = l
  BY <1>1 DEF WatchInv, InfosAreSound, InfoIsSound
<1>10. \A f \in Watch!ToSet(batch) : <<x.path, f>> \in changed
  BY <1>4, <1>9 DEF Watch!ToSet
<1>11. WatchTyping'
  BY <1>2, <1>8 DEF WatchInv, WatchTyping
<1>12. ChangesAreNumbered'
  BY <1>2 DEF WatchInv, ChangesAreNumbered
<1>13. \A j \in 1 .. Len(infos) : IsRead(j)' => IsRead(j)
  BY <1>1, <1>8 DEF IsRead
<1>14. ASSUME NEW j \in 1 .. Len(infos) PROVE InfoIsSound(j)'
  <2>1. CASE j # i
    <3>1. InfoIsSound(j) /\ infos'[j] = infos[j]
      BY <1>8, <2>1 DEF WatchInv, InfosAreSound
    <3>2. changed' = changed /\ watchers' = watchers
      BY <1>2
    <3> QED
      BY <3>1, <3>2 DEF InfoIsSound, IsRead
  <2>2. CASE j = i
    <3>1. /\ infos'[j].read = <<>> /\ infos'[j].path = x.path
          /\ infos'[j].callbacks = x.callbacks /\ infos'[j].files = x.files \cup names
      BY <1>6, <1>8, <2>2
    <3>2. \A f \in x.files \cup names : f = Watch!NoName \/ <<x.path, f>> \in changed'
      BY <1>2, <1>5, <1>9, <1>10
    <3>3. x.path \in DOMAIN watchers'
      BY <1>2, <1>9
    <3> QED
      BY <1>9, <3>1, <3>2, <3>3 DEF InfoIsSound
  <2> QED
    BY <2>1, <2>2
<1>15. InfosAreSound'
  <2>1. \A j, k \in 1 .. Len(infos) : IsRead(j) /\ IsRead(k) /\ infos[j].path = infos[k].path => j = k
    BY DEF WatchInv, InfosAreSound
  <2>2. \A j, k \in 1 .. Len(infos) :
          IsRead(j)' /\ IsRead(k)' /\ infos'[j].path = infos'[k].path => j = k
    BY ONLY <1>8, <1>13, <2>1 DEF IsRead
  <2> QED
    BY <1>8, <1>14, <2>2 DEF InfosAreSound
<1>16. troubles \subseteq troubles' /\ troubles' \subseteq troubles \cup {"loops"}
  BY <1>5
<1>17. Watch!Failed' <=> Watch!Failed
  BY <1>16 DEF Watch!Failed
<1>18. WatchersPoint'
  <2>1. UNCHANGED <<watchers, handles, asked>>
    BY <1>2
  <2> QED
    BY <1>8, <1>17, <2>1, PointStays DEF WatchInv
<1>19. NowhereForCause'
  BY <1>2, <1>16 DEF WatchInv, NowhereForCause
<1>20. Watch!CallbacksAreTheirs'
  <2>1. changed \subseteq changed' /\ told' = told /\ asked' = asked
    BY <1>2
  <2> QED
    BY <1>8, <1>17, <2>1, CallbacksStay DEF WatchInv
<1>21. crowd \subseteq crowd'
  BY <1>5
<1>22. Watch!ChangesAreTold'
  <2>1. DOMAIN infos' = 1 .. Len(infos) /\ DOMAIN infos = 1 .. Len(infos)
    BY <1>8
  <2> SUFFICES ASSUME NEW j \in 1 .. Len(infos), infos'[j].read # Watch!NoRead,
                      NEW f \in 1 .. MaxChanges, <<infos'[j].path, f>> \in changed'
               PROVE  \/ f \in Watch!ToSet(infos'[j].read) \cup infos'[j].files
                      \/ <<Head(infos'[j].callbacks), infos'[j].path, f>> \in told'
                      \/ <<infos'[j].path, f>> \in crowd'
    BY <2>1 DEF Watch!ChangesAreTold
  <2>2. \/ f \in Watch!ToSet(infos[j].read) \cup infos[j].files
        \/ <<Head(infos[j].callbacks), infos[j].path, f>> \in told
        \/ <<infos[j].path, f>> \in crowd
    <3>1. IsRead(j) /\ <<infos[j].path, f>> \in changed
      BY <1>2, <1>8, <1>13 DEF IsRead
    <3> QED
      BY <2>1, <3>1 DEF WatchInv, Watch!ChangesAreTold, IsRead
  <2>3. told' = told
    BY <1>2
  <2>4. CASE j # i
    BY <1>8, <1>21, <2>2, <2>3, <2>4
  <2>5. CASE j = i
    <3>1. /\ infos'[j].path = x.path /\ infos'[j].callbacks = x.callbacks
          /\ infos'[j].files = x.files \cup names
      BY <1>6, <1>8, <2>5
    <3>2. ASSUME f \in Watch!ToSet(batch), Len(batch) = 1, batch[1] \in names
          PROVE  f \in names
      BY <1>4, <3>2 DEF Watch!ToSet
    <3>3. f \in Watch!ToSet(batch) => f \in names \/ <<x.path, f>> \in crowd'
      BY <1>5, <3>2
    <3> QED
      BY <1>21, <2>2, <2>3, <2>5, <3>1, <3>3
  <2> QED
    BY <2>4, <2>5
<1>23. Watch!LostForCause'
  <2>1. CASE troubles' = troubles
    BY <1>8, <1>21, <2>1, LostStays DEF WatchInv
  <2>2. CASE ~Watch!Ends(Len(batch)) /\ crowd' = crowd \cup Crowded
    <3>1. Len(batch) > 3
      BY <1>4, <2>2 DEF Watch!Ends
    <3>2. PICK s \in SUBSET {batch[k] : k \in 1 .. Len(batch)} : ~Watch!Ends(Watch!Cardinality(s))
      BY <1>3, <1>9, <3>1, FourAtOnce
    <3>3. \A f \in s : f \in Watch!ToSet(batch)
      BY <1>4, <3>2 DEF Watch!ToSet
    <3>4. \A f \in s : <<x.path, f>> \in crowd'
      BY <2>2, <3>3
    <3>5. s \in SUBSET (1 .. MaxChanges)
      <4>1. \A f \in s : f \in 1 .. Cardinality(changed)
        BY <1>10, <3>3 DEF WatchInv, ChangesAreNumbered
      <4>2. Cardinality(changed) \in Nat /\ Cardinality(changed) <= MaxChanges
        BY FS_CardinalityType DEF WatchInv, ChangesAreNumbered
      <4> QED
        BY <4>1, <4>2, WatchAssumption
    <3>6. /\ "asserted" \in troubles => "not read" \in troubles
          /\ "adrift" \in troubles => Len(infos) > Capacity
      BY DEF WatchInv, Watch!LostForCause
    <3>7. \E p \in Paths : \E t \in SUBSET (1 .. MaxChanges) :
            ~Watch!Ends(Watch!Cardinality(t)) /\ \A f \in t : <<p, f>> \in crowd'
      BY <1>3, <3>2, <3>4, <3>5
    <3> QED
      BY <1>8, <1>16, <3>6, <3>7 DEF Watch!LostForCause
  <2> QED
    BY <1>5, <2>1, <2>2
<1> QED
  BY <1>11, <1>12, <1>15, <1>18, <1>19, <1>20, <1>22, <1>23 DEF WatchInv

-----------------------------------------------------------------------------
LEMMA WatchBegins == Watch!Init => WatchInv
<1> SUFFICES ASSUME Watch!Init PROVE WatchInv
  OBVIOUS
<1>1. /\ infos = <<>> /\ handles = 0 /\ told = {} /\ changed = {} /\ crowd = {} /\ troubles = {}
      /\ asked = [p \in Paths |-> <<>>] /\ watchers = [p \in {} |-> 0]
  BY DEF Watch!Init
<1>2. infos \in Seq(WatchInfo) /\ Len(infos) = 0 /\ DOMAIN infos = {}
  BY <1>1
<1>3. asked \in [Paths -> Seq(Callbacks)] /\ DOMAIN watchers = {}
  BY <1>1
<1>4. WatchTyping /\ NowhereForCause
  BY <1>1, <1>2, <1>3 DEF WatchTyping, NowhereForCause
<1>5. ChangesAreNumbered
  <2>1. IsFiniteSet(changed) /\ Cardinality(changed) = 0
    BY <1>1, FS_EmptySet
  <2> QED
    BY <1>1, <2>1, WatchAssumption DEF ChangesAreNumbered
<1>6. InfosAreSound /\ Watch!ChangesAreTold
  BY <1>2 DEF InfosAreSound, Watch!ChangesAreTold
<1>7. WatchersPoint /\ Watch!CallbacksAreTheirs
  BY <1>1, <1>2, <1>3 DEF WatchersPoint, Watch!CallbacksAreTheirs
<1>8. Watch!LostForCause
  BY <1>1 DEF Watch!LostForCause
<1> QED
  BY <1>4, <1>5, <1>6, <1>7, <1>8 DEF WatchInv

LEMMA WatchSteps == WatchInv /\ [Watch!Next]_watch => WatchInv'
<1> SUFFICES ASSUME WatchInv, [Watch!Next]_watch PROVE WatchInv'
  OBVIOUS
<1>1. DOMAIN infos = 1 .. Len(infos)
  BY DEF WatchInv, WatchTyping
<1>2. CASE UNCHANGED watch
  <2>1. UNCHANGED <<watchers, infos, handles, asked, told, changed, crowd, troubles>>
    BY <1>2 DEF watch
  <2>2. WatchTyping' /\ ChangesAreNumbered' /\ NowhereForCause'
    BY <2>1 DEF WatchInv, WatchTyping, ChangesAreNumbered, NowhereForCause
  <2>3. InfosAreSound'
    BY <2>1 DEF WatchInv, InfosAreSound, InfoIsSound, IsRead
  <2>4. WatchersPoint' /\ Watch!CallbacksAreTheirs'
    BY <2>1 DEF WatchInv, WatchersPoint, Watch!Failed, Watch!CallbacksAreTheirs
  <2>5. Watch!ChangesAreTold' /\ Watch!LostForCause'
    BY <2>1 DEF WatchInv, Watch!ChangesAreTold, Watch!LostForCause
  <2> QED
    BY ONLY <2>2, <2>3, <2>4, <2>5 DEF WatchInv
<1>3. ASSUME NEW p \in Paths, NEW c \in Callbacks, Watch!Register(p, c), ~Watch!Lost PROVE WatchInv'
  BY <1>3, RegisterStep
<1>4. ASSUME NEW i \in 1 .. Len(infos), Watch!Change(i) PROVE WatchInv'
  BY <1>4, ChangeStep
<1>5. ASSUME NEW i \in 1 .. Len(infos), Watch!Completed(i) PROVE WatchInv'
  BY <1>5, CompletedStep
<1>6. ASSUME NEW quiet \in SUBSET (1 .. Len(infos)), Watch!Report(quiet) PROVE WatchInv'
  BY <1>6, ReportStep
<1>7. CASE Watch!Next
  BY <1>1, <1>3, <1>4, <1>5, <1>6, <1>7 DEF Watch!Next
<1> QED
  BY <1>2, <1>7

\* Until a registration fails callbacks are told of the changes in the directory
\* they were registered for; a change is not missed but in a crowd; and watching is
\* lost only for a cause: register_dir_watcher, FileIOCompletionRoutine and the pass
\* over the infos (source/rose/runtime.cpp:52-271).
THEOREM Watches == Spec => []WatchesAgree
<1> DEFINE IInv == kind = "watch" => WatchInv
<1>1. Init => IInv
  BY Begins, WatchBegins
<1>2. IInv /\ [Next]_vars => IInv'
  BY Steps, WatchSteps
<1>3. IInv => WatchesAgree
  BY DEF WatchInv, WatchesAgree, Watch!WatchesAgree
<1> QED
  BY <1>1, <1>2, <1>3, PTL DEF Spec

-----------------------------------------------------------------------------
(* Function objects                                                        *)

\* What an object that holds a functor is: of its own kind of buffer, with a
\* pointer to the heap where it needs one, and to the buffer it was given, which
\* an external function may have been made without.
HeapPlaces == {<<"heap", n>> : n \in 1 .. 4}

HasBuffer(x, p) == p = Fns!Exbuf[x] \/ (x = "external" /\ p = Fns!Null)

IsFn(x, fn, functor) ==
  /\ fn.functor = functor /\ fn.bs = Fns!BS[x] /\ fn.storage = Fns!Storage[x]
  /\ fn.storage # "heap" => HasBuffer(x, fn.ptr)
  /\ fn.storage = "heap" /\ ~Fns!EnableSFO(fn.bs, fn.functor) => fn.ptr \in HeapPlaces

\* Objects f hold the functors w, alive in the memory l.
Holds(f, l, w) ==
  /\ f = [x \in Fns!Objects |-> f[x]]
  /\ w \in [Fns!Objects -> Functors \cup {Fns!EmptyFn}]
  /\ \A x \in Fns!Objects : f[x] # Fns!Gone => IsFn(x, f[x], w[x])
  /\ \A x, y \in Fns!Objects : f[x] # Fns!Gone /\ f[y] # Fns!Gone /\ x # y =>
       Fns!Target(x, f[x]) # Fns!Target(y, f[y])
  /\ \A p : p \in DOMAIN l <=>
       \E x \in Fns!Objects : f[x] # Fns!Gone /\ p = Fns!Target(x, f[x])
  /\ \A x \in Fns!Objects : f[x] # Fns!Gone => l[Fns!Target(x, f[x])] = w[x]

RoomIsTaken ==
  fns["queued"] # Fns!Gone =>
    room = 1 + BufferSize + (IF Fns!EnableSFO(BufferSize, wanted["queued"])
                             THEN 0 ELSE Fns!Size(wanted["queued"]))

FnsInv == Holds(fns, live, wanted) /\ RoomIsTaken

\* The kinds of buffers there are.
LEMMA Buffers ==
  /\ Fns!Objects = {"f", "g", "external", "queued"}
  /\ Fns!Storage["f"] = "heap" /\ Fns!Storage["g"] = "heap"
  /\ Fns!Storage["external"] = "external" /\ Fns!Storage["queued"] = "relative"
  /\ \A x \in Fns!Objects : Fns!Storage[x] # "gone"
  /\ Fns!Exbuf["external"] = <<"given to", "external">> /\ Fns!Exbuf["queued"] = <<"given to", "queued">>
  /\ Fns!Exbuf["f"] = Fns!Null /\ Fns!Exbuf["g"] = Fns!Null
  /\ Fns!BS["f"] = BufferSize /\ Fns!BS["g"] = BufferSize
  /\ Fns!BS["external"] = BufferSize /\ Fns!BS["queued"] = QueuedSize
  BY DEF Fns!Objects, Fns!Storage, Fns!BS, Fns!Exbuf

\* Where objects keep functors: no place is two objects', but on the heap.
LEMMA PlaceOf ==
  ASSUME NEW x \in Fns!Objects, NEW fn, NEW v, IsFn(x, fn, v)
  PROVE  \/ Fns!Target(x, fn) = <<"inside", x>>
         \/ x \in {"external", "queued"} /\ Fns!Target(x, fn) = <<"given to", x>>
         \/ x = "external" /\ Fns!Target(x, fn) = Fns!Null
         \/ x \in {"f", "g"} /\ Fns!Target(x, fn) \in HeapPlaces
  BY Buffers DEF IsFn, HasBuffer, Fns!Target

LEMMA PlacesDiffer ==
  /\ \A x, y \in Fns!Objects : x # y => <<"inside", x>> # <<"inside", y>>
  /\ \A x, y \in Fns!Objects : <<"inside", x>> # <<"given to", y>>
  /\ \A x, y \in Fns!Objects : x # y => <<"given to", x>> # <<"given to", y>>
  /\ \A x \in Fns!Objects : <<"inside", x>> \notin HeapPlaces /\ <<"given to", x>> \notin HeapPlaces
  /\ \A x \in Fns!Objects : <<"inside", x>> # Fns!Null /\ <<"given to", x>> # Fns!Null
  /\ Fns!Null \notin HeapPlaces
  BY DEF HeapPlaces, Fns!Null

\* An object that is there is not gone.
LEMMA FnIsThere ==
  ASSUME NEW x \in Fns!Objects, NEW fn, NEW v, IsFn(x, fn, v)
  PROVE  fn # Fns!Gone
<1>1. Fns!Gone.storage = "gone"
  BY DEF Fns!Gone
<1> QED
  BY <1>1, Buffers DEF IsFn

\* A function changed for one argument, and one that has one more.
OnObjects(f) == f = [y \in Fns!Objects |-> f[y]]
Replaces(g, f, x, fn) == g = [f EXCEPT ![x] = fn]
Adds(k, l, p, v) == k = [q \in DOMAIN l \cup {p} |-> IF q = p THEN v ELSE l[q]]
Constructed(r, f, l, x, functor, exbuf, value) ==
  r = Fns!Construct(Fns!MkVtable([fns |-> f, live |-> l], x, Fns!BS[x], Fns!Storage[x], functor),
                    x, exbuf, value)

Assigned(r, f, l, x, y) == r = Fns!AssignInto([fns |-> f, live |-> l], x, y)

\* A buffer outside of an object is the one it was given, if it was given one.
Buffered(f, x, exbuf) ==
  Fns!Storage[x] # "heap" =>
    HasBuffer(x, IF exbuf # Fns!Null THEN exbuf
             ELSE IF f[x] = Fns!Gone THEN Fns!Null ELSE f[x].ptr)

Construction(fn, r, f, l, x, functor, exbuf, value) ==
  /\ fn.functor = functor /\ fn.bs = Fns!BS[x] /\ fn.storage = Fns!Storage[x]
  /\ fn.storage # "heap" =>
       fn.ptr = IF exbuf # Fns!Null THEN exbuf
                ELSE IF f[x] = Fns!Gone THEN Fns!Null ELSE f[x].ptr
  /\ fn.storage = "heap" /\ ~Fns!EnableSFO(fn.bs, functor) =>
       fn.ptr = CHOOSE p \in HeapPlaces : p \notin DOMAIN l
  /\ Replaces(r.fns, f, x, fn)
  /\ Adds(r.live, l, Fns!Target(x, fn), value)

\* What is destroyed leaves its place.
LEMMA Destroys ==
  ASSUME NEW f, NEW l, NEW w, Holds(f, l, w), NEW x \in Fns!Objects, f[x] # Fns!Gone,
         NEW g, Replaces(g, f, x, Fns!Gone),
         NEW k, k = [p \in DOMAIN l \ {Fns!Target(x, f[x])} |-> l[p]],
         NEW v, Replaces(v, w, x, Fns!EmptyFn)
  PROVE  Holds(g, k, v)
<1>1. /\ g = [y \in Fns!Objects |-> g[y]]
      /\ g[x] = Fns!Gone /\ \A y \in Fns!Objects : y # x => g[y] = f[y]
  BY DEF Holds, Replaces
<1>2. /\ v \in [Fns!Objects -> Functors \cup {Fns!EmptyFn}]
      /\ \A y \in Fns!Objects : y # x => v[y] = w[y]
  BY DEF Holds, Replaces
<1>3. /\ \A y \in Fns!Objects : f[y] # Fns!Gone => IsFn(y, f[y], w[y])
      /\ \A y, z \in Fns!Objects : f[y] # Fns!Gone /\ f[z] # Fns!Gone /\ y # z =>
           Fns!Target(y, f[y]) # Fns!Target(z, f[z])
      /\ \A p : p \in DOMAIN l <=>
           \E y \in Fns!Objects : f[y] # Fns!Gone /\ p = Fns!Target(y, f[y])
      /\ \A y \in Fns!Objects : f[y] # Fns!Gone => l[Fns!Target(y, f[y])] = w[y]
  BY DEF Holds
<1>4. \A y \in Fns!Objects : g[y] # Fns!Gone => y # x /\ g[y] = f[y] /\ v[y] = w[y]
  BY <1>1, <1>2
<1>5. /\ DOMAIN k = DOMAIN l \ {Fns!Target(x, f[x])}
      /\ \A p \in DOMAIN k : k[p] = l[p]
  OBVIOUS
<1>6. \A y \in Fns!Objects : g[y] # Fns!Gone => IsFn(y, g[y], v[y])
  BY <1>3, <1>4
<1>7. \A y, z \in Fns!Objects : g[y] # Fns!Gone /\ g[z] # Fns!Gone /\ y # z =>
        Fns!Target(y, g[y]) # Fns!Target(z, g[z])
  BY <1>3, <1>4
<1>8. \A p : p \in DOMAIN k <=>
        \E y \in Fns!Objects : g[y] # Fns!Gone /\ p = Fns!Target(y, g[y])
  BY ONLY <1>1, <1>3, <1>4, <1>5, f[x] # Fns!Gone, x \in Fns!Objects
<1>9. \A y \in Fns!Objects : g[y] # Fns!Gone => k[Fns!Target(y, g[y])] = v[y]
  BY ONLY <1>3, <1>4, <1>5, <1>8
<1> QED
  BY <1>1, <1>2, <1>6, <1>7, <1>8, <1>9 DEF Holds

\* What is constructed lives in a place where nothing lives.
LEMMA Constructs ==
  ASSUME NEW f, NEW l, NEW w, Holds(f, l, w), NEW x \in Fns!Objects, f[x] = Fns!Gone,
         NEW functor \in Functors \cup {Fns!EmptyFn},
         NEW fn, IsFn(x, fn, functor), Fns!Target(x, fn) \notin DOMAIN l,
         NEW g, Replaces(g, f, x, fn),
         NEW k, Adds(k, l, Fns!Target(x, fn), functor),
         NEW v, Replaces(v, w, x, functor)
  PROVE  Holds(g, k, v)
<1>1. /\ g = [y \in Fns!Objects |-> g[y]]
      /\ g[x] = fn /\ \A y \in Fns!Objects : y # x => g[y] = f[y]
  BY DEF Holds, Replaces
<1>2. /\ v \in [Fns!Objects -> Functors \cup {Fns!EmptyFn}]
      /\ v[x] = functor /\ \A y \in Fns!Objects : y # x => v[y] = w[y]
  BY DEF Holds, Replaces
<1>3. /\ \A y \in Fns!Objects : f[y] # Fns!Gone => IsFn(y, f[y], w[y])
      /\ \A y, z \in Fns!Objects : f[y] # Fns!Gone /\ f[z] # Fns!Gone /\ y # z =>
           Fns!Target(y, f[y]) # Fns!Target(z, f[z])
      /\ \A p : p \in DOMAIN l <=>
           \E y \in Fns!Objects : f[y] # Fns!Gone /\ p = Fns!Target(y, f[y])
      /\ \A y \in Fns!Objects : f[y] # Fns!Gone => l[Fns!Target(y, f[y])] = w[y]
  BY DEF Holds
<1>4. \A y \in Fns!Objects : y # x => g[y] = f[y] /\ v[y] = w[y]
  BY <1>1, <1>2
<1>5. /\ DOMAIN k = DOMAIN l \cup {Fns!Target(x, fn)}
      /\ k[Fns!Target(x, fn)] = functor
      /\ \A p \in DOMAIN l : k[p] = l[p]
  BY DEF Adds
<1>6. g[x] # Fns!Gone
  BY <1>1, FnIsThere
<1>7. \A y \in Fns!Objects : g[y] # Fns!Gone => IsFn(y, g[y], v[y])
  BY <1>1, <1>2, <1>3, <1>4
<1>8. \A y \in Fns!Objects : y # x /\ g[y] # Fns!Gone =>
        Fns!Target(y, g[y]) \in DOMAIN l /\ g[y] = f[y]
  BY <1>3, <1>4
<1>9. \A y, z \in Fns!Objects : g[y] # Fns!Gone /\ g[z] # Fns!Gone /\ y # z =>
        Fns!Target(y, g[y]) # Fns!Target(z, g[z])
  <2> TAKE y, z \in Fns!Objects
  <2> HAVE g[y] # Fns!Gone /\ g[z] # Fns!Gone /\ y # z
  <2>1. CASE y = x \/ z = x
    BY <1>1, <1>8, <2>1
  <2>2. CASE y # x /\ z # x
    BY <1>3, <1>4, <2>2
  <2> QED
    BY <2>1, <2>2
<1>10. \A p : p \in DOMAIN k <=>
        \E y \in Fns!Objects : g[y] # Fns!Gone /\ p = Fns!Target(y, g[y])
  <2> TAKE p
  <2>1. ASSUME p \in DOMAIN k
        PROVE  \E y \in Fns!Objects : g[y] # Fns!Gone /\ p = Fns!Target(y, g[y])
    <3>1. CASE p = Fns!Target(x, fn)
      BY <1>1, <1>6, <3>1
    <3>2. CASE p \in DOMAIN l
      <4>1. PICK y \in Fns!Objects : f[y] # Fns!Gone /\ p = Fns!Target(y, f[y])
        BY <1>3, <3>2
      <4> QED
        BY <1>4, <4>1
    <3> QED
      BY <1>5, <2>1, <3>1, <3>2
  <2>2. ASSUME NEW y \in Fns!Objects, g[y] # Fns!Gone, p = Fns!Target(y, g[y])
        PROVE  p \in DOMAIN k
    BY <1>1, <1>5, <1>8, <2>2
  <2> QED
    BY <2>1, <2>2
<1>11. \A y \in Fns!Objects : g[y] # Fns!Gone => k[Fns!Target(y, g[y])] = v[y]
  <2> TAKE y \in Fns!Objects
  <2> HAVE g[y] # Fns!Gone
  <2>1. CASE y = x
    BY <1>1, <1>2, <1>5, <2>1
  <2>2. CASE y # x
    BY <1>3, <1>4, <1>5, <1>8, <2>2
  <2> QED
    BY <2>1, <2>2
<1> QED
  BY <1>1, <1>2, <1>7, <1>9, <1>10, <1>11 DEF Holds

\* The places that are only an object's own are free while it is gone.
LEMMA OwnPlacesAreFree ==
  ASSUME NEW f, NEW l, NEW w, Holds(f, l, w), NEW x \in Fns!Objects, f[x] = Fns!Gone
  PROVE  /\ <<"inside", x>> \notin DOMAIN l /\ <<"given to", x>> \notin DOMAIN l
         /\ x = "external" => Fns!Null \notin DOMAIN l
<1> SUFFICES ASSUME NEW p \in DOMAIN l
             PROVE  /\ p # <<"inside", x>> /\ p # <<"given to", x>>
                    /\ x = "external" => p # Fns!Null
  OBVIOUS
<1>1. PICK y \in Fns!Objects : f[y] # Fns!Gone /\ p = Fns!Target(y, f[y])
  BY DEF Holds
<1>2. y # x /\ IsFn(y, f[y], w[y])
  BY <1>1 DEF Holds
<1>3. \/ p = <<"inside", y>>
      \/ p = <<"given to", y>>
      \/ y = "external" /\ p = Fns!Null
      \/ p \in HeapPlaces
  BY <1>1, <1>2, PlaceOf
<1> QED
  BY <1>2, <1>3, PlacesDiffer

\* There is a free place on the heap for the one of f and g that is gone.
LEMMA HeapHasRoom ==
  ASSUME NEW f, NEW l, NEW w, Holds(f, l, w), NEW x \in {"f", "g"}, f[x] = Fns!Gone
  PROVE  \E p \in HeapPlaces : p \notin DOMAIN l
<1> SUFFICES ASSUME <<"heap", 1>> \in DOMAIN l, <<"heap", 2>> \in DOMAIN l PROVE FALSE
  BY DEF HeapPlaces
<1>1. PICK y \in Fns!Objects : f[y] # Fns!Gone /\ <<"heap", 1>> = Fns!Target(y, f[y])
  BY DEF Holds
<1>2. PICK z \in Fns!Objects : f[z] # Fns!Gone /\ <<"heap", 2>> = Fns!Target(z, f[z])
  BY DEF Holds
<1>3. IsFn(y, f[y], w[y]) /\ IsFn(z, f[z], w[z])
  BY <1>1, <1>2 DEF Holds
<1>4. <<"heap", 1>> \in HeapPlaces /\ <<"heap", 2>> \in HeapPlaces /\ <<"heap", 1>> # <<"heap", 2>>
  BY DEF HeapPlaces
<1>5. y \in {"f", "g"}
  BY <1>1, <1>3, <1>4, PlaceOf, PlacesDiffer
<1>6. z \in {"f", "g"}
  BY <1>2, <1>3, <1>4, PlaceOf, PlacesDiffer
<1> QED
  BY <1>1, <1>2, <1>4, <1>5, <1>6

\* What constructing over a new vtable comes to.
LEMMA ConstructIs ==
  ASSUME NEW f, NEW l, NEW x \in Fns!Objects, OnObjects(f),
         NEW functor, NEW exbuf, NEW value, NEW r,
         Constructed(r, f, l, x, functor, exbuf, value)
  PROVE  \E fn : Construction(fn, r, f, l, x, functor, exbuf, value)
<1> DEFINE old == IF f[x] = Fns!Gone THEN Fns!Null ELSE f[x].ptr
           typed == [functor |-> functor, bs |-> Fns!BS[x], storage |-> Fns!Storage[x], ptr |-> old]
           m == Fns!MkVtable([fns |-> f, live |-> l], x, Fns!BS[x], Fns!Storage[x], functor)
<1>0. f = [y \in Fns!Objects |-> f[y]]
  BY DEF OnObjects
<1>1. m = [fns |-> [f EXCEPT ![x] = typed], live |-> l]
  BY DEF Fns!MkVtable
<1> HIDE DEF m
<1>2. m.fns[x] = typed /\ m.fns = [f EXCEPT ![x] = typed] /\ m.live = l
  BY <1>0, <1>1
<1> DEFINE ptr == IF Fns!Storage[x] # "heap" THEN (IF exbuf = Fns!Null THEN old ELSE exbuf)
                  ELSE IF Fns!EnableSFO(Fns!BS[x], functor) THEN old ELSE Fns!NewPlace(m)
           made == [typed EXCEPT !.ptr = ptr]
<1>3. /\ typed.functor = functor /\ typed.bs = Fns!BS[x] /\ typed.storage = Fns!Storage[x]
      /\ typed.ptr = old
  OBVIOUS
<1>4. Fns!NewPlace(m) = CHOOSE p \in HeapPlaces : p \notin DOMAIN l
  BY <1>2 DEF Fns!NewPlace, HeapPlaces
<1>5. /\ made.functor = functor /\ made.bs = Fns!BS[x] /\ made.storage = Fns!Storage[x]
      /\ made.ptr = ptr
  OBVIOUS
<1> HIDE DEF typed, old
<1>6. r = [fns |-> [m.fns EXCEPT ![x] = made],
           live |-> [p \in DOMAIN m.live \cup {Fns!Target(x, made)} |->
                       IF p = Fns!Target(x, made) THEN value ELSE m.live[p]]]
  BY <1>2, <1>3 DEF Constructed, Fns!Construct, m
<1>7. ptr = IF Fns!Storage[x] # "heap" THEN (IF exbuf = Fns!Null THEN old ELSE exbuf)
            ELSE IF Fns!EnableSFO(Fns!BS[x], functor) THEN old ELSE Fns!NewPlace(m)
  OBVIOUS
<1> HIDE DEF made, ptr
<1>8. Replaces(r.fns, f, x, made)
  BY <1>0, <1>2, <1>6 DEF Replaces
<1>9. Adds(r.live, l, Fns!Target(x, made), value)
  BY <1>2, <1>6 DEF Adds
<1>10. made.storage # "heap" => made.ptr = IF exbuf # Fns!Null THEN exbuf ELSE old
  BY <1>5, <1>7
<1>11. made.storage = "heap" /\ ~Fns!EnableSFO(made.bs, functor) =>
         made.ptr = CHOOSE p \in HeapPlaces : p \notin DOMAIN l
  BY <1>4, <1>5, <1>7
<1>12. old = IF f[x] = Fns!Gone THEN Fns!Null ELSE f[x].ptr
  BY DEF old
<1> QED
  BY ONLY <1>5, <1>8, <1>9, <1>10, <1>11, <1>12 DEF Construction

\* An object that is given a functor holds it.
LEMMA Gives ==
  ASSUME NEW f, NEW g, NEW l, NEW w, NEW v, NEW x \in Fns!Objects,
         OnObjects(f), Replaces(g, f, x, Fns!Gone), Holds(g, l, w),
         NEW functor \in Functors \cup {Fns!EmptyFn}, Replaces(v, w, x, functor),
         NEW exbuf, Buffered(f, x, exbuf), NEW r,
         Constructed(r, f, l, x, functor, exbuf, functor)
  PROVE  /\ Holds(r.fns, r.live, v)
         /\ r.fns[x] # Fns!Gone /\ \A y \in Fns!Objects : y # x => r.fns[y] = f[y]
<1>0. PICK fn : Construction(fn, r, f, l, x, functor, exbuf, functor)
  BY ConstructIs
<1>1. /\ fn.functor = functor /\ fn.bs = Fns!BS[x] /\ fn.storage = Fns!Storage[x]
      /\ fn.storage # "heap" =>
           fn.ptr = IF exbuf # Fns!Null THEN exbuf
                    ELSE IF f[x] = Fns!Gone THEN Fns!Null ELSE f[x].ptr
      /\ fn.storage = "heap" /\ ~Fns!EnableSFO(fn.bs, functor) =>
           fn.ptr = CHOOSE p \in HeapPlaces : p \notin DOMAIN l
      /\ Replaces(r.fns, f, x, fn)
      /\ Adds(r.live, l, Fns!Target(x, fn), functor)
  BY <1>0 DEF Construction
<1>2. g[x] = Fns!Gone /\ Replaces(r.fns, g, x, fn)
  BY <1>1 DEF Replaces, OnObjects
<1>3. /\ <<"inside", x>> \notin DOMAIN l /\ <<"given to", x>> \notin DOMAIN l
      /\ x = "external" => Fns!Null \notin DOMAIN l
  BY <1>2, OwnPlacesAreFree
<1>4. fn.storage = "heap" /\ ~Fns!EnableSFO(fn.bs, functor) =>
        fn.ptr \in HeapPlaces /\ fn.ptr \notin DOMAIN l
  <2> SUFFICES ASSUME fn.storage = "heap", ~Fns!EnableSFO(fn.bs, functor)
               PROVE  fn.ptr \in HeapPlaces /\ fn.ptr \notin DOMAIN l
    OBVIOUS
  <2>1. x \in {"f", "g"}
    BY <1>1, Buffers
  <2>2. \E p \in HeapPlaces : p \notin DOMAIN l
    BY <1>2, <2>1, HeapHasRoom
  <2> QED
    BY <1>1, <2>2
<1>5. IsFn(x, fn, functor)
  BY <1>1, <1>4 DEF IsFn, Buffered
<1>6. Fns!Target(x, fn) \notin DOMAIN l
  <2>1. CASE Fns!EnableSFO(fn.bs, functor)
    BY <1>1, <1>3, <2>1 DEF Fns!Target
  <2>2. CASE ~Fns!EnableSFO(fn.bs, functor) /\ fn.storage = "heap"
    BY <1>1, <1>4, <2>2 DEF Fns!Target
  <2>3. CASE ~Fns!EnableSFO(fn.bs, functor) /\ fn.storage # "heap"
    <3>1. fn.ptr = <<"given to", x>> \/ (x = "external" /\ fn.ptr = Fns!Null)
      BY <1>1, <2>3, Buffers DEF Buffered, HasBuffer
    <3> QED
      BY <1>1, <1>3, <2>3, <3>1 DEF Fns!Target
  <2> QED
    BY <2>1, <2>2, <2>3
<1>7. Holds(r.fns, r.live, v)
  BY <1>1, <1>2, <1>5, <1>6, Constructs
<1>8. r.fns[x] = fn /\ \A y \in Fns!Objects : y # x => r.fns[y] = f[y]
  BY <1>1 DEF Replaces, OnObjects
<1>9. fn # Fns!Gone
  BY <1>5, FnIsThere
<1> QED
  BY <1>7, <1>8, <1>9

\* An object that is there gives what it holds.
LEMMA HeldIs ==
  ASSUME NEW f, NEW l, NEW w, Holds(f, l, w), NEW y \in Fns!Objects, f[y] # Fns!Gone
  PROVE  /\ f[y].functor = w[y] /\ w[y] \in Functors \cup {Fns!EmptyFn}
         /\ f[y].bs = Fns!BS[y] /\ f[y].storage = Fns!Storage[y]
         /\ Fns!ValueOf([fns |-> f, live |-> l], y) = w[y]
<1>1. IsFn(y, f[y], w[y]) /\ l[Fns!Target(y, f[y])] = w[y] /\ w[y] \in Functors \cup {Fns!EmptyFn}
  BY DEF Holds
<1> QED
  BY <1>1 DEF IsFn, Fns!ValueOf

\* Assigning gives an object what another holds.
LEMMA Assigns ==
  ASSUME NEW f, NEW l, NEW w, NEW v, Holds(f, l, w),
         NEW x \in Fns!Objects, NEW y \in Fns!Objects, x # y, f[x] # Fns!Gone, f[y] # Fns!Gone,
         Replaces(v, w, x, w[y]),
         NEW r, Assigned(r, f, l, x, y)
  PROVE  /\ Holds(r.fns, r.live, v)
         /\ r.fns[x] # Fns!Gone /\ \A z \in Fns!Objects : z # x => r.fns[z] = f[z]
<1> DEFINE k == [p \in DOMAIN l \ {Fns!Target(x, f[x])} |-> l[p]]
           g == [f EXCEPT ![x] = Fns!Gone]
           u == [w EXCEPT ![x] = Fns!EmptyFn]
<1>1. Replaces(g, f, x, Fns!Gone) /\ Replaces(u, w, x, Fns!EmptyFn)
  BY DEF Replaces
<1>2. k = [p \in DOMAIN l \ {Fns!Target(x, f[x])} |-> l[p]]
  OBVIOUS
<1>3. OnObjects(f) /\ w \in [Fns!Objects -> Functors \cup {Fns!EmptyFn}]
  BY DEF Holds, OnObjects
<1>4. Replaces(v, u, x, w[y])
  BY <1>3 DEF Replaces
<1>5. Fns!Destruct([fns |-> f, live |-> l], x) = [fns |-> f, live |-> k]
  BY DEF Fns!Destruct
<1> HIDE DEF k, g, u
<1>6. Holds(g, k, u)
  BY <1>1, <1>2, Destroys
<1>7. Constructed(r, f, k, x, w[y], Fns!Null, w[y])
  <2>1. /\ f[y].functor = w[y] /\ f[x].bs = Fns!BS[x] /\ f[x].storage = Fns!Storage[x]
        /\ Fns!ValueOf([fns |-> f, live |-> l], y) = w[y]
    BY HeldIs
  <2> QED
    BY <1>5, <2>1 DEF Assigned, Fns!AssignInto, Constructed
<1>8. Buffered(f, x, Fns!Null)
  <2>1. IsFn(x, f[x], w[x])
    BY DEF Holds
  <2> QED
    BY <2>1 DEF IsFn, Buffered
<1>9. w[y] \in Functors \cup {Fns!EmptyFn}
  BY HeldIs
<1> QED
  BY <1>1, <1>3, <1>4, <1>6, <1>7, <1>8, <1>9, Gives

\* An object that is made is given its buffer, or none.
LEMMA Fresh ==
  ASSUME NEW x \in Fns!Objects, NEW f
  PROVE  /\ Buffered(f, x, Fns!Exbuf[x])
         /\ x # "queued" /\ f[x] = Fns!Gone => Buffered(f, x, Fns!Null)
<1>1. <<"given to", "external">> # Fns!Null /\ <<"given to", "queued">> # Fns!Null
  BY DEF Fns!Null
<1> QED
  BY <1>1, Buffers DEF Buffered, HasBuffer

\* An object made empty with its buffer, and assigned what another holds, holds that.
LEMMA Copies ==
  ASSUME Holds(fns, live, wanted), NEW x \in Fns!Objects, NEW y \in Fns!Objects, x # y,
         fns[x] = Fns!Gone, fns[y] # Fns!Gone, NEW v, Replaces(v, wanted, x, wanted[y]),
         NEW r, r = Fns!FromBuffered(Fns!Memory, x, y)
  PROVE  Holds(r.fns, r.live, v) /\ \A z \in Fns!Objects : z # x => r.fns[z] = fns[z]
<1> DEFINE q == Fns!FromFunctor(Fns!Memory, x, Fns!EmptyFn, Fns!Exbuf[x])
           u == [wanted EXCEPT ![x] = Fns!EmptyFn]
<1>1. r = Fns!AssignInto(q, x, y)
  BY DEF Fns!FromBuffered
<1>2. /\ OnObjects(fns) /\ wanted \in [Fns!Objects -> Functors \cup {Fns!EmptyFn}]
      /\ Fns!EmptyFn \in Functors \cup {Fns!EmptyFn}
  BY DEF Holds, OnObjects
<1>3. Constructed(q, fns, live, x, Fns!EmptyFn, Fns!Exbuf[x], Fns!EmptyFn)
  BY DEF Fns!FromFunctor, Fns!Memory, Constructed
<1>4. q = [fns |-> q.fns, live |-> q.live]
  BY DEF Fns!FromFunctor, Fns!Construct
<1>5. /\ Replaces(fns, fns, x, Fns!Gone) /\ Replaces(u, wanted, x, Fns!EmptyFn)
      /\ Replaces(v, u, x, u[y])
  <2>1. u[y] = wanted[y]
    BY <1>2
  <2> QED
    BY <1>2, <2>1 DEF Replaces, OnObjects
<1> HIDE DEF q, u
<1>6. Buffered(fns, x, Fns!Exbuf[x])
  BY Fresh
<1>7. /\ Holds(q.fns, q.live, u)
      /\ q.fns[x] # Fns!Gone
      /\ \A z \in Fns!Objects : z # x => q.fns[z] = fns[z]
  BY <1>2, <1>3, <1>5, <1>6, Gives
<1>8. Assigned(r, q.fns, q.live, x, y)
  BY <1>1, <1>4 DEF Assigned
<1>9. q.fns[y] # Fns!Gone
  BY <1>7
<1>10. Holds(r.fns, r.live, v) /\ \A z \in Fns!Objects : z # x => r.fns[z] = q.fns[z]
  BY <1>5, <1>7, <1>8, <1>9, Assigns
<1> QED
  BY <1>7, <1>10

-----------------------------------------------------------------------------
\* What the object in the queue was given room for.
LEMMA RoomStays ==
  ASSUME RoomIsTaken, wanted'["queued"] = wanted["queued"], fns'["queued"] = fns["queued"],
         room' = room
  PROVE  RoomIsTaken'
  BY DEF RoomIsTaken

LEMMA MakeStep ==
  ASSUME FnsInv, NEW x \in Fns!Objects, NEW functor \in Functors \cup {Fns!EmptyFn},
         Fns!Make(x, functor)
  PROVE  FnsInv'
<1> DEFINE exbuf == IF functor = Fns!EmptyFn THEN Fns!Null ELSE Fns!Exbuf[x]
           r == Fns!FromFunctor(Fns!Memory, x, functor, exbuf)
<1>1. /\ x # "queued" /\ fns[x] = Fns!Gone /\ fns' = r.fns /\ live' = r.live /\ room' = room
      /\ Replaces(wanted', wanted, x, functor)
  BY DEF Fns!Make, Fns!Is, Fns!Become, Fns!Assignable, Replaces
<1>2. /\ Holds(fns, live, wanted) /\ OnObjects(fns) /\ Replaces(fns, fns, x, Fns!Gone)
      /\ wanted \in [Fns!Objects -> Functors \cup {Fns!EmptyFn}]
  BY <1>1 DEF FnsInv, Holds, OnObjects, Replaces
<1>3. Constructed(r, fns, live, x, functor, exbuf, functor)
  BY DEF Fns!FromFunctor, Fns!Memory, Constructed
<1>a. Buffered(fns, x, exbuf)
  BY <1>1, Fresh
<1> HIDE DEF r, exbuf
<1>4. /\ Holds(r.fns, r.live, wanted')
      /\ \A y \in Fns!Objects : y # x => r.fns[y] = fns[y]
  BY <1>1, <1>2, <1>3, <1>a, Gives
<1>5. RoomIsTaken'
  <2>1. fns'["queued"] = fns["queued"] /\ wanted'["queued"] = wanted["queued"]
    BY <1>1, <1>2, <1>4, Buffers DEF Replaces
  <2> QED
    BY <1>1, <2>1, RoomStays DEF FnsInv
<1> QED
  BY <1>1, <1>4, <1>5 DEF FnsInv

LEMMA MakeFromStep ==
  ASSUME FnsInv, NEW x \in Fns!Assignable, NEW y \in Fns!Assignable, Fns!MakeFrom(x, y)
  PROVE  FnsInv'
<1> DEFINE r == IF Fns!Storage[x] = "heap" THEN Fns!FromFunction(Fns!Memory, x, y)
                ELSE Fns!FromBuffered(Fns!Memory, x, y)
<1>0. x \in Fns!Objects /\ y \in Fns!Objects /\ x # "queued"
  BY DEF Fns!Assignable
<1>1. /\ fns[x] = Fns!Gone /\ fns[y] # Fns!Gone
      /\ fns' = r.fns /\ live' = r.live /\ room' = room
      /\ Replaces(wanted', wanted, x, wanted[y])
  BY DEF Fns!MakeFrom, Fns!Is, Fns!Become, Replaces
<1>2. /\ Holds(fns, live, wanted) /\ OnObjects(fns) /\ Replaces(fns, fns, x, Fns!Gone)
      /\ wanted \in [Fns!Objects -> Functors \cup {Fns!EmptyFn}]
  BY <1>1 DEF FnsInv, Holds, OnObjects, Replaces
<1>3. /\ fns[y].functor = wanted[y] /\ wanted[y] \in Functors \cup {Fns!EmptyFn}
      /\ Fns!ValueOf([fns |-> fns, live |-> live], y) = wanted[y]
  BY <1>0, <1>1, <1>2, HeldIs
<1>4. Fns!Storage[x] = "heap" => Constructed(r, fns, live, x, wanted[y], Fns!Null, wanted[y])
  BY <1>3 DEF Fns!FromFunction, Fns!Memory, Constructed
<1>a. Fns!Storage[x] # "heap" => r = Fns!FromBuffered(Fns!Memory, x, y)
  OBVIOUS
<1> HIDE DEF r
<1>5. /\ Holds(r.fns, r.live, wanted')
      /\ \A z \in Fns!Objects : z # x => r.fns[z] = fns[z]
  <2>1. CASE Fns!Storage[x] = "heap"
    <3>1. Buffered(fns, x, Fns!Null)
      BY <2>1 DEF Buffered
    <3> QED
      BY <1>0, <1>1, <1>2, <1>3, <1>4, <2>1, <3>1, Gives
  <2>2. CASE Fns!Storage[x] # "heap"
    <3>1. x # y
      BY <1>1
    <3> QED
      BY <1>0, <1>1, <1>2, <1>a, <2>2, <3>1, Copies
  <2> QED
    BY <2>1, <2>2
<1>6. RoomIsTaken'
  <2>1. fns'["queued"] = fns["queued"] /\ wanted'["queued"] = wanted["queued"]
    BY <1>0, <1>1, <1>2, <1>5, Buffers DEF Replaces
  <2> QED
    BY <1>1, <2>1, RoomStays DEF FnsInv
<1> QED
  BY <1>1, <1>5, <1>6 DEF FnsInv

LEMMA AssignStep ==
  ASSUME FnsInv, NEW x \in Fns!Assignable, NEW y \in Fns!Assignable, Fns!Assign(x, y)
  PROVE  FnsInv'
<1> DEFINE r == Fns!AssignInto(Fns!Memory, x, y)
<1>0. x \in Fns!Objects /\ y \in Fns!Objects /\ x # "queued"
  BY DEF Fns!Assignable
<1>1. /\ x # y /\ fns[x] # Fns!Gone /\ fns[y] # Fns!Gone
      /\ fns' = r.fns /\ live' = r.live /\ room' = room
      /\ Replaces(wanted', wanted, x, wanted[y])
  BY DEF Fns!Assign, Fns!Is, Fns!Become, Replaces
<1>2. Holds(fns, live, wanted) /\ wanted \in [Fns!Objects -> Functors \cup {Fns!EmptyFn}]
  BY DEF FnsInv, Holds
<1>3. Assigned(r, fns, live, x, y)
  BY DEF Assigned, Fns!Memory
<1> HIDE DEF r
<1>4. /\ Holds(r.fns, r.live, wanted')
      /\ \A z \in Fns!Objects : z # x => r.fns[z] = fns[z]
  <2>1. /\ x # y /\ fns[x] # Fns!Gone /\ fns[y] # Fns!Gone
        /\ Replaces(wanted', wanted, x, wanted[y])
    BY <1>1
  <2>2. Holds(fns, live, wanted)
    BY <1>2
  <2> QED
    BY ONLY <1>0, <2>1, <2>2, <1>3, Assigns
<1>5. RoomIsTaken'
  <2>1. fns'["queued"] = fns["queued"] /\ wanted'["queued"] = wanted["queued"]
    BY <1>0, <1>1, <1>2, <1>4, Buffers DEF Replaces
  <2> QED
    BY <1>1, <2>1, RoomStays DEF FnsInv
<1> QED
  BY <1>1, <1>4, <1>5 DEF FnsInv

LEMMA DestroyedStep ==
  ASSUME FnsInv, NEW x \in Fns!Objects, Fns!Destroyed(x)
  PROVE  FnsInv'
<1>1. /\ fns[x] # Fns!Gone /\ Replaces(fns', fns, x, Fns!Gone)
      /\ live' = [p \in DOMAIN live \ {Fns!Target(x, fns[x])} |-> live[p]]
      /\ Replaces(wanted', wanted, x, Fns!EmptyFn)
      /\ x # "queued" => room' = room
  BY DEF Fns!Destroyed, Fns!Is, Fns!Destruct, Fns!Memory, Replaces
<1>2. /\ Holds(fns, live, wanted) /\ OnObjects(fns)
      /\ wanted \in [Fns!Objects -> Functors \cup {Fns!EmptyFn}]
  BY DEF FnsInv, Holds, OnObjects
<1>3. Holds(fns', live', wanted')
  BY <1>1, <1>2, Destroys
<1>4. RoomIsTaken'
  <2>1. CASE x = "queued"
    BY <1>1, <1>2, <2>1 DEF Replaces, OnObjects, RoomIsTaken
  <2>2. CASE x # "queued"
    <3>1. fns'["queued"] = fns["queued"] /\ wanted'["queued"] = wanted["queued"]
      BY <1>1, <1>2, <2>2, Buffers DEF Replaces, OnObjects
    <3> QED
      BY <1>1, <2>2, <3>1, RoomStays DEF FnsInv
  <2> QED
    BY <2>1, <2>2
<1> QED
  BY <1>3, <1>4 DEF FnsInv

LEMMA EnqueueStep ==
  ASSUME FnsInv, NEW x \in Fns!Objects, Fns!Enqueue(x)
  PROVE  FnsInv'
<1> DEFINE r == Fns!FromBuffered(Fns!Memory, "queued", x)
<1>1. /\ fns[x] # Fns!Gone /\ Fns!Storage[x] = "heap" /\ fns["queued"] = Fns!Gone
      /\ fns' = r.fns /\ live' = r.live
      /\ Replaces(wanted', wanted, "queued", wanted[x])
      /\ room' = 1 + BufferSize + Fns!ExternalSize(fns[x])
  BY DEF Fns!Enqueue, Fns!Is, Fns!Become, Replaces
<1>2. /\ Holds(fns, live, wanted) /\ OnObjects(fns)
      /\ wanted \in [Fns!Objects -> Functors \cup {Fns!EmptyFn}]
  BY DEF FnsInv, Holds, OnObjects
<1>3. "queued" \in Fns!Objects /\ x # "queued" /\ x \in {"f", "g"}
  BY <1>1, Buffers
<1> HIDE DEF r
<1>9. Holds(r.fns, r.live, wanted')
  <2>1. r = Fns!FromBuffered(Fns!Memory, "queued", x)
    BY DEF r
  <2> QED
    BY <1>1, <1>2, <1>3, <2>1, Copies
<1>10. RoomIsTaken'
  <2>1. fns[x].bs = BufferSize /\ fns[x].functor = wanted[x]
    <3>1. x \in Fns!Objects /\ Fns!BS[x] = BufferSize
      BY <1>3, Buffers
    <3>2. IsFn(x, fns[x], wanted[x])
      BY <1>1, <1>2, <3>1 DEF Holds
    <3> QED
      BY <3>1, <3>2 DEF IsFn
  <2>2. wanted'["queued"] = wanted[x]
    BY <1>1, <1>2, <1>3 DEF Replaces
  <2> QED
    BY <1>1, <2>1, <2>2 DEF RoomIsTaken, Fns!ExternalSize
<1> QED
  BY <1>1, <1>9, <1>10 DEF FnsInv

-----------------------------------------------------------------------------
LEMMA FnsBegin == Fns!Init => FnsInv
<1> SUFFICES ASSUME Fns!Init PROVE FnsInv
  OBVIOUS
<1>1. /\ fns = [x \in Fns!Objects |-> Fns!Gone] /\ live = [p \in {} |-> Fns!EmptyFn]
      /\ wanted = [x \in Fns!Objects |-> Fns!EmptyFn]
  BY DEF Fns!Init
<1>2. \A x \in Fns!Objects : fns[x] = Fns!Gone
  BY <1>1
<1>3. DOMAIN live = {}
  BY <1>1
<1>4. fns = [x \in Fns!Objects |-> fns[x]] /\ wanted \in [Fns!Objects -> Functors \cup {Fns!EmptyFn}]
  BY <1>1
<1> QED
  BY <1>2, <1>3, <1>4, Buffers DEF FnsInv, Holds, RoomIsTaken

LEMMA FnsSteps == FnsInv /\ [Fns!Next]_function => FnsInv'
<1> SUFFICES ASSUME FnsInv, [Fns!Next]_function PROVE FnsInv'
  OBVIOUS
<1>1. CASE UNCHANGED function
  BY <1>1 DEF function, FnsInv, Holds, RoomIsTaken
<1>2. CASE Fns!Next
  BY <1>2, MakeStep, MakeFromStep, AssignStep, DestroyedStep, EnqueueStep DEF Fns!Next
<1> QED
  BY <1>1, <1>2

LEMMA FnsHold == FnsInv => Fns!Agrees
<1> SUFFICES ASSUME FnsInv PROVE Fns!Agrees
  OBVIOUS
<1>1. Holds(fns, live, wanted)
  BY DEF FnsInv
<1>2. Fns!HoldFunctors
  <2> DEFINE there == {x \in Fns!Objects : Fns!Is(x)}
             places == [x \in there |-> Fns!Target(x, fns[x])]
  <2>1. \A x \in there : x \in Fns!Objects /\ fns[x] # Fns!Gone /\ places[x] = Fns!Target(x, fns[x])
    BY DEF Fns!Is
  <2>2. \A x, y \in there : x # y => places[x] # places[y]
    BY <1>1, <2>1 DEF Holds
  <2>3. DOMAIN live = {places[x] : x \in there}
    <3>1. ASSUME NEW p \in DOMAIN live PROVE p \in {places[x] : x \in there}
      <4>1. PICK x \in Fns!Objects : fns[x] # Fns!Gone /\ p = Fns!Target(x, fns[x])
        BY <1>1 DEF Holds
      <4> QED
        BY <4>1 DEF Fns!Is
    <3>2. ASSUME NEW x \in there PROVE places[x] \in DOMAIN live
      BY <1>1, <2>1 DEF Holds
    <3> HIDE DEF places, there
    <3> QED
      BY <3>1, <3>2
  <2>4. \A x \in there : live[places[x]] = wanted[x]
    BY <1>1, <2>1 DEF Holds
  <2> QED
    BY <2>2, <2>3, <2>4 DEF Fns!HoldFunctors
<1>3. Fns!QueuedFits
  <2> DEFINE fn == fns["queued"]
             functor == wanted["queued"]
  <2> SUFFICES ASSUME Fns!Is("queued"),
                      ~(Fns!EnableSFO(BufferSize, fn.functor) /\ Fns!Size(fn.functor) > BufferSize - QueuedSize)
               PROVE  Fns!Taken(fn) <= room
    BY DEF Fns!QueuedFits
  <2>1. /\ fn.functor = functor /\ fn.bs = QueuedSize
        /\ functor \in Functors \cup {Fns!EmptyFn}
    <3>1. "queued" \in Fns!Objects /\ Fns!BS["queued"] = QueuedSize /\ fn # Fns!Gone
      BY Buffers DEF Fns!Is
    <3>2. IsFn("queued", fn, functor) /\ functor \in Functors \cup {Fns!EmptyFn}
      BY <1>1, <3>1 DEF Holds
    <3> QED
      BY <3>1, <3>2 DEF IsFn
  <2>2. Fns!Size(functor) \in Nat /\ Fns!Size(functor) > 0
    BY <2>1, FunctionAssumption DEF Fns!Size, Fns!EmptyFn
  <2>3. room = 1 + BufferSize + (IF Fns!EnableSFO(BufferSize, functor) THEN 0 ELSE Fns!Size(functor))
    BY DEF FnsInv, RoomIsTaken, Fns!Is
  <2>4. ~(Fns!EnableSFO(BufferSize, functor) /\ Fns!Size(functor) > BufferSize - QueuedSize)
    BY <2>1
  <2> QED
    BY <2>1, <2>2, <2>3, <2>4, FunctionAssumption DEF Fns!Taken, Fns!ExternalSize, Fns!EnableSFO
<1> QED
  BY <1>2, <1>3 DEF Fns!Agrees

\* Every function object holds the functor it was last given, alive, in a place of
\* its own, and nothing else is alive; and a queued function is inside its room,
\* but for the functors between its buffer's size and a function's; all until one
\* is constructed at the null pointer of a function that was made without a buffer
\* (function.hpp: the vtable's entries; threading.hpp: enqueue_function_to_queue).
THEOREM Functions == Spec => []FunctionsAgree
<1> DEFINE IInv == kind = "function" => FnsInv
<1>1. Init => IInv
  BY Begins, FnsBegin
<1>2. IInv /\ [Next]_vars => IInv'
  BY Steps, FnsSteps
<1>3. IInv => FunctionsAgree
  BY FnsHold DEF FunctionsAgree
<1> QED
  BY <1>1, <1>2, <1>3, PTL DEF Spec

-----------------------------------------------------------------------------
(* Induction over the naturals, for what a recursive function computes     *)

\* A set of naturals has a least one: the intervals up to its members are finite sets,
\* on which strict inclusion is well-founded.
LEMMA LeastOfSet ==
  ASSUME NEW T \in SUBSET Nat, T # {}
  PROVE  \E m \in T : \A k \in T : m <= k
<1> DEFINE F == {0 .. n : n \in T}
<1>1. F \subseteq FiniteSubsetsOf(Nat)
  <2> SUFFICES ASSUME NEW n \in T PROVE 0 .. n \in FiniteSubsetsOf(Nat)
    OBVIOUS
  <2>1. n \in Int /\ 0 \in Int /\ 0 .. n \subseteq Nat
    OBVIOUS
  <2>2. IsFiniteSet(0 .. n)
    BY <2>1, FS_Interval
  <2> QED
    BY <2>1, <2>2 DEF FiniteSubsetsOf
<1>2. F # {}
  OBVIOUS
<1>3. IsWellFoundedOn(StrictSubsetOrdering(Nat), FiniteSubsetsOf(Nat))
  BY FS_StrictSubsetOrderingWellFounded
<1>4. PICK x \in F : \A y \in F : ~(<<y, x>> \in StrictSubsetOrdering(Nat))
  <2> HIDE DEF F
  <2> QED
    BY <1>1, <1>2, <1>3, WFMin
<1>5. PICK m \in T : x = 0 .. m
  OBVIOUS
<1>6. ASSUME NEW k \in T, k < m PROVE FALSE
  <2>1. 0 .. k \in F
    OBVIOUS
  <2>2. 0 .. k \subseteq 0 .. m /\ 0 .. k # 0 .. m /\ 0 .. k \subseteq Nat /\ 0 .. m \subseteq Nat
    BY <1>6
  <2>3. <<0 .. k, 0 .. m>> \in StrictSubsetOrdering(Nat)
    BY <2>2 DEF StrictSubsetOrdering
  <2> QED
    BY <2>1, <2>3, <1>4, <1>5
<1> QED
  BY <1>6

LEMMA NatSetInduction ==
  ASSUME NEW T, 0 \in T, \A n \in Nat : n \in T => n + 1 \in T
  PROVE  \A n \in Nat : n \in T
<1> SUFFICES ASSUME Nat \ T # {} PROVE FALSE
  OBVIOUS
<1>1. PICK m \in Nat \ T : \A k \in Nat \ T : m <= k
  BY LeastOfSet
<1>2. m # 0 /\ m - 1 \in Nat
  BY <1>1
<1>3. m - 1 \in T
  BY <1>1, <1>2
<1> QED
  BY <1>1, <1>2, <1>3

-----------------------------------------------------------------------------
(* Recursion by halves, and the hash table's logarithm and mask            *)

\* The recursion of a function that halves its argument, as far as n.
HalvingStep(h, x, a, b, f) == IF x <= a THEN b ELSE f[h[x \div 2]]
IsHalving(h, n, a, b, f) == h \in [0 .. n -> Nat] /\ \A x \in 0 .. n : h[x] = HalvingStep(h, x, a, b, f)

IsMap(f) == f \in [Nat -> Nat]

LEMMA Halved ==
  /\ \A x \in Nat : x \div 2 \in Nat /\ x \div 2 <= x
  /\ \A x \in Nat : x > 0 => x \div 2 < x
  /\ \A x \in Nat : x > 1 => x \div 2 > 0
  OBVIOUS

LEMMA HalvesExist ==
  ASSUME NEW a \in Nat, NEW b \in Nat, NEW f \in [Nat -> Nat]
  PROVE  \A n \in Nat : \E h : IsHalving(h, n, a, b, f)
<1> DEFINE T == {n \in Nat : \E h : IsHalving(h, n, a, b, f)}
<1>1. 0 \in T
  <2> DEFINE h == [x \in 0 .. 0 |-> b]
  <2>1. IsHalving(h, 0, a, b, f)
    BY DEF IsHalving, HalvingStep
  <2> QED
    BY <2>1
<1>2. ASSUME NEW n \in Nat, n \in T PROVE n + 1 \in T
  <2>1. PICK h : IsHalving(h, n, a, b, f)
    BY <1>2
  <2>2. h \in [0 .. n -> Nat] /\ \A x \in 0 .. n : h[x] = HalvingStep(h, x, a, b, f)
    BY <2>1 DEF IsHalving
  <2> DEFINE g == [x \in 0 .. n + 1 |-> IF x <= n THEN h[x] ELSE HalvingStep(h, x, a, b, f)]
  <2>3. \A x \in 0 .. n : g[x] = h[x]
    OBVIOUS
  <2>4. \A x \in 0 .. n + 1 : x > a => x \div 2 \in 0 .. n
    BY Halved
  <2>5. ASSUME NEW x \in 0 .. n + 1 PROVE HalvingStep(h, x, a, b, f) \in Nat
    <3>1. CASE x <= a
      BY <3>1 DEF HalvingStep
    <3>2. CASE ~(x <= a)
      <4>1. x \div 2 \in 0 .. n
        BY <2>4, <3>2
      <4>2. f[h[x \div 2]] \in Nat
        BY <2>2, <4>1
      <4> QED
        BY <3>2, <4>2 DEF HalvingStep
    <3> QED
      BY <3>1, <3>2
  <2>6. ASSUME NEW x \in 0 .. n + 1 PROVE g[x] = HalvingStep(h, x, a, b, f) /\ g[x] \in Nat
    <3>1. g[x] = IF x <= n THEN h[x] ELSE HalvingStep(h, x, a, b, f)
      OBVIOUS
    <3>2. x <= n => h[x] = HalvingStep(h, x, a, b, f)
      BY <2>2
    <3> HIDE DEF g
    <3> QED
      BY <2>5, <3>1, <3>2
  <2>7. \A x \in 0 .. n + 1 : HalvingStep(g, x, a, b, f) = HalvingStep(h, x, a, b, f)
    BY <2>3, <2>4 DEF HalvingStep
  <2>8. IsHalving(g, n + 1, a, b, f)
    BY <2>6, <2>7 DEF IsHalving
  <2> QED
    BY <2>8
<1>3. \A n \in Nat : n \in T
  <2> HIDE DEF T
  <2> QED
    BY <1>1, <1>2, NatSetInduction
<1> QED
  BY <1>3

LEMMA HalvesAreOne ==
  ASSUME NEW a \in Nat, NEW b \in Nat, NEW f, IsMap(f),
         NEW n \in Nat, NEW m \in Nat
  PROVE  \A h, g : IsHalving(h, n, a, b, f) /\ IsHalving(g, m, a, b, f) =>
                      \A x \in Nat : x <= n /\ x <= m => h[x] = g[x]
<1> SUFFICES ASSUME NEW h, NEW g, IsHalving(h, n, a, b, f), IsHalving(g, m, a, b, f)
             PROVE  \A x \in Nat : x <= n /\ x <= m => h[x] = g[x]
  OBVIOUS
<1> DEFINE Bad == {x \in Nat : x <= n /\ x <= m /\ h[x] # g[x]}
<1> SUFFICES ASSUME Bad # {} PROVE FALSE
  OBVIOUS
<1>1. PICK x \in Bad : \A y \in Bad : x <= y
  <2>1. Bad \in SUBSET Nat
    OBVIOUS
  <2> HIDE DEF Bad
  <2> QED
    BY <2>1, LeastOfSet
<1>2. h[x] = HalvingStep(h, x, a, b, f) /\ g[x] = HalvingStep(g, x, a, b, f)
  BY DEF IsHalving
<1>3. x > a
  BY <1>2 DEF HalvingStep
<1>4. x \div 2 \in Nat /\ x \div 2 < x
  BY <1>3, Halved
<1>5. h[x \div 2] = g[x \div 2]
  BY <1>1, <1>4
<1> QED
  BY <1>2, <1>5 DEF HalvingStep

\* So there is such a function.
Halves(F, a, b, f) == F \in [Nat -> Nat] /\ F = [x \in Nat |-> IF x <= a THEN b ELSE f[F[x \div 2]]]

LEMMA HalvingExists ==
  ASSUME NEW a \in Nat, NEW b \in Nat, NEW f \in [Nat -> Nat]
  PROVE  \E F : Halves(F, a, b, f)
<1> DEFINE best(n) == CHOOSE h : IsHalving(h, n, a, b, f)
           F == [x \in Nat |-> best(x)[x]]
<1>1. \A n \in Nat : IsHalving(best(n), n, a, b, f)
  BY HalvesExist
<1>2. ASSUME NEW x \in Nat PROVE F[x] = (IF x <= a THEN b ELSE f[F[x \div 2]]) /\ F[x] \in Nat
  <2> HIDE DEF best
  <2>1. best(x)[x] = HalvingStep(best(x), x, a, b, f) /\ best(x)[x] \in Nat
    <3>1. IsHalving(best(x), x, a, b, f) /\ x \in 0 .. x
      BY <1>1
    <3> QED
      BY ONLY <3>1 DEF IsHalving
  <2>2. x \div 2 \in Nat /\ x \div 2 <= x
    BY Halved
  <2>3. best(x)[x \div 2] = best(x \div 2)[x \div 2]
    <3>1. PICK y \in Nat : y = x \div 2 /\ y <= x
      BY <2>2
    <3>2. IsHalving(best(x), x, a, b, f) /\ IsHalving(best(y), y, a, b, f)
      BY <1>1
    <3> DEFINE p == best(x)
               q == best(y)
    <3>3. IsHalving(p, x, a, b, f) /\ IsHalving(q, y, a, b, f)
      BY <3>2
    <3>4. p[y] = q[y]
      <4> HIDE DEF p, q
      <4>0. \A h1, g1 : IsHalving(h1, x, a, b, f) /\ IsHalving(g1, y, a, b, f) =>
                      \A z \in Nat : z <= x /\ z <= y => h1[z] = g1[z]
        <5>1. IsMap(f)
          BY DEF IsMap
        <5> QED
          BY ONLY a \in Nat, b \in Nat, x \in Nat, y \in Nat, <5>1, HalvesAreOne
      <4>1. \A z \in Nat : z <= x /\ z <= y => p[z] = q[z]
        BY ONLY <3>3, <4>0
      <4> QED
        BY <3>1, <4>1
    <3> QED
      BY <3>1, <3>4
  <2> QED
    BY <2>1, <2>2, <2>3 DEF HalvingStep
<1> HIDE DEF best
<1>3. F \in [Nat -> Nat] /\ F = [x \in Nat |-> IF x <= a THEN b ELSE f[F[x \div 2]]]
  BY <1>2
<1> HIDE DEF F
<1>4. Halves(F, a, b, f)
  BY <1>3 DEF Halves
<1> QED
  BY <1>4

\* Log2 is the function of its recursion.
LEMMA LogUnfolds ==
  Hash!Log2 = [x \in Nat |-> IF x <= 1 THEN 0 ELSE 1 + Hash!Log2[x \div 2]]
<1> DEFINE f == [v \in Nat |-> 1 + v]
<1>1. f \in [Nat -> Nat] /\ \A v \in Nat : f[v] = 1 + v
  OBVIOUS
<1> HIDE DEF f
<1>2. PICK F \in [Nat -> Nat] : F = [x \in Nat |-> IF x <= 1 THEN 0 ELSE f[F[x \div 2]]]
  <2>1. \E F : Halves(F, 1, 0, f)
    BY <1>1, HalvingExists
  <2> QED
    BY <2>1 DEF Halves
<1>3. \A x \in Nat : F[x \div 2] \in Nat
  BY Halved
<1>4. F = [x \in Nat |-> IF x <= 1 THEN 0 ELSE 1 + F[x \div 2]]
  BY <1>1, <1>2, <1>3
<1>5. \E g : g = [x \in Nat |-> IF x <= 1 THEN 0 ELSE 1 + g[x \div 2]]
  BY <1>4
<1> QED
  BY <1>5 DEF Hash!Log2

\* The logarithm is smaller than the number.
LEMMA LogIsSmaller ==
  \A n \in Nat \ {0} : Hash!Log2[n] \in Nat /\ Hash!Log2[n] < n
<1> DEFINE Bad == {n \in Nat \ {0} : ~(Hash!Log2[n] \in Nat /\ Hash!Log2[n] < n)}
<1> SUFFICES ASSUME Bad # {} PROVE FALSE
  OBVIOUS
<1>1. PICK x \in Bad : \A y \in Bad : x <= y
  <2>1. Bad \in SUBSET Nat
    OBVIOUS
  <2> HIDE DEF Bad
  <2> QED
    BY <2>1, LeastOfSet
<1>2. Hash!Log2[x] = IF x <= 1 THEN 0 ELSE 1 + Hash!Log2[x \div 2]
  BY LogUnfolds
<1>3. x > 1
  BY <1>2
<1>4. x \div 2 \in Nat \ {0} /\ x \div 2 < x
  BY <1>3, Halved
<1>5. Hash!Log2[x \div 2] \in Nat /\ Hash!Log2[x \div 2] < x \div 2
  BY <1>1, <1>4
<1> QED
  BY <1>2, <1>3, <1>4, <1>5

\* A mask leaves no more than the bits of the mask.
LEMMA MaskIsSmaller ==
  ASSUME NEW m, NEW n \in Nat
  PROVE  Hash!And(m, n) \in Nat /\ Hash!And(m, n) <= n
<1> DEFINE b(w) == IF (n \div w) % 2 = 1 THEN w ELSE 0
           c(w) == IF (m \div w) % 2 = 1 /\ (n \div w) % 2 = 1 THEN w ELSE 0
<1>1. /\ c(1) \in Nat /\ c(1) <= b(1)
      /\ c(2) \in Nat /\ c(2) <= b(2)
      /\ c(4) \in Nat /\ c(4) <= b(4)
      /\ c(8) \in Nat /\ c(8) <= b(8)
      /\ c(16) \in Nat /\ c(16) <= b(16)
  OBVIOUS
<1>2. b(1) + b(2) + b(4) + b(8) + b(16) <= n
  OBVIOUS
<1>3. Hash!And(m, n) = c(1) + c(2) + c(4) + c(8) + c(16)
  BY DEF Hash!And
<1>4. b(1) \in Nat /\ b(2) \in Nat /\ b(4) \in Nat /\ b(8) \in Nat /\ b(16) \in Nat
  OBVIOUS
<1> HIDE DEF b, c
<1> QED
  BY <1>1, <1>2, <1>3, <1>4

-----------------------------------------------------------------------------
(* Hash table: its slots                                                   *)

Element == [key : Keys, payload : Payloads]
At(slot, p) == slot[p[1]][p[2]]

\* The chains of a slot are filled from the front.
FrontFilled(slot) ==
  /\ slot \in Seq(Seq(Element))
  /\ \A i \in 1 .. Len(slot) : Len(slot[i]) <= ChainLength
  /\ \A i, j \in 1 .. Len(slot) : i < j /\ Len(slot[j]) # 0 => Len(slot[i]) = ChainLength

\* A slot of a table of n, of which it is the s-th, holds what c has of it.
SlotIn(k, n) == Hash!And(k, Hash!Log2[n])
HoldsPart(slot, s, c, n) ==
  /\ \A p \in Hash!Places(slot) :
       /\ At(slot, p).key \in DOMAIN c /\ SlotIn(At(slot, p).key, n) = s
       /\ At(slot, p).payload = c[At(slot, p).key]
  /\ \A p, q \in Hash!Places(slot) : At(slot, p).key = At(slot, q).key => p = q
  /\ \A k \in DOMAIN c : SlotIn(k, n) = s => \E p \in Hash!Places(slot) : At(slot, p).key = k

IsTable(t) ==
  /\ t = [count |-> t.count, limit |-> t.limit, room |-> t.room, slots |-> t.slots]
  /\ t.count \in Nat \ {0} /\ t.limit \in Nat /\ t.room \in Nat /\ t.count <= t.room
  /\ t.slots = [s \in 0 .. t.room - 1 |-> t.slots[s]]
  /\ \A s \in 0 .. t.room - 1 : FrontFilled(t.slots[s])

HashInv ==
  /\ IsTable(table)
  /\ DOMAIN contents \subseteq Keys
  /\ contents = [k \in DOMAIN contents |-> contents[k]]
  /\ \A k \in DOMAIN contents : contents[k] \in Payloads
  /\ \A s \in 0 .. table.count - 1 :
       /\ HoldsPart(table.slots[s], s, contents, table.count)
       /\ Cardinality(Hash!Places(table.slots[s])) <= table.limit

LEMMA HashCardinality == \A S : Hash!Cardinality(S) = Cardinality(S)
  BY DEF Hash!Cardinality, Cardinality

\* A key's slot is one of the table's.
LEMMA SlotIsThere ==
  ASSUME NEW k, NEW n \in Nat \ {0}
  PROVE  SlotIn(k, n) \in 0 .. n - 1
<1>1. Hash!Log2[n] \in Nat /\ Hash!Log2[n] < n
  BY LogIsSmaller
<1>2. Hash!And(k, Hash!Log2[n]) \in Nat /\ Hash!And(k, Hash!Log2[n]) <= Hash!Log2[n]
  BY <1>1, MaskIsSmaller
<1> QED
  BY <1>1, <1>2 DEF SlotIn

\* The places of a slot are the positions of its chains.
LEMMA PlacesAre ==
  ASSUME NEW slot, FrontFilled(slot)
  PROVE  /\ \A p : p \in Hash!Places(slot) <=>
              \E i \in 1 .. Len(slot) : \E j \in 1 .. Len(slot[i]) : p = <<i, j>>
         /\ \A p \in Hash!Places(slot) :
              /\ p = <<p[1], p[2]>> /\ p[1] \in 1 .. Len(slot) /\ p[2] \in 1 .. Len(slot[p[1]])
              /\ slot[p[1]] \in Seq(Element) /\ At(slot, p) \in Element
         /\ IsFiniteSet(Hash!Places(slot))
<1>1. slot \in Seq(Seq(Element)) /\ DOMAIN slot = 1 .. Len(slot) /\ Len(slot) \in Nat
  BY DEF FrontFilled
<1>2. \A i \in 1 .. Len(slot) :
        /\ slot[i] \in Seq(Element) /\ DOMAIN slot[i] = 1 .. Len(slot[i])
        /\ Len(slot[i]) \in Nat /\ Len(slot[i]) <= ChainLength
  BY <1>1 DEF FrontFilled
<1>3. Hash!Places(slot) =
        {p \in (1 .. Len(slot)) \X (1 .. ChainLength) : p[2] \in 1 .. Len(slot[p[1]])}
  <2>1. Hash!Places(slot) = {p \in (1 .. Len(slot)) \X (1 .. ChainLength) : p[2] \in DOMAIN slot[p[1]]}
    BY <1>1 DEF Hash!Places
  <2> QED
    BY <1>2, <2>1
<1>4. \A p : p \in Hash!Places(slot) <=>
        \E i \in 1 .. Len(slot) : \E j \in 1 .. Len(slot[i]) : p = <<i, j>>
  <2> TAKE p
  <2>1. ASSUME NEW i \in 1 .. Len(slot), NEW j \in 1 .. Len(slot[i]), p = <<i, j>>
        PROVE  p \in Hash!Places(slot)
    <3>1. j \in 1 .. ChainLength
      BY <1>2, HashAssumption
    <3> QED
      BY <1>3, <2>1, <3>1
  <2>2. ASSUME p \in Hash!Places(slot)
        PROVE  \E i \in 1 .. Len(slot) : \E j \in 1 .. Len(slot[i]) : p = <<i, j>>
    BY <1>3, <2>2
  <2> QED
    BY <2>1, <2>2
<1>5. ASSUME NEW p \in Hash!Places(slot)
      PROVE  /\ p = <<p[1], p[2]>> /\ p[1] \in 1 .. Len(slot) /\ p[2] \in 1 .. Len(slot[p[1]])
             /\ slot[p[1]] \in Seq(Element) /\ At(slot, p) \in Element
  <2>1. PICK i \in 1 .. Len(slot) : \E j \in 1 .. Len(slot[i]) : p = <<i, j>>
    BY <1>4
  <2>2. PICK j \in 1 .. Len(slot[i]) : p = <<i, j>>
    BY <2>1
  <2> QED
    BY <1>2, <2>2 DEF At
<1>6. IsFiniteSet(Hash!Places(slot))
  <2>1. IsFiniteSet(1 .. Len(slot)) /\ IsFiniteSet(1 .. ChainLength)
    BY <1>1, FS_Interval, HashAssumption
  <2>2. IsFiniteSet((1 .. Len(slot)) \X (1 .. ChainLength))
    BY <2>1, FS_Product
  <2> QED
    BY <1>3, <2>2, FS_Subset
<1> QED
  BY <1>4, <1>5, <1>6

\* An element is placed where none is, behind those that are there.
PlacedAt(new, slot, x, q) ==
  /\ FrontFilled(new) /\ q \notin Hash!Places(slot)
  /\ Hash!Places(new) = Hash!Places(slot) \cup {q}
  /\ At(new, q) = x /\ \A p \in Hash!Places(slot) : At(new, p) = At(slot, p)

LEMMA AppendedIs ==
  ASSUME NEW S, NEW s \in Seq(S), NEW x \in S
  PROVE  /\ Append(s, x) \in Seq(S) /\ Len(Append(s, x)) = Len(s) + 1
         /\ Append(s, x)[Len(s) + 1] = x /\ \A i \in 1 .. Len(s) : Append(s, x)[i] = s[i]
         /\ Len(s) \in Nat
  OBVIOUS

LEMMA PlacedInNew ==
  ASSUME NEW slot, FrontFilled(slot), NEW x \in Element,
         \A i \in 1 .. Len(slot) : Len(slot[i]) = ChainLength
  PROVE  \E q : PlacedAt(Append(slot, <<x>>), slot, x, q)
<1> DEFINE new == Append(slot, <<x>>)
           n == Len(slot)
<1>1. slot \in Seq(Seq(Element)) /\ <<x>> \in Seq(Element) /\ Len(<<x>>) = 1 /\ <<x>>[1] = x
  BY DEF FrontFilled
<1>2. /\ new \in Seq(Seq(Element)) /\ Len(new) = n + 1 /\ new[n + 1] = <<x>> /\ n \in Nat
      /\ \A i \in 1 .. n : new[i] = slot[i]
  BY <1>1, AppendedIs
<1> HIDE DEF new
<1>3. \A i \in 1 .. n + 1 : i \in 1 .. n \/ i = n + 1
  BY <1>2
<1>4. FrontFilled(new)
  <2>1. \A i \in 1 .. n : Len(new[i]) = ChainLength
    BY <1>2
  <2>2. \A i \in 1 .. Len(new) : Len(new[i]) <= ChainLength
    <3>1. Len(new[n + 1]) = 1 /\ 1 <= ChainLength
      BY <1>1, <1>2, HashAssumption
    <3> QED
      BY ONLY <1>2, <1>3, <2>1, <3>1, HashAssumption
  <2>3. \A i, j \in 1 .. Len(new) : i < j => i \in 1 .. n
    BY <1>2
  <2> QED
    BY <1>2, <2>1, <2>2, <2>3 DEF FrontFilled
<1> DEFINE q == <<n + 1, 1>>
<1>5. q \notin Hash!Places(slot)
  <2>1. \A p \in Hash!Places(slot) : p[1] \in 1 .. n
    BY PlacesAre
  <2> QED
    BY <1>2, <2>1
<1>6. ASSUME NEW p PROVE p \in Hash!Places(new) <=> p \in Hash!Places(slot) \cup {q}
  <2>1. p \in Hash!Places(new) <=> \E i \in 1 .. n + 1 : \E j \in 1 .. Len(new[i]) : p = <<i, j>>
    BY <1>2, <1>4, PlacesAre
  <2>2. p \in Hash!Places(slot) <=> \E i \in 1 .. n : \E j \in 1 .. Len(slot[i]) : p = <<i, j>>
    BY PlacesAre
  <2>3. p = q <=> \E j \in 1 .. Len(new[n + 1]) : p = <<n + 1, j>>
    BY <1>1, <1>2
  <2>4. n + 1 \in 1 .. n + 1 /\ \A i \in 1 .. n : i \in 1 .. n + 1
    BY <1>2
  <2> QED
    BY <1>2, <1>3, <2>1, <2>2, <2>3, <2>4
<1>7. At(new, q) = x
  BY <1>1, <1>2 DEF At
<1>8. \A p \in Hash!Places(slot) : At(new, p) = At(slot, p)
  BY <1>2, PlacesAre DEF At
<1>9. Hash!Places(new) = Hash!Places(slot) \cup {q}
  BY <1>6
<1>10. PlacedAt(new, slot, x, q)
  BY ONLY <1>4, <1>5, <1>7, <1>8, <1>9 DEF PlacedAt
<1> QED
  BY <1>10 DEF new

\* A chain in place of another.
LEMMA ChainReplaced ==
  ASSUME NEW slot \in Seq(Seq(Element)), NEW i \in 1 .. Len(slot), NEW c \in Seq(Element), NEW new,
         new = [slot EXCEPT ![i] = c]
  PROVE  /\ new \in Seq(Seq(Element)) /\ Len(new) = Len(slot) /\ new[i] = c /\ Len(slot) \in Nat
         /\ \A j \in 1 .. Len(slot) : j # i => new[j] = slot[j]
  OBVIOUS

LEMMA PlacedInFree ==
  ASSUME NEW slot, FrontFilled(slot), NEW x \in Element,
         NEW i \in 1 .. Len(slot), Len(slot[i]) < ChainLength,
         \A j \in 1 .. Len(slot) : j < i => Len(slot[j]) = ChainLength,
         NEW new, new = [slot EXCEPT ![i] = Append(slot[i], x)]
  PROVE  \E q : PlacedAt(new, slot, x, q)
<1> DEFINE n == Len(slot[i])
           c == Append(slot[i], x)
<1>1. slot \in Seq(Seq(Element)) /\ slot[i] \in Seq(Element)
  BY DEF FrontFilled
<1>2. /\ c \in Seq(Element) /\ Len(c) = n + 1 /\ c[n + 1] = x /\ n \in Nat
      /\ \A j \in 1 .. n : c[j] = slot[i][j]
  BY <1>1, AppendedIs
<1> HIDE DEF c
<1>3. /\ new \in Seq(Seq(Element)) /\ Len(new) = Len(slot) /\ new[i] = c /\ Len(slot) \in Nat
      /\ \A j \in 1 .. Len(slot) : j # i => new[j] = slot[j]
  BY <1>1, <1>2, ChainReplaced DEF c
<1>4. FrontFilled(new)
  <2>1. \A j \in 1 .. Len(slot) : Len(new[j]) <= ChainLength
    BY <1>2, <1>3, HashAssumption DEF FrontFilled
  <2>2. ASSUME NEW j \in 1 .. Len(slot), NEW k \in 1 .. Len(slot), j < k, Len(new[k]) # 0
        PROVE  Len(new[j]) = ChainLength
    <3>1. CASE k = i
      BY <1>3, <2>2, <3>1
    <3>2. CASE k # i
      <4>1. Len(slot[j]) = ChainLength
        BY <1>3, <2>2, <3>2 DEF FrontFilled
      <4> QED
        BY <1>3, <4>1
    <3> QED
      BY <3>1, <3>2
  <2> QED
    BY <1>3, <2>1, <2>2 DEF FrontFilled
<1> DEFINE q == <<i, n + 1>>
<1>5. q \notin Hash!Places(slot)
  <2>1. \A p \in Hash!Places(slot) : p[2] \in 1 .. Len(slot[p[1]])
    BY PlacesAre
  <2> QED
    BY <1>2, <2>1
<1>6. ASSUME NEW p PROVE p \in Hash!Places(new) <=> p \in Hash!Places(slot) \cup {q}
  <2>1. p \in Hash!Places(new) <=>
          \E j \in 1 .. Len(slot) : \E k \in 1 .. Len(new[j]) : p = <<j, k>>
    <3>1. p \in Hash!Places(new) <=>
            \E j \in 1 .. Len(new) : \E k \in 1 .. Len(new[j]) : p = <<j, k>>
      BY ONLY <1>4, PlacesAre
    <3>2. Len(new) = Len(slot)
      BY <1>3
    <3> QED
      BY ONLY <3>1, <3>2
  <2>2. p \in Hash!Places(slot) <=>
          \E j \in 1 .. Len(slot) : \E k \in 1 .. Len(slot[j]) : p = <<j, k>>
    BY PlacesAre
  <2>3. \A k : k \in 1 .. n + 1 <=> k \in 1 .. n \/ k = n + 1
    BY <1>2
  <2>4. ASSUME NEW j \in 1 .. Len(slot)
        PROVE  (\E k \in 1 .. Len(new[j]) : p = <<j, k>>) <=>
                 (\E k \in 1 .. Len(slot[j]) : p = <<j, k>>) \/ (j = i /\ p = <<i, n + 1>>)
    <3>1. CASE j = i
      <4>1. Len(new[j]) = n + 1
        BY <1>2, <1>3, <3>1
      <4> QED
        BY ONLY <2>3, <3>1, <4>1
    <3>2. CASE j # i
      BY <1>3, <3>2
    <3> QED
      BY <3>1, <3>2
  <2> QED
    BY <2>1, <2>2, <2>4
<1>7. At(new, q) = x
  BY <1>2, <1>3 DEF At
<1>8. ASSUME NEW p \in Hash!Places(slot) PROVE At(new, p) = At(slot, p)
  <2>1. p[1] \in 1 .. Len(slot) /\ p[2] \in 1 .. Len(slot[p[1]])
    BY PlacesAre
  <2>2. CASE p[1] = i
    BY <1>2, <1>3, <2>1, <2>2 DEF At
  <2>3. CASE p[1] # i
    BY <1>3, <2>1, <2>3 DEF At
  <2> QED
    BY <2>2, <2>3
<1>9. Hash!Places(new) = Hash!Places(slot) \cup {q}
  BY <1>6
<1>10. PlacedAt(new, slot, x, q)
  BY ONLY <1>4, <1>5, <1>7, <1>8, <1>9 DEF PlacedAt
<1> QED
  BY <1>10

LEMMA PlacedIs ==
  ASSUME NEW slot, FrontFilled(slot), NEW x \in Element
  PROVE  \E q : PlacedAt(Hash!Placed(slot, x), slot, x, q)
<1> DEFINE free == {i \in 1 .. Len(slot) : Len(slot[i]) < ChainLength}
<1>1. /\ slot \in Seq(Seq(Element)) /\ DOMAIN slot = 1 .. Len(slot) /\ Len(slot) \in Nat
      /\ \A i \in 1 .. Len(slot) : Len(slot[i]) \in Nat /\ Len(slot[i]) <= ChainLength
  BY DEF FrontFilled
<1>2. Hash!Placed(slot, x) =
        IF free = {} THEN Append(slot, <<x>>)
        ELSE [slot EXCEPT ![Hash!Least(free)] = Append(@, x)]
  BY <1>1 DEF Hash!Placed
<1>3. CASE free = {}
  <2>1. \A i \in 1 .. Len(slot) : Len(slot[i]) = ChainLength
    BY <1>1, <1>3, HashAssumption
  <2> QED
    BY <1>2, <1>3, <2>1, PlacedInNew
<1>4. CASE free # {}
  <2>1. \E i \in free : \A j \in free : i <= j
    <3>1. free \in SUBSET Nat
      OBVIOUS
    <3> HIDE DEF free
    <3> QED
      BY <1>4, <3>1, LeastOfSet
  <2>2. PICK i : i = Hash!Least(free)
    OBVIOUS
  <2>3. i \in free /\ \A j \in free : i <= j
    BY <2>1, <2>2 DEF Hash!Least
  <2>4. \A j \in 1 .. Len(slot) : j < i => Len(slot[j]) = ChainLength
    BY <1>1, <2>3, HashAssumption
  <2>5. Hash!Placed(slot, x) = [slot EXCEPT ![i] = Append(slot[i], x)]
    BY <1>2, <1>4, <2>2
  <2>6. i \in 1 .. Len(slot) /\ Len(slot[i]) < ChainLength
    BY <2>3
  <2> HIDE DEF free
  <2> QED
    BY <2>4, <2>5, <2>6, PlacedInFree
<1> QED
  BY <1>3, <1>4

\* An element with another payload stays where it is.
LEMMA PayloadIs ==
  ASSUME NEW slot, FrontFilled(slot), NEW p \in Hash!Places(slot), NEW v \in Payloads,
         NEW new, new = [slot EXCEPT ![p[1]][p[2]].payload = v]
  PROVE  /\ FrontFilled(new) /\ Hash!Places(new) = Hash!Places(slot)
         /\ At(new, p).key = At(slot, p).key /\ At(new, p).payload = v
         /\ \A q \in Hash!Places(slot) : q # p => At(new, q) = At(slot, q)
<1>1. PICK i \in 1 .. Len(slot) : \E j \in 1 .. Len(slot[i]) : p = <<i, j>>
  BY PlacesAre
<1>2. PICK j \in 1 .. Len(slot[i]) : p = <<i, j>>
  BY <1>1
<1> DEFINE x == slot[i][j]
           y == [x EXCEPT !.payload = v]
           c == [slot[i] EXCEPT ![j] = y]
<1>3. /\ slot \in Seq(Seq(Element)) /\ slot[i] \in Seq(Element) /\ x \in Element
      /\ Len(slot) \in Nat /\ Len(slot[i]) \in Nat
  BY DEF FrontFilled
<1>4. y \in Element /\ y.key = x.key /\ y.payload = v
  BY <1>3 DEF Element
<1>5. new = [slot EXCEPT ![i] = c]
  BY <1>2
<1> HIDE DEF y
<1>6. /\ c \in Seq(Element) /\ Len(c) = Len(slot[i]) /\ c[j] = y
      /\ \A k \in 1 .. Len(slot[i]) : k # j => c[k] = slot[i][k]
  BY <1>3, <1>4, Replaced
<1> HIDE DEF c
<1>7. /\ new \in Seq(Seq(Element)) /\ Len(new) = Len(slot) /\ new[i] = c
      /\ \A k \in 1 .. Len(slot) : k # i => new[k] = slot[k]
  BY ONLY <1>3, <1>5, <1>6, ChainReplaced
<1>8. \A k \in 1 .. Len(slot) : Len(new[k]) = Len(slot[k])
  BY <1>6, <1>7
<1>9. FrontFilled(new)
  BY <1>7, <1>8 DEF FrontFilled
<1>10. ASSUME NEW q PROVE q \in Hash!Places(new) <=> q \in Hash!Places(slot)
  <2>1. q \in Hash!Places(new) <=> \E k \in 1 .. Len(new) : \E l \in 1 .. Len(new[k]) : q = <<k, l>>
    BY ONLY <1>9, PlacesAre
  <2>2. q \in Hash!Places(slot) <=> \E k \in 1 .. Len(slot) : \E l \in 1 .. Len(slot[k]) : q = <<k, l>>
    BY PlacesAre
  <2>3. Len(new) = Len(slot)
    BY <1>7
  <2> QED
    BY ONLY <1>8, <2>1, <2>2, <2>3
<1>11. At(new, p).key = At(slot, p).key /\ At(new, p).payload = v
  BY <1>2, <1>4, <1>6, <1>7 DEF At
<1>12. ASSUME NEW q \in Hash!Places(slot), q # p PROVE At(new, q) = At(slot, q)
  <2>1. q = <<q[1], q[2]>> /\ q[1] \in 1 .. Len(slot) /\ q[2] \in 1 .. Len(slot[q[1]])
    BY PlacesAre
  <2>2. CASE q[1] # i
    BY <1>7, <2>1, <2>2 DEF At
  <2>3. CASE q[1] = i
    <3>1. q[2] # j
      BY <1>2, <1>12, <2>1, <2>3
    <3> QED
      BY <1>6, <1>7, <2>1, <2>3, <3>1 DEF At
  <2> QED
    BY <2>2, <2>3
<1> QED
  BY <1>9, <1>10, <1>11, <1>12

\* Emptied chains hold nothing.
LEMMA EmptiedIs ==
  ASSUME NEW slot, FrontFilled(slot), NEW new, new = [i \in DOMAIN slot |-> <<>>]
  PROVE  FrontFilled(new) /\ Hash!Places(new) = {}
<1>1. slot \in Seq(Seq(Element)) /\ DOMAIN slot = 1 .. Len(slot) /\ Len(slot) \in Nat
  BY DEF FrontFilled
<1>2. <<>> \in Seq(Element) /\ Len(<<>>) = 0
  OBVIOUS
<1>3. new \in [1 .. Len(slot) -> Seq(Element)] /\ \A i \in 1 .. Len(slot) : new[i] = <<>>
  BY <1>1, <1>2
<1>4. new \in Seq(Seq(Element)) /\ Len(new) = Len(slot)
  BY <1>1, <1>3, IsASeq
<1>5. FrontFilled(new)
  BY <1>2, <1>3, <1>4, HashAssumption DEF FrontFilled
<1>6. ASSUME NEW p \in Hash!Places(new) PROVE FALSE
  <2>1. p[1] \in 1 .. Len(new) /\ p[2] \in 1 .. Len(new[p[1]])
    BY <1>5, PlacesAre
  <2> QED
    BY <1>2, <1>3, <1>4, <2>1
<1> QED
  BY <1>5, <1>6

\* A slot that was never used.
LEMMA UnusedIs == FrontFilled(<<>>) /\ Hash!Places(<<>>) = {}
<1>1. <<>> \in Seq(Seq(Element)) /\ Len(<<>>) = 0
  OBVIOUS
<1>2. FrontFilled(<<>>)
  BY <1>1 DEF FrontFilled
<1>3. ASSUME NEW p \in Hash!Places(<<>>) PROVE FALSE
  <2>1. \E i \in 1 .. Len(<<>>) : TRUE
    BY <1>2, PlacesAre
  <2> QED
    BY <1>1, <2>1
<1> QED
  BY <1>2, <1>3

-----------------------------------------------------------------------------
(* Hash table: its operations                                              *)

\* The contents with a key's payload changed, or a key more.
Updates(d, c, key, v) ==
  /\ d = [k \in DOMAIN d |-> d[k]] /\ DOMAIN d = DOMAIN c \cup {key}
  /\ d[key] = v /\ \A k \in DOMAIN c : k # key => d[k] = c[k]

LEMMA OtherPart ==
  ASSUME NEW slot, NEW r, NEW c, NEW d, NEW n, NEW key, NEW v,
         HoldsPart(slot, r, c, n), Updates(d, c, key, v), SlotIn(key, n) # r
  PROVE  HoldsPart(slot, r, d, n)
<1>1. \A k \in DOMAIN d : k = key \/ k \in DOMAIN c
  BY DEF Updates
<1>2. \A k \in DOMAIN c : SlotIn(k, n) = r => k \in DOMAIN d /\ d[k] = c[k]
  BY DEF Updates
<1>3. /\ \A p \in Hash!Places(slot) :
           /\ At(slot, p).key \in DOMAIN c /\ SlotIn(At(slot, p).key, n) = r
           /\ At(slot, p).payload = c[At(slot, p).key]
      /\ \A p, q \in Hash!Places(slot) : At(slot, p).key = At(slot, q).key => p = q
      /\ \A k \in DOMAIN c : SlotIn(k, n) = r => \E p \in Hash!Places(slot) : At(slot, p).key = k
  BY DEF HoldsPart
<1>4. \A p \in Hash!Places(slot) :
        /\ At(slot, p).key \in DOMAIN d /\ SlotIn(At(slot, p).key, n) = r
        /\ At(slot, p).payload = d[At(slot, p).key]
  BY <1>2, <1>3
<1>5. \A k \in DOMAIN d : SlotIn(k, n) = r => \E p \in Hash!Places(slot) : At(slot, p).key = k
  BY <1>1, <1>3
<1> QED
  BY <1>3, <1>4, <1>5 DEF HoldsPart

LEMMA PresentPart ==
  ASSUME NEW slot, NEW s, NEW c, NEW d, NEW n, NEW v, NEW new,
         NEW p \in Hash!Places(slot), HoldsPart(slot, s, c, n),
         Hash!Places(new) = Hash!Places(slot),
         At(new, p).key = At(slot, p).key, At(new, p).payload = v,
         \A q \in Hash!Places(slot) : q # p => At(new, q) = At(slot, q),
         Updates(d, c, At(slot, p).key, v)
  PROVE  HoldsPart(new, s, d, n)
<1> DEFINE key == At(slot, p).key
<1>1. /\ \A q \in Hash!Places(slot) :
           /\ At(slot, q).key \in DOMAIN c /\ SlotIn(At(slot, q).key, n) = s
           /\ At(slot, q).payload = c[At(slot, q).key]
      /\ \A q, r \in Hash!Places(slot) : At(slot, q).key = At(slot, r).key => q = r
      /\ \A k \in DOMAIN c : SlotIn(k, n) = s => \E q \in Hash!Places(slot) : At(slot, q).key = k
  BY DEF HoldsPart
<1>2. DOMAIN d = DOMAIN c /\ d[key] = v /\ \A k \in DOMAIN c : k # key => d[k] = c[k]
  BY <1>1 DEF Updates
<1>3. \A q \in Hash!Places(slot) : At(new, q).key = At(slot, q).key
  OBVIOUS
<1>4. ASSUME NEW q \in Hash!Places(slot) PROVE At(new, q).payload = d[At(slot, q).key]
  <2>1. CASE q = p
    BY <1>2, <2>1
  <2>2. CASE q # p
    <3>1. At(slot, q).key # key
      BY <1>1, <2>2
    <3> QED
      BY <1>1, <1>2, <2>2, <3>1
  <2> QED
    BY <2>1, <2>2
<1> QED
  BY <1>1, <1>2, <1>3, <1>4 DEF HoldsPart

LEMMA PlacedPart ==
  ASSUME NEW slot, NEW s, NEW c, NEW d, NEW n, NEW x, NEW new, NEW q,
         HoldsPart(slot, s, c, n), PlacedAt(new, slot, x, q), SlotIn(x.key, n) = s,
         \A p \in Hash!Places(slot) : At(slot, p).key # x.key,
         Updates(d, c, x.key, x.payload)
  PROVE  HoldsPart(new, s, d, n)
<1>1. /\ \A p \in Hash!Places(slot) :
           /\ At(slot, p).key \in DOMAIN c /\ SlotIn(At(slot, p).key, n) = s
           /\ At(slot, p).payload = c[At(slot, p).key]
      /\ \A p, r \in Hash!Places(slot) : At(slot, p).key = At(slot, r).key => p = r
      /\ \A k \in DOMAIN c : SlotIn(k, n) = s => \E p \in Hash!Places(slot) : At(slot, p).key = k
  BY DEF HoldsPart
<1>2. /\ \A k : k \in DOMAIN d <=> k \in DOMAIN c \/ k = x.key
      /\ d[x.key] = x.payload /\ \A k \in DOMAIN c : k # x.key => d[k] = c[k]
  BY DEF Updates
<1>3. /\ \A p : p \in Hash!Places(new) <=> p \in Hash!Places(slot) \/ p = q
      /\ At(new, q) = x /\ \A p \in Hash!Places(slot) : At(new, p) = At(slot, p)
  BY DEF PlacedAt
<1>4. ASSUME NEW p \in Hash!Places(new)
      PROVE  /\ At(new, p).key \in DOMAIN d /\ SlotIn(At(new, p).key, n) = s
             /\ At(new, p).payload = d[At(new, p).key]
  <2>1. CASE p = q
    BY <1>2, <1>3, <2>1
  <2>2. CASE p \in Hash!Places(slot)
    BY <1>1, <1>2, <1>3, <2>2
  <2> QED
    BY <1>3, <2>1, <2>2
<1>5. ASSUME NEW p \in Hash!Places(new), NEW r \in Hash!Places(new), At(new, p).key = At(new, r).key
      PROVE  p = r
  BY <1>1, <1>3, <1>5
<1>6. ASSUME NEW k \in DOMAIN d, SlotIn(k, n) = s
      PROVE  \E p \in Hash!Places(new) : At(new, p).key = k
  <2>1. CASE k = x.key
    BY <1>3, <2>1
  <2>2. CASE k \in DOMAIN c
    BY <1>1, <1>3, <1>6, <2>2
  <2> QED
    BY <1>2, <2>1, <2>2
<1> QED
  BY <1>4, <1>5, <1>6 DEF HoldsPart

\* A slot in place of another.
SlotChanged(u, t, s, e) == u = [t EXCEPT !.slots[s] = e]

LEMMA SlotReplaced ==
  ASSUME NEW t, IsTable(t), NEW s \in 0 .. t.count - 1, NEW e, FrontFilled(e),
         NEW u, SlotChanged(u, t, s, e)
  PROVE  /\ IsTable(u) /\ u.count = t.count /\ u.limit = t.limit /\ u.room = t.room
         /\ u.slots[s] = e /\ \A r \in 0 .. t.room - 1 : r # s => u.slots[r] = t.slots[r]
<1> DEFINE z == [t.slots EXCEPT ![s] = e]
<1>1. /\ t = [count |-> t.count, limit |-> t.limit, room |-> t.room, slots |-> t.slots]
      /\ t.count \in Nat \ {0} /\ t.limit \in Nat /\ t.room \in Nat /\ t.count <= t.room
      /\ t.slots = [r \in 0 .. t.room - 1 |-> t.slots[r]]
      /\ \A r \in 0 .. t.room - 1 : FrontFilled(t.slots[r])
  BY DEF IsTable
<1>2. u = [t EXCEPT !.slots = z]
  BY DEF SlotChanged
<1>3. s \in 0 .. t.room - 1
  BY <1>1
<1>4. DOMAIN t.slots = 0 .. t.room - 1
  BY <1>1
<1>5. /\ z = [r \in 0 .. t.room - 1 |-> z[r]] /\ z[s] = e
      /\ \A r \in 0 .. t.room - 1 : r # s => z[r] = t.slots[r]
  BY ONLY <1>3, <1>4
<1> HIDE DEF z
<1>6. /\ u = [count |-> u.count, limit |-> u.limit, room |-> u.room, slots |-> u.slots]
      /\ u.count = t.count /\ u.limit = t.limit /\ u.room = t.room /\ u.slots = z
  BY ONLY <1>1, <1>2
<1>7. \A r \in 0 .. t.room - 1 : FrontFilled(z[r])
  BY <1>1, <1>5
<1>8. IsTable(u)
  BY ONLY <1>1, <1>5, <1>6, <1>7 DEF IsTable
<1> QED
  BY <1>5, <1>6, <1>8

\* A step that changes one slot, and what the table holds of it.
LEMMA OneSlot ==
  ASSUME HashInv, NEW key \in Keys, NEW v \in Payloads, NEW s, s = SlotIn(key, table.count), NEW e,
         FrontFilled(e), table' = [table EXCEPT !.slots[s] = e],
         Updates(contents', contents, key, v), HoldsPart(e, s, contents', table.count),
         Cardinality(Hash!Places(e)) <= table.limit
  PROVE  HashInv'
<1>1. /\ IsTable(table) /\ DOMAIN contents \subseteq Keys
      /\ \A k \in DOMAIN contents : contents[k] \in Payloads
      /\ \A r \in 0 .. table.count - 1 :
           /\ HoldsPart(table.slots[r], r, contents, table.count)
           /\ Cardinality(Hash!Places(table.slots[r])) <= table.limit
  BY DEF HashInv
<1>2. table.count \in Nat \ {0} /\ table.room \in Nat /\ table.count <= table.room
  BY <1>1 DEF IsTable
<1>3. s \in 0 .. table.count - 1
  BY <1>2, SlotIsThere
<1>4. /\ IsTable(table') /\ table'.count = table.count /\ table'.limit = table.limit
      /\ table'.slots[s] = e
      /\ \A r \in 0 .. table.room - 1 : r # s => table'.slots[r] = table.slots[r]
  <2>1. SlotChanged(table', table, s, e)
    BY DEF SlotChanged
  <2> QED
    BY ONLY <1>1, <1>3, FrontFilled(e), <2>1, SlotReplaced
<1>5. /\ contents' = [k \in DOMAIN contents' |-> contents'[k]] /\ DOMAIN contents' \subseteq Keys
      /\ \A k \in DOMAIN contents' : contents'[k] \in Payloads
  BY <1>1 DEF Updates
<1>6. ASSUME NEW r \in 0 .. table.count - 1
      PROVE  /\ HoldsPart(table'.slots[r], r, contents', table.count)
             /\ Cardinality(Hash!Places(table'.slots[r])) <= table.limit
  <2>1. CASE r = s
    BY <1>4, <2>1
  <2>2. CASE r # s
    <3>1. table'.slots[r] = table.slots[r]
      BY <1>2, <1>4, <2>2
    <3>2. HoldsPart(table.slots[r], r, contents', table.count)
      BY <1>1, <2>2, OtherPart
    <3> QED
      BY <1>1, <3>1, <3>2
  <2> QED
    BY <2>1, <2>2
<1>7. /\ IsTable(table')
      /\ DOMAIN contents' \subseteq Keys
      /\ contents' = [k \in DOMAIN contents' |-> contents'[k]]
      /\ \A k \in DOMAIN contents' : contents'[k] \in Payloads
      /\ \A r \in 0 .. table'.count - 1 :
           /\ HoldsPart(table'.slots[r], r, contents', table'.count)
           /\ Cardinality(Hash!Places(table'.slots[r])) <= table'.limit
  BY <1>4, <1>5, <1>6
<1> QED
  BY <1>7 DEF HashInv, IsTable


LEMMA HashBegins == Hash!Init => HashInv
<1> SUFFICES ASSUME Hash!Init PROVE HashInv
  OBVIOUS
<1>1. PICK n \in SlotCounts, size \in BucketSizes :
        table = [count |-> n, limit |-> size, room |-> n, slots |-> [s \in 0 .. n - 1 |-> <<>>]]
  BY DEF Hash!Init
<1>2. n \in Nat \ {0} /\ size \in Nat
  BY HashAssumption
<1>3. FrontFilled(<<>>) /\ Hash!Places(<<>>) = {} /\ Cardinality({}) = 0
  BY UnusedIs, FS_EmptySet
<1>4. /\ table.count = n /\ table.limit = size /\ table.room = n
      /\ table.slots = [s \in 0 .. n - 1 |-> <<>>]
      /\ table = [count |-> table.count, limit |-> table.limit, room |-> table.room,
                  slots |-> table.slots]
  BY <1>1
<1>5. \A s \in 0 .. n - 1 : table.slots[s] = <<>>
  BY <1>4
<1>6. IsTable(table)
  BY ONLY <1>2, <1>3, <1>4, <1>5 DEF IsTable
<1>7. contents = <<>> /\ DOMAIN contents = {} /\ contents = [k \in DOMAIN contents |-> contents[k]]
  BY DEF Hash!Init
<1>8. ASSUME NEW s \in 0 .. n - 1
      PROVE  HoldsPart(table.slots[s], s, contents, n) /\ Cardinality(Hash!Places(table.slots[s])) <= size
  <2>1. table.slots[s] = <<>>
    BY <1>5
  <2>2. Hash!Places(table.slots[s]) = {}
    BY ONLY <1>3, <2>1
  <2> QED
    BY ONLY <1>2, <1>3, <1>7, <2>2 DEF HoldsPart
<1> QED
  BY ONLY <1>4, <1>6, <1>7, <1>8 DEF HashInv

Emptied(t, n) ==
  [s \in DOMAIN t.slots |-> IF s < n THEN [i \in DOMAIN t.slots[s] |-> <<>>] ELSE t.slots[s]]
WasReset(u, t, n, size) == u = [t EXCEPT !.count = n, !.limit = size, !.slots = Emptied(t, n)]

LEMMA ResetIs ==
  ASSUME NEW t, IsTable(t), NEW n \in Nat \ {0}, NEW size \in Nat, n <= t.room,
         NEW u, WasReset(u, t, n, size)
  PROVE  /\ IsTable(u) /\ u.count = n /\ u.limit = size
         /\ \A s \in 0 .. n - 1 : Hash!Places(u.slots[s]) = {}
<1> DEFINE z == Emptied(t, n)
<1>1. /\ t = [count |-> t.count, limit |-> t.limit, room |-> t.room, slots |-> t.slots]
      /\ t.count \in Nat \ {0} /\ t.limit \in Nat /\ t.room \in Nat /\ t.count <= t.room
      /\ t.slots = [r \in 0 .. t.room - 1 |-> t.slots[r]]
      /\ \A r \in 0 .. t.room - 1 : FrontFilled(t.slots[r])
  BY DEF IsTable
<1>2. u = [t EXCEPT !.count = n, !.limit = size, !.slots = z]
  BY DEF WasReset
<1>3. DOMAIN t.slots = 0 .. t.room - 1
  BY <1>1
<1>4. /\ z = [r \in 0 .. t.room - 1 |-> z[r]]
      /\ \A r \in 0 .. t.room - 1 :
           z[r] = IF r < n THEN [i \in DOMAIN t.slots[r] |-> <<>>] ELSE t.slots[r]
  BY ONLY <1>3 DEF Emptied
<1>5. ASSUME NEW r \in 0 .. t.room - 1
      PROVE  FrontFilled(z[r]) /\ (r < n => Hash!Places(z[r]) = {})
  <2>1. FrontFilled(t.slots[r])
    BY <1>1
  <2>2. CASE r < n
    <3>1. z[r] = [i \in DOMAIN t.slots[r] |-> <<>>]
      BY <1>4, <2>2
    <3>2. FrontFilled([i \in DOMAIN t.slots[r] |-> <<>>]) /\ Hash!Places([i \in DOMAIN t.slots[r] |-> <<>>]) = {}
      BY ONLY <2>1, EmptiedIs
    <3> QED
      BY ONLY <3>1, <3>2
  <2>3. CASE ~(r < n)
    <3>1. z[r] = t.slots[r]
      BY <1>4, <2>3
    <3> QED
      BY ONLY <2>1, <2>3, <3>1
  <2> QED
    BY <2>2, <2>3
<1> HIDE DEF z
<1>6. /\ u = [count |-> u.count, limit |-> u.limit, room |-> u.room, slots |-> u.slots]
      /\ u.count = n /\ u.limit = size /\ u.room = t.room /\ u.slots = z
  BY ONLY <1>1, <1>2
<1>7. IsTable(u)
  BY <1>1, <1>4, <1>5, <1>6 DEF IsTable
<1>8. ASSUME NEW s \in 0 .. n - 1 PROVE Hash!Places(u.slots[s]) = {}
  <2>1. s \in 0 .. t.room - 1 /\ s < n
    BY ONLY <1>1, n \in Nat, n <= t.room
  <2>2. Hash!Places(z[s]) = {}
    BY ONLY <1>5, <2>1
  <2> QED
    BY ONLY <1>6, <2>2
<1> QED
  BY <1>6, <1>7, <1>8

LEMMA ResetKeeps ==
  ASSUME HashInv, NEW n \in SlotCounts, NEW size \in BucketSizes, Hash!Reset(n, size)
  PROVE  HashInv'
<1>1. n \in Nat \ {0} /\ size \in Nat /\ n <= table.room /\ IsTable(table)
  BY HashAssumption DEF Hash!Reset, HashInv
<1>2. WasReset(table', table, n, size)
  BY DEF Hash!Reset, WasReset, Emptied
<1>3. /\ IsTable(table') /\ table'.count = n /\ table'.limit = size
      /\ \A s \in 0 .. n - 1 : Hash!Places(table'.slots[s]) = {}
  BY ONLY <1>1, <1>2, ResetIs
<1>4. contents' = <<>> /\ DOMAIN contents' = {} /\ contents' = [k \in DOMAIN contents' |-> contents'[k]]
  BY DEF Hash!Reset
<1>5. Cardinality({}) = 0
  BY FS_EmptySet
<1>6. ASSUME NEW s \in 0 .. n - 1
      PROVE  HoldsPart(table'.slots[s], s, contents', n) /\ Cardinality(Hash!Places(table'.slots[s])) <= size
  <2>1. Hash!Places(table'.slots[s]) = {}
    BY <1>3
  <2> QED
    BY ONLY <1>1, <1>4, <1>5, <2>1 DEF HoldsPart
<1>7. /\ IsTable(table')
      /\ DOMAIN contents' \subseteq Keys
      /\ contents' = [k \in DOMAIN contents' |-> contents'[k]]
      /\ \A k \in DOMAIN contents' : contents'[k] \in Payloads
      /\ \A r \in 0 .. table'.count - 1 :
           /\ HoldsPart(table'.slots[r], r, contents', table'.count)
           /\ Cardinality(Hash!Places(table'.slots[r])) <= table'.limit
  BY ONLY <1>3, <1>4, <1>6
<1> QED
  BY <1>7 DEF HashInv, IsTable

LEMMA InsertKeeps ==
  ASSUME HashInv, NEW key \in Keys, NEW payload \in Payloads, NEW replaces,
         Hash!InsertOrReplaceWith(key, payload, replaces)
  PROVE  HashInv'
<1> DEFINE s == SlotIn(key, table.count)
           slot == table.slots[s]
           there == Hash!Holding(slot, key)
<1>1. s = Hash!SlotOf(key)
  BY DEF Hash!SlotOf, SlotIn
<1>2. /\ IsTable(table) /\ DOMAIN contents \subseteq Keys
      /\ contents = [k \in DOMAIN contents |-> contents[k]]
      /\ \A k \in DOMAIN contents : contents[k] \in Payloads
      /\ \A r \in 0 .. table.count - 1 :
           /\ HoldsPart(table.slots[r], r, contents, table.count)
           /\ Cardinality(Hash!Places(table.slots[r])) <= table.limit
  BY DEF HashInv
<1>3. table.count \in Nat \ {0} /\ table.limit \in Nat /\ table.room \in Nat /\ table.count <= table.room
  BY <1>2 DEF IsTable
<1>4. s \in 0 .. table.count - 1
  BY <1>3, SlotIsThere
<1>5. /\ FrontFilled(slot) /\ HoldsPart(slot, s, contents, table.count)
      /\ Cardinality(Hash!Places(slot)) <= table.limit
  <2>1. s \in 0 .. table.room - 1
    BY <1>3, <1>4
  <2>2. FrontFilled(slot)
    BY ONLY <1>2, <2>1 DEF IsTable
  <2> HIDE DEF s
  <2> QED
    BY ONLY <1>2, <1>4, <2>2
<1>6. \A p : p \in there <=> p \in Hash!Places(slot) /\ At(slot, p).key = key
  BY DEF Hash!Holding, At
<1>7. /\ \A p \in Hash!Places(slot) :
           /\ At(slot, p).key \in DOMAIN contents /\ At(slot, p).payload = contents[At(slot, p).key]
  BY <1>5 DEF HoldsPart
<1>8. Hash!Filled(slot) = Cardinality(Hash!Places(slot))
  BY HashCardinality DEF Hash!Filled
<1>9. \/ /\ there # {}
         /\ \E p \in there : table' =
              [table EXCEPT !.slots[s][p[1]][p[2]].payload = IF replaces THEN payload ELSE @]
         /\ contents' = [contents EXCEPT ![key] = IF replaces THEN payload ELSE @]
      \/ UNCHANGED <<table, contents>>
      \/ /\ there = {} /\ Cardinality(Hash!Places(slot)) < table.limit
         /\ table' = [table EXCEPT !.slots[s] = Hash!Placed(@, [key |-> key, payload |-> payload])]
         /\ contents' = [k \in DOMAIN contents \cup {key} |-> IF k = key THEN payload ELSE contents[k]]
  BY <1>1, <1>8 DEF Hash!InsertOrReplaceWith, Hash!vars
<1> HIDE DEF there, s
<1>10. CASE /\ \E p \in there : table' =
                 [table EXCEPT !.slots[s][p[1]][p[2]].payload = IF replaces THEN payload ELSE @]
            /\ contents' = [contents EXCEPT ![key] = IF replaces THEN payload ELSE @]
  <2>1. PICK p \in there : table' =
          [table EXCEPT !.slots[s][p[1]][p[2]].payload = IF replaces THEN payload ELSE @]
    BY <1>10
  <2> DEFINE v == IF replaces THEN payload ELSE slot[p[1]][p[2]].payload
             e == [slot EXCEPT ![p[1]][p[2]].payload = v]
  <2>2. p \in Hash!Places(slot) /\ At(slot, p).key = key
    BY <1>6
  <2>3. key \in DOMAIN contents /\ v = (IF replaces THEN payload ELSE contents[key]) /\ v \in Payloads
    BY <1>2, <1>7, <2>2 DEF At
  <2>4. table' = [table EXCEPT !.slots[s] = e]
    BY <2>1
  <2> HIDE DEF v
  <2>5. Updates(contents', contents, key, v)
    <3>1. contents' = [contents EXCEPT ![key] = v]
      BY <1>10, <2>3
    <3>2. DOMAIN contents = DOMAIN contents \cup {key}
      BY <2>3
    <3> QED
      BY ONLY <1>2, <2>3, <3>1, <3>2 DEF Updates
  <2>6. /\ FrontFilled(e) /\ Hash!Places(e) = Hash!Places(slot)
        /\ At(e, p).key = At(slot, p).key /\ At(e, p).payload = v
        /\ \A q \in Hash!Places(slot) : q # p => At(e, q) = At(slot, q)
    BY ONLY <1>5, <2>2, <2>3, PayloadIs
  <2> HIDE DEF e
  <2>7. HoldsPart(e, s, contents', table.count)
    BY ONLY <1>5, <2>2, <2>5, <2>6, PresentPart
  <2>8. Cardinality(Hash!Places(e)) <= table.limit
    BY ONLY <1>5, <2>6
  <2> QED
    BY ONLY HashInv, key \in Keys, <2>3, <2>4, <2>5, <2>6, <2>7, <2>8, OneSlot DEF s
<1>11. CASE UNCHANGED <<table, contents>>
  BY <1>11 DEF HashInv, IsTable
<1>12. CASE /\ there = {} /\ Cardinality(Hash!Places(slot)) < table.limit
            /\ table' = [table EXCEPT !.slots[s] = Hash!Placed(@, [key |-> key, payload |-> payload])]
            /\ contents' = [k \in DOMAIN contents \cup {key} |-> IF k = key THEN payload ELSE contents[k]]
  <2> DEFINE x == [key |-> key, payload |-> payload]
             e == Hash!Placed(slot, x)
  <2>1. x \in Element /\ x.key = key /\ x.payload = payload
    BY DEF Element
  <2>2. table' = [table EXCEPT !.slots[s] = e]
    BY <1>12
  <2>3. Updates(contents', contents, key, payload)
    BY ONLY <1>12 DEF Updates
  <2> HIDE DEF x
  <2>4. PICK q : PlacedAt(e, slot, x, q)
    BY ONLY <1>5, <2>1, PlacedIs
  <2>5. FrontFilled(e) /\ q \notin Hash!Places(slot) /\ Hash!Places(e) = Hash!Places(slot) \cup {q}
    BY <2>4 DEF PlacedAt
  <2> HIDE DEF e
  <2>6. \A p \in Hash!Places(slot) : At(slot, p).key # x.key
    BY <1>6, <1>12, <2>1
  <2>7. HoldsPart(e, s, contents', table.count)
    <3>1. Updates(contents', contents, x.key, x.payload) /\ SlotIn(x.key, table.count) = s
      BY <2>1, <2>3 DEF s
    <3> QED
      BY ONLY <1>5, <2>4, <2>6, <3>1, PlacedPart
  <2>8. Cardinality(Hash!Places(e)) <= table.limit
    <3>1. IsFiniteSet(Hash!Places(slot))
      BY <1>5, PlacesAre
    <3>2. Cardinality(Hash!Places(slot)) \in Nat
      BY <3>1, FS_CardinalityType
    <3>3. Cardinality(Hash!Places(slot) \cup {q}) = Cardinality(Hash!Places(slot)) + 1
      BY <2>5, <3>1, FS_AddElement
    <3> QED
      BY <1>3, <1>12, <2>5, <3>2, <3>3
  <2> QED
    BY ONLY HashInv, key \in Keys, payload \in Payloads, <2>2, <2>3, <2>5, <2>7, <2>8, OneSlot DEF s
<1> QED
  BY <1>9, <1>10, <1>11, <1>12

LEMMA HashSteps == HashInv /\ [Hash!Next]_hash => HashInv'
<1> SUFFICES ASSUME HashInv, [Hash!Next]_hash PROVE HashInv'
  OBVIOUS
<1>1. CASE UNCHANGED hash
  BY <1>1 DEF hash, HashInv, IsTable
<1>2. CASE Hash!Next
  <2>1. CASE \E n \in SlotCounts, size \in BucketSizes : Hash!Reset(n, size)
    BY <2>1, ResetKeeps
  <2>2. CASE \E key \in Keys, payload \in Payloads : Hash!Insert(key, payload) \/ Hash!Replace(key, payload)
    <3>1. PICK key \in Keys, payload \in Payloads : Hash!Insert(key, payload) \/ Hash!Replace(key, payload)
      BY <2>2
    <3>2. CASE Hash!Insert(key, payload)
      <4>1. Hash!InsertOrReplaceWith(key, payload, FALSE)
        BY <3>2 DEF Hash!Insert
      <4> QED
        BY ONLY HashInv, key \in Keys, payload \in Payloads, <4>1, InsertKeeps
    <3>3. CASE Hash!Replace(key, payload)
      <4>1. Hash!InsertOrReplaceWith(key, payload, TRUE)
        BY <3>3 DEF Hash!Replace
      <4> QED
        BY ONLY HashInv, key \in Keys, payload \in Payloads, <4>1, InsertKeeps
    <3> QED
      BY <3>1, <3>2, <3>3
  <2> QED
    BY <1>2, <2>1, <2>2 DEF Hash!Next
<1> QED
  BY <1>1, <1>2


\* A find looks at the first chain, its unfilled elements too.
Unfilled == [key |-> 0, payload |-> "unfilled"]
Looked(chain, i) == IF i \in DOMAIN chain THEN chain[i] ELSE Unfilled

LEMMA FindIs ==
  ASSUME HashInv, NEW key
  PROVE  LET slot == table.slots[SlotIn(key, table.count)]
             match == {i \in 1 .. ChainLength : Looked(slot[1], i).key = key}
         IN  Hash!Find(key) =
               IF slot = <<>> THEN "absent"
               ELSE IF slot[1] = <<>> THEN "forever"
               ELSE IF match = {} THEN "outside"
               ELSE Looked(slot[1], Hash!Least(match)).payload
<1>1. table.slots[SlotIn(key, table.count)] = table.slots[Hash!SlotOf(key)]
  BY DEF Hash!SlotOf, SlotIn
<1> QED
  BY <1>1 DEF Hash!Find, Looked, Unfilled

\* The first of the matches is one, and none comes before it.
LEMMA LeastIs ==
  ASSUME NEW T \in SUBSET Nat, T # {}
  PROVE  Hash!Least(T) \in T /\ \A k \in T : Hash!Least(T) <= k
<1>1. \E m \in T : \A k \in T : m <= k
  BY LeastOfSet
<1> QED
  BY <1>1 DEF Hash!Least

LEMMA HashHolds == HashInv => Hash!Agrees
<1> SUFFICES ASSUME HashInv PROVE Hash!Agrees
  OBVIOUS
<1>1. /\ IsTable(table)
      /\ \A r \in 0 .. table.count - 1 :
           /\ HoldsPart(table.slots[r], r, contents, table.count)
           /\ Cardinality(Hash!Places(table.slots[r])) <= table.limit
  BY DEF HashInv
<1>2. table.count \in Nat \ {0} /\ table.limit \in Nat /\ table.room \in Nat /\ table.count <= table.room
  BY <1>1 DEF IsTable
<1>3. \A s \in 0 .. table.count - 1 : Hash!Filled(table.slots[s]) <= table.limit
  BY <1>1, HashCardinality DEF Hash!Filled
<1>4. ASSUME NEW key \in Keys
      PROVE  LET here == {p \in DOMAIN Hash!ForAllInSameBucket(key) :
                            Hash!ForAllInSameBucket(key)[p].key = key}
             IN  IF key \in DOMAIN contents
                 THEN /\ Hash!Cardinality(here) = 1
                      /\ \A p \in here : Hash!ForAllInSameBucket(key)[p].payload = contents[key]
                      /\ Hash!Find(key) \in {contents[key], "outside"}
                 ELSE /\ here = {}
                      /\ Hash!Find(key) \in {"absent", "forever", "outside"}
                                            \cup (IF key = 0 THEN {"unfilled"} ELSE {})
  <2> DEFINE s == SlotIn(key, table.count)
             slot == table.slots[s]
             chain == slot[1]
             match == {i \in 1 .. ChainLength : Looked(chain, i).key = key}
             there == {p \in Hash!Places(slot) : At(slot, p).key = key}
  <2>1. s \in 0 .. table.count - 1 /\ s \in 0 .. table.room - 1
    BY <1>2, SlotIsThere
  <2>2. /\ FrontFilled(slot) /\ HoldsPart(slot, s, contents, table.count)
    BY <1>1, <2>1 DEF IsTable
  <2>3. Hash!ForAllInSameBucket(key) = [p \in Hash!Places(slot) |-> At(slot, p)]
    BY DEF Hash!ForAllInSameBucket, Hash!SlotOf, SlotIn, At
  <2>4. Hash!Find(key) =
          IF slot = <<>> THEN "absent"
          ELSE IF chain = <<>> THEN "forever"
          ELSE IF match = {} THEN "outside"
          ELSE Looked(chain, Hash!Least(match)).payload
    BY FindIs
  <2> DEFINE here == {p \in DOMAIN Hash!ForAllInSameBucket(key) :
                        Hash!ForAllInSameBucket(key)[p].key = key}
  <2>5. here = there /\ \A p \in there : Hash!ForAllInSameBucket(key)[p] = At(slot, p)
    BY <2>3
  <2>6. SlotIn(key, table.count) = s
    OBVIOUS
  <2>7. /\ slot \in Seq(Seq(Element)) /\ Len(slot) \in Nat
        /\ \A i \in 1 .. Len(slot) : slot[i] \in Seq(Element) /\ Len(slot[i]) \in Nat
        /\ \A i \in 1 .. Len(slot) : Len(slot[i]) <= ChainLength
        /\ \A i, j \in 1 .. Len(slot) : i < j /\ Len(slot[j]) # 0 => Len(slot[i]) = ChainLength
    BY <2>2 DEF FrontFilled
  <2> HIDE DEF s, slot, here
  <2>8. /\ \A p \in Hash!Places(slot) : At(slot, p).key \in DOMAIN contents
        /\ \A p \in Hash!Places(slot) : At(slot, p).payload = contents[At(slot, p).key]
        /\ \A p, q \in Hash!Places(slot) : At(slot, p).key = At(slot, q).key => p = q
        /\ key \in DOMAIN contents => \E p \in Hash!Places(slot) : At(slot, p).key = key
    BY <2>2, <2>6 DEF HoldsPart
  <2>9. ASSUME slot # <<>>
        PROVE  /\ 1 \in 1 .. Len(slot) /\ chain \in Seq(Element) /\ DOMAIN chain = 1 .. Len(chain)
               /\ Len(chain) \in Nat /\ Len(chain) <= ChainLength
               /\ \A i \in 1 .. Len(chain) :
                    <<1, i>> \in Hash!Places(slot) /\ At(slot, <<1, i>>) = chain[i]
    <3>1. Len(slot) # 0
      BY <2>7, <2>9
    <3>2. 1 \in 1 .. Len(slot)
      BY <2>7, <3>1
    <3>3. chain \in Seq(Element) /\ DOMAIN chain = 1 .. Len(chain) /\ Len(chain) \in Nat /\ Len(chain) <= ChainLength
      BY <2>7, <3>2
    <3>4. \A i \in 1 .. Len(chain) : <<1, i>> \in Hash!Places(slot)
      BY <2>2, <3>2, PlacesAre
    <3> QED
      BY <3>2, <3>3, <3>4 DEF At
  <2>10. ASSUME slot # <<>>, chain # <<>>, match # {}
         PROVE  LET i == Hash!Least(match)
                IN  /\ i \in 1 .. ChainLength /\ Looked(chain, i).key = key
                    /\ \A j \in 1 .. Len(chain) : chain[j].key = key => i \in 1 .. Len(chain)
    <3> DEFINE i == Hash!Least(match)
    <3>1. match \in SUBSET Nat
      OBVIOUS
    <3>2. i \in match /\ \A k \in match : i <= k
      <4> HIDE DEF match
      <4> QED
        BY <2>10, <3>1, LeastIs
    <3>3. i \in 1 .. ChainLength /\ Looked(chain, i).key = key
      BY <3>2
    <3>4. ASSUME NEW j \in 1 .. Len(chain), chain[j].key = key PROVE i \in 1 .. Len(chain)
      <4>1. j \in match
        BY <2>9, <2>10, <3>4, HashAssumption DEF Looked
      <4> HIDE DEF match
      <4>2. i <= j
        BY <3>2, <4>1
      <4> QED
        BY <2>9, <2>10, <3>3, <4>2
    <3> QED
      BY <3>3, <3>4
  <2>11. \A i \in 1 .. ChainLength : i \in 1 .. Len(chain) => Looked(chain, i) = chain[i]
    <3>1. slot # <<>> => DOMAIN chain = 1 .. Len(chain)
      BY <2>9
    <3> QED
      BY <3>1 DEF Looked
  <2> HIDE DEF match, chain
  <2>12. CASE key \in DOMAIN contents
    <3>1. PICK p \in Hash!Places(slot) : At(slot, p).key = key
      BY <2>8, <2>12
    <3>2. there = {p}
      BY <2>8, <3>1
    <3>3. Hash!Cardinality(here) = 1
      BY <2>5, <3>2, HashCardinality, FS_Singleton
    <3>4. \A q \in here : Hash!ForAllInSameBucket(key)[q].payload = contents[key]
      BY <2>5, <2>8
    <3>5. slot # <<>> /\ p = <<p[1], p[2]>> /\ p[1] \in 1 .. Len(slot) /\ p[2] \in 1 .. Len(slot[p[1]])
      <4>1. p = <<p[1], p[2]>> /\ p[1] \in 1 .. Len(slot) /\ p[2] \in 1 .. Len(slot[p[1]])
        BY <2>2, PlacesAre
      <4>2. slot # <<>>
        BY UnusedIs
      <4> QED
        BY <4>1, <4>2
    <3>6. chain # <<>>
      <4> SUFFICES ASSUME chain = <<>> PROVE FALSE
        OBVIOUS
      <4>1. Len(slot[1]) = 0
        BY DEF chain
      <4>2. 1 \in 1 .. Len(slot)
        BY <2>9, <3>5
      <4>3. p[1] # 1
        BY <3>5, <4>1
      <4>4. 1 < p[1] /\ Len(slot[p[1]]) # 0
        BY <2>7, <3>5, <4>3
      <4> QED
        BY <2>7, <3>5, <4>1, <4>2, <4>4, HashAssumption
    <3>7. ASSUME match # {} PROVE Looked(chain, Hash!Least(match)).payload = contents[key]
      <4> DEFINE i == Hash!Least(match)
      <4>1. i \in 1 .. ChainLength /\ Looked(chain, i).key = key
        BY <2>10, <3>5, <3>6, <3>7
      <4>2. i \in 1 .. Len(chain)
        <5>1. CASE p[1] = 1
          <6>1. p[2] \in 1 .. Len(chain) /\ chain[p[2]].key = key
            BY <3>1, <3>5, <5>1 DEF At, chain
          <6> QED
            BY <2>10, <3>5, <3>6, <3>7, <6>1
        <5>2. CASE p[1] # 1
          <6>1. 1 < p[1] /\ Len(slot[p[1]]) # 0
            BY <2>7, <3>5, <5>2
          <6>2. Len(chain) = ChainLength
            BY <2>7, <2>9, <3>5, <6>1 DEF chain
          <6> QED
            BY <4>1, <6>2
        <5> QED
          BY <5>1, <5>2
      <4>3. Looked(chain, i) = chain[i]
        BY <2>11, <4>1, <4>2
      <4>4. <<1, i>> \in Hash!Places(slot) /\ At(slot, <<1, i>>) = chain[i]
        BY <2>9, <3>5, <4>2
      <4> HIDE DEF i
      <4>5. At(slot, <<1, i>>).key = key /\ At(slot, <<1, i>>).payload = contents[At(slot, <<1, i>>).key]
        BY <2>8, <4>1, <4>3, <4>4
      <4> QED
        BY <4>3, <4>4, <4>5 DEF i
    <3>8. Hash!Find(key) \in {contents[key], "outside"}
      BY <2>4, <3>5, <3>6, <3>7
    <3> QED
      BY <2>12, <3>3, <3>4, <3>8 DEF here
  <2>13. CASE key \notin DOMAIN contents
    <3>1. here = {}
      BY <2>5, <2>8, <2>13
    <3>2. ASSUME slot # <<>>, chain # <<>>, match # {}
          PROVE  key = 0 /\ Looked(chain, Hash!Least(match)).payload = "unfilled"
      <4> DEFINE i == Hash!Least(match)
      <4>1. i \in 1 .. ChainLength /\ Looked(chain, i).key = key
        BY <2>10, <3>2
      <4>2. i \notin 1 .. Len(chain)
        <5> SUFFICES ASSUME i \in 1 .. Len(chain) PROVE FALSE
          OBVIOUS
        <5>1. Looked(chain, i) = chain[i]
          BY <2>11, <4>1
        <5>2. <<1, i>> \in Hash!Places(slot) /\ At(slot, <<1, i>>) = chain[i]
          BY <2>9, <3>2
        <5> QED
          BY <2>8, <2>13, <4>1, <5>1, <5>2
      <4>3. Looked(chain, i) = Unfilled
        BY <2>9, <3>2, <4>2 DEF Looked
      <4> QED
        BY <4>1, <4>3 DEF Unfilled
    <3>3. Hash!Find(key) \in {"absent", "forever", "outside"} \cup (IF key = 0 THEN {"unfilled"} ELSE {})
      BY <2>4, <3>2
    <3> QED
      BY <2>13, <3>1, <3>3 DEF here
  <2> QED
    BY <2>12, <2>13
<1> QED
  BY <1>3, <1>4 DEF Hash!Agrees

\* A key is in the table once, in the slot where the next insertion looks, with the
\* payload last accepted for it; no slot goes over its limit; and a find that ends in
\* the table tells the truth, but for the key an unfilled element has
\* (hash_map.hpp: insert, replace, reset and find of base_hash_table).
THEOREM Hashes == Spec => []HashAgrees
<1> DEFINE IInv == kind = "hash" => HashInv
<1>1. Init => IInv
  BY Begins, HashBegins
<1>2. IInv /\ [Next]_vars => IInv'
  BY Steps, HashSteps
<1>3. IInv => HashAgrees
  BY HashHolds DEF HashAgrees
<1> QED
  BY <1>1, <1>2, <1>3, PTL DEF Spec

-----------------------------------------------------------------------------
(* Sequences                                                               *)

LEMMA SeqEqual ==
  ASSUME NEW S, NEW s \in Seq(S), NEW t \in Seq(S), Len(s) = Len(t), \A i \in 1 .. Len(s) : s[i] = t[i]
  PROVE  s = t
  OBVIOUS

LEMMA ConcatIs ==
  ASSUME NEW S, NEW s \in Seq(S), NEW t \in Seq(S)
  PROVE  /\ s \o t \in Seq(S) /\ Len(s \o t) = Len(s) + Len(t) /\ Len(s) \in Nat /\ Len(t) \in Nat
         /\ \A i \in 1 .. Len(s) : (s \o t)[i] = s[i]
         /\ \A i \in 1 .. Len(t) : (s \o t)[Len(s) + i] = t[i]
  OBVIOUS

LEMMA PrefixIs ==
  ASSUME NEW S, NEW s \in Seq(S), NEW n \in 0 .. Len(s)
  PROVE  /\ SubSeq(s, 1, n) \in Seq(S) /\ Len(SubSeq(s, 1, n)) = n
         /\ \A i \in 1 .. n : SubSeq(s, 1, n)[i] = s[i]
  OBVIOUS

LEMMA SubSeqIs ==
  ASSUME NEW S, NEW s \in Seq(S), NEW m \in Nat, NEW n \in Nat, 1 <= m, m <= n + 1, n <= Len(s)
  PROVE  /\ SubSeq(s, m, n) \in Seq(S) /\ Len(SubSeq(s, m, n)) = n + 1 - m
         /\ \A i \in 1 .. n + 1 - m : SubSeq(s, m, n)[i] = s[m + i - 1]
  OBVIOUS

\* What follows from a position on.
From(s, i) == SubSeq(s, i, Len(s))

Unrolls(s, t) ==
  /\ From(s, 1) = s /\ From(s, Len(s) + 1) \o t = t
  /\ \A i \in 1 .. Len(s) : From(s, i) \o t = <<s[i]>> \o (From(s, i + 1) \o t)

LEMMA FromIs ==
  ASSUME NEW S, NEW s \in Seq(S), NEW t \in Seq(S)
  PROVE  Unrolls(s, t)
<1>1. From(s, 1) = s
  <2>1. /\ From(s, 1) \in Seq(S) /\ Len(From(s, 1)) = Len(s)
        /\ \A i \in 1 .. Len(s) : From(s, 1)[i] = s[i]
    BY PrefixIs DEF From
  <2> QED
    BY <2>1, SeqEqual
<1>2. From(s, Len(s) + 1) \o t = t
  <2> DEFINE u == From(s, Len(s) + 1)
  <2>1. u \in Seq(S) /\ Len(u) = 0
    BY SubSeqIs DEF From
  <2> HIDE DEF u
  <2>2. u \o t \in Seq(S) /\ Len(u \o t) = Len(t) /\ \A i \in 1 .. Len(t) : (u \o t)[i] = t[i]
    BY <2>1, ConcatIs
  <2> QED
    BY <2>2, SeqEqual DEF u
<1>3. ASSUME NEW i \in 1 .. Len(s)
      PROVE  From(s, i) \o t = <<s[i]>> \o (From(s, i + 1) \o t)
  <2> DEFINE a == From(s, i)
             c == From(s, i + 1)
             x == <<s[i]>>
  <2>1. a \in Seq(S) /\ Len(a) = Len(s) + 1 - i /\ \A j \in 1 .. Len(s) + 1 - i : a[j] = s[i + j - 1]
    BY SubSeqIs DEF From
  <2>2. c \in Seq(S) /\ Len(c) = Len(s) - i /\ \A j \in 1 .. Len(s) - i : c[j] = s[i + j]
    <3>1. /\ SubSeq(s, i + 1, Len(s)) \in Seq(S)
          /\ Len(SubSeq(s, i + 1, Len(s))) = Len(s) + 1 - (i + 1)
          /\ \A j \in 1 .. Len(s) + 1 - (i + 1) : SubSeq(s, i + 1, Len(s))[j] = s[(i + 1) + j - 1]
      BY SubSeqIs
    <3> QED
      BY <3>1 DEF From
  <2>3. x \in Seq(S) /\ Len(x) = 1 /\ x[1] = s[i]
    OBVIOUS
  <2> HIDE DEF a, c, x
  <2> DEFINE r == c \o t
             l == a \o t
             m == x \o r
  <2>4. /\ r \in Seq(S) /\ Len(r) = Len(c) + Len(t)
        /\ \A j \in 1 .. Len(c) : r[j] = c[j]
        /\ \A j \in 1 .. Len(t) : r[Len(c) + j] = t[j]
    <3>1. c \in Seq(S)
      BY <2>2
    <3> QED
      BY ONLY <3>1, t \in Seq(S), ConcatIs
  <2>5. /\ l \in Seq(S) /\ Len(l) = Len(a) + Len(t)
        /\ \A j \in 1 .. Len(a) : l[j] = a[j]
        /\ \A j \in 1 .. Len(t) : l[Len(a) + j] = t[j]
    <3>1. a \in Seq(S)
      BY <2>1
    <3> QED
      BY ONLY <3>1, t \in Seq(S), ConcatIs
  <2> HIDE DEF r
  <2>6. m \in Seq(S) /\ Len(m) = 1 + Len(r) /\ m[1] = x[1] /\ \A j \in 1 .. Len(r) : m[1 + j] = r[j]
    <3>1. x \in Seq(S) /\ r \in Seq(S)
      BY <2>3, <2>4
    <3>2. /\ m \in Seq(S) /\ Len(m) = Len(x) + Len(r)
          /\ \A j \in 1 .. Len(x) : m[j] = x[j]
          /\ \A j \in 1 .. Len(r) : m[Len(x) + j] = r[j]
      BY ONLY <3>1, ConcatIs
    <3> HIDE DEF m
    <3> QED
      BY ONLY <2>3, <3>2
  <2> HIDE DEF l, m
  <2>7. Len(s) \in Nat /\ Len(t) \in Nat
    OBVIOUS
  <2>8. Len(l) = Len(m)
    BY <2>1, <2>2, <2>4, <2>5, <2>6, <2>7
  <2>9. ASSUME NEW j \in 1 .. Len(l) PROVE l[j] = m[j]
    <3>1. CASE j = 1
      <4>1. 1 \in 1 .. Len(a) /\ 1 \in 1 .. Len(s) + 1 - i /\ i + 1 - 1 = i
        <5>1. Len(a) = Len(s) + 1 - i /\ Len(s) \in Nat
          BY ONLY <2>1, <2>7
        <5> QED
          BY ONLY <5>1, i \in 1 .. Len(s)
      <4>2. l[1] = a[1] /\ a[1] = s[i + 1 - 1]
        BY ONLY <2>1, <2>5, <4>1
      <4> QED
        BY ONLY <2>3, <2>6, <3>1, <4>1, <4>2
    <3>2. CASE j \in 2 .. Len(a)
      <4>1. l[j] = s[i + j - 1]
        BY <2>1, <2>5, <2>7, <3>2
      <4>2. j - 1 \in 1 .. Len(c) /\ j - 1 \in 1 .. Len(r) /\ 1 + (j - 1) = j
        BY <2>1, <2>2, <2>4, <2>7, <3>2
      <4>3. m[j] = r[j - 1] /\ r[j - 1] = c[j - 1]
        BY <2>4, <2>6, <4>2
      <4>4. c[j - 1] = s[i + (j - 1)] /\ i + (j - 1) = i + j - 1
        BY <2>2, <4>2
      <4> QED
        BY <4>1, <4>3, <4>4
    <3>3. CASE j > Len(a)
      <4> DEFINE k == j - Len(a)
      <4>1. k \in 1 .. Len(t) /\ Len(a) + k = j /\ Len(c) + k = j - 1 /\ j - 1 \in 1 .. Len(r) /\ 1 + (j - 1) = j
        <5>1. /\ Len(a) = Len(s) + 1 - i /\ Len(c) = Len(s) - i /\ Len(r) = Len(c) + Len(t)
              /\ Len(l) = Len(a) + Len(t) /\ Len(s) \in Nat /\ Len(t) \in Nat
          BY ONLY <2>1, <2>2, <2>4, <2>5, <2>7
        <5> QED
          BY ONLY <5>1, <3>3, i \in 1 .. Len(s), j \in 1 .. Len(l)
      <4>2. l[j] = t[k] /\ r[j - 1] = t[k]
        BY <2>4, <2>5, <4>1
      <4> QED
        BY <2>6, <4>1, <4>2
    <3> QED
      BY <2>1, <2>7, <3>1, <3>2, <3>3
  <2>10. l = m
    BY <2>5, <2>6, <2>8, <2>9, SeqEqual
  <2> QED
    BY <2>10 DEF l, m, r, a, c, x
<1> QED
  BY <1>1, <1>2, <1>3 DEF Unrolls

-----------------------------------------------------------------------------
(* Log records: what is written                                            *)

Logged == {Log!Color(c) : c \in Nat} \cup {Log!Text(t) : t \in Seq(Nat)}
Header(t) == <<Log!TextId>> \o Log!SizeBytes(Len(t))
PieceBytes(x) == IF x.id = "color" THEN <<Log!ColorId, x.color>> ELSE Header(x.text) \o x.text

LEMMA SizeIs ==
  ASSUME NEW n \in Nat
  PROVE  /\ (n \div Base) % Base \in Nat /\ n % Base \in Nat
         /\ n < Base * Base => (n % Base) + Base * ((n \div Base) % Base) = n
<1> DEFINE q == n \div Base
           r == n % Base
<1>1. Base \in Nat \ {0}
  BY LogAssumption
<1>2. q \in Nat /\ r \in Nat /\ n = Base * q + r /\ r < Base /\ q % Base \in Nat
  BY <1>1
<1> HIDE DEF q, r
<1>3. ASSUME n < Base * Base PROVE r + Base * (q % Base) = n
  <2>1. q < Base
    <3> SUFFICES ASSUME q >= Base PROVE FALSE
      BY <1>1, <1>2
    <3>1. Base * q >= Base * Base
      BY <1>1, <1>2
    <3> QED
      BY <1>1, <1>2, <1>3, <3>1
  <2>2. q % Base = q
    BY <1>1, <1>2, <2>1
  <2> QED
    BY <1>1, <1>2, <2>2
<1> QED
  BY <1>2, <1>3 DEF q, r

LEMMA TextBytes ==
  ASSUME NEW t \in Seq(Nat)
  PROVE  LET B == Header(t) \o t
         IN  /\ Header(t) \in Seq(Nat) /\ Len(Header(t)) = 3
             /\ B \in Seq(Nat) /\ Len(B) = 3 + Len(t) /\ Len(t) \in Nat
             /\ B[1] = Log!TextId /\ B[2] = Len(t) % Base /\ B[3] = (Len(t) \div Base) % Base
             /\ \A i \in 1 .. Len(t) : B[3 + i] = t[i]
<1> DEFINE lo == Len(t) % Base
           hi == (Len(t) \div Base) % Base
           h == Header(t)
           B == h \o t
<1>1. lo \in Nat /\ hi \in Nat /\ Len(t) \in Nat
  BY SizeIs
<1>2. h = <<Log!TextId>> \o <<lo, hi>>
  BY DEF Header, Log!SizeBytes
<1> HIDE DEF lo, hi, h
<1>3. h \in Seq(Nat) /\ Len(h) = 3 /\ h[1] = Log!TextId /\ h[2] = lo /\ h[3] = hi
  <2>1. Log!TextId \in Nat
    BY DEF Log!TextId
  <2> QED
    BY ONLY <1>1, <1>2, <2>1
<1>4. h \in Seq(Nat) /\ t \in Seq(Nat)
  BY <1>3
<1>5. /\ B \in Seq(Nat) /\ Len(B) = Len(h) + Len(t)
      /\ \A i \in 1 .. Len(h) : B[i] = h[i]
      /\ \A i \in 1 .. Len(t) : B[Len(h) + i] = t[i]
  BY ONLY <1>4, ConcatIs
<1> HIDE DEF B
<1>6. /\ Len(B) = 3 + Len(t) /\ B[1] = Log!TextId /\ B[2] = lo /\ B[3] = hi
      /\ \A i \in 1 .. Len(t) : B[3 + i] = t[i]
  BY ONLY <1>1, <1>3, <1>5
<1> QED
  BY <1>1, <1>3, <1>5, <1>6 DEF lo, hi, h, B

LEMMA PieceIs ==
  ASSUME NEW x \in Logged
  PROVE  /\ PieceBytes(x) \in Seq(Nat) /\ Len(PieceBytes(x)) = x.length /\ x.length \in Nat /\ x.length > 0
         /\ \/ \E c \in Nat : /\ x = Log!Color(c) /\ x.length = 2
                              /\ PieceBytes(x)[1] = Log!ColorId /\ PieceBytes(x)[2] = c
            \/ \E t \in Seq(Nat) :
                 /\ x = Log!Text(t) /\ Len(t) \in Nat /\ x.length = 3 + Len(t)
                 /\ PieceBytes(x)[1] = Log!TextId /\ PieceBytes(x)[2] = Len(t) % Base
                 /\ PieceBytes(x)[3] = (Len(t) \div Base) % Base
                 /\ \A i \in 1 .. Len(t) : PieceBytes(x)[3 + i] = t[i]
<1>1. CASE x \in {Log!Color(c) : c \in Nat}
  <2>1. PICK c \in Nat : x = Log!Color(c)
    BY <1>1
  <2>2. PieceBytes(x) = <<Log!ColorId, c>> /\ x.length = 2
    BY <2>1 DEF PieceBytes, Log!Color
  <2>3. Log!ColorId \in Nat
    BY DEF Log!ColorId
  <2> QED
    BY <2>1, <2>2, <2>3
<1>2. CASE x \in {Log!Text(t) : t \in Seq(Nat)}
  <2>1. PICK t \in Seq(Nat) : x = Log!Text(t)
    BY <1>2
  <2>2. PieceBytes(x) = Header(t) \o t /\ x.length = 3 + Len(t)
    BY <2>1 DEF PieceBytes, Log!Text
  <2> DEFINE B == PieceBytes(x)
  <2>3. /\ B \in Seq(Nat) /\ Len(B) = 3 + Len(t) /\ Len(t) \in Nat
        /\ B[1] = Log!TextId /\ B[2] = Len(t) % Base /\ B[3] = (Len(t) \div Base) % Base
        /\ \A i \in 1 .. Len(t) : B[3 + i] = t[i]
    BY <2>2, TextBytes
  <2> HIDE DEF B
  <2>4. B \in Seq(Nat) /\ Len(B) = x.length /\ x.length \in Nat /\ x.length > 0
    BY ONLY <2>2, <2>3
  <2> QED
    BY <2>1, <2>2, <2>3, <2>4 DEF B
<1> QED
  BY <1>1, <1>2 DEF Logged

\* A write takes what fits.
LEMMA WriteIs ==
  ASSUME NEW s \in Seq(Nat), NEW b \in Seq(Nat), Len(s) <= Room
  PROVE  LET w == Log!Write(s, b)
         IN  /\ w \in Seq(Nat) /\ Len(w) >= Len(s) /\ Len(w) <= Room /\ Len(w) <= Len(s) + Len(b)
             /\ Len(w) = Room \/ Len(w) = Len(s) + Len(b)
             /\ \A i \in 1 .. Len(s) : w[i] = s[i]
             /\ \A i \in 1 .. Len(b) : Len(s) + i <= Len(w) => w[Len(s) + i] = b[i]
<1> DEFINE c == s \o b
           n == IF Len(c) <= Room THEN Len(c) ELSE Room
           w == SubSeq(c, 1, n)
<1>1. /\ c \in Seq(Nat) /\ Len(c) = Len(s) + Len(b) /\ Len(s) \in Nat /\ Len(b) \in Nat
      /\ \A i \in 1 .. Len(s) : c[i] = s[i]
      /\ \A i \in 1 .. Len(b) : c[Len(s) + i] = b[i]
  BY ConcatIs
<1> HIDE DEF c
<1>2. n \in 0 .. Len(c) /\ (n = Room \/ n = Len(c)) /\ n <= Room /\ n >= Len(s)
  BY <1>1, LogAssumption
<1> HIDE DEF n
<1>3. w \in Seq(Nat) /\ Len(w) = n /\ \A i \in 1 .. n : w[i] = c[i]
  BY ONLY <1>1, <1>2, PrefixIs
<1>4. Log!Write(s, b) = w
  BY DEF Log!Write, c, n
<1> HIDE DEF w
<1>5. \A i \in 1 .. Len(s) : w[i] = s[i]
  BY <1>1, <1>2, <1>3
<1>6. ASSUME NEW i \in 1 .. Len(b), Len(s) + i <= Len(w) PROVE w[Len(s) + i] = b[i]
  <2>1. Len(s) + i \in 1 .. n
    BY <1>1, <1>2, <1>3, <1>6
  <2> QED
    BY <1>1, <1>3, <2>1
<1>7. Len(w) >= Len(s) /\ Len(w) <= Room /\ Len(w) <= Len(s) + Len(b) /\ (Len(w) = Room \/ Len(w) = Len(s) + Len(b))
  BY <1>1, <1>2, <1>3
<1> QED
  BY <1>3, <1>4, <1>5, <1>6, <1>7

\* Two writes one after the other are one.
LEMMA WriteTwice ==
  ASSUME NEW s \in Seq(Nat), NEW a \in Seq(Nat), NEW b \in Seq(Nat), Len(s) <= Room
  PROVE  Log!Write(Log!Write(s, a), b) = Log!Write(s, a \o b)
<1> DEFINE w == Log!Write(s, a)
           u == Log!Write(w, b)
           c == a \o b
           v == Log!Write(s, c)
<1>1. /\ w \in Seq(Nat) /\ Len(w) >= Len(s) /\ Len(w) <= Room /\ Len(w) <= Len(s) + Len(a)
      /\ Len(w) = Room \/ Len(w) = Len(s) + Len(a)
      /\ \A i \in 1 .. Len(s) : w[i] = s[i]
      /\ \A i \in 1 .. Len(a) : Len(s) + i <= Len(w) => w[Len(s) + i] = a[i]
  BY WriteIs
<1> HIDE DEF w
<1>2. /\ u \in Seq(Nat) /\ Len(u) >= Len(w) /\ Len(u) <= Room /\ Len(u) <= Len(w) + Len(b)
      /\ Len(u) = Room \/ Len(u) = Len(w) + Len(b)
      /\ \A i \in 1 .. Len(w) : u[i] = w[i]
      /\ \A i \in 1 .. Len(b) : Len(w) + i <= Len(u) => u[Len(w) + i] = b[i]
  BY <1>1, WriteIs
<1>3. /\ c \in Seq(Nat) /\ Len(c) = Len(a) + Len(b) /\ Len(a) \in Nat /\ Len(b) \in Nat
      /\ \A i \in 1 .. Len(a) : c[i] = a[i]
      /\ \A i \in 1 .. Len(b) : c[Len(a) + i] = b[i]
  BY ConcatIs
<1> HIDE DEF c
<1>4. /\ v \in Seq(Nat) /\ Len(v) >= Len(s) /\ Len(v) <= Room /\ Len(v) <= Len(s) + Len(c)
      /\ Len(v) = Room \/ Len(v) = Len(s) + Len(c)
      /\ \A i \in 1 .. Len(s) : v[i] = s[i]
      /\ \A i \in 1 .. Len(c) : Len(s) + i <= Len(v) => v[Len(s) + i] = c[i]
  BY <1>3, WriteIs
<1> HIDE DEF u, v
<1>5. Len(s) \in Nat /\ Room \in Nat /\ Len(w) \in Nat /\ Len(u) \in Nat /\ Len(v) \in Nat
  <2>1. Room \in Nat
    BY LogAssumption
  <2>2. \A z \in Seq(Nat) : Len(z) \in Nat
    OBVIOUS
  <2> QED
    BY ONLY <2>1, <2>2, <1>1, <1>2, <1>4, s \in Seq(Nat)
<1> DEFINE LengthsFit ==
             /\ Len(w) >= Len(s) /\ Len(w) <= Room /\ Len(w) <= Len(s) + Len(a)
             /\ Len(w) = Room \/ Len(w) = Len(s) + Len(a)
             /\ Len(u) >= Len(w) /\ Len(u) <= Room /\ Len(u) <= Len(w) + Len(b)
             /\ Len(u) = Room \/ Len(u) = Len(w) + Len(b)
             /\ Len(c) = Len(a) + Len(b) /\ Len(a) \in Nat /\ Len(b) \in Nat
             /\ Len(v) >= Len(s) /\ Len(v) <= Room /\ Len(v) <= Len(s) + Len(c)
             /\ Len(v) = Room \/ Len(v) = Len(s) + Len(c)
<1>f. LengthsFit
  BY ONLY <1>1, <1>2, <1>3, <1>4
<1>6. Len(u) = Len(v)
  BY ONLY <1>f, <1>5
<1>7. ASSUME NEW i \in 1 .. Len(u) PROVE u[i] = v[i]
  <2>1. CASE i <= Len(s)
    BY <1>1, <1>2, <1>4, <1>5, <2>1
  <2>2. CASE i > Len(s) /\ i <= Len(w)
    <3> DEFINE j == i - Len(s)
    <3>1. /\ j \in 1 .. Len(a) /\ j \in 1 .. Len(c) /\ Len(s) + j = i /\ i \in 1 .. Len(w)
          /\ Len(s) + j <= Len(w) /\ Len(s) + j <= Len(v)
      BY ONLY <1>f, <1>5, <1>6, <2>2, i \in 1 .. Len(u)
    <3> HIDE DEF j
    <3>2. w[i] = a[j] /\ v[i] = c[j]
      BY <1>1, <1>4, <3>1
    <3> QED
      BY <1>2, <1>3, <3>1, <3>2
  <2>3. CASE i > Len(w)
    <3>1. Len(w) = Len(s) + Len(a)
      BY ONLY <1>f, <1>5, <2>3, i \in 1 .. Len(u)
    <3> DEFINE j == i - Len(w)
    <3>2. /\ j \in 1 .. Len(b) /\ Len(w) + j = i /\ Len(a) + j \in 1 .. Len(c) /\ Len(s) + (Len(a) + j) = i
          /\ Len(s) + (Len(a) + j) <= Len(v) /\ Len(w) + j <= Len(u)
      BY ONLY <1>f, <1>5, <1>6, <2>3, <3>1, i \in 1 .. Len(u)
    <3> HIDE DEF j
    <3>3. u[i] = b[j] /\ v[i] = c[Len(a) + j]
      BY <1>2, <1>4, <3>2
    <3> QED
      BY <1>3, <3>2, <3>3
  <2> QED
    BY <1>5, <2>1, <2>2, <2>3
<1>8. u = v
  BY ONLY <1>2, <1>4, <1>6, <1>7, SeqEqual
<1> QED
  BY <1>8 DEF u, v, w, c

-----------------------------------------------------------------------------
(* Log records: the pieces in the stream                                   *)

\* A piece lies behind p, up to q; a piece that was cut begins behind p.
PieceAt(s, x, p, q) ==
  /\ q = p + x.length
  /\ \A i \in 1 .. x.length : s[p + i] = PieceBytes(x)[i]
Partly(s, x, p) ==
  /\ p \in 1 .. Len(s) /\ p + x.length > Len(s)
  /\ \A i \in 1 .. x.length : p + i <= Len(s) => s[p + i] = PieceBytes(x)[i]

\* Pieces lie one behind the other, behind the style and up to e.
Marks3(s, ps, e, b) ==
  /\ b \in [1 .. Len(ps) + 1 -> 1 .. Len(s)] /\ b[1] = 1 /\ b[Len(ps) + 1] = e
  /\ \A i \in 1 .. Len(ps) : PieceAt(s, ps[i], b[i], b[i + 1])
Laid(s, ps, e) == \E b : Marks3(s, ps, e, b)

Record(l) ==
  /\ l = [style |-> l.style, pieces |-> l.pieces, cut |-> l.cut, wrapped |-> l.wrapped,
           overran |-> l.overran]
  /\ l.overran \in BOOLEAN

CutAfter(s, l, ps, x, e) ==
  /\ ps \in Seq(Logged) /\ x \in Logged
  /\ l.pieces = Append(ps, x) /\ Laid(s, ps, e) /\ Partly(s, x, e)
  /\ ~l.wrapped => x.length < Base * Base + 3

LogInv ==
  /\ stream \in Seq(Nat) /\ Len(stream) \in 1 .. Room
  /\ Record(logged) /\ stream[1] = logged.style
  /\ logged.pieces \in Seq(Logged)
  /\ logged.cut \in BOOLEAN
  /\ ~logged.cut => Laid(stream, logged.pieces, Len(stream))
  /\ logged.cut => \E ps, x, e : CutAfter(stream, logged, ps, x, e)

Extends(w, s) ==
  /\ w \in Seq(Nat) /\ Len(w) >= Len(s) /\ \A i \in 1 .. Len(s) : w[i] = s[i]

\* What lies in a stream stays where it is when more is written.
LEMMA LaidStays ==
  ASSUME NEW s \in Seq(Nat), NEW w, Extends(w, s), NEW ps \in Seq(Logged), NEW e, Laid(s, ps, e)
  PROVE  Laid(w, ps, e)
<1>1. PICK b : Marks3(s, ps, e, b)
  BY DEF Laid
<1>2. /\ b \in [1 .. Len(ps) + 1 -> 1 .. Len(s)] /\ b[1] = 1 /\ b[Len(ps) + 1] = e
      /\ \A i \in 1 .. Len(ps) : PieceAt(s, ps[i], b[i], b[i + 1])
  BY <1>1 DEF Marks3
<1>3. /\ w \in Seq(Nat) /\ Len(w) >= Len(s) /\ \A i \in 1 .. Len(s) : w[i] = s[i]
      /\ Len(w) \in Nat /\ Len(s) \in Nat
  BY DEF Extends
<1>4. ASSUME NEW i \in 1 .. Len(ps) PROVE PieceAt(w, ps[i], b[i], b[i + 1])
  <2> DEFINE x == ps[i]
             p == b[i]
             q == b[i + 1]
  <2>1. x \in Logged /\ i \in 1 .. Len(ps) + 1 /\ i + 1 \in 1 .. Len(ps) + 1
    OBVIOUS
  <2>2. p \in 1 .. Len(s) /\ q \in 1 .. Len(s) /\ PieceAt(s, x, p, q)
    BY <1>2, <2>1
  <2>3. x.length \in Nat
    BY <2>1, PieceIs
  <2> HIDE DEF x, p, q
  <2>4. \A j \in 1 .. x.length : w[p + j] = s[p + j]
    <3>1. q = p + x.length
      BY <2>2 DEF PieceAt
    <3>2. \A j \in 1 .. x.length : p + j \in 1 .. Len(s)
      <4>1. p \in 1 .. Len(s) /\ q \in 1 .. Len(s) /\ Len(s) \in Nat
        BY <1>3, <2>2
      <4> QED
        BY ONLY <2>3, <3>1, <4>1
    <3>3. \A k \in 1 .. Len(s) : w[k] = s[k]
      BY <1>3
    <3> QED
      BY ONLY <3>2, <3>3
  <2>5. PieceAt(w, x, p, q)
    BY <2>2, <2>4 DEF PieceAt
  <2> QED
    BY <2>5 DEF x, p, q
<1>5. b \in [1 .. Len(ps) + 1 -> 1 .. Len(w)]
  BY <1>2, <1>3
<1>6. Marks3(w, ps, e, b)
  BY ONLY <1>2, <1>4, <1>5 DEF Marks3
<1> QED
  BY <1>6 DEF Laid

LEMMA LaidMore ==
  ASSUME NEW s \in Seq(Nat), NEW ps \in Seq(Logged), NEW e, Laid(s, ps, e), NEW x \in Logged,
         NEW q \in 1 .. Len(s), PieceAt(s, x, e, q)
  PROVE  Laid(s, Append(ps, x), q)
<1>1. PICK b : Marks3(s, ps, e, b)
  BY DEF Laid
<1>2. /\ b \in [1 .. Len(ps) + 1 -> 1 .. Len(s)] /\ b[1] = 1 /\ b[Len(ps) + 1] = e
      /\ \A i \in 1 .. Len(ps) : PieceAt(s, ps[i], b[i], b[i + 1])
  BY <1>1 DEF Marks3
<1> DEFINE n == Len(ps)
           c == [i \in 1 .. n + 2 |-> IF i <= n + 1 THEN b[i] ELSE q]
           r == Append(ps, x)
<1>3. /\ r \in Seq(Logged) /\ Len(r) = n + 1 /\ r[n + 1] = x /\ n \in Nat
      /\ \A i \in 1 .. n : r[i] = ps[i]
  OBVIOUS
<1> HIDE DEF r
<1>4. c \in [1 .. n + 2 -> 1 .. Len(s)] /\ c[n + 2] = q /\ \A i \in 1 .. n + 1 : c[i] = b[i]
  BY <1>2, <1>3
<1> HIDE DEF n, c
<1>5. ASSUME NEW i \in 1 .. n + 1 PROVE PieceAt(s, r[i], c[i], c[i + 1])
  <2>1. CASE i = n + 1
    <3>1. r[i] = x /\ c[i] = e /\ c[i + 1] = q
      <4>1. i + 1 = n + 2 /\ c[i] = b[n + 1]
        BY <1>3, <1>4, <2>1
      <4> QED
        BY <1>2, <1>3, <1>4, <2>1, <4>1 DEF n
    <3> QED
      BY <3>1
  <2>2. CASE i \in 1 .. n
    <3>1. i \in 1 .. n + 1 /\ i + 1 \in 1 .. n + 1
      BY ONLY <1>3, <2>2
    <3>2. r[i] = ps[i] /\ c[i] = b[i] /\ c[i + 1] = b[i + 1]
      BY ONLY <1>3, <1>4, <2>2, <3>1
    <3>3. PieceAt(s, ps[i], b[i], b[i + 1])
      BY <1>2, <2>2 DEF n
    <3> QED
      BY ONLY <3>2, <3>3
  <2> QED
    BY <1>3, <2>1, <2>2
<1>6. c[1] = 1
  BY <1>2, <1>3, <1>4 DEF n
<1>7. c \in [1 .. Len(r) + 1 -> 1 .. Len(s)] /\ c[Len(r) + 1] = q
  BY <1>3, <1>4
<1>8. \A i \in 1 .. Len(r) : PieceAt(s, r[i], c[i], c[i + 1])
  BY <1>3, <1>5
<1>9. Marks3(s, r, q, c)
  BY ONLY <1>6, <1>7, <1>8 DEF Marks3
<1> QED
  BY <1>9 DEF Laid, r

\* Both ways to encode a text, and a colour, write a piece's bytes.
Logs(x) ==
  /\ stream' = Log!Write(stream, PieceBytes(x))
  /\ logged' = [logged EXCEPT !.pieces = Append(@, x),
                              !.cut = @ \/ Len(stream') < Len(stream) + x.length,
                              !.wrapped = @ \/ x.length - 3 >= Base * Base]

Overruns == logged' = [logged EXCEPT !.overran = TRUE] /\ stream' = stream

LEMMA LogNext ==
  ASSUME LogInv, Log!Next
  PROVE  /\ ~logged.cut
         /\ \/ \E x \in Logged : Logs(x)
            \/ Overruns
<1>1. stream \in Seq(Nat) /\ Len(stream) <= Room
  BY DEF LogInv
<1>2. ~logged.cut /\ \/ \E c \in Colors : Log!EncodeColor(c)
                     \/ \E t \in LogTexts : Log!EncodeCstr(t) \/ Log!EncodeSprintf(t)
  BY DEF Log!Next
<1>3. ASSUME NEW c \in Colors, Log!EncodeColor(c) PROVE \E x \in Logged : Logs(x)
  <2> DEFINE x == Log!Color(c)
  <2>1. x \in Logged /\ PieceBytes(x) = <<Log!ColorId, c>>
    BY LogAssumption DEF Logged, PieceBytes, Log!Color
  <2>2. Logs(x)
    BY <1>3, <2>1 DEF Log!EncodeColor, Log!Encode, Logs
  <2> QED
    BY <2>1, <2>2
<1>4. ASSUME NEW t \in LogTexts,
             Log!EncodeCstr(t) \/ (Log!EncodeSprintf(t) /\ Log!FitsFormatted(t))
      PROVE  \E x \in Logged : Logs(x)
  <2> DEFINE x == Log!Text(t)
  <2>1. t \in Seq(Nat)
    BY LogAssumption
  <2>2. x \in Logged /\ PieceBytes(x) = Header(t) \o t
    BY <2>1 DEF Logged, PieceBytes, Log!Text
  <2>3. Log!Write(Log!Write(stream, Header(t)), t) = Log!Write(stream, Header(t) \o t)
    <3>1. Header(t) \in Seq(Nat)
      BY <2>1, TextBytes
    <3> QED
      BY <1>1, <2>1, <3>1, WriteTwice
  <2>4. Log!Encode(x, Log!Write(stream, Header(t) \o t))
    BY <1>4, <2>3 DEF Log!EncodeCstr, Log!EncodeSprintf, Header
  <2>5. Logs(x)
    BY <2>2, <2>4 DEF Log!Encode, Logs
  <2> QED
    BY <2>2, <2>5
<1>5. ASSUME NEW t \in LogTexts, Log!EncodeSprintf(t), ~Log!FitsFormatted(t) PROVE Overruns
  BY <1>5 DEF Log!EncodeSprintf, Overruns
<1> QED
  BY <1>2, <1>3, <1>4, <1>5

LEMMA LogKeeps ==
  ASSUME LogInv, ~logged.cut, NEW x \in Logged, Logs(x)
  PROVE  LogInv'
<1> DEFINE s == stream
           w == stream'
           ps == logged.pieces
           B == PieceBytes(x)
<1>1. /\ s \in Seq(Nat) /\ Len(s) \in 1 .. Room /\ ps \in Seq(Logged) /\ Laid(s, ps, Len(s))
      /\ Record(logged) /\ s[1] = logged.style
  BY DEF LogInv
<1>2. B \in Seq(Nat) /\ Len(B) = x.length /\ x.length \in Nat /\ x.length > 0
  BY PieceIs
<1>3. w = Log!Write(s, B)
  BY DEF Logs
<1> HIDE DEF B, w, s
<1>4. /\ w \in Seq(Nat) /\ Len(w) >= Len(s) /\ Len(w) <= Room /\ Len(w) <= Len(s) + Len(B)
      /\ Len(w) = Room \/ Len(w) = Len(s) + Len(B)
      /\ \A i \in 1 .. Len(s) : w[i] = s[i]
      /\ \A i \in 1 .. Len(B) : Len(s) + i <= Len(w) => w[Len(s) + i] = B[i]
  <2> DEFINE v == Log!Write(s, B)
  <2>1. /\ v \in Seq(Nat) /\ Len(v) >= Len(s) /\ Len(v) <= Room /\ Len(v) <= Len(s) + Len(B)
        /\ Len(v) = Room \/ Len(v) = Len(s) + Len(B)
        /\ \A i \in 1 .. Len(s) : v[i] = s[i]
        /\ \A i \in 1 .. Len(B) : Len(s) + i <= Len(v) => v[Len(s) + i] = B[i]
    <3>1. s \in Seq(Nat) /\ B \in Seq(Nat) /\ Len(s) <= Room
      BY <1>1, <1>2, LogAssumption
    <3> QED
      BY ONLY <3>1, WriteIs
  <2> HIDE DEF v
  <2>2. v = w
    BY <1>3 DEF v
  <2> QED
    BY ONLY <2>1, <2>2
<1>5. Len(w) \in Nat /\ Len(s) \in Nat /\ Room \in Nat
  BY <1>1, <1>4, LogAssumption
<1>6. Extends(w, s)
  BY ONLY <1>4 DEF Extends
<1>7. Laid(w, ps, Len(s))
  BY ONLY <1>1, <1>6, LaidStays
<1>8. /\ logged'.pieces = Append(ps, x) /\ logged'.style = logged.style
      /\ (logged'.cut <=> Len(w) < Len(s) + x.length)
      /\ (~logged'.wrapped => x.length < Base * Base + 3)
      /\ Record(logged') /\ logged'.cut \in BOOLEAN
  <2>1. logged' = [logged EXCEPT !.pieces = Append(ps, x),
                                 !.cut = @ \/ Len(w) < Len(s) + x.length,
                                 !.wrapped = @ \/ x.length - 3 >= Base * Base]
    BY DEF Logs, w, s
  <2>2. /\ logged = [style |-> logged.style, pieces |-> logged.pieces, cut |-> logged.cut,
                     wrapped |-> logged.wrapped, overran |-> logged.overran]
        /\ logged.overran \in BOOLEAN
    BY <1>1 DEF Record
  <2> DEFINE new == Append(ps, x)
             cuts == logged.cut \/ Len(w) < Len(s) + x.length
             wraps == logged.wrapped \/ x.length - 3 >= Base * Base
  <2>3. logged' = [style |-> logged.style, pieces |-> new, cut |-> cuts, wrapped |-> wraps,
                   overran |-> logged.overran]
    <3> HIDE DEF new
    <3> QED
      BY ONLY <2>1, <2>2 DEF new
  <2>4. cuts <=> Len(w) < Len(s) + x.length
    BY <1>2, <1>5
  <2>5. ~wraps => x.length < Base * Base + 3
    BY <1>2, LogAssumption
  <2>7. cuts \in BOOLEAN
    OBVIOUS
  <2> HIDE DEF new, cuts, wraps
  <2>6. /\ logged'.pieces = new /\ logged'.style = logged.style /\ logged'.cut = cuts
        /\ logged'.wrapped = wraps /\ Record(logged')
    BY ONLY <2>2, <2>3 DEF Record
  <2> QED
    BY ONLY <2>4, <2>5, <2>6, <2>7 DEF new
<1>9. w[1] = logged'.style /\ Len(w) \in 1 .. Room
  BY <1>1, <1>4, <1>5, <1>8
<1>10. logged'.pieces \in Seq(Logged) /\ logged'.cut \in BOOLEAN
  BY <1>1, <1>8
<1>11. ASSUME ~logged'.cut PROVE Laid(w, logged'.pieces, Len(w))
  <2>1. Len(w) = Len(s) + x.length
    <3>1. ~(Len(w) < Len(s) + x.length) /\ Len(w) <= Len(s) + x.length
      BY <1>2, <1>4, <1>8, <1>11
    <3> QED
      BY ONLY <1>2, <1>5, <3>1
  <2>2. PieceAt(w, x, Len(s), Len(w))
    BY <1>2, <1>4, <1>5, <2>1 DEF PieceAt, B
  <2>3. Len(w) \in 1 .. Len(w)
    BY <1>5, <1>9
  <2>4. Laid(w, Append(ps, x), Len(w))
    BY ONLY <1>1, <1>4, <1>7, x \in Logged, <2>2, <2>3, LaidMore
  <2> QED
    BY <1>8, <2>4
<1>12. ASSUME logged'.cut PROVE \E qs, y, e : CutAfter(w, logged', qs, y, e)
  <2>1. Partly(w, x, Len(s))
    <3>1. Len(s) \in 1 .. Len(w) /\ Len(s) + x.length > Len(w)
      BY <1>1, <1>2, <1>4, <1>5, <1>8, <1>12
    <3> QED
      BY <1>2, <1>4, <3>1 DEF Partly, B
  <2>2. CutAfter(w, logged', ps, x, Len(s))
    BY ONLY <1>1, <1>7, <1>8, x \in Logged, <2>1 DEF CutAfter
  <2> QED
    BY <2>2
<1>13. /\ w \in Seq(Nat) /\ Len(w) \in 1 .. Room
       /\ Record(logged') /\ w[1] = logged'.style
       /\ logged'.pieces \in Seq(Logged)
       /\ logged'.cut \in BOOLEAN
       /\ ~logged'.cut => Laid(w, logged'.pieces, Len(w))
       /\ logged'.cut => \E qs, y, e : CutAfter(w, logged', qs, y, e)
  BY <1>4, <1>8, <1>9, <1>10, <1>11, <1>12
<1> QED
  BY <1>13 DEF LogInv, Record, w

LEMMA LogBegins == Log!Init => LogInv
<1> SUFFICES ASSUME Log!Init PROVE LogInv
  OBVIOUS
<1>1. PICK style \in Styles :
        /\ stream = Log!Write(<<>>, <<style>>)
        /\ logged = [style |-> style, pieces |-> <<>>, cut |-> FALSE, wrapped |-> FALSE,
                      overran |-> FALSE]
  BY DEF Log!Init
<1>2. /\ <<>> \in Seq(Nat) /\ Len(<<>>) = 0 /\ <<style>> \in Seq(Nat) /\ Len(<<style>>) = 1
      /\ <<style>>[1] = style
  BY LogAssumption
<1>3. Room \in Nat /\ Room >= 1
  BY LogAssumption
<1> DEFINE w == Log!Write(<<>>, <<style>>)
<1>4. /\ w \in Seq(Nat) /\ Len(w) >= Len(<<>>) /\ Len(w) <= Room /\ Len(w) <= Len(<<>>) + Len(<<style>>)
      /\ Len(w) = Room \/ Len(w) = Len(<<>>) + Len(<<style>>)
      /\ \A i \in 1 .. Len(<<style>>) : Len(<<>>) + i <= Len(w) => w[Len(<<>>) + i] = <<style>>[i]
  <2>1. Len(<<>>) <= Room
    BY <1>2, <1>3
  <2> QED
    BY ONLY <1>2, <2>1, WriteIs
<1> HIDE DEF w
<1>5. Len(w) = 1 /\ w[1] = style
  BY <1>2, <1>3, <1>4
<1>6. /\ logged.style = style /\ logged.pieces = <<>> /\ logged.cut = FALSE /\ Record(logged)
  BY <1>1 DEF Record
<1>7. Laid(w, <<>>, 1)
  <2> DEFINE b == [i \in 1 .. 1 |-> 1]
  <2>1. Len(<<>>) + 1 = 1 /\ b \in [1 .. 1 -> 1 .. 1] /\ b[1] = 1
    BY <1>2
  <2>2. b \in [1 .. Len(<<>>) + 1 -> 1 .. Len(w)] /\ b[Len(<<>>) + 1] = 1
    BY <1>5, <2>1
  <2>3. \A i \in 1 .. Len(<<>>) : PieceAt(w, <<>>[i], b[i], b[i + 1])
    BY <1>2
  <2> HIDE DEF b
  <2>4. Marks3(w, <<>>, 1, b)
    BY ONLY <2>1, <2>2, <2>3 DEF Marks3
  <2> QED
    BY <2>4 DEF Laid
<1>8. stream = w
  BY <1>1 DEF w
<1>9. <<>> \in Seq(Logged)
  OBVIOUS
<1>10. Len(stream) \in 1 .. Room /\ stream \in Seq(Nat) /\ stream[1] = logged.style
  <2>1. w \in Seq(Nat)
    BY <1>4
  <2>2. Len(w) \in 1 .. Room
    BY ONLY <1>3, <1>5
  <2>3. w[1] = logged.style
    BY ONLY <1>5, <1>6
  <2> QED
    BY ONLY <1>8, <2>1, <2>2, <2>3
<1>11. Laid(stream, logged.pieces, Len(stream)) /\ logged.pieces \in Seq(Logged)
  BY ONLY <1>5, <1>6, <1>7, <1>8, <1>9
<1>12. logged.cut \in BOOLEAN /\ ~logged.cut
  BY ONLY <1>6
<1> QED
  BY ONLY <1>6, <1>10, <1>11, <1>12 DEF LogInv

LEMMA LogSteps == LogInv /\ [Log!Next]_record => LogInv'
<1> SUFFICES ASSUME LogInv, [Log!Next]_record PROVE LogInv'
  OBVIOUS
<1>1. CASE UNCHANGED record
  BY <1>1 DEF record, LogInv, Record
<1>2. CASE Log!Next
  <2>1. ASSUME Overruns PROVE LogInv'
    <3>1. /\ stream' = stream /\ Record(logged) /\ logged' = [logged EXCEPT !.overran = TRUE]
          /\ \A ps, x, e : CutAfter(stream, logged, ps, x, e) => CutAfter(stream, logged', ps, x, e)
      BY <2>1 DEF Overruns, LogInv, Record, CutAfter
    <3>2. Record(logged') /\ logged'.style = logged.style /\ logged'.pieces = logged.pieces
          /\ logged'.cut = logged.cut
      BY ONLY <3>1 DEF Record
    <3> QED
      BY <3>1, <3>2 DEF LogInv
  <2> QED
    BY <1>2, <2>1, LogNext, LogKeeps
<1> QED
  BY <1>1, <1>2

-----------------------------------------------------------------------------
(* Log records: what is decoded                                            *)

\* One step of the decoder from a position p, and a decoder of a stream.
DecodeStep(s, f, p) ==
  LET size == Len(s)
      at(q) == s[q + 1]
  IN  IF p = size THEN <<>>
      ELSE IF at(p) = Log!ColorId THEN
          IF p + 2 > size THEN <<Log!Beyond>> ELSE <<Log!Color(at(p + 1))>> \o f[p + 2]
      ELSE IF at(p) = Log!TextId THEN
          IF p + 3 > size THEN <<Log!Beyond>>
          ELSE LET n == at(p + 1) + Base * at(p + 2)
               IN  IF p + 3 + n > size THEN <<Log!Beyond>>
                   ELSE <<Log!Text(SubSeq(s, p + 4, p + 3 + n))>> \o f[p + 3 + n]
      ELSE f[p + 1]

Decodes(f, s, m) == f = [p \in m .. Len(s) |-> DecodeStep(s, f, p)]

\* A step asks for what is decoded further on only.
LEMMA StepLooksAhead ==
  ASSUME NEW s \in Seq(Nat), NEW p \in 1 .. Len(s), NEW f, NEW g,
         \A q \in 1 .. Len(s) : q > p => f[q] = g[q]
  PROVE  DecodeStep(s, f, p) = DecodeStep(s, g, p)
<1>1. Len(s) \in Nat /\ \A q \in 1 .. Len(s) : s[q] \in Nat
  OBVIOUS
<1>2. CASE p = Len(s)
  BY <1>2 DEF DecodeStep
<1>3. CASE p # Len(s)
  <2> DEFINE m == Len(s)
  <2>0. m \in Nat /\ p \in 1 .. m /\ p # m
    BY <1>1, <1>3
  <2>1. p + 1 \in 1 .. Len(s) /\ f[p + 1] = g[p + 1]
    <3>1. p + 1 \in 1 .. m /\ p + 1 > p
      <4> HIDE DEF m
      <4> QED
        BY ONLY <2>0
    <3> QED
      BY ONLY <3>1, \A q \in 1 .. Len(s) : q > p => f[q] = g[q]
  <2>2. p + 2 <= Len(s) => f[p + 2] = g[p + 2]
    <3> SUFFICES ASSUME p + 2 <= m PROVE f[p + 2] = g[p + 2]
      OBVIOUS
    <3>1. p + 2 \in 1 .. m /\ p + 2 > p
      <4> HIDE DEF m
      <4> QED
        BY ONLY <2>0, p + 2 <= m
    <3> QED
      BY ONLY <3>1, \A q \in 1 .. Len(s) : q > p => f[q] = g[q]
  <2> HIDE DEF m
  <2> DEFINE a == s[p + 1 + 1]
             c == s[p + 2 + 1]
             n == a + Base * c
             Step(h) == IF s[p + 1] = Log!ColorId THEN
                            IF p + 2 > Len(s) THEN <<Log!Beyond>> ELSE <<Log!Color(a)>> \o h[p + 2]
                        ELSE IF s[p + 1] = Log!TextId THEN
                            IF p + 3 > Len(s) THEN <<Log!Beyond>>
                            ELSE IF p + 3 + n > Len(s) THEN <<Log!Beyond>>
                            ELSE <<Log!Text(SubSeq(s, p + 4, p + 3 + n))>> \o h[p + 3 + n]
                        ELSE h[p + 1]
  <2>3. DecodeStep(s, f, p) = Step(f) /\ DecodeStep(s, g, p) = Step(g)
    BY <1>3 DEF DecodeStep
  <2>4. p + 3 <= Len(s) => n \in Nat
    <3> SUFFICES ASSUME p + 3 <= Len(s) PROVE n \in Nat
      OBVIOUS
    <3>1. p + 1 + 1 \in 1 .. Len(s) /\ p + 2 + 1 \in 1 .. Len(s)
      BY <1>1
    <3>2. a \in Nat /\ c \in Nat /\ Base \in Nat
      BY <1>1, <3>1, LogAssumption
    <3> HIDE DEF a, c
    <3>3. Base * c \in Nat
      BY ONLY <3>2
    <3> QED
      BY ONLY <3>2, <3>3
  <2> HIDE DEF a, c, n
  <2>5. p + 3 <= Len(s) /\ ~(p + 3 + n > Len(s)) => f[p + 3 + n] = g[p + 3 + n]
    <3> SUFFICES ASSUME p + 3 <= Len(s), ~(p + 3 + n > Len(s)) PROVE f[p + 3 + n] = g[p + 3 + n]
      OBVIOUS
    <3>1. p + 3 + n \in 1 .. Len(s) /\ p + 3 + n > p
      BY <1>1, <2>4
    <3> QED
      BY <3>1
  <2>6. ~(p + 3 > Len(s)) => p + 3 <= Len(s)
    BY <1>1
  <2>7. ~(p + 2 > Len(s)) => f[p + 2] = g[p + 2]
    BY <1>1, <2>2
  <2> QED
    BY ONLY <2>1, <2>3, <2>5, <2>6, <2>7
<1> QED
  BY <1>2, <1>3

\* So there is a decoder of every stream: one behind a position gives one from it on.
LEMMA DecoderExists ==
  ASSUME NEW s \in Seq(Nat), Len(s) >= 1
  PROVE  \E f : Decodes(f, s, 1)
<1> DEFINE T == {n \in Nat : n < Len(s) => \E f : Decodes(f, s, Len(s) - n)}
<1>1. Len(s) \in Nat
  OBVIOUS
<1>2. 0 \in T
  <2> DEFINE f == [p \in Len(s) .. Len(s) |-> <<>>]
  <2>1. \A p \in Len(s) .. Len(s) : DecodeStep(s, f, p) = <<>>
    BY <1>1 DEF DecodeStep
  <2>2. f = [p \in Len(s) .. Len(s) |-> DecodeStep(s, f, p)]
    BY <2>1
  <2>3. Decodes(f, s, Len(s) - 0)
    BY <1>1, <2>2 DEF Decodes
  <2> QED
    BY <2>3
<1>3. ASSUME NEW n \in Nat, n \in T PROVE n + 1 \in T
  <2> SUFFICES ASSUME n + 1 < Len(s) PROVE \E f : Decodes(f, s, Len(s) - (n + 1))
    BY <1>3
  <2> DEFINE m == Len(s) - (n + 1)
  <2>1. m \in 1 .. Len(s) /\ m + 1 = Len(s) - n /\ n < Len(s)
    BY <1>1
  <2>2. PICK f : Decodes(f, s, m + 1)
    BY <1>3, <2>1
  <2>3. f = [p \in m + 1 .. Len(s) |-> DecodeStep(s, f, p)]
    BY <2>2 DEF Decodes
  <2> HIDE DEF m
  <2> DEFINE g == [p \in m .. Len(s) |-> IF p = m THEN DecodeStep(s, f, p) ELSE f[p]]
  <2>4. \A p \in m + 1 .. Len(s) : p \in m .. Len(s) /\ p # m /\ f[p] = DecodeStep(s, f, p)
    <3>1. \A p \in m + 1 .. Len(s) : p \in m .. Len(s) /\ p # m
      BY <1>1, <2>1
    <3>2. \A p \in m + 1 .. Len(s) : f[p] = DecodeStep(s, f, p)
      BY ONLY <2>3
    <3> QED
      BY <3>1, <3>2
  <2>5. \A p \in m + 1 .. Len(s) : g[p] = f[p]
    BY <2>4
  <2>6. ASSUME NEW p \in m .. Len(s) PROVE g[p] = DecodeStep(s, g, p)
    <3>1. p \in 1 .. Len(s) /\ \A q \in 1 .. Len(s) : q > p => q \in m + 1 .. Len(s)
      BY <1>1, <2>1
    <3>2. \A q \in 1 .. Len(s) : q > p => f[q] = g[q]
      BY <2>5, <3>1
    <3>3. DecodeStep(s, f, p) = DecodeStep(s, g, p)
      <4> HIDE DEF g
      <4> QED
        BY ONLY s \in Seq(Nat), <3>1, <3>2, StepLooksAhead
    <3>4. g[p] = DecodeStep(s, f, p)
      <4>1. CASE p = m
        BY <4>1
      <4>2. CASE p # m
        <5>1. p \in m + 1 .. Len(s)
          BY <1>1, <2>1, <4>2
        <5> QED
          BY <2>4, <2>5, <5>1
      <4> QED
        BY <4>1, <4>2
    <3> QED
      BY <3>3, <3>4
  <2>7. g = [p \in m .. Len(s) |-> g[p]]
    OBVIOUS
  <2> HIDE DEF g
  <2>8. g = [p \in m .. Len(s) |-> DecodeStep(s, g, p)]
    BY <2>6, <2>7
  <2>9. Decodes(g, s, m)
    BY <2>8 DEF Decodes
  <2> QED
    BY <2>9 DEF m
<1>4. \A n \in Nat : n \in T
  <2> HIDE DEF T
  <2> QED
    BY <1>2, <1>3, NatSetInduction
<1>5. Len(s) - 1 \in Nat /\ Len(s) - 1 < Len(s) /\ Len(s) - (Len(s) - 1) = 1
  BY <1>1
<1>6. Len(s) - 1 \in T
  BY <1>4, <1>5
<1> QED
  BY <1>5, <1>6

LEMMA DecodedIs ==
  ASSUME stream \in Seq(Nat), Len(stream) >= 1
  PROVE  \E f : Decodes(f, stream, 1) /\ Log!Decoded = f[1]
<1>1. Log!Decoded = (CHOOSE f : f = [p \in 1 .. Len(stream) |-> DecodeStep(stream, f, p)])[1]
  BY DEF Log!Decoded, DecodeStep
<1>2. \E f : f = [p \in 1 .. Len(stream) |-> DecodeStep(stream, f, p)]
  BY DecoderExists DEF Decodes
<1> DEFINE g == CHOOSE f : f = [p \in 1 .. Len(stream) |-> DecodeStep(stream, f, p)]
<1>3. g = [p \in 1 .. Len(stream) |-> DecodeStep(stream, g, p)]
  BY <1>2
<1>4. Log!Decoded = g[1]
  BY <1>1
<1> HIDE DEF g
<1>5. Decodes(g, stream, 1)
  BY <1>3 DEF Decodes
<1> QED
  BY <1>4, <1>5


\* A piece that is there is decoded as it was logged.
LEMMA PieceDecodes ==
  ASSUME NEW s \in Seq(Nat), Len(s) <= Room, NEW x \in Logged, NEW p \in 1 .. Len(s),
         NEW q \in 1 .. Len(s), PieceAt(s, x, p, q), NEW f
  PROVE  DecodeStep(s, f, p) = <<x>> \o f[q]
<1> DEFINE B == PieceBytes(x)
<1>1. q = p + x.length /\ \A i \in 1 .. x.length : s[p + i] = B[i]
  BY DEF PieceAt
<1>2. Len(s) \in Nat
  OBVIOUS
<1>3. CASE \E c \in Nat : /\ x = Log!Color(c) /\ x.length = 2
                          /\ B[1] = Log!ColorId /\ B[2] = c
  <2>1. PICK c \in Nat : x = Log!Color(c) /\ x.length = 2 /\ B[1] = Log!ColorId /\ B[2] = c
    BY <1>3
  <2> HIDE DEF B
  <2>2. s[p + 1] = Log!ColorId /\ s[p + 2] = c /\ q = p + 2
    BY <1>1, <2>1
  <2>3. p # Len(s) /\ ~(p + 2 > Len(s)) /\ p + 1 + 1 = p + 2
    BY <1>2, <2>2
  <2> QED
    BY ONLY <2>1, <2>2, <2>3 DEF DecodeStep
<1>4. CASE \E t \in Seq(Nat) :
             /\ x = Log!Text(t) /\ Len(t) \in Nat /\ x.length = 3 + Len(t)
             /\ B[1] = Log!TextId /\ B[2] = Len(t) % Base
             /\ B[3] = (Len(t) \div Base) % Base
             /\ \A i \in 1 .. Len(t) : B[3 + i] = t[i]
  <2>1. PICK t \in Seq(Nat) :
             /\ x = Log!Text(t) /\ Len(t) \in Nat /\ x.length = 3 + Len(t)
             /\ B[1] = Log!TextId /\ B[2] = Len(t) % Base
             /\ B[3] = (Len(t) \div Base) % Base
             /\ \A i \in 1 .. Len(t) : B[3 + i] = t[i]
    BY <1>4
  <2> HIDE DEF B
  <2> DEFINE n == Len(t)
             r == Base * Base
  <2>2. s[p + 1] = Log!TextId /\ s[p + 2] = n % Base /\ s[p + 3] = (n \div Base) % Base
    <3>1. 1 \in 1 .. x.length /\ 2 \in 1 .. x.length /\ 3 \in 1 .. x.length
      BY <2>1
    <3>2. s[p + 1] = B[1] /\ s[p + 2] = B[2] /\ s[p + 3] = B[3]
      BY <1>1, <3>1
    <3> QED
      BY ONLY <2>1, <3>2
  <2>3. q = p + 3 + n /\ p + 3 + n <= Len(s) /\ n \in Nat
    BY <1>1, <1>2, <2>1
  <2>4. Room \in Nat /\ r \in Nat /\ Room <= r
    BY LogAssumption
  <2>5. n < r
    <3> HIDE DEF r, n
    <3> QED
      BY <1>2, <2>3, <2>4
  <2>6. s[p + 2] + Base * s[p + 3] = n
    BY <2>2, <2>3, <2>5, SizeIs
  <2>7. SubSeq(s, p + 4, p + 3 + n) = t
    <3> DEFINE k == p + 4
               m == p + 3 + n
               u == SubSeq(s, k, m)
    <3> HIDE DEF n
    <3>1. k \in Nat /\ m \in Nat /\ 1 <= k /\ k <= m + 1 /\ m <= Len(s) /\ m + 1 - k = n /\ p \in Nat
      BY <1>2, <2>3
    <3> HIDE DEF k, m
    <3>2. /\ u \in Seq(Nat) /\ Len(u) = m + 1 - k
          /\ \A i \in 1 .. m + 1 - k : u[i] = s[k + i - 1]
      BY ONLY s \in Seq(Nat), <3>1, SubSeqIs
    <3>3. m + 1 - k = n
      BY <3>1
    <3> HIDE DEF u
    <3>4. u \in Seq(Nat) /\ Len(u) = n
      BY ONLY <3>2, <3>3
    <3>5. ASSUME NEW i \in 1 .. n PROVE u[i] = t[i]
      <4>1. u[i] = s[k + i - 1] /\ k + i - 1 = p + (3 + i)
        <5>1. u[i] = s[k + i - 1]
          BY ONLY <3>2, <3>3, i \in 1 .. n
        <5>2. k + i - 1 = p + (3 + i)
          BY <2>3, <3>1 DEF k
        <5> QED
          BY <5>1, <5>2
      <4>2. 3 + i \in 1 .. x.length
        BY <2>1, <2>3 DEF n
      <4>3. s[p + (3 + i)] = B[3 + i]
        BY <1>1, <4>2
      <4>4. B[3 + i] = t[i]
        BY <2>1 DEF n
      <4> QED
        BY ONLY <4>1, <4>3, <4>4
    <3>6. Len(t) = n
      BY DEF n
    <3>7. u = t
      BY ONLY <3>4, <3>5, <3>6, t \in Seq(Nat), SeqEqual
    <3> QED
      BY <3>7 DEF u, k, m
  <2>8. p # Len(s) /\ ~(p + 3 > Len(s)) /\ ~(p + 3 + n > Len(s)) /\ p + 1 + 1 = p + 2 /\ p + 2 + 1 = p + 3
    BY <1>2, <2>3
  <2>9. Log!TextId # Log!ColorId
    BY DEF Log!TextId, Log!ColorId
  <2> HIDE DEF n
  <2> QED
    BY ONLY <2>1, <2>2, <2>3, <2>6, <2>7, <2>8, <2>9 DEF DecodeStep
<1> QED
  BY <1>3, <1>4, PieceIs

\* Pieces one behind the other are decoded, and then what follows.
LEMMA PiecesDecode ==
  ASSUME NEW s \in Seq(Nat), Len(s) <= Room, Len(s) >= 1, NEW ps \in Seq(Logged), NEW e, Laid(s, ps, e),
         NEW f, Decodes(f, s, 1), f[e] \in Seq(Logged \cup {Log!Beyond})
  PROVE  f[1] = ps \o f[e]
<1> DEFINE D == Logged \cup {Log!Beyond}
           n == Len(ps)
           r == f[e]
<1>1. PICK b : Marks3(s, ps, e, b)
  BY DEF Laid
<1>2. /\ b \in [1 .. n + 1 -> 1 .. Len(s)] /\ b[1] = 1 /\ b[n + 1] = e
      /\ \A i \in 1 .. n : PieceAt(s, ps[i], b[i], b[i + 1])
  BY <1>1 DEF Marks3
<1>3. ps \in Seq(D) /\ r \in Seq(D) /\ n \in Nat /\ Len(s) \in Nat
  OBVIOUS
<1> HIDE DEF D
<1>4. /\ From(ps, 1) = ps /\ From(ps, n + 1) \o r = r
      /\ \A i \in 1 .. n : From(ps, i) \o r = <<ps[i]>> \o (From(ps, i + 1) \o r)
  <2> HIDE DEF r
  <2>1. Unrolls(ps, r)
    <3>1. ps \in Seq(D) /\ r \in Seq(D)
      BY <1>3
    <3> QED
      BY ONLY <3>1, FromIs
  <2> QED
    BY <2>1 DEF Unrolls
<1>5. \A p \in 1 .. Len(s) : f[p] = DecodeStep(s, f, p)
  <2>1. f = [p \in 1 .. Len(s) |-> DecodeStep(s, f, p)]
    BY DEF Decodes
  <2> QED
    BY ONLY <2>1
<1> DEFINE P(j) == j <= n => f[b[n + 1 - j]] = From(ps, n + 1 - j) \o r
           T == {j \in Nat : P(j)}
<1>6. P(0)
  <2>1. n + 1 - 0 = n + 1
    BY <1>3
  <2> HIDE DEF r, n
  <2>2. f[b[n + 1 - 0]] = From(ps, n + 1 - 0) \o r
    BY <1>2, <1>4, <2>1 DEF r
  <2> QED
    BY <2>2
<1>7. ASSUME NEW j \in Nat, P(j) PROVE P(j + 1)
  <2> SUFFICES ASSUME j + 1 <= n
               PROVE  f[b[n + 1 - (j + 1)]] = From(ps, n + 1 - (j + 1)) \o r
    OBVIOUS
  <2> DEFINE i == n - j
  <2>1. i \in 1 .. n /\ i + 1 \in 1 .. n + 1 /\ i \in 1 .. n + 1 /\ n + 1 - (j + 1) = i /\ n + 1 - j = i + 1 /\ j <= n
    BY <1>3
  <2>2. f[b[i + 1]] = From(ps, i + 1) \o r
    BY <1>7, <2>1
  <2> HIDE DEF i, r
  <2>3. b[i] \in 1 .. Len(s) /\ b[i + 1] \in 1 .. Len(s) /\ PieceAt(s, ps[i], b[i], b[i + 1])
    BY <1>2, <2>1
  <2>4. ps[i] \in Logged
    BY <2>1
  <2>5. DecodeStep(s, f, b[i]) = <<ps[i]>> \o f[b[i + 1]]
    BY ONLY s \in Seq(Nat), Len(s) <= Room, <2>3, <2>4, PieceDecodes
  <2>6. f[b[i]] = DecodeStep(s, f, b[i])
    BY <1>5, <2>3
  <2>7. From(ps, i) \o r = <<ps[i]>> \o (From(ps, i + 1) \o r)
    BY <1>4, <2>1
  <2>8. f[b[i]] = From(ps, i) \o r
    BY ONLY <2>2, <2>5, <2>6, <2>7
  <2> QED
    BY <2>1, <2>8
<1>8. \A j \in Nat : P(j)
  <2> HIDE DEF P
  <2>1. 0 \in T /\ \A j \in Nat : j \in T => j + 1 \in T
    BY <1>6, <1>7
  <2>2. \A j \in Nat : j \in T
    <3> HIDE DEF T
    <3> QED
      BY <2>1, NatSetInduction
  <2> QED
    BY <2>2
<1>9. n + 1 - n = 1 /\ n <= n
  BY <1>3
<1>10. f[b[1]] = From(ps, 1) \o r
  <2>1. P(n)
    BY <1>3, <1>8
  <2> HIDE DEF r, n
  <2> QED
    BY ONLY <1>9, <2>1
<1> QED
  BY <1>2, <1>4, <1>10

\* A piece that was cut is not decoded at all, or read beyond the record's end.
LEMMA PartDecodes ==
  ASSUME NEW s \in Seq(Nat), NEW x \in Logged, NEW p, Partly(s, x, p), x.length < Base * Base + 3, NEW f
  PROVE  DecodeStep(s, f, p) \in {<<>>, <<Log!Beyond>>}
<1> DEFINE B == PieceBytes(x)
           r == Base * Base
<1>1. /\ p \in 1 .. Len(s) /\ p + x.length > Len(s) /\ Len(s) \in Nat
      /\ \A i \in 1 .. x.length : p + i <= Len(s) => s[p + i] = B[i]
  BY DEF Partly
<1>2. CASE p = Len(s)
  BY <1>2 DEF DecodeStep
<1>3. CASE p # Len(s)
  <2>1. p + 1 <= Len(s) /\ x.length \in Nat /\ x.length > 0
    BY <1>1, <1>3, PieceIs
  <2>2. s[p + 1] = B[1]
    BY <1>1, <2>1
  <2>3. CASE \E c \in Nat : /\ x = Log!Color(c) /\ x.length = 2
                            /\ B[1] = Log!ColorId /\ B[2] = c
    <3>1. s[p + 1] = Log!ColorId /\ p + 2 > Len(s)
      BY <1>1, <2>2, <2>3
    <3> QED
      BY ONLY <1>3, <3>1 DEF DecodeStep
  <2>4. CASE \E t \in Seq(Nat) :
               /\ x = Log!Text(t) /\ Len(t) \in Nat /\ x.length = 3 + Len(t)
               /\ B[1] = Log!TextId /\ B[2] = Len(t) % Base
               /\ B[3] = (Len(t) \div Base) % Base
               /\ \A i \in 1 .. Len(t) : B[3 + i] = t[i]
    <3>1. PICK t \in Seq(Nat) :
             /\ Len(t) \in Nat /\ x.length = 3 + Len(t)
             /\ B[1] = Log!TextId /\ B[2] = Len(t) % Base
             /\ B[3] = (Len(t) \div Base) % Base
      BY <2>4
    <3> HIDE DEF B
    <3> DEFINE n == Len(t)
    <3>2. s[p + 1] = Log!TextId /\ Log!TextId # Log!ColorId
      BY <2>2, <3>1 DEF Log!TextId, Log!ColorId
    <3>3. CASE p + 3 > Len(s)
      BY ONLY <1>3, <3>2, <3>3 DEF DecodeStep
    <3>4. CASE ~(p + 3 > Len(s))
      <4>1. p + 2 <= Len(s) /\ p + 3 <= Len(s) /\ 2 \in 1 .. x.length /\ 3 \in 1 .. x.length
        <5>1. Len(s) \in Nat /\ p \in 1 .. Len(s) /\ x.length = 3 + Len(t) /\ Len(t) \in Nat
          BY ONLY <1>1, <3>1
        <5> QED
          BY ONLY <3>4, <5>1
      <4>2. s[p + 2] = n % Base /\ s[p + 3] = (n \div Base) % Base
        BY ONLY <1>1, <3>1, <4>1
      <4>3. n \in Nat /\ n < r /\ p + 3 + n > Len(s)
        <5>1. r \in Nat /\ x.length < r + 3
          BY LogAssumption
        <5> HIDE DEF r
        <5> QED
          BY <1>1, <3>1, <5>1
      <4>4. s[p + 2] + Base * s[p + 3] = n
        BY <4>2, <4>3, SizeIs
      <4>5. p + 1 + 1 = p + 2 /\ p + 2 + 1 = p + 3
        BY <1>1
      <4> HIDE DEF n
      <4> QED
        BY ONLY <1>3, <3>2, <3>4, <4>3, <4>4, <4>5 DEF DecodeStep
    <3> QED
      BY <3>3, <3>4
  <2> QED
    BY <2>3, <2>4, PieceIs
<1> QED
  BY <1>2, <1>3

LEMMA LogSays == LogInv => Log!SaysWhatWasLogged
<1> SUFFICES ASSUME LogInv PROVE Log!SaysWhatWasLogged
  OBVIOUS
<1> DEFINE D == Logged \cup {Log!Beyond}
           pieces == logged.pieces
           whole == SubSeq(pieces, 1, Len(pieces) - 1)
<1>1. /\ stream \in Seq(Nat) /\ Len(stream) \in 1 .. Room /\ stream[1] = logged.style
      /\ pieces \in Seq(Logged) /\ Room \in Nat
      /\ ~logged.cut => Laid(stream, pieces, Len(stream))
      /\ logged.cut => \E ps, x, e : CutAfter(stream, logged, ps, x, e)
  BY LogAssumption DEF LogInv
<1>2. Len(stream) <= Room /\ Len(stream) >= 1 /\ Len(stream) \in Nat /\ Len(stream) \in 1 .. Len(stream)
  BY <1>1
<1>3. PICK f : Decodes(f, stream, 1) /\ Log!Decoded = f[1]
  BY <1>1, <1>2, DecodedIs
<1>4. \A p \in 1 .. Len(stream) : f[p] = DecodeStep(stream, f, p)
  <2>1. f = [p \in 1 .. Len(stream) |-> DecodeStep(stream, f, p)]
    BY <1>3 DEF Decodes
  <2> QED
    BY ONLY <2>1
<1>5. <<>> \in Seq(D) /\ <<Log!Beyond>> \in Seq(D)
  OBVIOUS
<1>6. ASSUME ~logged.cut PROVE Log!Decoded = pieces
  <2>1. f[Len(stream)] = <<>>
    BY <1>2, <1>4 DEF DecodeStep
  <2>2. Laid(stream, pieces, Len(stream))
    BY <1>1, <1>6
  <2>3. f[1] = pieces \o f[Len(stream)]
    BY <1>1, <1>2, <1>3, <1>5, <2>1, <2>2, PiecesDecode
  <2>4. pieces \o <<>> = pieces
    BY <1>1
  <2> QED
    BY <1>3, <2>1, <2>3, <2>4
<1>7. ASSUME logged.cut, ~logged.wrapped PROVE Log!Decoded \in {whole, Append(whole, Log!Beyond)}
  <2>1. PICK ps, x, e : CutAfter(stream, logged, ps, x, e)
    BY <1>1, <1>7
  <2>2. /\ ps \in Seq(Logged) /\ x \in Logged /\ pieces = Append(ps, x)
        /\ Laid(stream, ps, e) /\ Partly(stream, x, e) /\ x.length < Base * Base + 3
    BY <1>7, <2>1 DEF CutAfter
  <2>3. e \in 1 .. Len(stream)
    BY <2>2 DEF Partly
  <2>4. f[e] \in {<<>>, <<Log!Beyond>>}
    <3>1. DecodeStep(stream, f, e) \in {<<>>, <<Log!Beyond>>}
      BY <1>1, <2>2, PartDecodes
    <3> QED
      BY <1>4, <2>3, <3>1
  <2>5. f[1] = ps \o f[e]
    <3>1. f[e] \in Seq(D)
      BY <1>5, <2>4
    <3> QED
      BY <1>1, <1>2, <1>3, <2>2, <3>1, PiecesDecode
  <2>6. whole = ps
    <3> DEFINE w == Append(ps, x)
    <3>1. /\ w \in Seq(Logged) /\ Len(w) = Len(ps) + 1 /\ Len(ps) \in Nat
          /\ \A i \in 1 .. Len(ps) : w[i] = ps[i]
      BY <2>2
    <3> HIDE DEF w
    <3>2. /\ SubSeq(w, 1, Len(ps)) \in Seq(Logged) /\ Len(SubSeq(w, 1, Len(ps))) = Len(ps)
          /\ \A i \in 1 .. Len(ps) : SubSeq(w, 1, Len(ps))[i] = w[i]
      <4>1. Len(ps) \in 0 .. Len(w)
        BY <3>1
      <4> QED
        BY ONLY <3>1, <4>1, PrefixIs
    <3>3. SubSeq(w, 1, Len(ps)) = ps
      BY <2>2, <3>1, <3>2, SeqEqual
    <3>4. Len(w) - 1 = Len(ps) /\ pieces = w
      BY <2>2, <3>1 DEF w
    <3> QED
      BY ONLY <3>3, <3>4
  <2>7. ps \o <<>> = ps /\ ps \o <<Log!Beyond>> = Append(ps, Log!Beyond)
    <3>1. ps \o <<>> = ps
      BY <2>2
    <3>2. ps \o <<Log!Beyond>> = Append(ps, Log!Beyond)
      <4>1. ps \in Seq(D)
        BY <2>2
      <4> HIDE DEF D
      <4> QED
        BY <1>5, <4>1
    <3> QED
      BY <3>1, <3>2
  <2> HIDE DEF whole
  <2> QED
    BY <1>3, <2>4, <2>5, <2>6, <2>7
<1> QED
  BY <1>1, <1>2, <1>6, <1>7 DEF Log!SaysWhatWasLogged

\* Until a printed text overruns the buffer it is printed in (logging.hpp:391-392), a log
\* record that fits into its buffer is decoded as it was logged; one that was cut
\* is decoded as it was logged up to the piece that was cut, where the decoder stops or
\* reads past the record's end (logging.hpp: the encode functions of send_log and
\* decode_logging_data; streams.hpp: the memory stream's write).
THEOREM Records == Spec => []SaysWhatWasLogged
<1> DEFINE IInv == kind = "record" => LogInv
<1>1. Init => IInv
  BY Begins, LogBegins
<1>2. IInv /\ [Next]_vars => IInv'
  BY Steps, LogSteps
<1>3. IInv => SaysWhatWasLogged
  BY LogSays DEF SaysWhatWasLogged
<1> QED
  BY <1>1, <1>2, <1>3, PTL DEF Spec

-----------------------------------------------------------------------------
(* Strings: what is written is found                                       *)

Cells == {"A", "run", "two", "three", "nul", "junk"}
StringRecord == [size : Nat, data : Seq(Cells)]

\* A string with a block has room for a terminator and has one behind its text, or is empty.
Block(s) ==
  /\ s \in StringRecord
  /\ s = Strings!Null \/ (s.size < Len(s.data) /\ \E i \in 1 .. Len(s.data) : s.data[i] = "nul")
  /\ s.size > 0 => s.data[s.size + 1] = "nul"

\* It is the string's bytes, and room for more behind them.
Fits(s, g, more) ==
  /\ g \in StringRecord /\ g.size = s.size /\ s.size + more < Len(g.data)
  /\ \A i \in 1 .. s.size : g.data[i] = s.data[i]

\* A string with some bytes behind the bytes of another.
Joins(s, b, e) == Block(e) /\ Strings!Bytes(e) = Strings!Bytes(s) \o b

\* A capacity has room for the bytes it is asked for and a terminator.
LEMMA CapacityIsEnough ==
  \A n \in Nat : Strings!QuantizeCapacity(n) \in Nat /\ Strings!QuantizeCapacity(n) > n
<1> DEFINE f == [v \in Nat |-> 2 * v]
           a == Quantum - 1
<1>1. a \in Nat /\ Quantum \in Nat /\ \A x \in Int : x < Quantum <=> x <= a
  BY StringAssumption
<1>2. f \in [Nat -> Nat] /\ \A v \in Nat : f[v] = 2 * v
  OBVIOUS
<1> HIDE DEF f, a
<1>3. PICK F : Halves(F, a, Quantum, f)
  BY <1>1, <1>2, HalvingExists
<1>4. F \in [Nat -> Nat] /\ F = [x \in Nat |-> IF x <= a THEN Quantum ELSE f[F[x \div 2]]]
  BY <1>3 DEF Halves
<1>5. F = [x \in Nat |-> IF x < Quantum THEN Quantum ELSE 2 * F[x \div 2]]
  <2>1. \A x \in Nat : F[x \div 2] \in Nat
    BY <1>4, Halved
  <2>2. ASSUME NEW x \in Nat PROVE F[x] = IF x < Quantum THEN Quantum ELSE 2 * F[x \div 2]
    <3>1. F[x] = IF x <= a THEN Quantum ELSE f[F[x \div 2]]
      BY ONLY <1>4, x \in Nat
    <3>2. F[x \div 2] \in Nat
      BY <2>1
    <3>3. f[F[x \div 2]] = 2 * F[x \div 2]
      BY ONLY <1>2, <3>2
    <3>4. x < Quantum <=> x <= a
      BY <1>1
    <3> QED
      BY ONLY <3>1, <3>3, <3>4
  <2> QED
    BY <1>4, <2>2
<1> DEFINE H == CHOOSE h : h = [x \in Nat |-> IF x < Quantum THEN Quantum ELSE 2 * h[x \div 2]]
<1>6. H = [x \in Nat |-> IF x < Quantum THEN Quantum ELSE 2 * H[x \div 2]]
  BY <1>5
<1>7. \A n \in Nat : Strings!QuantizeCapacity(n) = H[n]
  BY DEF Strings!QuantizeCapacity
<1> HIDE DEF H
<1> DEFINE Bad == {n \in Nat : ~(H[n] \in Nat /\ H[n] > n)}
<1>8. Bad = {}
  <2> SUFFICES ASSUME Bad # {} PROVE FALSE
    OBVIOUS
  <2>1. PICK x \in Bad : \A y \in Bad : x <= y
    <3>1. Bad \in SUBSET Nat
      OBVIOUS
    <3> HIDE DEF Bad
    <3> QED
      BY <3>1, LeastOfSet
  <2>2. H[x] = IF x < Quantum THEN Quantum ELSE 2 * H[x \div 2]
    BY <1>6
  <2>3. ~(x < Quantum) /\ x > 0
    BY <1>1, <2>2
  <2>4. x \div 2 \in Nat /\ x \div 2 < x /\ x < 2 * (x \div 2) + 2
    BY <2>3
  <2>5. H[x \div 2] \in Nat /\ H[x \div 2] > x \div 2
    BY <2>1, <2>4
  <2>6. H[x] \in Nat /\ H[x] > x
    BY <2>2, <2>3, <2>4, <2>5
  <2> QED
    BY <2>6
<1> QED
  BY <1>7, <1>8

LEMMA WrittenIs ==
  ASSUME NEW d \in Seq(Cells), NEW at \in Nat, NEW b \in Seq(Cells), at + Len(b) <= Len(d)
  PROVE  LET w == Strings!Written(d, at, b) IN
         /\ w \in Seq(Cells) /\ Len(w) = Len(d)
         /\ \A i \in 1 .. at : w[i] = d[i]
         /\ \A i \in 1 .. Len(b) : w[at + i] = b[i]
<1> DEFINE w == [i \in DOMAIN d |-> IF i - at \in DOMAIN b THEN b[i - at] ELSE d[i]]
<1>1. Len(d) \in Nat /\ Len(b) \in Nat /\ DOMAIN d = 1 .. Len(d) /\ DOMAIN b = 1 .. Len(b)
  OBVIOUS
<1>2. \A i \in 1 .. Len(d) : w[i] = IF i - at \in 1 .. Len(b) THEN b[i - at] ELSE d[i]
  BY <1>1
<1>3. w \in Seq(Cells) /\ Len(w) = Len(d)
  <2>1. \A i \in 1 .. Len(d) : w[i] \in Cells
    BY <1>2
  <2>2. w = [i \in 1 .. Len(d) |-> w[i]]
    BY <1>1
  <2> HIDE DEF w
  <2> QED
    BY <1>1, <2>1, <2>2
<1>4. \A i \in 1 .. at : w[i] = d[i]
  BY <1>1, <1>2
<1>5. \A i \in 1 .. Len(b) : at + i \in 1 .. Len(d) /\ (at + i) - at = i
  BY <1>1
<1>6. \A i \in 1 .. Len(b) : w[at + i] = b[i]
  BY <1>2, <1>5
<1>7. Strings!Written(d, at, b) = w
  BY DEF Strings!Written
<1> HIDE DEF w
<1> QED
  BY <1>3, <1>4, <1>6, <1>7

LEMMA FreshIs ==
  ASSUME NEW c \in Nat
  PROVE  Strings!Fresh(c) \in Seq(Cells) /\ Len(Strings!Fresh(c)) = c
  BY DEF Strings!Fresh, Strings!Junk, Cells

\* The bytes of a string are cells; nothing behind a text is the text.
LEMMA BytesAre ==
  ASSUME NEW s, Block(s)
  PROVE  /\ s \in StringRecord /\ s.size \in Nat /\ s.data \in Seq(Cells) /\ s.size <= Len(s.data)
         /\ Strings!Bytes(s) \in Seq(Cells) /\ Len(Strings!Bytes(s)) = s.size
         /\ \A i \in 1 .. s.size : Strings!Bytes(s)[i] = s.data[i]
<1>1. s \in StringRecord /\ (s = Strings!Null \/ s.size < Len(s.data))
  BY DEF Block
<1>2. s.size \in Nat /\ s.data \in Seq(Cells) /\ Len(s.data) \in Nat
  BY <1>1 DEF StringRecord
<1>3. s.size <= Len(s.data)
  <2>1. s = Strings!Null => s.size = 0
    BY DEF Strings!Null
  <2> QED
    BY <1>1, <1>2, <2>1
<1>4. s.size \in 0 .. Len(s.data)
  BY <1>2, <1>3
<1> QED
  BY <1>1, <1>2, <1>3, <1>4, PrefixIs DEF Strings!Bytes

LEMMA EmptyConcat ==
  ASSUME NEW S, NEW b \in Seq(S)
  PROVE  b \o <<>> = b /\ <<>> \o b = b
  OBVIOUS

\* Writing bytes and a terminator behind the text joins them.
LEMMA ExtendedIs ==
  ASSUME NEW s \in StringRecord, NEW b \in Seq(Cells), s.size + Len(b) < Len(s.data)
  PROVE  Joins(s, b, Strings!Extended(s, b))
<1> DEFINE d == s.data
           n == s.size
           m == Len(b)
           c == Append(b, "nul")
           w == Strings!Written(d, n, c)
           e == Strings!Extended(s, b)
<1>1. n \in Nat /\ d \in Seq(Cells) /\ m \in Nat /\ Len(d) \in Nat /\ n + m < Len(d)
  BY DEF StringRecord
<1>2. c \in Seq(Cells) /\ Len(c) = m + 1 /\ c[m + 1] = "nul" /\ \A i \in 1 .. m : c[i] = b[i]
  BY DEF Cells
<1>3. e = [size |-> n + m, data |-> w]
  BY DEF Strings!Extended, Strings!Nul
<1> HIDE DEF c, d, n
<1>4. /\ w \in Seq(Cells) /\ Len(w) = Len(d)
      /\ \A i \in 1 .. n : w[i] = d[i]
      /\ \A i \in 1 .. m + 1 : w[n + i] = c[i]
  <2>1. n + Len(c) <= Len(d)
    BY ONLY <1>1, <1>2
  <2>2. /\ w \in Seq(Cells) /\ Len(w) = Len(d)
        /\ \A i \in 1 .. n : w[i] = d[i]
        /\ \A i \in 1 .. Len(c) : w[n + i] = c[i]
    BY ONLY <1>1, <1>2, <2>1, WrittenIs
  <2> QED
    BY ONLY <1>2, <2>2
<1> HIDE DEF w, m, e
<1>5. e.size = n + m /\ e.data = w /\ e \in StringRecord
  BY ONLY <1>1, <1>3, <1>4 DEF StringRecord
<1>6. n + m + 1 \in 1 .. Len(w) /\ w[n + m + 1] = "nul"
  <2>1. m + 1 \in 1 .. m + 1 /\ n + (m + 1) = n + m + 1 /\ n + m + 1 \in 1 .. Len(w)
    BY ONLY <1>1, <1>4
  <2> QED
    BY ONLY <1>2, <1>4, <2>1
<1>7. Block(e)
  <2>1. e.size < Len(e.data)
    BY ONLY <1>1, <1>4, <1>5
  <2>2. e.data[e.size + 1] = "nul" /\ e.size + 1 \in 1 .. Len(e.data)
    BY ONLY <1>5, <1>6
  <2> QED
    BY ONLY <1>5, <2>1, <2>2 DEF Block
<1>8. Strings!Bytes(e) = Strings!Bytes(s) \o b
  <2> DEFINE x == SubSeq(w, 1, n + m)
             y == SubSeq(d, 1, n)
             z == y \o b
  <2>1. x \in Seq(Cells) /\ Len(x) = n + m /\ \A i \in 1 .. n + m : x[i] = w[i]
    <3>1. n + m \in 0 .. Len(w)
      BY ONLY <1>1, <1>4
    <3> QED
      BY ONLY <1>4, <3>1, PrefixIs
  <2>2. y \in Seq(Cells) /\ Len(y) = n /\ \A i \in 1 .. n : y[i] = d[i]
    <3>1. n \in 0 .. Len(d)
      BY ONLY <1>1
    <3> QED
      BY ONLY <1>1, <3>1, PrefixIs
  <2> HIDE DEF x, y
  <2>3. /\ z \in Seq(Cells) /\ Len(z) = n + m
        /\ \A i \in 1 .. n : z[i] = y[i]
        /\ \A i \in 1 .. m : z[n + i] = b[i]
    <3>1. y \in Seq(Cells)
      BY <2>2
    <3>2. /\ z \in Seq(Cells) /\ Len(z) = Len(y) + Len(b)
          /\ \A i \in 1 .. Len(y) : z[i] = y[i]
          /\ \A i \in 1 .. Len(b) : z[Len(y) + i] = b[i]
      BY ONLY <3>1, b \in Seq(Cells), ConcatIs
    <3> HIDE DEF z
    <3> QED
      BY ONLY <2>2, <3>2 DEF m
  <2> HIDE DEF z
  <2>4. ASSUME NEW i \in 1 .. n + m PROVE x[i] = z[i]
    <3>1. CASE i <= n
      <4>1. i \in 1 .. n
        BY ONLY <1>1, <3>1, i \in 1 .. n + m
      <4> QED
        BY ONLY <1>4, <2>1, <2>2, <2>3, <4>1, i \in 1 .. n + m
    <3>2. CASE i > n
      <4> DEFINE j == i - n
      <4>1. j \in 1 .. m /\ j \in 1 .. m + 1 /\ n + j = i
        BY ONLY <1>1, <3>2, i \in 1 .. n + m
      <4> HIDE DEF j
      <4>2. x[i] = w[n + j] /\ w[n + j] = c[j] /\ c[j] = b[j]
        BY ONLY <1>2, <1>4, <2>1, <4>1, i \in 1 .. n + m
      <4>3. z[n + j] = b[j]
        BY ONLY <2>3, <4>1
      <4> QED
        BY ONLY <4>1, <4>2, <4>3
    <3> QED
      BY ONLY <1>1, <3>1, <3>2, i \in 1 .. n + m
  <2>5. x = z
    <3>1. Len(x) = Len(z) /\ \A i \in 1 .. Len(x) : x[i] = z[i]
      BY ONLY <2>1, <2>3, <2>4
    <3>2. x \in Seq(Cells) /\ z \in Seq(Cells)
      BY ONLY <2>1, <2>3
    <3> QED
      BY ONLY <3>1, <3>2, SeqEqual
  <2> QED
    BY <1>5, <2>5 DEF x, y, z, d, n, Strings!Bytes
<1> QED
  BY <1>7, <1>8 DEF Joins, e

\* So does writing them into a block that holds the text and has room.
LEMMA FitsJoins ==
  ASSUME NEW s, Block(s), NEW b \in Seq(Cells), NEW g, Fits(s, g, Len(b))
  PROVE  Joins(s, b, Strings!Extended(g, b))
<1>1. /\ s.size \in Nat /\ s.data \in Seq(Cells) /\ Len(Strings!Bytes(s)) = s.size
      /\ Strings!Bytes(s) \in Seq(Cells) /\ \A i \in 1 .. s.size : Strings!Bytes(s)[i] = s.data[i]
  BY BytesAre
<1>2. /\ g \in StringRecord /\ g.size = s.size /\ s.size + Len(b) < Len(g.data)
      /\ \A i \in 1 .. s.size : g.data[i] = s.data[i]
  BY DEF Fits
<1>3. Joins(g, b, Strings!Extended(g, b))
  BY <1>2, ExtendedIs
<1>4. Strings!Bytes(g) = Strings!Bytes(s)
  <2>1. g.data \in Seq(Cells) /\ Len(g.data) \in Nat /\ Len(b) \in Nat
    BY <1>2 DEF StringRecord
  <2>2. g.size \in 0 .. Len(g.data)
    BY <1>1, <1>2, <2>1
  <2>3. /\ Strings!Bytes(g) \in Seq(Cells) /\ Len(Strings!Bytes(g)) = g.size
        /\ \A i \in 1 .. g.size : Strings!Bytes(g)[i] = g.data[i]
    BY <2>1, <2>2, PrefixIs DEF Strings!Bytes
  <2> QED
    BY ONLY <1>1, <1>2, <2>3, SeqEqual
<1> QED
  BY <1>3, <1>4 DEF Joins

\* Another block keeps the text, if it is asked to.
LEMMA ReallocFits ==
  ASSUME NEW s, Block(s), NEW more \in Nat, NEW c \in Nat, c > s.size + more
  PROVE  Fits(s, Strings!Realloc(s, c, TRUE), more)
<1> DEFINE b == Strings!Bytes(s)
           a == Append(b, "nul")
           o == Strings!Fresh(c)
           w == Strings!Written(o, 0, a)
           g == Strings!Realloc(s, c, TRUE)
<1>1. /\ s \in StringRecord /\ s.size \in Nat /\ s.data \in Seq(Cells) /\ b \in Seq(Cells) /\ Len(b) = s.size
      /\ \A i \in 1 .. s.size : b[i] = s.data[i]
  BY BytesAre
<1>2. o \in Seq(Cells) /\ Len(o) = c
  BY FreshIs
<1>3. g = [s EXCEPT !.data = IF s.data # <<>> THEN w ELSE o]
  BY DEF Strings!Realloc, Strings!Nul
<1> HIDE DEF b, o
<1>4. a \in Seq(Cells) /\ Len(a) = s.size + 1 /\ \A i \in 1 .. s.size : a[i] = b[i]
  BY <1>1 DEF Cells
<1> HIDE DEF a
<1>5. w \in Seq(Cells) /\ Len(w) = c /\ \A i \in 1 .. s.size : w[i] = s.data[i]
  <2>1. 0 + Len(a) <= Len(o) /\ 0 \in Nat
    BY <1>1, <1>2, <1>4
  <2>2. /\ w \in Seq(Cells) /\ Len(w) = Len(o)
        /\ \A i \in 1 .. Len(a) : w[0 + i] = a[i]
    BY ONLY <1>2, <1>4, <2>1, WrittenIs
  <2>3. ASSUME NEW i \in 1 .. s.size PROVE w[i] = s.data[i]
    <3>1. i \in 1 .. Len(a) /\ 0 + i = i
      BY <1>1, <1>4
    <3>2. w[0 + i] = a[i]
      BY ONLY <2>2, <3>1
    <3> QED
      BY ONLY <1>1, <1>4, <3>1, <3>2, i \in 1 .. s.size
  <2> QED
    BY ONLY <1>2, <2>2, <2>3
<1> HIDE DEF w, g
<1>6. CASE s.data = <<>>
  <2>1. s.size = 0
    BY <1>1, <1>6, BytesAre
  <2>2. g \in StringRecord /\ g.size = 0 /\ g.data = o
    BY <1>1, <1>2, <1>3, <1>6, <2>1 DEF StringRecord
  <2>3. 1 .. s.size = {} /\ s.size + more < Len(g.data)
    BY <1>2, <2>1, <2>2
  <2>4. Fits(s, g, more)
    BY ONLY <2>1, <2>2, <2>3 DEF Fits
  <2> QED
    BY <2>4 DEF g
<1>7. CASE s.data # <<>>
  <2>1. g \in StringRecord /\ g.size = s.size /\ g.data = w
    BY <1>1, <1>3, <1>5, <1>7 DEF StringRecord
  <2>2. s.size + more < Len(g.data)
    BY <1>5, <2>1
  <2>3. Fits(s, g, more)
    BY ONLY <1>5, <2>1, <2>2 DEF Fits
  <2> QED
    BY <2>3 DEF g
<1> QED
  BY <1>6, <1>7

-----------------------------------------------------------------------------
(* Strings: what each operation makes of the bytes                         *)

\* A string keeps its text when it is made to fit more.
LEMMA StaysFits ==
  ASSUME NEW s, Block(s), NEW more \in Nat, s.size + more < Len(s.data)
  PROVE  Fits(s, s, more)
  BY BytesAre DEF Fits

LEMMA GrowFits ==
  ASSUME NEW s, Block(s), NEW more \in Nat
  PROVE  Fits(s, Strings!QuantizeGrow(s, more), more)
<1>1. s.size \in Nat /\ Len(s.data) \in Nat
  BY BytesAre
<1> DEFINE c == Strings!QuantizeCapacity(s.size + more)
<1>2. c \in Nat /\ c > s.size + more
  <2> DEFINE n == s.size + more
  <2>1. n \in Nat
    BY <1>1
  <2> HIDE DEF n
  <2>2. Strings!QuantizeCapacity(n) \in Nat /\ Strings!QuantizeCapacity(n) > n
    BY <2>1, CapacityIsEnough
  <2> QED
    BY <2>2 DEF n
<1>3. Strings!QuantizeGrow(s, more) = IF Len(s.data) <= s.size + more THEN Strings!Realloc(s, c, TRUE) ELSE s
  BY DEF Strings!QuantizeGrow, Strings!CapacityOf
<1> HIDE DEF c
<1>4. Fits(s, Strings!Realloc(s, c, TRUE), more)
  BY <1>2, ReallocFits
<1>5. CASE Len(s.data) <= s.size + more
  BY <1>3, <1>4, <1>5
<1>6. CASE ~(Len(s.data) <= s.size + more)
  <2>1. s.size + more < Len(s.data)
    BY <1>1, <1>6
  <2> QED
    BY <1>3, <1>6, <2>1, StaysFits
<1> QED
  BY <1>5, <1>6

LEMMA QuantizeFits ==
  ASSUME NEW s, Block(s), NEW more \in Nat
  PROVE  Fits(s, Strings!Quantize(s, s.size + more, TRUE), more)
<1>1. s.size \in Nat /\ Len(s.data) \in Nat
  BY BytesAre
<1> DEFINE c == Strings!QuantizeCapacity(s.size + more)
<1>2. c \in Nat /\ c > s.size + more
  <2> DEFINE n == s.size + more
  <2>1. n \in Nat
    BY <1>1
  <2> HIDE DEF n
  <2>2. Strings!QuantizeCapacity(n) \in Nat /\ Strings!QuantizeCapacity(n) > n
    BY <2>1, CapacityIsEnough
  <2> QED
    BY <2>2 DEF n
<1>3. Strings!Quantize(s, s.size + more, TRUE) = IF c = Len(s.data) THEN s ELSE Strings!Realloc(s, c, TRUE)
  BY DEF Strings!Quantize, Strings!CapacityOf
<1> HIDE DEF c
<1>4. Fits(s, Strings!Realloc(s, c, TRUE), more)
  BY <1>2, ReallocFits
<1>5. CASE c = Len(s.data)
  BY <1>2, <1>3, <1>5, StaysFits
<1>6. CASE c # Len(s.data)
  BY <1>3, <1>4, <1>6
<1> QED
  BY <1>5, <1>6

LEMMA AppendedJoins ==
  ASSUME NEW s, Block(s), NEW b \in Seq(Cells)
  PROVE  Joins(s, b, Strings!Appended(s, b))
<1>1. CASE b = <<>>
  <2>1. Strings!Bytes(s) \o b = Strings!Bytes(s)
    BY <1>1, BytesAre, EmptyConcat
  <2>2. Strings!Appended(s, b) = s
    BY <1>1 DEF Strings!Appended
  <2> QED
    BY <2>1, <2>2 DEF Joins
<1>2. CASE b # <<>>
  <2>1. Fits(s, Strings!QuantizeGrow(s, Len(b)), Len(b))
    BY GrowFits
  <2>2. Strings!Appended(s, b) = Strings!Extended(Strings!QuantizeGrow(s, Len(b)), b)
    BY <1>2 DEF Strings!Appended
  <2> QED
    BY <2>1, <2>2, FitsJoins
<1> QED
  BY <1>1, <1>2

LEMMA PushedBackJoins ==
  ASSUME NEW s, Block(s), NEW b \in Seq(Cells)
  PROVE  Joins(s, b, Strings!PushedBack(s, b))
<1>1. Fits(s, Strings!QuantizeGrow(s, Len(b)), Len(b))
  BY GrowFits
<1>2. Strings!PushedBack(s, b) = Strings!Extended(Strings!QuantizeGrow(s, Len(b)), b)
  BY DEF Strings!PushedBack
<1> QED
  BY <1>1, <1>2, FitsJoins

LEMMA AddedJoins ==
  ASSUME NEW s, Block(s), NEW b \in Seq(Cells)
  PROVE  Joins(s, b, Strings!Added(s, b))
<1>1. Fits(s, Strings!Quantize(s, s.size + Len(b), TRUE), Len(b))
  <2> DEFINE m == Len(b)
  <2>1. m \in Nat
    OBVIOUS
  <2> HIDE DEF m
  <2>2. Fits(s, Strings!Quantize(s, s.size + m, TRUE), m)
    BY <2>1, QuantizeFits
  <2> QED
    BY <2>2 DEF m
<1>2. Strings!Added(s, b) = Strings!Extended(Strings!Quantize(s, s.size + Len(b), TRUE), b)
  BY DEF Strings!Added
<1> QED
  BY <1>1, <1>2, FitsJoins

\* A string that has the bytes, and what is written into an empty one.
Has(b, e) == Block(e) /\ Strings!Bytes(e) = b

LEMMA EmptyHas ==
  ASSUME NEW g \in StringRecord, g.size = 0, NEW b \in Seq(Cells), Len(b) < Len(g.data)
  PROVE  Has(b, Strings!Extended(g, b))
<1>1. g.data \in Seq(Cells) /\ Len(b) \in Nat /\ Len(g.data) \in Nat
  BY DEF StringRecord
<1>2. g.size + Len(b) < Len(g.data)
  BY <1>1
<1>3. Joins(g, b, Strings!Extended(g, b))
  BY <1>2, ExtendedIs
<1>4. Strings!Bytes(g) = <<>>
  <2>1. SubSeq(g.data, 1, 0) \in Seq(Cells) /\ Len(SubSeq(g.data, 1, 0)) = 0
    <3>1. 0 \in 0 .. Len(g.data)
      BY <1>1
    <3> QED
      BY ONLY <1>1, <3>1, PrefixIs
  <2>2. SubSeq(g.data, 1, 0) = <<>>
    BY ONLY <2>1
  <2> QED
    BY <2>2 DEF Strings!Bytes
<1>5. <<>> \o b = b
  BY EmptyConcat
<1> QED
  BY <1>3, <1>4, <1>5 DEF Joins, Has

LEMMA MakeStringHas ==
  ASSUME NEW b \in Seq(Cells)
  PROVE  Has(b, Strings!MakeString(b))
<1> DEFINE c == Strings!QuantizeCapacity(Len(b))
           g == [size |-> 0, data |-> Strings!Fresh(c)]
<1>1. c \in Nat /\ c > Len(b)
  BY CapacityIsEnough
<1>2. Strings!MakeString(b) = Strings!Extended(g, b)
  BY DEF Strings!MakeString
<1> HIDE DEF c
<1>3. Strings!Fresh(c) \in Seq(Cells) /\ Len(Strings!Fresh(c)) = c
  BY <1>1, FreshIs
<1>4. g \in StringRecord /\ g.size = 0 /\ Len(b) < Len(g.data)
  BY <1>1, <1>3 DEF StringRecord
<1> HIDE DEF g
<1> QED
  BY <1>2, <1>4, EmptyHas

LEMMA AssignedHas ==
  ASSUME NEW s, Block(s), NEW b \in Seq(Cells)
  PROVE  Has(b, Strings!Assigned(s, b))
<1> DEFINE c == Strings!QuantizeCapacity(Len(b))
           q == Strings!Quantize(s, Len(b), FALSE)
           g == [q EXCEPT !.size = 0]
<1>1. c \in Nat /\ c > Len(b)
  BY CapacityIsEnough
<1>2. Strings!Assigned(s, b) = Strings!Extended(g, b)
  BY DEF Strings!Assigned
<1>3. q = IF c = Len(s.data) THEN s ELSE [s EXCEPT !.data = Strings!Fresh(c)]
  BY DEF Strings!Quantize, Strings!CapacityOf, Strings!Realloc
<1> HIDE DEF c, q
<1>4. Strings!Fresh(c) \in Seq(Cells) /\ Len(Strings!Fresh(c)) = c
  BY <1>1, FreshIs
<1>5. s \in StringRecord
  BY BytesAre
<1>6. q \in StringRecord /\ Len(q.data) = c
  BY <1>3, <1>4, <1>5 DEF StringRecord
<1>7. g \in StringRecord /\ g.size = 0 /\ Len(b) < Len(g.data)
  BY <1>1, <1>6 DEF StringRecord
<1> HIDE DEF g
<1> QED
  BY <1>2, <1>7, EmptyHas

LEMMA ClearedHas ==
  ASSUME NEW s, Block(s)
  PROVE  Has(<<>>, [s EXCEPT !.size = 0])
<1> DEFINE e == [s EXCEPT !.size = 0]
<1>1. s \in StringRecord /\ s.size \in Nat /\ s.data \in Seq(Cells) /\ s.size <= Len(s.data)
  BY BytesAre
<1>2. e \in StringRecord /\ e.size = 0 /\ e.data = s.data
  BY <1>1 DEF StringRecord
<1>3. Strings!Bytes(e) = <<>>
  <2>1. SubSeq(s.data, 1, 0) = <<>>
    BY <1>1
  <2> QED
    BY <1>2, <2>1 DEF Strings!Bytes
<1>4. Block(e)
  <2>1. CASE s = Strings!Null
    <3>1. e = Strings!Null
      BY <2>1 DEF Strings!Null
    <3> QED
      BY <1>2, <3>1 DEF Block
  <2>2. CASE s # Strings!Null
    <3>1. s.size < Len(s.data) /\ \E i \in 1 .. Len(s.data) : s.data[i] = "nul"
      BY <2>2 DEF Block
    <3>2. 0 < Len(s.data) /\ Len(s.data) \in Nat
      BY <1>1, <3>1
    <3> HIDE DEF e
    <3> QED
      BY ONLY <1>2, <3>1, <3>2 DEF Block
  <2> QED
    BY <2>1, <2>2
<1> QED
  BY <1>3, <1>4 DEF Has

-----------------------------------------------------------------------------
(* Strings: the texts                                                      *)

Letters == {"A", "run", "two", "three"}
Spoilt(t) == Strings!Contains(t, "junk")

\* The string holds the text, or nothing is said of what it holds.
Tells(s, t) == t = Strings!Unsaid \/ (Strings!WellFormed(t) /\ Strings!Bytes(s) = t)

StringInv ==
  /\ strings \in [Strings!Names -> StringRecord]
  /\ text \in [Strings!Names -> Seq(Cells)]
  /\ \A x \in Strings!Names : Block(strings[x]) /\ Tells(strings[x], text[x])

\* The lengths of bytes.
LEMMA LengthsAre ==
  /\ Strings!ByteLength["A"] = 1 /\ Strings!ByteLength["run"] = 0
  /\ Strings!ByteLength["two"] = 2 /\ Strings!ByteLength["three"] = 3
  /\ \A b \in Letters : Strings!ByteLength[b] \in 0 .. 3
  /\ DOMAIN Strings!ByteLength = Letters
  /\ \A b : Strings!IsLeading(b) <=> Strings!ByteLength[b] >= 1
<1>1. DOMAIN Strings!ByteLength = Letters
  BY DEF Strings!ByteLength, Letters
<1>2. Strings!ByteLength["A"] = 1 /\ Strings!ByteLength["run"] = 0
  BY DEF Strings!ByteLength
<1>3. Strings!ByteLength["two"] = 2 /\ Strings!ByteLength["three"] = 3
  BY DEF Strings!ByteLength
<1>4. \A b \in Letters : Strings!ByteLength[b] \in 0 .. 3
  BY <1>2, <1>3 DEF Letters
<1> QED
  BY <1>1, <1>2, <1>3, <1>4 DEF Strings!IsLeading

\* A well-formed text, with the position behind each character.
NextAt(t, i) == i + Strings!ByteLength[t[i]]
Characters(t) ==
  /\ t # <<>> => Strings!IsLeading(t[1])
  /\ \A i \in 1 .. Len(t) : Strings!IsLeading(t[i]) =>
       /\ NextAt(t, i) \in Nat /\ NextAt(t, i) > i /\ NextAt(t, i) <= Len(t) + 1
       /\ \A k \in i + 1 .. NextAt(t, i) - 1 : ~Strings!IsLeading(t[k])
       /\ NextAt(t, i) <= Len(t) => Strings!IsLeading(t[NextAt(t, i)])

LEMMA WellFormedIs ==
  \A t : Strings!WellFormed(t) <=> t \in Seq(Letters) /\ Characters(t)
<1> SUFFICES ASSUME NEW t PROVE Strings!WellFormed(t) <=> t \in Seq(Letters) /\ Characters(t)
  OBVIOUS
<1> DEFINE Whole(i) ==
             /\ NextAt(t, i) <= Len(t) + 1
             /\ \A k \in i + 1 .. NextAt(t, i) - 1 : ~Strings!IsLeading(t[k])
             /\ NextAt(t, i) <= Len(t) => Strings!IsLeading(t[NextAt(t, i)])
<1>1. Strings!WellFormed(t) <=>
        /\ t \in Seq(Letters) /\ (t # <<>> => Strings!IsLeading(t[1]))
        /\ \A i \in 1 .. Len(t) : Strings!IsLeading(t[i]) => Whole(i)
  BY ONLY LengthsAre DEF Strings!WellFormed, NextAt
<1>2. ASSUME t \in Seq(Letters), NEW i \in 1 .. Len(t), Strings!IsLeading(t[i])
      PROVE  NextAt(t, i) \in Nat /\ NextAt(t, i) > i
  <2>1. t[i] \in Letters /\ i \in Nat
    BY <1>2
  <2>2. Strings!ByteLength[t[i]] \in 0 .. 3 /\ Strings!ByteLength[t[i]] >= 1
    BY <1>2, <2>1, LengthsAre
  <2> QED
    BY <2>1, <2>2 DEF NextAt
<1> HIDE DEF Whole
<1>3. Characters(t) <=>
        /\ t # <<>> => Strings!IsLeading(t[1])
        /\ \A i \in 1 .. Len(t) : Strings!IsLeading(t[i]) => NextAt(t, i) \in Nat /\ NextAt(t, i) > i /\ Whole(i)
  BY DEF Characters, Whole
<1> QED
  BY ONLY <1>1, <1>2, <1>3

LEMMA TextIs ==
  ASSUME NEW t, Strings!WellFormed(t)
  PROVE  t \in Seq(Letters) /\ t \in Seq(Cells) /\ ~Spoilt(t)
<1>1. t \in Seq(Letters)
  BY WellFormedIs
<1>2. t \in Seq(Cells) /\ \A i \in 1 .. Len(t) : t[i] # "junk"
  BY <1>1 DEF Letters, Cells
<1> QED
  BY <1>1, <1>2 DEF Spoilt, Strings!Contains

LEMMA SpoiltIs ==
  /\ Spoilt(Strings!Unsaid) /\ Strings!Unsaid \in Seq(Cells)
  /\ \A a, b \in Seq(Cells) : Spoilt(a) \/ Spoilt(b) => Spoilt(a \o b)
<1>1. Strings!Unsaid \in Seq(Cells) /\ Len(Strings!Unsaid) = 1 /\ Strings!Unsaid[1] = "junk"
  BY DEF Strings!Unsaid, Strings!Junk, Cells
<1>2. Spoilt(Strings!Unsaid)
  BY <1>1 DEF Spoilt, Strings!Contains
<1>3. ASSUME NEW a \in Seq(Cells), NEW b \in Seq(Cells), Spoilt(a) \/ Spoilt(b) PROVE Spoilt(a \o b)
  <2> DEFINE c == a \o b
  <2>1. /\ Len(c) = Len(a) + Len(b) /\ Len(a) \in Nat /\ Len(b) \in Nat
        /\ \A i \in 1 .. Len(a) : c[i] = a[i]
        /\ \A i \in 1 .. Len(b) : c[Len(a) + i] = b[i]
    BY ConcatIs
  <2> HIDE DEF c
  <2>2. \E i \in 1 .. Len(c) : c[i] = "junk"
    <3>1. CASE Spoilt(a)
      <4>1. PICK i \in 1 .. Len(a) : a[i] = "junk"
        BY <3>1 DEF Spoilt, Strings!Contains
      <4>2. i \in 1 .. Len(c) /\ c[i] = "junk"
        BY <2>1, <4>1
      <4> QED
        BY <4>2
    <3>2. CASE Spoilt(b)
      <4>1. PICK i \in 1 .. Len(b) : b[i] = "junk"
        BY <3>2 DEF Spoilt, Strings!Contains
      <4>2. Len(a) + i \in 1 .. Len(c) /\ c[Len(a) + i] = "junk"
        BY <2>1, <4>1
      <4> QED
        BY <4>2
    <3> QED
      BY <1>3, <3>1, <3>2
  <2> QED
    BY <2>2 DEF Spoilt, Strings!Contains, c
<1> QED
  BY <1>1, <1>2, <1>3

LEMMA UnsaidIs == Spoilt(Strings!Unsaid) /\ Strings!Unsaid \in Seq(Cells)
  BY SpoiltIs

\* Characters behind characters are characters.
LEMMA WellFormedJoin ==
  ASSUME NEW a, NEW b, Strings!WellFormed(a), Strings!WellFormed(b)
  PROVE  Strings!WellFormed(a \o b)
<1> DEFINE c == a \o b
           m == Len(a)
           n == Len(b)
<1>1. a \in Seq(Letters) /\ b \in Seq(Letters) /\ Characters(a) /\ Characters(b)
  BY WellFormedIs
<1>2. /\ c \in Seq(Letters) /\ Len(c) = m + n /\ m \in Nat /\ n \in Nat
      /\ \A i \in 1 .. m : c[i] = a[i]
      /\ \A i \in 1 .. n : c[m + i] = b[i]
  BY <1>1, ConcatIs
<1>3. a # <<>> <=> m > 0
  BY <1>1
<1>4. b # <<>> <=> n > 0
  BY <1>1
<1>5. c # <<>> => m + n > 0
  <2> HIDE DEF c, m, n
  <2> QED
    BY ONLY <1>2
<1>6. n > 0 => Strings!IsLeading(b[1])
  BY <1>1, <1>4 DEF Characters
<1>7. m > 0 => Strings!IsLeading(a[1])
  BY <1>1, <1>3 DEF Characters
<1> HIDE DEF c, m, n
<1>8. n > 0 => c[m + 1] = b[1]
  BY ONLY <1>2
<1>9. c # <<>> => Strings!IsLeading(c[1])
  <2>1. CASE m > 0
    BY ONLY <1>2, <1>7, <2>1
  <2>2. CASE m = 0
    BY ONLY <1>2, <1>5, <1>6, <1>8, <2>2
  <2> QED
    BY ONLY <1>2, <2>1, <2>2
<1>10. ASSUME NEW i \in 1 .. m + n, Strings!IsLeading(c[i])
       PROVE  /\ NextAt(c, i) \in Nat /\ NextAt(c, i) > i /\ NextAt(c, i) <= m + n + 1
              /\ \A k \in i + 1 .. NextAt(c, i) - 1 : ~Strings!IsLeading(c[k])
              /\ NextAt(c, i) <= m + n => Strings!IsLeading(c[NextAt(c, i)])
  <2>1. CASE i <= m
    <3> DEFINE e == NextAt(a, i)
    <3>1. i \in 1 .. m /\ c[i] = a[i]
      BY ONLY <1>2, <2>1, i \in 1 .. m + n
    <3>2. NextAt(c, i) = e
      BY <3>1 DEF NextAt
    <3>3. /\ e \in Nat /\ e > i /\ e <= m + 1
          /\ \A k \in i + 1 .. e - 1 : ~Strings!IsLeading(a[k])
          /\ e <= m => Strings!IsLeading(a[e])
      BY <1>1, <1>10, <3>1 DEF Characters, m
    <3> HIDE DEF e
    <3>4. ASSUME NEW k \in i + 1 .. e - 1 PROVE ~Strings!IsLeading(c[k])
      <4>1. k \in 1 .. m
        BY ONLY <1>2, <3>1, <3>3, k \in i + 1 .. e - 1
      <4> QED
        BY <1>2, <3>3, <4>1
    <3>5. e <= m + n => Strings!IsLeading(c[e])
      <4>1. CASE e <= m
        <5>1. e \in 1 .. m
          BY ONLY <3>1, <3>3, <4>1
        <5> QED
          BY <1>2, <3>3, <4>1, <5>1
      <4>2. CASE e = m + 1
        BY ONLY <1>2, <1>6, <1>8, <4>2
      <4> QED
        BY ONLY <1>2, <3>3, <4>1, <4>2
    <3>6. e <= m + n + 1
      BY ONLY <1>2, <3>3
    <3> QED
      BY ONLY <3>2, <3>3, <3>4, <3>5, <3>6
  <2>2. CASE i > m
    <3> DEFINE j == i - m
               e == NextAt(b, j)
    <3>1. j \in 1 .. n /\ m + j = i /\ c[m + j] = b[j]
      BY ONLY <1>2, <2>2, i \in 1 .. m + n
    <3> HIDE DEF j
    <3>2. b[j] \in Letters /\ j \in Nat
      BY <1>1, <3>1 DEF n
    <3>3. NextAt(c, i) = m + e
      <4>1. Strings!ByteLength[b[j]] \in Nat
        BY <3>2, LengthsAre
      <4>2. m \in Nat /\ j \in Nat /\ c[i] = b[j]
        BY <1>2, <3>1, <3>2
      <4>3. \A l \in Nat : i + l = m + (j + l)
        BY <3>1, <4>2
      <4> QED
        BY ONLY <4>1, <4>2, <4>3 DEF NextAt
    <3>4. /\ e \in Nat /\ e > j /\ e <= n + 1
          /\ \A k \in j + 1 .. e - 1 : ~Strings!IsLeading(b[k])
          /\ e <= n => Strings!IsLeading(b[e])
      <4>1. Strings!IsLeading(b[j])
        BY <1>10, <3>1
      <4> QED
        BY <1>1, <3>1, <4>1 DEF Characters, n
    <3> HIDE DEF e
    <3>5. ASSUME NEW k \in i + 1 .. (m + e) - 1 PROVE ~Strings!IsLeading(c[k])
      <4> DEFINE l == k - m
      <4>1. l \in j + 1 .. e - 1 /\ l \in 1 .. n /\ m + l = k
        BY ONLY <1>2, <3>1, <3>4, k \in i + 1 .. (m + e) - 1
      <4> HIDE DEF l
      <4>2. c[m + l] = b[l]
        BY ONLY <1>2, <4>1
      <4> QED
        BY ONLY <3>4, <4>1, <4>2
    <3>6. m + e <= m + n => Strings!IsLeading(c[m + e])
      <4> SUFFICES ASSUME m + e <= m + n PROVE Strings!IsLeading(c[m + e])
        OBVIOUS
      <4>1. e <= n /\ e \in 1 .. n
        BY ONLY <1>2, <3>1, <3>4, m + e <= m + n
      <4>2. c[m + e] = b[e]
        BY ONLY <1>2, <4>1
      <4> QED
        BY ONLY <3>4, <4>1, <4>2
    <3>7. m + e \in Nat /\ m + e > i /\ m + e <= m + n + 1
      BY ONLY <1>2, <3>1, <3>4
    <3> DEFINE g == m + e
    <3>8. /\ NextAt(c, i) = g /\ g \in Nat /\ g > i /\ g <= m + n + 1
          /\ g <= m + n => Strings!IsLeading(c[g])
      BY ONLY <3>3, <3>6, <3>7
    <3>9. \A k \in i + 1 .. g - 1 : ~Strings!IsLeading(c[k])
      BY <3>5
    <3> HIDE DEF g
    <3> QED
      BY ONLY <3>8, <3>9
  <2> QED
    BY ONLY <1>2, <2>1, <2>2, i \in 1 .. m + n
<1>11. Characters(c)
  BY ONLY <1>2, <1>9, <1>10 DEF Characters
<1> QED
  BY <1>2, <1>11, WellFormedIs DEF c

LEMMA EmptyText == Strings!WellFormed(<<>>) /\ Tells(Strings!Null, <<>>) /\ Block(Strings!Null)
<1>1. <<>> \in Seq(Letters) /\ Characters(<<>>)
  BY DEF Characters
<1>2. Strings!WellFormed(<<>>)
  BY <1>1, WellFormedIs
<1>3. Strings!Null \in StringRecord /\ Strings!Null.size = 0 /\ Strings!Null.data = <<>>
  BY DEF Strings!Null, StringRecord, Cells
<1>4. Strings!Bytes(Strings!Null) = <<>>
  <2>1. <<>> \in Seq(Cells)
    OBVIOUS
  <2>2. SubSeq(<<>>, 1, 0) = <<>>
    OBVIOUS
  <2> QED
    BY <1>3, <2>2 DEF Strings!Bytes
<1>5. Block(Strings!Null)
  BY <1>3 DEF Block
<1> QED
  BY <1>2, <1>4, <1>5 DEF Tells

-----------------------------------------------------------------------------
(* Strings: the inductive invariant                                        *)

\* A text, and bytes that are it unless nothing is said of them.
Given(b, u) == b \in Seq(Cells) /\ (u = Strings!Unsaid \/ (Strings!WellFormed(u) /\ b = u))
\* What a string may be set to.
Settable(e, t) == Block(e) /\ (Spoilt(t) \/ (Strings!WellFormed(t) /\ Strings!Bytes(e) = t))

LEMMA StringIs ==
  ASSUME StringInv, NEW x \in Strings!Names
  PROVE  Block(strings[x]) /\ Tells(strings[x], text[x]) /\ Given(Strings!Bytes(strings[x]), text[x])
<1>1. Block(strings[x]) /\ Tells(strings[x], text[x])
  BY DEF StringInv
<1>2. Strings!Bytes(strings[x]) \in Seq(Cells)
  BY <1>1, BytesAre
<1> QED
  BY <1>1, <1>2 DEF Given, Tells

LEMMA JoinIsSettable ==
  ASSUME NEW s, NEW t, Block(s), Tells(s, t), NEW b, NEW u, Given(b, u), NEW e, Joins(s, b, e)
  PROVE  Settable(e, t \o u)
<1>1. Block(e) /\ Strings!Bytes(e) = Strings!Bytes(s) \o b
  BY DEF Joins
<1>2. t \in Seq(Cells)
  BY TextIs, UnsaidIs DEF Tells
<1>3. u \in Seq(Cells)
  BY TextIs, UnsaidIs DEF Given
<1>4. CASE t = Strings!Unsaid \/ u = Strings!Unsaid
  <2>1. Spoilt(t) \/ Spoilt(u)
    BY <1>4, UnsaidIs
  <2>2. Spoilt(t \o u)
    BY ONLY <1>2, <1>3, <2>1, SpoiltIs
  <2> QED
    BY <1>1, <2>2 DEF Settable
<1>5. CASE ~(t = Strings!Unsaid \/ u = Strings!Unsaid)
  <2>1. Strings!WellFormed(t) /\ Strings!Bytes(s) = t /\ Strings!WellFormed(u) /\ b = u
    BY <1>5 DEF Tells, Given
  <2>2. Strings!WellFormed(t \o u)
    BY <2>1, WellFormedJoin
  <2>3. Strings!Bytes(e) = t \o u
    BY <1>1, <2>1
  <2> QED
    BY <1>1, <2>2, <2>3 DEF Settable
<1> QED
  BY <1>4, <1>5

LEMMA HasIsSettable ==
  ASSUME NEW b, NEW u, Given(b, u), NEW e, Has(b, e)
  PROVE  Settable(e, u)
  BY UnsaidIs DEF Has, Given, Settable

LEMMA SetKeeps ==
  ASSUME StringInv, NEW x \in Strings!Names, NEW e, NEW t, Settable(e, t), Strings!Set(x, e, t)
  PROVE  StringInv'
<1> DEFINE u == IF Spoilt(t) THEN Strings!Unsaid ELSE t
<1>1. strings' = [strings EXCEPT ![x] = e] /\ text' = [text EXCEPT ![x] = u]
  BY DEF Strings!Set, Spoilt, Strings!Junk
<1>2. u \in Seq(Cells) /\ Tells(e, u) /\ Block(e)
  <2>1. CASE Spoilt(t)
    BY <2>1, UnsaidIs DEF Tells, Settable
  <2>2. CASE ~Spoilt(t)
    BY <2>2, TextIs DEF Tells, Settable
  <2> QED
    BY <2>1, <2>2
<1> HIDE DEF u
<1>3. e \in StringRecord
  BY <1>2, BytesAre
<1>4. strings \in [Strings!Names -> StringRecord] /\ text \in [Strings!Names -> Seq(Cells)]
  BY DEF StringInv
<1>5. strings' \in [Strings!Names -> StringRecord] /\ text' \in [Strings!Names -> Seq(Cells)]
  BY ONLY <1>1, <1>2, <1>3, <1>4
<1>6. ASSUME NEW y \in Strings!Names PROVE Block(strings'[y]) /\ Tells(strings'[y], text'[y])
  <2>1. CASE y = x
    <3>1. strings'[y] = e /\ text'[y] = u
      BY <1>1, <1>4, <2>1
    <3> QED
      BY ONLY <1>2, <3>1
  <2>2. CASE y # x
    <3>1. strings'[y] = strings[y] /\ text'[y] = text[y]
      BY <1>1, <1>4, <2>2
    <3>2. Block(strings[y]) /\ Tells(strings[y], text[y])
      BY DEF StringInv
    <3> QED
      BY ONLY <3>1, <3>2
  <2> QED
    BY <2>1, <2>2
<1> QED
  BY ONLY <1>5, <1>6 DEF StringInv

\* Strings that change places keep their texts.
LEMMA MoveKeeps ==
  ASSUME StringInv, NEW x \in Strings!Names, NEW y \in Strings!Names, NEW e, NEW t, Block(e), Tells(e, t),
         strings' = [strings EXCEPT ![x] = strings[y], ![y] = e],
         text' = [text EXCEPT ![x] = text[y], ![y] = t]
  PROVE  StringInv'
<1>1. e \in StringRecord
  BY BytesAre
<1>2. t \in Seq(Cells)
  BY TextIs, UnsaidIs DEF Tells
<1>3. strings \in [Strings!Names -> StringRecord] /\ text \in [Strings!Names -> Seq(Cells)]
  BY DEF StringInv
<1>4. strings' \in [Strings!Names -> StringRecord] /\ text' \in [Strings!Names -> Seq(Cells)]
  BY <1>1, <1>2, <1>3
<1>5. ASSUME NEW z \in Strings!Names PROVE Block(strings'[z]) /\ Tells(strings'[z], text'[z])
  <2>1. Block(strings[y]) /\ Tells(strings[y], text[y]) /\ Block(strings[z]) /\ Tells(strings[z], text[z])
    BY DEF StringInv
  <2>2. strings'[z] = (IF z = y THEN e ELSE IF z = x THEN strings[y] ELSE strings[z])
    BY <1>3
  <2>3. text'[z] = (IF z = y THEN t ELSE IF z = x THEN text[y] ELSE text[z])
    BY <1>3
  <2> QED
    BY <2>1, <2>2, <2>3
<1> QED
  BY ONLY <1>4, <1>5 DEF StringInv

LEMMA StringStarts == Strings!Init => StringInv
<1> SUFFICES ASSUME Strings!Init PROVE StringInv
  OBVIOUS
<1>1. Block(Strings!Null) /\ Tells(Strings!Null, <<>>) /\ Strings!Null \in StringRecord /\ <<>> \in Seq(Cells)
  BY EmptyText, BytesAre
<1> QED
  BY <1>1 DEF Strings!Init, StringInv

LEMMA StringsStep == StringInv /\ [Strings!Next]_string => StringInv'
<1> SUFFICES ASSUME StringInv, [Strings!Next]_string PROVE StringInv'
  OBVIOUS
<1>1. CASE UNCHANGED string
  BY <1>1 DEF string, StringInv
<1>2. ASSUME NEW x \in Strings!Names, NEW t \in Texts,
             Strings!Construct(x, t) \/ Strings!Append1(x, t) \/ Strings!AddText(x, t) \/ Strings!PushBack(x, t)
      PROVE  StringInv'
  <2> DEFINE s == strings[x]
  <2>1. Block(s) /\ Tells(s, text[x])
    BY StringIs
  <2>2. t \in Seq(Cells) /\ Given(t, t)
    BY StringAssumption, TextIs DEF Given
  <2>3. CASE Strings!Construct(x, t)
    <3>1. Settable(Strings!MakeString(t), t)
      BY <2>2, MakeStringHas, HasIsSettable
    <3>2. Strings!Set(x, Strings!MakeString(t), t)
      BY <2>3 DEF Strings!Construct
    <3> QED
      BY <3>1, <3>2, SetKeeps
  <2>4. ASSUME NEW e, Joins(s, t, e), Strings!Set(x, e, text[x] \o t) PROVE StringInv'
    <3>1. Settable(e, text[x] \o t)
      BY <2>1, <2>2, <2>4, JoinIsSettable
    <3> QED
      BY <2>4, <3>1, SetKeeps
  <2>5. CASE Strings!Append1(x, t)
    <3>1. Joins(s, t, Strings!Appended(s, t)) /\ Strings!Set(x, Strings!Appended(s, t), text[x] \o t)
      BY <2>1, <2>2, <2>5, AppendedJoins DEF Strings!Append1
    <3> QED
      BY <2>4, <3>1
  <2>6. CASE Strings!AddText(x, t)
    <3>1. Joins(s, t, Strings!Added(s, t)) /\ Strings!Set(x, Strings!Added(s, t), text[x] \o t)
      BY <2>1, <2>2, <2>6, AddedJoins DEF Strings!AddText
    <3> QED
      BY <2>4, <3>1
  <2>7. CASE Strings!PushBack(x, t)
    <3>1. Joins(s, t, Strings!PushedBack(s, t)) /\ Strings!Set(x, Strings!PushedBack(s, t), text[x] \o t)
      BY <2>1, <2>2, <2>7, PushedBackJoins DEF Strings!PushBack
    <3> QED
      BY <2>4, <3>1
  <2> QED
    BY <1>2, <2>3, <2>5, <2>6, <2>7
<1>3. ASSUME NEW x \in Strings!Names, NEW y \in Strings!Names,
             \/ Strings!CopyConstruct(x, y) \/ Strings!MoveConstruct(x, y) \/ Strings!MoveAssign(x, y)
             \/ Strings!AppendString(x, y) \/ Strings!AddString(x, y) \/ Strings!CopyAssign(x, y)
      PROVE  StringInv'
  <2> DEFINE s == strings[x]
             b == Strings!Bytes(strings[y])
  <2>1. Block(s) /\ Tells(s, text[x])
    BY StringIs
  <2>2. Given(b, text[y]) /\ b \in Seq(Cells)
    BY StringIs DEF Given
  <2>3. ASSUME NEW e PROVE LET g == Strings!GivenTo(x, y, e)
                               u == IF g = text[y] THEN g ELSE Strings!Unsaid
                           IN  g \in Seq(Cells) /\ Given(g, u)
    <3> DEFINE g == Strings!GivenTo(x, y, e)
    <3>1. strings[y].size \in Nat
      BY StringIs, BytesAre
    <3> DEFINE j == [i \in 1 .. strings[y].size |-> "junk"]
    <3>2. j \in Seq(Cells)
      BY <3>1 DEF Cells
    <3>3. g = j \/ g = b
      BY DEF Strings!GivenTo, Strings!Junk
    <3> HIDE DEF g, j
    <3>4. g \in Seq(Cells)
      BY <2>2, <3>2, <3>3
    <3>5. g = text[y] => g = Strings!Unsaid \/ Strings!WellFormed(g)
      BY <2>2 DEF Given
    <3> QED
      BY <3>4, <3>5 DEF Given, g
  <2>4. CASE Strings!CopyConstruct(x, y)
    <3>1. Settable(Strings!MakeString(b), text[y])
      BY <2>2, MakeStringHas, HasIsSettable
    <3>2. Strings!Set(x, Strings!MakeString(b), text[y])
      BY <2>4 DEF Strings!CopyConstruct
    <3> QED
      BY <3>1, <3>2, SetKeeps
  <2>5. CASE Strings!MoveConstruct(x, y)
    <3>1. /\ strings' = [strings EXCEPT ![x] = strings[y], ![y] = Strings!Null]
          /\ text' = [text EXCEPT ![x] = text[y], ![y] = <<>>]
      BY <2>5 DEF Strings!MoveConstruct
    <3> QED
      BY <3>1, EmptyText, MoveKeeps
  <2>6. CASE Strings!MoveAssign(x, y)
    <3>1. /\ strings' = [strings EXCEPT ![x] = strings[y], ![y] = strings[x]]
          /\ text' = [text EXCEPT ![x] = text[y], ![y] = text[x]]
      BY <2>6 DEF Strings!MoveAssign
    <3> QED
      BY <2>1, <3>1, MoveKeeps
  <2>7. CASE Strings!AppendString(x, y)
    <3> DEFINE g == Strings!GivenTo(x, y, Strings!Appended(s, b))
               u == IF g = text[y] THEN g ELSE Strings!Unsaid
               e == Strings!Appended(s, g)
    <3>1. Strings!Set(x, e, text[x] \o u)
      BY <2>7 DEF Strings!AppendString
    <3>2. g \in Seq(Cells) /\ Given(g, u)
      BY <2>3
    <3>3. Joins(s, g, e)
      <4> HIDE DEF g, s
      <4> QED
        BY <2>1, <3>2, AppendedJoins DEF e
    <3> HIDE DEF g, u, e, s
    <3>4. Settable(e, text[x] \o u)
      BY <2>1, <3>2, <3>3, JoinIsSettable
    <3> QED
      BY <3>1, <3>4, SetKeeps
  <2>8. CASE Strings!AddString(x, y)
    <3> DEFINE e == Strings!Added(s, b)
    <3>1. Strings!Set(x, e, text[x] \o text[y])
      BY <2>8 DEF Strings!AddString
    <3>2. Joins(s, b, e)
      BY <2>1, <2>2, AddedJoins
    <3> HIDE DEF e, b, s
    <3>3. Settable(e, text[x] \o text[y])
      BY <2>1, <2>2, <3>2, JoinIsSettable
    <3> QED
      BY <3>1, <3>3, SetKeeps
  <2>9. CASE Strings!CopyAssign(x, y)
    <3> DEFINE g == Strings!GivenTo(x, y, Strings!Assigned(s, b))
               u == IF g = text[y] THEN g ELSE Strings!Unsaid
               e == Strings!Assigned(s, g)
    <3>1. Strings!Set(x, e, u)
      BY <2>9 DEF Strings!CopyAssign
    <3>2. g \in Seq(Cells) /\ Given(g, u)
      BY <2>3
    <3>3. Has(g, e)
      <4> HIDE DEF g, s
      <4> QED
        BY <2>1, <3>2, AssignedHas DEF e
    <3> HIDE DEF g, u, e, s
    <3>4. Settable(e, u)
      BY <3>2, <3>3, HasIsSettable
    <3> QED
      BY <3>1, <3>4, SetKeeps
  <2> QED
    BY <1>3, <2>4, <2>5, <2>6, <2>7, <2>8, <2>9
<1>4. ASSUME NEW x \in Strings!Names, Strings!Clear(x) PROVE StringInv'
  <2> DEFINE e == [strings[x] EXCEPT !.size = 0]
  <2>1. Has(<<>>, e)
    BY StringIs, ClearedHas
  <2>2. Given(<<>>, <<>>)
    BY EmptyText DEF Given
  <2>3. Strings!Set(x, e, <<>>)
    BY <1>4 DEF Strings!Clear
  <2> HIDE DEF e
  <2>4. Settable(e, <<>>)
    BY <2>1, <2>2, HasIsSettable
  <2> QED
    BY <2>3, <2>4, SetKeeps
<1> QED
  BY <1>1, <1>2, <1>3, <1>4 DEF Strings!Next

\* A string that holds its text shows it, as bytes and up to the terminator.
LEMMA StringsHold == StringInv => Strings!HoldsText
<1> SUFFICES ASSUME StringInv PROVE Strings!HoldsText
  OBVIOUS
<1>1. ASSUME NEW x \in Strings!Names, Strings!Said(x)
      PROVE  Strings!WellFormed(text[x]) /\ Strings!Bytes(strings[x]) = text[x]
  <2>1. ~Spoilt(text[x])
    BY <1>1 DEF Strings!Said, Spoilt, Strings!Junk
  <2> QED
    BY <2>1, StringIs, UnsaidIs DEF Tells
<1>2. ASSUME NEW x \in Strings!Names, strings[x] # Strings!Null
      PROVE  /\ strings[x].size < Strings!CapacityOf(strings[x])
             /\ \E i \in 1 .. Strings!CapacityOf(strings[x]) : strings[x].data[i] = Strings!Nul
  BY <1>2, StringIs DEF Block, Strings!CapacityOf, Strings!Nul
<1>3. ASSUME NEW x \in Strings!Names, strings[x].size > 0, Strings!Said(x)
      PROVE  Strings!CStr(strings[x]) = text[x]
  <2> DEFINE s == strings[x]
             d == s.data
             n == s.size
             Ends(i) == d[i] = "nul" /\ \A j \in 1 .. i - 1 : d[j] # "nul"
  <2>1. /\ n \in Nat /\ n > 0 /\ d \in Seq(Cells) /\ Len(d) \in Nat
        /\ \A i \in 1 .. n : Strings!Bytes(s)[i] = d[i] /\ Len(Strings!Bytes(s)) = n
    BY <1>3, StringIs, BytesAre
  <2>2. s # Strings!Null
    <3>1. Strings!Null.size = 0
      BY DEF Strings!Null
    <3> QED
      BY <2>1, <3>1
  <2>3. n < Len(d) /\ d[n + 1] = "nul"
    BY <2>1, <2>2, StringIs DEF Block
  <2>4. ASSUME NEW i \in 1 .. n PROVE d[i] # "nul"
    <3>1. text[x] \in Seq(Letters) /\ Len(text[x]) = n /\ text[x][i] = d[i]
      BY <1>1, <1>3, <2>1, TextIs
    <3>2. text[x][i] \in Letters
      BY <3>1
    <3> QED
      BY <3>1, <3>2 DEF Letters
  <2> HIDE DEF d, n
  <2>5. n + 1 \in 1 .. Len(d) /\ Ends(n + 1)
    BY ONLY <2>1, <2>3, <2>4
  <2>6. ASSUME NEW i \in 1 .. Len(d), Ends(i) PROVE i = n + 1
    <3>1. ~(i <= n)
      <4> SUFFICES ASSUME i <= n PROVE FALSE
        OBVIOUS
      <4>1. i \in 1 .. n
        BY ONLY <2>1, i <= n, i \in 1 .. Len(d)
      <4> QED
        BY ONLY <2>4, <2>6, <4>1
    <3>2. ~(i > n + 1)
      <4> SUFFICES ASSUME i > n + 1 PROVE FALSE
        OBVIOUS
      <4>1. n + 1 \in 1 .. i - 1
        BY ONLY <2>1, i > n + 1, i \in 1 .. Len(d)
      <4> QED
        BY ONLY <2>3, <2>6, <4>1
    <3> QED
      BY ONLY <2>1, <3>1, <3>2, i \in 1 .. Len(d)
  <2>7. (CHOOSE i \in 1 .. Len(d) : Ends(i)) = n + 1
    <3> DEFINE c == CHOOSE i \in 1 .. Len(d) : Ends(i)
    <3>1. \E i \in 1 .. Len(d) : Ends(i)
      BY ONLY <2>5
    <3>2. c \in 1 .. Len(d) /\ Ends(c)
      BY ONLY <3>1
    <3> QED
      BY <2>6, <3>2
  <2>8. Strings!CStr(s) = SubSeq(d, 1, (CHOOSE i \in 1 .. Len(d) : Ends(i)) - 1)
    BY DEF Strings!CStr, Strings!CapacityOf, Strings!Nul, d
  <2>9. (n + 1) - 1 = n
    BY ONLY <2>1
  <2>10. Strings!CStr(s) = SubSeq(d, 1, n)
    BY ONLY <2>7, <2>8, <2>9
  <2> QED
    BY <1>1, <1>3, <2>10 DEF Strings!Bytes, d, n
<1> QED
  BY <1>1, <1>2, <1>3 DEF Strings!HoldsText, Strings!Equal

-----------------------------------------------------------------------------
(* Strings: iteration                                                      *)

\* The positions ++ and -- may be at, and where they go from one.
Bounds(t) == {i \in 0 .. Len(t) : i = Len(t) \/ Strings!IsLeading(t[i + 1])}
Succ(t, i) == i + Strings!ByteLength[t[i + 1]]
Prec(t, i) == CHOOSE j \in 0 .. i - 1 :
                 Strings!IsLeading(t[j + 1]) /\ \A k \in j + 1 .. i - 1 : ~Strings!IsLeading(t[k + 1])

Stops(t, i, signed) ==
  i = Len(t) \/ ~Strings!IsLeading(t[i + 1]) \/ ~Strings!IsInTable(t[i + 1], signed)
ForwardStep(t, f, i, signed) ==
  IF Stops(t, i, signed) THEN <<i>> ELSE <<i>> \o f[Succ(t, i)]
BackwardStep(t, f, i) == IF i = 0 THEN <<i>> ELSE <<i>> \o f[Prec(t, i)]

Advances(t, f, signed) == f = [i \in 0 .. Len(t) |-> ForwardStep(t, f, i, signed)]
Retreats(t, f) == f = [i \in 0 .. Len(t) |-> BackwardStep(t, f, i)]

\* ++ goes from the start of a character to the next start, over nothing that is one.
LEMMA SuccIs ==
  ASSUME NEW t, Strings!WellFormed(t), NEW i \in 0 .. Len(t), i # Len(t), Strings!IsLeading(t[i + 1])
  PROVE  /\ Succ(t, i) \in Nat /\ Succ(t, i) > i /\ Succ(t, i) <= Len(t) /\ Succ(t, i) \in Bounds(t)
         /\ \A k \in i + 1 .. Succ(t, i) - 1 : ~Strings!IsLeading(t[k + 1])
<1> DEFINE m == i + 1
           e == NextAt(t, m)
           q == Succ(t, i)
           l == Strings!ByteLength[t[m]]
<1>1. t \in Seq(Letters) /\ Characters(t) /\ Len(t) \in Nat
  BY WellFormedIs
<1>2. m \in 1 .. Len(t) /\ i \in Nat
  BY <1>1
<1>3. t[m] \in Letters
  BY <1>1, <1>2
<1>4. l \in 0 .. 3
  BY <1>3, LengthsAre
<1>5. e = m + l /\ q = i + l
  BY DEF NextAt, Succ
<1>6. /\ e \in Nat /\ e > m /\ e <= Len(t) + 1
      /\ \A k \in m + 1 .. e - 1 : ~Strings!IsLeading(t[k])
      /\ e <= Len(t) => Strings!IsLeading(t[e])
  <2> HIDE DEF e, m
  <2>1. Strings!IsLeading(t[m])
    BY DEF m
  <2> QED
    BY <1>1, <1>2, <2>1 DEF Characters, e
<1> HIDE DEF e, q, l
<1>7. e = q + 1 /\ q \in Nat /\ q > i /\ q <= Len(t)
  BY ONLY <1>1, <1>2, <1>4, <1>5, <1>6
<1>8. q \in Bounds(t)
  <2>1. q # Len(t) => Strings!IsLeading(t[q + 1])
    BY ONLY <1>1, <1>6, <1>7
  <2>2. q \in 0 .. Len(t)
    BY ONLY <1>1, <1>7
  <2> QED
    BY ONLY <2>1, <2>2 DEF Bounds
<1>9. ASSUME NEW k \in i + 1 .. q - 1 PROVE ~Strings!IsLeading(t[k + 1])
  <2>1. k + 1 \in m + 1 .. e - 1
    BY ONLY <1>2, <1>7, k \in i + 1 .. q - 1
  <2> QED
    BY ONLY <1>6, <2>1
<1> QED
  BY ONLY <1>7, <1>8, <1>9 DEF q

\* -- finds the last start of a character before it: there is one.
LEMMA PrecIs ==
  ASSUME NEW t, Strings!WellFormed(t), NEW i \in 1 .. Len(t)
  PROVE  /\ Prec(t, i) \in Nat /\ Prec(t, i) < i /\ Prec(t, i) \in Bounds(t) /\ Prec(t, i) # Len(t)
         /\ Strings!IsLeading(t[Prec(t, i) + 1])
         /\ \A k \in Prec(t, i) + 1 .. i - 1 : ~Strings!IsLeading(t[k + 1])
<1>1. t \in Seq(Letters) /\ Characters(t) /\ Len(t) \in Nat /\ i \in Nat /\ i > 0
  BY WellFormedIs
<1>2. Strings!IsLeading(t[1])
  <2>1. t # <<>>
    BY <1>1
  <2> QED
    BY <1>1, <2>1 DEF Characters
<1> DEFINE S == {n \in Nat : n <= i - 1 /\ Strings!IsLeading(t[i - n])}
           P(j) == Strings!IsLeading(t[j + 1]) /\ \A k \in j + 1 .. i - 1 : ~Strings!IsLeading(t[k + 1])
<1>3. PICK n \in S : \A k \in S : n <= k
  <2>1. S \in SUBSET Nat
    OBVIOUS
  <2>2. i - 1 \in Nat /\ i - 1 <= i - 1 /\ i - (i - 1) = 1
    BY <1>1
  <2>3. i - 1 \in S
    BY <1>2, <2>2
  <2> HIDE DEF S
  <2> QED
    BY <2>1, <2>3, LeastOfSet
<1> DEFINE j == (i - 1) - n
<1>4. j \in 0 .. i - 1 /\ n \in Nat /\ n <= i - 1 /\ j + 1 = i - n
  BY <1>1, <1>3
<1>5. ASSUME NEW k \in j + 1 .. i - 1 PROVE ~Strings!IsLeading(t[k + 1])
  <2> DEFINE l == (i - 1) - k
  <2>1. l \in Nat /\ l <= i - 1 /\ i - l = k + 1 /\ ~(n <= l)
    BY <1>1, <1>4
  <2>2. l \notin S
    BY <1>3, <2>1
  <2> HIDE DEF l
  <2> QED
    BY <2>1, <2>2
<1>6. Strings!IsLeading(t[j + 1])
  BY <1>3, <1>4
<1> HIDE DEF j
<1>7. P(j)
  BY ONLY <1>5, <1>6
<1> DEFINE p == CHOOSE x \in 0 .. i - 1 : P(x)
<1>8. p \in 0 .. i - 1 /\ P(p)
  BY ONLY <1>4, <1>7
<1>9. Prec(t, i) = p
  BY DEF Prec
<1> HIDE DEF p, S
<1>10. p \in Nat /\ p < i /\ p # Len(t) /\ p \in 0 .. Len(t)
  BY ONLY <1>1, <1>8, i \in 1 .. Len(t)
<1>11. p \in Bounds(t)
  BY ONLY <1>8, <1>10 DEF Bounds
<1> QED
  BY ONLY <1>8, <1>9, <1>10, <1>11

\* What ++ does from the last start is what gets it where it was.
LEMMA SuccOfPrec ==
  ASSUME NEW t, Strings!WellFormed(t), NEW i \in 1 .. Len(t), i \in Bounds(t)
  PROVE  Succ(t, Prec(t, i)) = i
<1> DEFINE p == Prec(t, i)
           q == Succ(t, p)
<1>1. /\ p \in Nat /\ p < i /\ p \in Bounds(t) /\ p # Len(t) /\ Strings!IsLeading(t[p + 1])
      /\ \A k \in p + 1 .. i - 1 : ~Strings!IsLeading(t[k + 1])
  BY PrecIs
<1> HIDE DEF p
<1>2. p \in 0 .. Len(t) /\ Len(t) \in Nat
  BY <1>1, WellFormedIs DEF Bounds
<1>3. /\ q \in Nat /\ q > p /\ q <= Len(t) /\ q \in Bounds(t)
      /\ \A k \in p + 1 .. q - 1 : ~Strings!IsLeading(t[k + 1])
  BY <1>1, <1>2, SuccIs
<1> HIDE DEF q
<1>4. ~(q < i)
  <2> SUFFICES ASSUME q < i PROVE FALSE
    OBVIOUS
  <2>1. q \in p + 1 .. i - 1 /\ q # Len(t)
    BY ONLY <1>1, <1>2, <1>3, q < i, i \in 1 .. Len(t)
  <2> QED
    BY ONLY <1>1, <1>3, <2>1 DEF Bounds
<1>5. ~(i < q)
  <2> SUFFICES ASSUME i < q PROVE FALSE
    OBVIOUS
  <2>1. i \in p + 1 .. q - 1 /\ i # Len(t)
    BY ONLY <1>1, <1>2, <1>3, i < q, i \in 1 .. Len(t)
  <2> QED
    BY ONLY <1>3, <2>1, i \in Bounds(t) DEF Bounds
<1>6. q = i
  BY ONLY <1>2, <1>3, <1>4, <1>5, i \in 1 .. Len(t)
<1> QED
  BY <1>6 DEF p, q

\* Walks: from each position to the one g gives, until g stays.
WalkStep(h, g, i) == IF g[i] = i THEN <<i>> ELSE <<i>> \o h[g[i]]
Walk(h, m, g) == h = [i \in 0 .. m |-> WalkStep(h, g, i)]

\* A rank says how far a walk still goes.
Ranked(g, r, m) ==
  /\ m \in Nat
  /\ \A i \in 0 .. m : g[i] \in 0 .. m /\ r[i] \in Nat /\ r[i] <= m
  /\ \A i \in 0 .. m : g[i] # i => r[g[i]] < r[i]

LEMMA WalkExists ==
  ASSUME NEW m, NEW g, NEW r, Ranked(g, r, m)
  PROVE  \E h : Walk(h, m, g)
<1> DEFINE Upto(h, n) == \A i \in 0 .. m : r[i] < n => h[i] = WalkStep(h, g, i)
           T == {n \in Nat : \E h : Upto(h, n)}
<1>1. /\ m \in Nat
      /\ \A i \in 0 .. m : g[i] \in 0 .. m /\ r[i] \in Nat /\ r[i] <= m
      /\ \A i \in 0 .. m : g[i] # i => r[g[i]] < r[i]
  BY DEF Ranked
<1>2. 0 \in T
  <2>1. \A i \in 0 .. m : ~(r[i] < 0)
    BY <1>1
  <2>2. Upto(<<>>, 0)
    BY <2>1
  <2> QED
    BY <2>2
<1>3. ASSUME NEW n \in Nat, n \in T PROVE n + 1 \in T
  <2>1. PICK h : Upto(h, n)
    BY <1>3
  <2> DEFINE k == [i \in 0 .. m |-> IF r[i] < n THEN h[i] ELSE WalkStep(h, g, i)]
  <2>2. \A i \in 0 .. m : k[i] = IF r[i] < n THEN h[i] ELSE WalkStep(h, g, i)
    OBVIOUS
  <2> HIDE DEF k
  <2>3. ASSUME NEW i \in 0 .. m, r[i] < n + 1 PROVE k[i] = WalkStep(k, g, i)
    <3>1. k[i] = WalkStep(h, g, i)
      BY <2>1, <2>2
    <3>2. CASE g[i] = i
      BY <3>1, <3>2 DEF WalkStep
    <3>3. CASE g[i] # i
      <4>1. g[i] \in 0 .. m /\ r[g[i]] < n
        BY <1>1, <2>3, <3>3
      <4>2. k[g[i]] = h[g[i]]
        BY ONLY <2>2, <4>1
      <4> QED
        BY ONLY <3>1, <3>3, <4>2 DEF WalkStep
    <3> QED
      BY <3>2, <3>3
  <2>4. Upto(k, n + 1)
    BY <2>3
  <2> QED
    BY <2>4
<1>4. m + 1 \in T
  <2>1. \A n \in Nat : n \in T
    <3> HIDE DEF T
    <3> QED
      BY <1>2, <1>3, NatSetInduction
  <2> QED
    BY <1>1, <2>1
<1>5. PICK h : Upto(h, m + 1)
  BY <1>4
<1>6. \A i \in 0 .. m : r[i] < m + 1
  BY <1>1
<1>7. \A i \in 0 .. m : h[i] = WalkStep(h, g, i)
  BY <1>5, <1>6
<1> DEFINE w == [i \in 0 .. m |-> h[i]]
<1>8. \A i \in 0 .. m : w[i] = h[i]
  OBVIOUS
<1>9. w = [i \in 0 .. m |-> w[i]]
  OBVIOUS
<1> HIDE DEF w
<1>10. \A i \in 0 .. m : w[i] = WalkStep(w, g, i)
  <2> SUFFICES ASSUME NEW i \in 0 .. m PROVE w[i] = WalkStep(w, g, i)
    OBVIOUS
  <2>1. g[i] \in 0 .. m /\ w[i] = h[i] /\ h[i] = WalkStep(h, g, i)
    BY <1>1, <1>7, <1>8
  <2>2. w[g[i]] = h[g[i]]
    BY <1>8, <2>1
  <2> QED
    BY ONLY <2>1, <2>2 DEF WalkStep
<1>11. w = [i \in 0 .. m |-> WalkStep(w, g, i)]
  BY ONLY <1>9, <1>10
<1>12. Walk(w, m, g)
  BY <1>11 DEF Walk
<1> QED
  BY <1>12

\* A walk stays where g stays.
Closed(S, g, m) == S \subseteq 0 .. m /\ \A i \in S : g[i] \in S

LEMMA WalkStays ==
  ASSUME NEW m, NEW g, NEW r, Ranked(g, r, m), NEW h, Walk(h, m, g), NEW S, Closed(S, g, m)
  PROVE  \A i \in S : h[i] \in Seq(S) /\ Len(h[i]) >= 1
<1> DEFINE Good(i) == h[i] \in Seq(S) /\ Len(h[i]) >= 1
           Bad == {n \in Nat : \E i \in S : r[i] = n /\ ~Good(i)}
<1>1. /\ m \in Nat
      /\ \A i \in 0 .. m : g[i] \in 0 .. m /\ r[i] \in Nat /\ r[i] <= m
      /\ \A i \in 0 .. m : g[i] # i => r[g[i]] < r[i]
  BY DEF Ranked
<1>2. S \subseteq 0 .. m /\ \A i \in S : g[i] \in S
  BY DEF Closed
<1>3. \A i \in 0 .. m : h[i] = WalkStep(h, g, i)
  BY DEF Walk
<1>4. Bad = {}
  <2> SUFFICES ASSUME Bad # {} PROVE FALSE
    OBVIOUS
  <2>1. PICK n \in Bad : \A k \in Bad : n <= k
    <3>1. Bad \in SUBSET Nat
      OBVIOUS
    <3> HIDE DEF Bad
    <3> QED
      BY <3>1, LeastOfSet
  <2>2. PICK i \in S : r[i] = n /\ ~Good(i)
    BY <2>1
  <2>3. i \in 0 .. m /\ h[i] = WalkStep(h, g, i) /\ n \in Nat
    BY <1>2, <1>3, <2>1
  <2>4. <<i>> \in Seq(S) /\ Len(<<i>>) = 1
    BY <2>2
  <2>5. CASE g[i] = i
    <3>1. h[i] = <<i>>
      BY <2>3, <2>5 DEF WalkStep
    <3> QED
      BY <2>2, <2>4, <3>1
  <2>6. CASE g[i] # i
    <3> DEFINE j == g[i]
    <3>1. j \in S /\ r[j] < n /\ r[j] \in Nat
      BY <1>1, <1>2, <2>2, <2>3, <2>6
    <3>2. h[i] = <<i>> \o h[j]
      BY <2>3, <2>6 DEF WalkStep
    <3> HIDE DEF j
    <3>3. ~(n <= r[j])
      BY ONLY <2>3, <3>1
    <3>4. r[j] \notin Bad
      BY <2>1, <3>3
    <3>5. Good(j)
      BY <3>1, <3>4
    <3>6. <<i>> \o h[j] \in Seq(S) /\ Len(<<i>> \o h[j]) >= 1
      <4>1. h[j] \in Seq(S) /\ <<i>> \in Seq(S)
        BY <2>4, <3>5
      <4>2. /\ <<i>> \o h[j] \in Seq(S) /\ Len(<<i>> \o h[j]) = Len(<<i>>) + Len(h[j]) /\ Len(h[j]) \in Nat
        BY ONLY <4>1, ConcatIs
      <4> QED
        BY <2>4, <4>2
    <3> QED
      BY <2>2, <3>2, <3>6
  <2> QED
    BY <2>5, <2>6
<1> QED
  <2> SUFFICES ASSUME NEW i \in S PROVE Good(i)
    OBVIOUS
  <2>1. r[i] \in Nat /\ r[i] \notin Bad
    BY <1>1, <1>2, <1>4
  <2> QED
    BY <2>1

\* ++ walks over starts of characters if it is at one.
Visits(t, h, signed) ==
  /\ \A i \in 0 .. Len(t) : h[i] = ForwardStep(t, h, i, signed) /\ h[i] \in Seq(Nat)
  /\ \A i \in Bounds(t) : h[i] \in Seq(Bounds(t)) /\ Len(h[i]) >= 1

LEMMA ForwardIs ==
  ASSUME NEW t, Strings!WellFormed(t), NEW signed
  PROVE  \E h : Visits(t, h, signed) /\ Strings!Forward(t, signed) = h[0]
<1> DEFINE m == Len(t)
           Stays(i) == Stops(t, i, signed)
           g == [i \in 0 .. m |-> IF Stays(i) THEN i ELSE Succ(t, i)]
           r == [i \in 0 .. m |-> m - i]
<1>1. m \in Nat
  BY WellFormedIs
<1>2. \A i \in 0 .. m : ~Stays(i) => Succ(t, i) \in 0 .. m /\ Succ(t, i) > i /\ Succ(t, i) \in Bounds(t)
  BY <1>1, SuccIs DEF Stops
<1>3. \A i \in 0 .. m : g[i] = (IF Stays(i) THEN i ELSE Succ(t, i)) /\ r[i] = m - i
  OBVIOUS
<1> HIDE DEF g, r, Stays
<1>4. \A i \in 0 .. m : g[i] \in 0 .. m /\ g[i] >= i /\ (g[i] = i <=> Stays(i))
  BY <1>1, <1>2, <1>3
<1> HIDE DEF m
<1>5. Ranked(g, r, m)
  <2>1. ASSUME NEW i \in 0 .. m PROVE g[i] \in 0 .. m /\ r[i] \in Nat /\ r[i] <= m
    BY ONLY <1>1, <1>3, <1>4, i \in 0 .. m
  <2>2. ASSUME NEW i \in 0 .. m, g[i] # i PROVE r[g[i]] < r[i]
    <3>1. g[i] \in 0 .. m /\ g[i] > i
      BY ONLY <1>1, <1>4, <2>2, i \in 0 .. m
    <3>2. r[i] = m - i /\ r[g[i]] = m - g[i]
      BY ONLY <1>3, <3>1, i \in 0 .. m
    <3> QED
      BY ONLY <1>1, <3>1, <3>2, i \in 0 .. m
  <2> QED
    BY ONLY <1>1, <2>1, <2>2 DEF Ranked
<1>6. \A h, i : i \in 0 .. m => WalkStep(h, g, i) = ForwardStep(t, h, i, signed)
  BY <1>3, <1>4 DEF WalkStep, ForwardStep, Stays
<1>7. \A h : Walk(h, m, g) <=> Advances(t, h, signed)
  <2> SUFFICES ASSUME NEW h PROVE Walk(h, m, g) <=> Advances(t, h, signed)
    OBVIOUS
  <2>1. [i \in 0 .. m |-> WalkStep(h, g, i)] = [i \in 0 .. m |-> ForwardStep(t, h, i, signed)]
    BY <1>6
  <2> QED
    BY ONLY <2>1 DEF Walk, Advances, m
<1> DEFINE H == CHOOSE h : Advances(t, h, signed)
<1>8. Advances(t, H, signed)
  BY <1>5, <1>7, WalkExists
<1>9. Strings!Forward(t, signed) = H[0]
  BY DEF Strings!Forward, Advances, ForwardStep, Stops, Succ
<1> HIDE DEF H
<1>10. Walk(H, m, g)
  BY <1>7, <1>8
<1>11. \A i \in 0 .. m : H[i] \in Seq(0 .. m)
  <2>1. Closed(0 .. m, g, m)
    BY <1>4 DEF Closed
  <2> QED
    BY <1>5, <1>10, <2>1, WalkStays
<1>12. \A i \in Bounds(t) : H[i] \in Seq(Bounds(t)) /\ Len(H[i]) >= 1
  <2>1. Bounds(t) \subseteq 0 .. m
    BY DEF Bounds, m
  <2>2. \A i \in Bounds(t) : g[i] \in Bounds(t)
    BY <1>2, <1>3, <2>1
  <2>3. Closed(Bounds(t), g, m)
    BY <2>1, <2>2 DEF Closed
  <2> QED
    BY <1>5, <1>10, <2>3, WalkStays
<1>13. \A i \in 0 .. m : H[i] \in Seq(Nat)
  BY <1>1, <1>11
<1>14. \A i \in 0 .. m : H[i] = ForwardStep(t, H, i, signed)
  BY <1>8 DEF Advances, m
<1> QED
  BY <1>9, <1>12, <1>13, <1>14 DEF Visits, m

\* -- walks to the start.
Revisits(t, h) == \A i \in 0 .. Len(t) : h[i] = BackwardStep(t, h, i) /\ h[i] \in Seq(Nat)

LEMMA BackwardIs ==
  ASSUME NEW t, Strings!WellFormed(t)
  PROVE  \E h : Revisits(t, h) /\ Strings!Backward(t) = h[Len(t)]
<1> DEFINE m == Len(t)
           g == [i \in 0 .. m |-> IF i = 0 THEN i ELSE Prec(t, i)]
           r == [i \in 0 .. m |-> i]
<1>1. m \in Nat
  BY WellFormedIs
<1>2. \A i \in 0 .. m : i # 0 => Prec(t, i) \in 0 .. m /\ Prec(t, i) < i
  BY <1>1, PrecIs
<1>3. \A i \in 0 .. m : g[i] = (IF i = 0 THEN i ELSE Prec(t, i)) /\ r[i] = i
  OBVIOUS
<1> HIDE DEF g, r
<1>4. \A i \in 0 .. m : g[i] \in 0 .. m /\ g[i] <= i /\ (g[i] = i <=> i = 0)
  BY <1>1, <1>2, <1>3
<1> HIDE DEF m
<1>5. Ranked(g, r, m)
  <2>1. ASSUME NEW i \in 0 .. m PROVE g[i] \in 0 .. m /\ r[i] \in Nat /\ r[i] <= m
    BY ONLY <1>1, <1>3, <1>4, i \in 0 .. m
  <2>2. ASSUME NEW i \in 0 .. m, g[i] # i PROVE r[g[i]] < r[i]
    <3>1. g[i] \in 0 .. m /\ g[i] < i
      BY ONLY <1>1, <1>4, <2>2, i \in 0 .. m
    <3>2. r[i] = i /\ r[g[i]] = g[i]
      BY ONLY <1>3, <3>1, i \in 0 .. m
    <3> QED
      BY ONLY <1>1, <3>1, <3>2, i \in 0 .. m
  <2> QED
    BY ONLY <1>1, <2>1, <2>2 DEF Ranked
<1>6. \A h, i : i \in 0 .. m => WalkStep(h, g, i) = BackwardStep(t, h, i)
  BY <1>3, <1>4 DEF WalkStep, BackwardStep
<1>7. \A h : Walk(h, m, g) <=> Retreats(t, h)
  <2> SUFFICES ASSUME NEW h PROVE Walk(h, m, g) <=> Retreats(t, h)
    OBVIOUS
  <2>1. [i \in 0 .. m |-> WalkStep(h, g, i)] = [i \in 0 .. m |-> BackwardStep(t, h, i)]
    BY <1>6
  <2> QED
    BY ONLY <2>1 DEF Walk, Retreats, m
<1> DEFINE H == CHOOSE h : Retreats(t, h)
<1>8. Retreats(t, H)
  BY <1>5, <1>7, WalkExists
<1>9. Strings!Backward(t) = H[Len(t)]
  BY DEF Strings!Backward, Retreats, BackwardStep, Prec
<1> HIDE DEF H
<1>10. Walk(H, m, g)
  BY <1>7, <1>8
<1>11. \A i \in 0 .. m : H[i] \in Seq(0 .. m)
  <2>1. Closed(0 .. m, g, m)
    BY <1>4 DEF Closed
  <2> QED
    BY <1>5, <1>10, <2>1, WalkStays
<1>12. \A i \in 0 .. m : H[i] \in Seq(Nat)
  BY <1>1, <1>11
<1>13. \A i \in 0 .. m : H[i] = BackwardStep(t, H, i)
  BY <1>8 DEF Retreats, m
<1> QED
  BY <1>9, <1>12, <1>13 DEF Revisits, m

\* The first position visited comes last in reverse: moving it from one walk to the other.
Turns(a, q, b) == Strings!Reverse(<<q>> \o a) \o b = Strings!Reverse(a) \o (<<q>> \o b)

LEMMA ReverseTurns ==
  ASSUME NEW a \in Seq(Nat), NEW q \in Nat, NEW b \in Seq(Nat)
  PROVE  Turns(a, q, b)
<1> DEFINE x == <<q>>
           c == x \o a
           d == x \o b
           rc == [i \in 1 .. Len(c) |-> c[(Len(c) - i) + 1]]
           ra == [i \in 1 .. Len(a) |-> a[(Len(a) - i) + 1]]
           l == rc \o b
           r == ra \o d
           n == Len(a)
           k == Len(b)
<1>1. x \in Seq(Nat) /\ Len(x) = 1 /\ x[1] = q /\ n \in Nat /\ k \in Nat
  OBVIOUS
<1> HIDE DEF x
<1>2. /\ c \in Seq(Nat) /\ Len(c) = n + 1 /\ c[1] = q
      /\ \A i \in 1 .. n : c[1 + i] = a[i]
  <2>0. x \in Seq(Nat)
    BY <1>1
  <2>1. /\ c \in Seq(Nat) /\ Len(c) = Len(x) + Len(a)
        /\ \A i \in 1 .. Len(x) : c[i] = x[i]
        /\ \A i \in 1 .. Len(a) : c[Len(x) + i] = a[i]
    BY ONLY <2>0, a \in Seq(Nat), ConcatIs
  <2> HIDE DEF c
  <2> QED
    BY <1>1, <2>1
<1>3. /\ d \in Seq(Nat) /\ Len(d) = k + 1 /\ d[1] = q
      /\ \A i \in 1 .. k : d[1 + i] = b[i]
  <2>0. x \in Seq(Nat)
    BY <1>1
  <2>1. /\ d \in Seq(Nat) /\ Len(d) = Len(x) + Len(b)
        /\ \A i \in 1 .. Len(x) : d[i] = x[i]
        /\ \A i \in 1 .. Len(b) : d[Len(x) + i] = b[i]
    BY ONLY <2>0, b \in Seq(Nat), ConcatIs
  <2> HIDE DEF d
  <2> QED
    BY <1>1, <2>1
<1> HIDE DEF c, d
<1>4. rc \in Seq(Nat) /\ Len(rc) = n + 1 /\ \A i \in 1 .. n + 1 : rc[i] = c[(n + 1 - i) + 1]
  <2>1. \A i \in 1 .. Len(c) : (Len(c) - i) + 1 \in 1 .. Len(c)
    BY <1>1, <1>2
  <2>2. \A i \in 1 .. Len(c) : c[(Len(c) - i) + 1] \in Nat
    BY <1>2, <2>1
  <2> QED
    BY <1>1, <1>2, <2>2
<1>5. ra \in Seq(Nat) /\ Len(ra) = n /\ \A i \in 1 .. n : ra[i] = a[(n - i) + 1]
  <2>1. \A i \in 1 .. Len(a) : (Len(a) - i) + 1 \in 1 .. Len(a)
    BY <1>1
  <2>2. \A i \in 1 .. Len(a) : a[(Len(a) - i) + 1] \in Nat
    BY <2>1
  <2> QED
    BY <1>1, <2>2
<1>6. Strings!Reverse(<<q>> \o a) = rc /\ Strings!Reverse(a) = ra
  BY DEF Strings!Reverse, c, x
<1> HIDE DEF rc, ra
<1>7. /\ l \in Seq(Nat) /\ Len(l) = n + 1 + k
      /\ \A i \in 1 .. n + 1 : l[i] = rc[i]
      /\ \A i \in 1 .. k : l[n + 1 + i] = b[i]
  <2>1. rc \in Seq(Nat)
    BY <1>4
  <2>2. /\ l \in Seq(Nat) /\ Len(l) = Len(rc) + Len(b)
        /\ \A i \in 1 .. Len(rc) : l[i] = rc[i]
        /\ \A i \in 1 .. Len(b) : l[Len(rc) + i] = b[i]
    BY ONLY <2>1, b \in Seq(Nat), ConcatIs
  <2> HIDE DEF l
  <2> QED
    BY <1>4, <2>2
<1>8. /\ r \in Seq(Nat) /\ Len(r) = n + (k + 1)
      /\ \A i \in 1 .. n : r[i] = ra[i]
      /\ \A i \in 1 .. k + 1 : r[n + i] = d[i]
  <2>1. ra \in Seq(Nat) /\ d \in Seq(Nat)
    BY <1>3, <1>5
  <2>2. /\ r \in Seq(Nat) /\ Len(r) = Len(ra) + Len(d)
        /\ \A i \in 1 .. Len(ra) : r[i] = ra[i]
        /\ \A i \in 1 .. Len(d) : r[Len(ra) + i] = d[i]
    BY ONLY <2>1, ConcatIs
  <2> HIDE DEF r
  <2> QED
    BY <1>3, <1>5, <2>2
<1> HIDE DEF l, r, n, k
<1>9. ASSUME NEW i \in 1 .. n + 1 + k PROVE l[i] = r[i]
  <2>1. CASE i \in 1 .. n
    <3> DEFINE j == (n - i) + 1
    <3>1. j \in 1 .. n /\ (n + 1 - i) + 1 = 1 + j /\ i \in 1 .. n + 1
      BY ONLY <1>1, <2>1
    <3>2. r[i] = a[j]
      BY ONLY <1>5, <1>8, <2>1
    <3>3. l[i] = c[(n + 1 - i) + 1]
      BY ONLY <1>4, <1>7, <3>1
    <3> HIDE DEF j
    <3>4. c[1 + j] = a[j]
      BY ONLY <1>2, <3>1
    <3> QED
      BY ONLY <3>1, <3>2, <3>3, <3>4
  <2>2. CASE i = n + 1
    <3>1. n + 1 \in 1 .. n + 1 /\ (n + 1 - (n + 1)) + 1 = 1 /\ 1 \in 1 .. k + 1
      BY ONLY <1>1
    <3>2. l[n + 1] = c[1]
      BY ONLY <1>4, <1>7, <3>1
    <3>3. r[n + 1] = d[1]
      BY ONLY <1>8, <3>1
    <3> QED
      BY ONLY <1>2, <1>3, <2>2, <3>2, <3>3
  <2>3. CASE i > n + 1
    <3> DEFINE j == i - (n + 1)
    <3>1. j \in 1 .. k /\ n + 1 + j = i /\ 1 + j \in 1 .. k + 1 /\ n + (1 + j) = i
      BY ONLY <1>1, <2>3, i \in 1 .. n + 1 + k
    <3> HIDE DEF j
    <3>2. l[n + 1 + j] = b[j]
      BY ONLY <1>7, <3>1
    <3>3. r[n + (1 + j)] = d[1 + j]
      BY ONLY <1>8, <3>1
    <3>4. d[1 + j] = b[j]
      BY ONLY <1>3, <3>1
    <3> QED
      BY ONLY <3>1, <3>2, <3>3, <3>4
  <2> QED
    BY ONLY <1>1, <2>1, <2>2, <2>3, i \in 1 .. n + 1 + k
<1>10. l = r
  <2>1. l \in Seq(Nat) /\ r \in Seq(Nat) /\ Len(l) = Len(r) /\ Len(l) = n + 1 + k
    BY ONLY <1>1, <1>7, <1>8
  <2>2. \A i \in 1 .. Len(l) : l[i] = r[i]
    BY ONLY <1>9, <2>1
  <2> QED
    BY ONLY <2>1, <2>2, SeqEqual
<1> QED
  BY <1>6, <1>10 DEF Turns, l, r, d, x

\* At every start of a character, what -- visits from it and what ++ visits behind it
\* are together what ++ visits from the start.
LEMMA WalksMeet ==
  ASSUME NEW t, Strings!WellFormed(t), NEW f, Visits(t, f, FALSE), NEW g, Revisits(t, g)
  PROVE  f[0] = Strings!Reverse(g[Len(t)])
<1> DEFINE m == Len(t)
           Behind(q) == IF q = m THEN <<>> ELSE f[Succ(t, q)]
           Meet(q) == f[0] = Strings!Reverse(g[q]) \o Behind(q)
           Bad == {q \in Nat : q \in Bounds(t) /\ ~Meet(q)}
<1>1. m \in Nat /\ Bounds(t) \subseteq 0 .. m /\ m \in Bounds(t)
  BY WellFormedIs DEF Bounds
<1>2. \A i \in 0 .. m : f[i] = ForwardStep(t, f, i, FALSE) /\ f[i] \in Seq(Nat)
  BY DEF Visits
<1>3. \A i \in 0 .. m : g[i] = BackwardStep(t, g, i) /\ g[i] \in Seq(Nat)
  BY DEF Revisits
<1>4. ASSUME NEW q \in Bounds(t) PROVE f[q] = <<q>> \o Behind(q) /\ Behind(q) \in Seq(Nat)
  <2>1. q \in 0 .. m /\ f[q] = ForwardStep(t, f, q, FALSE)
    BY <1>1, <1>2
  <2>2. CASE q = m
    <3>1. f[q] = <<q>>
      BY <2>1, <2>2 DEF ForwardStep, Stops
    <3>2. <<q>> \in Seq(Nat)
      BY <2>1
    <3>3. <<q>> \o <<>> = <<q>>
      BY <3>2, EmptyConcat
    <3> QED
      BY <2>2, <3>1, <3>3
  <2>3. CASE q # m
    <3>1. Strings!IsLeading(t[q + 1])
      BY <2>3 DEF Bounds
    <3>2. Succ(t, q) \in 0 .. m
      BY <1>1, <2>1, <2>3, <3>1, SuccIs
    <3>3. f[Succ(t, q)] \in Seq(Nat)
      BY <1>2, <3>2
    <3>4. f[q] = <<q>> \o f[Succ(t, q)]
      BY <2>1, <2>3, <3>1 DEF ForwardStep, Stops, Strings!IsInTable
    <3> QED
      BY <2>3, <3>3, <3>4
  <2> QED
    BY <2>2, <2>3
<1>5. 0 \in Bounds(t)
  <2>1. m # 0 => Strings!IsLeading(t[1])
    BY WellFormedIs DEF Characters
  <2> QED
    BY <1>1, <2>1 DEF Bounds
<1> HIDE DEF Behind
<1>6. Bad = {}
  <2> SUFFICES ASSUME Bad # {} PROVE FALSE
    OBVIOUS
  <2>1. PICK q \in Bad : \A k \in Bad : q <= k
    <3>1. Bad \in SUBSET Nat
      OBVIOUS
    <3> HIDE DEF Bad
    <3> QED
      BY <3>1, LeastOfSet
  <2>2. q \in Nat /\ q \in Bounds(t) /\ ~Meet(q) /\ q \in 0 .. m
    BY <1>1, <2>1
  <2>3. f[q] = <<q>> \o Behind(q) /\ Behind(q) \in Seq(Nat)
    BY <1>4, <2>2
  <2>4. CASE q = 0
    <3>1. g[0] = <<0>>
      <4>1. g[0] = BackwardStep(t, g, 0)
        BY <1>3, <2>2, <2>4
      <4> QED
        BY ONLY <4>1 DEF BackwardStep
    <3>2. Strings!Reverse(<<0>>) = <<0>>
      <4>1. Len(<<0>>) = 1 /\ <<0>>[1] = 0
        OBVIOUS
      <4> QED
        BY <4>1 DEF Strings!Reverse
    <3> QED
      BY <2>2, <2>3, <2>4, <3>1, <3>2
  <2>5. CASE q # 0
    <3> DEFINE p == Prec(t, q)
    <3>1. q \in 1 .. m
      BY <2>2, <2>5
    <3>2. p \in Nat /\ p < q /\ p \in Bounds(t) /\ p # m
      BY <3>1, PrecIs
    <3>3. Succ(t, p) = q
      BY <2>2, <3>1, SuccOfPrec
    <3>4. g[q] = <<q>> \o g[p]
      BY <1>3, <2>2, <2>5 DEF BackwardStep
    <3> HIDE DEF p
    <3>5. Meet(p)
      <4>1. ~(q <= p)
        BY <2>2, <3>2
      <4>2. p \notin Bad
        BY <2>1, <4>1
      <4> QED
        BY <3>2, <4>2
    <3>6. Behind(p) = f[q]
      BY <3>2, <3>3 DEF Behind
    <3>7. f[0] = Strings!Reverse(g[p]) \o (<<q>> \o Behind(q))
      BY <2>3, <3>5, <3>6
    <3>8. g[p] \in Seq(Nat)
      BY <1>1, <1>3, <3>2
    <3>9. Turns(g[p], q, Behind(q))
      BY <2>2, <2>3, <3>8, ReverseTurns
    <3>10. f[0] = Strings!Reverse(<<q>> \o g[p]) \o Behind(q)
      BY ONLY <3>7, <3>9 DEF Turns
    <3> QED
      BY <2>2, <3>4, <3>10
  <2> QED
    BY <2>4, <2>5
<1>7. Meet(m)
  BY <1>1, <1>6
<1>8. Behind(m) = <<>>
  BY DEF Behind
<1>9. Strings!Reverse(g[m]) \in Seq(Nat)
  <2> DEFINE a == g[m]
  <2>1. a \in Seq(Nat) /\ Len(a) \in Nat
    BY <1>1, <1>3
  <2> HIDE DEF a
  <2>2. \A i \in 1 .. Len(a) : (Len(a) - i) + 1 \in 1 .. Len(a)
    BY <2>1
  <2>3. \A i \in 1 .. Len(a) : a[(Len(a) - i) + 1] \in Nat
    BY <2>1, <2>2
  <2>4. Strings!Reverse(a) \in Seq(Nat)
    BY <2>1, <2>3 DEF Strings!Reverse
  <2> QED
    BY <2>4 DEF a
<1>10. Strings!Reverse(g[m]) \o <<>> = Strings!Reverse(g[m])
  BY <1>9, EmptyConcat
<1> QED
  BY <1>7, <1>8, <1>10

\* A walk that may stop early has a part of the other, up to where it stopped.
StartsAs(a, b) == Len(a) <= Len(b) /\ \A i \in 1 .. Len(a) : a[i] = b[i]
Reaches(t, a, b) ==
  /\ a \in Seq(Nat) /\ b \in Seq(Nat) /\ Len(a) >= 1 /\ StartsAs(a, b)
  /\ a # b => t[a[Len(a)] + 1] # "A"

LEMMA ReachesOn ==
  ASSUME NEW t, NEW a, NEW b, Reaches(t, a, b), NEW q \in Nat
  PROVE  Reaches(t, <<q>> \o a, <<q>> \o b)
<1> DEFINE x == <<q>>
           c == x \o a
           d == x \o b
<1>1. x \in Seq(Nat) /\ Len(x) = 1 /\ x[1] = q
  OBVIOUS
<1>2. a \in Seq(Nat) /\ b \in Seq(Nat) /\ Len(a) \in Nat /\ Len(b) \in Nat /\ Len(a) >= 1
  BY DEF Reaches
<1>0. x \in Seq(Nat)
  BY <1>1
<1>12. a \in Seq(Nat)
  BY <1>2
<1>13. b \in Seq(Nat)
  BY <1>2
<1> HIDE DEF x
<1>3. /\ c \in Seq(Nat) /\ Len(c) = Len(x) + Len(a)
      /\ \A i \in 1 .. Len(x) : c[i] = x[i]
      /\ \A i \in 1 .. Len(a) : c[Len(x) + i] = a[i]
  BY ONLY <1>0, <1>12, ConcatIs
<1>4. /\ d \in Seq(Nat) /\ Len(d) = Len(x) + Len(b)
      /\ \A i \in 1 .. Len(x) : d[i] = x[i]
      /\ \A i \in 1 .. Len(b) : d[Len(x) + i] = b[i]
  BY ONLY <1>0, <1>13, ConcatIs
<1>5. a # b \/ c = d
  OBVIOUS
<1> HIDE DEF c, d
<1>6. Len(a) <= Len(b) /\ \A i \in 1 .. Len(a) : a[i] = b[i]
  BY DEF Reaches, StartsAs
<1>7. Len(c) = 1 + Len(a) /\ Len(d) = 1 + Len(b) /\ Len(c) <= Len(d) /\ Len(c) >= 1
  BY <1>1, <1>2, <1>3, <1>4, <1>6
<1>8. ASSUME NEW i \in 1 .. Len(c) PROVE c[i] = d[i]
  <2>1. CASE i = 1
    BY <1>1, <1>3, <1>4, <2>1
  <2>2. CASE i # 1
    <3>1. PICK k \in 1 .. Len(a) : i = 1 + k
      <4>1. i - 1 \in 1 .. Len(a) /\ i = 1 + (i - 1)
        BY ONLY <1>2, <1>7, <2>2, i \in 1 .. Len(c)
      <4> QED
        BY ONLY <4>1
    <3>2. k \in 1 .. Len(b)
      BY <1>2, <1>6
    <3> QED
      BY <1>1, <1>3, <1>4, <1>6, <3>1, <3>2
  <2> QED
    BY <2>1, <2>2
<1>9. c[Len(c)] = a[Len(a)]
  <2>1. Len(a) \in 1 .. Len(a)
    BY <1>2
  <2> QED
    BY <1>1, <1>3, <1>7, <2>1
<1>10. c # d => t[c[Len(c)] + 1] # "A"
  BY <1>5, <1>9 DEF Reaches
<1>11. Reaches(t, c, d)
  BY <1>3, <1>4, <1>7, <1>8, <1>10 DEF Reaches, StartsAs
<1> QED
  BY <1>11 DEF c, d, x

\* Where char is signed ++ goes as where it is not, until a character is not ASCII.
LEMMA StopsEarly ==
  ASSUME NEW t, Strings!WellFormed(t), NEW f, Visits(t, f, TRUE), NEW g, Visits(t, g, FALSE)
  PROVE  Reaches(t, f[0], g[0])
<1> DEFINE m == Len(t)
           Good(q) == Reaches(t, f[q], g[q])
           Bad == {n \in Nat : \E q \in Bounds(t) : n = m - q /\ ~Good(q)}
<1>1. m \in Nat /\ Bounds(t) \subseteq 0 .. m
  BY WellFormedIs DEF Bounds
<1>2. \A i \in 0 .. m : f[i] = ForwardStep(t, f, i, TRUE) /\ f[i] \in Seq(Nat)
  BY DEF Visits
<1>3. \A i \in 0 .. m : g[i] = ForwardStep(t, g, i, FALSE) /\ g[i] \in Seq(Nat)
  BY DEF Visits
<1>4. \A i : Stops(t, i, FALSE) <=> i = m \/ ~Strings!IsLeading(t[i + 1])
  BY DEF Stops, Strings!IsInTable
<1>5. \A i : Stops(t, i, TRUE) <=> i = m \/ ~Strings!IsLeading(t[i + 1]) \/ t[i + 1] # "A"
  BY DEF Stops, Strings!IsInTable
<1>6. Bad = {}
  <2> SUFFICES ASSUME Bad # {} PROVE FALSE
    OBVIOUS
  <2>1. PICK n \in Bad : \A k \in Bad : n <= k
    <3>1. Bad \in SUBSET Nat
      OBVIOUS
    <3> HIDE DEF Bad
    <3> QED
      BY <3>1, LeastOfSet
  <2>2. PICK q \in Bounds(t) : n = m - q /\ ~Good(q)
    BY <2>1
  <2>3. q \in 0 .. m /\ q \in Nat /\ f[q] = ForwardStep(t, f, q, TRUE)
        /\ g[q] = ForwardStep(t, g, q, FALSE)
    <3>1. q \in 0 .. m
      BY <1>1, <2>2
    <3>2. q \in Nat
      BY <1>1, <3>1
    <3> HIDE DEF m
    <3> QED
      BY ONLY <1>2, <1>3, <3>1, <3>2
  <2> DEFINE x == <<q>>
             s == Succ(t, q)
  <2>4. x \in Seq(Nat) /\ Len(x) = 1 /\ x[1] = q
    BY <2>3
  <2>5. CASE q = m
    <3>1. f[q] = x /\ g[q] = x
      BY <1>4, <1>5, <2>3, <2>5 DEF ForwardStep
    <3> HIDE DEF x
    <3>2. Reaches(t, x, x)
      BY <2>4 DEF Reaches, StartsAs
    <3> QED
      BY <2>2, <3>1, <3>2
  <2>6. CASE q # m
    <3>1. Strings!IsLeading(t[q + 1])
      BY <2>6 DEF Bounds
    <3>2. s \in 0 .. m /\ s > q /\ s \in Bounds(t)
      BY <1>1, <2>3, <2>6, <3>1, SuccIs
    <3>3. g[q] = x \o g[s]
      BY <1>4, <2>3, <2>6, <3>1 DEF ForwardStep
    <3>4. CASE t[q + 1] = "A"
      <4>1. f[q] = x \o f[s]
        BY <1>5, <2>3, <2>6, <3>1, <3>4 DEF ForwardStep
      <4>2. Good(s)
        <5> HIDE DEF s, Good
        <5>1. m - s \in Nat /\ ~(n <= m - s)
          BY ONLY <1>1, <2>2, <2>3, <3>2
        <5>2. m - s \notin Bad
          BY <2>1, <5>1
        <5> QED
          BY <3>2, <5>1, <5>2
      <4> HIDE DEF s
      <4>3. Reaches(t, <<q>> \o f[s], <<q>> \o g[s])
        BY <2>3, <4>2, ReachesOn
      <4> QED
        BY <2>2, <3>3, <4>1, <4>3
    <3>5. CASE t[q + 1] # "A"
      <4>1. f[q] = x
        BY <1>5, <2>3, <3>5 DEF ForwardStep
      <4> DEFINE d == x \o g[s]
      <4> HIDE DEF s, x
      <4>5. g[s] \in Seq(Nat)
        BY ONLY <1>3, <3>2
      <4>2. g[s] \in Seq(Nat) /\ Len(g[s]) \in Nat
        BY <4>5
      <4>6. x \in Seq(Nat)
        BY <2>4
      <4>3. d \in Seq(Nat) /\ Len(d) = Len(x) + Len(g[s]) /\ \A i \in 1 .. Len(x) : d[i] = x[i]
        BY ONLY <4>5, <4>6, ConcatIs
      <4> HIDE DEF d
      <4>4. Reaches(t, x, d)
        BY <2>4, <3>5, <4>2, <4>3 DEF Reaches, StartsAs
      <4> QED
        BY <2>2, <3>3, <4>1, <4>4 DEF d
    <3> QED
      BY <3>4, <3>5
  <2> QED
    BY <2>5, <2>6
<1>7. 0 \in Bounds(t)
  <2>1. m # 0 => Strings!IsLeading(t[1])
    BY WellFormedIs DEF Characters
  <2> QED
    BY <1>1, <2>1 DEF Bounds
<1>8. m - 0 \in Nat
  BY <1>1
<1> QED
  BY <1>6, <1>7, <1>8

\* The two lists of positions visited, from the start and from the end.
Agree(t, there, back, signed) ==
  /\ Strings!IsPrefix(there, back)
  /\ there # back => signed /\ t[Strings!Last(there) + 1] # "A"

LEMMA WalksAgree ==
  ASSUME NEW t, Strings!WellFormed(t), NEW signed \in BOOLEAN
  PROVE  Agree(t, Strings!Forward(t, signed), Strings!Reverse(Strings!Backward(t)), signed)
<1>1. PICK g : Visits(t, g, FALSE) /\ Strings!Forward(t, FALSE) = g[0]
  BY ForwardIs
<1>2. PICK b : Revisits(t, b) /\ Strings!Backward(t) = b[Len(t)]
  BY BackwardIs
<1>3. g[0] = Strings!Reverse(Strings!Backward(t))
  BY <1>1, <1>2, WalksMeet
<1> DEFINE back == Strings!Reverse(Strings!Backward(t))
           there == Strings!Forward(t, signed)
<1>4. Reaches(t, there, back)
  <2>1. CASE signed
    <3>1. PICK f : Visits(t, f, TRUE) /\ Strings!Forward(t, TRUE) = f[0]
      BY ForwardIs
    <3> QED
      BY <1>1, <1>3, <2>1, <3>1, StopsEarly
  <2>2. CASE ~signed
    <3>1. there = back /\ there = g[0]
      BY <1>1, <1>3, <2>2
    <3>2. g[0] \in Seq(Nat) /\ Len(g[0]) >= 1
      <4>1. 0 \in Bounds(t) /\ 0 \in 0 .. Len(t)
        <5>1. Len(t) \in Nat /\ (Len(t) # 0 => Strings!IsLeading(t[1]))
          BY WellFormedIs DEF Characters
        <5> QED
          BY <5>1 DEF Bounds
      <4> QED
        BY <1>1, <4>1 DEF Visits
    <3> HIDE DEF there, back
    <3>3. Len(there) \in Nat
      BY <3>1, <3>2
    <3> QED
      BY <3>1, <3>2, <3>3 DEF Reaches, StartsAs
  <2> QED
    BY <2>1, <2>2
<1>5. there # back => signed
  BY <1>1, <1>3
<1> HIDE DEF there, back
<1>6. there \in Seq(Nat) /\ back \in Seq(Nat) /\ Len(there) \in Nat /\ Len(back) \in Nat
      /\ Len(there) <= Len(back) /\ \A i \in 1 .. Len(there) : there[i] = back[i]
  BY <1>4 DEF Reaches, StartsAs
<1>7. SubSeq(there, 1, Len(there)) = SubSeq(back, 1, Len(there))
  <2> DEFINE a == SubSeq(there, 1, Len(there))
             c == SubSeq(back, 1, Len(there))
  <2>1. /\ a \in Seq(Nat) /\ Len(a) = Len(there) /\ \A i \in 1 .. Len(there) : a[i] = there[i]
    BY <1>6
  <2>2. /\ c \in Seq(Nat) /\ Len(c) = Len(there) /\ \A i \in 1 .. Len(there) : c[i] = back[i]
    BY <1>6
  <2> HIDE DEF a, c
  <2>3. Len(a) = Len(c) /\ \A i \in 1 .. Len(a) : a[i] = c[i]
    BY <1>6, <2>1, <2>2
  <2>4. a = c
    BY ONLY <2>1, <2>2, <2>3, SeqEqual
  <2> QED
    BY <2>4 DEF a, c
<1>8. Strings!IsPrefix(there, back)
  BY <1>6, <1>7 DEF Strings!IsPrefix
<1>9. there # back => t[Strings!Last(there) + 1] # "A"
  BY <1>4 DEF Reaches, Strings!Last
<1>10. Agree(t, there, back, signed)
  BY <1>5, <1>8, <1>9 DEF Agree
<1> QED
  BY <1>10 DEF there, back

\* Iteration visits the same characters both ways, and a character's position is a start.
LEMMA StringsIterate == StringInv => Strings!IteratesBothWays
<1> SUFFICES ASSUME StringInv, NEW x \in Strings!Names, NEW signed \in BOOLEAN, Strings!Said(x)
             PROVE  LET t == text[x] IN
                    /\ Agree(t, Strings!Forward(t, signed), Strings!Reverse(Strings!Backward(t)), signed)
                    /\ \A n \in 0 .. Len(t) : LET i == Strings!ByteIdx(t, n, signed) IN
                         i = Len(t) \/ Strings!IsLeading(t[i + 1])
  BY DEF Strings!IteratesBothWays, Agree
<1> DEFINE t == text[x]
           F == Strings!Forward(t, signed)
<1>1. Strings!WellFormed(t)
  <2>1. ~Spoilt(t)
    BY DEF Strings!Said, Spoilt, Strings!Junk
  <2> QED
    BY <2>1, StringIs, UnsaidIs DEF Tells
<1> HIDE DEF t
<1>2. PICK f : Visits(t, f, signed) /\ F = f[0]
  BY <1>1, ForwardIs
<1>4. Agree(t, F, Strings!Reverse(Strings!Backward(t)), signed)
  BY <1>1, WalksAgree
<1>5. 0 \in Bounds(t) /\ Len(t) \in Nat
  <2>1. Len(t) \in Nat /\ (Len(t) # 0 => Strings!IsLeading(t[1]))
    BY <1>1, WellFormedIs DEF Characters
  <2> QED
    BY <2>1 DEF Bounds
<1>6. F \in Seq(Bounds(t)) /\ Len(F) >= 1
  BY <1>2, <1>5 DEF Visits
<1>7. ASSUME NEW n \in 0 .. Len(t)
      PROVE  LET i == Strings!ByteIdx(t, n, signed) IN i = Len(t) \/ Strings!IsLeading(t[i + 1])
  <2> DEFINE k == IF n < Len(F) THEN n + 1 ELSE Len(F)
             i == F[k]
  <2> HIDE DEF F
  <2>1. n \in Nat /\ Len(F) \in Nat
    BY <1>5, <1>6
  <2>2. k \in 1 .. Len(F)
    BY <1>6, <2>1
  <2> HIDE DEF k
  <2>3. i \in Bounds(t)
    BY <1>6, <2>2
  <2>4. Strings!ByteIdx(t, n, signed) = i
    BY DEF Strings!ByteIdx, k, F
  <2> QED
    BY <2>3, <2>4 DEF Bounds
<1> QED
  BY <1>4, <1>7 DEF t

\* A string holds its text, inside its block and with a terminator, whatever is done to it
\* and whichever string is given to it, and is iterated the same both ways: forwards as
\* far as that is defined, to the end where char is unsigned, and where it is signed to
\* the first character that is not ASCII (utf8_string_t; utf8_string.hpp:1192).
THEOREM StringTexts == Spec => []StringsAgree
<1> DEFINE Inv == kind = "string" => StringInv
<1>1. Init => Inv
  BY Begins, StringStarts
<1>2. Inv /\ [Next]_vars => Inv'
  BY Steps, StringsStep
<1>3. Inv => StringsAgree
  BY StringsHold, StringsIterate DEF StringsAgree, Strings!Agrees
<1> QED
  BY <1>1, <1>2, <1>3, PTL DEF Spec

=============================================================================
