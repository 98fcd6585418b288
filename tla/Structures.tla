----------------------------- MODULE Structures -----------------------------
(***************************************************************************)
(* The data structures that share nothing with each other, side by side:   *)
(* a behaviour is of one of them, kind says which.  The variables of the   *)
(* others are Unused throughout.                                           *)
(***************************************************************************)
EXTENDS Naturals, Sequences, FiniteSets

CONSTANTS
    Keys, Payloads, ChainLength, SlotCounts, BucketSizes,   \* HashTable
    Texts, Quantum, MaxSize,                                \* Utf8String
    Threads, BlockCount, WordSize, Lengths, MaxPages, Attempts, MaxHeld,    \* Arena
    Base, Room, FormatRoom, Styles, Colors, LogTexts,                   \* LogRecord
    Functors, BufferSize, QueuedSize,                       \* FunctionObject
    Owners, Blocks, NoBlock, MaxOwed,                       \* SharedMemory
    Paths, Callbacks, Capacity, MaxInfos, MaxAsked, MaxChanges      \* DirectoryWatch

VARIABLES kind, table, contents, strings, text,
          page, pages, job, held, flaws, stream, logged,
          fns, live, wanted, room, data, refs, owed, broken,
          watchers, infos, handles, asked, told, changed, crowd, troubles

Hash == INSTANCE HashTable
Strings == INSTANCE Utf8String
Pages == INSTANCE Arena
Log == INSTANCE LogRecord
Fns == INSTANCE FunctionObject
Shared == INSTANCE SharedMemory
Watch == INSTANCE DirectoryWatch

ASSUME ArenaAssumption == BlockCount \in Nat /\ Lengths \subseteq Nat

(* Nothing of what is not a block is one.                                  *)
ASSUME SharedAssumption ==
    /\ IsFiniteSet(Owners)
    /\ NoBlock \notin Blocks /\ Shared!Dead \notin Blocks /\ NoBlock # Shared!Dead

(* A chain has elements.                                                   *)
ASSUME HashAssumption ==
    /\ ChainLength \in Nat \ {0}
    /\ SlotCounts \subseteq Nat \ {0} /\ BucketSizes \subseteq Nat

(* A block has room for a terminator, and texts are of whole characters.   *)
ASSUME StringAssumption ==
    Quantum \in Nat \ {0} /\ \A t \in Texts : Strings!WellFormed(t)

(* Two bytes say the size of every text that fits into the buffer.         *)
ASSUME LogAssumption ==
    /\ Base \in Nat \ {0} /\ Room \in Nat \ {0} /\ Room <= Base * Base
    /\ FormatRoom \in Nat /\ Styles \subseteq Nat /\ Colors \subseteq Nat /\ LogTexts \subseteq Seq(Nat)

(* A functor has a size, and the smaller buffer is the queued function's.   *)
ASSUME FunctionAssumption ==
    /\ Functors \subseteq Nat \ {0}
    /\ BufferSize \in Nat /\ QueuedSize \in Nat /\ QueuedSize <= BufferSize

ASSUME WatchAssumption == Capacity \in Nat /\ MaxChanges \in Nat

Unused == "unused"

hash == <<table, contents>>
string == <<strings, text>>
arena == <<page, pages, job, held, flaws>>
record == <<stream, logged>>
function == <<fns, live, wanted, room>>
shared == <<data, refs, owed, broken>>
watch == <<watchers, infos, handles, asked, told, changed, crowd, troubles>>

vars == <<kind, hash, string, arena, record, function, shared, watch>>

NoHash == table = Unused /\ contents = Unused
NoString == strings = Unused /\ text = Unused
NoArena == page = Unused /\ pages = Unused /\ job = Unused /\ held = Unused /\ flaws = Unused
NoRecord == stream = Unused /\ logged = Unused
NoFunction == fns = Unused /\ live = Unused /\ wanted = Unused /\ room = Unused
NoShared == data = Unused /\ refs = Unused /\ owed = Unused /\ broken = Unused
NoWatch ==
    /\ watchers = Unused /\ infos = Unused /\ handles = Unused /\ asked = Unused
    /\ told = Unused /\ changed = Unused /\ crowd = Unused /\ troubles = Unused

OthersUnused ==
    /\ kind # "hash" => NoHash
    /\ kind # "string" => NoString
    /\ kind # "arena" => NoArena
    /\ kind # "record" => NoRecord
    /\ kind # "function" => NoFunction
    /\ kind # "shared" => NoShared
    /\ kind # "watch" => NoWatch

Init ==
    /\ \/ kind = "hash" /\ Hash!Init
       \/ kind = "string" /\ Strings!Init
       \/ kind = "arena" /\ Pages!Init
       \/ kind = "record" /\ Log!Init
       \/ kind = "function" /\ Fns!Init
       \/ kind = "shared" /\ Shared!Init
       \/ kind = "watch" /\ Watch!Init
    /\ OthersUnused

Next ==
    \/ kind = "hash" /\ Hash!Next
       /\ UNCHANGED <<kind, string, arena, record, function, shared, watch>>
    \/ kind = "string" /\ Strings!Next
       /\ UNCHANGED <<kind, hash, arena, record, function, shared, watch>>
    \/ kind = "arena" /\ Pages!Next
       /\ UNCHANGED <<kind, hash, string, record, function, shared, watch>>
    \/ kind = "record" /\ Log!Next
       /\ UNCHANGED <<kind, hash, string, arena, function, shared, watch>>
    \/ kind = "function" /\ Fns!Next
       /\ UNCHANGED <<kind, hash, string, arena, record, shared, watch>>
    \/ kind = "shared" /\ Shared!Next
       /\ UNCHANGED <<kind, hash, string, arena, record, function, watch>>
    \/ kind = "watch" /\ Watch!Next
       /\ UNCHANGED <<kind, hash, string, arena, record, function, shared>>

Spec == Init /\ [][Next]_vars

-----------------------------------------------------------------------------
(* Each property of a structure, in the behaviours that are of it.         *)

(* A key is in its bucket once, with the payload last accepted for it.     *)
HashAgrees == kind = "hash" => Hash!Agrees

(* Strings keep their text, inside their block, and are read both ways as  *)
(* far as reading them forwards is defined.                                *)
StringsAgree == kind = "string" => Strings!Agrees

(* Allocations that neither cross a word nor are torn are apart.           *)
MarksFollowAllocations == kind = "arena" => Pages!MarksFollowAllocations

(* A log record that fits, and none of whose texts overran the buffer it   *)
(* was printed in, is decoded as it was logged.                            *)
SaysWhatWasLogged == kind = "record" => Log!SaysWhatWasLogged

(* A function holds the functor it was last given, alive and in its room.  *)
FunctionsAgree == kind = "function" => Fns!Agrees

(* A block that no copy assignment took or left is released with its last  *)
(* owner.                                                                  *)
CountsOwners == kind = "shared" => Shared!CountsOwners

(* Callbacks are told of the changes in the directory they asked for.      *)
WatchesAgree == kind = "watch" => Watch!WatchesAgree

=============================================================================
