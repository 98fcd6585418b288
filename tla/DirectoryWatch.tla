--------------------------- MODULE DirectoryWatch ---------------------------
(***************************************************************************)
(* The directory watching of runtime_t (source/rose/runtime.cpp).          *)
(*                                                                         *)
(* Everything here runs in the turns of one token: registrations, the wait *)
(* in which the system calls the completion routine, and the pass that     *)
(* calls the callbacks.  The system is modelled from how the code uses it: *)
(* it collects the changes of a directory until its read is completed with *)
(* all of them, or with none when they were too many.                      *)
(*                                                                         *)
(* Each change is of another file, which its number names.  The records of *)
(* a buffer are taken to be of one length, as those of names of equal      *)
(* length are.                                                             *)
(***************************************************************************)
EXTENDS Naturals, FiniteSets, Sequences, SequencesExt

CONSTANTS
    Paths,
    Callbacks,
    Capacity,       \* elements of a vector before it first grows (8)
    MaxInfos,       \* bound: directories opened, or tried
    MaxAsked,       \* bound: callbacks for one path
    MaxChanges      \* bound: files that change

VARIABLES
    watchers,       \* dir_watchers_: path -> index of an info
    infos,          \* dir_infos_, with the changes their reads will complete with
    handles,        \* dir_handles_.size()
    asked,          \* path -> the callbacks registered for it
    told,           \* the calls made: <<callback, path, file>>
    changed,        \* the changes made: <<path, file>>
    crowd,          \* those whose read completed with several, or with none
    troubles        \* what failed or went wrong

vars == <<watchers, infos, handles, asked, told, changed, crowd, troubles>>

NoRead == <<0>>
NoName == 0             \* the name read from a buffer of zeros
Nowhere == 0            \* -1; indices count from 1 here

Init ==
    /\ watchers = [p \in {} |-> 0]
    /\ infos = <<>>
    /\ handles = 0
    /\ asked = [p \in Paths |-> <<>>]
    /\ told = {} /\ changed = {} /\ crowd = {}
    /\ troubles = {}

(* The process has aborted, loops, or writes to memory it does not own.    *)
Lost == troubles \cap {"asserted", "loops", "adrift"} # {}

(* A path that has an index already: one more callback where it points.    *)
RegisterAgain(p, c) ==
    LET i == watchers[p]
    IN  /\ p \in DOMAIN watchers
        /\ IF i = Nowhere
           THEN troubles' = troubles \cup {"asserted"} /\ UNCHANGED infos
           ELSE infos' = [infos EXCEPT ![i].callbacks = Append(@, c)] /\ UNCHANGED troubles
        /\ asked' = [asked EXCEPT ![p] = Append(@, c)]
        /\ UNCHANGED <<watchers, handles>>

(* The last of n handles: meant, and used, as the index of the new info.   *)
InfoIndexNext(n) == n + 1    \* mutant: of the one after it
InfoIndex(n) == n

(* A new path: the directory is opened and read, either of which can fail; *)
(* the info is there by then.  Growing the infos moves those whose reads   *)
(* are outstanding, and the system keeps their old addresses.              *)
RegisterNew(p, c) ==
    LET info == [path |-> p, callbacks |-> <<>>, read |-> NoRead, pending |-> FALSE, files |-> {},
                 deaf |-> FALSE]
        grown == troubles \cup IF Len(infos) >= Capacity /\ handles > 0 THEN {"adrift"} ELSE {}
    IN  /\ p \notin DOMAIN watchers
        /\ \/ /\ infos' = Append(infos, info)
              /\ troubles' = grown \cup {"not opened"}
              /\ UNCHANGED <<watchers, handles, asked>>
           \/ \E read \in {NoRead, <<>>} :
                /\ infos' = Append(infos, [info EXCEPT !.callbacks = <<c>>, !.read = read])
                /\ handles' = IF read = NoRead THEN handles ELSE handles + 1
                /\ troubles' = grown \cup IF read = NoRead THEN {"not read"} ELSE {}
                /\ watchers' = [q \in DOMAIN watchers \cup {p} |->
                                   IF q = p THEN InfoIndex(handles') ELSE watchers[q]]
                /\ asked' = [asked EXCEPT ![p] = Append(@, c)]

Register(p, c) ==
    /\ Len(infos) < MaxInfos /\ Len(asked[p]) < MaxAsked
    /\ RegisterAgain(p, c) \/ RegisterNew(p, c)
    /\ UNCHANGED <<told, changed, crowd>>

Change(i) ==
    LET f == Cardinality(changed) + 1
    IN  /\ infos[i].read # NoRead /\ ~infos[i].deaf /\ f <= MaxChanges
        /\ infos' = [infos EXCEPT ![i].read = Append(@, f)]
        /\ changed' = changed \cup {<<infos[i].path, f>>}
    /\ UNCHANGED <<watchers, handles, asked, told, crowd, troubles>>

(* Which of n records the completion routine comes by.  It starts with the *)
(* second, and counts what a record says of the next from the start of the *)
(* buffer: what follows the third is the third again.                      *)
Seen(n) == IF n = 1 THEN {1} ELSE 2 .. (IF n = 2 THEN 2 ELSE 3)
Ends(n) == n <= 3

(* FileIOCompletionRoutine, and the next read it starts.  Nobody asks      *)
(* whether that can be; when it fails, the directory is not heard of again.*)
Completed(i) ==
    LET batch == infos[i].read
        Noticed(names) ==
            \E fails \in BOOLEAN :
                infos' = [infos EXCEPT ![i].read = <<>>, ![i].pending = TRUE,
                                       ![i].files = @ \cup names, ![i].deaf = fails]
    IN  /\ batch \notin {NoRead, <<>>}
        /\ \/ /\ Noticed({batch[n] : n \in Seen(Len(batch))})
              /\ troubles' = troubles \cup IF Ends(Len(batch)) THEN {} ELSE {"loops"}
              /\ crowd' = IF Len(batch) = 1 THEN crowd
                          ELSE crowd \cup {<<infos[i].path, f>> : f \in ToSet(batch)}
           \/ /\ Noticed({NoName})
              /\ crowd' = crowd \cup {<<infos[i].path, f>> : f \in ToSet(batch)}
              /\ UNCHANGED troubles
        /\ UNCHANGED <<watchers, handles, asked, told, changed>>

Reported(info) == [info EXCEPT !.pending = FALSE, !.files = {}]

(* The pass over the infos calls for those that were quiet for a while.    *)
Report(quiet) ==
    /\ quiet # {} /\ \A i \in quiet : infos[i].pending
    /\ infos' = [i \in DOMAIN infos |-> IF i \in quiet THEN Reported(infos[i]) ELSE infos[i]]
    /\ told' = told \cup UNION {{<<c, infos[i].path, f>> :
                   c \in ToSet(infos[i].callbacks), f \in infos[i].files} : i \in quiet}
    /\ UNCHANGED <<watchers, handles, asked, changed, crowd, troubles>>

Next ==
    /\ ~Lost
    /\ \/ \E p \in Paths, c \in Callbacks : Register(p, c)
       \/ \E i \in DOMAIN infos : Change(i) \/ Completed(i)
       \/ \E quiet \in SUBSET DOMAIN infos : Report(quiet)

Spec == Init /\ [][Next]_vars

-----------------------------------------------------------------------------
Failed == troubles \cap {"not opened", "not read"} # {}

(* Until a registration fails, the callbacks of a directory are those that *)
(* were registered for it, in order, and nobody hears of another's files.  *)
CallbacksAreTheirs ==
    ~Failed =>
        /\ \A i \in DOMAIN infos : infos[i].callbacks = asked[infos[i].path]
        /\ \A t \in told : t[1] \in ToSet(asked[t[2]])
                           /\ (t[3] = NoName \/ <<t[2], t[3]>> \in changed)

(* A change is waiting to be read, waiting to be told, or told to the      *)
(* callback the directory was opened for; it is missed only when its read  *)
(* completed with several changes at once, or with none.                   *)
ChangesAreTold ==
    \A i \in DOMAIN infos : infos[i].read # NoRead =>
        \A f \in 1 .. MaxChanges : <<infos[i].path, f>> \in changed =>
            \/ f \in ToSet(infos[i].read) \cup infos[i].files
            \/ <<Head(infos[i].callbacks), infos[i].path, f>> \in told
            \/ <<infos[i].path, f>> \in crowd

(* Watching is lost only by a failed read of the only directory, four      *)
(* changes at once, or more directories than the infos have room for at first.*)
LostForCause ==
    /\ "asserted" \in troubles => "not read" \in troubles
    /\ "loops" \in troubles => \E p \in Paths : \E s \in SUBSET (1 .. MaxChanges) :
          ~Ends(Cardinality(s)) /\ \A f \in s : <<p, f>> \in crowd
    /\ "adrift" \in troubles => Len(infos) > Capacity

WatchesAgree == CallbacksAreTheirs /\ ChangesAreTold /\ LostForCause

=============================================================================
