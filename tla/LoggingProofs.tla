--------------------------- MODULE LoggingProofs ----------------------------
(***************************************************************************)
(* Handlers see what is logged while they are attached, and a flush waits  *)
(* for all that was asked before it: theorems about LoggingRuntime for any *)
(* runtimes, threads, handlers and size of the queues.                     *)
(*                                                                         *)
(* What a runtime's clients asked of it waits in its queue in the order it *)
(* was accepted, among the messages that other runtimes pass on: the       *)
(* commands that wait are the last of those accepted (Rest), and the       *)
(* others have had their effects (Effects): the runtime's handlers are     *)
(* those they left attached, and each has been given what was logged.      *)
(***************************************************************************)
EXTENDS LoggingRuntime, FiniteSetTheorems, FunctionTheorems, SequenceTheorems, TLAPS

\* What clients ask of a runtime, and what other runtimes pass on to it.
Asked == [op : {"connect", "disconnect"}, arg : Runtimes]
           \cup [op : {"attach", "detach"}, arg : Hands]
           \cup [op : {"flush"}, arg : Threads]
           \cup [op : {"send"}, visited : {<<>>}, text : Nat]
Passed == [op : {"send"}, visited : Seq(Runtimes) \ {<<>>}, text : Nat \cup {Nothing}]

LogTypes ==
  /\ running \in [Runtimes -> BOOLEAN]
  /\ queue \in [Runtimes -> Seq(Asked \cup Passed)]
  /\ handlers \in [Runtimes -> SUBSET Hands]
  /\ replicants \in [Runtimes -> Seq(Runtimes)]
  /\ work \in [Runtimes -> [msg : Asked \cup {Garbled, Nothing}, left : Seq(Runtimes)]]
  /\ flushing \in [Threads -> Runtimes \cup {Nothing}]
  /\ seen \in [Hands -> Seq([from : Runtimes, text : Nat])]
  /\ accepted \in [Runtimes -> Seq(Asked)]

\* Where the commands of clients are, among what other runtimes pass on.
Places(q) == {i \in 1 .. Len(q) : Direct(q[i])}

\* The commands of q are, in order, those of a behind the first n.
Rest(q, a, n) ==
  /\ n \in 0 .. Len(a)
  /\ \E f \in [Places(q) -> n + 1 .. Len(a)] :
       /\ \A i, j \in Places(q) : i < j => f[i] < f[j]
       /\ \A k \in n + 1 .. Len(a) : \E i \in Places(q) : f[i] = k
       /\ \A i \in Places(q) : q[i] = a[f[i]]

AttachedIn(a, h, i) ==
  \E j \in 1 .. i - 1 :
    /\ a[j] = [op |-> "attach", arg |-> h]
    /\ \A k \in j + 1 .. i - 1 : a[k] # [op |-> "detach", arg |-> h]

GivenIn(a, h, n) == {i \in 1 .. n : a[i].op = "send" /\ AttachedIn(a, h, i)}

\* The messages of s that are from r are those of g, in their order.
Sees(s, r, g) ==
  LET from == {i \in DOMAIN s : s[i].from = r}
  IN  /\ {s[i].text : i \in from} = g
      /\ \A i, j \in from : i < j => s[i].text < s[j].text

\* The handlers hs have been given a message of r.
Gives(r, hs, s, z, text) ==
  \A h \in Hands : z[h] = IF h \notin hs THEN s[h]
                          ELSE Append(s[h], [from |-> r, text |-> text])

\* What the first d commands accepted by r have led to.
Effects(r, a, hs, s, d) ==
  /\ hs = {h \in Hands : AttachedIn(a, h, d + 1)}
  /\ \A h \in Hands : Sees(s[h], r, GivenIn(a, h, d))

\* A message that its thread passes on has been handled, and is still in the queue.
Handled(w) == IF w # Idle /\ w.msg # Garbled THEN 1 ELSE 0

Passing(q, w) ==
  w # Idle => w.left # <<>> /\ q # <<>> /\ Head(q).op = "send" /\ w.msg = Decoded(Head(q))

\* A message is known by when it was accepted.
Numbered(a) == \A i \in 1 .. Len(a) : a[i].op = "send" => a[i].text = i

\* The first n of the commands that r accepted have left its queue.
Sound(r, q, a, w, hs, s, n) ==
  Passing(q, w) /\ Rest(q, a, n) /\ Numbered(a) /\ Effects(r, a, hs, s, n + Handled(w))

\* A thread waits for its flush, of which there is one.
Flushing(r, q, fl) ==
  \A i \in 1 .. Len(q) : q[i].op = "flush" =>
    /\ fl[q[i].arg] = r
    /\ \A j \in 1 .. Len(q) : q[j].op = "flush" /\ q[j].arg = q[i].arg => j = i

LogInv ==
  /\ LogTypes
  /\ \A r \in Runtimes : Flushing(r, queue[r], flushing)
  /\ \A r \in Runtimes : \E n \in Nat :
       Sound(r, queue[r], accepted[r], work[r], handlers[r], seen, n)
-----------------------------------------------------------------------------
(* What waits in a queue. *)

\* As many commands wait as have not been taken.
LEMMA RestCount ==
  ASSUME NEW S, NEW q \in Seq(S), NEW a \in Seq(S), NEW n, Rest(q, a, n)
  PROVE  /\ IsFiniteSet(Places(q)) /\ Cardinality(Places(q)) \in Nat
         /\ n \in Nat /\ n = Len(a) - Cardinality(Places(q))
<1>1. Len(q) \in Nat /\ Len(a) \in Nat /\ n \in 0 .. Len(a)
  BY DEF Rest
<1>2. PICK f \in [Places(q) -> n + 1 .. Len(a)] :
        /\ \A i, j \in Places(q) : i < j => f[i] < f[j]
        /\ \A k \in n + 1 .. Len(a) : \E i \in Places(q) : f[i] = k
        /\ \A i \in Places(q) : q[i] = a[f[i]]
  BY DEF Rest
<1>3. Places(q) \subseteq 1 .. Len(q) /\ IsFiniteSet(1 .. Len(q))
  BY <1>1, FS_Interval DEF Places
<1>4. IsFiniteSet(Places(q))
  BY <1>3, FS_Subset
<1>5. \A i, j \in Places(q) : f[i] = f[j] => i = j
  <2> SUFFICES ASSUME NEW i \in Places(q), NEW j \in Places(q), f[i] = f[j], i # j
               PROVE  FALSE
    OBVIOUS
  <2>1. i \in Nat /\ j \in Nat /\ f[i] \in Nat /\ f[j] \in Nat
    BY <1>1, <1>2, <1>3
  <2>2. i < j \/ j < i
    BY <2>1
  <2> QED
    BY <1>2, <2>1, <2>2
<1>6. f \in Bijection(Places(q), n + 1 .. Len(a))
  BY <1>2, <1>5, Fun_IsBij
<1>7. ExistsBijection(Places(q), n + 1 .. Len(a))
  BY <1>6, Fun_ExistsBij
<1>8. Cardinality(n + 1 .. Len(a)) = Cardinality(Places(q))
  BY <1>4, <1>7, FS_Bijection
<1>9. Cardinality(n + 1 .. Len(a)) = Len(a) - n
  <2>1. n + 1 \in Int /\ Len(a) \in Int /\ n + 1 <= Len(a) + 1
    BY <1>1
  <2>2. Cardinality(n + 1 .. Len(a)) = IF n + 1 > Len(a) THEN 0 ELSE Len(a) - (n + 1) + 1
    BY <2>1, FS_Interval
  <2> QED
    BY <1>1, <2>1, <2>2
<1>10. Cardinality(Places(q)) \in Nat
  BY <1>4, FS_CardinalityType
<1> QED
  BY <1>1, <1>4, <1>8, <1>9, <1>10

\* A client's command is the last that waits and the last that was accepted.
LEMMA RestAsk ==
  ASSUME NEW S, NEW q \in Seq(S), NEW a \in Seq(S), NEW n, Rest(q, a, n),
         NEW c \in S, Direct(c)
  PROVE  Rest(Append(q, c), Append(a, c), n)
<1> DEFINE q1 == Append(q, c)
           a1 == Append(a, c)
<1>1. Len(q) \in Nat /\ Len(a) \in Nat /\ n \in 0 .. Len(a) /\ n \in Nat
  BY DEF Rest
<1>2. PICK f \in [Places(q) -> n + 1 .. Len(a)] :
        /\ \A i, j \in Places(q) : i < j => f[i] < f[j]
        /\ \A k \in n + 1 .. Len(a) : \E i \in Places(q) : f[i] = k
        /\ \A i \in Places(q) : q[i] = a[f[i]]
  BY DEF Rest
<1>3. /\ Len(q1) = Len(q) + 1 /\ Len(a1) = Len(a) + 1
      /\ \A i \in 1 .. Len(q) : q1[i] = q[i]
      /\ \A i \in 1 .. Len(a) : a1[i] = a[i]
      /\ q1[Len(q) + 1] = c /\ a1[Len(a) + 1] = c
  BY AppendProperties
<1> HIDE DEF q1, a1
<1>4. Places(q1) = Places(q) \cup {Len(q) + 1}
  BY <1>1, <1>3 DEF Places
<1>5. \A i \in Places(q) : i \in 1 .. Len(q) /\ i < Len(q) + 1 /\ i # Len(q) + 1
  BY <1>1 DEF Places
<1> DEFINE g == [i \in Places(q1) |-> IF i = Len(q) + 1 THEN Len(a) + 1 ELSE f[i]]
<1>6. \A i \in Places(q) : /\ g[i] = f[i] /\ f[i] \in n + 1 .. Len(a) /\ f[i] < Len(a) + 1
                           /\ f[i] \in 1 .. Len(a)
  BY <1>1, <1>2, <1>4, <1>5
<1>7. g[Len(q) + 1] = Len(a) + 1 /\ Len(a) + 1 \in n + 1 .. Len(a1)
  BY <1>1, <1>3, <1>4
<1>8. g \in [Places(q1) -> n + 1 .. Len(a1)]
  <2>1. \A i \in Places(q1) : g[i] \in n + 1 .. Len(a1)
    BY <1>1, <1>3, <1>4, <1>6, <1>7
  <2> QED
    BY <2>1
<1> HIDE DEF g
<1>9. \A i, j \in Places(q1) : i < j => g[i] < g[j]
  <2> SUFFICES ASSUME NEW i \in Places(q1), NEW j \in Places(q1), i < j PROVE g[i] < g[j]
    OBVIOUS
  <2>1. i \in Places(q)
    BY <1>1, <1>4, <1>5
  <2>2. CASE j \in Places(q)
    BY <1>2, <1>6, <2>1, <2>2
  <2>3. CASE j = Len(q) + 1
    BY <1>6, <1>7, <2>1, <2>3
  <2> QED
    BY <1>4, <2>2, <2>3
<1>10. \A k \in n + 1 .. Len(a1) : \E i \in Places(q1) : g[i] = k
  <2> SUFFICES ASSUME NEW k \in n + 1 .. Len(a1) PROVE \E i \in Places(q1) : g[i] = k
    OBVIOUS
  <2>1. CASE k = Len(a) + 1
    BY <1>4, <1>7, <2>1
  <2>2. CASE k # Len(a) + 1
    <3>1. k \in n + 1 .. Len(a)
      BY <1>1, <1>3, <2>2
    <3>2. PICK i \in Places(q) : f[i] = k
      BY <1>2, <3>1
    <3> QED
      BY <1>4, <1>6, <3>2
  <2> QED
    BY <2>1, <2>2
<1>11. \A i \in Places(q1) : q1[i] = a1[g[i]]
  <2> SUFFICES ASSUME NEW i \in Places(q1) PROVE q1[i] = a1[g[i]]
    OBVIOUS
  <2>1. CASE i = Len(q) + 1
    BY <1>3, <1>7, <2>1
  <2>2. CASE i \in Places(q)
    BY <1>2, <1>3, <1>5, <1>6, <2>2
  <2> QED
    BY <1>4, <2>1, <2>2
<1>12. n \in 0 .. Len(a1)
  BY <1>1, <1>3
<1>13. Rest(q1, a1, n)
  BY <1>8, <1>9, <1>10, <1>11, <1>12 DEF Rest
<1> QED
  BY <1>13 DEF q1, a1

\* A message that is passed on waits among the commands, and is none of them.
LEMMA RestPass ==
  ASSUME NEW S, NEW q \in Seq(S), NEW a, NEW n, Rest(q, a, n), NEW c, ~Direct(c)
  PROVE  Rest(Append(q, c), a, n)
<1> DEFINE p == Append(q, c)
<1>1. /\ Len(p) = Len(q) + 1 /\ Len(q) \in Nat
      /\ \A i \in 1 .. Len(q) : p[i] = q[i]
      /\ p[Len(q) + 1] = c
  <2>1. q \in Seq(S \cup {c})
    OBVIOUS
  <2> QED
    BY <2>1, AppendProperties
<1> HIDE DEF p
<1>2. Places(p) = Places(q)
  BY <1>1 DEF Places
<1>3. \A i \in Places(q) : p[i] = q[i]
  BY <1>1 DEF Places
<1>4. PICK f \in [Places(q) -> n + 1 .. Len(a)] :
        /\ \A i, j \in Places(q) : i < j => f[i] < f[j]
        /\ \A k \in n + 1 .. Len(a) : \E i \in Places(q) : f[i] = k
        /\ \A i \in Places(q) : q[i] = a[f[i]]
  BY DEF Rest
<1>5. n \in 0 .. Len(a)
  BY DEF Rest
<1>6. \A i \in Places(p) : p[i] = a[f[i]]
  BY <1>2, <1>3, <1>4
<1>7. /\ f \in [Places(p) -> n + 1 .. Len(a)]
      /\ \A i, j \in Places(p) : i < j => f[i] < f[j]
      /\ \A k \in n + 1 .. Len(a) : \E i \in Places(p) : f[i] = k
  BY <1>2, <1>4
<1>8. Rest(p, a, n)
  BY <1>5, <1>6, <1>7 DEF Rest
<1> QED
  BY <1>8 DEF p

\* A message passed on that is taken leaves the commands as they were.
LEMMA RestSkip ==
  ASSUME NEW S, NEW q \in Seq(S), NEW a, NEW n, Rest(q, a, n), q # <<>>, ~Direct(Head(q)),
         Len(a) \in Nat
  PROVE  Rest(Tail(q), a, n)
<1> DEFINE p == Tail(q)
<1>1. /\ Len(q) \in Nat /\ Len(q) > 0 /\ Len(p) = Len(q) - 1 /\ Head(q) = q[1]
      /\ \A i \in 1 .. Len(p) : p[i] = q[i + 1]
  BY HeadTailProperties
<1>2. PICK f \in [Places(q) -> n + 1 .. Len(a)] :
        /\ \A i, j \in Places(q) : i < j => f[i] < f[j]
        /\ \A k \in n + 1 .. Len(a) : \E i \in Places(q) : f[i] = k
        /\ \A i \in Places(q) : q[i] = a[f[i]]
  BY DEF Rest
<1> HIDE DEF p
<1>3. \A i \in Places(p) : i \in Nat /\ i + 1 \in Places(q) /\ p[i] = q[i + 1]
  BY <1>1 DEF Places
<1>4. \A i \in Places(q) : i \in Nat /\ i - 1 \in Places(p)
  <2> SUFFICES ASSUME NEW i \in Places(q) PROVE i \in Nat /\ i - 1 \in Places(p)
    OBVIOUS
  <2>1. i \in 1 .. Len(q) /\ Direct(q[i]) /\ i # 1
    BY <1>1 DEF Places
  <2>2. i - 1 \in 1 .. Len(p) /\ (i - 1) + 1 = i
    BY <1>1, <2>1
  <2> QED
    BY <1>1, <2>1, <2>2 DEF Places
<1> DEFINE g == [i \in Places(p) |-> f[i + 1]]
<1>5. g \in [Places(p) -> n + 1 .. Len(a)]
  BY <1>2, <1>3
<1>6. \A i, j \in Places(p) : i < j => g[i] < g[j]
  BY <1>2, <1>3
<1>7. \A k \in n + 1 .. Len(a) : \E i \in Places(p) : g[i] = k
  <2> SUFFICES ASSUME NEW k \in n + 1 .. Len(a) PROVE \E i \in Places(p) : g[i] = k
    OBVIOUS
  <2>1. PICK i \in Places(q) : f[i] = k
    BY <1>2
  <2>2. i - 1 \in Places(p) /\ (i - 1) + 1 = i
    BY <1>4, <2>1
  <2> QED
    BY <2>1, <2>2
<1>8. \A i \in Places(p) : p[i] = a[g[i]]
  BY <1>2, <1>3
<1>9. n \in 0 .. Len(a)
  BY DEF Rest
<1> HIDE DEF g
<1>10. Rest(p, a, n)
  BY <1>5, <1>6, <1>7, <1>8, <1>9 DEF Rest
<1> QED
  BY <1>10 DEF p

\* A command that is taken is the next of those accepted.
LEMMA RestTake ==
  ASSUME NEW S, NEW q \in Seq(S), NEW a \in Seq(S), NEW n, Rest(q, a, n),
         q # <<>>, Direct(Head(q))
  PROVE  /\ n + 1 \in 1 .. Len(a) /\ Head(q) = a[n + 1]
         /\ Rest(Tail(q), a, n + 1)
<1> DEFINE p == Tail(q)
<1>1. /\ Len(q) \in Nat /\ Len(q) > 0 /\ Len(p) = Len(q) - 1 /\ Head(q) = q[1]
      /\ \A i \in 1 .. Len(p) : p[i] = q[i + 1]
  BY HeadTailProperties
<1>2. PICK f \in [Places(q) -> n + 1 .. Len(a)] :
        /\ \A i, j \in Places(q) : i < j => f[i] < f[j]
        /\ \A k \in n + 1 .. Len(a) : \E i \in Places(q) : f[i] = k
        /\ \A i \in Places(q) : q[i] = a[f[i]]
  BY DEF Rest
<1>3. n \in Nat /\ Len(a) \in Nat /\ n \in 0 .. Len(a)
  BY DEF Rest
<1> HIDE DEF p
<1>4. 1 \in Places(q) /\ \A i \in Places(q) : i \in Nat /\ f[i] \in Nat /\ (i # 1 => 1 < i)
  BY <1>1, <1>2, <1>3 DEF Places
<1>5. f[1] = n + 1 /\ n + 1 \in 1 .. Len(a)
  <2>1. f[1] \in n + 1 .. Len(a)
    BY <1>2, <1>4
  <2>2. n + 1 \in n + 1 .. Len(a)
    BY <1>3, <2>1
  <2>3. PICK i \in Places(q) : f[i] = n + 1
    BY <1>2, <2>2
  <2>4. CASE i = 1
    BY <1>3, <2>2, <2>3, <2>4
  <2>5. CASE i # 1
    BY <1>2, <1>3, <1>4, <2>1, <2>3, <2>5
  <2> QED
    BY <2>4, <2>5
<1>6. \A i \in Places(p) : i \in Nat /\ i + 1 \in Places(q) /\ p[i] = q[i + 1] /\ 1 < i + 1
  BY <1>1 DEF Places
<1>7. \A i \in Places(q) : i # 1 => i - 1 \in Places(p) /\ (i - 1) + 1 = i
  <2> SUFFICES ASSUME NEW i \in Places(q), i # 1 PROVE i - 1 \in Places(p) /\ (i - 1) + 1 = i
    OBVIOUS
  <2>1. i \in 1 .. Len(q) /\ Direct(q[i])
    BY DEF Places
  <2>2. i - 1 \in 1 .. Len(p) /\ (i - 1) + 1 = i
    BY <1>1, <2>1
  <2> QED
    BY <1>1, <2>1, <2>2 DEF Places
<1> DEFINE g == [i \in Places(p) |-> f[i + 1]]
<1>8. g \in [Places(p) -> n + 1 + 1 .. Len(a)]
  <2> SUFFICES ASSUME NEW i \in Places(p) PROVE f[i + 1] \in n + 1 + 1 .. Len(a)
    OBVIOUS
  <2>1. i + 1 \in Places(q) /\ 1 < i + 1
    BY <1>6
  <2>2. f[i + 1] \in n + 1 .. Len(a) /\ f[1] < f[i + 1]
    BY <1>2, <1>4, <2>1
  <2> QED
    BY <1>3, <1>5, <2>2
<1>9. \A i, j \in Places(p) : i < j => g[i] < g[j]
  BY <1>2, <1>6
<1>10. \A k \in n + 1 + 1 .. Len(a) : \E i \in Places(p) : g[i] = k
  <2> SUFFICES ASSUME NEW k \in n + 1 + 1 .. Len(a) PROVE \E i \in Places(p) : g[i] = k
    OBVIOUS
  <2>1. PICK i \in Places(q) : f[i] = k
    BY <1>2, <1>3
  <2>2. i # 1
    BY <1>3, <1>5, <2>1
  <2> QED
    BY <1>7, <2>1, <2>2
<1>11. \A i \in Places(p) : p[i] = a[g[i]]
  BY <1>2, <1>6
<1>12. n + 1 \in 0 .. Len(a)
  BY <1>3, <1>5
<1> HIDE DEF g
<1>13. Rest(p, a, n + 1)
  BY <1>8, <1>9, <1>10, <1>11, <1>12 DEF Rest
<1>14. Head(q) = a[n + 1]
  BY <1>1, <1>2, <1>4, <1>5
<1> QED
  BY <1>5, <1>13, <1>14 DEF p
-----------------------------------------------------------------------------
(* What is attached, and what was given. *)

\* Who is attached depends on the commands so far.
LEMMA AttachedPrefix ==
  ASSUME NEW a, NEW b, NEW h, NEW n \in Nat, \A i \in 1 .. n : b[i] = a[i]
  PROVE  /\ AttachedIn(b, h, n + 1) <=> AttachedIn(a, h, n + 1)
         /\ GivenIn(b, h, n) = GivenIn(a, h, n)
<1>1. \A m \in 1 .. n + 1 : AttachedIn(b, h, m) <=> AttachedIn(a, h, m)
  <2> SUFFICES ASSUME NEW m \in 1 .. n + 1
               PROVE  AttachedIn(b, h, m) <=> AttachedIn(a, h, m)
    OBVIOUS
  <2>1. \A j \in 1 .. m - 1 : b[j] = a[j] /\ \A k \in j + 1 .. m - 1 : b[k] = a[k]
    OBVIOUS
  <2> QED
    BY <2>1 DEF AttachedIn
<1>2. n + 1 \in 1 .. n + 1 /\ \A i \in 1 .. n : i \in 1 .. n + 1
  OBVIOUS
<1> QED
  BY <1>1, <1>2 DEF GivenIn

\* One command more attaches, detaches, or changes nothing.
LEMMA AttachedNext ==
  ASSUME NEW a, NEW h, NEW n \in Nat
  PROVE  AttachedIn(a, h, n + 1 + 1) <=>
           \/ a[n + 1] = [op |-> "attach", arg |-> h]
           \/ AttachedIn(a, h, n + 1) /\ a[n + 1] # [op |-> "detach", arg |-> h]
<1>1. 1 .. n + 1 + 1 - 1 = 1 .. n + 1 /\ 1 .. n + 1 - 1 = 1 .. n
  OBVIOUS
<1>2. ASSUME a[n + 1] = [op |-> "attach", arg |-> h]
      PROVE  AttachedIn(a, h, n + 1 + 1)
  <2>1. n + 1 \in 1 .. n + 1 + 1 - 1 /\ n + 1 + 1 .. n + 1 + 1 - 1 = {}
    OBVIOUS
  <2> QED
    BY <1>2, <2>1 DEF AttachedIn
<1>3. ASSUME AttachedIn(a, h, n + 1), a[n + 1] # [op |-> "detach", arg |-> h]
      PROVE  AttachedIn(a, h, n + 1 + 1)
  <2>1. PICK j \in 1 .. n + 1 - 1 :
          /\ a[j] = [op |-> "attach", arg |-> h]
          /\ \A k \in j + 1 .. n + 1 - 1 : a[k] # [op |-> "detach", arg |-> h]
    BY <1>3 DEF AttachedIn
  <2>2. j \in 1 .. n + 1 + 1 - 1
    OBVIOUS
  <2>3. \A k \in j + 1 .. n + 1 + 1 - 1 : k = n + 1 \/ k \in j + 1 .. n + 1 - 1
    OBVIOUS
  <2> QED
    BY <1>3, <2>1, <2>2, <2>3 DEF AttachedIn
<1>4. ASSUME AttachedIn(a, h, n + 1 + 1), a[n + 1] # [op |-> "attach", arg |-> h]
      PROVE  AttachedIn(a, h, n + 1) /\ a[n + 1] # [op |-> "detach", arg |-> h]
  <2>1. PICK j \in 1 .. n + 1 + 1 - 1 :
          /\ a[j] = [op |-> "attach", arg |-> h]
          /\ \A k \in j + 1 .. n + 1 + 1 - 1 : a[k] # [op |-> "detach", arg |-> h]
    BY <1>4 DEF AttachedIn
  <2>2. j # n + 1
    BY <1>4, <2>1
  <2>3. j \in 1 .. n + 1 - 1 /\ n + 1 \in j + 1 .. n + 1 + 1 - 1
    BY <2>2
  <2>4. \A k \in j + 1 .. n + 1 - 1 : k \in j + 1 .. n + 1 + 1 - 1
    OBVIOUS
  <2> QED
    BY <2>1, <2>3, <2>4 DEF AttachedIn
<1> QED
  BY <1>2, <1>3, <1>4

\* One command more is given when it is a message.
LEMMA GivenNext ==
  ASSUME NEW a, NEW h, NEW n \in Nat
  PROVE  GivenIn(a, h, n + 1) =
           GivenIn(a, h, n)
             \cup {i \in {n + 1} : a[i].op = "send" /\ AttachedIn(a, h, n + 1)}
<1>1. 1 .. n + 1 = (1 .. n) \cup {n + 1}
  OBVIOUS
<1> QED
  BY <1>1 DEF GivenIn

\* A handler that is given another message sees it last.
LEMMA SeesNext ==
  ASSUME NEW s, NEW r, NEW n \in Nat, NEW g \in SUBSET (1 .. n), Sees(s, r, g),
         s \in Seq([from : Runtimes, text : Nat]), r \in Runtimes,
         NEW x \in Runtimes, NEW k, x # r => Sees(s, x, k)
  PROVE  /\ Sees(Append(s, [from |-> r, text |-> n + 1]), r, g \cup {n + 1})
         /\ x # r => Sees(Append(s, [from |-> r, text |-> n + 1]), x, k)
<1> DEFINE e == [from |-> r, text |-> n + 1]
           t == Append(s, e)
           m == Len(s) + 1
<1>1. e \in [from : Runtimes, text : Nat] /\ e.from = r /\ e.text = n + 1
  OBVIOUS
<1>2. /\ Len(s) \in Nat /\ DOMAIN s = 1 .. Len(s)
      /\ DOMAIN t = 1 .. m /\ t[m] = e /\ \A i \in 1 .. Len(s) : t[i] = s[i]
  <2> HIDE DEF e
  <2>1. Len(t) = m /\ t \in Seq([from : Runtimes, text : Nat])
    BY <1>1, AppendProperties
  <2> QED
    BY <1>1, <2>1, AppendProperties
<1>3. DOMAIN t = DOMAIN s \cup {m} /\ m \notin DOMAIN s /\ \A i \in DOMAIN s : i \in Nat /\ i < m
  BY <1>2
<1>4. \A i \in DOMAIN s : t[i] = s[i]
  BY <1>2
<1>5. t[m].from = r /\ t[m].text = n + 1
  BY <1>1, <1>2
<1> HIDE DEF t, e
<1>6. \A i \in DOMAIN s : s[i].from = r => s[i].text \in Nat /\ s[i].text < n + 1
  <2> SUFFICES ASSUME NEW i \in DOMAIN s, s[i].from = r
               PROVE  s[i].text \in Nat /\ s[i].text < n + 1
    OBVIOUS
  <2>1. {s[j].text : j \in {l \in DOMAIN s : s[l].from = r}} = g
    BY DEF Sees
  <2>2. s[i].text \in g
    BY <2>1
  <2>3. \A v \in g : v \in Nat /\ v < n + 1
    OBVIOUS
  <2> QED
    BY <2>2, <2>3
<1>7. Sees(t, r, g \cup {n + 1})
  <2>1. {i \in DOMAIN t : t[i].from = r} = {i \in DOMAIN s : s[i].from = r} \cup {m}
    BY <1>3, <1>4, <1>5
  <2>2. {t[i].text : i \in {j \in DOMAIN t : t[j].from = r}} =
          {s[i].text : i \in {j \in DOMAIN s : s[j].from = r}} \cup {n + 1}
    BY <1>4, <1>5, <2>1
  <2>3. {s[i].text : i \in {j \in DOMAIN s : s[j].from = r}} = g
    BY DEF Sees
  <2>4. ASSUME NEW i \in DOMAIN t, NEW j \in DOMAIN t, t[i].from = r, t[j].from = r, i < j
        PROVE  t[i].text < t[j].text
    <3>1. i \in DOMAIN s /\ t[i] = s[i] /\ s[i].from = r
      BY <1>2, <1>3, <1>4, <2>4
    <3>2. CASE j = m
      BY <1>5, <1>6, <3>1, <3>2
    <3>3. CASE j \in DOMAIN s
      BY <1>4, <2>4, <3>1, <3>3 DEF Sees
    <3> QED
      BY <1>3, <3>2, <3>3
  <2> QED
    BY <2>2, <2>3, <2>4 DEF Sees
<1>8. ASSUME x # r PROVE Sees(t, x, k)
  <2>1. {i \in DOMAIN t : t[i].from = x} = {i \in DOMAIN s : s[i].from = x}
    BY <1>3, <1>4, <1>5, <1>8
  <2>2. {t[i].text : i \in {j \in DOMAIN t : t[j].from = x}} =
          {s[i].text : i \in {j \in DOMAIN s : s[j].from = x}}
    BY <1>4, <2>1
  <2>3. \A i \in {j \in DOMAIN s : s[j].from = x} : t[i] = s[i]
    BY <1>4
  <2> QED
    BY <1>8, <2>1, <2>2, <2>3 DEF Sees
<1> QED
  BY <1>7, <1>8 DEF t, e
-----------------------------------------------------------------------------
(* Commands. *)

Sent == [op : {"send"}, visited : {<<>>}, text : Nat \cup {Nothing}]

\* What a command is.
LEMMA Shapes ==
  ASSUME NEW c \in Asked \cup Passed
  PROVE  /\ c.op = "attach" => c = [op |-> "attach", arg |-> c.arg] /\ c.arg \in Hands
         /\ c.op = "detach" => c = [op |-> "detach", arg |-> c.arg] /\ c.arg \in Hands
         /\ c.op \in {"connect", "disconnect"} => c.arg \in Runtimes
         /\ c.op = "flush" => c.arg \in Threads
         /\ c.op # "send" => Direct(c)
         /\ c.op = "send" => Decoded(c) \in Sent
         /\ c.op = "send" => (Direct(c) <=> Decoded(c) # Garbled)
         /\ c.op = "send" /\ Direct(c) => Decoded(c) = c /\ c.text \in Nat /\ c \in Asked
<1>1. CASE c \in [op : {"connect", "disconnect"}, arg : Runtimes]
  BY <1>1 DEF Direct
<1>2. CASE c \in [op : {"attach", "detach"}, arg : Hands]
  BY <1>2 DEF Direct
<1>3. CASE c \in [op : {"flush"}, arg : Threads]
  BY <1>3 DEF Direct
<1>4. CASE c \in [op : {"send"}, visited : {<<>>}, text : Nat]
  <2>1. c.op = "send" /\ c.visited = <<>> /\ c.text \in Nat
    BY <1>4
  <2>2. Direct(c) /\ Decoded(c) = c
    BY <2>1 DEF Direct, Decoded
  <2>3. c # Garbled
    BY <2>1, RuntimeAssumption DEF Garbled
  <2>4. c \in Sent /\ c \in Asked
    BY <1>4 DEF Sent, Asked
  <2> QED
    BY <2>1, <2>2, <2>3, <2>4
<1>5. CASE c \in Passed
  <2>1. c.op = "send" /\ c.visited # <<>>
    BY <1>5 DEF Passed
  <2>2. ~Direct(c) /\ Decoded(c) = Garbled
    BY <2>1 DEF Direct, Decoded
  <2>3. Garbled \in Sent
    BY DEF Garbled, Sent
  <2> QED
    BY <2>1, <2>2, <2>3
<1> QED
  BY <1>1, <1>2, <1>3, <1>4, <1>5 DEF Asked

\* A copy of a message that was sent is one that is passed on.
LEMMA Copies ==
  ASSUME NEW m \in Sent, NEW r \in Runtimes
  PROVE  /\ [m EXCEPT !.visited = Append(@, r)] \in Passed
         /\ ~Direct([m EXCEPT !.visited = Append(@, r)])
         /\ [m EXCEPT !.visited = Append(@, r)].op = "send"
<1>1. m.visited = <<>> /\ m.op = "send" /\ m.text \in Nat \cup {Nothing}
  BY DEF Sent
<1>2. m = [op |-> "send", visited |-> <<>>, text |-> m.text]
  BY DEF Sent
<1>3. [m EXCEPT !.visited = Append(@, r)] =
        [op |-> "send", visited |-> Append(<<>>, r), text |-> m.text]
  BY <1>1, <1>2
<1>4. Append(<<>>, r) \in Seq(Runtimes) \ {<<>>}
  <2>1. Append(<<>>, r) \in Seq(Runtimes)
    OBVIOUS
  <2>2. Len(Append(<<>>, r)) = 1 /\ Len(<<>>) = 0
    OBVIOUS
  <2> QED
    BY <2>1, <2>2
<1> QED
  BY <1>1, <1>3, <1>4 DEF Passed, Direct
-----------------------------------------------------------------------------
(* What the commands do. *)

\* A runtime takes no more commands than it has accepted.
LEMMA HandledInRange ==
  ASSUME NEW q \in Seq(Asked \cup Passed), NEW a \in Seq(Asked), NEW w,
         NEW n \in Nat, Rest(q, a, n), Passing(q, w)
  PROVE  n + Handled(w) \in 0 .. Len(a) /\ Handled(w) \in 0 .. 1
<1>1. n \in 0 .. Len(a) /\ Len(a) \in Nat
  BY DEF Rest
<1>2. CASE w = Idle \/ w.msg = Garbled
  BY <1>1, <1>2 DEF Handled
<1>3. CASE w # Idle /\ w.msg # Garbled
  <2>1. q # <<>> /\ Head(q).op = "send" /\ Decoded(Head(q)) # Garbled
    BY <1>3 DEF Passing
  <2>2. Head(q) \in Asked \cup Passed
    BY <2>1, HeadTailProperties
  <2>3. Direct(Head(q))
    BY <2>1, <2>2, Shapes
  <2>4. n + 1 \in 1 .. Len(a)
    <3>1. a \in Seq(Asked \cup Passed)
      OBVIOUS
    <3> QED
      BY <2>1, <2>3, <3>1, RestTake
  <2> QED
    BY <1>1, <1>3, <2>4 DEF Handled
<1> QED
  BY <1>2, <1>3

\* Commands that are accepted later have no effect yet.
LEMMA EffectsPrefix ==
  ASSUME NEW r, NEW a, NEW b, NEW hs, NEW s, NEW d \in Nat, Effects(r, a, hs, s, d),
         \A i \in 1 .. d : b[i] = a[i]
  PROVE  Effects(r, b, hs, s, d)
<1>1. \A h \in Hands : /\ AttachedIn(b, h, d + 1) <=> AttachedIn(a, h, d + 1)
                       /\ GivenIn(b, h, d) = GivenIn(a, h, d)
  BY AttachedPrefix
<1> QED
  BY <1>1 DEF Effects

\* The next command attaches a handler, detaches it, or leaves them.
LEMMA EffectsNext ==
  ASSUME NEW r, NEW a \in Seq(Asked), NEW hs, NEW s, NEW d \in Nat, Effects(r, a, hs, s, d),
         d + 1 \in 1 .. Len(a), NEW gs
  PROVE  /\ a[d + 1].op = "attach" /\ gs = hs \cup {a[d + 1].arg} => Effects(r, a, gs, s, d + 1)
         /\ a[d + 1].op = "detach" /\ gs = hs \ {a[d + 1].arg} => Effects(r, a, gs, s, d + 1)
         /\ a[d + 1].op \in {"connect", "disconnect", "flush"} => Effects(r, a, hs, s, d + 1)
<1> DEFINE c == a[d + 1]
<1>1. c \in Asked \cup Passed
  BY ElementOfSeq
<1>2. /\ c.op = "attach" => c = [op |-> "attach", arg |-> c.arg] /\ c.arg \in Hands
      /\ c.op = "detach" => c = [op |-> "detach", arg |-> c.arg] /\ c.arg \in Hands
  BY <1>1, Shapes
<1> HIDE DEF c
<1>3. \A h \in Hands :
        AttachedIn(a, h, d + 1 + 1) <=>
          \/ c = [op |-> "attach", arg |-> h]
          \/ AttachedIn(a, h, d + 1) /\ c # [op |-> "detach", arg |-> h]
  BY AttachedNext DEF c
<1>4. ASSUME c.op # "send"
      PROVE  \A h \in Hands : Sees(s[h], r, GivenIn(a, h, d + 1))
  <2>1. \A h \in Hands : GivenIn(a, h, d + 1) = GivenIn(a, h, d)
    <3> SUFFICES ASSUME NEW h \in Hands PROVE GivenIn(a, h, d + 1) = GivenIn(a, h, d)
      OBVIOUS
    <3>1. {i \in {d + 1} : a[i].op = "send" /\ AttachedIn(a, h, d + 1)} = {}
      BY <1>4 DEF c
    <3>2. GivenIn(a, h, d + 1) =
            GivenIn(a, h, d) \cup {i \in {d + 1} : a[i].op = "send" /\ AttachedIn(a, h, d + 1)}
      BY GivenNext
    <3> QED
      BY <3>1, <3>2
  <2> QED
    BY <2>1 DEF Effects
<1>5. hs = {h \in Hands : AttachedIn(a, h, d + 1)}
  BY DEF Effects
<1>6. ASSUME c.op = "attach", gs = hs \cup {c.arg} PROVE Effects(r, a, gs, s, d + 1)
  <2>1. \A h \in Hands : AttachedIn(a, h, d + 1 + 1) <=> h = c.arg \/ AttachedIn(a, h, d + 1)
    <3> SUFFICES ASSUME NEW h \in Hands
                 PROVE  AttachedIn(a, h, d + 1 + 1) <=> h = c.arg \/ AttachedIn(a, h, d + 1)
      OBVIOUS
    <3>1. c = [op |-> "attach", arg |-> h] <=> h = c.arg
      BY <1>2, <1>6
    <3>2. c # [op |-> "detach", arg |-> h]
      BY <1>6
    <3> QED
      BY <1>3, <3>1, <3>2
  <2>2. gs = {h \in Hands : AttachedIn(a, h, d + 1 + 1)}
    BY <1>2, <1>5, <1>6, <2>1
  <2> QED
    BY <1>4, <1>6, <2>2 DEF Effects
<1>7. ASSUME c.op = "detach", gs = hs \ {c.arg} PROVE Effects(r, a, gs, s, d + 1)
  <2>1. \A h \in Hands : AttachedIn(a, h, d + 1 + 1) <=> h # c.arg /\ AttachedIn(a, h, d + 1)
    <3> SUFFICES ASSUME NEW h \in Hands
                 PROVE  AttachedIn(a, h, d + 1 + 1) <=> h # c.arg /\ AttachedIn(a, h, d + 1)
      OBVIOUS
    <3>1. c = [op |-> "detach", arg |-> h] <=> h = c.arg
      BY <1>2, <1>7
    <3>2. c # [op |-> "attach", arg |-> h]
      BY <1>7
    <3> QED
      BY <1>3, <3>1, <3>2
  <2>2. gs = {h \in Hands : AttachedIn(a, h, d + 1 + 1)}
    BY <1>2, <1>5, <1>7, <2>1
  <2> QED
    BY <1>4, <1>7, <2>2 DEF Effects
<1>8. ASSUME c.op \in {"connect", "disconnect", "flush"} PROVE Effects(r, a, hs, s, d + 1)
  <2>1. \A h \in Hands : AttachedIn(a, h, d + 1 + 1) <=> AttachedIn(a, h, d + 1)
    <3> SUFFICES ASSUME NEW h \in Hands
                 PROVE  AttachedIn(a, h, d + 1 + 1) <=> AttachedIn(a, h, d + 1)
      OBVIOUS
    <3>1. c # [op |-> "attach", arg |-> h] /\ c # [op |-> "detach", arg |-> h]
      BY <1>8
    <3> QED
      BY <1>3, <3>1
  <2>2. hs = {h \in Hands : AttachedIn(a, h, d + 1 + 1)}
    BY <1>5, <2>1
  <2> QED
    BY <1>4, <1>8, <2>2 DEF Effects
<1> QED
  BY <1>6, <1>7, <1>8 DEF c

\* A message that is handled is given to every handler.
LEMMA EffectsSend ==
  ASSUME NEW r \in Runtimes, NEW a \in Seq(Asked), NEW b, NEW hs, NEW fs,
         NEW s \in [Hands -> Seq([from : Runtimes, text : Nat])],
         NEW d \in Nat, Effects(r, a, hs, s, d),
         d + 1 \in 1 .. Len(a), a[d + 1].op = "send",
         NEW x \in Runtimes, NEW e, x # r => Effects(x, b, fs, s, e),
         NEW z, Gives(r, hs, s, z, d + 1)
  PROVE  /\ Effects(r, a, hs, z, d + 1)
         /\ x # r => Effects(x, b, fs, z, e)
<1>1. hs = {h \in Hands : AttachedIn(a, h, d + 1)}
  BY DEF Effects
<1>2. hs = {h \in Hands : AttachedIn(a, h, d + 1 + 1)}
  <2>1. \A h \in Hands : AttachedIn(a, h, d + 1 + 1) <=> AttachedIn(a, h, d + 1)
    <3> SUFFICES ASSUME NEW h \in Hands
                 PROVE  AttachedIn(a, h, d + 1 + 1) <=> AttachedIn(a, h, d + 1)
      OBVIOUS
    <3>1. a[d + 1] # [op |-> "attach", arg |-> h] /\ a[d + 1] # [op |-> "detach", arg |-> h]
      OBVIOUS
    <3> QED
      BY <3>1, AttachedNext
  <2> QED
    BY <1>1, <2>1
<1>3. ASSUME NEW h \in Hands
      PROVE  /\ Sees(z[h], r, GivenIn(a, h, d + 1))
             /\ x # r => Sees(z[h], x, GivenIn(b, h, e))
  <2>1. /\ Sees(s[h], r, GivenIn(a, h, d))
        /\ x # r => Sees(s[h], x, GivenIn(b, h, e))
    BY DEF Effects
  <2>2. GivenIn(a, h, d + 1) =
          GivenIn(a, h, d) \cup {i \in {d + 1} : a[i].op = "send" /\ AttachedIn(a, h, d + 1)}
    BY GivenNext
  <2>3. CASE h \in hs
    <3>1. GivenIn(a, h, d + 1) = GivenIn(a, h, d) \cup {d + 1}
      BY <1>1, <2>2, <2>3
    <3>2. GivenIn(a, h, d) \in SUBSET (1 .. d)
      BY DEF GivenIn
    <3>3. z[h] = Append(s[h], [from |-> r, text |-> d + 1])
      BY <2>3 DEF Gives
    <3>4. s[h] \in Seq([from : Runtimes, text : Nat])
      OBVIOUS
    <3> DEFINE g == GivenIn(a, h, d)
               k == GivenIn(b, h, e)
               m == s[h]
    <3>5. /\ g \in SUBSET (1 .. d) /\ m \in Seq([from : Runtimes, text : Nat])
          /\ Sees(m, r, g) /\ (x # r => Sees(m, x, k))
      BY <2>1, <3>2, <3>4
    <3> HIDE DEF g, k, m
    <3>6. /\ Sees(Append(m, [from |-> r, text |-> d + 1]), r, g \cup {d + 1})
          /\ x # r => Sees(Append(m, [from |-> r, text |-> d + 1]), x, k)
      BY <3>5, SeesNext
    <3> QED
      BY <3>1, <3>3, <3>6 DEF g, k, m
  <2>4. CASE h \notin hs
    <3>1. GivenIn(a, h, d + 1) = GivenIn(a, h, d)
      BY <1>1, <2>2, <2>4
    <3> QED
      BY <2>1, <2>4, <3>1 DEF Gives
  <2> QED
    BY <2>3, <2>4
<1>4. \A h \in Hands : Sees(z[h], r, GivenIn(a, h, d + 1))
  BY <1>3
<1>5. x # r => \A h \in Hands : Sees(z[h], x, GivenIn(b, h, e))
  BY <1>3
<1>6. x # r => fs = {h \in Hands : AttachedIn(b, h, e + 1)}
  BY DEF Effects
<1> QED
  BY <1>2, <1>4, <1>5, <1>6 DEF Effects
-----------------------------------------------------------------------------
(* What a runtime's thread and its clients do to its queue. *)

\* Head and tail of a queue that another command joins.
LEMMA Joins ==
  ASSUME NEW S, NEW q \in Seq(S), NEW c \in S
  PROVE  /\ Append(q, c) \in Seq(S) /\ Append(q, c) # <<>>
         /\ q # <<>> => Head(Append(q, c)) = Head(q)
         /\ Len(q) \in Nat /\ Len(Append(q, c)) = Len(q) + 1
         /\ \A i \in 1 .. Len(q) : Append(q, c)[i] = q[i]
         /\ Append(q, c)[Len(q) + 1] = c
<1>1. /\ Append(q, c) \in Seq(S) /\ Len(Append(q, c)) = Len(q) + 1 /\ Len(q) \in Nat
      /\ \A i \in 1 .. Len(q) : Append(q, c)[i] = q[i]
      /\ Append(q, c)[Len(q) + 1] = c
  BY AppendProperties
<1>2. Append(q, c) # <<>>
  BY AppendProperties
<1>3. ASSUME q # <<>> PROVE Head(Append(q, c)) = Head(q)
  <2>1. Len(q) > 0 /\ Head(q) = q[1]
    BY <1>3, HeadTailProperties
  <2>2. 1 \in 1 .. Len(q)
    BY <1>1, <2>1
  <2>3. Head(Append(q, c)) = Append(q, c)[1]
    BY <1>1, <1>2, HeadTailProperties
  <2> QED
    BY <1>1, <2>1, <2>2, <2>3
<1> QED
  BY <1>1, <1>2, <1>3

\* A client's command is accepted.
LEMMA SoundAsk ==
  ASSUME NEW r, NEW q \in Seq(Asked \cup Passed), NEW a \in Seq(Asked), NEW w, NEW hs, NEW s,
         NEW n \in Nat, Sound(r, q, a, w, hs, s, n),
         NEW c \in Asked, Direct(c), c.op = "send" => c.text = Len(a) + 1
  PROVE  Sound(r, Append(q, c), Append(a, c), w, hs, s, n)
<1>1. n + Handled(w) \in 0 .. Len(a) /\ Handled(w) \in 0 .. 1
  BY HandledInRange DEF Sound
<1>2. /\ q # <<>> => Head(Append(q, c)) = Head(q)
      /\ Append(q, c) # <<>>
  BY Joins
<1>3. /\ Len(a) \in Nat /\ Len(Append(a, c)) = Len(a) + 1
      /\ \A i \in 1 .. Len(a) : Append(a, c)[i] = a[i]
      /\ Append(a, c)[Len(a) + 1] = c
  BY Joins
<1>4. Rest(Append(q, c), Append(a, c), n)
  <2>1. a \in Seq(Asked \cup Passed) /\ c \in Asked \cup Passed /\ Rest(q, a, n)
    BY DEF Sound
  <2> QED
    BY <2>1, RestAsk
<1>5. Passing(Append(q, c), w)
  BY <1>2 DEF Sound, Passing
<1>6. Numbered(Append(a, c))
  <2> SUFFICES ASSUME NEW i \in 1 .. Len(Append(a, c)), Append(a, c)[i].op = "send"
               PROVE  Append(a, c)[i].text = i
    BY DEF Numbered
  <2>1. CASE i \in 1 .. Len(a)
    BY <1>3, <2>1 DEF Sound, Numbered
  <2>2. CASE i = Len(a) + 1
    BY <1>3, <2>2
  <2> QED
    BY <1>3, <2>1, <2>2
<1>7. Effects(r, Append(a, c), hs, s, n + Handled(w))
  <2>1. n + Handled(w) \in Nat /\ \A i \in 1 .. n + Handled(w) : i \in 1 .. Len(a)
    BY <1>1, <1>3
  <2>2. \A i \in 1 .. n + Handled(w) : Append(a, c)[i] = a[i]
    BY <1>3, <2>1
  <2>3. Effects(r, a, hs, s, n + Handled(w))
    BY DEF Sound
  <2> QED
    BY <2>1, <2>2, <2>3, EffectsPrefix
<1> QED
  BY <1>4, <1>5, <1>6, <1>7 DEF Sound

\* A message that another runtime passes on joins the queue.
LEMMA SoundPass ==
  ASSUME NEW r, NEW q \in Seq(Asked \cup Passed), NEW a \in Seq(Asked), NEW w, NEW hs, NEW s,
         NEW n \in Nat, Sound(r, q, a, w, hs, s, n), NEW c \in Passed, ~Direct(c)
  PROVE  Sound(r, Append(q, c), a, w, hs, s, n)
<1>1. /\ q # <<>> => Head(Append(q, c)) = Head(q)
      /\ Append(q, c) # <<>>
  <2> DEFINE C == Asked \cup Passed
  <2>1. c \in C /\ q \in Seq(C)
    OBVIOUS
  <2> HIDE DEF C
  <2> QED
    BY <2>1, Joins
<1>2. Passing(Append(q, c), w)
  BY <1>1 DEF Sound, Passing
<1>3. Rest(Append(q, c), a, n)
  BY RestPass DEF Sound
<1> QED
  BY <1>2, <1>3 DEF Sound

\* A command that is not a message leaves the queue when it is done.
LEMMA SoundTake ==
  ASSUME NEW r, NEW q \in Seq(Asked \cup Passed), NEW a \in Seq(Asked), NEW hs, NEW s,
         NEW n \in Nat, Sound(r, q, a, Idle, hs, s, n), q # <<>>, Head(q).op # "send", NEW gs,
         \/ Head(q).op = "attach" /\ gs = hs \cup {Head(q).arg}
         \/ Head(q).op = "detach" /\ gs = hs \ {Head(q).arg}
         \/ Head(q).op \in {"connect", "disconnect", "flush"} /\ gs = hs
  PROVE  Sound(r, Tail(q), a, Idle, gs, s, n + 1)
<1>1. Handled(Idle) = 0
  BY DEF Handled
<1>2. Head(q) \in Asked \cup Passed
  BY HeadTailProperties
<1>3. Direct(Head(q))
  BY <1>2, Shapes
<1>4. n + 1 \in 1 .. Len(a) /\ Head(q) = a[n + 1] /\ Rest(Tail(q), a, n + 1)
  <2>1. a \in Seq(Asked \cup Passed) /\ Rest(q, a, n)
    BY DEF Sound
  <2> QED
    BY <1>3, <2>1, RestTake
<1>5. Effects(r, a, hs, s, n)
  BY <1>1 DEF Sound
<1>6. Effects(r, a, gs, s, n + 1)
  <2>1. CASE Head(q).op = "attach" /\ gs = hs \cup {Head(q).arg}
    BY <1>4, <1>5, <2>1, EffectsNext
  <2>2. CASE Head(q).op = "detach" /\ gs = hs \ {Head(q).arg}
    BY <1>4, <1>5, <2>2, EffectsNext
  <2>3. CASE Head(q).op \in {"connect", "disconnect", "flush"} /\ gs = hs
    BY <1>4, <1>5, <2>3, EffectsNext
  <2> QED
    BY <2>1, <2>2, <2>3
<1> QED
  BY <1>1, <1>4, <1>6 DEF Sound, Passing

\* A message that was passed on by another runtime has no effect.
LEMMA SoundGarbled ==
  ASSUME NEW r, NEW q \in Seq(Asked \cup Passed), NEW a \in Seq(Asked), NEW w, NEW hs, NEW s,
         NEW n \in Nat, Sound(r, q, a, w, hs, s, n), q # <<>>, Head(q).op = "send",
         Decoded(Head(q)) = Garbled, w = Idle \/ w.msg = Garbled
  PROVE  /\ Sound(r, Tail(q), a, Idle, hs, s, n)
         /\ \A v : v.msg = Garbled /\ v.left # <<>> => Sound(r, q, a, v, hs, s, n)
<1>1. Handled(Idle) = 0 /\ Handled(w) = 0
  BY DEF Handled
<1>2. Head(q) \in Asked \cup Passed
  BY HeadTailProperties
<1>3. ~Direct(Head(q))
  BY <1>2, Shapes
<1>4. Rest(Tail(q), a, n)
  <2>1. Len(a) \in Nat /\ Rest(q, a, n)
    BY DEF Sound
  <2> QED
    BY <1>3, <2>1, RestSkip
<1>5. ASSUME NEW v, v.msg = Garbled, v.left # <<>> PROVE Sound(r, q, a, v, hs, s, n)
  <2>1. Handled(v) = 0
    BY <1>5 DEF Handled
  <2>2. Passing(q, v)
    BY <1>5 DEF Passing
  <2> QED
    BY <1>1, <2>1, <2>2 DEF Sound
<1> QED
  BY <1>1, <1>4, <1>5 DEF Sound, Passing

\* A message of a client's is handled, and leaves the queue or is passed on.
LEMMA SoundSend ==
  ASSUME NEW r \in Runtimes, NEW q \in Seq(Asked \cup Passed), NEW a \in Seq(Asked), NEW hs,
         NEW s \in [Hands -> Seq([from : Runtimes, text : Nat])],
         NEW n \in Nat, Sound(r, q, a, Idle, hs, s, n), q # <<>>, Head(q).op = "send",
         Decoded(Head(q)) # Garbled,
         NEW x \in Runtimes, NEW p, NEW b, NEW w, NEW fs, NEW k,
         x # r => Sound(x, p, b, w, fs, s, k),
         NEW z,
         Gives(r, hs, s, z, Decoded(Head(q)).text)
  PROVE  /\ Sound(r, Tail(q), a, Idle, hs, z, n + 1)
         /\ \A v : v.msg = Decoded(Head(q)) /\ v.left # <<>> => Sound(r, q, a, v, hs, z, n)
         /\ x # r => Sound(x, p, b, w, fs, z, k)
<1>1. Handled(Idle) = 0
  BY DEF Handled
<1>2. Head(q) \in Asked \cup Passed
  BY HeadTailProperties
<1>3. Direct(Head(q)) /\ Decoded(Head(q)) = Head(q)
  BY <1>2, Shapes
<1>4. n + 1 \in 1 .. Len(a) /\ Head(q) = a[n + 1] /\ Rest(Tail(q), a, n + 1)
  <2>1. a \in Seq(Asked \cup Passed) /\ Rest(q, a, n)
    BY DEF Sound
  <2> QED
    BY <1>3, <2>1, RestTake
<1>5. Effects(r, a, hs, s, n) /\ (x # r => Effects(x, b, fs, s, k + Handled(w)))
  BY <1>1 DEF Sound
<1>6. Decoded(Head(q)).text = n + 1
  BY <1>3, <1>4 DEF Sound, Numbered
<1>7. Gives(r, hs, s, z, n + 1)
  BY <1>6
<1>8. Effects(r, a, hs, z, n + 1) /\ (x # r => Effects(x, b, fs, z, k + Handled(w)))
  <2> DEFINE e == k + Handled(w)
  <2>1. a[n + 1].op = "send"
    BY <1>4
  <2>2. Effects(r, a, hs, s, n) /\ (x # r => Effects(x, b, fs, s, e))
    BY <1>5
  <2> HIDE DEF e
  <2>3. Effects(r, a, hs, z, n + 1) /\ (x # r => Effects(x, b, fs, z, e))
    BY <1>4, <1>7, <2>1, <2>2, EffectsSend
  <2> QED
    BY <2>3 DEF e
<1>9. Sound(r, Tail(q), a, Idle, hs, z, n + 1)
  BY <1>1, <1>4, <1>8 DEF Sound, Passing
<1>10. ASSUME NEW v, v.msg = Decoded(Head(q)), v.left # <<>> PROVE Sound(r, q, a, v, hs, z, n)
  <2>1. Idle.left = <<>>
    BY DEF Idle
  <2>2. Handled(v) = 1
    BY <1>10, <2>1 DEF Handled
  <2>3. Passing(q, v)
    BY <1>10 DEF Passing
  <2> QED
    BY <1>8, <2>2, <2>3 DEF Sound
<1>11. x # r => Sound(x, p, b, w, fs, z, k)
  BY <1>8 DEF Sound
<1> QED
  BY <1>9, <1>10, <1>11

\* A message leaves the queue when it has been passed on.
LEMMA SoundFinish ==
  ASSUME NEW r, NEW q \in Seq(Asked \cup Passed), NEW a \in Seq(Asked), NEW w, NEW hs, NEW s,
         NEW n \in Nat, Sound(r, q, a, w, hs, s, n), w # Idle
  PROVE  \E k \in Nat : Sound(r, Tail(q), a, Idle, hs, s, k)
<1>1. q # <<>> /\ Head(q).op = "send" /\ w.msg = Decoded(Head(q))
  BY DEF Sound, Passing
<1>2. Head(q) \in Asked \cup Passed
  BY <1>1, HeadTailProperties
<1>3. CASE w.msg = Garbled
  BY <1>1, <1>3, SoundGarbled
<1>4. CASE w.msg # Garbled
  <2>1. Direct(Head(q))
    BY <1>1, <1>2, <1>4, Shapes
  <2>2. n + 1 \in 1 .. Len(a) /\ Rest(Tail(q), a, n + 1)
    <3>1. a \in Seq(Asked \cup Passed) /\ Rest(q, a, n)
      BY DEF Sound
    <3> QED
      BY <1>1, <2>1, <3>1, RestTake
  <2>3. Handled(w) = 1 /\ Handled(Idle) = 0
    BY <1>4 DEF Handled
  <2>4. Sound(r, Tail(q), a, Idle, hs, s, n + 1)
    BY <2>2, <2>3 DEF Sound, Passing
  <2> QED
    BY <2>4
<1> QED
  BY <1>3, <1>4
-----------------------------------------------------------------------------
(* Flushes. *)

\* A thread's flush joins the queue, and the thread waits for it.
LEMMA FlushAsk ==
  ASSUME NEW r \in Runtimes, NEW q \in Seq(Asked \cup Passed), NEW t \in Threads,
         NEW fl \in [Threads -> Runtimes \cup {Nothing}], fl[t] = Nothing, Flushing(r, q, fl),
         NEW x \in Runtimes, NEW p \in Seq(Asked \cup Passed), Flushing(x, p, fl),
         NEW c \in Asked, c.op = "flush", c.arg = t
  PROVE  /\ Flushing(r, Append(q, c), [fl EXCEPT ![t] = r])
         /\ Flushing(x, p, [fl EXCEPT ![t] = r])
<1> DEFINE fm == [fl EXCEPT ![t] = r]
<1>1. Nothing \notin Runtimes
  BY RuntimeAssumption
<1>2. fm[t] = r /\ \A u \in Threads : u # t => fm[u] = fl[u]
  OBVIOUS
<1> HIDE DEF fm
<1>3. ASSUME NEW y \in Runtimes, NEW s \in Seq(Asked \cup Passed), Flushing(y, s, fl),
             NEW i \in 1 .. Len(s), s[i].op = "flush"
      PROVE  s[i].arg \in Threads /\ s[i].arg # t /\ fm[s[i].arg] = y
  <2>1. s[i] \in Asked \cup Passed
    BY ElementOfSeq
  <2>2. s[i].arg \in Threads
    BY <1>3, <2>1, Shapes
  <2>3. fl[s[i].arg] = y
    BY <1>3 DEF Flushing
  <2>4. s[i].arg # t
    BY <1>1, <2>3
  <2> QED
    BY <1>2, <2>2, <2>3, <2>4
<1>4. Flushing(x, p, fm)
  BY <1>3 DEF Flushing
<1>5. /\ Len(q) \in Nat /\ Len(Append(q, c)) = Len(q) + 1
      /\ \A i \in 1 .. Len(q) : Append(q, c)[i] = q[i]
      /\ Append(q, c)[Len(q) + 1] = c
  <2> DEFINE C == Asked \cup Passed
  <2>1. c \in C /\ q \in Seq(C)
    OBVIOUS
  <2> HIDE DEF C
  <2> QED
    BY <2>1, Joins
<1>6. Flushing(r, Append(q, c), fm)
  <2> DEFINE s == Append(q, c)
  <2>1. \A i \in 1 .. Len(s) : i \in 1 .. Len(q) \/ i = Len(q) + 1
    BY <1>5
  <2>2. \A i \in 1 .. Len(q) : s[i].op = "flush" => s[i].arg # t /\ fm[s[i].arg] = r
    BY <1>3, <1>5
  <2>3. s[Len(q) + 1].arg = t
    BY <1>5
  <2>4. ASSUME NEW i \in 1 .. Len(s), s[i].op = "flush"
        PROVE  fm[s[i].arg] = r
    BY <1>2, <2>1, <2>2, <2>3, <2>4
  <2>5. ASSUME NEW i \in 1 .. Len(s), s[i].op = "flush",
               NEW j \in 1 .. Len(s), s[j].op = "flush", s[j].arg = s[i].arg
        PROVE  j = i
    <3>1. CASE i \in 1 .. Len(q) /\ j \in 1 .. Len(q)
      <4>1. s[i] = q[i] /\ s[j] = q[j]
        BY <1>5, <3>1
      <4> QED
        BY <2>5, <3>1, <4>1 DEF Flushing
    <3>2. CASE i = Len(q) + 1 \/ j = Len(q) + 1
      BY <2>1, <2>2, <2>3, <2>5, <3>2
    <3> QED
      BY <2>1, <3>1, <3>2
  <2> QED
    BY <2>4, <2>5 DEF Flushing
<1> QED
  BY <1>4, <1>6 DEF fm

\* No flush joins the queue.
LEMMA FlushJoin ==
  ASSUME NEW r, NEW q \in Seq(Asked \cup Passed), NEW fl, Flushing(r, q, fl),
         NEW c \in Asked \cup Passed, c.op # "flush"
  PROVE  Flushing(r, Append(q, c), fl)
<1> DEFINE s == Append(q, c)
           C == Asked \cup Passed
<1>1. c \in C /\ q \in Seq(C)
  OBVIOUS
<1> HIDE DEF C
<1>2. /\ Len(q) \in Nat /\ Len(s) = Len(q) + 1
      /\ \A i \in 1 .. Len(q) : s[i] = q[i]
      /\ s[Len(q) + 1] = c
  BY <1>1, Joins
<1> HIDE DEF s
<1>3. \A i \in 1 .. Len(s) : s[i].op = "flush" => i \in 1 .. Len(q) /\ s[i] = q[i]
  <2> SUFFICES ASSUME NEW i \in 1 .. Len(s), s[i].op = "flush" PROVE i \in 1 .. Len(q)
    BY <1>2
  <2>1. i # Len(q) + 1
    BY <1>2
  <2> QED
    BY <1>2, <2>1
<1>4. Flushing(r, s, fl)
  BY <1>3 DEF Flushing
<1> QED
  BY <1>4 DEF s

\* What leaves the queue leaves the other flushes.
LEMMA FlushTail ==
  ASSUME NEW S, NEW r, NEW q \in Seq(S), NEW fl, Flushing(r, q, fl), q # <<>>
  PROVE  Flushing(r, Tail(q), fl)
<1> DEFINE p == Tail(q)
<1>1. /\ Len(q) \in Nat /\ Len(p) = Len(q) - 1
      /\ \A i \in 1 .. Len(p) : p[i] = q[i + 1]
  BY HeadTailProperties
<1> HIDE DEF p
<1>2. \A i \in 1 .. Len(p) : i \in Nat /\ i + 1 \in 1 .. Len(q) /\ p[i] = q[i + 1]
  BY <1>1
<1>3. ASSUME NEW i \in 1 .. Len(p), p[i].op = "flush" PROVE fl[p[i].arg] = r
  BY <1>2, <1>3 DEF Flushing
<1>4. ASSUME NEW i \in 1 .. Len(p), p[i].op = "flush",
             NEW j \in 1 .. Len(p), p[j].op = "flush", p[j].arg = p[i].arg
      PROVE  j = i
  <2>1. j + 1 = i + 1
    BY <1>2, <1>4 DEF Flushing
  <2> QED
    BY <1>2, <2>1
<1>5. Flushing(r, p, fl)
  BY <1>3, <1>4 DEF Flushing
<1> QED
  BY <1>5 DEF p

\* A flush leaves the queue, and its thread need not wait for any other.
LEMMA FlushReturns ==
  ASSUME NEW r \in Runtimes, NEW q \in Seq(Asked \cup Passed),
         NEW fl \in [Threads -> Runtimes \cup {Nothing}], Flushing(r, q, fl),
         NEW x \in Runtimes, NEW p \in Seq(Asked \cup Passed), Flushing(x, p, fl),
         q # <<>>, Head(q).op = "flush"
  PROVE  /\ Flushing(r, Tail(q), [fl EXCEPT ![Head(q).arg] = Nothing])
         /\ x # r => Flushing(x, p, [fl EXCEPT ![Head(q).arg] = Nothing])
<1> DEFINE t == Head(q).arg
           fm == [fl EXCEPT ![t] = Nothing]
           s == Tail(q)
<1>1. Head(q) \in Asked \cup Passed
  BY HeadTailProperties
<1>2. t \in Threads
  BY <1>1, Shapes
<1>3. /\ Len(q) \in Nat /\ Len(q) > 0 /\ Len(s) = Len(q) - 1 /\ Head(q) = q[1]
      /\ \A i \in 1 .. Len(s) : s[i] = q[i + 1]
      /\ s \in Seq(Asked \cup Passed)
  BY HeadTailProperties
<1>4. 1 \in 1 .. Len(q) /\ q[1].op = "flush" /\ q[1].arg = t
  BY <1>3
<1>5. fl[t] = r
  BY <1>4 DEF Flushing
<1> HIDE DEF t, s
<1>6. \A u \in Threads : u # t => fm[u] = fl[u]
  BY <1>2
<1> HIDE DEF fm
<1>7. ASSUME NEW y, NEW z \in Seq(Asked \cup Passed), Flushing(y, z, fl),
             \A i \in 1 .. Len(z) : z[i].op = "flush" => z[i].arg # t
      PROVE  Flushing(y, z, fm)
  <2>1. ASSUME NEW i \in 1 .. Len(z), z[i].op = "flush" PROVE fm[z[i].arg] = y
    <3>1. z[i] \in Asked \cup Passed
      BY ElementOfSeq
    <3>2. z[i].arg \in Threads
      BY <2>1, <3>1, Shapes
    <3> QED
      BY <1>6, <1>7, <2>1, <3>2 DEF Flushing
  <2> QED
    BY <1>7, <2>1 DEF Flushing
<1>8. Flushing(r, s, fl)
  BY FlushTail DEF s
<1>9. \A i \in 1 .. Len(s) : s[i].op = "flush" => s[i].arg # t
  <2> SUFFICES ASSUME NEW i \in 1 .. Len(s), s[i].op = "flush", s[i].arg = t PROVE FALSE
    OBVIOUS
  <2>1. i + 1 \in 1 .. Len(q) /\ i + 1 # 1 /\ q[i + 1].op = "flush" /\ q[i + 1].arg = t
    BY <1>3
  <2> QED
    BY <1>4, <2>1 DEF Flushing
<1>10. x # r => \A i \in 1 .. Len(p) : p[i].op = "flush" => p[i].arg # t
  BY <1>5 DEF Flushing
<1>11. Flushing(r, s, fm)
  BY <1>3, <1>7, <1>8, <1>9
<1>12. x # r => Flushing(x, p, fm)
  BY <1>7, <1>10
<1> QED
  BY <1>11, <1>12 DEF t, s, fm
-----------------------------------------------------------------------------
(* The invariant holds at the start. *)

LEMMA IdleType == Idle \in [msg : Asked \cup {Garbled, Nothing}, left : Seq(Runtimes)]
  BY DEF Idle

\* The default runtime has its console to attach.
LEMMA SetupSound ==
  ASSUME NEW r \in Runtimes, NEW fl, NEW s, \A h \in Hands : s[h] = <<>>
  PROVE  /\ Setup(r) \in Seq(Asked)
         /\ Flushing(r, Setup(r), fl)
         /\ Sound(r, Setup(r), Setup(r), Idle, {}, s, 0)
<1> DEFINE q == Setup(r)
<1>1. q \in Seq(Asked) /\ Len(q) \in Nat /\ \A i \in 1 .. Len(q) : q[i].op = "attach"
  <2>1. CASE r = Default
    <3>1. q = <<[op |-> "attach", arg |-> Console]>>
      BY <2>1 DEF Setup
    <3>2. [op |-> "attach", arg |-> Console] \in Asked
      BY RuntimeAssumption DEF Asked
    <3> QED
      BY <3>1, <3>2
  <2>2. CASE r # Default
    <3>1. q = <<>>
      BY <2>2 DEF Setup
    <3> QED
      BY <3>1
  <2> QED
    BY <2>1, <2>2
<1> HIDE DEF q
<1>2. Places(q) = 1 .. Len(q)
  BY <1>1 DEF Places, Direct
<1>3. Rest(q, q, 0)
  <2> DEFINE f == [i \in Places(q) |-> i]
  <2>1. f \in [Places(q) -> 0 + 1 .. Len(q)]
    BY <1>2
  <2>2. \A i, j \in Places(q) : i < j => f[i] < f[j]
    OBVIOUS
  <2>3. \A k \in 0 + 1 .. Len(q) : \E i \in Places(q) : f[i] = k
    BY <1>2
  <2>4. \A i \in Places(q) : q[i] = q[f[i]]
    OBVIOUS
  <2>5. 0 \in 0 .. Len(q)
    BY <1>1
  <2> HIDE DEF f
  <2> QED
    BY <2>1, <2>2, <2>3, <2>4, <2>5 DEF Rest
<1>4. Numbered(q) /\ Flushing(r, q, fl)
  BY <1>1 DEF Numbered, Flushing
<1>5. Effects(r, q, {}, s, 0)
  <2>1. 1 .. 0 + 1 - 1 = {} /\ 1 .. 0 = {}
    OBVIOUS
  <2>2. \A h \in Hands : ~AttachedIn(q, h, 0 + 1) /\ GivenIn(q, h, 0) = {}
    BY <2>1 DEF AttachedIn, GivenIn
  <2>3. Sees(<<>>, r, {})
    BY DEF Sees
  <2> QED
    BY <2>2, <2>3 DEF Effects
<1>6. Passing(q, Idle) /\ 0 + Handled(Idle) = 0
  BY DEF Passing, Handled
<1>7. Sound(r, q, q, Idle, {}, s, 0)
  BY <1>3, <1>4, <1>5, <1>6 DEF Sound
<1> QED
  BY <1>1, <1>4, <1>7 DEF q

LEMMA InitLog == Init => LogInv
<1> SUFFICES ASSUME Init PROVE LogInv
  OBVIOUS
<1>1. \A r \in Runtimes :
        /\ Setup(r) \in Seq(Asked)
        /\ Flushing(r, Setup(r), flushing)
        /\ Sound(r, Setup(r), Setup(r), Idle, {}, seen, 0)
  BY SetupSound DEF Init
<1>2. \A r \in Runtimes : /\ queue[r] = Setup(r) /\ accepted[r] = Setup(r)
                          /\ work[r] = Idle /\ handlers[r] = {}
  BY DEF Init
<1>3. LogTypes
  <2>1. \A r \in Runtimes : Setup(r) \in Seq(Asked) /\ Setup(r) \in Seq(Asked \cup Passed)
    <3> SUFFICES ASSUME NEW r \in Runtimes
                 PROVE  Setup(r) \in Seq(Asked) /\ Setup(r) \in Seq(Asked \cup Passed)
      OBVIOUS
    <3>1. Setup(r) \in Seq(Asked)
      BY <1>1
    <3> QED
      BY <3>1
  <2>2. queue \in [Runtimes -> Seq(Asked \cup Passed)] /\ accepted \in [Runtimes -> Seq(Asked)]
    BY <2>1 DEF Init
  <2>3. work \in [Runtimes -> [msg : Asked \cup {Garbled, Nothing}, left : Seq(Runtimes)]]
    BY IdleType DEF Init
  <2>4. replicants \in [Runtimes -> Seq(Runtimes)]
    BY DEF Init
  <2>5. seen \in [Hands -> Seq([from : Runtimes, text : Nat])]
    BY DEF Init
  <2>6. running \in [Runtimes -> BOOLEAN] /\ handlers \in [Runtimes -> SUBSET Hands]
        /\ flushing \in [Threads -> Runtimes \cup {Nothing}]
    BY DEF Init
  <2> QED
    BY <2>2, <2>3, <2>4, <2>5, <2>6 DEF LogTypes
<1>4. \A r \in Runtimes : Flushing(r, queue[r], flushing)
  BY <1>1, <1>2
<1>5. \A r \in Runtimes : \E n \in Nat :
        Sound(r, queue[r], accepted[r], work[r], handlers[r], seen, n)
  <2>1. \A r \in Runtimes : Sound(r, queue[r], accepted[r], work[r], handlers[r], seen, 0)
    BY <1>1, <1>2
  <2> QED
    BY <2>1
<1> QED
  BY <1>3, <1>4, <1>5 DEF LogInv
-----------------------------------------------------------------------------
(* Every step keeps it. *)

\* A thread asks something of a runtime.
LEMMA CommandStep ==
  ASSUME LogInv, NEW t \in Threads, NEW r \in Runtimes, NEW c \in Asked,
         c.op = "send" => c.text = Len(accepted[r]) + 1,
         Command(t, r, c),
         \/ c.op # "flush" /\ UNCHANGED flushing
         \/ c.op = "flush" /\ c.arg = t /\ flushing' = [flushing EXCEPT ![t] = r]
  PROVE  LogInv'
<1>1. /\ flushing[t] = Nothing
      /\ queue' = [queue EXCEPT ![r] = Append(@, c)]
      /\ accepted' = [accepted EXCEPT ![r] = Append(@, c)]
      /\ UNCHANGED <<running, handlers, replicants, work, seen>>
  BY DEF Command
<1>2. LogTypes
  BY DEF LogInv
<1>3. /\ queue[r] \in Seq(Asked \cup Passed) /\ accepted[r] \in Seq(Asked)
      /\ Append(queue[r], c) \in Seq(Asked \cup Passed) /\ Append(accepted[r], c) \in Seq(Asked)
  BY <1>2, AppendProperties DEF LogTypes
<1>4. LogTypes'
  <2>1. queue' \in [Runtimes -> Seq(Asked \cup Passed)]
    BY <1>1, <1>2, <1>3 DEF LogTypes
  <2>2. accepted' \in [Runtimes -> Seq(Asked)]
    BY <1>1, <1>2, <1>3 DEF LogTypes
  <2>3. flushing' \in [Threads -> Runtimes \cup {Nothing}]
    BY <1>2 DEF LogTypes
  <2> QED
    BY <1>1, <1>2, <2>1, <2>2, <2>3 DEF LogTypes
<1>5. /\ queue'[r] = Append(queue[r], c) /\ accepted'[r] = Append(accepted[r], c)
      /\ \A x \in Runtimes : x # r => queue'[x] = queue[x] /\ accepted'[x] = accepted[x]
  BY <1>1, <1>2 DEF LogTypes
<1>6. \A x \in Runtimes : Flushing(x, queue[x], flushing) /\ queue[x] \in Seq(Asked \cup Passed)
  BY <1>2 DEF LogInv, LogTypes
<1>7. \A x \in Runtimes : Flushing(x, queue'[x], flushing')
  <2>1. CASE c.op # "flush" /\ UNCHANGED flushing
    <3>1. c \in Asked \cup Passed
      OBVIOUS
    <3>2. Flushing(r, Append(queue[r], c), flushing)
      BY <1>6, <2>1, <3>1, FlushJoin
    <3> QED
      BY <1>5, <1>6, <2>1, <3>2
  <2>2. CASE c.op = "flush" /\ c.arg = t /\ flushing' = [flushing EXCEPT ![t] = r]
    <3>1. flushing \in [Threads -> Runtimes \cup {Nothing}]
      BY <1>2 DEF LogTypes
    <3>2. ASSUME NEW x \in Runtimes
          PROVE  /\ Flushing(r, Append(queue[r], c), [flushing EXCEPT ![t] = r])
                 /\ Flushing(x, queue[x], [flushing EXCEPT ![t] = r])
      BY <1>1, <1>6, <2>2, <3>1, FlushAsk
    <3> QED
      BY <1>5, <2>2, <3>2
  <2> QED
    BY <2>1, <2>2
<1>8. Direct(c)
  BY DEF Asked, Direct
<1>9. \A x \in Runtimes : \E n \in Nat :
        Sound(x, queue[x], accepted[x], work[x], handlers[x], seen, n)
  BY DEF LogInv
<1>10. \A x \in Runtimes : \E n \in Nat :
        Sound(x, queue'[x], accepted'[x], work'[x], handlers'[x], seen', n)
  <2>1. PICK n \in Nat : Sound(r, queue[r], accepted[r], work[r], handlers[r], seen, n)
    BY <1>9
  <2>2. Sound(r, Append(queue[r], c), Append(accepted[r], c), work[r], handlers[r], seen, n)
    BY <1>3, <1>8, <2>1, SoundAsk
  <2> QED
    BY <1>1, <1>5, <1>9, <2>2
<1> QED
  BY <1>4, <1>7, <1>10 DEF LogInv
\* A runtime's thread takes a command that is not a message.
LEMMA TakeStep ==
  ASSUME LogInv, NEW r \in Runtimes, work[r] = Idle, queue[r] # <<>>, Next1(r).op # "send",
         Pop(r), UNCHANGED <<running, work, seen, accepted>>,
         replicants' \in [Runtimes -> Seq(Runtimes)],
         handlers' \in [Runtimes -> SUBSET Hands],
         \A x \in Runtimes : x # r => handlers'[x] = handlers[x],
         \/ Next1(r).op = "attach" /\ handlers'[r] = handlers[r] \cup {Next1(r).arg}
         \/ Next1(r).op = "detach" /\ handlers'[r] = handlers[r] \ {Next1(r).arg}
         \/ Next1(r).op \in {"connect", "disconnect", "flush"} /\ handlers'[r] = handlers[r],
         \/ Next1(r).op # "flush" /\ UNCHANGED flushing
         \/ /\ Next1(r).op = "flush"
            /\ flushing' = [flushing EXCEPT ![Next1(r).arg] = Nothing]
  PROVE  LogInv'
<1>1. LogTypes /\ Next1(r) = Head(queue[r])
  BY DEF LogInv, Next1
<1>2. /\ queue[r] \in Seq(Asked \cup Passed) /\ accepted[r] \in Seq(Asked)
      /\ Tail(queue[r]) \in Seq(Asked \cup Passed)
  BY <1>1, HeadTailProperties DEF LogTypes
<1>3. /\ queue'[r] = Tail(queue[r])
      /\ \A x \in Runtimes : x # r => queue'[x] = queue[x]
  BY <1>1 DEF LogTypes, Pop
<1>4. LogTypes'
  <2>1. queue' \in [Runtimes -> Seq(Asked \cup Passed)]
    BY <1>1, <1>2 DEF LogTypes, Pop
  <2>2. flushing' \in [Threads -> Runtimes \cup {Nothing}]
    BY <1>1 DEF LogTypes
  <2> QED
    BY <1>1, <2>1, <2>2 DEF LogTypes
<1>5. \A x \in Runtimes : Flushing(x, queue[x], flushing) /\ queue[x] \in Seq(Asked \cup Passed)
  BY <1>1 DEF LogInv, LogTypes
<1>6. \A x \in Runtimes : Flushing(x, queue'[x], flushing')
  <2>1. CASE Next1(r).op # "flush" /\ UNCHANGED flushing
    <3>1. Flushing(r, Tail(queue[r]), flushing)
      BY <1>2, <1>5, FlushTail
    <3> QED
      BY <1>3, <1>5, <2>1, <3>1
  <2>2. CASE /\ Next1(r).op = "flush"
             /\ flushing' = [flushing EXCEPT ![Next1(r).arg] = Nothing]
    <3>1. flushing \in [Threads -> Runtimes \cup {Nothing}]
      BY <1>1 DEF LogTypes
    <3>2. ASSUME NEW x \in Runtimes
          PROVE  /\ Flushing(r, Tail(queue[r]), flushing')
                 /\ x # r => Flushing(x, queue[x], flushing')
      BY <1>1, <1>5, <2>2, <3>1, FlushReturns
    <3> QED
      BY <1>3, <3>2
  <2> QED
    BY <2>1, <2>2
<1>7. \A x \in Runtimes : \E n \in Nat :
        Sound(x, queue[x], accepted[x], work[x], handlers[x], seen, n)
  BY DEF LogInv
<1>8. \A x \in Runtimes : \E n \in Nat :
        Sound(x, queue'[x], accepted'[x], work'[x], handlers'[x], seen', n)
  <2>1. PICK n \in Nat : Sound(r, queue[r], accepted[r], Idle, handlers[r], seen, n)
    BY <1>7
  <2>2. \/ Head(queue[r]).op = "attach" /\ handlers'[r] = handlers[r] \cup {Head(queue[r]).arg}
        \/ Head(queue[r]).op = "detach" /\ handlers'[r] = handlers[r] \ {Head(queue[r]).arg}
        \/ /\ Head(queue[r]).op \in {"connect", "disconnect", "flush"}
           /\ handlers'[r] = handlers[r]
    BY <1>1
  <2>3. Sound(r, Tail(queue[r]), accepted[r], Idle, handlers'[r], seen, n + 1)
    BY <1>1, <1>2, <2>1, <2>2, SoundTake
  <2>4. n + 1 \in Nat
    OBVIOUS
  <2> QED
    BY <1>3, <1>7, <2>3, <2>4
<1> QED
  BY <1>4, <1>6, <1>8 DEF LogInv

\* The commands of a runtime other than messages.
LEMMA DistSteps ==
  ASSUME LogInv, NEW r \in Runtimes,
         \/ DistConnectReplicant(r) \/ DistDisconnectReplicant(r)
         \/ DistAttachHandler(r) \/ DistDetachHandler(r) \/ DistFlush(r)
  PROVE  LogInv'
<1>1. LogTypes
  BY DEF LogInv
<1>2. /\ handlers \in [Runtimes -> SUBSET Hands]
      /\ replicants \in [Runtimes -> Seq(Runtimes)]
  BY <1>1 DEF LogTypes
<1>3. ASSUME queue[r] # <<>>
      PROVE  /\ Next1(r).op \in {"connect", "disconnect"} => Next1(r).arg \in Runtimes
             /\ Next1(r).op \in {"attach", "detach"} => Next1(r).arg \in Hands
  <2>1. Next1(r) \in Asked \cup Passed
    <3>1. queue[r] \in Seq(Asked \cup Passed)
      BY <1>1 DEF LogTypes
    <3> QED
      BY <1>3, <3>1, HeadTailProperties DEF Next1
  <2> QED
    BY <2>1, Shapes
<1>4. CASE DistConnectReplicant(r)
  <2>1. /\ work[r] = Idle /\ queue[r] # <<>> /\ Next1(r).op = "connect" /\ Pop(r)
        /\ replicants' = [replicants EXCEPT ![r] = Append(@, Next1(r).arg)]
        /\ UNCHANGED <<running, handlers, work, flushing, seen, accepted>>
    BY <1>4 DEF DistConnectReplicant, Ready
  <2>2. Append(replicants[r], Next1(r).arg) \in Seq(Runtimes)
    BY <1>2, <1>3, <2>1
  <2>3. replicants' \in [Runtimes -> Seq(Runtimes)]
    BY <1>2, <2>1, <2>2
  <2> QED
    BY <1>2, <2>1, <2>3, TakeStep
<1>5. CASE DistDisconnectReplicant(r)
  <2>1. /\ work[r] = Idle /\ queue[r] # <<>> /\ Next1(r).op = "disconnect" /\ Pop(r)
        /\ \/ UNCHANGED replicants
           \/ \E i \in DOMAIN replicants[r] :
                replicants' = [replicants EXCEPT ![r] = SubSeq(@, 1, i - 1)]
        /\ UNCHANGED <<running, handlers, work, flushing, seen, accepted>>
    BY <1>5 DEF DistDisconnectReplicant, Ready
  <2>2. replicants' \in [Runtimes -> Seq(Runtimes)]
    <3>1. ASSUME NEW i \in DOMAIN replicants[r]
          PROVE  SubSeq(replicants[r], 1, i - 1) \in Seq(Runtimes)
      <4>1. replicants[r] \in Seq(Runtimes) /\ Len(replicants[r]) \in Nat
        BY <1>2
      <4>2. i \in 1 .. Len(replicants[r])
        BY <4>1
      <4>3. \A j \in 1 .. i - 1 : replicants[r][j] \in Runtimes
        BY <4>1, <4>2, ElementOfSeq
      <4> QED
        BY <4>1, <4>2, <4>3, SubSeqProperties
    <3> QED
      BY <1>2, <2>1, <3>1
  <2> QED
    BY <1>2, <2>1, <2>2, TakeStep
<1>6. CASE DistAttachHandler(r)
  <2>1. /\ work[r] = Idle /\ queue[r] # <<>> /\ Next1(r).op = "attach" /\ Pop(r)
        /\ handlers' = [handlers EXCEPT ![r] = @ \cup {Next1(r).arg}]
        /\ UNCHANGED <<running, replicants, work, flushing, seen, accepted>>
    BY <1>6 DEF DistAttachHandler, Ready
  <2>2. /\ handlers' \in [Runtimes -> SUBSET Hands]
        /\ handlers'[r] = handlers[r] \cup {Next1(r).arg}
        /\ \A x \in Runtimes : x # r => handlers'[x] = handlers[x]
    BY <1>2, <1>3, <2>1
  <2> QED
    BY <1>2, <2>1, <2>2, TakeStep
<1>7. CASE DistDetachHandler(r)
  <2>1. /\ work[r] = Idle /\ queue[r] # <<>> /\ Next1(r).op = "detach" /\ Pop(r)
        /\ handlers' = [handlers EXCEPT ![r] = @ \ {Next1(r).arg}]
        /\ UNCHANGED <<running, replicants, work, flushing, seen, accepted>>
    BY <1>7 DEF DistDetachHandler, Ready
  <2>2. /\ handlers' \in [Runtimes -> SUBSET Hands]
        /\ handlers'[r] = handlers[r] \ {Next1(r).arg}
        /\ \A x \in Runtimes : x # r => handlers'[x] = handlers[x]
    BY <1>2, <2>1
  <2> QED
    BY <1>2, <2>1, <2>2, TakeStep
<1>8. CASE DistFlush(r)
  <2>1. /\ work[r] = Idle /\ queue[r] # <<>> /\ Next1(r).op = "flush" /\ Pop(r)
        /\ flushing' = [flushing EXCEPT ![Next1(r).arg] = Nothing]
        /\ UNCHANGED <<running, handlers, replicants, work, seen, accepted>>
    BY <1>8 DEF DistFlush, Ready
  <2> QED
    BY <1>2, <2>1, TakeStep
<1> QED
  BY <1>4, <1>5, <1>6, <1>7, <1>8
\* A runtime's thread takes a message: its handlers are given it, unless it is garbled.
LEMMA LogStep ==
  ASSUME LogInv, NEW r \in Runtimes, DistLog(r)
  PROVE  LogInv'
<1> DEFINE m == Decoded(Next1(r))
<1>1. LogTypes /\ Next1(r) = Head(queue[r])
  BY DEF LogInv, Next1
<1>2. /\ work[r] = Idle /\ queue[r] # <<>> /\ Next1(r).op = "send"
      /\ UNCHANGED <<running, handlers, replicants, flushing, accepted>>
  BY DEF DistLog, Ready
<1>3. /\ queue[r] \in Seq(Asked \cup Passed) /\ accepted[r] \in Seq(Asked)
      /\ Tail(queue[r]) \in Seq(Asked \cup Passed)
      /\ Head(queue[r]) \in Asked \cup Passed
  BY <1>1, <1>2, HeadTailProperties DEF LogTypes
<1>4. /\ m \in Sent /\ (Direct(Next1(r)) <=> m # Garbled)
      /\ m # Garbled => m.text \in Nat /\ m \in Asked
  <2>1. Next1(r) \in Asked \cup Passed /\ Next1(r).op = "send"
    BY <1>1, <1>2, <1>3
  <2> QED
    BY <2>1, Shapes
<1>5. ~ \E i \in DOMAIN m.visited : m.visited[i] = r
  <2>1. m.visited = <<>>
    BY <1>4 DEF Sent
  <2>2. DOMAIN <<>> = {}
    OBVIOUS
  <2> QED
    BY <2>1, <2>2
<1>6. /\ seen' = [h \in Hands |-> IF m = Garbled \/ h \notin handlers[r] THEN seen[h]
                                  ELSE Append(seen[h], [from |-> r, text |-> m.text])]
      /\ \/ Pop(r) /\ UNCHANGED work
         \/ /\ work' = [work EXCEPT ![r] = [msg |-> m, left |-> replicants[r]]]
            /\ replicants[r] # <<>>
            /\ UNCHANGED queue
  <2>1. DistLog(r)
    OBVIOUS
  <2> HIDE DEF m
  <2> QED
    BY <1>5, <2>1 DEF DistLog, m
<1> HIDE DEF m
<1>7. /\ queue \in [Runtimes -> Seq(Asked \cup Passed)]
      /\ work \in [Runtimes -> [msg : Asked \cup {Garbled, Nothing}, left : Seq(Runtimes)]]
      /\ seen \in [Hands -> Seq([from : Runtimes, text : Nat])]
      /\ replicants \in [Runtimes -> Seq(Runtimes)]
  BY <1>1 DEF LogTypes
<1>8. LogTypes'
  <2>1. queue' \in [Runtimes -> Seq(Asked \cup Passed)]
    BY <1>3, <1>6, <1>7 DEF Pop
  <2>2. work' \in [Runtimes -> [msg : Asked \cup {Garbled, Nothing}, left : Seq(Runtimes)]]
    <3>1. [msg |-> m, left |-> replicants[r]]
            \in [msg : Asked \cup {Garbled, Nothing}, left : Seq(Runtimes)]
      BY <1>4, <1>7
    <3> QED
      BY <1>6, <1>7, <3>1
  <2>3. seen' \in [Hands -> Seq([from : Runtimes, text : Nat])]
    <3>1. ASSUME m # Garbled, NEW h \in Hands
          PROVE  Append(seen[h], [from |-> r, text |-> m.text])
                   \in Seq([from : Runtimes, text : Nat])
      <4>1. [from |-> r, text |-> m.text] \in [from : Runtimes, text : Nat]
        BY <1>4, <3>1
      <4>2. seen[h] \in Seq([from : Runtimes, text : Nat])
        BY <1>7
      <4> QED
        BY <4>1, <4>2, AppendProperties
    <3> QED
      BY <1>6, <1>7, <3>1
  <2> QED
    BY <1>1, <1>2, <2>1, <2>2, <2>3 DEF LogTypes
<1>9. \A x \in Runtimes : x # r => queue'[x] = queue[x] /\ work'[x] = work[x]
  BY <1>6, <1>7 DEF Pop
<1>10. \/ queue'[r] = Tail(queue[r]) /\ work'[r] = Idle
       \/ /\ queue'[r] = queue[r]
          /\ work'[r].msg = m /\ work'[r].left # <<>>
  BY <1>2, <1>6, <1>7 DEF Pop
<1>11. \A x \in Runtimes : Flushing(x, queue'[x], flushing')
  <2>1. \A x \in Runtimes : Flushing(x, queue[x], flushing)
    BY DEF LogInv
  <2>2. Flushing(r, Tail(queue[r]), flushing)
    BY <1>2, <1>3, <2>1, FlushTail
  <2> QED
    BY <1>2, <1>9, <1>10, <2>1, <2>2
<1>12. \A x \in Runtimes : \E n \in Nat :
        Sound(x, queue[x], accepted[x], work[x], handlers[x], seen, n)
  BY DEF LogInv
<1>13. PICK n \in Nat : Sound(r, queue[r], accepted[r], Idle, handlers[r], seen, n)
  BY <1>2, <1>12
<1>14. \A x \in Runtimes : \E k \in Nat :
        Sound(x, queue'[x], accepted'[x], work'[x], handlers'[x], seen', k)
  <2>1. CASE m = Garbled
    <3>1. seen' = seen
      <4>1. \A h \in Hands : seen'[h] = seen[h]
        BY <1>6, <2>1
      <4>2. seen' = [h \in Hands |-> seen'[h]] /\ seen = [h \in Hands |-> seen[h]]
        BY <1>6, <1>7
      <4> QED
        BY <4>1, <4>2
    <3>2. /\ Sound(r, Tail(queue[r]), accepted[r], Idle, handlers[r], seen, n)
          /\ \A v : v.msg = Garbled /\ v.left # <<>>
               => Sound(r, queue[r], accepted[r], v, handlers[r], seen, n)
      BY <1>1, <1>2, <1>3, <1>13, <2>1, SoundGarbled DEF m
    <3>3. Sound(r, queue'[r], accepted[r], work'[r], handlers[r], seen, n)
      BY <1>10, <2>1, <3>2
    <3> QED
      BY <1>2, <1>9, <1>12, <3>1, <3>3
  <2>2. CASE m # Garbled
    <3> SUFFICES ASSUME NEW x \in Runtimes
                 PROVE  \E k \in Nat :
                   Sound(x, queue'[x], accepted'[x], work'[x], handlers'[x], seen', k)
      OBVIOUS
    <3>1. PICK k \in Nat : Sound(x, queue[x], accepted[x], work[x], handlers[x], seen, k)
      BY <1>12
    <3> DEFINE z == seen'
    <3>2. Gives(r, handlers[r], seen, z, Decoded(Head(queue[r])).text)
      BY <1>1, <1>6, <2>2 DEF m, Gives
    <3>3. /\ Decoded(Head(queue[r])) = m /\ Decoded(Head(queue[r])) # Garbled
          /\ queue[r] # <<>> /\ Head(queue[r]).op = "send"
      BY <1>1, <1>2, <2>2 DEF m
    <3> HIDE DEF z
    <3> DEFINE q == queue[r]
               a == accepted[r]
               hs == handlers[r]
               s == seen
               p == queue[x]
               b == accepted[x]
               w == work[x]
               fs == handlers[x]
    <3>4. /\ Sound(r, Tail(q), a, Idle, hs, z, n + 1)
          /\ \A v : v.msg = Decoded(Head(q)) /\ v.left # <<>> => Sound(r, q, a, v, hs, z, n)
          /\ x # r => Sound(x, p, b, w, fs, z, k)
      <4>1. /\ q \in Seq(Asked \cup Passed) /\ a \in Seq(Asked)
            /\ s \in [Hands -> Seq([from : Runtimes, text : Nat])]
        BY <1>3, <1>7
      <4>2. Sound(r, q, a, Idle, hs, s, n)
        BY <1>13
      <4>3. x # r => Sound(x, p, b, w, fs, s, k)
        BY <3>1
      <4>4. q # <<>> /\ Head(q).op = "send" /\ Decoded(Head(q)) # Garbled
        BY <3>3
      <4>5. Gives(r, hs, s, z, Decoded(Head(q)).text)
        BY <3>2
      <4> HIDE DEF q, a, hs, s, p, b, w, fs
      <4> QED
        BY <4>1, <4>2, <4>3, <4>4, <4>5, SoundSend
    <3>5. CASE x # r
      <4>1. Sound(x, queue'[x], accepted'[x], work'[x], handlers'[x], z, k)
        BY <1>2, <1>9, <3>4, <3>5
      <4> QED
        BY <4>1 DEF z
    <3>6. CASE x = r
      <4>1. \/ Sound(r, queue'[r], accepted'[r], work'[r], handlers'[r], z, n + 1)
            \/ Sound(r, queue'[r], accepted'[r], work'[r], handlers'[r], z, n)
        BY <1>2, <1>10, <3>3, <3>4
      <4>2. n + 1 \in Nat
        OBVIOUS
      <4> QED
        BY <3>6, <4>1, <4>2 DEF z
    <3> QED
      BY <3>5, <3>6
  <2> QED
    BY <2>1, <2>2
<1> QED
  BY <1>8, <1>11, <1>14 DEF LogInv

\* A runtime's thread passes a message on, and takes it from its queue after the last.
LEMMA PassStep ==
  ASSUME LogInv, NEW r \in Runtimes, PassOn(r)
  PROVE  LogInv'
<1> DEFINE w == work[r]
           x == Head(w.left)
           c == [w.msg EXCEPT !.visited = Append(@, r)]
           last == Len(w.left) = 1
           added == [queue EXCEPT ![x] = Append(@, c)]
<1>1. LogTypes
  BY DEF LogInv
<1>2. /\ queue \in [Runtimes -> Seq(Asked \cup Passed)]
      /\ accepted \in [Runtimes -> Seq(Asked)]
      /\ work \in [Runtimes -> [msg : Asked \cup {Garbled, Nothing}, left : Seq(Runtimes)]]
  BY <1>1 DEF LogTypes
<1>3. /\ w # Idle
      /\ UNCHANGED <<running, handlers, replicants, flushing, seen, accepted>>
      /\ \/ UNCHANGED <<queue, work>>
         \/ /\ queue' = IF last THEN [added EXCEPT ![r] = Tail(@)] ELSE added
            /\ work' = [work EXCEPT ![r] =
                          IF last THEN Idle ELSE [w EXCEPT !.left = Tail(@)]]
  BY DEF PassOn
<1>4. PICK n \in Nat : Sound(r, queue[r], accepted[r], w, handlers[r], seen, n)
  BY DEF LogInv
<1>5. /\ w.left # <<>> /\ queue[r] # <<>>
      /\ Head(queue[r]).op = "send" /\ w.msg = Decoded(Head(queue[r]))
  BY <1>3, <1>4 DEF Sound, Passing
<1>6. w \in [msg : Asked \cup {Garbled, Nothing}, left : Seq(Runtimes)]
  BY <1>2
<1>7. /\ w.left \in Seq(Runtimes) /\ x \in Runtimes /\ Tail(w.left) \in Seq(Runtimes)
      /\ Len(Tail(w.left)) = Len(w.left) - 1
  BY <1>5, <1>6, HeadTailProperties
<1>8. w.msg \in Sent
  <2>1. queue[r] \in Seq(Asked \cup Passed)
    BY <1>2
  <2>2. Head(queue[r]) \in Asked \cup Passed
    BY <1>5, <2>1, HeadTailProperties
  <2> QED
    BY <1>5, <2>2, Shapes
<1>9. c \in Passed /\ ~Direct(c) /\ c.op = "send" /\ c \in Asked \cup Passed
  BY <1>8, Copies
<1>10. CASE UNCHANGED <<queue, work>>
  BY <1>3, <1>10 DEF LogInv, LogTypes
<1>11. CASE /\ queue' = IF last THEN [added EXCEPT ![r] = Tail(@)] ELSE added
            /\ work' = [work EXCEPT ![r] =
                          IF last THEN Idle ELSE [w EXCEPT !.left = Tail(@)]]
  <2> HIDE DEF w, x, c, last
  <2>1. /\ added \in [Runtimes -> Seq(Asked \cup Passed)]
        /\ added[x] = Append(queue[x], c)
        /\ \A y \in Runtimes : y # x => added[y] = queue[y]
    <3>1. Append(queue[x], c) \in Seq(Asked \cup Passed)
      BY <1>2, <1>7, <1>9
    <3> QED
      BY <1>2, <1>7, <3>1
  <2> HIDE DEF added
  <2>2. ASSUME NEW y \in Runtimes
        PROVE  /\ Flushing(y, added[y], flushing)
               /\ \E k \in Nat : Sound(y, added[y], accepted[y], work[y], handlers[y], seen, k)
    <3>1. Flushing(y, queue[y], flushing)
      BY DEF LogInv
    <3>2. PICK k \in Nat : Sound(y, queue[y], accepted[y], work[y], handlers[y], seen, k)
      BY DEF LogInv
    <3>3. CASE y # x
      BY <2>1, <3>1, <3>2, <3>3
    <3>4. CASE y = x
      <4>1. queue[y] \in Seq(Asked \cup Passed) /\ accepted[y] \in Seq(Asked)
        BY <1>2
      <4>2. Sound(y, Append(queue[y], c), accepted[y], work[y], handlers[y], seen, k)
        BY <1>9, <3>2, <4>1, SoundPass
      <4>3. Flushing(y, Append(queue[y], c), flushing)
        <5>1. c.op # "flush"
          BY <1>9
        <5> QED
          BY <1>9, <3>1, <4>1, <5>1, FlushJoin
      <4> QED
        BY <2>1, <3>4, <4>2, <4>3
    <3> QED
      BY <3>3, <3>4
  <2>3. PICK k \in Nat : Sound(r, added[r], accepted[r], w, handlers[r], seen, k)
    BY <2>2 DEF w
  <2>4. added[r] # <<>> /\ added[r] \in Seq(Asked \cup Passed) /\ accepted[r] \in Seq(Asked)
        /\ Tail(added[r]) \in Seq(Asked \cup Passed)
    <3>1. added[r] # <<>>
      BY <1>3, <2>3 DEF Sound, Passing
    <3>2. added[r] \in Seq(Asked \cup Passed)
      BY <2>1
    <3> QED
      BY <1>2, <3>1, <3>2, HeadTailProperties
  <2>5. CASE last
    <3>1. queue' = [added EXCEPT ![r] = Tail(@)] /\ work' = [work EXCEPT ![r] = Idle]
      BY <1>11, <2>5
    <3>2. /\ queue'[r] = Tail(added[r]) /\ work'[r] = Idle
          /\ \A y \in Runtimes : y # r => queue'[y] = added[y] /\ work'[y] = work[y]
      BY <1>2, <2>1, <3>1
    <3>3. \E i \in Nat : Sound(r, Tail(added[r]), accepted[r], Idle, handlers[r], seen, i)
      BY <1>3, <2>3, <2>4, SoundFinish
    <3>4. Flushing(r, Tail(added[r]), flushing)
      BY <2>2, <2>4, FlushTail
    <3>5. \A y \in Runtimes :
            /\ Flushing(y, queue'[y], flushing')
            /\ \E i \in Nat : Sound(y, queue'[y], accepted'[y], work'[y], handlers'[y], seen', i)
      BY <1>3, <2>2, <3>2, <3>3, <3>4
    <3>6. LogTypes'
      <4>1. queue' \in [Runtimes -> Seq(Asked \cup Passed)]
        BY <2>1, <2>4, <3>1
      <4>2. work' \in [Runtimes -> [msg : Asked \cup {Garbled, Nothing}, left : Seq(Runtimes)]]
        BY <1>2, <3>1, IdleType
      <4> QED
        BY <1>1, <1>3, <4>1, <4>2 DEF LogTypes
    <3> QED
      BY <3>5, <3>6 DEF LogInv
  <2>6. CASE ~last
    <3> DEFINE v == [w EXCEPT !.left = Tail(@)]
    <3>1. queue' = added /\ work' = [work EXCEPT ![r] = v]
      BY <1>11, <2>6
    <3>2. v.msg = w.msg /\ v.left = Tail(w.left) /\ v.left # <<>>
          /\ v \in [msg : Asked \cup {Garbled, Nothing}, left : Seq(Runtimes)]
      <4>1. v.msg = w.msg /\ v.left = Tail(w.left)
        BY <1>6
      <4>2. v \in [msg : Asked \cup {Garbled, Nothing}, left : Seq(Runtimes)]
        BY <1>6, <1>7
      <4>3. Len(Tail(w.left)) # 0
        BY <1>7, <2>6 DEF last
      <4>4. Len(<<>>) = 0
        OBVIOUS
      <4> QED
        BY <4>1, <4>2, <4>3, <4>4
    <3> HIDE DEF v
    <3>3. work'[r] = v /\ \A y \in Runtimes : y # r => work'[y] = work[y]
      BY <1>2, <3>1
    <3>4. v # Idle
      BY <3>2 DEF Idle
    <3>5. Handled(v) = Handled(w)
      BY <1>3, <3>2, <3>4 DEF Handled, w
    <3>6. Sound(r, added[r], accepted[r], v, handlers[r], seen, k)
      BY <1>3, <2>3, <3>2, <3>5 DEF Sound, Passing
    <3>7. \A y \in Runtimes :
            /\ Flushing(y, queue'[y], flushing')
            /\ \E i \in Nat : Sound(y, queue'[y], accepted'[y], work'[y], handlers'[y], seen', i)
      BY <1>3, <2>2, <3>1, <3>3, <3>6
    <3>8. LogTypes'
      <4>1. work' \in [Runtimes -> [msg : Asked \cup {Garbled, Nothing}, left : Seq(Runtimes)]]
        BY <1>2, <3>1, <3>2
      <4> QED
        BY <1>1, <1>3, <2>1, <3>1, <4>1 DEF LogTypes
    <3> QED
      BY <3>7, <3>8 DEF LogInv
  <2> QED
    BY <1>11, <2>5, <2>6
<1> QED
  BY <1>3, <1>10, <1>11
\* A client's call is a command of the runtime.
LEMMA ClientSteps ==
  ASSUME LogInv, NEW t \in Threads, NEW r \in Runtimes,
         \/ \E x \in Runtimes : ConnectReplicant(t, r, x) \/ DisconnectReplicant(t, r, x)
         \/ \E h \in Hands : AttachHandler(t, r, h) \/ DetachHandler(t, r, h)
         \/ Log(t, r)
         \/ Flush(t, r)
  PROVE  LogInv'
<1>1. ASSUME NEW x \in Runtimes, ConnectReplicant(t, r, x) \/ DisconnectReplicant(t, r, x)
      PROVE  LogInv'
  <2>1. PICK op \in {"connect", "disconnect"} :
          Command(t, r, [op |-> op, arg |-> x]) /\ UNCHANGED flushing
    BY <1>1 DEF ConnectReplicant, DisconnectReplicant
  <2>2. [op |-> op, arg |-> x] \in Asked
    BY DEF Asked
  <2> QED
    BY <2>1, <2>2, CommandStep
<1>2. ASSUME NEW h \in Hands, AttachHandler(t, r, h) \/ DetachHandler(t, r, h)
      PROVE  LogInv'
  <2>1. PICK op \in {"attach", "detach"} :
          Command(t, r, [op |-> op, arg |-> h]) /\ UNCHANGED flushing
    BY <1>2 DEF AttachHandler, DetachHandler
  <2>2. [op |-> op, arg |-> h] \in Asked
    BY DEF Asked
  <2> QED
    BY <2>1, <2>2, CommandStep
<1>3. CASE Log(t, r)
  <2> DEFINE c == [op |-> "send", visited |-> <<>>, text |-> Len(accepted[r]) + 1]
  <2>1. Command(t, r, c) /\ UNCHANGED flushing
    BY <1>3 DEF Log
  <2>2. c \in Asked /\ c.op = "send" /\ c.text = Len(accepted[r]) + 1
    <3>1. Len(accepted[r]) \in Nat
      BY DEF LogInv, LogTypes
    <3> QED
      BY <3>1 DEF Asked
  <2> HIDE DEF c
  <2> QED
    BY <2>1, <2>2, CommandStep
<1>4. CASE Flush(t, r)
  <2> DEFINE c == [op |-> "flush", arg |-> t]
  <2>1. Command(t, r, c) /\ flushing' = [flushing EXCEPT ![t] = r]
    BY <1>4 DEF Flush
  <2>2. c \in Asked /\ c.op = "flush" /\ c.arg = t
    BY DEF Asked
  <2> HIDE DEF c
  <2> QED
    BY <2>1, <2>2, CommandStep
<1> QED
  BY <1>1, <1>2, <1>3, <1>4

LEMMA NextLog == LogInv /\ [Next]_vars => LogInv'
<1> SUFFICES ASSUME LogInv, [Next]_vars PROVE LogInv'
  OBVIOUS
<1>1. CASE UNCHANGED vars
  BY <1>1 DEF vars, LogInv, LogTypes
<1>2. ASSUME NEW t \in Threads, NEW r \in Runtimes,
             \/ \E x \in Runtimes : ConnectReplicant(t, r, x) \/ DisconnectReplicant(t, r, x)
             \/ \E h \in Hands : AttachHandler(t, r, h) \/ DetachHandler(t, r, h)
             \/ Log(t, r)
             \/ Flush(t, r)
      PROVE  LogInv'
  BY <1>2, ClientSteps
<1>3. ASSUME NEW r \in Runtimes, Destroy(r) PROVE LogInv'
  <2>1. /\ UNCHANGED <<queue, handlers, replicants, work, flushing, seen, accepted>>
        /\ running' = [running EXCEPT ![r] = FALSE]
    BY <1>3 DEF Destroy
  <2>2. LogTypes'
    BY <2>1 DEF LogInv, LogTypes
  <2> QED
    BY <2>1, <2>2 DEF LogInv
<1>4. ASSUME NEW r \in Runtimes, Distribute(r) PROVE LogInv'
  BY <1>4, DistSteps, LogStep, PassStep DEF Distribute
<1>5. ASSUME NEW r \in Runtimes, PassOn(r) PROVE LogInv'
  BY <1>5, PassStep
<1> QED
  BY <1>1, <1>2, <1>3, <1>4, <1>5 DEF Next
-----------------------------------------------------------------------------
(* What the invariant says of the handlers and of the flushes. *)

LEMMA DoneIs ==
  ASSUME LogInv, NEW r \in Runtimes
  PROVE  \E n \in Nat : /\ Sound(r, queue[r], accepted[r], work[r], handlers[r], seen, n)
                        /\ Done(r) = n + Handled(work[r])
                        /\ Done(r) \in 0 .. Len(accepted[r])
<1>1. PICK n \in Nat : Sound(r, queue[r], accepted[r], work[r], handlers[r], seen, n)
  BY DEF LogInv
<1>2. queue[r] \in Seq(Asked \cup Passed) /\ accepted[r] \in Seq(Asked)
  BY DEF LogInv, LogTypes
<1>3. Rest(queue[r], accepted[r], n) /\ Passing(queue[r], work[r])
  BY <1>1 DEF Sound
<1>4. n = Len(accepted[r]) - Cardinality(Places(queue[r]))
  <2>1. accepted[r] \in Seq(Asked \cup Passed)
    BY <1>2
  <2> QED
    BY <1>2, <1>3, <2>1, RestCount
<1>5. Waiting(r) = Places(queue[r])
  <2>1. DOMAIN queue[r] = 1 .. Len(queue[r])
    BY <1>2
  <2> QED
    BY <2>1 DEF Waiting, Places
<1>6. n + Handled(work[r]) \in 0 .. Len(accepted[r]) /\ Handled(work[r]) \in 0 .. 1
  BY <1>2, <1>3, HandledInRange
<1>7. Done(r) = n + Handled(work[r])
  BY <1>4, <1>5 DEF Done, Handled
<1> QED
  BY <1>1, <1>6, <1>7

LEMMA InvSees == LogInv => HandlersSeeTheirLogs
<1> SUFFICES ASSUME LogInv, NEW r \in Runtimes, NEW h \in Hands
             PROVE  Sees(seen[h], r, Given(h, r))
  BY DEF HandlersSeeTheirLogs, Sees
<1>1. PICK n \in Nat : /\ Sound(r, queue[r], accepted[r], work[r], handlers[r], seen, n)
                       /\ Done(r) = n + Handled(work[r])
  BY DoneIs
<1>2. Sees(seen[h], r, GivenIn(accepted[r], h, Done(r)))
  BY <1>1 DEF Sound, Effects
<1>3. Given(h, r) = GivenIn(accepted[r], h, Done(r))
  BY DEF Given, GivenIn, AttachedAt, AttachedIn
<1> QED
  BY <1>2, <1>3

LEMMA InvFlush == LogInv => FlushIsBarrier
<1> SUFFICES ASSUME LogInv, NEW t \in Threads, NEW r \in Runtimes, flushing[t] # r,
                    NEW i \in DOMAIN accepted[r],
                    accepted[r][i] = [op |-> "flush", arg |-> t],
                    ~ i <= Done(r)
             PROVE  FALSE
  BY DEF FlushIsBarrier
<1>1. PICK n \in Nat : /\ Sound(r, queue[r], accepted[r], work[r], handlers[r], seen, n)
                       /\ Done(r) = n + Handled(work[r])
                       /\ Done(r) \in 0 .. Len(accepted[r])
  BY DoneIs
<1>2. queue[r] \in Seq(Asked \cup Passed) /\ accepted[r] \in Seq(Asked)
  BY DEF LogInv, LogTypes
<1>3. Handled(work[r]) \in 0 .. 1
  BY DEF Handled
<1>4. i \in n + 1 .. Len(accepted[r])
  <2>1. i \in 1 .. Len(accepted[r]) /\ Len(accepted[r]) \in Nat
    BY <1>2
  <2>2. \A d, e \in Nat : d = n + e /\ ~ i <= d => i >= n + 1
    BY <2>1
  <2> QED
    BY <1>1, <1>3, <2>1, <2>2
<1>5. PICK j \in Places(queue[r]) : queue[r][j] = accepted[r][i]
  <2>1. PICK f \in [Places(queue[r]) -> n + 1 .. Len(accepted[r])] :
          /\ \A k \in n + 1 .. Len(accepted[r]) : \E j \in Places(queue[r]) : f[j] = k
          /\ \A j \in Places(queue[r]) : queue[r][j] = accepted[r][f[j]]
    BY <1>1 DEF Sound, Rest
  <2> QED
    BY <1>4, <2>1
<1>6. j \in 1 .. Len(queue[r]) /\ queue[r][j].op = "flush" /\ queue[r][j].arg = t
  BY <1>5 DEF Places
<1>7. Flushing(r, queue[r], flushing)
  BY DEF LogInv
<1> QED
  BY <1>6, <1>7 DEF Flushing

\* Always, a handler has been given exactly the messages logged while it was attached,
\* in their order (logging_runtime_t::dist_log_ on the runtime's thread).
THEOREM HandlersSee == Spec => []HandlersSeeTheirLogs
<1>1. Init => LogInv
  BY InitLog
<1>2. LogInv /\ [Next]_vars => LogInv'
  BY NextLog
<1> QED
  BY <1>1, <1>2, InvSees, PTL DEF Spec

\* Always, when a thread is not waiting for a flush of a runtime, all that the runtime
\* had accepted before the thread's flushes has taken effect (logging_runtime_t::flush).
THEOREM FlushesAreBarriers == Spec => []FlushIsBarrier
<1>1. Init => LogInv
  BY InitLog
<1>2. LogInv /\ [Next]_vars => LogInv'
  BY NextLog
<1> QED
  BY <1>1, <1>2, InvFlush, PTL DEF Spec
=============================================================================
