------------------------- MODULE StreamAdapterProofs -------------------------
(***************************************************************************)
(* Proofs that a provider adapter's stream keeps the contract of            *)
(* ModelStream and that one goroutine reads at a time, for any frames a     *)
(* server may send in any order and any number of cancelled and repeated    *)
(* calls.                                                                  *)
(***************************************************************************)
EXTENDS StreamAdapter, FiniteSetTheorems, SequenceTheorems, WellFoundedInduction, NaturalsInduction, TLAPS

-----------------------------------------------------------------------------
(* Sorted enumerations of finite sets of integers.                         *)

Enumerates(order, k, S) ==
  /\ k \in Nat /\ order \in [1 .. k -> S]
  /\ \A m, n \in 1 .. k : m < n => order[m] < order[n]
  /\ \A x \in S : \E n \in 1 .. k : order[n] = x

(* A set of naturals that is not empty has a least element.                *)
LEMMA LeastNatural ==
  ASSUME NEW T \in SUBSET Nat, T # {}
  PROVE \E n \in T : \A m \in T : n <= m
<1>1. PICK n \in T : \A m \in T : <<m, n>> \notin OpToRel(<, Nat)
  BY NatLessThanWellFounded, WFMin
<1>2. \A m \in T : ~(m < n)
  BY <1>1 DEF OpToRel
<1> QED
  BY <1>2

(* An increasing enumeration is the only one.                              *)
LEMMA EnumerationIsUnique ==
  ASSUME NEW S \in SUBSET Int, NEW k, NEW f, NEW g, Enumerates(f, k, S), Enumerates(g, k, S)
  PROVE f = g
<1> DEFINE T == {n \in 1 .. k : f[n] # g[n]}
<1>1. SUFFICES ASSUME T # {} PROVE FALSE
  BY DEF Enumerates
<1>2. T \in SUBSET Nat
  BY DEF Enumerates
<1>3. PICK n \in T : \A m \in T : n <= m
  BY <1>1, <1>2, LeastNatural
<1>4. n \in 1 .. k /\ f[n] # g[n] /\ f[n] \in Int /\ g[n] \in Int /\ k \in Nat
  BY <1>3 DEF Enumerates
<1>5. \A m \in 1 .. k : m < n => f[m] = g[m]
  BY <1>3, <1>4
<1>6. PICK i \in 1 .. k : g[i] = f[n]
  BY <1>4 DEF Enumerates
<1>7. PICK j \in 1 .. k : f[j] = g[n]
  BY <1>4 DEF Enumerates
<1>8. /\ i < n \/ i = n \/ n < i
      /\ j < n \/ j = n \/ n < j
  BY <1>4, <1>6, <1>7
<1>9. i < n => f[i] < f[n]
  BY <1>4, <1>6 DEF Enumerates
<1>10. n < i => g[n] < g[i]
  BY <1>4, <1>6 DEF Enumerates
<1>11. j < n => g[j] < g[n]
  BY <1>4, <1>7 DEF Enumerates
<1>12. n < j => f[n] < f[j]
  BY <1>4, <1>7 DEF Enumerates
<1> QED
  BY <1>4, <1>5, <1>6, <1>7, <1>8, <1>9, <1>10, <1>11, <1>12

(* It has the cardinality of the set, and sorting the set yields it.       *)
LEMMA AscendingEnumerates ==
  ASSUME NEW S \in SUBSET Int, NEW k, NEW f, Enumerates(f, k, S)
  PROVE IsFiniteSet(S) /\ Cardinality(S) = k /\ Ascending(S) = f
<1>1. k \in Nat /\ f \in [1 .. k -> S]
  BY DEF Enumerates
<1>2. \A m, n \in 1 .. k : f[m] = f[n] => m = n
  <2>1. TAKE m, n \in 1 .. k
  <2>2. /\ f[m] \in S /\ f[n] \in S
        /\ m < n \/ m = n \/ n < m
    BY <1>1
  <2>4. f[m] \in Int /\ f[n] \in Int
    BY <2>2
  <2>3. (m < n => f[m] < f[n]) /\ (n < m => f[n] < f[m])
    BY DEF Enumerates
  <2> QED
    BY <2>2, <2>3, <2>4
<1>3. f \in Bijection(1 .. k, S)
  BY <1>1, <1>2 DEF Enumerates, Bijection, Injection, Surjection, IsInjective
<1>4. ExistsBijection(1 .. k, S)
  BY <1>3 DEF ExistsBijection
<1>5. IsFiniteSet(S) /\ Cardinality(S) = k
  BY <1>1, <1>4, FS_CountingElements, FS_Interval, FS_Bijection
<1> DEFINE P(g) == \A m, n \in 1 .. Cardinality(S) : m < n => g[m] < g[n]
           h == Ascending(S)
<1>6. h \in [1 .. Cardinality(S) -> S] /\ P(h)
  BY <1>1, <1>5 DEF Ascending, Enumerates
<1> DEFINE T == {h[n] : n \in 1 .. k}
<1>7. \A m, n \in 1 .. k : h[m] = h[n] => m = n
  <2>1. TAKE m, n \in 1 .. k
  <2>2. /\ h[m] \in S /\ h[n] \in S
        /\ m < n \/ m = n \/ n < m
    BY <1>1, <1>5, <1>6
  <2>4. h[m] \in Int /\ h[n] \in Int
    BY <2>2
  <2>3. (m < n => h[m] < h[n]) /\ (n < m => h[n] < h[m])
    BY <1>5, <1>6
  <2> HIDE DEF h
  <2> QED
    BY <2>2, <2>3, <2>4
<1>8. h \in Bijection(1 .. k, T)
  BY <1>5, <1>6, <1>7 DEF Bijection, Injection, Surjection, IsInjective
<1>9. Cardinality(T) = k /\ T \subseteq S
  <2>1. ExistsBijection(1 .. k, T)
    BY <1>8 DEF ExistsBijection
  <2> QED
    BY <1>1, <1>5, <1>6, <2>1, FS_CountingElements
<1>10. T = S
  BY <1>5, <1>9, FS_Subset
<1>11. \A x \in S : \E n \in 1 .. k : h[n] = x
  BY <1>10
<1>12. Enumerates(h, k, S)
  BY <1>1, <1>5, <1>6, <1>11 DEF Enumerates
<1> HIDE DEF h
<1> QED
  BY <1>5, <1>12, EnumerationIsUnique DEF h

(* A finite set of integers that is not empty has a greatest element.      *)
LEMMA GreatestElement ==
  ASSUME NEW S \in SUBSET Int, IsFiniteSet(S), S # {}
  PROVE \E x \in S : \A y \in S : y <= x
<1> DEFINE Bad == {U \in SUBSET S : U # {} /\ ~\E x \in U : \A y \in U : y <= x}
           T == {Cardinality(U) : U \in Bad}
<1>1. \A U \in SUBSET S : IsFiniteSet(U) /\ Cardinality(U) \in Nat
  BY FS_Subset, FS_CardinalityType
<1>2. SUFFICES ASSUME Bad # {} PROVE FALSE
  OBVIOUS
<1>3. T \in SUBSET Nat /\ T # {}
  BY <1>1, <1>2
<1>4. PICK n \in T : \A m \in T : n <= m
  BY <1>3, LeastNatural
<1>5. PICK U \in Bad : Cardinality(U) = n
  BY <1>4
<1>6. PICK x \in U : x \in Int
  BY <1>5
<1> DEFINE V == U \ {x}
<1>7. Cardinality(V) = n - 1 /\ n \in Nat /\ V \in SUBSET S
  BY <1>1, <1>4, <1>5, <1>6, FS_RemoveElement
<1>8. V \notin Bad
  <2>1. Cardinality(V) \notin T
    BY <1>3, <1>4, <1>7
  <2> QED
    BY <2>1
<1>9. CASE V = {}
  BY <1>5, <1>6, <1>9
<1>10. CASE V # {}
  <2>1. PICK z \in V : \A y \in V : y <= z
    BY <1>7, <1>8, <1>10
  <2>2. z \in Int /\ z \in U
    BY <1>7, <2>1
  <2>3. CASE z <= x
    <3>1. \A y \in U : y <= x
      <4>1. TAKE y \in U
      <4>2. y \in Int
        BY <1>5
      <4> QED
        BY <1>6, <2>1, <2>2, <2>3, <4>2
    <3> QED
      BY <1>5, <1>6, <3>1
  <2>4. CASE x <= z
    BY <1>5, <1>6, <2>1, <2>2, <2>4
  <2> QED
    BY <1>6, <2>2, <2>3, <2>4
<1> QED
  BY <1>9, <1>10

(* Every finite set of integers can be sorted.                             *)
LEMMA AscendingExists ==
  ASSUME NEW S \in SUBSET Int, IsFiniteSet(S)
  PROVE \E k, f : Enumerates(f, k, S)
<1> DEFINE Bad == {U \in SUBSET S : ~\E k, f : Enumerates(f, k, U)}
           T == {Cardinality(U) : U \in Bad}
<1>1. \A U \in SUBSET S : IsFiniteSet(U) /\ Cardinality(U) \in Nat
  BY FS_Subset, FS_CardinalityType
<1>2. SUFFICES ASSUME Bad # {} PROVE FALSE
  OBVIOUS
<1>3. T \in SUBSET Nat /\ T # {}
  BY <1>1, <1>2
<1>4. PICK n \in T : \A m \in T : n <= m
  BY <1>3, LeastNatural
<1>5. PICK U \in Bad : Cardinality(U) = n
  BY <1>4
<1>6. CASE U = {}
  <2>1. Enumerates(<<>>, 0, U)
    BY <1>6 DEF Enumerates
  <2> QED
    BY <1>5, <2>1
<1>7. CASE U # {}
  <2>1. PICK x \in U : \A y \in U : y <= x
    <3>1. U \in SUBSET Int /\ IsFiniteSet(U)
      BY <1>1, <1>5
    <3> QED
      BY <1>7, <3>1, GreatestElement
  <2> DEFINE V == U \ {x}
  <2>2. Cardinality(V) = n - 1 /\ n \in Nat /\ V \in SUBSET S
    BY <1>1, <1>4, <1>5, <2>1, FS_RemoveElement
  <2>3. V \notin Bad
    <3>1. Cardinality(V) \notin T
      BY <1>3, <1>4, <2>2
    <3> QED
      BY <3>1
  <2>4. PICK k, f : Enumerates(f, k, V)
    BY <2>2, <2>3
  <2> DEFINE g == [m \in 1 .. k + 1 |-> IF m = k + 1 THEN x ELSE f[m]]
  <2>5. k \in Nat /\ f \in [1 .. k -> V] /\ x \in Int /\ V \subseteq Int /\ x \in U /\ \A y \in V : y < x
    BY <1>5, <2>1, <2>2, <2>4 DEF Enumerates
  <2>6. g \in [1 .. k + 1 -> U]
    BY <2>5
  <2>7. \A l, m \in 1 .. k + 1 : l < m => g[l] < g[m]
    <3>1. TAKE l, m \in 1 .. k + 1
    <3>2. HAVE l < m
    <3>3. l \in 1 .. k /\ g[l] = f[l] /\ f[l] \in V
      BY <2>5, <3>2
    <3>4. CASE m = k + 1
      BY <2>5, <3>3, <3>4
    <3>5. CASE m # k + 1
      BY <2>4, <2>5, <3>2, <3>3, <3>5 DEF Enumerates
    <3> QED
      BY <3>4, <3>5
  <2>8. \A y \in U : \E m \in 1 .. k + 1 : g[m] = y
    <3>1. TAKE y \in U
    <3>2. CASE y = x
      BY <2>5, <3>2
    <3>3. CASE y # x
      <4>1. PICK m \in 1 .. k : f[m] = y
        BY <2>4, <3>3 DEF Enumerates
      <4> QED
        BY <2>5, <4>1
    <3> QED
      BY <3>2, <3>3
  <2> HIDE DEF g
  <2>9. Enumerates(g, k + 1, U)
    BY <2>5, <2>6, <2>7, <2>8 DEF Enumerates
  <2> QED
    BY <1>5, <2>9
<1> QED
  BY <1>6, <1>7

-----------------------------------------------------------------------------
(* What the invariant is built from.                                       *)

Events == [type : EventTypes, id : Words, amount : Int, stop : StopReasons \cup {""}, sequence : Nat]

Final == {"stop", "error"}

(* A queue continues the events up to a number: the numbers go on, a start *)
(* is the first event of all, and only a last one may be final.            *)
InOrder(q, last, sequence, ends) ==
  /\ q \in Seq(Events) /\ last \in Nat /\ sequence = last + Len(q)
  /\ \A i \in 1 .. Len(q) :
       /\ q[i].sequence = last + i
       /\ q[i].type = "start" <=> last + i = 1
       /\ q[i].type \in Final <=> last + i \in ends

Ends(s) == IF s.done THEN {s.sequence} ELSE {}

(* The queue of an adapter continues what the validator has accepted.      *)
Continues(s, v) ==
  /\ {"queue", "sequence", "done"} \subseteq DOMAIN s
  /\ s.sequence \in Nat /\ s.done \in BOOLEAN /\ 0 \notin Ends(s)
  /\ v \in [last : Nat, started : BOOLEAN, terminal : BOOLEAN]
  /\ InOrder(s.queue, v.last, s.sequence, Ends(s))
  /\ v.started <=> v.last # 0
  /\ v.terminal <=> v.last \in Ends(s)

MessageFields ==
  {"queue", "sequence", "started", "messageDelta", "done", "stopReason", "block", "nextBlock", "seen", "usage"}

ChatFields == {"queue", "sequence", "done", "finish", "calls", "usage"}

Outcomes == {"none", "eof", "cancelled", "refused", "unread", "generated", "abandoned"}

(* Where the consumer and the goroutines are.                              *)
ControlInv ==
  /\ adapter \in {"messages", "chat"}
  /\ outcome \in Outcomes /\ pc \in {"ready", "wait", "close", "done"}
  /\ orphans \in {0, 1}
  /\ streamDone \in BOOLEAN
  /\ orphans = 1 => streamDone /\ outcome \notin {"none", "eof"}
  /\ wire.lost => outcome \notin {"none", "eof"}
  /\ DOMAIN wire = {"begun", "usage", "lost"}
  /\ pc = "wait" => outcome = "none" /\ reader # "none"
  /\ pc # "wait" => reader = "none"
  /\ pc = "ready" /\ outcome # "none" => streamDone /\ outcome # "eof"
  /\ pc \in {"close", "done"} => outcome # "none"

-----------------------------------------------------------------------------
(* The queue.                                                              *)

LEMMA EventFields ==
  ASSUME NEW event \in Events
  PROVE /\ event.type \in EventTypes /\ event.id \in Words /\ event.amount \in Int
        /\ event.stop \in StopReasons \cup {""} /\ event.sequence \in Nat
  BY DEF Events

LEMMA NumberedEvent ==
  ASSUME NEW event \in Events, NEW n \in Nat, NEW e, e = [event EXCEPT !.sequence = n]
  PROVE /\ e \in Events /\ e.sequence = n /\ e.type = event.type /\ e.id = event.id
        /\ e.amount = event.amount /\ e.stop = event.stop
  BY DEF Events

LEMMA QueueGrows ==
  ASSUME NEW S, NEW q \in Seq(S), NEW e \in S, NEW p, p = Append(q, e)
  PROVE /\ p \in Seq(S) /\ p # <<>> /\ Len(p) = Len(q) + 1 /\ Len(q) \in Nat
        /\ \A i \in 1 .. Len(q) : p[i] = q[i]
        /\ p[Len(q) + 1] = e
        /\ q = <<>> <=> Len(q) = 0
  BY AppendProperties, LenProperties, EmptySeq

LEMMA QueueShrinks ==
  ASSUME NEW S, NEW q \in Seq(S), q # <<>>, NEW p, p = Tail(q)
  PROVE /\ Head(q) = q[1] /\ Head(q) \in S /\ Len(q) \in Nat /\ 1 <= Len(q)
        /\ p \in Seq(S) /\ Len(p) = Len(q) - 1
        /\ \A i \in 1 .. Len(p) : p[i] = q[i + 1] /\ i + 1 \in 1 .. Len(q)
        /\ p = <<>> <=> Len(q) = 1
<1>1. /\ Head(q) = q[1] /\ Head(q) \in S
  BY HeadTailProperties
<1>4. Len(q) \in Nat /\ 1 <= Len(q)
  <2>1. Len(q) \in Nat \ {0}
    BY EmptySeq
  <2> QED
    BY <2>1
<1>2. /\ p \in Seq(S) /\ Len(p) = Len(q) - 1
      /\ \A i \in 1 .. Len(p) : p[i] = q[i + 1]
  BY HeadTailProperties
<1>3. p = <<>> <=> Len(p) = 0
  <2>1. p # <<>> => Len(p) \in Nat \ {0}
    BY <1>2, EmptySeq
  <2> QED
    BY <2>1, EmptySeq
<1> QED
  BY <1>1, <1>2, <1>3, <1>4

LEMMA OrderGrows ==
  ASSUME NEW q, NEW last, NEW sequence, InOrder(q, last, sequence, {}), NEW ends, ends \subseteq {sequence + 1},
         NEW e \in Events, e.sequence = sequence + 1,
         e.type \in Final <=> sequence + 1 \in ends, e.type = "start" <=> sequence + 1 = 1,
         NEW p, p = Append(q, e)
  PROVE InOrder(p, last, sequence + 1, ends) /\ p # <<>>
<1>1. q \in Seq(Events) /\ last \in Nat /\ sequence = last + Len(q)
  BY Zenon DEF InOrder
<1>2. /\ p \in Seq(Events) /\ p # <<>> /\ Len(p) = Len(q) + 1 /\ Len(q) \in Nat
      /\ \A i \in 1 .. Len(q) : p[i] = q[i]
      /\ p[Len(q) + 1] = e
  BY <1>1, QueueGrows
<1>3. ASSUME NEW i \in 1 .. Len(p)
      PROVE /\ p[i].sequence = last + i
            /\ p[i].type = "start" <=> last + i = 1
            /\ p[i].type \in Final <=> last + i \in ends
  <2>1. CASE i \in 1 .. Len(q)
    <3>1. p[i] = q[i] /\ last + i # sequence + 1
      BY <1>1, <1>2, <2>1
    <3>2. /\ q[i].sequence = last + i
          /\ q[i].type = "start" <=> last + i = 1
          /\ q[i].type \notin Final
      BY Zenon, <2>1 DEF InOrder
    <3>3. last + i \notin ends
      BY Zenon, <3>1
    <3> QED
      BY Zenon, <3>1, <3>2, <3>3
  <2>2. CASE i = Len(q) + 1
    <3>1. p[i] = e
      BY Zenon, <1>2, <2>2
    <3>2. sequence + 1 = last + i
      BY <1>1, <1>2, <2>2
    <3> QED
      BY Zenon, <3>1, <3>2
  <2>3. i \in 1 .. Len(q) \/ i = Len(q) + 1
    BY <1>2
  <2> QED
    BY Zenon, <2>1, <2>2, <2>3
<1>4. sequence + 1 = last + Len(p)
  BY <1>1, <1>2
<1> QED
  BY Zenon, <1>1, <1>2, <1>3, <1>4 DEF InOrder

LEMMA OrderShrinks ==
  ASSUME NEW q, NEW last, NEW sequence, NEW ends, InOrder(q, last, sequence, ends), q # <<>>
  PROVE /\ Head(q) \in Events /\ Head(q).sequence = last + 1
        /\ Head(q).type = "start" <=> last = 0
        /\ Head(q).type \in Final <=> last + 1 \in ends
        /\ InOrder(Tail(q), last + 1, sequence, ends)
<1>0. PICK e, p : e = Head(q) /\ p = Tail(q)
  BY Zenon
<1>1. q \in Seq(Events) /\ last \in Nat /\ sequence = last + Len(q)
  BY Zenon DEF InOrder
<1>2. /\ e = q[1] /\ e \in Events /\ Len(q) \in Nat /\ 1 <= Len(q)
      /\ p \in Seq(Events) /\ Len(p) = Len(q) - 1
      /\ \A i \in 1 .. Len(p) : p[i] = q[i + 1] /\ i + 1 \in 1 .. Len(q)
  BY <1>0, <1>1, QueueShrinks
<1>3. 1 \in 1 .. Len(q) /\ (last + 1 = 1 <=> last = 0)
  BY <1>1, <1>2
<1>4. /\ q[1].sequence = last + 1
      /\ q[1].type = "start" <=> last + 1 = 1
      /\ q[1].type \in Final <=> last + 1 \in ends
  BY Zenon, <1>3 DEF InOrder
<1>5. ASSUME NEW i \in 1 .. Len(p)
      PROVE /\ p[i].sequence = (last + 1) + i
            /\ p[i].type = "start" <=> (last + 1) + i = 1
            /\ p[i].type \in Final <=> (last + 1) + i \in ends
  <2>1. p[i] = q[i + 1] /\ i + 1 \in 1 .. Len(q)
    BY Zenon, <1>2
  <2>2. /\ q[i + 1].sequence = last + (i + 1)
        /\ q[i + 1].type = "start" <=> last + (i + 1) = 1
        /\ q[i + 1].type \in Final <=> last + (i + 1) \in ends
    BY Zenon, <2>1 DEF InOrder
  <2>3. last + (i + 1) = (last + 1) + i
    BY <1>1, <1>2
  <2> QED
    BY Zenon, <2>1, <2>2, <2>3
<1>6. last + 1 \in Nat /\ sequence = (last + 1) + Len(p)
  BY <1>1, <1>2
<1>7. InOrder(p, last + 1, sequence, ends)
  BY Zenon, <1>2, <1>5, <1>6 DEF InOrder
<1> QED
  BY Zenon, <1>0, <1>2, <1>3, <1>4, <1>7

LEMMA EnqueuedState ==
  ASSUME NEW s, {"queue", "sequence", "done"} \subseteq DOMAIN s, NEW event, NEW r, r = Enqueue(s, event)
  PROVE /\ DOMAIN r = DOMAIN s
        /\ r.sequence = s.sequence + 1
        /\ r.queue = Append(s.queue, [event EXCEPT !.sequence = s.sequence + 1])
        /\ \A f \in DOMAIN s : f \notin {"queue", "sequence"} => r[f] = s[f]
  BY DEF Enqueue

LEMMA EnqueueContinues ==
  ASSUME NEW s, NEW v, Continues(s, v), ~s.done, NEW event \in Events, event.type = "start" <=> s.sequence = 0,
         NEW r, DOMAIN r = DOMAIN s, r.sequence = s.sequence + 1,
         r.queue = Append(s.queue, [event EXCEPT !.sequence = s.sequence + 1]),
         r.done \in BOOLEAN, r.done <=> event.type \in Final
  PROVE Continues(r, v) /\ r.queue # <<>>
<1>1. /\ {"queue", "sequence", "done"} \subseteq DOMAIN s /\ s.sequence \in Nat
      /\ v \in [last : Nat, started : BOOLEAN, terminal : BOOLEAN]
      /\ v.started <=> v.last # 0
      /\ ~v.terminal
      /\ InOrder(s.queue, v.last, s.sequence, {})
  BY Zenon DEF Continues, Ends
<1>2. PICK e : e = [event EXCEPT !.sequence = s.sequence + 1]
  BY Zenon
<1>3. /\ s.sequence + 1 \in Nat /\ s.sequence + 1 # 0 /\ (s.sequence + 1 = 1 <=> s.sequence = 0)
  BY <1>1
<1>4. e \in Events /\ e.sequence = s.sequence + 1 /\ e.type = event.type
  BY <1>2, <1>3, NumberedEvent
<1>5. /\ Ends(r) \subseteq {s.sequence + 1} /\ 0 \notin Ends(r)
      /\ e.type \in Final <=> s.sequence + 1 \in Ends(r)
      /\ e.type = "start" <=> s.sequence + 1 = 1
      /\ r.queue = Append(s.queue, e)
  BY Zenon, <1>2, <1>3, <1>4 DEF Ends
<1>6. InOrder(r.queue, v.last, s.sequence + 1, Ends(r)) /\ r.queue # <<>>
  <2>1. PICK q, last, sequence, p, ends :
          q = s.queue /\ last = v.last /\ sequence = s.sequence /\ p = r.queue /\ ends = Ends(r)
    BY Zenon
  <2>2. /\ InOrder(q, last, sequence, {}) /\ ends \subseteq {sequence + 1} /\ p = Append(q, e)
        /\ e.sequence = sequence + 1
        /\ e.type \in Final <=> sequence + 1 \in ends
        /\ e.type = "start" <=> sequence + 1 = 1
    BY Zenon, <1>1, <1>4, <1>5, <2>1
  <2>3. InOrder(p, last, sequence + 1, ends) /\ p # <<>>
    BY ZenonT(30), <1>4, <2>2, OrderGrows
  <2> QED
    BY Zenon, <2>1, <2>3
<1>7. v.last # s.sequence + 1
  <2>1. s.sequence = v.last + Len(s.queue) /\ v.last \in Nat /\ Len(s.queue) \in Nat
    <3>1. s.sequence = v.last + Len(s.queue) /\ v.last \in Nat /\ s.queue \in Seq(Events)
      BY Zenon, <1>1 DEF InOrder
    <3> QED
      BY <3>1, LenProperties
  <2> QED
    BY <2>1
<1>8. v.last \notin Ends(r)
  BY Zenon, <1>5, <1>7
<1> QED
  BY Zenon, <1>1, <1>3, <1>5, <1>6, <1>8 DEF Continues

LEMMA SameContinues ==
  ASSUME NEW s, NEW v, Continues(s, v), NEW r, DOMAIN r = DOMAIN s,
         r.queue = s.queue, r.sequence = s.sequence, r.done = s.done
  PROVE Continues(r, v)
  BY Zenon DEF Continues, Ends

LEMMA QueueHead ==
  ASSUME NEW s, NEW v, Continues(s, v), s.queue # <<>>
  PROVE /\ Head(s.queue) \in Events /\ Head(s.queue).sequence = v.last + 1
        /\ Head(s.queue).type = "start" <=> ~v.started
        /\ Head(s.queue).type \in Final <=> v.last + 1 \in Ends(s)
        /\ InOrder(Tail(s.queue), v.last + 1, s.sequence, Ends(s))
        /\ ~v.terminal
<1>1. InOrder(s.queue, v.last, s.sequence, Ends(s)) /\ v.started \in BOOLEAN /\ (v.started <=> v.last # 0)
  BY Zenon DEF Continues
<1>2. /\ Head(s.queue) \in Events /\ Head(s.queue).sequence = v.last + 1
      /\ Head(s.queue).type = "start" <=> v.last = 0
      /\ Head(s.queue).type \in Final <=> v.last + 1 \in Ends(s)
      /\ InOrder(Tail(s.queue), v.last + 1, s.sequence, Ends(s))
  BY Zenon, <1>1, OrderShrinks
<1>3. v.last # s.sequence
  <2>1. s.sequence = v.last + Len(s.queue) /\ v.last \in Nat /\ s.queue \in Seq(Events)
    BY Zenon, <1>1 DEF InOrder
  <2>2. Len(s.queue) \in Nat \ {0}
    BY <2>1, EmptySeq, LenProperties
  <2> QED
    BY <2>1, <2>2
<1>4. ~v.terminal
  BY Zenon, <1>3 DEF Continues, Ends
<1> QED
  BY Zenon, <1>1, <1>2, <1>4

(* The validator accepts the next event, if it is valid in itself.         *)
LEMMA NextIsAccepted ==
  ASSUME NEW s, NEW v, Continues(s, v), s.queue # <<>>, Valid(Head(s.queue))
  PROVE Accepts(v, Head(s.queue))
  BY Zenon, QueueHead DEF Accepts

LEMMA AcceptedFields ==
  ASSUME NEW v, NEW event, event.sequence \in Nat, NEW u, u = Accepted(v, event)
  PROVE /\ u \in [last : Nat, started : BOOLEAN, terminal : BOOLEAN]
        /\ u.last = event.sequence /\ u.started
        /\ u.terminal <=> event.type \in Final
<1>1. u \in [last : Nat, started : BOOLEAN, terminal : BOOLEAN] /\ u.last = event.sequence /\ u.started
  BY DEF Accepted
<1>2. u.terminal <=> event.type \in Final
  BY DEF Accepted, Final
<1> QED
  BY Zenon, <1>1, <1>2

LEMMA DeliverContinues ==
  ASSUME NEW s, NEW v, Continues(s, v), s.queue # <<>>,
         NEW r, DOMAIN r = DOMAIN s, r.queue = Tail(s.queue), r.sequence = s.sequence, r.done = s.done,
         NEW u, u = Accepted(v, Head(s.queue))
  PROVE Continues(r, u)
<1>1. /\ {"queue", "sequence", "done"} \subseteq DOMAIN s /\ s.sequence \in Nat /\ s.done \in BOOLEAN
      /\ 0 \notin Ends(s) /\ v.last \in Nat /\ Ends(r) = Ends(s)
  BY Zenon DEF Continues, Ends
<1>2. /\ Head(s.queue).sequence = v.last + 1
      /\ Head(s.queue).type \in Final <=> v.last + 1 \in Ends(s)
      /\ InOrder(r.queue, v.last + 1, s.sequence, Ends(s))
  BY Zenon, QueueHead
<1>3. v.last + 1 \in Nat /\ v.last + 1 # 0
  BY <1>1
<1>4. /\ u \in [last : Nat, started : BOOLEAN, terminal : BOOLEAN]
      /\ u.last = v.last + 1 /\ u.started /\ (u.terminal <=> Head(s.queue).type \in Final)
  BY Zenon, <1>2, <1>3, AcceptedFields
<1> QED
  BY Zenon, <1>1, <1>2, <1>3, <1>4 DEF Continues

-----------------------------------------------------------------------------
(* The events of the adapters.                                             *)

LEMMA ChangedEvent ==
  ASSUME NEW event \in Events, NEW id \in Words, NEW amount \in Int, NEW stop \in StopReasons
  PROVE /\ [event EXCEPT !.id = id] \in Events /\ [event EXCEPT !.id = id].type = event.type
        /\ [event EXCEPT !.amount = amount] \in Events /\ [event EXCEPT !.amount = amount].type = event.type
        /\ [event EXCEPT !.stop = stop] \in Events /\ [event EXCEPT !.stop = stop].type = event.type
<1>1. [event EXCEPT !.id = id] \in Events /\ [event EXCEPT !.id = id].type = event.type
  BY DEF Events
<1>2. [event EXCEPT !.amount = amount] \in Events /\ [event EXCEPT !.amount = amount].type = event.type
  BY DEF Events
<1>3. [event EXCEPT !.stop = stop] \in Events /\ [event EXCEPT !.stop = stop].type = event.type
  BY DEF Events
<1> QED
  BY Zenon, <1>1, <1>2, <1>3

LEMMA PlainEvent ==
  ASSUME NEW type \in EventTypes
  PROVE /\ Plain(type) \in Events /\ Plain(type).type = type
        /\ \A id \in Words : [Plain(type) EXCEPT !.id = id] \in Events /\ [Plain(type) EXCEPT !.id = id].type = type
        /\ \A n \in Int : [Plain(type) EXCEPT !.amount = n] \in Events /\ [Plain(type) EXCEPT !.amount = n].type = type
        /\ \A stop \in StopReasons :
             [Plain(type) EXCEPT !.stop = stop] \in Events /\ [Plain(type) EXCEPT !.stop = stop].type = type
<1>1. <<>> \in Words /\ 0 \in Int /\ "end_turn" \in StopReasons
  BY DEF Words, StopReasons
<1>2. Plain(type) \in Events /\ Plain(type).type = type
  BY <1>1 DEF Plain, Events
<1> QED
  BY Zenon, <1>1, <1>2, ChangedEvent

LEMMA FinalTypes ==
  /\ "start" \notin Final /\ Final \subseteq EventTypes
  /\ {"start", "text", "delta", "call", "usage"} \cap Final = {}
  /\ {"start", "text", "delta", "call", "usage", "stop", "error"} \subseteq EventTypes
  /\ {"text", "delta", "call", "usage", "stop", "error"} \cap {"start"} = {}
  BY DEF Final, EventTypes

(* What an adapter does with an event keeps the order.                     *)
(* A record differs from another at most in some fields.                   *)
Kept(s, r, changed) == DOMAIN r = DOMAIN s /\ \A f \in DOMAIN s : f \notin changed => r[f] = s[f]

LEMMA Enqueues ==
  ASSUME NEW s, NEW v, Continues(s, v), ~s.done, NEW event \in Events, event.type \notin Final,
         event.type = "start" <=> s.sequence = 0, NEW r, r = Enqueue(s, event)
  PROVE /\ Continues(r, v) /\ r.queue # <<>> /\ ~r.done /\ r.sequence # 0
        /\ Kept(s, r, {"queue", "sequence"})
<1>1. {"queue", "sequence", "done"} \subseteq DOMAIN s /\ s.sequence \in Nat /\ s.done \in BOOLEAN
  BY Zenon DEF Continues
<1>2. /\ DOMAIN r = DOMAIN s /\ r.sequence = s.sequence + 1
      /\ r.queue = Append(s.queue, [event EXCEPT !.sequence = s.sequence + 1])
      /\ \A f \in DOMAIN s : f \notin {"queue", "sequence"} => r[f] = s[f]
  BY <1>1 DEF Enqueue
<1>3. "done" \in DOMAIN s /\ "done" \notin {"queue", "sequence"}
  BY <1>1
<1>4. r.done = s.done
  BY Zenon, <1>2, <1>3
<1>5. r.sequence # 0
  BY <1>1, <1>2
<1>6. r.done \in BOOLEAN /\ (r.done <=> event.type \in Final)
  BY Zenon, <1>1, <1>4
<1>7. Continues(r, v) /\ r.queue # <<>>
  BY Zenon, <1>2, <1>6, EnqueueContinues
<1> QED
  BY Zenon, <1>2, <1>4, <1>5, <1>7 DEF Kept

LEMMA Finishes ==
  ASSUME NEW s, NEW v, Continues(s, v), ~s.done, s.sequence # 0, NEW event \in Events, event.type \in Final,
         NEW r, r = [Enqueue(s, event) EXCEPT !.done = TRUE]
  PROVE /\ Continues(r, v) /\ r.queue # <<>> /\ r.done /\ r.sequence # 0
        /\ Kept(s, r, {"queue", "sequence", "done"})
<1>1. {"queue", "sequence", "done"} \subseteq DOMAIN s /\ s.sequence \in Nat
  BY Zenon DEF Continues
<1>2. PICK b : b = Enqueue(s, event)
  BY Zenon
<1>3. /\ DOMAIN b = DOMAIN s /\ b.sequence = s.sequence + 1
      /\ b.queue = Append(s.queue, [event EXCEPT !.sequence = s.sequence + 1])
      /\ \A f \in DOMAIN s : f \notin {"queue", "sequence"} => b[f] = s[f]
  BY <1>1, <1>2 DEF Enqueue
<1>4. r = [b EXCEPT !.done = TRUE]
  BY Zenon, <1>2
<1>5. /\ DOMAIN r = DOMAIN b /\ r.done = TRUE /\ r.sequence = b.sequence /\ r.queue = b.queue
      /\ \A f \in DOMAIN b : f # "done" => r[f] = b[f]
  BY <1>1, <1>3, <1>4
<1>6. /\ DOMAIN r = DOMAIN s /\ r.sequence = s.sequence + 1 /\ r.done
      /\ r.queue = Append(s.queue, [event EXCEPT !.sequence = s.sequence + 1])
      /\ \A f \in DOMAIN s : f \notin {"queue", "sequence", "done"} => r[f] = s[f]
  BY Zenon, <1>3, <1>5
<1>7. r.sequence # 0
  BY <1>1, <1>6
<1>8. event.type # "start"
  BY Zenon, FinalTypes
<1>9. PICK c : c = r
  BY Zenon
<1>10. /\ DOMAIN c = DOMAIN s /\ c.sequence = s.sequence + 1
       /\ c.queue = Append(s.queue, [event EXCEPT !.sequence = s.sequence + 1])
       /\ c.done \in BOOLEAN
       /\ c.done <=> event.type \in Final
       /\ event.type = "start" <=> s.sequence = 0
  BY Zenon, <1>5, <1>6, <1>8, <1>9
<1>11. Continues(c, v) /\ c.queue # <<>>
  BY Zenon, <1>10, EnqueueContinues
<1> QED
  BY Zenon, <1>6, <1>7, <1>9, <1>11 DEF Kept

-----------------------------------------------------------------------------
(* The handlers keep the order.                                            *)

NamesCall(block) == DOMAIN block = {"index", "kind", "id", "input"} /\ block.id \in Words

MessageOrder(s, v) ==
  /\ Continues(s, v)
  /\ DOMAIN s = MessageFields
  /\ s.started \in BOOLEAN /\ (s.started <=> s.sequence # 0)
  /\ s.usage \in Nat /\ NamesCall(s.block)

(* A state that differs from another only outside of its queue, when it    *)
(* enqueues an event that may come next.                                   *)
Prepares(s, b) ==
  /\ DOMAIN b = MessageFields /\ b.queue = s.queue /\ b.sequence = s.sequence /\ b.done = s.done
  /\ b.started = TRUE /\ b.usage \in Nat /\ NamesCall(b.block)

MayFollow(event, s) ==
  event \in Events /\ event.type \notin Final /\ (event.type = "start" <=> s.sequence = 0)

LEMMA MessageTells ==
  ASSUME NEW s, NEW v, MessageOrder(s, v), ~s.done, NEW b, Prepares(s, b), NEW event, MayFollow(event, s),
         NEW r, r = Enqueue(b, event)
  PROVE MessageOrder(r, v) /\ ~r.done /\ r.sequence # 0
<1>0. /\ DOMAIN b = MessageFields /\ b.queue = s.queue /\ b.sequence = s.sequence /\ b.done = s.done
      /\ b.started = TRUE /\ b.usage \in Nat /\ NamesCall(b.block)
  BY Zenon DEF Prepares
<1>1. Continues(b, v) /\ ~b.done
  BY Zenon, <1>0, SameContinues DEF MessageOrder
<1>2. event \in Events /\ event.type \notin Final /\ (event.type = "start" <=> b.sequence = 0)
  BY Zenon, <1>0 DEF MayFollow
<1>3. Continues(r, v) /\ r.queue # <<>> /\ ~r.done /\ r.sequence # 0 /\ Kept(b, r, {"queue", "sequence"})
  BY Zenon, <1>1, <1>2, Enqueues
<1>4. \A f \in {"started", "usage", "block"} : f \in MessageFields /\ f \notin {"queue", "sequence"}
  BY DEF MessageFields
<1>5. DOMAIN r = MessageFields /\ r.started = b.started /\ r.usage = b.usage /\ r.block = b.block
  BY Zenon, <1>0, <1>3, <1>4 DEF Kept
<1>6. r.started = TRUE /\ r.usage \in Nat /\ NamesCall(r.block)
  BY Zenon, <1>0, <1>5
<1> QED
  BY Zenon, <1>3, <1>5, <1>6 DEF MessageOrder

LEMMA MessageEnds ==
  ASSUME NEW s, NEW v, MessageOrder(s, v), ~s.done, s.sequence # 0,
         NEW event \in Events, event.type \in Final, NEW r, r = [Enqueue(s, event) EXCEPT !.done = TRUE]
  PROVE MessageOrder(r, v)
<1>1. Continues(r, v) /\ r.done /\ r.sequence # 0 /\ Kept(s, r, {"queue", "sequence", "done"})
  BY Zenon, Finishes DEF MessageOrder
<1>2. \A f \in {"started", "usage", "block"} : f \in MessageFields /\ f \notin {"queue", "sequence", "done"}
  BY DEF MessageFields
<1>3. DOMAIN r = MessageFields /\ r.started = s.started /\ r.usage = s.usage /\ r.block = s.block
  BY Zenon, <1>1, <1>2 DEF MessageOrder, Kept
<1> QED
  BY Zenon, <1>1, <1>3 DEF MessageOrder

LEMMA MessageSame ==
  ASSUME NEW s, NEW v, MessageOrder(s, v),
         NEW r, DOMAIN r = MessageFields, r.queue = s.queue, r.sequence = s.sequence, r.done = s.done,
         r.started = s.started, r.usage \in Nat, NamesCall(r.block)
  PROVE MessageOrder(r, v)
  BY Zenon, SameContinues DEF MessageOrder

LEMMA MeteredOrder ==
  ASSUME NEW s, NEW v, MessageOrder(s, v), ~s.done, s.sequence # 0, NEW report \in Reports,
         NEW r \in Metered(s, report)
  PROVE MessageOrder(r, v)
<1>1. CASE r = s
  BY Zenon, <1>1
<1>2. CASE r # s
  <2>1. PICK b, event : /\ b = [s EXCEPT !.usage = report]
                        /\ event = [Plain("usage") EXCEPT !.amount = Increment(s.usage, report)]
    BY Zenon
  <2>2. r = Enqueue(b, event) /\ report # Nothing /\ ~(report < 0)
    BY <1>2, <2>1 DEF Metered
  <2>3. report \in Nat
    BY <2>2 DEF Reports, Nothing
  <2>4. s.usage \in Nat /\ DOMAIN s = MessageFields /\ s.started = TRUE /\ NamesCall(s.block)
    BY Zenon DEF MessageOrder
  <2>5. MayFollow(event, s)
    <3>1. Increment(s.usage, report) \in Int
      BY <2>3, <2>4 DEF Increment
    <3>2. "usage" \in EventTypes /\ "usage" \notin Final /\ "usage" # "start"
      BY DEF EventTypes, Final
    <3> QED
      BY Zenon, <2>1, <3>1, <3>2, PlainEvent DEF MayFollow
  <2>6. Prepares(s, b)
    <3>1. /\ DOMAIN b = MessageFields /\ b.queue = s.queue /\ b.sequence = s.sequence /\ b.done = s.done
          /\ b.started = s.started /\ b.usage = report /\ b.block = s.block
      BY <2>1, <2>4 DEF MessageFields
    <3> QED
      BY Zenon, <2>3, <2>4, <3>1 DEF Prepares
  <2> QED
    BY Zenon, <2>2, <2>5, <2>6, MessageTells
<1> QED
  BY Zenon, <1>1, <1>2

LEMMA FrameFields ==
  ASSUME NEW f \in MessageFrames
  PROVE /\ f.type \in {"message_start", "message_delta"} => f.usage \in Reports
        /\ f.type = "content_block_start" => f.id \in Words /\ f.index \in Int
<1> DEFINE Bare == [type : {"malformed", "unnamed", "ping", "error", "message_stop", "unheard_of"}]
           Start == [type : {"message_start"}, whole : BOOLEAN, usage : Reports]
           Open == [type : {"content_block_start"}, whole : BOOLEAN, index : Int, kind : {"text", "tool_use", "image"},
                    id : Words, input : {"empty", "whole"}, text : BOOLEAN]
           Delta == [type : {"content_block_delta"}, whole : BOOLEAN, index : Int,
                     kind : {"text_delta", "input_json_delta", "other"}, fragment : Fragments \cup {""}]
           Stop == [type : {"content_block_stop"}, index : Int]
           End == [type : {"message_delta"}, whole : BOOLEAN, reason : {"", "end_turn", "tool_use", "refusal"},
                   usage : Reports]
<1>1. f \in Bare \/ f \in Start \/ f \in Open \/ f \in Delta \/ f \in Stop \/ f \in End
  BY Zenon DEF MessageFrames
<1>2. f \in Bare => f.type \notin {"message_start", "message_delta", "content_block_start"}
  OBVIOUS
<1>3. f \in Start => f.type # "content_block_start" /\ f.usage \in Reports
  OBVIOUS
<1>4. f \in Open => f.type \notin {"message_start", "message_delta"} /\ f.id \in Words /\ f.index \in Int
  OBVIOUS
<1>5. f \in Delta \/ f \in Stop => f.type \notin {"message_start", "message_delta", "content_block_start"}
  OBVIOUS
<1>6. f \in End => f.type # "content_block_start" /\ f.usage \in Reports
  OBVIOUS
<1> HIDE DEF Bare, Start, Open, Delta, Stop, End
<1> QED
  BY Zenon, <1>1, <1>2, <1>3, <1>4, <1>5, <1>6

LEMMA HandlerOf ==
  ASSUME NEW s, NEW f, NEW r \in Consume(s, f)
  PROVE \/ r = s
        \/ f.type = "error" /\ r \in ErrorFrame(s)
        \/ f.type = "message_start" /\ r \in MessageStart(s, f)
        \/ /\ s.started
           /\ \/ f.type = "content_block_start" /\ r \in BlockStart(s, f)
              \/ f.type = "content_block_delta" /\ r \in BlockDelta(s, f)
              \/ f.type = "content_block_stop" /\ r \in BlockStop(s, f)
              \/ f.type = "message_delta" /\ r \in MessageDelta(s, f)
              \/ f.type = "message_stop" /\ r \in MessageStop(s)
<1>1. CASE f.type \in {"malformed", "unnamed", "ping"}
  BY <1>1 DEF Consume
<1>2. CASE f.type = "error"
  BY <1>2 DEF Consume
<1>3. CASE f.type = "message_start"
  BY <1>3 DEF Consume
<1>4. CASE f.type = "content_block_start"
  BY <1>4 DEF Consume, Misplaced
<1>5. CASE f.type = "content_block_delta"
  BY <1>5 DEF Consume, Misplaced
<1>6. CASE f.type = "content_block_stop"
  BY <1>6 DEF Consume, Misplaced
<1>7. CASE f.type = "message_delta"
  BY <1>7 DEF Consume, Misplaced
<1>8. CASE f.type = "message_stop"
  BY <1>8 DEF Consume, Misplaced
<1>9. CASE f.type \notin {"malformed", "unnamed", "ping", "error", "message_start", "content_block_start",
                          "content_block_delta", "content_block_stop", "message_delta", "message_stop"}
  BY <1>9 DEF Consume
<1> QED
  BY Zenon, <1>1, <1>2, <1>3, <1>4, <1>5, <1>6, <1>7, <1>8, <1>9

(* A start, before an error that comes first or as the first event.        *)
LEMMA StartOrder ==
  ASSUME NEW s, NEW v, MessageOrder(s, v), ~s.done, ~s.started,
         NEW r, r = Enqueue([s EXCEPT !.started = TRUE], Plain("start"))
  PROVE MessageOrder(r, v) /\ ~r.done /\ r.sequence # 0
<1>1. PICK b : b = [s EXCEPT !.started = TRUE]
  BY Zenon
<1>2. DOMAIN s = MessageFields /\ s.sequence = 0 /\ s.usage \in Nat /\ NamesCall(s.block)
  BY Zenon DEF MessageOrder
<1>3. Prepares(s, b)
  <2>1. /\ DOMAIN b = MessageFields /\ b.queue = s.queue /\ b.sequence = s.sequence /\ b.done = s.done
        /\ b.started = TRUE /\ b.usage = s.usage /\ b.block = s.block
    BY <1>1, <1>2 DEF MessageFields
  <2> QED
    BY Zenon, <1>2, <2>1 DEF Prepares
<1>4. MayFollow(Plain("start"), s)
  <2>1. "start" \in EventTypes /\ "start" \notin Final
    BY DEF EventTypes, Final
  <2> QED
    BY Zenon, <1>2, <2>1, PlainEvent DEF MayFollow
<1> QED
  BY Zenon, <1>1, <1>3, <1>4, MessageTells

LEMMA ErrorOrder ==
  ASSUME NEW s, NEW v, MessageOrder(s, v), ~s.done, NEW r \in ErrorFrame(s)
  PROVE MessageOrder(r, v)
<1>1. PICK begun : begun = IF s.started THEN s ELSE Enqueue([s EXCEPT !.started = TRUE], Plain("start"))
  BY Zenon
<1>2. MessageOrder(begun, v) /\ ~begun.done /\ begun.sequence # 0
  <2>1. CASE s.started
    BY Zenon, <1>1, <2>1 DEF MessageOrder
  <2>2. CASE ~s.started
    BY Zenon, <1>1, <2>2, StartOrder
  <2> QED
    BY Zenon, <2>1, <2>2
<1>3. PICK event : event = Plain("error")
  BY Zenon
<1>4. r = [Enqueue(begun, event) EXCEPT !.done = TRUE]
  BY Zenon, <1>1, <1>3 DEF ErrorFrame
<1>5. event \in Events /\ event.type \in Final
  <2>1. "error" \in EventTypes /\ "error" \in Final
    BY DEF EventTypes, Final
  <2> QED
    BY Zenon, <1>3, <2>1, PlainEvent
<1> QED
  BY Zenon, <1>2, <1>4, <1>5, MessageEnds

LEMMA PlainFollows ==
  ASSUME NEW s, s.sequence # 0, NEW type \in {"text", "delta", "call", "usage"}
  PROVE /\ MayFollow(Plain(type), s)
        /\ \A id \in Words : MayFollow([Plain(type) EXCEPT !.id = id], s)
<1>1. type \in EventTypes /\ type \notin Final /\ type # "start"
  BY DEF EventTypes, Final
<1> QED
  BY Zenon, <1>1, PlainEvent DEF MayFollow

LEMMA MessageStartOrder ==
  ASSUME NEW s, NEW v, MessageOrder(s, v), ~s.done, NEW f \in MessageFrames, f.type = "message_start",
         NEW r \in MessageStart(s, f)
  PROVE MessageOrder(r, v)
<1>1. PICK b : b = Enqueue([s EXCEPT !.started = TRUE], Plain("start"))
  BY Zenon
<1>2. ~s.started /\ r \in Metered(b, f.usage)
  BY Zenon, <1>1 DEF MessageStart
<1>3. MessageOrder(b, v) /\ ~b.done /\ b.sequence # 0
  BY Zenon, <1>1, <1>2, StartOrder
<1>4. f.usage \in Reports
  BY Zenon, FrameFields
<1> QED
  BY Zenon, <1>2, <1>3, <1>4, MeteredOrder

LEMMA BlockStartOrder ==
  ASSUME NEW s, NEW v, MessageOrder(s, v), ~s.done, s.started,
         NEW f \in MessageFrames, f.type = "content_block_start", NEW r \in BlockStart(s, f)
  PROVE MessageOrder(r, v)
<1>1. PICK b : b = Opened(s, f)
  BY Zenon
<1>2. DOMAIN s = MessageFields /\ s.sequence # 0 /\ s.usage \in Nat /\ s.started = TRUE /\ f.id \in Words /\ <<>> \in Words
  <2>1. f.id \in Words
    BY Zenon, FrameFields
  <2>2. <<>> \in Words
    BY DEF Words
  <2> QED
    BY Zenon, <2>1, <2>2 DEF MessageOrder
<1>3. Prepares(s, b)
  <2>1. /\ DOMAIN b = MessageFields /\ b.queue = s.queue /\ b.sequence = s.sequence /\ b.done = s.done
        /\ b.started = s.started /\ b.usage = s.usage
    BY <1>1, <1>2 DEF MessageFields, Opened
  <2>2. DOMAIN b.block = {"index", "kind", "id", "input"} /\ b.block.id \in {<<>>, f.id}
    BY <1>1, <1>2 DEF MessageFields, Opened, NoBlock
  <2>3. NamesCall(b.block)
    BY Zenon, <1>2, <2>2 DEF NamesCall
  <2> QED
    BY Zenon, <1>2, <2>1, <2>3 DEF Prepares
<1>4. \/ r = b
      \/ r = Enqueue(b, Plain("text"))
      \/ r = Enqueue(b, [Plain("delta") EXCEPT !.id = f.id])
  BY Zenon, <1>1 DEF BlockStart
<1>5. CASE r = b
  <2>1. /\ DOMAIN r = MessageFields /\ r.queue = s.queue /\ r.sequence = s.sequence /\ r.done = s.done
        /\ r.started = s.started /\ r.usage \in Nat /\ NamesCall(r.block)
    BY Zenon, <1>2, <1>3, <1>5 DEF Prepares
  <2> QED
    BY Zenon, <2>1, MessageSame
<1>6. CASE r # b
  <2>1. MayFollow(Plain("text"), s) /\ MayFollow([Plain("delta") EXCEPT !.id = f.id], s)
    BY Zenon, <1>2, PlainFollows
  <2> QED
    BY Zenon, <1>3, <1>4, <1>6, <2>1, MessageTells
<1> QED
  BY Zenon, <1>5, <1>6

LEMMA BlockDeltaOrder ==
  ASSUME NEW s, NEW v, MessageOrder(s, v), ~s.done, s.started, NEW f, NEW r \in BlockDelta(s, f)
  PROVE MessageOrder(r, v)
<1>1. PICK b : b = [s EXCEPT !.block.input = Extended(@, f.fragment)]
  BY Zenon
<1>2. DOMAIN s = MessageFields /\ s.sequence # 0 /\ s.usage \in Nat /\ s.started = TRUE /\ NamesCall(s.block)
  BY Zenon DEF MessageOrder
<1>3. r = Enqueue(s, Plain("text")) \/ r = Enqueue(b, Plain("delta"))
  BY Zenon, <1>1 DEF BlockDelta
<1>4. Prepares(s, s)
  BY Zenon, <1>2 DEF Prepares
<1>5. Prepares(s, b)
  <2>1. /\ DOMAIN b = MessageFields /\ b.queue = s.queue /\ b.sequence = s.sequence /\ b.done = s.done
        /\ b.started = s.started /\ b.usage = s.usage
        /\ b.block = [s.block EXCEPT !.input = Extended(s.block.input, f.fragment)]
    BY <1>1, <1>2 DEF MessageFields
  <2>2. DOMAIN b.block = DOMAIN s.block /\ b.block.id = s.block.id
    BY <1>2, <2>1 DEF NamesCall
  <2>3. NamesCall(b.block)
    BY Zenon, <1>2, <2>2 DEF NamesCall
  <2> QED
    BY Zenon, <1>2, <2>1, <2>3 DEF Prepares
<1>6. MayFollow(Plain("text"), s) /\ MayFollow(Plain("delta"), s)
  BY Zenon, <1>2, PlainFollows
<1> QED
  BY Zenon, <1>3, <1>4, <1>5, <1>6, MessageTells

LEMMA BlockStopOrder ==
  ASSUME NEW s, NEW v, MessageOrder(s, v), ~s.done, s.started, NEW f, NEW r \in BlockStop(s, f)
  PROVE MessageOrder(r, v)
<1>1. PICK b, c : /\ b = [s EXCEPT !.block = NoBlock]
                  /\ c = [s EXCEPT !.block = NoBlock, !.seen = Marked(s)]
  BY Zenon
<1>2. DOMAIN s = MessageFields /\ s.sequence # 0 /\ s.usage \in Nat /\ s.started = TRUE /\ s.block.id \in Words
  BY Zenon DEF MessageOrder, NamesCall
<1>3. NamesCall(NoBlock)
  BY DEF NamesCall, NoBlock, Words
<1>4. r = b \/ r = Enqueue(c, [Plain("call") EXCEPT !.id = s.block.id])
  BY Zenon, <1>1 DEF BlockStop
<1>5. /\ DOMAIN b = MessageFields /\ b.queue = s.queue /\ b.sequence = s.sequence /\ b.done = s.done
      /\ b.started = s.started /\ b.usage = s.usage /\ b.block = NoBlock
  BY <1>1, <1>2 DEF MessageFields
<1>6. /\ DOMAIN c = MessageFields /\ c.queue = s.queue /\ c.sequence = s.sequence /\ c.done = s.done
      /\ c.started = s.started /\ c.usage = s.usage /\ c.block = NoBlock
  BY <1>1, <1>2 DEF MessageFields
<1>7. CASE r = b
  BY Zenon, <1>2, <1>3, <1>5, <1>7, MessageSame
<1>8. CASE r # b
  <2>1. Prepares(s, c)
    BY Zenon, <1>2, <1>3, <1>6 DEF Prepares
  <2>2. MayFollow([Plain("call") EXCEPT !.id = s.block.id], s)
    BY Zenon, <1>2, PlainFollows
  <2> QED
    BY Zenon, <1>4, <1>8, <2>1, <2>2, MessageTells
<1> QED
  BY Zenon, <1>7, <1>8

LEMMA MessageDeltaOrder ==
  ASSUME NEW s, NEW v, MessageOrder(s, v), ~s.done, s.started,
         NEW f \in MessageFrames, f.type = "message_delta", NEW r \in MessageDelta(s, f)
  PROVE MessageOrder(r, v)
<1>1. PICK b : b = [s EXCEPT !.stopReason = f.reason, !.messageDelta = TRUE]
  BY Zenon
<1>2. DOMAIN s = MessageFields /\ s.sequence # 0 /\ s.usage \in Nat /\ NamesCall(s.block)
  BY Zenon DEF MessageOrder
<1>3. /\ DOMAIN b = MessageFields /\ b.queue = s.queue /\ b.sequence = s.sequence /\ b.done = s.done
      /\ b.started = s.started /\ b.usage = s.usage /\ b.block = s.block
  BY <1>1, <1>2 DEF MessageFields
<1>4. MessageOrder(b, v) /\ ~b.done /\ b.sequence # 0
  BY Zenon, <1>2, <1>3, MessageSame
<1>5. f.usage \in Reports
  BY Zenon, FrameFields
<1>6. r \in Metered(b, f.usage)
  BY Zenon, <1>1 DEF MessageDelta
<1> QED
  BY Zenon, <1>4, <1>5, <1>6, MeteredOrder

LEMMA MessageStopOrder ==
  ASSUME NEW s, NEW v, MessageOrder(s, v), ~s.done, s.started, NEW r \in MessageStop(s)
  PROVE MessageOrder(r, v)
<1>1. PICK event : event = [Plain("stop") EXCEPT !.stop = NormalizedStop(s.stopReason)]
  BY Zenon
<1>2. r = [Enqueue(s, event) EXCEPT !.done = TRUE]
  BY Zenon, <1>1 DEF MessageStop
<1>3. NormalizedStop(s.stopReason) \in StopReasons
  BY DEF NormalizedStop, StopReasons, StopReasons
<1>4. "stop" \in EventTypes /\ "stop" \in Final
  BY DEF EventTypes, Final
<1>5. event \in Events /\ event.type \in Final
  BY Zenon, <1>1, <1>3, <1>4, PlainEvent
<1>6. s.sequence # 0
  BY Zenon DEF MessageOrder
<1> QED
  BY Zenon, <1>2, <1>5, <1>6, MessageEnds

LEMMA MessagesKeepOrder ==
  ASSUME NEW s, NEW v, MessageOrder(s, v), ~s.done, NEW f \in MessageFrames, NEW r \in Consume(s, f)
  PROVE MessageOrder(r, v)
  BY Zenon, HandlerOf, ErrorOrder, MessageStartOrder, BlockStartOrder, BlockDeltaOrder, BlockStopOrder,
     MessageDeltaOrder, MessageStopOrder

-----------------------------------------------------------------------------
(* Several events at once.                                                 *)

LEMMA Tabulated ==
  ASSUME NEW S, NEW n \in Nat, NEW g \in [1 .. n -> S]
  PROVE g \in Seq(S) /\ Len(g) = n
  OBVIOUS

LEMMA OrderJoins ==
  ASSUME NEW q, NEW last, NEW sequence, InOrder(q, last, sequence, {}), sequence # 0,
         NEW m \in Seq(Events), \A n \in 1 .. Len(m) : m[n].sequence = sequence + n /\ m[n].type \notin Final \cup {"start"},
         NEW p, p = q \o m
  PROVE InOrder(p, last, sequence + Len(m), {}) /\ sequence + Len(m) \in Nat \ {0}
<1>1. q \in Seq(Events) /\ last \in Nat /\ sequence = last + Len(q)
  BY Zenon DEF InOrder
<1>2. Len(q) \in Nat /\ Len(m) \in Nat
  BY <1>1, LenProperties
<1>3. /\ p \in Seq(Events) /\ Len(p) = Len(q) + Len(m)
      /\ \A i \in 1 .. Len(q) + Len(m) : p[i] = IF i <= Len(q) THEN q[i] ELSE m[i - Len(q)]
  BY <1>1, ConcatProperties
<1>4. ASSUME NEW i \in 1 .. Len(p)
      PROVE /\ p[i].sequence = last + i
            /\ p[i].type = "start" <=> last + i = 1
            /\ p[i].type \in Final <=> last + i \in {}
  <2>1. CASE i <= Len(q)
    <3>1. i \in 1 .. Len(q) /\ p[i] = q[i]
      BY <1>2, <1>3, <2>1
    <3>2. /\ q[i].sequence = last + i
          /\ q[i].type = "start" <=> last + i = 1
          /\ q[i].type \in Final <=> last + i \in {}
      BY Zenon, <3>1 DEF InOrder
    <3> QED
      BY Zenon, <3>1, <3>2
  <2>2. CASE ~(i <= Len(q))
    <3>1. i - Len(q) \in 1 .. Len(m) /\ p[i] = m[i - Len(q)]
      BY <1>2, <1>3, <2>2
    <3>2. sequence + (i - Len(q)) = last + i /\ last + i # 1
      BY <1>1, <1>2, <1>3, <2>2
    <3> QED
      BY Zenon, <3>1, <3>2
  <2> QED
    BY Zenon, <2>1, <2>2
<1>5. sequence + Len(m) = last + Len(p) /\ sequence + Len(m) \in Nat \ {0}
  BY <1>1, <1>2, <1>3
<1> QED
  BY Zenon, <1>1, <1>3, <1>4, <1>5 DEF InOrder

LEMMA EnqueuesAll ==
  ASSUME NEW s, NEW v, Continues(s, v), ~s.done, s.sequence # 0,
         NEW events \in Seq(Events), \A n \in 1 .. Len(events) : events[n].type \notin Final \cup {"start"},
         NEW r, r = EnqueueAll(s, events)
  PROVE Continues(r, v) /\ ~r.done /\ r.sequence # 0 /\ Kept(s, r, {"queue", "sequence"})
<1>1. /\ {"queue", "sequence", "done"} \subseteq DOMAIN s /\ s.sequence \in Nat /\ s.done = FALSE
      /\ v \in [last : Nat, started : BOOLEAN, terminal : BOOLEAN]
      /\ v.started <=> v.last # 0
      /\ ~v.terminal
      /\ InOrder(s.queue, v.last, s.sequence, {})
  BY Zenon DEF Continues, Ends
<1>2. PICK m : m = [n \in 1 .. Len(events) |-> [events[n] EXCEPT !.sequence = s.sequence + n]]
  BY Zenon
<1>3. Len(events) \in Nat /\ \A n \in 1 .. Len(events) : events[n] \in Events
  BY LenProperties, ElementOfSeq
<1>4. ASSUME NEW n \in 1 .. Len(events)
      PROVE m[n] \in Events /\ m[n].sequence = s.sequence + n /\ m[n].type = events[n].type
  <2>1. s.sequence + n \in Nat /\ events[n] \in Events
    BY <1>1, <1>3
  <2>2. m[n] = [events[n] EXCEPT !.sequence = s.sequence + n]
    BY Zenon, <1>2
  <2> QED
    BY <2>1, <2>2, NumberedEvent
<1>5. m \in [1 .. Len(events) -> Events]
  BY Zenon, <1>2, <1>4
<1>6. m \in Seq(Events) /\ Len(m) = Len(events)
  BY Zenon, <1>3, <1>5, Tabulated
<1>7. /\ DOMAIN r = DOMAIN s /\ r.sequence = s.sequence + Len(m) /\ r.queue = s.queue \o m
      /\ \A f \in DOMAIN s : f \notin {"queue", "sequence"} => r[f] = s[f]
  BY <1>1, <1>2, <1>6 DEF EnqueueAll
<1>8. InOrder(r.queue, v.last, r.sequence, {}) /\ r.sequence \in Nat \ {0}
  <2>1. \A n \in 1 .. Len(m) : m[n].sequence = s.sequence + n /\ m[n].type \notin Final \cup {"start"}
    BY Zenon, <1>4, <1>6
  <2>2. PICK q, last, sequence, p : q = s.queue /\ last = v.last /\ sequence = s.sequence /\ p = r.queue
    BY Zenon
  <2>3. /\ InOrder(q, last, sequence, {}) /\ sequence # 0 /\ p = q \o m
        /\ \A n \in 1 .. Len(m) : m[n].sequence = sequence + n /\ m[n].type \notin Final \cup {"start"}
    BY Zenon, <1>1, <1>7, <2>1, <2>2
  <2>4. InOrder(p, last, sequence + Len(m), {}) /\ sequence + Len(m) \in Nat \ {0}
    BY Zenon, <1>6, <2>3, OrderJoins
  <2> QED
    BY Zenon, <1>7, <2>2, <2>4
<1>9. "done" \in DOMAIN s /\ "done" \notin {"queue", "sequence"}
  BY <1>1
<1>10. r.done = FALSE
  BY Zenon, <1>1, <1>7, <1>9
<1>11. r.sequence \in Nat /\ r.sequence # 0
  BY <1>8
<1> QED
  BY Zenon, <1>1, <1>7, <1>8, <1>10, <1>11 DEF Continues, Ends, Kept

-----------------------------------------------------------------------------
(* The chunks keep the order.                                              *)

(* What the state knows of the calls and of the usage.                     *)
Gathers(s) ==
  /\ DOMAIN s = ChatFields
  /\ s.usage \in {Nothing} \cup Nat
  /\ DOMAIN s.calls \in SUBSET Int /\ IsFiniteSet(DOMAIN s.calls)
  /\ \A i \in DOMAIN s.calls : s.calls[i].id \in Words

ChatOrder(s, v) == Continues(s, v) /\ Gathers(s) /\ s.sequence # 0 /\ s.done \in BOOLEAN

Keeps(s, b) == Gathers(b) /\ b.queue = s.queue /\ b.sequence = s.sequence /\ b.done = s.done

LEMMA GathersStay ==
  ASSUME NEW s, Gathers(s), NEW r, Kept(s, r, {"queue", "sequence", "done"})
  PROVE Gathers(r)
<1>1. \A f \in {"usage", "calls"} : f \in ChatFields /\ f \notin {"queue", "sequence", "done"}
  BY DEF ChatFields
<1>2. DOMAIN r = ChatFields /\ r.usage = s.usage /\ r.calls = s.calls
  BY Zenon, <1>1 DEF Gathers, Kept
<1> QED
  BY Zenon, <1>2 DEF Gathers

LEMMA ChatKeeps ==
  ASSUME NEW s, NEW v, ChatOrder(s, v), ~s.done, NEW b, Keeps(s, b)
  PROVE ChatOrder(b, v) /\ ~b.done
<1>1. DOMAIN b = DOMAIN s /\ b.queue = s.queue /\ b.sequence = s.sequence /\ b.done = s.done
  BY Zenon DEF ChatOrder, Keeps, Gathers
<1>2. Continues(b, v)
  BY Zenon, <1>1, SameContinues DEF ChatOrder
<1> QED
  BY Zenon, <1>1, <1>2 DEF ChatOrder, Keeps

LEMMA ChatTells ==
  ASSUME NEW s, NEW v, ChatOrder(s, v), ~s.done, NEW event, MayFollow(event, s), NEW r, r = Enqueue(s, event)
  PROVE ChatOrder(r, v) /\ ~r.done
<1>1. Continues(s, v) /\ event \in Events /\ event.type \notin Final /\ (event.type = "start" <=> s.sequence = 0)
  BY Zenon DEF ChatOrder, MayFollow
<1>2. Continues(r, v) /\ ~r.done /\ r.sequence # 0 /\ Kept(s, r, {"queue", "sequence"})
  BY Zenon, <1>1, Enqueues
<1>3. Kept(s, r, {"queue", "sequence", "done"})
  BY Zenon, <1>2 DEF Kept
<1>4. Gathers(r) /\ r.done \in BOOLEAN
  BY Zenon, <1>2, <1>3, GathersStay DEF ChatOrder, Continues
<1> QED
  BY Zenon, <1>2, <1>4 DEF ChatOrder

LEMMA ChatEnds ==
  ASSUME NEW s, NEW v, ChatOrder(s, v), ~s.done, NEW event \in Events, event.type \in Final,
         NEW r, r = [Enqueue(s, event) EXCEPT !.done = TRUE]
  PROVE ChatOrder(r, v)
<1>1. Continues(s, v) /\ s.sequence # 0
  BY Zenon DEF ChatOrder
<1>2. Continues(r, v) /\ r.sequence # 0 /\ Kept(s, r, {"queue", "sequence", "done"})
  BY Zenon, <1>1, Finishes
<1>3. Gathers(r) /\ r.done \in BOOLEAN
  BY Zenon, <1>2, GathersStay DEF ChatOrder, Continues
<1> QED
  BY Zenon, <1>2, <1>3 DEF ChatOrder

LEMMA ReportedOrder ==
  ASSUME NEW s, NEW v, ChatOrder(s, v), ~s.done, NEW c, c.usage \in Reports, NEW r \in Reported(s, c)
  PROVE ChatOrder(r, v) /\ ~r.done
<1>1. PICK b : b = [s EXCEPT !.usage = c.usage]
  BY Zenon
<1>2. r = s \/ (r = b /\ c.usage # Nothing /\ ~(c.usage < 0))
  BY Zenon, <1>1 DEF Reported
<1>3. CASE r = s
  BY Zenon, <1>3
<1>4. CASE r # s
  <2>1. c.usage \in Nat
    BY <1>2, <1>4 DEF Reports, Nothing
  <2>2. Gathers(s)
    BY Zenon DEF ChatOrder
  <2>3. DOMAIN s = ChatFields
    BY Zenon, <2>2 DEF Gathers
  <2>4. /\ DOMAIN b = ChatFields /\ b.usage = c.usage /\ b.calls = s.calls
        /\ b.queue = s.queue /\ b.sequence = s.sequence /\ b.done = s.done
    BY <1>1, <2>3 DEF ChatFields
  <2>5. Keeps(s, b)
    BY Zenon, <2>1, <2>2, <2>4 DEF Keeps, Gathers
  <2> QED
    BY Zenon, <1>2, <1>4, <2>5, ChatKeeps
<1> QED
  BY Zenon, <1>3, <1>4

LEMMA SpokenOrder ==
  ASSUME NEW s, NEW v, ChatOrder(s, v), ~s.done, NEW c
  PROVE ChatOrder(Spoken(s, c), v) /\ ~Spoken(s, c).done
<1>1. PICK one : one = IF c.text THEN Enqueue(s, Plain("text")) ELSE s
  BY Zenon
<1>2. MayFollow(Plain("text"), s)
  BY Zenon, PlainFollows DEF ChatOrder
<1>3. ChatOrder(one, v) /\ ~one.done
  BY Zenon, <1>1, <1>2, ChatTells
<1>4. MayFollow(Plain("text"), one)
  BY Zenon, <1>3, PlainFollows DEF ChatOrder
<1>5. Spoken(s, c) = IF c.refusal THEN Enqueue(one, Plain("text")) ELSE one
  BY Zenon, <1>1 DEF Spoken
<1> QED
  BY Zenon, <1>3, <1>4, <1>5, ChatTells

LEMMA ChunkFields ==
  ASSUME NEW c \in Chunks, c.type = "chunk"
  PROVE c.usage \in Reports /\ (c.call # NoFragment => c.call.id \in Words /\ c.call.index \in Int)
<1> DEFINE Bare == [type : {"malformed", "error", "choices", "done"}]
           Full == [type : {"chunk"}, usage : Reports, choice : Int, text : BOOLEAN, refusal : BOOLEAN,
                    call : {NoFragment} \cup CallFragments, finish : {Absent, "", "stop", "tool_calls", "other"}]
<1>1. c \in Bare \/ c \in Full
  BY Zenon DEF Chunks
<1>2. c \in Bare => c.type # "chunk"
  OBVIOUS
<1>3. c \in Full => c.usage \in Reports /\ c.call \in {NoFragment} \cup CallFragments
  OBVIOUS
<1>4. c.call \in CallFragments => c.call.id \in Words /\ c.call.index \in Int
  BY DEF CallFragments
<1> HIDE DEF Bare, Full
<1> QED
  BY Zenon, <1>1, <1>2, <1>3, <1>4

LEMMA AccumulatedKeeps ==
  ASSUME NEW s, Gathers(s), NEW fragment, fragment.id \in Words, fragment.index \in Int
  PROVE Keeps(s, Accumulated(s, fragment))
<1> DEFINE i == fragment.index
           old == IF i \in DOMAIN s.calls THEN s.calls[i] ELSE NoCall
           new == [id |-> IDAfter(old.id, fragment.id), named |-> old.named \/ fragment.named,
                   input |-> Extended(old.input, fragment.arguments)]
           calls == [j \in DOMAIN s.calls \cup {i} |-> IF j = i THEN new ELSE s.calls[j]]
<1>1. PICK b : b = Accumulated(s, fragment)
  BY Zenon
<1>2. b = [s EXCEPT !.calls = calls]
  BY Zenon, <1>1 DEF Accumulated
<1>3. old.id \in Words
  <2>1. <<>> \in Words /\ NoCall.id = <<>>
    BY DEF Words, NoCall
  <2> QED
    BY Zenon, <2>1 DEF Gathers
<1> HIDE DEF old
<1>4. IDAfter(old.id, fragment.id) \in Words
  BY <1>3, ConcatProperties DEF Words, IDAfter
<1>5. new.id \in Words
  BY Zenon, <1>4
<1> HIDE DEF new
<1>6. DOMAIN calls = DOMAIN s.calls \cup {i} /\ \A j \in DOMAIN calls : calls[j].id \in Words
  BY Zenon, <1>5 DEF Gathers
<1>7. DOMAIN calls \in SUBSET Int /\ IsFiniteSet(DOMAIN calls)
  BY <1>6, FS_AddElement DEF Gathers
<1> HIDE DEF calls, i
<1>8. DOMAIN s = ChatFields
  BY Zenon DEF Gathers
<1>9. /\ DOMAIN b = ChatFields /\ b.calls = calls /\ b.usage = s.usage
      /\ b.queue = s.queue /\ b.sequence = s.sequence /\ b.done = s.done
  BY <1>2, <1>8 DEF ChatFields
<1>10. Gathers(b)
  BY Zenon, <1>6, <1>7, <1>9 DEF Gathers
<1> QED
  BY Zenon, <1>1, <1>9, <1>10 DEF Keeps

LEMMA AssembledOrder ==
  ASSUME NEW s, NEW v, ChatOrder(s, v), ~s.done, NEW c \in Chunks, c.type = "chunk", NEW r \in Assembled(s, c)
  PROVE ChatOrder(r, v) /\ ~r.done
<1>1. CASE c.call = NoFragment
  BY Zenon, <1>1 DEF Assembled
<1>2. CASE c.call # NoFragment
  <2>1. c.call.id \in Words /\ c.call.index \in Int
    BY Zenon, <1>2, ChunkFields
  <2>2. PICK b : b = Accumulated(s, c.call)
    BY Zenon
  <2>3. r = Enqueue(b, [Plain("delta") EXCEPT !.id = c.call.id])
    BY Zenon, <1>2, <2>2 DEF Assembled
  <2>4. Keeps(s, b)
    BY Zenon, <2>1, <2>2, AccumulatedKeeps DEF ChatOrder
  <2>5. ChatOrder(b, v) /\ ~b.done
    BY Zenon, <2>4, ChatKeeps
  <2>6. MayFollow([Plain("delta") EXCEPT !.id = c.call.id], b)
    BY Zenon, <2>1, <2>5, PlainFollows DEF ChatOrder
  <2> QED
    BY Zenon, <2>3, <2>5, <2>6, ChatTells
<1> QED
  BY Zenon, <1>1, <1>2

LEMMA FinishedOrder ==
  ASSUME NEW s, NEW v, ChatOrder(s, v), ~s.done, NEW c, NEW r \in Finished(s, c)
  PROVE ChatOrder(r, v) /\ ~r.done
<1>1. PICK b : b = [s EXCEPT !.finish = c.finish]
  BY Zenon
<1>2. r = s \/ r = b
  BY Zenon, <1>1 DEF Finished
<1>3. Gathers(s) /\ DOMAIN s = ChatFields
  BY Zenon DEF ChatOrder, Gathers
<1>4. /\ DOMAIN b = ChatFields /\ b.calls = s.calls /\ b.usage = s.usage
      /\ b.queue = s.queue /\ b.sequence = s.sequence /\ b.done = s.done
  BY <1>1, <1>3 DEF ChatFields
<1>5. Keeps(s, b)
  BY Zenon, <1>3, <1>4 DEF Keeps, Gathers
<1> QED
  BY Zenon, <1>2, <1>5, ChatKeeps

LEMMA ChunkOrder ==
  ASSUME NEW s, NEW v, ChatOrder(s, v), ~s.done, NEW c \in Chunks, c.type = "chunk", NEW r \in Chunk(s, c)
  PROVE ChatOrder(r, v)
<1> DEFINE Rest(a) == IF c.choice = -1 THEN {a}
                      ELSE IF c.choice # 0 THEN {}
                      ELSE UNION {Finished(b, c) : b \in Assembled(Spoken(a, c), c)}
<1>1. Chunk(s, c) = UNION {Rest(a) : a \in Reported(s, c)}
  BY Zenon DEF Chunk
<1>2. \A a : r \in Rest(a) => r = a \/ \E b \in Assembled(Spoken(a, c), c) : r \in Finished(b, c)
  BY Zenon
<1> HIDE DEF Rest
<1>3. PICK a \in Reported(s, c) : r \in Rest(a)
  BY Zenon, <1>1
<1>4. ChatOrder(a, v) /\ ~a.done
  BY Zenon, ChunkFields, ReportedOrder
<1>5. PICK d : d = Spoken(a, c)
  BY Zenon
<1>6. ChatOrder(d, v) /\ ~d.done
  BY Zenon, <1>4, <1>5, SpokenOrder
<1>7. \A b \in Assembled(d, c) : ChatOrder(b, v) /\ ~b.done
  BY Zenon, <1>6, AssembledOrder
<1>8. \A b \in Assembled(d, c) : r \in Finished(b, c) => ChatOrder(r, v)
  BY Zenon, <1>7, FinishedOrder
<1> QED
  BY Zenon, <1>2, <1>3, <1>4, <1>5, <1>8

LEMMA OrderedCalls ==
  ASSUME NEW s, Gathers(s), NEW calls, calls = Ordered(s)
  PROVE \E k \in Nat : DOMAIN calls = 1 .. k /\ \A n \in 1 .. k : calls[n].id \in Words
<1>1. DOMAIN s.calls \in SUBSET Int /\ IsFiniteSet(DOMAIN s.calls)
  BY Zenon DEF Gathers
<1>2. PICK k, f : Enumerates(f, k, DOMAIN s.calls)
  BY Zenon, <1>1, AscendingExists
<1>3. Cardinality(DOMAIN s.calls) = k /\ Ascending(DOMAIN s.calls) = f
  BY Zenon, <1>1, <1>2, AscendingEnumerates
<1>4. k \in Nat /\ f \in [1 .. k -> DOMAIN s.calls]
  BY Zenon, <1>2 DEF Enumerates
<1>5. calls = [n \in 1 .. k |-> s.calls[f[n]]]
  BY Zenon, <1>3 DEF Ordered
<1>6. \A n \in 1 .. k : f[n] \in DOMAIN s.calls
  BY Zenon, <1>4
<1> QED
  BY Zenon, <1>4, <1>5, <1>6 DEF Gathers

LEMMA CalledOrder ==
  ASSUME NEW s, NEW v, ChatOrder(s, v), ~s.done, NEW calls, calls = Ordered(s),
         NEW r, r = EnqueueAll(s, [n \in DOMAIN calls |-> [Plain("call") EXCEPT !.id = calls[n].id]])
  PROVE ChatOrder(r, v) /\ ~r.done
<1>1. PICK k \in Nat : DOMAIN calls = 1 .. k /\ \A n \in 1 .. k : calls[n].id \in Words
  BY Zenon, OrderedCalls DEF ChatOrder
<1>2. PICK events : events = [n \in DOMAIN calls |-> [Plain("call") EXCEPT !.id = calls[n].id]]
  BY Zenon
<1>3. "call" \in EventTypes /\ "call" \notin Final \cup {"start"}
  BY DEF EventTypes, Final
<1>4. /\ events \in [1 .. k -> Events]
      /\ \A n \in 1 .. k : events[n].type = "call"
  BY Zenon, <1>1, <1>2, <1>3, PlainEvent
<1>5. events \in Seq(Events) /\ Len(events) = k
  BY Zenon, <1>4, Tabulated
<1>6. Continues(r, v) /\ ~r.done /\ r.sequence # 0 /\ Kept(s, r, {"queue", "sequence"})
  BY Zenon, <1>2, <1>3, <1>4, <1>5, EnqueuesAll DEF ChatOrder
<1>7. Kept(s, r, {"queue", "sequence", "done"})
  BY Zenon, <1>6 DEF Kept
<1>8. Gathers(r) /\ r.done \in BOOLEAN
  BY Zenon, <1>6, <1>7, GathersStay DEF ChatOrder, Continues
<1> QED
  BY Zenon, <1>6, <1>8 DEF ChatOrder

LEMMA FinalizeOrder ==
  ASSUME NEW s, NEW v, ChatOrder(s, v), ~s.done, NEW r \in Finalize(s)
  PROVE ChatOrder(r, v)
<1>1. PICK calls : calls = Ordered(s)
  BY Zenon
<1>2. PICK called : called = EnqueueAll(s, [n \in DOMAIN calls |-> [Plain("call") EXCEPT !.id = calls[n].id]])
  BY Zenon
<1>3. PICK metered : metered = IF s.usage = Nothing THEN called
                               ELSE Enqueue(called, [Plain("usage") EXCEPT !.amount = s.usage])
  BY Zenon
<1>4. PICK stop : stop = [Plain("stop") EXCEPT !.stop = NormalizedFinish(s.finish)]
  BY Zenon
<1>5. r = [Enqueue(metered, stop) EXCEPT !.done = TRUE]
  BY Zenon, <1>1, <1>2, <1>3, <1>4 DEF Finalize
<1>6. ChatOrder(called, v) /\ ~called.done
  BY Zenon, <1>1, <1>2, CalledOrder
<1>7. ChatOrder(metered, v) /\ ~metered.done
  <2>1. CASE s.usage = Nothing
    BY Zenon, <1>3, <1>6, <2>1
  <2>2. CASE s.usage # Nothing
    <3>1. s.usage \in Nat
      BY Zenon, <2>2 DEF ChatOrder, Gathers
    <3>2. s.usage \in Int /\ "usage" \in EventTypes /\ "usage" \notin Final /\ "usage" # "start"
      BY <3>1 DEF EventTypes, Final
    <3>3. PICK event : event = [Plain("usage") EXCEPT !.amount = s.usage]
      BY Zenon
    <3>4. event \in Events /\ event.type = "usage"
      BY Zenon, <3>2, <3>3, PlainEvent
    <3>5. MayFollow(event, called)
      BY Zenon, <1>6, <3>2, <3>4 DEF MayFollow, ChatOrder
    <3> QED
      BY Zenon, <1>3, <1>6, <2>2, <3>3, <3>5, ChatTells
  <2> QED
    BY Zenon, <2>1, <2>2
<1>8. NormalizedFinish(s.finish) \in StopReasons /\ "stop" \in EventTypes /\ "stop" \in Final
  BY DEF NormalizedFinish, StopReasons, EventTypes, Final
<1>9. stop \in Events /\ stop.type \in Final
  BY Zenon, <1>4, <1>8, PlainEvent
<1> QED
  BY Zenon, <1>5, <1>7, <1>9, ChatEnds

LEMMA ChatsKeepOrder ==
  ASSUME NEW s, NEW v, ChatOrder(s, v), ~s.done, NEW c \in Chunks, NEW r \in ConsumeChunk(s, c)
  PROVE ChatOrder(r, v)
<1>1. c.type \in {"malformed", "choices", "error", "done", "chunk"}
  <2> DEFINE Bare == [type : {"malformed", "error", "choices", "done"}]
             Full == [type : {"chunk"}, usage : Reports, choice : Int, text : BOOLEAN, refusal : BOOLEAN,
                      call : {NoFragment} \cup CallFragments, finish : {Absent, "", "stop", "tool_calls", "other"}]
  <2>1. c \in Bare \/ c \in Full
    BY Zenon DEF Chunks
  <2>2. c \in Bare => c.type \in {"malformed", "error", "choices", "done"}
    OBVIOUS
  <2>3. c \in Full => c.type = "chunk"
    OBVIOUS
  <2> HIDE DEF Bare, Full
  <2> QED
    BY <2>1, <2>2, <2>3
<1>2. CASE c.type = "error"
  <2>1. r = [Enqueue(s, Plain("error")) EXCEPT !.done = TRUE]
    <3>1. c.type \notin {"malformed", "choices"}
      BY <1>2
    <3>2. ConsumeChunk(s, c) = {[Enqueue(s, Plain("error")) EXCEPT !.done = TRUE]}
      BY <1>2, <3>1 DEF ConsumeChunk
    <3> QED
      BY Zenon, <3>2
  <2>2. "error" \in EventTypes /\ "error" \in Final
    BY DEF EventTypes, Final
  <2>3. Plain("error") \in Events /\ Plain("error").type \in Final
    BY Zenon, <2>2, PlainEvent
  <2> QED
    BY Zenon, <2>1, <2>3, ChatEnds
<1>3. CASE c.type = "done"
  <2>1. ConsumeChunk(s, c) = Finalize(s)
    BY <1>3 DEF ConsumeChunk
  <2> QED
    BY Zenon, <2>1, FinalizeOrder
<1>4. CASE c.type = "chunk"
  <2>1. ConsumeChunk(s, c) = Chunk(s, c)
    BY <1>4 DEF ConsumeChunk
  <2> QED
    BY Zenon, <1>4, <2>1, ChunkOrder
<1>5. CASE c.type \in {"malformed", "choices"}
  BY <1>5 DEF ConsumeChunk
<1> QED
  BY <1>1, <1>2, <1>3, <1>4, <1>5

-----------------------------------------------------------------------------
(* The consumer and the goroutines.                                        *)

Failures == {"cancelled", "refused", "unread", "generated", "abandoned"}

Orderly(a, s, v) == IF a = "messages" THEN MessageOrder(s, v) ELSE ChatOrder(s, v)

(* The inductive invariant: while Recv has not failed, the adapter's queue *)
(* continues what the consumer has accepted; a call that waits has found   *)
(* the queue empty, and so has one that met the end.                       *)
OrderInv ==
  /\ ControlInv
  /\ pc = "wait" => stream.queue = <<>> /\ ~stream.done
  /\ outcome = "eof" => stream.queue = <<>> /\ stream.done
  /\ outcome \in {"none", "eof"} => Orderly(adapter, stream, validator)

(* A step keeps the promises of ModelStream.                               *)
Step == [Contract!Next]_(Contract!vars)

LEMMA PhaseOf ==
  /\ outcome = "none" => Phase = "open"
  /\ outcome = "eof" => Phase = "ended"
  /\ outcome \in Failures => Phase = "failed"
  BY DEF Phase, Failures

LEMMA PhaseNext ==
  /\ outcome' = "none" => Phase' = "open"
  /\ outcome' = "eof" => Phase' = "ended"
  /\ outcome' \in Failures => Phase' = "failed"
  BY DEF Phase, Failures

LEMMA QuietStep ==
  ASSUME validator' = validator, outcome' = outcome \/ (outcome \in Failures /\ outcome' \in Failures)
  PROVE Step
<1>1. Phase' = Phase
  <2>1. outcome' = outcome => Phase' = Phase
    BY DEF Phase
  <2>2. outcome \in Failures => Phase = "failed"
    BY Zenon, PhaseOf
  <2>3. outcome' \in Failures => Phase' = "failed"
    BY Zenon, PhaseNext
  <2> QED
    BY <2>1, <2>2, <2>3
<1> QED
  BY Zenon, <1>1 DEF Step, Contract!vars

LEMMA FailStep ==
  ASSUME validator' = validator, outcome = "none", outcome' \in Failures
  PROVE Step
  BY Zenon, PhaseOf, PhaseNext DEF Step, Contract!Next, Contract!Fail

LEMMA EndStep ==
  ASSUME validator' = validator, outcome = "none", outcome' = "eof", Complete(validator)
  PROVE Step
<1>1. Contract!Complete(validator)
  BY Zenon DEF Complete, Contract!Complete
<1> QED
  BY Zenon, <1>1, PhaseOf, PhaseNext DEF Step, Contract!Next, Contract!End

LEMMA DeliverStep ==
  ASSUME outcome = "none", outcome' = "none", NEW event, Accepts(validator, event),
         validator' = Accepted(validator, event)
  PROVE Step
<1>1. Phase = "open" /\ Phase' = "open"
  BY Zenon, PhaseOf, PhaseNext
<1>2. event.type \in Contract!EventTypes
  BY Zenon DEF Accepts, Valid, EventTypes, Contract!EventTypes
<1>3. ~validator.terminal /\ (event.type = "start" <=> ~validator.started) /\ event.sequence = validator.last + 1
  BY Zenon DEF Accepts
<1>4. validator' = [last |-> validator.last + 1, started |-> TRUE, terminal |-> event.type \in {"stop", "error"}]
  BY Zenon, <1>3 DEF Accepted
<1> QED
  BY Zenon, <1>1, <1>2, <1>3, <1>4 DEF Step, Contract!Next, Contract!Deliver

LEMMA FailedCall ==
  ASSUME NEW why, Failed(why)
  PROVE /\ validator' = validator /\ turn' = turn
        /\ \/ pc' = "close" /\ outcome' = why
           \/ why = "cancelled" /\ pc' = "ready" /\ outcome' = IF streamDone' THEN why ELSE outcome
  BY Zenon DEF Failed, received

(* Where a call failed, the stream is lost, or it is as it was.            *)
LEMMA FailsKeep ==
  ASSUME OrderInv, pc \in {"ready", "wait"}, NEW why \in Failures, Failed(why),
         adapter' = adapter, reader' = "none", streamDone' \in BOOLEAN, streamDone => streamDone',
         orphans' \in {0, 1}, orphans' = 1 => streamDone',
         DOMAIN wire' = DOMAIN wire, wire'.lost => wire.lost \/ streamDone',
         why = "cancelled" => stream' = stream
  PROVE OrderInv' /\ Step
<1>1. outcome = "none" \/ (outcome \in Failures /\ streamDone)
  BY DEF OrderInv, ControlInv, Outcomes, Failures
<1>2. why \in Outcomes /\ why \notin {"none", "eof"}
  BY DEF Failures, Outcomes
<1>3. adapter \in {"messages", "chat"} /\ DOMAIN wire = {"begun", "usage", "lost"}
  BY Zenon DEF OrderInv, ControlInv
<1>4. CASE outcome' = why /\ pc' = "close"
  <2>1. pc' \in {"ready", "wait", "close", "done"} /\ pc' # "wait" /\ pc' # "ready"
    BY <1>4
  <2>2. ControlInv'
    BY Zenon, <1>2, <1>3, <1>4, <2>1 DEF ControlInv
  <2>3. OrderInv'
    BY Zenon, <1>2, <1>4, <2>1, <2>2 DEF OrderInv
  <2> QED
    BY Zenon, <1>1, <1>4, <2>3, FailedCall, FailStep, QuietStep
<1>5. CASE outcome' = why /\ pc' = "ready" /\ streamDone'
  <2>1. pc' \in {"ready", "wait", "close", "done"} /\ pc' # "wait" /\ pc' \notin {"close", "done"}
    BY <1>5
  <2>2. ControlInv'
    BY Zenon, <1>2, <1>3, <1>5, <2>1 DEF ControlInv
  <2>3. OrderInv'
    BY Zenon, <1>2, <1>5, <2>1, <2>2 DEF OrderInv
  <2> QED
    BY Zenon, <1>1, <1>5, <2>3, FailedCall, FailStep, QuietStep
<1>6. CASE outcome' = outcome /\ pc' = "ready" /\ ~streamDone' /\ why = "cancelled" /\ outcome = "none"
  <2>1. pc' \in {"ready", "wait", "close", "done"} /\ pc' # "wait" /\ pc' \notin {"close", "done"}
    BY <1>6
  <2>2. orphans' = 0 /\ ~wire'.lost /\ 0 # 1
    <3>1. ~wire.lost
      BY Zenon, <1>6 DEF OrderInv, ControlInv
    <3> QED
      BY Zenon, <1>6, <3>1
  <2>3. outcome \in Outcomes
    BY Zenon DEF OrderInv, ControlInv
  <2>4. ControlInv'
    BY Zenon, <1>3, <1>6, <2>1, <2>2, <2>3 DEF ControlInv
  <2>5. Orderly(adapter', stream', validator') /\ outcome' # "eof"
    BY Zenon, <1>6, FailedCall DEF OrderInv
  <2>6. OrderInv'
    BY Zenon, <2>1, <2>4, <2>5 DEF OrderInv
  <2> QED
    BY Zenon, <1>6, <2>6, FailedCall, QuietStep
<1> QED
  BY Zenon, <1>1, <1>4, <1>5, <1>6, FailedCall

LEMMA OrderlyContinues ==
  ASSUME NEW a, NEW s, NEW v, Orderly(a, s, v)
  PROVE Continues(s, v)
  BY Zenon DEF Orderly, MessageOrder, ChatOrder

(* Recv hands over the head of the queue.                                  *)
LEMMA DeliversInOrder ==
  ASSUME NEW a, NEW s, NEW v, Orderly(a, s, v), s.queue # <<>>,
         NEW r, r = [s EXCEPT !.queue = Tail(@)], NEW u, u = Accepted(v, Head(s.queue))
  PROVE Orderly(a, r, u)
<1>1. CASE a = "messages"
  <2>1. DOMAIN s = MessageFields /\ s.started \in BOOLEAN /\ (s.started <=> s.sequence # 0)
    BY Zenon, <1>1 DEF Orderly, MessageOrder
  <2>2. /\ DOMAIN r = MessageFields /\ r.queue = Tail(s.queue) /\ r.sequence = s.sequence /\ r.done = s.done
        /\ r.started = s.started /\ r.usage = s.usage /\ r.block = s.block
    BY <2>1 DEF MessageFields
  <2>3. Continues(r, u)
    BY Zenon, <2>1, <2>2, OrderlyContinues, DeliverContinues
  <2> QED
    BY Zenon, <1>1, <2>2, <2>3 DEF Orderly, MessageOrder
<1>2. CASE a # "messages"
  <2>1. Gathers(s) /\ s.sequence # 0 /\ s.done \in BOOLEAN
    BY Zenon, <1>2 DEF Orderly, ChatOrder
  <2>2. DOMAIN s = ChatFields
    BY Zenon, <2>1 DEF Gathers
  <2>3. /\ DOMAIN r = ChatFields /\ r.queue = Tail(s.queue) /\ r.sequence = s.sequence /\ r.done = s.done
        /\ r.calls = s.calls /\ r.usage = s.usage
    BY <2>2 DEF ChatFields
  <2>4. Continues(r, u)
    BY Zenon, <2>2, <2>3, OrderlyContinues, DeliverContinues
  <2>5. Gathers(r)
    BY Zenon, <2>1, <2>3 DEF Gathers
  <2> QED
    BY Zenon, <1>2, <2>1, <2>3, <2>4, <2>5 DEF Orderly, ChatOrder
<1> QED
  BY Zenon, <1>1, <1>2

(* At the end of the queue of a stream that is done, the terminal event has *)
(* been accepted.                                                          *)
LEMMA DoneIsComplete ==
  ASSUME NEW s, NEW v, Continues(s, v), s.queue = <<>>, s.done
  PROVE Complete(v)
<1>1. /\ s.sequence \in Nat /\ v.last \in Nat /\ s.sequence = v.last + Len(s.queue)
  BY Zenon DEF Continues, InOrder
<1>2. Len(s.queue) = 0
  OBVIOUS
<1>3. v.last = s.sequence
  BY <1>1, <1>2
<1>4. Ends(s) = {s.sequence}
  BY Zenon DEF Ends
<1>5. v.terminal /\ v.started
  BY Zenon, <1>3, <1>4 DEF Continues
<1> QED
  BY Zenon, <1>5 DEF Complete

(* The four ways in which Recv goes on.                                    *)
Delivers(s) ==
  /\ s.queue # <<>> /\ Valid(Head(s.queue)) /\ Accepts(validator, Head(s.queue))
  /\ stream' = [s EXCEPT !.queue = Tail(@)]
  /\ reader' = "none" /\ pc' = "ready" /\ outcome' = outcome
  /\ validator' = Accepted(validator, Head(s.queue))
  /\ turn' = [calls |-> IF Head(s.queue).type = "call" THEN Append(turn.calls, Head(s.queue).id) ELSE turn.calls,
              usage |-> turn.usage + Head(s.queue).amount,
              stop |-> Head(s.queue).stop]

Generates == Failed("generated") /\ reader' = "none"

Finishing(s) ==
  /\ s.queue = <<>> /\ s.done /\ Complete(validator)
  /\ stream' = s /\ reader' = "none" /\ pc' = "close" /\ outcome' = "eof"
  /\ validator' = validator /\ turn' = turn

Waiting(s) ==
  /\ s.queue = <<>> /\ ~s.done
  /\ stream' = s /\ reader' = "reading" /\ pc' = "wait" /\ outcome' = outcome
  /\ validator' = validator /\ turn' = turn

LEMMA AdvanceKinds ==
  ASSUME NEW s, Continues(s, validator), Advance(s)
  PROVE Delivers(s) \/ Generates \/ Finishing(s) \/ Waiting(s)
<1>1. CASE s.queue # <<>>
  <2>1. CASE ~Valid(Head(s.queue))
    BY Zenon, <1>1, <2>1 DEF Advance, Generates
  <2>2. CASE Valid(Head(s.queue))
    <3>1. Accepts(validator, Head(s.queue))
      BY Zenon, <1>1, <2>2, NextIsAccepted
    <3>2. Taken(Head(s.queue)) /\ stream' = [s EXCEPT !.queue = Tail(@)] /\ reader' = "none"
      BY Zenon, <1>1, <2>2 DEF Advance
    <3> QED
      BY Zenon, <1>1, <2>2, <3>1, <3>2 DEF Taken, Delivers
  <2> QED
    BY Zenon, <2>1, <2>2
<1>2. CASE s.queue = <<>> /\ s.done
  BY Zenon, <1>2, DoneIsComplete DEF Advance, Finishing, received
<1>3. CASE s.queue = <<>> /\ ~s.done
  BY Zenon, <1>3 DEF Advance, Waiting, received
<1> QED
  BY Zenon, <1>1, <1>2, <1>3

LEMMA AdvanceKeeps ==
  ASSUME OrderInv, pc \in {"ready", "wait"}, outcome = "none", NEW s, Orderly(adapter, s, validator), Advance(s),
         adapter' = adapter, streamDone' = streamDone, orphans' = orphans,
         DOMAIN wire' = DOMAIN wire, wire'.lost = wire.lost
  PROVE OrderInv' /\ Step
<1>1. Continues(s, validator)
  BY Zenon, OrderlyContinues
<1>2. /\ adapter \in {"messages", "chat"} /\ DOMAIN wire = {"begun", "usage", "lost"} /\ streamDone \in BOOLEAN
      /\ orphans = 0 /\ ~wire.lost
  BY Zenon DEF OrderInv, ControlInv
<1>3. "none" \in Outcomes /\ "eof" \in Outcomes /\ "generated" \in Failures
  BY DEF Outcomes, Failures
<1>4. 0 \in {0, 1} /\ 0 # 1
  OBVIOUS
<1>5. CASE Delivers(s)
  <2>1. pc' = "ready" /\ reader' = "none" /\ outcome' = "none"
    BY Zenon, <1>5 DEF Delivers
  <2>2. ControlInv'
    BY Zenon, <1>2, <1>3, <1>4, <2>1 DEF ControlInv
  <2>3. Orderly(adapter', stream', validator')
    BY Zenon, <1>5, DeliversInOrder DEF Delivers
  <2>4. OrderInv'
    BY Zenon, <2>1, <2>2, <2>3 DEF OrderInv
  <2> QED
    BY Zenon, <1>5, <2>1, <2>4, DeliverStep DEF Delivers
<1>6. CASE Generates
  <2>1. Failed("generated") /\ reader' = "none" /\ "generated" # "cancelled"
    BY Zenon, <1>6 DEF Generates
  <2>2. orphans' \in {0, 1} /\ orphans' # 1 /\ streamDone' \in BOOLEAN
    BY Zenon, <1>2, <1>4
  <2> QED
    BY Zenon, <1>2, <1>3, <2>1, <2>2, FailsKeep
<1>7. CASE Finishing(s)
  <2>1. pc' = "close" /\ reader' = "none" /\ outcome' = "eof"
    BY Zenon, <1>7 DEF Finishing
  <2>2. ControlInv'
    BY Zenon, <1>2, <1>3, <1>4, <2>1 DEF ControlInv
  <2>3. Orderly(adapter', stream', validator') /\ stream'.queue = <<>> /\ stream'.done
    BY Zenon, <1>7 DEF Finishing
  <2>4. OrderInv'
    BY Zenon, <2>1, <2>2, <2>3 DEF OrderInv
  <2> QED
    BY Zenon, <1>7, <2>4, EndStep DEF Finishing
<1>8. CASE Waiting(s)
  <2>1. pc' = "wait" /\ reader' = "reading" /\ outcome' = "none"
    BY Zenon, <1>8 DEF Waiting
  <2>2. ControlInv'
    BY Zenon, <1>2, <1>3, <1>4, <2>1 DEF ControlInv
  <2>3. Orderly(adapter', stream', validator') /\ stream'.queue = <<>> /\ ~stream'.done
    BY Zenon, <1>8 DEF Waiting
  <2>4. OrderInv'
    BY Zenon, <2>1, <2>2, <2>3 DEF OrderInv
  <2> QED
    BY Zenon, <1>8, <2>4, QuietStep DEF Waiting
<1> QED
  BY Zenon, <1>1, <1>5, <1>6, <1>7, <1>8, AdvanceKinds

LEMMA InitialControl ==
  ASSUME Init
  PROVE ControlInv
<1>1. DOMAIN wire = {"begun", "usage", "lost"} /\ ~wire.lost
  BY DEF Init
<1>2. 0 \in {0, 1} /\ 0 # 1 /\ "none" \in Outcomes
  BY DEF Outcomes
<1> QED
  BY Zenon, <1>1, <1>2 DEF Init, ControlInv

LEMMA InitialOrder ==
  ASSUME Init
  PROVE OrderInv
<1>1. validator = [last |-> 0, started |-> FALSE, terminal |-> FALSE]
  BY Zenon DEF Init, NewValidator
<1>2. /\ validator \in [last : Nat, started : BOOLEAN, terminal : BOOLEAN]
      /\ validator.last = 0 /\ ~validator.started /\ ~validator.terminal
  BY <1>1
<1>3. CASE adapter = "messages"
  <2>1. stream = [queue |-> <<>>, sequence |-> 0, started |-> FALSE, messageDelta |-> FALSE, done |-> FALSE,
                  stopReason |-> "", block |-> NoBlock, nextBlock |-> 0, seen |-> {}, usage |-> 0]
    BY Zenon, <1>3 DEF Init, NewMessageStream
  <2>2. /\ DOMAIN stream = MessageFields /\ stream.queue = <<>> /\ stream.sequence = 0 /\ stream.started = FALSE
        /\ stream.done = FALSE /\ stream.block = NoBlock /\ stream.usage = 0
    BY <2>1 DEF MessageFields
  <2>3. NamesCall(stream.block)
    <3>1. <<>> \in Words
      BY DEF Words
    <3> QED
      BY <2>2, <3>1 DEF NamesCall, NoBlock
  <2>4. Continues(stream, validator)
    <3>1. {"queue", "sequence", "done"} \subseteq DOMAIN stream
      BY <2>2 DEF MessageFields
    <3>2. Ends(stream) = {}
      BY Zenon, <2>2 DEF Ends
    <3>3. InOrder(stream.queue, validator.last, stream.sequence, Ends(stream))
      <4>1. InOrder(<<>>, 0, 0, {})
        BY DEF InOrder
      <4> QED
        BY Zenon, <1>2, <2>2, <3>2, <4>1
    <3>4. 0 \in Nat
      OBVIOUS
    <3> QED
      BY Zenon, <1>2, <2>2, <3>1, <3>2, <3>3, <3>4 DEF Continues
  <2>5. 0 \in Nat
    OBVIOUS
  <2>6. MessageOrder(stream, validator)
    BY Zenon, <2>2, <2>3, <2>4, <2>5 DEF MessageOrder
  <2> QED
    BY Zenon, <1>3, <2>6, InitialControl DEF OrderInv, Orderly, Init
<1>4. CASE adapter # "messages"
  <2>1. PICK s : s = [queue |-> <<>>, sequence |-> 0, done |-> FALSE, finish |-> "", calls |-> <<>>, usage |-> Nothing]
    BY Zenon
  <2>2. stream = Enqueue(s, Plain("start"))
    BY Zenon, <1>4, <2>1 DEF Init, NewChatStream
  <2>3. /\ DOMAIN s = ChatFields /\ s.queue = <<>> /\ s.sequence = 0 /\ s.done = FALSE
        /\ s.calls = <<>> /\ s.usage = Nothing
    BY <2>1 DEF ChatFields
  <2>4. Gathers(s)
    <3>1. DOMAIN s.calls = {}
      BY <2>3
    <3>2. IsFiniteSet({})
      BY FS_EmptySet
    <3> QED
      BY Zenon, <2>3, <3>1, <3>2 DEF Gathers
  <2>5. Continues(s, validator)
    <3>1. {"queue", "sequence", "done"} \subseteq DOMAIN s
      BY <2>3 DEF ChatFields
    <3>2. Ends(s) = {}
      BY Zenon, <2>3 DEF Ends
    <3>3. InOrder(s.queue, validator.last, s.sequence, Ends(s))
      <4>1. InOrder(<<>>, 0, 0, {})
        BY DEF InOrder
      <4> QED
        BY Zenon, <1>2, <2>3, <3>2, <4>1
    <3>4. 0 \in Nat
      OBVIOUS
    <3> QED
      BY Zenon, <1>2, <2>3, <3>1, <3>2, <3>3, <3>4 DEF Continues
  <2>6. "start" \in EventTypes /\ "start" \notin Final
    BY DEF EventTypes, Final
  <2>7. Plain("start") \in Events /\ Plain("start").type = "start"
    BY Zenon, <2>6, PlainEvent
  <2>8. /\ Continues(stream, validator) /\ ~stream.done /\ stream.sequence # 0
        /\ Kept(s, stream, {"queue", "sequence"})
    BY Zenon, <2>2, <2>3, <2>5, <2>6, <2>7, Enqueues
  <2>9. Kept(s, stream, {"queue", "sequence", "done"})
    BY Zenon, <2>8 DEF Kept
  <2>10. ChatOrder(stream, validator)
    BY Zenon, <2>4, <2>8, <2>9, GathersStay DEF ChatOrder, Continues
  <2> QED
    BY Zenon, <1>4, <2>10, InitialControl DEF OrderInv, Orderly, Init
<1> QED
  BY Zenon, <1>3, <1>4

(* The state that a frame leaves is in order.                              *)
LEMMA ConsumedOrder ==
  ASSUME AdapterAssumption, OrderInv, outcome = "none", ~stream.done, NEW frame \in Sendable, NEW s \in Consumed(frame)
  PROVE Orderly(adapter, s, validator)
<1>1. Orderly(adapter, stream, validator)
  BY Zenon DEF OrderInv
<1>2. CASE adapter = "messages"
  <2>1. frame \in MessageFrames /\ s \in Consume(stream, frame)
    BY Zenon, <1>2 DEF AdapterAssumption, Sendable, Consumed
  <2> QED
    BY Zenon, <1>1, <1>2, <2>1, MessagesKeepOrder DEF Orderly
<1>3. CASE adapter # "messages"
  <2>1. frame \in Chunks /\ s \in ConsumeChunk(stream, frame)
    BY Zenon, <1>3 DEF AdapterAssumption, Sendable, Consumed
  <2> QED
    BY Zenon, <1>1, <1>3, <2>1, ChatsKeepOrder DEF Orderly
<1> QED
  BY Zenon, <1>2, <1>3

LEMMA RecvKeeps ==
  ASSUME OrderInv, Recv
  PROVE OrderInv' /\ Step
<1>1. /\ pc = "ready" /\ adapter' = adapter /\ orphans' = orphans /\ streamDone' = streamDone /\ wire' = wire
  BY Zenon DEF Recv
<1>2. pc \in {"ready", "wait"} /\ streamDone \in BOOLEAN /\ orphans \in {0, 1} /\ (orphans = 1 => streamDone)
  BY Zenon, <1>1 DEF OrderInv, ControlInv
<1>3. CASE callDone \/ streamDone
  <2>1. Failed("cancelled") /\ stream' = stream /\ reader' = reader
    BY Zenon, <1>3 DEF Recv
  <2>2. reader = "none" /\ "cancelled" \in Failures
    BY Zenon, <1>1 DEF OrderInv, ControlInv, Failures
  <2> QED
    BY Zenon, <1>1, <1>2, <2>1, <2>2, FailsKeep
<1>4. CASE ~(callDone \/ streamDone)
  <2>1. Advance(stream)
    BY Zenon, <1>4 DEF Recv
  <2>2. outcome = "none"
    BY Zenon, <1>1, <1>4 DEF OrderInv, ControlInv
  <2>3. Orderly(adapter, stream, validator)
    BY Zenon, <2>2 DEF OrderInv
  <2> QED
    BY Zenon, <1>1, <1>2, <2>1, <2>2, <2>3, AdvanceKeeps
<1> QED
  BY Zenon, <1>3, <1>4

LEMMA AbandonKeeps ==
  ASSUME OrderInv, Abandon
  PROVE OrderInv' /\ Step
<1>1. /\ pc = "ready" /\ pc' = "close" /\ outcome' = "abandoned" /\ adapter' = adapter /\ stream' = stream
      /\ reader' = reader /\ orphans' = orphans /\ streamDone' = streamDone /\ validator' = validator /\ wire' = wire
  BY Zenon DEF Abandon, contexts, received
<1>2. outcome \in Outcomes /\ reader = "none" /\ outcome # "eof"
  BY Zenon, <1>1 DEF OrderInv, ControlInv
<1>3. outcome = "none" \/ outcome \in Failures
  BY <1>2 DEF Outcomes, Failures
<1>4. "abandoned" \in Outcomes /\ "abandoned" \in Failures
  BY DEF Outcomes, Failures
<1>5. ControlInv'
  BY Zenon, <1>1, <1>2, <1>4 DEF OrderInv, ControlInv
<1>6. OrderInv'
  BY Zenon, <1>1, <1>5 DEF OrderInv
<1> QED
  BY Zenon, <1>1, <1>3, <1>4, <1>6, FailStep, QuietStep

LEMMA TakeResultKeeps ==
  ASSUME AdapterAssumption, OrderInv, TakeResult
  PROVE OrderInv' /\ Step
<1>1. /\ pc = "wait" /\ adapter' = adapter /\ orphans' = orphans
  BY Zenon DEF TakeResult
<1>2. /\ pc \in {"ready", "wait"} /\ streamDone \in BOOLEAN /\ outcome = "none" /\ orphans = 0
      /\ ~stream.done /\ DOMAIN wire = {"begun", "usage", "lost"}
  BY Zenon, <1>1 DEF OrderInv, ControlInv
<1>3. /\ "cancelled" \in Failures /\ "unread" \in Failures /\ "refused" \in Failures
      /\ 0 \in {0, 1} /\ 0 # 1
  BY DEF Failures
<1>4. CASE callDone
  <2>1. /\ streamDone' = TRUE /\ Failed("cancelled") /\ reader' = "none" /\ stream' = stream
        /\ wire' = [wire EXCEPT !.lost = @ \/ reader = "frame"]
    BY Zenon, <1>4 DEF TakeResult, Shut
  <2>2. DOMAIN wire' = DOMAIN wire
    BY Zenon, <2>1
  <2> QED
    BY Zenon, <1>1, <1>2, <1>3, <2>1, <2>2, FailsKeep
<1>5. CASE ~callDone
  <2>1. streamDone' = streamDone
    BY Zenon, <1>5 DEF TakeResult
  <2>2. CASE reader = "end" /\ reader' = "none" /\ Failed(ReadFailed) /\ UNCHANGED <<stream, wire>>
    <3>1. ReadFailed \in Failures
      BY Zenon, <1>3 DEF ReadFailed
    <3> QED
      BY Zenon, <1>1, <1>2, <1>3, <2>1, <2>2, <3>1, FailsKeep
  <2>3. CASE Failed("refused") /\ reader' = "none" /\ UNCHANGED <<stream, wire>>
    BY Zenon, <1>1, <1>2, <1>3, <2>1, <2>3, FailsKeep
  <2>4. CASE \E frame \in Sendable : \E s \in Consumed(frame) : Advance(s) /\ wire' = Noted(frame)
    <3>1. PICK frame \in Sendable : \E s \in Consumed(frame) : Advance(s) /\ wire' = Noted(frame)
      BY Zenon, <2>4
    <3>2. PICK s \in Consumed(frame) : Advance(s) /\ wire' = Noted(frame)
      BY Zenon, <3>1
    <3>3. Orderly(adapter, s, validator)
      BY Zenon, <1>2, ConsumedOrder
    <3>4. DOMAIN wire' = DOMAIN wire /\ wire'.lost = wire.lost
      BY <1>2, <3>2 DEF Noted
    <3> QED
      BY Zenon, <1>1, <1>2, <2>1, <3>2, <3>3, <3>4, AdvanceKeeps
  <2> QED
    BY Zenon, <1>5, <2>2, <2>3, <2>4 DEF TakeResult
<1> QED
  BY Zenon, <1>4, <1>5

LEMMA TakeDoneKeeps ==
  ASSUME OrderInv, TakeDone
  PROVE OrderInv' /\ Step
<1>1. /\ pc = "wait" /\ adapter' = adapter /\ stream' = stream /\ streamDone' = TRUE /\ Failed("cancelled")
      /\ reader' = "none" /\ orphans' = (IF reader = "reading" THEN orphans + 1 ELSE orphans)
      /\ wire' = [wire EXCEPT !.lost = @ \/ reader = "frame"]
  BY Zenon DEF TakeDone, ShutOnCancel, Shut, LeaveReader
<1>2. pc \in {"ready", "wait"} /\ orphans = 0 /\ DOMAIN wire = {"begun", "usage", "lost"}
  BY Zenon, <1>1 DEF OrderInv, ControlInv
<1>3. orphans' \in {0, 1} /\ "cancelled" \in Failures
  BY <1>1, <1>2 DEF Failures
<1>4. DOMAIN wire' = DOMAIN wire
  BY Zenon, <1>1
<1> QED
  BY Zenon, <1>1, <1>2, <1>3, <1>4, FailsKeep

(* The other steps touch neither the stream nor the outcome.               *)
Apart ==
  adapter' = adapter /\ stream' = stream /\ outcome' = outcome /\ validator' = validator /\ turn' = turn

LEMMA CloseTurnKeeps ==
  ASSUME OrderInv, CloseTurn
  PROVE OrderInv' /\ Step /\ Apart
<1>1. /\ pc = "close" /\ pc' = "done" /\ streamDone' = TRUE /\ reader' = reader /\ orphans' = orphans /\ wire' = wire
      /\ Apart
  BY Zenon DEF CloseTurn, Shut, received, Apart
<1>2. ControlInv'
  BY Zenon, <1>1 DEF OrderInv, ControlInv, Apart
<1>3. OrderInv'
  BY Zenon, <1>1, <1>2 DEF OrderInv, Apart
<1> QED
  BY Zenon, <1>1, <1>3, QuietStep DEF Apart

LEMMA ReadKeeps ==
  ASSUME OrderInv, Read
  PROVE OrderInv' /\ Step /\ Apart
<1>1. /\ reader = "reading" /\ reader' \in {"frame", "end"} /\ pc' = pc /\ streamDone' = streamDone /\ orphans' = orphans
      /\ wire' = wire /\ Apart
  BY Zenon DEF Read, contexts, received, Apart
<1>2. pc = "wait" /\ reader' # "none"
  BY Zenon, <1>1 DEF OrderInv, ControlInv
<1>3. ControlInv'
  BY Zenon, <1>1, <1>2 DEF OrderInv, ControlInv, Apart
<1>4. OrderInv'
  BY Zenon, <1>1, <1>3 DEF OrderInv, Apart
<1> QED
  BY Zenon, <1>1, <1>4, QuietStep DEF Apart

LEMMA OrphanReadKeeps ==
  ASSUME OrderInv, OrphanRead
  PROVE OrderInv' /\ Step /\ Apart
<1>1. /\ orphans > 0 /\ orphans' = orphans - 1 /\ pc' = pc /\ streamDone' = streamDone /\ reader' = reader
      /\ wire' = [wire EXCEPT !.lost = TRUE] \/ wire' = wire
      /\ Apart
  BY Zenon DEF OrphanRead, Left, contexts, received, Apart
<1>2. orphans \in {0, 1} /\ DOMAIN wire = {"begun", "usage", "lost"}
  BY Zenon DEF OrderInv, ControlInv
<1>3. orphans = 1 /\ orphans' = 0 /\ 0 \in {0, 1} /\ 0 # 1
  BY <1>1, <1>2
<1>4. outcome \notin {"none", "eof"} /\ DOMAIN wire' = {"begun", "usage", "lost"}
  BY Zenon, <1>1, <1>2, <1>3 DEF OrderInv, ControlInv
<1>5. ControlInv'
  BY Zenon, <1>1, <1>3, <1>4 DEF OrderInv, ControlInv, Apart
<1>6. OrderInv'
  BY Zenon, <1>1, <1>5 DEF OrderInv, Apart
<1> QED
  BY Zenon, <1>1, <1>6, QuietStep DEF Apart

LEMMA CancelKeeps ==
  ASSUME OrderInv, CancelCall \/ CancelStream \/ CloseElsewhere
  PROVE OrderInv' /\ Step /\ Apart
<1>1. /\ pc' = pc /\ (streamDone' = TRUE \/ streamDone' = streamDone) /\ reader' = reader /\ orphans' = orphans
      /\ wire' = wire /\ Apart
  BY Zenon DEF CancelCall, CancelStream, CloseElsewhere, Shut, received, Apart
<1>2. ControlInv'
  BY Zenon, <1>1 DEF OrderInv, ControlInv, Apart
<1>3. OrderInv'
  BY Zenon, <1>1, <1>2 DEF OrderInv, Apart
<1> QED
  BY Zenon, <1>1, <1>3, QuietStep DEF Apart

LEMMA StepKeeps ==
  ASSUME AdapterAssumption, OrderInv, [Next]_vars
  PROVE OrderInv' /\ Step
<1>1. CASE UNCHANGED vars
  <2>1. /\ adapter' = adapter /\ stream' = stream /\ pc' = pc /\ reader' = reader /\ orphans' = orphans
        /\ streamDone' = streamDone /\ outcome' = outcome /\ validator' = validator /\ wire' = wire
    BY Zenon, <1>1 DEF vars
  <2>2. ControlInv'
    BY Zenon, <2>1 DEF OrderInv, ControlInv
  <2>3. OrderInv'
    BY Zenon, <2>1, <2>2 DEF OrderInv
  <2> QED
    BY Zenon, <2>1, <2>3, QuietStep
<1>2. CASE Next
  BY Zenon, <1>2, RecvKeeps, AbandonKeeps, TakeResultKeeps, TakeDoneKeeps, CloseTurnKeeps, ReadKeeps, OrphanReadKeeps,
     CancelKeeps DEF Next
<1> QED
  BY Zenon, <1>1, <1>2

(* What an adapter's queue holds continues what its consumer has accepted, *)
(* for every frame that a server may send and whenever contexts end.       *)
THEOREM AlwaysOrderInv == Spec => []OrderInv
<1>1. Init => OrderInv
  BY InitialOrder
<1>2. OrderInv /\ [Next]_vars => OrderInv'
  BY Zenon, StepKeeps, AdapterAssumption
<1> QED
  BY <1>1, <1>2, PTL DEF Spec

(* nextSSE: one goroutine at most reads from the decoder, which is not     *)
(* safe for concurrent use, though cancelled calls leave theirs behind.    *)
THEOREM OneGoroutineReads == Spec => []OneReader
<1>1. OrderInv => OneReader
  <2>1. SUFFICES ASSUME OrderInv PROVE OneReader
    OBVIOUS
  <2>2. orphans \in {0, 1} /\ (orphans = 1 => outcome # "none") /\ (pc = "wait" => outcome = "none")
        /\ (pc # "wait" => reader = "none")
    BY Zenon, <2>1 DEF OrderInv, ControlInv
  <2> QED
    BY <2>2 DEF OneReader
<1> QED
  BY <1>1, AlwaysOrderInv, PTL

(* Recv of both adapters implements ModelStream: the events are those that *)
(* a ModelStreamValidator accepts, io.EOF comes after one terminal event,  *)
(* and nothing comes after the end or a failure.                           *)
THEOREM AdaptersKeepContract == Spec => KeepsContract
<1>1. Init => Contract!Init
  <2>1. SUFFICES ASSUME Init PROVE Contract!Init
    OBVIOUS
  <2>2. outcome = "none" /\ validator = Contract!NewValidator
    BY Zenon, <2>1 DEF Init, NewValidator, Contract!NewValidator
  <2> QED
    BY Zenon, <2>2, PhaseOf DEF Contract!Init
<1>2. OrderInv /\ [Next]_vars => [Contract!Next]_(Contract!vars)
  BY Zenon, StepKeeps, AdapterAssumption DEF Step
<1> QED
  BY <1>1, <1>2, AlwaysOrderInv, PTL DEF Spec, KeepsContract, Contract!Spec
=============================================================================
