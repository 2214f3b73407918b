-------------------------- MODULE InformersProofs --------------------------
(***************************************************************************)
(* The Cluster Agent's informers, for any kinds, objects, changes, errors  *)
(* and restarts: types, and that no event makes more than one row.         *)
(***************************************************************************)
EXTENDS Informers, Integers, FiniteSetTheorems, SequenceTheorems, TLAPS

-----------------------------------------------------------------------------
(* Bags, as sets of their elements                                         *)

\* The union of two bags.
LEMMA BagUnionFacts ==
    ASSUME NEW B, IsABag(B), NEW C, IsABag(C)
    PROVE  /\ IsABag(B (+) C)
           /\ BagToSet(B (+) C) = BagToSet(B) \cup BagToSet(C)
           /\ \A x \in BagToSet(B) \ BagToSet(C) : (B (+) C)[x] = B[x]
  BY DEF IsABag, BagToSet, (+)

\* Removing an element yields a bag and adds no element.
LEMMA BagRemoveFacts ==
    ASSUME NEW B, IsABag(B), NEW x
    PROVE  /\ IsABag(B (-) SetToBag({x}))
           /\ BagToSet(B (-) SetToBag({x})) \subseteq BagToSet(B)
           /\ \A y \in BagToSet(B (-) SetToBag({x})) : (B (-) SetToBag({x}))[y] <= B[y]
  BY DEF IsABag, BagToSet, SetToBag, (-)

\* The empty bag is one, and has no elements.
LEMMA EmptyBagFacts == IsABag(EmptyBag) /\ BagToSet(EmptyBag) = {}
  BY DEF IsABag, BagToSet, EmptyBag, SetToBag

-----------------------------------------------------------------------------
(* Counting                                                                *)

\* How often e occurs in a queue.
Occ(s, e) == Cardinality({i \in DOMAIN s : s[i] = e})

One(b) == IF b THEN 1 ELSE 0

\* A queue is finite.
LEMMA OccType ==
    ASSUME NEW S, NEW s \in Seq(S), NEW e
    PROVE  IsFiniteSet({i \in DOMAIN s : s[i] = e}) /\ Occ(s, e) \in Nat
<1>1. DOMAIN s = 1 .. Len(s) /\ Len(s) \in Nat
  OBVIOUS
<1>2. IsFiniteSet(DOMAIN s)
  BY <1>1, FS_Interval
<1>3. {i \in DOMAIN s : s[i] = e} \in SUBSET DOMAIN s
  OBVIOUS
<1>4. IsFiniteSet({i \in DOMAIN s : s[i] = e})
  BY <1>2, <1>3, FS_Subset
<1> QED
  BY <1>4, FS_CardinalityType DEF Occ

\* An empty queue holds no event.
LEMMA OccEmpty ==
    ASSUME NEW e
    PROVE  Occ(<< >>, e) = 0
<1>1. {i \in DOMAIN << >> : << >>[i] = e} = {}
  OBVIOUS
<1> QED
  BY <1>1, FS_EmptySet DEF Occ

\* An event that is appended counts once more.
LEMMA OccAppend ==
    ASSUME NEW S, NEW s \in Seq(S), NEW x \in S, NEW e
    PROVE  Occ(Append(s, x), e) = Occ(s, e) + One(x = e)
<1> DEFINE n == Len(s)
           I == {i \in DOMAIN s : s[i] = e}
           t == Append(s, x)
           J == {i \in DOMAIN t : t[i] = e}
<1>1. n \in Nat /\ DOMAIN s = 1 .. n /\ DOMAIN t = 1 .. n + 1
  OBVIOUS
<1>2. t[n + 1] = x /\ \A i \in 1 .. n : t[i] = s[i]
  OBVIOUS
<1>3. IsFiniteSet(I) /\ Cardinality(I) \in Nat
  BY OccType DEF Occ
<1>4. n + 1 \notin I
  BY <1>1
<1> HIDE DEF n, t
<1>5. J = IF x = e THEN I \cup {n + 1} ELSE I
  BY <1>1, <1>2
<1>6. Cardinality(I \cup {n + 1}) = Cardinality(I) + 1
  <2> HIDE DEF I
  <2> QED
    BY <1>3, <1>4, FS_AddElement
<1>7. Cardinality(J) = Cardinality(I) + One(x = e)
  <2> HIDE DEF I, J
  <2> QED
    BY <1>3, <1>5, <1>6 DEF One
<1> QED
  BY <1>7 DEF Occ, t

\* An event that is taken from the front counts once less.
LEMMA OccTail ==
    ASSUME NEW S, NEW s \in Seq(S), s # << >>, NEW e
    PROVE  Occ(s, e) = Occ(Tail(s), e) + One(Head(s) = e)
<1> DEFINE n == Len(s)
           t == Tail(s)
           J == {i \in DOMAIN t : t[i] = e}
           K == {i \in 2 .. n : s[i] = e}
           I == {i \in DOMAIN s : s[i] = e}
           f == [i \in J |-> i + 1]
<1>1. n \in Nat /\ n > 0 /\ DOMAIN s = 1 .. n /\ DOMAIN t = 1 .. n - 1 /\ t \in Seq(S)
  OBVIOUS
<1>2. Head(s) = s[1] /\ \A i \in 1 .. n - 1 : t[i] = s[i + 1]
  OBVIOUS
<1>3. IsFiniteSet(J) /\ Cardinality(J) \in Nat
  BY <1>1, OccType DEF Occ
<1> HIDE DEF n, t
<1>4. f \in Bijection(J, K)
  <2>1. \A i \in J : i \in Nat /\ i + 1 \in K
    BY <1>1, <1>2
  <2>2. \A k \in K : k - 1 \in J /\ (k - 1) + 1 = k
    BY <1>1, <1>2
  <2> HIDE DEF J, K
  <2>3. f \in [J -> K]
    BY <2>1
  <2>4. \A i, j \in J : f[i] = f[j] => i = j
    BY <2>1
  <2>5. \A k \in K : \E i \in J : f[i] = k
    BY <2>2
  <2> QED
    BY <2>3, <2>4, <2>5 DEF Bijection, Injection, Surjection, IsInjective
<1>5. IsFiniteSet(K) /\ Cardinality(K) = Cardinality(J)
  <2> HIDE DEF J, K, f
  <2> QED
    BY <1>3, <1>4, FS_Bijection DEF ExistsBijection
<1>6. 1 \notin K /\ I = IF Head(s) = e THEN K \cup {1} ELSE K
  BY <1>1, <1>2
<1>7. Cardinality(I) = Cardinality(J) + One(Head(s) = e)
  <2> HIDE DEF I, J, K, f
  <2>1. Cardinality(K \cup {1}) = Cardinality(K) + 1
    BY <1>5, <1>6, FS_AddElement
  <2> QED
    BY <1>3, <1>5, <1>6, <2>1 DEF One
<1> QED
  BY <1>7 DEF Occ, t

\* Nothing occurs twice in a queue without repetitions.
LEMMA OccInjective ==
    ASSUME NEW S, NEW s \in Seq(S), NEW e,
           \A i, j \in DOMAIN s : i # j => s[i] # s[j]
    PROVE  Occ(s, e) <= One(\E i \in DOMAIN s : s[i] = e)
<1> DEFINE I == {i \in DOMAIN s : s[i] = e}
<1>1. CASE \E i \in DOMAIN s : s[i] = e
  <2>1. PICK i \in DOMAIN s : s[i] = e
    BY <1>1
  <2>2. I = {i}
    BY <2>1
  <2>3. Cardinality(I) = 1
    BY <2>2, FS_Singleton
  <2> QED
    BY <1>1, <2>3 DEF Occ, One
<1>2. CASE ~ \E i \in DOMAIN s : s[i] = e
  <2>1. I = {}
    BY <1>2
  <2>2. Cardinality(I) = 0
    BY <2>1, FS_EmptySet
  <2> QED
    BY <1>2, <2>2 DEF Occ, One
<1> QED
  BY <1>1, <1>2

\* Copies in a bag are counted by numbers.
LEMMA CopiesType ==
    ASSUME NEW b, IsABag(b), NEW e
    PROVE  Copies(e, b) \in Nat
  BY DEF IsABag, Copies, BagIn, BagToSet

\* The empty bag holds none.
LEMMA CopiesEmpty ==
    ASSUME NEW e
    PROVE  Copies(e, EmptyBag) = 0
  BY EmptyBagFacts DEF Copies, BagIn

\* A set is added to a bag as one copy of each element.
LEMMA CopiesAddSet ==
    ASSUME NEW b, IsABag(b), NEW S, NEW e
    PROVE  Copies(e, b (+) SetToBag(S)) = Copies(e, b) + One(e \in S)
  BY DEF IsABag, Copies, BagIn, BagToSet, SetToBag, (+), One

\* Removing one copy.
LEMMA CopiesRemove ==
    ASSUME NEW b, IsABag(b), NEW x \in BagToSet(b), NEW e
    PROVE  Copies(e, b (-) SetToBag({x})) = Copies(e, b) - One(e = x)
  BY DEF IsABag, Copies, BagIn, BagToSet, SetToBag, (-), One

-----------------------------------------------------------------------------
(* The invariant                                                           *)

\* A watch holds events of its own kind, and none when its informer is gone.
WatchShape ==
    \A k \in Kinds :
        /\ ~ informer[k] => watch[k] = << >>
        /\ \A i \in DOMAIN watch[k] : watch[k][i].object.kind = k

Balance(e) ==
    Occ(watch[e.object.kind], e) + Copies(e, rpcs) + Copies(e, writers) + Copies(e, rows)
        <= Copies(e, emitted)

\* Every copy of an event, wherever it is on its way to the table, was
\* delivered by a watch.
Balanced == \A e \in Event : Balance(e)

AllSent == \A e \in BagToSet(rpcs) \cup BagToSet(writers) \cup BagToSet(rows) : IsSent(e)

IInv == TypeOK /\ IsFiniteSet(objects) /\ WatchShape /\ Balanced /\ AllSent

\* An event is about an object of some kind.
LEMMA EventFacts ==
    ASSUME NEW e \in Event
    PROVE  e.object \in Objects /\ e.object.kind \in Kinds
  BY InformersAssumption DEF Event, Kinds

\* What each bag and queue counts is a number.
LEMMA CountTypes ==
    ASSUME TypeOK, NEW e \in Event
    PROVE  /\ Copies(e, rpcs) \in Nat /\ Copies(e, writers) \in Nat
           /\ Copies(e, rows) \in Nat /\ Copies(e, emitted) \in Nat
           /\ \A k \in Kinds : Occ(watch[k], e) \in Nat
<1>1. IsABag(rpcs) /\ IsABag(writers) /\ IsABag(rows) /\ IsABag(emitted)
  BY DEF TypeOK, EventBag
<1>2. \A k \in Kinds : watch[k] \in Seq(Event)
  BY DEF TypeOK
<1>3. \A k \in Kinds : Occ(watch[k], e) \in Nat
  BY <1>2, OccType
<1> QED
  BY <1>1, <1>3, CopiesType

\* Putting an event into a bag of events, and taking one out.
LEMMA EventBagAdd ==
    ASSUME NEW b, EventBag(b), NEW S \in SUBSET Event
    PROVE  /\ EventBag(b (+) SetToBag(S))
           /\ BagToSet(b (+) SetToBag(S)) = BagToSet(b) \cup S
           /\ \A e : Copies(e, b (+) SetToBag(S)) = Copies(e, b) + One(e \in S)
<1>1. IsABag(b)
  BY DEF EventBag
<1>2. IsABag(SetToBag(S)) /\ BagToSet(SetToBag(S)) = S
  BY DEF IsABag, BagToSet, SetToBag
<1>3. IsABag(b (+) SetToBag(S)) /\ BagToSet(b (+) SetToBag(S)) = BagToSet(b) \cup S
  BY <1>1, <1>2, BagUnionFacts
<1> QED
  BY <1>1, <1>3, CopiesAddSet DEF EventBag

\* Bags of events after a removal.
LEMMA EventBagRemove ==
    ASSUME NEW b, EventBag(b), NEW x \in BagToSet(b)
    PROVE  /\ EventBag(b (-) SetToBag({x}))
           /\ BagToSet(b (-) SetToBag({x})) \subseteq BagToSet(b)
           /\ \A e : Copies(e, b (-) SetToBag({x})) = Copies(e, b) - One(e = x)
<1>1. IsABag(b)
  BY DEF EventBag
<1>2. /\ IsABag(b (-) SetToBag({x}))
      /\ BagToSet(b (-) SetToBag({x})) \subseteq BagToSet(b)
  BY <1>1, BagRemoveFacts
<1> QED
  BY <1>1, <1>2, CopiesRemove DEF EventBag

\* The bag a restart leaves.
LEMMA EventBagEmpty == EventBag(EmptyBag) /\ BagToSet(EmptyBag) = {}
  BY EmptyBagFacts DEF EventBag

-----------------------------------------------------------------------------
(* The cluster's steps                                                     *)

LEMMA EmitKeeps ==
    ASSUME IInv, NEW o \in Objects, NEW x \in {Applied(o), Deleted(o)}, Emit(x),
           objects' \in {objects \cup {o}, objects \ {o}}
    PROVE  IInv'
<1> DEFINE k == x.object.kind
<1> USE DEF IInv
<1>1. x \in Event
  BY DEF Event, Applied, Deleted
<1>2. k \in Kinds
  BY <1>1, EventFacts
<1>3. objects' \subseteq Objects /\ IsFiniteSet(objects')
  <2>1. IsFiniteSet(objects \cup {o}) /\ IsFiniteSet(objects \ {o})
    BY FS_AddElement, FS_RemoveElement
  <2> QED
    BY <2>1 DEF TypeOK
<1>4. /\ up' = up /\ informer' = informer /\ rpcs' = rpcs /\ writers' = writers
      /\ rows' = rows /\ reported' = reported /\ errors' = errors /\ restarts' = restarts
      /\ changes' \in 0 .. MaxChanges
  BY InformersAssumption DEF Emit, TypeOK
<1>5. CASE ~ informer[k]
  <2>1. watch' = watch /\ emitted' = emitted
    BY <1>5 DEF Emit
  <2>2. TypeOK'
    BY <1>3, <1>4, <2>1 DEF TypeOK
  <2>3. WatchShape' /\ AllSent'
    BY <1>4, <2>1 DEF WatchShape, AllSent
  <2>4. Balanced'
    BY <1>4, <2>1 DEF Balanced, Balance
  <2> QED
    BY <1>3, <2>2, <2>3, <2>4
<1>6. CASE informer[k]
  <2>1. /\ watch' = [watch EXCEPT ![k] = Append(watch[k], x)]
        /\ emitted' = emitted (+) SetToBag({x})
    BY <1>6 DEF Emit
  <2>2. watch \in [Kinds -> Seq(Event)] /\ EventBag(emitted)
    BY DEF TypeOK
  <2>3. watch[k] \in Seq(Event)
    BY <1>2, <2>2
  <2> HIDE DEF k
  <2>4. watch' \in [Kinds -> Seq(Event)]
    <3>1. Append(watch[k], x) \in Seq(Event)
      BY <1>1, <2>3, AppendProperties
    <3> QED
      BY <1>2, <2>1, <2>2, <3>1
  <2>5. /\ EventBag(emitted')
        /\ \A e : Copies(e, emitted') = Copies(e, emitted) + One(e \in {x})
    BY <1>1, <2>1, <2>2, EventBagAdd
  <2>6. TypeOK'
    BY <1>3, <1>4, <2>4, <2>5 DEF TypeOK
  <2>7. \A j \in Kinds : watch'[j] = IF j = k THEN Append(watch[k], x) ELSE watch[j]
    BY <1>2, <2>1, <2>2
  <2>8. WatchShape'
    <3>1. ASSUME NEW j \in Kinds
          PROVE  /\ ~ informer[j] => watch'[j] = << >>
                 /\ \A i \in DOMAIN watch'[j] : watch'[j][i].object.kind = j
      <4>1. CASE j # k
        BY <2>7, <4>1 DEF WatchShape
      <4>2. CASE j = k
        <5>1. \A i \in DOMAIN Append(watch[k], x) :
                 Append(watch[k], x)[i] \in {watch[k][n] : n \in DOMAIN watch[k]} \cup {x}
          BY <2>3
        <5>2. \A n \in DOMAIN watch[k] : watch[k][n].object.kind = k
          BY <1>2 DEF WatchShape
        <5>3. x.object.kind = k
          BY DEF k
        <5>4. \A i \in DOMAIN Append(watch[k], x) : Append(watch[k], x)[i].object.kind = k
          BY <5>1, <5>2, <5>3
        <5>5. watch'[j] = Append(watch[k], x)
          BY <2>7, <4>2
        <5> QED
          BY <1>6, <4>2, <5>4, <5>5
      <4> QED
        BY <4>1, <4>2
    <3> QED
      BY <1>4, <3>1 DEF WatchShape
  <2>9. Balanced'
    <3> SUFFICES ASSUME NEW e \in Event PROVE Balance(e)'
      BY DEF Balanced
    <3>1. e.object.kind \in Kinds
      BY EventFacts
    <3>2. Occ(watch[k], e) \in Nat /\ Occ(watch[e.object.kind], e) \in Nat
      BY <1>2, <3>1, CountTypes
    <3>3. Occ(Append(watch[k], x), e) = Occ(watch[k], e) + One(x = e)
      BY <1>1, <2>3, OccAppend
    <3>4. Occ(watch'[e.object.kind], e) <= Occ(watch[e.object.kind], e) + One(e \in {x})
      BY <2>7, <3>1, <3>2, <3>3 DEF One
    <3>5. Balance(e)
      BY DEF Balanced
    <3>6. Copies(e, emitted') = Copies(e, emitted) + One(e \in {x})
      BY <2>5
    <3>7. Occ(watch'[e.object.kind], e) \in Nat
      BY <2>6, <3>1, CountTypes, OccType, <2>4
    <3>8. One(e \in {x}) \in Nat
      BY DEF One
    <3> QED
      BY <1>4, <3>2, <3>4, <3>5, <3>6, <3>7, <3>8, CountTypes DEF Balance
  <2>10. AllSent'
    BY <1>4 DEF AllSent
  <2> QED
    BY <1>3, <2>6, <2>8, <2>9, <2>10
<1> QED
  BY <1>5, <1>6

-----------------------------------------------------------------------------
(* The agent's steps                                                       *)

LEMMA HandleKeeps ==
    ASSUME IInv, NEW k \in Kinds, Handle(k)
    PROVE  IInv'
<1> DEFINE x == Head(watch[k])
<1> USE DEF IInv
<1>1. watch \in [Kinds -> Seq(Event)] /\ EventBag(rpcs)
  BY DEF TypeOK
<1>2. watch[k] \in Seq(Event) /\ watch[k] # << >>
  BY <1>1 DEF Handle
<1>3. x \in Event /\ Tail(watch[k]) \in Seq(Event)
  BY <1>2, HeadTailProperties
<1>4. x.object.kind = k
  <2>1. x = watch[k][1] /\ 1 \in DOMAIN watch[k]
    BY <1>2
  <2> QED
    BY <2>1 DEF WatchShape
<1>5. /\ watch' = [watch EXCEPT ![k] = Tail(watch[k])]
      /\ rpcs' = IF IsSent(x) THEN rpcs (+) SetToBag({x}) ELSE rpcs
      /\ reported' = IF x.type = "Applied" THEN reported \cup {x.object} ELSE reported
      /\ objects' = objects /\ up' = up /\ informer' = informer /\ writers' = writers
      /\ rows' = rows /\ emitted' = emitted /\ changes' = changes /\ errors' = errors
      /\ restarts' = restarts
  BY DEF Handle
<1>6. \A j \in Kinds : watch'[j] = IF j = k THEN Tail(watch[k]) ELSE watch[j]
  BY <1>1, <1>5
<1> HIDE DEF x
<1>7. watch' \in [Kinds -> Seq(Event)]
  BY <1>1, <1>3, <1>5
<1>8. /\ EventBag(rpcs (+) SetToBag({x}))
      /\ BagToSet(rpcs (+) SetToBag({x})) = BagToSet(rpcs) \cup {x}
      /\ \A e : Copies(e, rpcs (+) SetToBag({x})) = Copies(e, rpcs) + One(e \in {x})
  BY <1>1, <1>3, EventBagAdd
<1>9. reported' \subseteq Objects
  BY <1>3, <1>5, EventFacts DEF TypeOK
<1>10. TypeOK'
  BY <1>1, <1>5, <1>7, <1>8, <1>9 DEF TypeOK
<1>11. WatchShape'
  <2>1. ASSUME NEW j \in Kinds
        PROVE  /\ ~ informer[j] => watch'[j] = << >>
               /\ \A i \in DOMAIN watch'[j] : watch'[j][i].object.kind = j
    <3>1. CASE j # k
      BY <1>6, <3>1 DEF WatchShape
    <3>2. CASE j = k
      <4>1. informer[k]
        BY <1>2 DEF WatchShape
      <4>2. \A i \in DOMAIN Tail(watch[k]) :
               /\ i + 1 \in DOMAIN watch[k]
               /\ Tail(watch[k])[i] = watch[k][i + 1]
        BY <1>2
      <4>3. \A n \in DOMAIN watch[k] : watch[k][n].object.kind = k
        BY DEF WatchShape
      <4>4. \A i \in DOMAIN Tail(watch[k]) : Tail(watch[k])[i].object.kind = k
        BY <4>2, <4>3
      <4>5. watch'[j] = Tail(watch[k])
        BY <1>6, <3>2
      <4> QED
        BY <3>2, <4>1, <4>4, <4>5
    <3> QED
      BY <3>1, <3>2
  <2> QED
    BY <1>5, <2>1 DEF WatchShape
<1>12. Balanced'
  <2> SUFFICES ASSUME NEW e \in Event PROVE Balance(e)'
    BY DEF Balanced
  <2> DEFINE j == e.object.kind
  <2>1. j \in Kinds
    BY EventFacts
  <2>2. Occ(watch[j], e) \in Nat /\ Occ(watch'[j], e) \in Nat
    BY <1>1, <1>7, <2>1, OccType
  <2>3. Occ(watch[j], e) = Occ(watch'[j], e) + One(e = x)
    <3>1. CASE j = k
      <4>1. Occ(watch[k], e) = Occ(Tail(watch[k]), e) + One(x = e)
        BY <1>2, OccTail DEF x
      <4>2. watch'[j] = Tail(watch[k]) /\ watch[j] = watch[k]
        BY <1>6, <2>1, <3>1
      <4> HIDE DEF j
      <4> QED
        BY <4>1, <4>2 DEF One
    <3>2. CASE j # k
      <4>1. e # x /\ watch'[j] = watch[j]
        BY <1>4, <1>6, <2>1, <3>2
      <4> HIDE DEF j
      <4> QED
        BY <2>2, <4>1 DEF One
    <3> QED
      BY <3>1, <3>2
  <2>4. Copies(e, rpcs') <= Copies(e, rpcs) + One(e = x) /\ Copies(e, rpcs') \in Nat
    <3>1. Copies(e, rpcs) \in Nat /\ One(e = x) \in {0, 1} /\ One(e \in {x}) = One(e = x)
      BY CountTypes DEF One
    <3>2. Copies(e, rpcs') \in {Copies(e, rpcs), Copies(e, rpcs) + One(e \in {x})}
      BY <1>5, <1>8
    <3> QED
      BY <3>1, <3>2
  <2>5. One(e = x) \in Nat
    BY DEF One
  <2>6. Occ(watch[j], e) + Copies(e, rpcs) + Copies(e, writers) + Copies(e, rows)
           <= Copies(e, emitted)
    BY DEF Balanced, Balance
  <2> HIDE DEF j
  <2>7. Occ(watch'[j], e) + Copies(e, rpcs') + Copies(e, writers) + Copies(e, rows)
           <= Copies(e, emitted)
    BY <2>2, <2>3, <2>4, <2>5, <2>6, CountTypes
  <2> QED
    BY <1>5, <2>7 DEF Balance, j
<1>13. AllSent'
  BY <1>5, <1>8 DEF AllSent
<1> QED
  BY <1>5, <1>10, <1>11, <1>12, <1>13

\* The end of an informer drops its queue.
LEMMA EndKeeps ==
    ASSUME IInv, NEW k \in Kinds, informer[k], End(k),
           errors' \in 0 .. MaxErrors
    PROVE  IInv'
<1> USE DEF IInv
<1>1. /\ objects' = objects /\ writers' = writers /\ rows' = rows /\ emitted' = emitted
      /\ reported' = reported /\ changes' = changes /\ restarts' = restarts
      /\ rpcs' \in {rpcs, EmptyBag}
  BY DEF End
<1>2. /\ up' \in BOOLEAN
      /\ informer' \in [Kinds -> BOOLEAN]
      /\ \A j \in Kinds : informer'[j] => informer[j] /\ up'
  BY DEF End, TypeOK
<1>3. \A j \in Kinds : /\ watch'[j] \in {watch[j], << >>}
                       /\ ~ informer'[j] /\ informer[j] => watch'[j] = << >>
  BY DEF End
<1>4. watch' \in [Kinds -> Seq(Event)]
  <2>1. watch' = [j \in Kinds |-> IF j = k \/ Awaited(k) THEN << >> ELSE watch[j]]
    BY DEF End
  <2>2. \A j \in Kinds : watch[j] \in Seq(Event) /\ << >> \in Seq(Event)
    BY DEF TypeOK
  <2> QED
    BY <2>1, <2>2
<1>5. EventBag(rpcs')
  BY <1>1, EventBagEmpty DEF TypeOK
<1>6. TypeOK'
  BY <1>1, <1>2, <1>4, <1>5 DEF TypeOK
<1>7. WatchShape'
  <2>1. ASSUME NEW j \in Kinds
        PROVE  /\ ~ informer'[j] => watch'[j] = << >>
               /\ \A i \in DOMAIN watch'[j] : watch'[j][i].object.kind = j
    <3>1. CASE watch'[j] = << >>
      BY <3>1
    <3>2. CASE watch'[j] # << >>
      BY <1>3, <3>2 DEF WatchShape
    <3> QED
      BY <3>1, <3>2
  <2> QED
    BY <2>1 DEF WatchShape
<1>8. Balanced'
  <2> SUFFICES ASSUME NEW e \in Event PROVE Balance(e)'
    BY DEF Balanced
  <2> DEFINE j == e.object.kind
  <2>1. j \in Kinds
    BY EventFacts
  <2>2. Occ(watch[j], e) \in Nat /\ Occ(<< >>, e) = 0
    BY <2>1, CountTypes, OccEmpty
  <2>3. Occ(watch'[j], e) \in Nat /\ Occ(watch'[j], e) <= Occ(watch[j], e)
    <3>1. watch'[j] \in {watch[j], << >>}
      BY <1>3, <2>1
    <3> HIDE DEF j
    <3> QED
      BY <2>2, <3>1
  <2>4. Copies(e, rpcs') \in Nat /\ Copies(e, rpcs') <= Copies(e, rpcs)
    BY <1>1, CountTypes, CopiesEmpty
  <2>5. Occ(watch[j], e) + Copies(e, rpcs) + Copies(e, writers) + Copies(e, rows)
           <= Copies(e, emitted)
    BY DEF Balanced, Balance
  <2> HIDE DEF j
  <2>6. Occ(watch'[j], e) + Copies(e, rpcs') + Copies(e, writers) + Copies(e, rows)
           <= Copies(e, emitted)
    BY <2>2, <2>3, <2>4, <2>5, CountTypes
  <2> QED
    BY <1>1, <2>6 DEF Balance, j
<1>9. AllSent'
  BY <1>1, EventBagEmpty DEF AllSent
<1> QED
  BY <1>1, <1>6, <1>7, <1>8, <1>9

\* A new agent's watch finds every object of its kind once.
LEMMA InitEventsFacts ==
    ASSUME IInv, NEW k \in Kinds, NEW s \in InitEvents(k)
    PROVE  /\ s \in Seq(Event)
           /\ \A i \in DOMAIN s : s[i].object.kind = k
           /\ \A e \in Event : Occ(s, e) <= One(e \in {Applied(o) : o \in objects})
<1> USE DEF IInv
<1>1. objects \subseteq Objects /\ OfKind(k) \in SUBSET objects
  BY DEF TypeOK, OfKind
<1> DEFINE n == Cardinality(OfKind(k))
<1>2. n \in Nat
  BY <1>1, FS_Subset, FS_CardinalityType
<1>3. PICK f \in SetToSeqs(OfKind(k)) : s = [i \in DOMAIN f |-> Applied(f[i])]
  BY DEF InitEvents
<1>4. f \in [1 .. n -> OfKind(k)] /\ \A i, j \in 1 .. n : i # j => f[i] # f[j]
  BY DEF SetToSeqs
<1> HIDE DEF n
<1>5. DOMAIN s = 1 .. n /\ \A i \in 1 .. n : s[i] = Applied(f[i])
  BY <1>3, <1>4
<1>6. \A i \in 1 .. n : f[i] \in objects /\ f[i] \in Objects /\ f[i].kind = k
  BY <1>1, <1>4 DEF OfKind
<1>7. \A i \in 1 .. n : s[i] \in Event /\ s[i].object = f[i]
  BY <1>5, <1>6 DEF Event, Applied
<1>8. s \in Seq(Event)
  <2>1. s \in [1 .. n -> Event]
    BY <1>3, <1>4, <1>7, <1>5
  <2> QED
    BY <1>2, <2>1
<1>9. \A i, j \in DOMAIN s : i # j => s[i] # s[j]
  BY <1>4, <1>5, <1>7
<1>10. ASSUME NEW e \in Event
       PROVE  Occ(s, e) <= One(e \in {Applied(o) : o \in objects})
  <2>1. Occ(s, e) \in Nat /\ Occ(s, e) <= One(\E i \in DOMAIN s : s[i] = e)
    BY <1>8, <1>9, OccType, OccInjective
  <2>2. (\E i \in DOMAIN s : s[i] = e) => e \in {Applied(o) : o \in objects}
    BY <1>5, <1>6
  <2> QED
    BY <2>1, <2>2 DEF One
<1> QED
  BY <1>5, <1>6, <1>7, <1>8, <1>10

\* What a new agent lists is counted as emitted.
LEMMA AgentStartsKeeps ==
    ASSUME IInv, AgentStarts
    PROVE  IInv'
<1> DEFINE found == {Applied(o) : o \in objects}
<1> USE DEF IInv
<1>1. /\ ~ up /\ up' = TRUE
      /\ informer' = [k \in Kinds |-> TRUE]
      /\ emitted' = emitted (+) SetToBag(found)
      /\ reported' = {}
      /\ objects' = objects /\ rpcs' = rpcs /\ writers' = writers /\ rows' = rows
      /\ changes' = changes /\ errors' = errors /\ restarts' = restarts
  BY DEF AgentStarts
<1>2. /\ watch' \in [Kinds -> UNION {InitEvents(k) : k \in Kinds}]
      /\ \A k \in Kinds : watch'[k] \in InitEvents(k)
  BY DEF AgentStarts
<1>3. \A k \in Kinds :
         /\ watch'[k] \in Seq(Event)
         /\ \A i \in DOMAIN watch'[k] : watch'[k][i].object.kind = k
         /\ \A e \in Event : Occ(watch'[k], e) <= One(e \in found)
  BY <1>2, InitEventsFacts
<1>4. watch' \in [Kinds -> Seq(Event)]
  BY <1>2, <1>3
<1>5. found \in SUBSET Event /\ EventBag(emitted)
  BY DEF TypeOK, Event, Applied
<1> HIDE DEF found
<1>6. /\ EventBag(emitted')
      /\ \A e : Copies(e, emitted') = Copies(e, emitted) + One(e \in found)
  BY <1>1, <1>5, EventBagAdd
<1>7. TypeOK'
  BY <1>1, <1>4, <1>6 DEF TypeOK
<1>8. WatchShape'
  BY <1>1, <1>3 DEF WatchShape
<1>9. Balanced'
  <2> SUFFICES ASSUME NEW e \in Event PROVE Balance(e)'
    BY DEF Balanced
  <2> DEFINE j == e.object.kind
  <2>1. j \in Kinds
    BY EventFacts
  <2>2. Occ(watch[j], e) \in Nat /\ Occ(watch'[j], e) \in Nat
    BY <1>4, <2>1, CountTypes, OccType
  <2>3. Occ(watch'[j], e) <= One(e \in found)
    BY <1>3, <2>1
  <2>4. One(e \in found) \in Nat
    BY DEF One
  <2>5. Copies(e, emitted') = Copies(e, emitted) + One(e \in found)
    BY <1>6
  <2>6. Occ(watch[j], e) + Copies(e, rpcs) + Copies(e, writers) + Copies(e, rows)
           <= Copies(e, emitted)
    BY DEF Balanced, Balance
  <2> HIDE DEF j
  <2>7. Occ(watch'[j], e) + Copies(e, rpcs) + Copies(e, writers) + Copies(e, rows)
           <= Copies(e, emitted')
    BY <2>2, <2>3, <2>4, <2>5, <2>6, CountTypes
  <2> QED
    BY <1>1, <2>7 DEF Balance, j
<1>10. AllSent'
  BY <1>1 DEF AllSent
<1> QED
  BY <1>1, <1>7, <1>8, <1>9, <1>10

-----------------------------------------------------------------------------
(* Core's steps                                                            *)

\* The queues of the agent do not change; a step that moves, drops or writes
\* copies keeps their sum.
LEMMA CoreKeeps ==
    ASSUME IInv,
           UNCHANGED <<objects, up, informer, watch, emitted, reported, changes, errors>>,
           restarts' \in 0 .. MaxRestarts,
           EventBag(rpcs'), EventBag(writers'), EventBag(rows'),
           \A e \in BagToSet(rpcs') \cup BagToSet(writers') \cup BagToSet(rows') :
              e \in BagToSet(rpcs) \cup BagToSet(writers) \cup BagToSet(rows),
           \A e \in Event :
              Copies(e, rpcs') + Copies(e, writers') + Copies(e, rows')
                 <= Copies(e, rpcs) + Copies(e, writers) + Copies(e, rows)
    PROVE  IInv'
<1> USE DEF IInv
<1>1. TypeOK'
  BY DEF TypeOK
<1>2. WatchShape'
  BY DEF WatchShape
<1>3. AllSent'
  BY DEF AllSent
<1>4. ASSUME NEW e \in Event PROVE Balance(e)'
  <2>1. e.object.kind \in Kinds
    BY EventFacts
  <2>2. Occ(watch[e.object.kind], e) \in Nat
    BY <2>1, CountTypes
  <2>3. Balance(e)
    BY DEF Balanced
  <2>4. IsABag(rpcs') /\ IsABag(writers') /\ IsABag(rows')
    BY DEF EventBag
  <2>5. Copies(e, rpcs') \in Nat /\ Copies(e, writers') \in Nat /\ Copies(e, rows') \in Nat
    BY <2>4, CopiesType
  <2> QED
    BY <2>2, <2>3, <2>5, CountTypes DEF Balance
<1> QED
  BY <1>1, <1>2, <1>3, <1>4 DEF Balanced

\* A delivered call becomes a task of Core; a lost one is gone.
LEMMA RpcKeeps ==
    ASSUME IInv, NEW x \in BagToSet(rpcs), Deliver(x) \/ Lose(x)
    PROVE  IInv'
<1>1. /\ EventBag(rpcs) /\ EventBag(writers) /\ EventBag(rows) /\ x \in Event
      /\ restarts \in 0 .. MaxRestarts
  BY DEF IInv, TypeOK, EventBag
<1>2. /\ UNCHANGED <<objects, up, informer, watch, emitted, reported, changes, errors,
                     restarts, rows>>
      /\ rpcs' = rpcs (-) SetToBag({x})
      /\ writers' \in {writers, writers (+) SetToBag({x})}
  BY DEF Deliver, Lose
<1>3. /\ EventBag(rpcs') /\ BagToSet(rpcs') \subseteq BagToSet(rpcs)
      /\ \A e : Copies(e, rpcs') = Copies(e, rpcs) - One(e = x)
  BY <1>1, <1>2, EventBagRemove
<1>4. /\ EventBag(writers (+) SetToBag({x}))
      /\ BagToSet(writers (+) SetToBag({x})) = BagToSet(writers) \cup {x}
      /\ \A e : Copies(e, writers (+) SetToBag({x})) = Copies(e, writers) + One(e \in {x})
  BY <1>1, EventBagAdd
<1>5. EventBag(writers') /\ BagToSet(writers') \subseteq BagToSet(writers) \cup {x}
  BY <1>1, <1>2, <1>4
<1>6. ASSUME NEW e \in Event
      PROVE  Copies(e, rpcs') + Copies(e, writers') + Copies(e, rows')
                <= Copies(e, rpcs) + Copies(e, writers) + Copies(e, rows)
  <2>1. One(e = x) \in {0, 1} /\ One(e \in {x}) = One(e = x)
    BY DEF One
  <2>2. Copies(e, writers') \in {Copies(e, writers), Copies(e, writers) + One(e = x)}
    BY <1>2, <1>4, <2>1
  <2>3. /\ Copies(e, rpcs) \in Nat /\ Copies(e, writers) \in Nat /\ Copies(e, rows) \in Nat
        /\ Copies(e, rpcs') = Copies(e, rpcs) - One(e = x) /\ rows' = rows
    BY <1>2, <1>3, CountTypes DEF IInv
  <2> QED
    BY <2>1, <2>2, <2>3
<1> QED
  BY <1>1, <1>2, <1>3, <1>5, <1>6, CoreKeeps

\* A written event becomes a row, or is gone.
LEMMA WriteKeeps ==
    ASSUME IInv, NEW x \in BagToSet(writers), Write(x)
    PROVE  IInv'
<1>1. /\ EventBag(rpcs) /\ EventBag(writers) /\ EventBag(rows) /\ x \in Event
      /\ restarts \in 0 .. MaxRestarts
  BY DEF IInv, TypeOK, EventBag
<1>2. /\ UNCHANGED <<objects, up, informer, watch, emitted, reported, changes, errors,
                     restarts, rpcs>>
      /\ writers' = writers (-) SetToBag({x})
      /\ rows' \in {rows, rows (+) SetToBag({x})}
  BY DEF Write
<1>3. /\ EventBag(writers') /\ BagToSet(writers') \subseteq BagToSet(writers)
      /\ \A e : Copies(e, writers') = Copies(e, writers) - One(e = x)
  BY <1>1, <1>2, EventBagRemove
<1>4. /\ EventBag(rows (+) SetToBag({x}))
      /\ BagToSet(rows (+) SetToBag({x})) = BagToSet(rows) \cup {x}
      /\ \A e : Copies(e, rows (+) SetToBag({x})) = Copies(e, rows) + One(e \in {x})
  BY <1>1, EventBagAdd
<1>5. EventBag(rows') /\ BagToSet(rows') \subseteq BagToSet(rows) \cup {x}
  BY <1>1, <1>2, <1>4
<1>6. ASSUME NEW e \in Event
      PROVE  Copies(e, rpcs') + Copies(e, writers') + Copies(e, rows')
                <= Copies(e, rpcs) + Copies(e, writers) + Copies(e, rows)
  <2>1. One(e = x) \in {0, 1} /\ One(e \in {x}) = One(e = x)
    BY DEF One
  <2>2. Copies(e, rows') \in {Copies(e, rows), Copies(e, rows) + One(e = x)}
    BY <1>2, <1>4, <2>1
  <2>3. /\ Copies(e, rpcs) \in Nat /\ Copies(e, writers) \in Nat /\ Copies(e, rows) \in Nat
        /\ Copies(e, writers') = Copies(e, writers) - One(e = x) /\ rpcs' = rpcs
    BY <1>2, <1>3, CountTypes DEF IInv
  <2> QED
    BY <2>1, <2>2, <2>3
<1> QED
  BY <1>1, <1>2, <1>3, <1>5, <1>6, CoreKeeps

\* A restart of Core drops its tasks.
LEMMA CoreRestartKeeps ==
    ASSUME IInv, CoreRestart
    PROVE  IInv'
<1>1. EventBag(rpcs) /\ EventBag(rows) /\ restarts' \in 0 .. MaxRestarts
  BY InformersAssumption DEF IInv, TypeOK, CoreRestart
<1>2. /\ UNCHANGED <<objects, up, informer, watch, emitted, reported, changes, errors,
                     rpcs, rows>>
      /\ writers' = EmptyBag
  BY DEF CoreRestart
<1>3. EventBag(writers') /\ BagToSet(writers') = {}
  BY <1>2, EventBagEmpty
<1>4. ASSUME NEW e \in Event
      PROVE  Copies(e, rpcs') + Copies(e, writers') + Copies(e, rows')
                <= Copies(e, rpcs) + Copies(e, writers) + Copies(e, rows)
  <2>1. Copies(e, writers') = 0
    BY <1>2, CopiesEmpty
  <2>2. Copies(e, rpcs) \in Nat /\ Copies(e, writers) \in Nat /\ Copies(e, rows) \in Nat
    BY CountTypes DEF IInv
  <2> QED
    BY <1>2, <2>1, <2>2
<1> QED
  BY <1>1, <1>2, <1>3, <1>4, CoreKeeps

-----------------------------------------------------------------------------
(* The theorems                                                            *)

LEMMA InitIInv == Init => IInv
<1> SUFFICES ASSUME Init PROVE IInv
  OBVIOUS
<1> USE DEF Init
<1>1. TypeOK
  BY EventBagEmpty, InformersAssumption DEF TypeOK
<1>2. IsFiniteSet(objects)
  BY FS_EmptySet
<1>3. WatchShape
  BY DEF WatchShape
<1>4. ASSUME NEW e \in Event PROVE Balance(e)
  <2>1. watch[e.object.kind] = << >>
    BY EventFacts
  <2> QED
    BY <2>1, OccEmpty, CopiesEmpty DEF Balance
<1>5. AllSent
  BY EventBagEmpty DEF AllSent
<1> QED
  BY <1>1, <1>2, <1>3, <1>4, <1>5 DEF IInv, Balanced

\* Every step keeps the invariant.
LEMMA NextKeeps == ASSUME IInv, [Next]_vars PROVE IInv'
<1>1. CASE UNCHANGED vars
  BY <1>1 DEF vars, IInv, TypeOK, WatchShape, Balanced, Balance, AllSent
<1>2. ASSUME NEW o \in Objects, ObjectApplied(o) \/ ObjectDeleted(o)
      PROVE  IInv'
  BY <1>2, EmitKeeps DEF ObjectApplied, ObjectDeleted
<1>3. ASSUME NEW k \in Kinds, WatchFails(k) \/ NotInstalled(k)
      PROVE  IInv'
  <2>1. informer[k] /\ End(k) /\ errors' \in 0 .. MaxErrors
    BY <1>3, InformersAssumption DEF WatchFails, NotInstalled, IInv, TypeOK
  <2> QED
    BY <2>1, EndKeeps
<1>4. CASE Next
  BY <1>2, <1>3, <1>4, HandleKeeps, AgentStartsKeeps, RpcKeeps, WriteKeeps,
     CoreRestartKeeps DEF Next
<1> QED
  BY <1>1, <1>4

\* The agent's and Core's state has its type for any kinds and objects: no
\* informer outlives its agent, and what a new one lists has an end.
THEOREM TypeCorrect == Spec => []TypeOK
<1>1. IInv => TypeOK
  BY DEF IInv
<1> QED
  BY <1>1, InitIInv, NextKeeps, PTL DEF Spec

\* No change that a watch delivered and no object that a new agent found makes
\* more than one row, however the tasks of agent and Core overtake each other,
\* whichever calls are lost and whoever restarts; and deletions of Events make
\* none.
THEOREM NoRowTwice == Spec => []OneRowPerEvent
<1>1. IInv => OneRowPerEvent
  BY DEF IInv, Balanced, Balance, Occ, Waiting, AllSent, IsSent, OneRowPerEvent
<1> QED
  BY <1>1, InitIInv, NextKeeps, PTL DEF Spec

=============================================================================
