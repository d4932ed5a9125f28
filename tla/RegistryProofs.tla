---------------------------- MODULE RegistryProofs ----------------------------
(***************************************************************************)
(* maokai-machine, the consumer registry: for any operation types, lists   *)
(* and consumers, slots and routes stay consistent, and slots are          *)
(* invisible: ConsumerRegistry implements ConsumerTable.                   *)
(***************************************************************************)
EXTENDS ConsumerRegistry, FiniteSetTheorems, TLAPS

-----------------------------------------------------------------------------
(* The inductive invariant.                                                *)

StoreTyped ==
  /\ slots \in Seq(Nat) /\ made \in Nat
  /\ free \in Seq(DOMAIN slots) /\ routes \in [Types -> Seq(DOMAIN slots)]

\* Slots hold consumers that were set, each of them one.
SlotsDistinct ==
  /\ \A i \in DOMAIN slots : slots[i] <= made
  /\ \A i, j \in Occupied : slots[i] = slots[j] => i = j

StoreInv == StoreTyped /\ FreeListExact /\ RoutesExact /\ SlotsDistinct

\* Routing has asked the consumers of the list up to the cursor.
RoutingInv ==
  IF pc = "route"
  THEN /\ op \in Types /\ indices = routes[op]
       /\ next_consumer \in 1 .. Len(indices) + 1
       /\ asked = [i \in 1 .. next_consumer - 1 |-> Table[op][i]]
  ELSE op = NoType /\ indices = << >> /\ next_consumer = 1

ControlTyped ==
  installed \in 0 .. Len(Defaults) /\ pc \in {"install", "idle", "route"}

Inv == StoreInv /\ RoutingInv /\ ControlTyped

-----------------------------------------------------------------------------
(* Lists.                                                                  *)

LEMMA ElementsIn ==
  ASSUME NEW S, NEW s \in Seq(S)
  PROVE  Elements(s) \subseteq S
BY DEF Elements

LEMMA ElementsConcat ==
  ASSUME NEW S, NEW a \in Seq(S), NEW b \in Seq(S)
  PROVE  Elements(a \o b) = Elements(a) \cup Elements(b)
<1>1. Len(a \o b) = Len(a) + Len(b) /\ Len(a) \in Nat /\ Len(b) \in Nat
  OBVIOUS
<1>2. ASSUME NEW x \in Elements(a) PROVE x \in Elements(a \o b)
  <2>1. PICK i \in 1 .. Len(a) : a[i] = x
    BY DEF Elements
  <2>2. i \in DOMAIN (a \o b) /\ (a \o b)[i] = x
    BY <1>1, <2>1
  <2> QED BY <2>2 DEF Elements
<1>3. ASSUME NEW x \in Elements(b) PROVE x \in Elements(a \o b)
  <2>1. PICK i \in 1 .. Len(b) : b[i] = x
    BY DEF Elements
  <2>2. Len(a) + i \in DOMAIN (a \o b) /\ (a \o b)[Len(a) + i] = x
    BY <1>1, <2>1
  <2> QED BY <2>2 DEF Elements
<1>4. ASSUME NEW x \in Elements(a \o b) PROVE x \in Elements(a) \cup Elements(b)
  <2>1. PICK i \in 1 .. Len(a) + Len(b) : (a \o b)[i] = x
    BY <1>1, <1>4 DEF Elements
  <2>2. CASE i <= Len(a)
    BY <1>1, <2>1, <2>2 DEF Elements
  <2>3. CASE i > Len(a)
    <3>1. i - Len(a) \in 1 .. Len(b) /\ b[i - Len(a)] = x
      BY <1>1, <2>1, <2>3
    <3> QED BY <3>1 DEF Elements
  <2> QED BY <1>1, <2>1, <2>2, <2>3
<1> QED BY <1>2, <1>3, <1>4

LEMMA ConcatLength ==
  ASSUME NEW S, NEW a \in Seq(S), NEW b \in Seq(S)
  PROVE  Len(a \o b) = Len(a) + Len(b)
OBVIOUS

LEMMA MentionsFacts ==
  ASSUME NEW list \in Seq(Types), NEW t, NEW idx, NEW S, idx \in S
  PROVE  /\ Mentions(list, t, idx) \in Seq(S)
         /\ Elements(Mentions(list, t, idx)) = IF t \in Elements(list) THEN {idx} ELSE {}
<1> DEFINE J == {j \in DOMAIN list : list[j] = t}
           n == Cardinality(J)
<1>1. IsFiniteSet(J)
  <2>1. IsFiniteSet(1 .. Len(list))
    BY FS_Interval
  <2> QED BY <2>1, FS_Subset
<1>2. n \in Nat /\ (n = 0 <=> J = {})
  BY <1>1, FS_CardinalityType, FS_EmptySet
<1>3. J = {} <=> t \notin Elements(list)
  BY DEF Elements
<1>4. Mentions(list, t, idx) = [i \in 1 .. n |-> idx]
  BY DEF Mentions
<1> HIDE DEF n, J
<1> QED BY <1>2, <1>3, <1>4 DEF Elements

-----------------------------------------------------------------------------
(* The store.                                                              *)

SetSlot == IF free # << >> THEN free[Len(free)] ELSE Len(slots) + 1

\* ConsumerStore::insert takes an empty slot and touches no other.
LEMMA SetTakesEmptySlot ==
  ASSUME StoreInv, NEW list \in Seq(Types), set(list)
  PROVE  /\ made' = made + 1 /\ slots' \in Seq(Nat)
         /\ SetSlot \in Nat /\ SetSlot \notin Occupied
         /\ DOMAIN slots' = DOMAIN slots \cup {SetSlot}
         /\ slots'[SetSlot] = made'
         /\ \A i \in DOMAIN slots : i # SetSlot => slots'[i] = slots[i]
         /\ free' \in Seq(DOMAIN slots) /\ Elements(free') = Elements(free) \ {SetSlot}
         /\ \A i, j \in DOMAIN free' : free'[i] = free'[j] => i = j
         /\ \A t \in Types : routes'[t] = routes[t] \o Mentions(list, t, SetSlot)
         /\ routes' = [t \in Types |-> routes'[t]]
<1>0. /\ slots \in Seq(Nat) /\ made \in Nat /\ free \in Seq(DOMAIN slots)
      /\ Elements(free) = DOMAIN slots \ Occupied
      /\ \A i, j \in DOMAIN free : free[i] = free[j] => i = j
  BY DEF StoreInv, StoreTyped, FreeListExact
<1>1. made' = made + 1 /\ routes' = [t \in Types |-> RouteLast(list, t, SetSlot)]
  BY DEF set, SetSlot
<1>2. CASE free # << >>
  <2> DEFINE n == Len(free)
  <2>1. n \in Nat \ {0} /\ DOMAIN free = 1 .. n /\ SetSlot = free[n] /\ n \in DOMAIN free
    BY <1>0, <1>2 DEF SetSlot
  <2>2. /\ slots' = [slots EXCEPT ![SetSlot] = made'] /\ free' = SubSeq(free, 1, n - 1)
    BY <1>2 DEF set, SetSlot, PopFree
  <2>3. SetSlot \in Elements(free)
    BY <2>1 DEF Elements
  <2>4. SetSlot \in DOMAIN slots /\ SetSlot \notin Occupied /\ SetSlot \in Nat
    BY <1>0, <2>3
  <2>5. /\ free' \in Seq(DOMAIN slots) /\ DOMAIN free' = 1 .. n - 1
        /\ \A i \in 1 .. n - 1 : free'[i] = free[i]
    BY <1>0, <2>1, <2>2
  <2> HIDE DEF n
  <2>6. Elements(free') = Elements(free) \ {SetSlot}
    <3>1. ASSUME NEW i \in 1 .. n - 1 PROVE i \in DOMAIN free /\ free[i] # SetSlot
      <4>1. i \in DOMAIN free /\ n \in DOMAIN free /\ i # n
        BY <2>1
      <4>2. free[i] # free[n]
        BY <1>0, <4>1
      <4> QED BY <2>1, <4>1, <4>2
    <3>2. \A i \in DOMAIN free : i = n \/ i \in 1 .. n - 1
      BY <2>1
    <3> QED BY <2>1, <2>5, <3>1, <3>2 DEF Elements
  <2>7. ASSUME NEW i \in DOMAIN free', NEW j \in DOMAIN free', free'[i] = free'[j] PROVE i = j
    <3>1. i \in 1 .. n - 1 /\ j \in 1 .. n - 1
      BY <2>5
    <3>2. i \in DOMAIN free /\ j \in DOMAIN free
      BY <2>1, <3>1
    <3>3. free[i] = free[j]
      BY <2>5, <2>7, <3>1
    <3> QED BY <1>0, <3>2, <3>3
  <2>8. /\ slots' \in Seq(Nat) /\ DOMAIN slots' = DOMAIN slots
        /\ slots'[SetSlot] = made' /\ \A i \in DOMAIN slots : i # SetSlot => slots'[i] = slots[i]
    BY <1>0, <1>1, <2>2, <2>4
  <2> QED BY <1>1, <2>4, <2>5, <2>6, <2>7, <2>8 DEF RouteLast
<1>3. CASE free = << >>
  <2>1. slots' = Append(slots, made') /\ free' = free /\ SetSlot = Len(slots) + 1
    BY <1>3 DEF set, SetSlot
  <2>2. /\ slots' \in Seq(Nat) /\ DOMAIN slots' = DOMAIN slots \cup {SetSlot}
        /\ slots'[SetSlot] = made' /\ \A i \in DOMAIN slots : slots'[i] = slots[i]
        /\ SetSlot \in Nat /\ SetSlot \notin DOMAIN slots
    BY <1>0, <1>1, <2>1
  <2>3. SetSlot \notin Occupied /\ SetSlot \notin Elements(free)
    BY <1>0, <2>2 DEF Occupied
  <2> QED BY <1>0, <1>1, <2>1, <2>2, <2>3 DEF RouteLast
<1> QED BY <1>2, <1>3

LEMMA SeqWiden ==
  ASSUME NEW S, NEW T, S \subseteq T, NEW s \in Seq(S)
  PROVE  s \in Seq(T)
OBVIOUS

LEMMA SetStore ==
  ASSUME StoreInv, NEW list \in Seq(Types), list # << >>, set(list)
  PROVE  StoreInv'
<1> DEFINE idx == SetSlot
<1>0. StoreTyped /\ FreeListExact /\ RoutesExact /\ SlotsDistinct
  BY DEF StoreInv
<1>1. /\ made' = made + 1 /\ slots' \in Seq(Nat) /\ idx \in Nat /\ idx \notin Occupied
      /\ DOMAIN slots' = DOMAIN slots \cup {idx} /\ slots'[idx] = made'
      /\ \A i \in DOMAIN slots : i # idx => slots'[i] = slots[i]
      /\ free' \in Seq(DOMAIN slots) /\ Elements(free') = Elements(free) \ {idx}
      /\ \A i, j \in DOMAIN free' : free'[i] = free'[j] => i = j
      /\ \A t \in Types : routes'[t] = routes[t] \o Mentions(list, t, idx)
      /\ routes' = [t \in Types |-> routes'[t]]
  BY SetTakesEmptySlot
<1> HIDE DEF idx
<1>2. made \in Nat /\ made' # None
  BY <1>0, <1>1 DEF StoreTyped, None
<1>3. Occupied' = Occupied \cup {idx}
  BY <1>1, <1>2 DEF Occupied
<1>4. ASSUME NEW t \in Types
      PROVE  /\ routes'[t] \in Seq(DOMAIN slots')
             /\ Elements(routes'[t])
                  = Elements(routes[t]) \cup (IF t \in Elements(list) THEN {idx} ELSE {})
  <2>1. routes[t] \in Seq(DOMAIN slots')
    BY <1>0, <1>1 DEF StoreTyped
  <2>2. /\ Mentions(list, t, idx) \in Seq(DOMAIN slots')
        /\ Elements(Mentions(list, t, idx)) = IF t \in Elements(list) THEN {idx} ELSE {}
    BY <1>1, MentionsFacts
  <2> DEFINE a == routes[t]
             b == Mentions(list, t, idx)
  <2>3. routes'[t] = a \o b
    BY <1>1
  <2> HIDE DEF a, b
  <2>4. a \o b \in Seq(DOMAIN slots') /\ Elements(a \o b) = Elements(a) \cup Elements(b)
    BY <2>1, <2>2, ElementsConcat DEF a, b
  <2> QED BY <2>2, <2>3, <2>4 DEF a, b
<1>5. StoreTyped'
  <2>1. routes' \in [Types -> Seq(DOMAIN slots')]
    BY <1>1, <1>4
  <2>2. free' \in Seq(DOMAIN slots')
    BY <1>1
  <2> QED BY <1>1, <1>2, <2>1, <2>2 DEF StoreTyped
<1>6. FreeListExact'
  BY <1>0, <1>1, <1>3 DEF FreeListExact
<1>7. RoutesExact'
  <2>1. PICK t0 \in Types : t0 \in Elements(list)
    <3>1. list[1] \in Types /\ 1 \in DOMAIN list
      OBVIOUS
    <3> QED BY <3>1 DEF Elements
  <2>2. UNION {Elements(routes[t]) : t \in Types} = Occupied
    BY <1>0 DEF RoutesExact, SlotsOf
  <2>3. UNION {Elements(routes'[t]) : t \in Types} = Occupied \cup {idx}
    <3>1. ASSUME NEW x \in Occupied PROVE \E t \in Types : x \in Elements(routes'[t])
      <4>1. PICK t \in Types : x \in Elements(routes[t])
        BY <2>2
      <4> QED BY <1>4, <4>1
    <3>2. idx \in Elements(routes'[t0])
      BY <1>4, <2>1
    <3>3. ASSUME NEW t \in Types, NEW x \in Elements(routes'[t]) PROVE x \in Occupied \cup {idx}
      <4>1. x \in Elements(routes[t]) \/ x = idx
        BY <1>4
      <4> QED BY <2>2, <4>1
    <3> QED BY <3>1, <3>2, <3>3
  <2> QED BY <1>3, <2>3 DEF RoutesExact, SlotsOf, Elements
<1>8. SlotsDistinct'
  <2>1. \A i \in DOMAIN slots : slots[i] \in Nat /\ slots[i] <= made
    BY <1>0 DEF SlotsDistinct, StoreTyped
  <2>2. \A i \in Occupied : i \in DOMAIN slots /\ i # idx /\ slots'[i] = slots[i]
    BY <1>1 DEF Occupied
  <2>3. \A i \in DOMAIN slots' : slots'[i] <= made'
    BY <1>1, <1>2, <2>1
  <2>4. \A i, j \in Occupied \cup {idx} : slots'[i] = slots'[j] => i = j
    <3>1. \A i \in Occupied : slots'[i] # slots'[idx]
      BY <1>1, <1>2, <2>1, <2>2
    <3> QED BY <1>0, <2>2, <3>1 DEF SlotsDistinct
  <2> QED BY <1>3, <2>3, <2>4 DEF SlotsDistinct
<1> QED BY <1>5, <1>6, <1>7, <1>8 DEF StoreInv

LEMMA RemoveStore ==
  ASSUME StoreInv, NEW list \in Lists, remove_consumer(list)
  PROVE  StoreInv'
<1> DEFINE S == Elements(list)
           dead == Unreferenced(S) \cap Occupied
<1>0. StoreTyped /\ FreeListExact /\ RoutesExact /\ SlotsDistinct
  BY DEF StoreInv
<1>1. /\ made' = made
      /\ routes' = [t \in Types |-> IF t \in S THEN << >> ELSE routes[t]]
      /\ slots' = [i \in DOMAIN slots |-> IF i \in dead THEN None ELSE slots[i]]
  BY DEF remove_consumer
<1>02. PICK n \in 0 .. Len(slots) : \E f \in [1 .. n -> dead] :
         /\ \A i, j \in 1 .. n : i < j => f[i] < f[j]
         /\ Elements(f) = dead
         /\ free' = free \o f
  BY DEF remove_consumer
<1>2. PICK f \in [1 .. n -> dead] :
        /\ \A i, j \in 1 .. n : i < j => f[i] < f[j]
        /\ Elements(f) = dead
        /\ free' = free \o f
  BY <1>02
<1>3. dead \subseteq Occupied /\ Occupied \subseteq DOMAIN slots /\ None \in Nat
  BY DEF Occupied, None
<1>4. dead = Occupied \ SlotsOf(Types \ S)
  <2>1. SlotsOf(Types) = SlotsOf(Types \cap S) \cup SlotsOf(Types \ S)
    BY DEF SlotsOf
  <2>2. S \subseteq Types
    BY RegistryAssumption DEF Elements
  <2>3. SlotsOf(Types \cap S) = SlotsOf(S)
    BY <2>2 DEF SlotsOf
  <2> QED BY <1>0, <2>1, <2>3 DEF RoutesExact, Unreferenced
<1> HIDE DEF dead
<1>5. slots' \in Seq(Nat) /\ DOMAIN slots' = DOMAIN slots
  <2>1. slots \in Seq(Nat) /\ DOMAIN slots = 1 .. Len(slots) /\ Len(slots) \in Nat
    BY <1>0 DEF StoreTyped
  <2>2. \A i \in 1 .. Len(slots) : (IF i \in dead THEN None ELSE slots[i]) \in Nat
    BY <1>3, <2>1
  <2> QED BY <1>1, <2>1, <2>2
<1>6. Occupied' = Occupied \ dead
  BY <1>1, <1>3, <1>5 DEF Occupied
<1>7. f \in Seq(DOMAIN slots) /\ DOMAIN f = 1 .. n /\ n \in Nat /\ Len(f) = n
  BY <1>0, <1>2, <1>3 DEF StoreTyped
<1>8. StoreTyped'
  <2>1. free' \in Seq(DOMAIN slots)
    BY <1>0, <1>2, <1>7 DEF StoreTyped
  <2>2. routes' \in [Types -> Seq(DOMAIN slots)]
    <3> HIDE DEF S
    <3>0. << >> \in Seq(DOMAIN slots)
      OBVIOUS
    <3>1. ASSUME NEW t \in Types
          PROVE  (IF t \in S THEN << >> ELSE routes[t]) \in Seq(DOMAIN slots)
      BY <1>0, <3>0 DEF StoreTyped
    <3> QED BY <1>1, <3>1
  <2> QED BY <1>0, <1>1, <1>5, <2>1, <2>2 DEF StoreTyped
<1>9. FreeListExact'
  <2>1. Elements(free') = Elements(free) \cup dead
    BY <1>0, <1>2, <1>7, ElementsConcat DEF StoreTyped
  <2>2. Elements(free') = DOMAIN slots' \ Occupied'
    BY <1>0, <1>3, <1>5, <1>6, <2>1 DEF FreeListExact
  <2>3. ASSUME NEW i \in DOMAIN free', NEW j \in DOMAIN free', free'[i] = free'[j] PROVE i = j
    <3> DEFINE k == Len(free)
    <3>1. /\ k \in Nat /\ DOMAIN free = 1 .. k /\ DOMAIN free' = 1 .. k + n
          /\ \A x \in 1 .. k : free'[x] = free[x]
          /\ \A x \in k + 1 .. k + n : free'[x] = f[x - k] /\ x - k \in 1 .. n
      <4>1. free \in Seq(DOMAIN slots) /\ k \in Nat /\ DOMAIN free = 1 .. k
        BY <1>0 DEF StoreTyped
      <4>2. free' = free \o f /\ Len(free \o f) = k + n
        BY <1>2, <1>7, <4>1, ConcatLength
      <4>3. \A x \in 1 .. k : free'[x] = free[x]
        BY <1>7, <4>1, <4>2
      <4>4. ASSUME NEW x \in k + 1 .. k + n PROVE free'[x] = f[x - k] /\ x - k \in 1 .. n
        BY <1>7, <4>1, <4>2
      <4>5. DOMAIN free' = 1 .. k + n
        BY <1>7, <4>1, <4>2
      <4> QED BY <4>1, <4>3, <4>4, <4>5
    <3>2. \A x \in 1 .. k : free[x] \notin dead
      BY <1>0, <1>3, <3>1 DEF FreeListExact, Elements
    <3>3. \A x \in 1 .. n : f[x] \in dead
      BY <1>2
    <3>4. \A x, y \in 1 .. n : f[x] = f[y] => x = y
      <4>1. \A x \in 1 .. n : f[x] \in Nat
        BY <1>3, <3>3, <1>0 DEF StoreTyped
      <4> QED BY <1>2, <1>7, <4>1
    <3>5. \A x, y \in 1 .. k : free[x] = free[y] => x = y
      BY <1>0, <3>1 DEF FreeListExact
    <3> HIDE DEF k
    <3>6. CASE i <= k /\ j <= k
      BY <2>3, <3>1, <3>5, <3>6
    <3>7. CASE i > k /\ j > k
      <4>1. i - k = j - k
        <5>1. i \in k + 1 .. k + n /\ j \in k + 1 .. k + n
          BY <1>7, <3>1, <3>7
        <5>2. f[i - k] = f[j - k] /\ i - k \in 1 .. n /\ j - k \in 1 .. n
          BY <2>3, <3>1, <5>1
        <5> QED BY <3>4, <5>2
      <4> QED BY <1>7, <3>1, <4>1
    <3>8. CASE i <= k /\ j > k
      BY <1>7, <2>3, <3>1, <3>2, <3>3, <3>8
    <3>9. CASE i > k /\ j <= k
      BY <1>7, <2>3, <3>1, <3>2, <3>3, <3>9
    <3> QED BY <1>7, <3>1, <3>6, <3>7, <3>8, <3>9
  <2> QED BY <2>2, <2>3 DEF FreeListExact
<1>10. RoutesExact'
  <2>1. UNION {Elements(routes'[t]) : t \in Types} = SlotsOf(Types \ S)
    <3>1. \A t \in Types : routes'[t] = IF t \in S THEN << >> ELSE routes[t]
      BY <1>1
    <3>2. Elements(<< >>) = {}
      BY DEF Elements
    <3> QED BY <3>1, <3>2 DEF SlotsOf
  <2>2. SlotsOf(Types \ S) \subseteq Occupied
    BY <1>0 DEF RoutesExact, SlotsOf
  <2>3. UNION {Elements(routes'[t]) : t \in Types} = Occupied'
    BY <1>4, <1>6, <2>1, <2>2
  <2> QED BY <2>3 DEF RoutesExact, SlotsOf, Elements
<1>11. SlotsDistinct'
  <2>1. \A i \in DOMAIN slots : slots'[i] <= made
    BY <1>0, <1>1 DEF SlotsDistinct, StoreTyped, None
  <2>2. \A i \in Occupied' : i \in Occupied /\ slots'[i] = slots[i]
    BY <1>1, <1>3, <1>6
  <2> QED BY <1>0, <1>1, <1>5, <2>1, <2>2, ZenonT(30) DEF SlotsDistinct
<1> QED BY <1>8, <1>9, <1>10, <1>11 DEF StoreInv

LEMMA EmptyStore ==
  ASSUME made \in Nat, slots = << >>, free = << >>, routes = [t \in Types |-> << >>]
  PROVE  StoreInv
<1>1. Elements(<< >>) = {} /\ Occupied = {}
  BY DEF Elements, Occupied
<1>2. SlotsOf(Types) = {}
  BY <1>1 DEF SlotsOf
<1>3. StoreTyped
  <2>1. << >> \in Seq(DOMAIN slots) /\ slots \in Seq(Nat)
    OBVIOUS
  <2> QED BY <2>1 DEF StoreTyped
<1> QED BY <1>1, <1>2, <1>3 DEF StoreInv, FreeListExact, RoutesExact, SlotsDistinct

\* The same, after a step.
LEMMA EmptyStoreNext ==
  ASSUME made' \in Nat, slots' = << >>, free' = << >>, routes' = [t \in Types |-> << >>]
  PROVE  StoreInv'
<1>1. Elements(<< >>) = {} /\ Occupied' = {}
  BY DEF Elements, Occupied
<1>2. SlotsOf(Types)' = {}
  BY <1>1 DEF SlotsOf
<1>3. StoreTyped'
  <2>1. << >> \in Seq(DOMAIN slots') /\ slots' \in Seq(Nat)
    OBVIOUS
  <2> QED BY <2>1 DEF StoreTyped
<1> QED BY <1>1, <1>2, <1>3 DEF StoreInv, FreeListExact, RoutesExact, SlotsDistinct

LEMMA ListsTyped ==
  /\ \A list \in Lists : list \in Seq(Types) /\ list # << >>
  /\ \A n \in 1 .. Len(Defaults) : Defaults[n] \in Lists
BY RegistryAssumption

-----------------------------------------------------------------------------
(* All steps.                                                              *)

LEMMA InitInv == Init => Inv
<1> SUFFICES ASSUME Init PROVE Inv
  OBVIOUS
<1>1. StoreInv
  BY EmptyStore DEF Init
<1>2. Len(Defaults) \in Nat
  BY RegistryAssumption
<1> QED BY <1>1, <1>2 DEF Init, Inv, RoutingInv, ControlTyped

\* A route never leads to an empty slot.
LEMMA RoutesLead ==
  ASSUME StoreInv, NEW t \in Types, NEW i \in DOMAIN routes[t]
  PROVE  routes[t][i] \in Occupied /\ slots[routes[t][i]] # None
<1>1. routes[t][i] \in SlotsOf(Types)
  BY DEF SlotsOf, Elements
<1> QED BY <1>1 DEF StoreInv, RoutesExact, Occupied

LEMMA StepInv == Inv /\ [Next]_vars => Inv'
<1> SUFFICES ASSUME Inv, [Next]_vars PROVE Inv'
  OBVIOUS
<1>0. StoreInv /\ RoutingInv /\ ControlTyped
  BY DEF Inv
<1>1. ASSUME NEW list \in Lists, set_consumer(list) PROVE Inv'
  <2>1. set(list) /\ pc = "idle" /\ UNCHANGED <<pc, installed, op, indices, next_consumer>>
    BY <1>1 DEF set_consumer, routing
  <2>2. StoreInv'
    BY <1>0, <2>1, ListsTyped, SetStore
  <2> QED BY <1>0, <2>1, <2>2 DEF Inv, RoutingInv, ControlTyped
<1>2. ASSUME NEW list \in Lists, remove_consumer(list) PROVE Inv'
  <2>1. pc = "idle" /\ UNCHANGED <<pc, installed, op, indices, next_consumer>>
    BY <1>2 DEF remove_consumer, routing
  <2>2. StoreInv'
    BY <1>0, <1>2, RemoveStore
  <2> QED BY <1>0, <2>1, <2>2 DEF Inv, RoutingInv, ControlTyped
<1>3. CASE clear_consumers
  <2>1. /\ pc = "idle" /\ pc' = "install" /\ installed' = 0
        /\ UNCHANGED <<made, op, indices, next_consumer>>
        /\ slots' = << >> /\ free' = << >> /\ routes' = [t \in Types |-> << >>]
    BY <1>3 DEF clear_consumers, routing
  <2>2. StoreInv'
    BY <1>0, <2>1, EmptyStoreNext DEF StoreInv, StoreTyped
  <2>3. Len(Defaults) \in Nat
    BY RegistryAssumption
  <2> QED BY <1>0, <2>1, <2>2, <2>3 DEF Inv, RoutingInv, ControlTyped
<1>4. CASE install_default
  <2>1. /\ pc = "install" /\ installed < Len(Defaults) /\ installed' = installed + 1
        /\ set(Defaults[installed + 1]) /\ UNCHANGED <<pc, op, indices, next_consumer>>
    BY <1>4 DEF install_default, routing
  <2>2. Len(Defaults) \in Nat
    BY RegistryAssumption
  <2>3. installed + 1 \in 1 .. Len(Defaults)
    BY <1>0, <2>1, <2>2 DEF ControlTyped
  <2>4. StoreInv'
    BY <1>0, <2>1, <2>3, ListsTyped, SetStore
  <2> QED BY <1>0, <2>1, <2>2, <2>3, <2>4 DEF Inv, RoutingInv, ControlTyped
<1>5. CASE defaults_installed
  <2>1. StoreInv'
    BY <1>0, <1>5 DEF defaults_installed, store, StoreInv, StoreTyped, FreeListExact,
                      RoutesExact, SlotsDistinct, SlotsOf, Occupied
  <2> QED BY <1>0, <1>5, <2>1 DEF defaults_installed, routing, Inv, RoutingInv, ControlTyped
<1>6. ASSUME UNCHANGED <<store, installed, made>> PROVE StoreInv'
  BY <1>0, <1>6 DEF store, StoreInv, StoreTyped, FreeListExact, RoutesExact, SlotsDistinct,
                    SlotsOf, Occupied
<1>7. ASSUME NEW t \in Types, lookup(t), pc' = "route", UNCHANGED <<store, installed, made>>
      PROVE  Inv'
  <2>1. op' = t /\ indices' = routes[t] /\ next_consumer' = 1 /\ asked' = << >> /\ routes' = routes
    BY <1>7 DEF lookup, store
  <2>2. Len(routes[t]) \in Nat
    BY <1>0 DEF StoreInv, StoreTyped
  <2>3. << >> = [i \in 1 .. 1 - 1 |-> Table'[t][i]]
    OBVIOUS
  <2>4. RoutingInv'
    BY <1>7, <2>1, <2>2, <2>3 DEF RoutingInv
  <2> QED BY <1>0, <1>6, <1>7, <2>4 DEF Inv, ControlTyped
<1>8. ASSUME NEW t \in Types, route(t) \/ converted(t) PROVE Inv'
  <2>1. lookup(t) /\ pc' = "route" /\ UNCHANGED <<store, installed, made>>
    BY <1>8 DEF route, converted, MoreToAsk
  <2> QED BY <1>7, <2>1
<1>9. CASE passed_on
  <2>1. /\ pc = "route" /\ next_consumer <= Len(indices) /\ asked' = Asked
        /\ next_consumer' = next_consumer + 1
        /\ UNCHANGED <<store, pc, installed, made, op, indices>>
    BY <1>9 DEF passed_on, MoreToAsk
  <2>2. /\ op \in Types /\ indices = routes[op] /\ next_consumer \in 1 .. Len(indices) + 1
        /\ asked = [i \in 1 .. next_consumer - 1 |-> Table[op][i]]
    BY <1>0, <2>1 DEF RoutingInv
  <2>3. Len(indices) \in Nat /\ DOMAIN indices = 1 .. Len(indices)
    BY <1>0, <2>2 DEF StoreInv, StoreTyped
  <2> DEFINE n == next_consumer
  <2>4. n \in DOMAIN indices /\ n \in Nat \ {0}
    BY <2>1, <2>2, <2>3
  <2>5. Candidate # None /\ Candidate = Table[op][n]
    BY <1>0, <2>2, <2>4, RoutesLead DEF Candidate, Table
  <2>6. asked' = Append(asked, Table[op][n])
    BY <2>1, <2>5 DEF Asked
  <2>7. Table' = Table
    BY <2>1 DEF Table, store
  <2> DEFINE g == [i \in 1 .. n - 1 |-> Table[op][i]]
             h == [i \in 1 .. n |-> Table[op][i]]
  <2>8. Append(g, Table[op][n]) = h
    <3> DEFINE T == Table[op]
    <3> HIDE DEF T
    <3>1. [i \in 1 .. n - 1 |-> T[i]] \in Seq({T[i] : i \in 1 .. n})
      BY <2>4
    <3>2. Append([i \in 1 .. n - 1 |-> T[i]], T[n]) = [i \in 1 .. n |-> T[i]]
      BY <2>4, <3>1
    <3> QED BY <3>2 DEF T
  <2>9. n' - 1 = n
    BY <2>1, <2>4
  <2>10. RoutingInv'
    <3>1. next_consumer' \in 1 .. Len(indices') + 1
      BY <2>1, <2>2, <2>3, <2>4
    <3>2. asked' = h
      BY <2>2, <2>6, <2>8
    <3> HIDE DEF n
    <3>3. h = [i \in 1 .. next_consumer' - 1 |-> Table'[op'][i]]
      BY <2>1, <2>7, <2>9 DEF n
    <3>4. op' \in Types /\ indices' = routes'[op'] /\ pc' = "route"
      BY <2>1, <2>2 DEF store
    <3> HIDE DEF h
    <3> QED BY <3>1, <3>2, <3>3, <3>4 DEF RoutingInv
  <2> QED BY <1>0, <1>6, <2>1, <2>10 DEF Inv, ControlTyped
<1>10. CASE consumed \/ unhandled
  <2>1. Return
    BY <1>10 DEF consumed, unhandled
  <2> QED BY <1>0, <1>6, <2>1 DEF Return, Inv, RoutingInv, ControlTyped
<1>11. CASE UNCHANGED vars
  <2>1. UNCHANGED <<store, installed, made>> /\ UNCHANGED <<pc, routing>>
    BY <1>11 DEF vars
  <2>2. Table' = Table
    BY <2>1 DEF store, Table
  <2>3. RoutingInv'
    BY <1>0, <2>1, <2>2 DEF RoutingInv, routing, store
  <2> QED BY <1>0, <1>6, <2>1, <2>3 DEF Inv, ControlTyped
<1> QED
  BY <1>1, <1>2, <1>3, <1>4, <1>5, <1>8, <1>9, <1>10, <1>11 DEF Next, RouteStep

LEMMA InvAlways == Spec => []Inv
BY InitInv, StepInv, PTL DEF Spec

\* Slots, free list, routes and the cursor of a routing stay in range.
THEOREM TypeCorrect == Spec => []TypeOK
<1>1. Inv => TypeOK
  <2> SUFFICES ASSUME Inv PROVE TypeOK
    OBVIOUS
  <2>1. indices \in Seq(DOMAIN slots) /\ next_consumer \in Nat \ {0} /\ op \in Types \cup {NoType}
    <3>1. CASE pc = "route"
      BY <3>1 DEF Inv, RoutingInv, StoreInv, StoreTyped
    <3>2. CASE pc # "route"
      BY <3>2 DEF Inv, RoutingInv
    <3> QED BY <3>1, <3>2
  <2> QED BY <2>1 DEF Inv, StoreInv, StoreTyped, ControlTyped, TypeOK
<1> QED BY <1>1, InvAlways, PTL

\* The free list names exactly the empty slots, each once, so that insert
\* never overwrites a consumer.
THEOREM FreeListAlwaysExact == Spec => []FreeListExact
<1>1. Inv => FreeListExact
  BY DEF Inv, StoreInv
<1> QED BY <1>1, InvAlways, PTL

\* No route leads to a slot that was freed, and no consumer is kept that no
\* route leads to, however types are shared among consumers.
THEOREM RoutesAlwaysExact == Spec => []RoutesExact
<1>1. Inv => RoutesExact
  BY DEF Inv, StoreInv
<1> QED BY <1>1, InvAlways, PTL

\* on_unhandled comes last: every consumer of the type was asked, in order.
THEOREM UnhandledAlwaysLast == Spec => []UnhandledLast
<1>1. Inv => UnhandledLast
  <2> SUFFICES ASSUME Inv, pc = "route", next_consumer > Len(indices)
               PROVE  asked = Table[op]
    BY DEF UnhandledLast
  <2>1. /\ op \in Types /\ indices = routes[op] /\ next_consumer \in 1 .. Len(indices) + 1
        /\ asked = [i \in 1 .. next_consumer - 1 |-> Table[op][i]]
    BY DEF Inv, RoutingInv
  <2>2. Len(indices) \in Nat /\ DOMAIN routes[op] = 1 .. Len(indices)
    BY <2>1 DEF Inv, StoreInv, StoreTyped
  <2>3. next_consumer - 1 = Len(indices)
    BY <2>1, <2>2
  <2>4. Table[op] = [i \in 1 .. Len(indices) |-> slots[routes[op][i]]]
    BY <2>1, <2>2 DEF Table
  <2> QED BY <2>1, <2>3, <2>4
<1> QED BY <1>1, InvAlways, PTL

-----------------------------------------------------------------------------
(* Refinement of ConsumerTable.                                            *)

LEMMA TableTyped ==
  ASSUME StoreInv, NEW t \in Types
  PROVE  /\ DOMAIN Table[t] = 1 .. Len(routes[t]) /\ Len(routes[t]) \in Nat
         /\ Len(Table[t]) = Len(routes[t])
         /\ Table[t] \in Seq(Nat)
         /\ \A i \in 1 .. Len(routes[t]) : Table[t][i] = slots[routes[t][i]]
<1>1. /\ slots \in Seq(Nat) /\ routes[t] \in Seq(DOMAIN slots)
      /\ DOMAIN routes[t] = 1 .. Len(routes[t]) /\ Len(routes[t]) \in Nat
  BY DEF StoreInv, StoreTyped
<1>2. Table[t] = [i \in 1 .. Len(routes[t]) |-> slots[routes[t][i]]]
  BY <1>1 DEF Table
<1>3. \A i \in 1 .. Len(routes[t]) : slots[routes[t][i]] \in Nat
  BY <1>1
<1> DEFINE n == Len(routes[t])
           v(i) == slots[routes[t][i]]
<1> HIDE DEF n, v
<1>4. Table[t] = [i \in 1 .. n |-> v(i)] /\ n \in Nat /\ \A i \in 1 .. n : v(i) \in Nat
  BY <1>1, <1>2, <1>3 DEF n, v
<1>5. DOMAIN Table[t] = 1 .. n /\ Table[t] \in Seq(Nat) /\ Len(Table[t]) = n
  BY <1>4
<1> QED BY <1>1, <1>2, <1>5 DEF n

LEMMA MentionsConstant ==
  ASSUME NEW list \in Seq(Types), NEW t, NEW idx
  PROVE  \E c \in Nat : Mentions(list, t, idx) = [i \in 1 .. c |-> idx]
<1>1. IsFiniteSet({j \in DOMAIN list : list[j] = t})
  <2>1. IsFiniteSet(1 .. Len(list))
    BY FS_Interval
  <2> QED BY <2>1, FS_Subset
<1>2. Cardinality({j \in DOMAIN list : list[j] = t}) \in Nat
  BY <1>1, FS_CardinalityType
<1> QED BY <1>2 DEF Mentions

LEMMA ConcatParts ==
  ASSUME NEW S, NEW a \in Seq(S), NEW b \in Seq(S)
  PROVE  /\ Len(a \o b) = Len(a) + Len(b) /\ a \o b \in Seq(S)
         /\ Len(a) \in Nat /\ Len(b) \in Nat
         /\ \A i \in 1 .. Len(a) : (a \o b)[i] = a[i]
         /\ \A i \in Len(a) + 1 .. Len(a) + Len(b) : (a \o b)[i] = b[i - Len(a)]
OBVIOUS

LEMMA ConstantList ==
  ASSUME NEW c \in Nat, NEW x \in Nat
  PROVE  /\ [i \in 1 .. c |-> x] \in Seq(Nat) /\ Len([i \in 1 .. c |-> x]) = c
         /\ \A i \in 1 .. c : [j \in 1 .. c |-> x][i] = x
OBVIOUS

LEMMA ConcatConstant ==
  ASSUME NEW a \in Seq(Nat), NEW c \in Nat, NEW x \in Nat, NEW k \in Nat, k = Len(a)
  PROVE  LET r == a \o [i \in 1 .. c |-> x]
         IN  /\ r \in Seq(Nat) /\ Len(r) = k + c
             /\ \A i \in 1 .. k : r[i] = a[i]
             /\ \A i \in k + 1 .. k + c : r[i] = x
<1> DEFINE b == [i \in 1 .. c |-> x]
           r == a \o b
<1>1. b \in Seq(Nat) /\ Len(b) = c /\ \A i \in 1 .. c : b[i] = x
  BY ConstantList
<1> HIDE DEF b
<1>2. /\ r \in Seq(Nat) /\ Len(r) = k + c
      /\ \A i \in 1 .. k : r[i] = a[i]
      /\ \A i \in k + 1 .. k + c : r[i] = b[i - k]
  BY <1>1, ConcatParts, ZenonT(30)
<1> HIDE DEF r
<1>3. ASSUME NEW i \in k + 1 .. k + c PROVE r[i] = x
  <2>1. i - k \in 1 .. c
    OBVIOUS
  <2> QED BY <1>1, <1>2, <2>1
<1>4. r = a \o b
  BY DEF r
<1> QED BY <1>2, <1>3, <1>4 DEF b

LEMMA SameList ==
  ASSUME NEW u \in Seq(Nat), NEW w \in Seq(Nat), NEW n \in Nat, Len(u) = n, Len(w) = n,
         \A i \in 1 .. n : u[i] = w[i]
  PROVE  u = w
OBVIOUS

LEMMA RefineSet ==
  ASSUME StoreInv, StoreInv', NEW list \in Seq(Types), set(list), returned' = returned
  PROVE  Abstract!set_consumer
<1>1. /\ made' = made + 1 /\ SetSlot \notin Occupied /\ slots'[SetSlot] = made'
      /\ \A i \in DOMAIN slots : i # SetSlot => slots'[i] = slots[i]
      /\ \A t \in Types : routes'[t] = routes[t] \o Mentions(list, t, SetSlot)
      /\ SetSlot \in Nat /\ made' \in Nat
  <2>1. made \in Nat
    BY DEF StoreInv, StoreTyped
  <2> QED BY <2>1, SetTakesEmptySlot
<1>2. ASSUME NEW t \in Types
      PROVE  Table'[t] = Table[t] \o Abstract!Repeated(made', Len(Table'[t]) - Len(Table[t]))
  <2>1. PICK c \in Nat : Mentions(list, t, SetSlot) = [i \in 1 .. c |-> SetSlot]
    BY MentionsConstant
  <2> DEFINE a == routes[t]
             k == Len(a)
             r == a \o [i \in 1 .. c |-> SetSlot]
             e == Table[t]
             w == e \o [i \in 1 .. c |-> made']
             u == Table'[t]
  <2>2. routes'[t] = r
    BY <1>1, <2>1
  <2>3. a \in Seq(DOMAIN slots) /\ DOMAIN slots \subseteq Nat /\ k \in Nat /\ DOMAIN a = 1 .. k
    BY DEF StoreInv, StoreTyped
  <2>4. ASSUME NEW i \in 1 .. k PROVE slots'[a[i]] = slots[a[i]]
    <3>1. i \in DOMAIN routes[t]
      BY <2>3
    <3>2. a[i] \in Occupied
      BY <3>1, RoutesLead
    <3>3. a[i] \in DOMAIN slots /\ a[i] # SetSlot
      BY <1>1, <3>2 DEF Occupied
    <3> QED BY <1>1, <3>3
  <2>5. e \in Seq(Nat) /\ Len(e) = k /\ \A i \in 1 .. k : e[i] = slots[a[i]]
    BY TableTyped
  <2>6. /\ Len(u) = Len(r) /\ u \in Seq(Nat)
        /\ \A i \in 1 .. Len(r) : u[i] = slots'[r[i]]
    <3>1. /\ slots' \in Seq(Nat) /\ routes'[t] \in Seq(DOMAIN slots')
          /\ DOMAIN routes'[t] = 1 .. Len(routes'[t]) /\ Len(routes'[t]) \in Nat
      BY DEF StoreInv, StoreTyped
    <3>2. Table'[t] = [i \in 1 .. Len(routes'[t]) |-> slots'[routes'[t][i]]]
      BY <3>1 DEF Table
    <3>3. \A i \in 1 .. Len(routes'[t]) : slots'[routes'[t][i]] \in Nat
      BY <3>1, SMTT(30)
    <3>4. /\ Len(Table'[t]) = Len(routes'[t]) /\ Table'[t] \in Seq(Nat)
          /\ \A i \in 1 .. Len(routes'[t]) : Table'[t][i] = slots'[routes'[t][i]]
      BY <3>1, <3>2, <3>3
    <3> HIDE DEF r
    <3> QED BY <2>2, <3>4
  <2>7. a \in Seq(Nat)
    BY <2>3, SeqWiden
  <2> HIDE DEF a, k, e, u
  <2>8. /\ Len(r) = k + c
        /\ \A i \in 1 .. k : r[i] = a[i]
        /\ \A i \in k + 1 .. k + c : r[i] = SetSlot
    <3>1. k = Len(a)
      BY DEF k
    <3> QED BY <1>1, <2>3, <2>7, <3>1, ConcatConstant
  <2>9. /\ w \in Seq(Nat) /\ Len(w) = k + c
        /\ \A i \in 1 .. k : w[i] = e[i]
        /\ \A i \in k + 1 .. k + c : w[i] = made'
    <3>1. k = Len(e) /\ e \in Seq(Nat) /\ k \in Nat /\ made' \in Nat
      BY <1>1, <2>3, <2>5
    <3> DEFINE m == made'
    <3> HIDE DEF m
    <3>2. m \in Nat
      BY <3>1 DEF m
    <3>3. LET x == e \o [i \in 1 .. c |-> m]
          IN  /\ x \in Seq(Nat) /\ Len(x) = k + c
              /\ \A i \in 1 .. k : x[i] = e[i]
              /\ \A i \in k + 1 .. k + c : x[i] = m
      BY <3>1, <3>2, ConcatConstant
    <3> QED BY <3>3 DEF m
  <2> HIDE DEF r, w
  <2>10. k + c \in Nat
    BY <2>3
  <2>11. ASSUME NEW i \in 1 .. k + c PROVE u[i] = w[i]
    <3>1. u[i] = slots'[r[i]]
      BY <2>6, <2>8
    <3>2. CASE i \in 1 .. k
      <4>1. slots'[r[i]] = slots[a[i]]
        BY <2>4, <2>8, <3>2
      <4>2. w[i] = slots[a[i]]
        BY <2>5, <2>9, <3>2
      <4> QED BY <3>1, <4>1, <4>2
    <3>3. CASE i \in k + 1 .. k + c
      <4>1. slots'[r[i]] = made'
        BY <1>1, <2>8, <3>3
      <4>2. w[i] = made'
        BY <2>9, <3>3
      <4> QED BY <3>1, <4>1, <4>2
    <3> QED BY <2>3, <3>2, <3>3
  <2>12. u = w
    BY <2>6, <2>8, <2>9, <2>10, <2>11, SameList
  <2>13. Len(u) - Len(e) = c
    BY <2>3, <2>5, <2>6, <2>8
  <2> QED BY <2>12, <2>13 DEF Abstract!Repeated, u, w, e
<1>3. Table' = [t \in Types |-> Table'[t]]
  BY DEF Table
<1> DEFINE count == [t \in Types |-> Len(Table'[t]) - Len(Table[t])]
<1>4. \A t \in Types : Table'[t] = Table[t] \o Abstract!Repeated(made', count[t])
  BY <1>2
<1>5. Table' = [t \in Types |-> Table[t] \o Abstract!Repeated(made', count[t])]
  BY <1>3, <1>4
<1> HIDE DEF count
<1>6. \E c \in {count} : Table' = [t \in Types |-> Table[t] \o Abstract!Repeated(made', c[t])]
  BY <1>5
<1> QED BY <1>1, <1>6 DEF Abstract!set_consumer, count

LEMMA RefineRemove ==
  ASSUME StoreInv, NEW list \in Lists, remove_consumer(list)
  PROVE  Abstract!remove_consumer
<1> DEFINE S == Elements(list)
           dead == Unreferenced(S) \cap Occupied
<1>0. StoreTyped /\ RoutesExact /\ SlotsDistinct
  BY DEF StoreInv
<1>1. /\ made' = made /\ returned' = {slots[i] : i \in dead}
      /\ routes' = [t \in Types |-> IF t \in S THEN << >> ELSE routes[t]]
      /\ slots' = [i \in DOMAIN slots |-> IF i \in dead THEN None ELSE slots[i]]
  BY DEF remove_consumer
<1>2. S \subseteq Types
  BY RegistryAssumption DEF Elements
<1>3. /\ \A t \in Types \ S : \A i \in DOMAIN routes[t] : routes[t][i] \notin dead
      /\ \A i \in dead : i \in Occupied /\ i \in DOMAIN slots
      /\ \A i \in Occupied : (\A t \in Types \ S : i \notin Elements(routes[t])) => i \in dead
      /\ \A i \in Occupied : \E t \in Types : i \in Elements(routes[t])
  <2>1. \A t \in Types \ S : \A i \in DOMAIN routes[t] : routes[t][i] \in SlotsOf(Types \ S)
    BY DEF SlotsOf, Elements
  <2>2. \A i \in Occupied : \E t \in Types : i \in Elements(routes[t])
    BY <1>0 DEF RoutesExact, SlotsOf
  <2>3. ASSUME NEW i \in Occupied, \A t \in Types \ S : i \notin Elements(routes[t]) PROVE i \in dead
    <3>1. i \notin SlotsOf(Types \ S)
      BY <2>3 DEF SlotsOf
    <3>2. PICK t \in Types : i \in Elements(routes[t])
      BY <2>2
    <3>3. t \in S
      BY <2>3, <3>2
    <3>4. i \in SlotsOf(S)
      BY <3>2, <3>3 DEF SlotsOf
    <3> QED BY <3>1, <3>4 DEF Unreferenced
  <2>4. \A i \in dead : i \in Occupied /\ i \in DOMAIN slots /\ i \notin SlotsOf(Types \ S)
    BY DEF Unreferenced, Occupied
  <2> QED BY <2>1, <2>2, <2>3, <2>4
<1> HIDE DEF dead
<1>4. Table' = [t \in Types |-> IF t \in S THEN << >> ELSE Table[t]]
  <2>1. ASSUME NEW t \in Types PROVE Table'[t] = IF t \in S THEN << >> ELSE Table[t]
    <3>1. Table'[t] = [i \in DOMAIN routes'[t] |-> slots'[routes'[t][i]]]
      BY DEF Table
    <3>2. CASE t \in S
      BY <1>1, <3>1, <3>2
    <3>3. CASE t \notin S
      <4>1. routes'[t] = routes[t]
        BY <1>1, <3>3
      <4>2. \A i \in DOMAIN routes[t] : routes[t][i] \in DOMAIN slots /\ routes[t][i] \notin dead
        BY <1>0, <1>3, <3>3 DEF StoreTyped
      <4>3. \A i \in DOMAIN routes[t] : slots'[routes[t][i]] = slots[routes[t][i]]
        BY <1>1, <4>2
      <4>4. Table[t] = [i \in DOMAIN routes[t] |-> slots[routes[t][i]]]
        BY DEF Table
      <4> QED BY <3>1, <3>3, <4>1, <4>3, <4>4
    <3> QED BY <3>2, <3>3
  <2>2. Table' = [t \in Types |-> Table'[t]]
    BY DEF Table
  <2> HIDE DEF S
  <2> QED BY <2>1, <2>2
<1>5. ASSUME NEW t \in Types
      PROVE  /\ \A k \in DOMAIN Table[t] :
                  /\ k \in DOMAIN routes[t] /\ routes[t][k] \in Occupied
                  /\ Table[t][k] = slots[routes[t][k]] /\ Table[t][k] # None
             /\ DOMAIN Table[t] = DOMAIN routes[t]
  BY RoutesLead DEF Table
<1>6. \A i \in Occupied : slots[i] \in 1 .. made
  BY <1>0 DEF StoreTyped, SlotsDistinct, Occupied, None
<1>7. ASSUME NEW i \in dead
      PROVE  /\ slots[i] \in 1 .. made /\ Abstract!Users(slots[i]) # {}
             /\ Abstract!Users(slots[i]) \subseteq S
  <2>1. PICK t \in Types : i \in Elements(routes[t])
    BY <1>3
  <2>2. PICK k \in DOMAIN routes[t] : routes[t][k] = i
    BY <2>1 DEF Elements
  <2>3. t \in Abstract!Users(slots[i])
    BY <1>5, <2>2 DEF Abstract!Users
  <2>4. ASSUME NEW u \in Abstract!Users(slots[i]), u \notin S PROVE FALSE
    <3>1. u \in Types /\ \E j \in DOMAIN Table[u] : Table[u][j] = slots[i]
      BY <2>4 DEF Abstract!Users
    <3>2. PICK j \in DOMAIN routes[u] : routes[u][j] \in Occupied /\ slots[routes[u][j]] = slots[i]
      BY <1>5, <3>1
    <3>3. routes[u][j] = i
      BY <1>0, <1>3, <3>2 DEF SlotsDistinct
    <3> QED BY <1>3, <2>4, <3>1, <3>2, <3>3
  <2> QED BY <1>3, <1>6, <2>3, <2>4
<1>8. ASSUME NEW c \in 1 .. made, Abstract!Users(c) # {}, Abstract!Users(c) \subseteq S
      PROVE  \E i \in dead : slots[i] = c
  <2>1. PICK t \in Types : \E k \in DOMAIN Table[t] : Table[t][k] = c
    BY <1>8 DEF Abstract!Users
  <2>2. PICK k \in DOMAIN routes[t] : routes[t][k] \in Occupied /\ slots[routes[t][k]] = c
    BY <1>5, <2>1
  <2> DEFINE i == routes[t][k]
  <2>3. ASSUME NEW u \in Types \ S, i \in Elements(routes[u]) PROVE FALSE
    <3>1. PICK j \in DOMAIN routes[u] : routes[u][j] = i
      BY <2>3 DEF Elements
    <3>2. j \in DOMAIN Table[u] /\ Table[u][j] = c
      BY <1>5, <2>2, <3>1
    <3>3. u \in Abstract!Users(c)
      BY <3>2 DEF Abstract!Users
    <3> QED BY <1>8, <3>3
  <2>4. i \in dead
    BY <1>3, <2>2, <2>3
  <2> QED BY <2>2, <2>4
<1>9. returned' = {c \in 1 .. made : Abstract!Users(c) # {} /\ Abstract!Users(c) \subseteq S}
  BY <1>1, <1>7, <1>8
<1> HIDE DEF S
<1> QED BY <1>1, <1>2, <1>4, <1>9 DEF Abstract!remove_consumer

LEMMA StepTable ==
  Inv /\ Inv' /\ [Next]_vars => [Abstract!Next]_(<<Table, made, returned>>)
<1> SUFFICES ASSUME Inv, Inv', [Next]_vars
             PROVE  Abstract!Next \/ UNCHANGED <<Table, made, returned>>
  OBVIOUS
<1>0. StoreInv /\ StoreInv' /\ ControlTyped
  BY DEF Inv
<1>1. ASSUME NEW list \in Lists, set_consumer(list) PROVE Abstract!Next
  BY <1>0, <1>1, ListsTyped, RefineSet DEF set_consumer, Abstract!Next
<1>2. ASSUME NEW list \in Lists, remove_consumer(list) PROVE Abstract!Next
  BY <1>0, <1>2, RefineRemove DEF Abstract!Next
<1>3. CASE clear_consumers
  <2>1. routes' = [t \in Types |-> << >>] /\ made' = made /\ returned' = returned
    BY <1>3 DEF clear_consumers
  <2>2. Table' = [t \in Types |-> << >>]
    BY <2>1 DEF Table
  <2> QED BY <2>1, <2>2 DEF Abstract!Next, Abstract!clear_consumers
<1>4. CASE install_default
  <2>1. /\ installed < Len(Defaults) /\ set(Defaults[installed + 1]) /\ returned' = returned
    BY <1>4 DEF install_default
  <2>2. Len(Defaults) \in Nat
    BY RegistryAssumption
  <2>3. installed + 1 \in 1 .. Len(Defaults)
    BY <1>0, <2>1, <2>2 DEF ControlTyped
  <2>4. Defaults[installed + 1] \in Seq(Types)
    BY <2>3, ListsTyped
  <2> QED BY <1>0, <2>1, <2>4, RefineSet DEF Abstract!Next
<1>5. ASSUME UNCHANGED <<store, made, returned>> PROVE UNCHANGED <<Table, made, returned>>
  BY <1>5 DEF store, Table
<1>6. CASE defaults_installed
  BY <1>5, <1>6 DEF defaults_installed
<1>7. ASSUME NEW t \in Types, route(t) \/ converted(t) PROVE UNCHANGED <<Table, made, returned>>
  BY <1>5, <1>7 DEF route, converted
<1>8. CASE passed_on
  BY <1>5, <1>8 DEF passed_on
<1>9. CASE consumed \/ unhandled
  BY <1>5, <1>9 DEF consumed, unhandled, Return
<1>10. CASE UNCHANGED vars
  BY <1>5, <1>10 DEF vars
<1> QED
  BY <1>1, <1>2, <1>3, <1>4, <1>6, <1>7, <1>8, <1>9, <1>10 DEF Next, RouteStep

\* Slots and their reuse are invisible: the registry behaves as a table of
\* consumer lists, and remove_consumer gives back exactly the consumers that
\* lost their last type.
THEOREM RegistryImplements == Spec => ImplementsTable
<1>1. Init => Abstract!Init
  <2> SUFFICES ASSUME Init PROVE Abstract!Init
    OBVIOUS
  <2>1. Table = [t \in Types |-> << >>]
    BY DEF Init, Table
  <2> QED BY <2>1 DEF Init, Abstract!Init
<1> QED BY <1>1, StepTable, InvAlways, PTL DEF Spec, ImplementsTable, Abstract!Spec
=============================================================================
