------------------------ MODULE LanePathSearchProofs ------------------------
(***************************************************************************)
(* Proofs about LanePathSearch: what find_lane_path keeps and returns, for *)
(* every lane map and every query.                                         *)
(***************************************************************************)
EXTENDS LanePathSearch, SequenceTheorems, FiniteSetTheorems, WellFoundedInduction,
        TLAPS

-----------------------------------------------------------------------------
(* A set of natural numbers that is not empty has a least element.         *)
LEMMA LeastNatural ==
  ASSUME NEW T, T \subseteq Nat, T # {}
  PROVE  \E x \in T : \A y \in T : x <= y
<1> DEFINE R == OpToRel(<, Nat)
<1>1. IsWellFoundedOn(R, Nat)
  BY NatLessThanWellFounded
<1>2. \A x, y \in Nat : x < y => <<x, y>> \in R
  BY DEF OpToRel
<1> HIDE DEF R
<1>3. PICK x \in T : \A y \in T : ~ (<<y, x>> \in R)
  BY <1>1, WFMin
<1>4. ASSUME NEW y \in T PROVE x <= y
  <2>1. x \in Nat /\ y \in Nat
    OBVIOUS
  <2>2. ~ (y < x)
    BY <1>2, <1>3, <2>1
  <2> QED
    BY <2>1, <2>2
<1> QED
  BY <1>4

(* Induction along 1 .. n: a set that has 1, and m + 1 with every m below  *)
(* n, has them all.                                                        *)
LEMMA UpTo ==
  ASSUME NEW n \in Nat, NEW S,
         1 \in S,
         \A m \in 1 .. n - 1 : m \in S => m + 1 \in S
  PROVE  \A m \in 1 .. n : m \in S
<1> DEFINE Bad == { m \in 1 .. n : m \notin S }
<1> SUFFICES ASSUME Bad # {} PROVE FALSE
  OBVIOUS
<1>1. Bad \subseteq Nat
  OBVIOUS
<1>2. PICK m \in Bad : \A k \in Bad : m <= k
  BY <1>1, LeastNatural
<1>3. m \in 2 .. n /\ m \notin S
  BY <1>2
<1>4. m - 1 \in 1 .. n - 1
  BY <1>3
<1>5. m - 1 \in S
  BY <1>2, <1>3, <1>4
<1> QED
  BY <1>3, <1>4, <1>5

-----------------------------------------------------------------------------
(* A contact lane of a map, and what a move over it costs.                 *)
LEMMA ContactType ==
  ASSUME NEW m \in Maps, NEW l \in m.lanes, NEW i \in 1 .. Len(m.contacts[l])
  PROVE  /\ m.contacts[l][i].to \in m.lanes
         /\ TransitionType(m, l, m.contacts[l][i]) \in {"forward", "lane_change"}
         /\ TransitionCost(m, l, m.contacts[l][i], Penalty) \in Nat
<1> DEFINE C == [to : m.lanes, location : ContactLocations]
<1>1. /\ m.length \in [m.lanes -> Nat]
      /\ m.contacts \in [m.lanes -> Seq(C)]
      /\ Penalty \in Nat
  BY SearchAssumption DEF IsLaneMap
<1>2. m.contacts[l] \in Seq(C)
  BY <1>1
<1>3. m.contacts[l][i] \in C
  BY <1>2, ElementOfSeq
<1>4. m.contacts[l][i].to \in m.lanes
  BY <1>3
<1> QED
  BY <1>1, <1>4 DEF TransitionType, TransitionCost

(* The key of an entry is a key of the map.                                *)
LEMMA KeyType ==
  ASSUME NEW e \in Entries
  PROVE  /\ Key(e) \in Keys
         /\ Key(e)[1] = e.lane
         /\ Key(e)[2] = e.hasLeftStart
BY DEF Entries, Keys, Key

(* A contact lane of the popped lane leads to a well-formed entry that is  *)
(* no cheaper than the popped one.                                         *)
LEMMA SuccessorType ==
  ASSUME TypeOK, NEW i \in 1 .. Len(Contacts)
  PROVE  /\ Contacts[i].to \in map.lanes
         /\ Successor(Contacts[i]) \in Entries
         /\ Successor(Contacts[i]).cost >= current.cost
         /\ Key(Successor(Contacts[i])) = <<Contacts[i].to, TRUE>>
<1> DEFINE c == Contacts[i]
<1>1. /\ current.cost \in Nat
      /\ current.lane \in map.lanes
      /\ current.path \in Seq(map.lanes)
      /\ current.types \in Seq({"forward", "lane_change"})
  BY DEF TypeOK, Entries
<1>2. map \in Maps
  BY DEF TypeOK
<1>3. /\ c.to \in map.lanes
      /\ TransitionType(map, current.lane, c) \in {"forward", "lane_change"}
      /\ TransitionCost(map, current.lane, c, Penalty) \in Nat
  BY <1>1, <1>2, ContactType DEF Contacts
<1>4. /\ Append(current.path, c.to) \in Seq(map.lanes)
      /\ Append(current.types, TransitionType(map, current.lane, c))
           \in Seq({"forward", "lane_change"})
  BY <1>1, <1>3, AppendProperties
<1>5. Successor(c) \in Entries
  BY <1>1, <1>3, <1>4 DEF Successor, Entries
<1>6. Successor(c).cost >= current.cost
  BY <1>1, <1>3 DEF Successor
<1> QED
  BY <1>3, <1>5, <1>6 DEF Successor, Key

-----------------------------------------------------------------------------
(* Types.                                                                  *)

LEMMA SingletonSeq == ASSUME NEW S, NEW x \in S PROVE <<x>> \in Seq(S)
OBVIOUS

LEMMA InitTypeOK == Init => TypeOK
<1> SUFFICES ASSUME Init PROVE TypeOK
  OBVIOUS
<1>1. query.start \in map.lanes
  BY SearchAssumption DEF Init
<1>4. <<query.start>> \in Seq(map.lanes)
  BY <1>1, SingletonSeq
<1>5. << >> \in Seq({"forward", "lane_change"})
  BY EmptySeq
<1>2. StartEntry(query) \in Entries
  <2>1. ASSUME NEW p \in Seq(map.lanes), NEW t \in Seq({"forward", "lane_change"})
        PROVE  [cost |-> 0, lane |-> query.start, path |-> p, types |-> t,
                hasLeftStart |-> FALSE] \in Entries
    BY <1>1 DEF Entries
  <2> QED
    BY <1>4, <1>5, <2>1, Zenon DEF StartEntry
<1>3. bestCosts \in [Keys -> Nat \cup {Inf}]
  BY DEF Init
<1> QED
  BY <1>2, <1>3 DEF Init, TypeOK

LEMMA NextTypeOK == TypeOK /\ [Next]_vars => TypeOK'
<1> SUFFICES ASSUME TypeOK, [Next]_vars PROVE TypeOK'
  OBVIOUS
<1> USE DEF TypeOK
<1>0. CASE UNCHANGED vars
  BY <1>0 DEF vars, Keys, Entries, Contacts
<1>1. CASE PopStale
  BY <1>1 DEF PopStale, Keys, Entries, Contacts
<1>2. CASE PopGoal
  BY <1>2 DEF PopGoal, IsNext, Keys, Entries, Contacts
<1>3. CASE PopExpand
  <2>1. PICK e \in frontier : current' = e /\ frontier' = frontier \ {e}
    BY <1>3 DEF PopExpand
  <2>2. UNCHANGED <<map, query, bestCosts>> /\ pc' = "relax" /\ contact' = 1
    BY <1>3 DEF PopExpand
  <2>3. e.lane \in map.lanes
    BY <2>1 DEF Entries
  <2>4. Len(Contacts') \in Nat
    BY <2>1, <2>2, <2>3, SearchAssumption DEF IsLaneMap, Contacts
  <2> QED
    BY <2>1, <2>2, <2>4 DEF Keys, Entries
<1>4. CASE Exhausted
  BY <1>4 DEF Exhausted, Keys, Entries, Contacts
<1>5. CASE SkipContact
  <2>1. current.lane \in map.lanes
    BY DEF Entries
  <2>2. Len(Contacts) \in Nat
    BY <2>1, SearchAssumption DEF IsLaneMap, Contacts
  <2> QED
    BY <1>5, <2>2 DEF SkipContact, Keys, Entries, Contacts
<1>6. CASE Relax
  <2> DEFINE e == Successor(Contacts[contact])
  <2>1. current.lane \in map.lanes
    BY DEF Entries
  <2>2. Len(Contacts) \in Nat
    BY <2>1, SearchAssumption DEF IsLaneMap, Contacts
  <2>3. contact \in 1 .. Len(Contacts)
    BY <1>6, <2>2 DEF Relax
  <2>4. e \in Entries /\ Key(e) \in Keys
    BY <2>3, SuccessorType, KeyType
  <2>5. e.cost \in Nat
    BY <2>4 DEF Entries
  <2>6. /\ frontier' = frontier \cup {e}
        /\ bestCosts' = [bestCosts EXCEPT ![Key(e)] = e.cost]
        /\ contact' = contact + 1
        /\ UNCHANGED <<map, query, pc, current>>
    BY <1>6 DEF Relax
  <2>7. bestCosts' \in [Keys -> Nat \cup {Inf}]
    BY <2>4, <2>5, <2>6
  <2>8. frontier' \subseteq Entries
    BY <2>4, <2>6
  <2> QED
    BY <2>2, <2>3, <2>6, <2>7, <2>8 DEF Keys, Entries, Contacts
<1>7. CASE EndExpand
  BY <1>7 DEF EndExpand, Keys, Entries, Contacts
<1> QED
  BY <1>0, <1>1, <1>2, <1>3, <1>4, <1>5, <1>6, <1>7 DEF Next

(* The search keeps its heap, its cost dictionary and its contact cursor in *)
(* their domains, whatever the map and the query.                           *)
THEOREM TypeCorrect == Spec => []TypeOK
<1>1. Init => TypeOK
  BY InitTypeOK
<1>2. TypeOK /\ [Next]_vars => TypeOK'
  BY NextTypeOK
<1> QED
  BY <1>1, <1>2, PTL DEF Spec

-----------------------------------------------------------------------------
(* The inductive invariant.  Costs are popped in ascending order, so that  *)
(* what is settled stays below what waits, and what is settled has been    *)
(* relaxed.                                                                *)

GoalKey(k) == k[1] = query.goal /\ (k[2] \/ DirectFinishAllowed)

HeapInv ==
  /\ \A e \in frontier : /\ Reached(Key(e))
                         /\ bestCosts[Key(e)] <= e.cost
                         /\ current.cost <= e.cost
  /\ \A e, f \in frontier : Key(e) = Key(f) /\ e.cost = f.cost => e = f

SettledInv ==
  /\ \A k \in Keys : Settled(k) => bestCosts[k] <= current.cost
  /\ pc \in {"relax", "found"} =>
       Settled(Key(current)) /\ bestCosts[Key(current)] = current.cost
  /\ bestCosts[<<query.start, FALSE>>] = 0

\* The i-th contact of key k was looked at and left a cost that is no higher.
RelaxedAt(k, i) ==
  LET c == map.contacts[k[1]][i] IN
  IsTransition(map, k[1], c) =>
    /\ Reached(<<c.to, TRUE>>)
    /\ bestCosts[<<c.to, TRUE>>] <=
         bestCosts[k] + TransitionCost(map, k[1], c, Penalty)

RelaxedInv ==
  \A k \in Keys : Settled(k) =>
    \A i \in 1 .. Len(map.contacts[k[1]]) :
      \/ RelaxedAt(k, i)
      \/ k = Key(current) /\ pc = "found"
      \/ k = Key(current) /\ pc = "relax" /\ i >= contact

GoalInv ==
  /\ \A k \in Keys : Settled(k) /\ GoalKey(k) => pc = "found" /\ k = Key(current)
  /\ pc = "found" => IsGoal(current)
  /\ pc = "none" => frontier = {}

IInv == TypeOK /\ HeapInv /\ SettledInv /\ RelaxedInv /\ GoalInv

LEMMA ReachedType ==
  ASSUME TypeOK, NEW k \in Keys, Reached(k)
  PROVE  bestCosts[k] \in Nat
BY DEF TypeOK, Reached

(* Popping an entry that carries the best cost of its key settles that key *)
(* and no other; dropping an outdated entry settles none.                  *)
LEMMA PopSettles ==
  ASSUME TypeOK, HeapInv, NEW e \in frontier, e.cost = bestCosts[Key(e)],
         frontier' = frontier \ {e}, UNCHANGED <<map, bestCosts>>,
         NEW k \in Keys
  PROVE  Settled(k)' <=> Settled(k) \/ k = Key(e)
<1>1. CASE k = Key(e)
  <2>1. \A f \in frontier' : ~ (Key(f) = k /\ f.cost = bestCosts'[k])
    BY <1>1 DEF HeapInv
  <2> QED
    BY <1>1, <2>1 DEF HeapInv, Settled, Waiting, Reached, Key
<1>2. CASE k # Key(e)
  BY <1>2 DEF Settled, Waiting, Reached, Key
<1> QED
  BY <1>1, <1>2

LEMMA StaleSettlesNone ==
  ASSUME NEW e \in frontier, e.cost # bestCosts[Key(e)],
         frontier' = frontier \ {e}, UNCHANGED <<map, bestCosts>>,
         NEW k \in Keys
  PROVE  Settled(k)' <=> Settled(k)
BY DEF Settled, Waiting, Reached, Key

(* What one relaxation does: the new entry is no cheaper than the popped   *)
(* one, its key was not settled, and no key becomes settled by it.         *)
LEMMA RelaxFacts ==
  ASSUME TypeOK, HeapInv, SettledInv, Relax
  PROVE  LET e == Successor(Contacts[contact])
         IN  /\ contact \in 1 .. Len(Contacts)
             /\ e \in Entries
             /\ e.cost \in Nat
             /\ Key(e) = <<Contacts[contact].to, TRUE>>
             /\ Key(e) \in Keys
             /\ current.cost <= e.cost
             /\ ~ Settled(Key(e))
             /\ Reached(Key(e)) => e.cost < bestCosts[Key(e)]
             /\ bestCosts' = [bestCosts EXCEPT ![Key(e)] = e.cost]
             /\ frontier' = frontier \cup {e}
             /\ \A k \in Keys : Settled(k)' => Settled(k) /\ bestCosts'[k] = bestCosts[k]
<1> DEFINE e == Successor(Contacts[contact])
<1>1. /\ frontier' = frontier \cup {e}
      /\ bestCosts' = [bestCosts EXCEPT ![Key(e)] = e.cost]
      /\ Improves(Key(e), e.cost)
      /\ UNCHANGED <<map, query, pc, current>>
  BY DEF Relax
<1>2. contact \in 1 .. Len(Contacts)
  <2>1. current.lane \in map.lanes
    BY DEF TypeOK, Entries
  <2>2. Len(Contacts) \in Nat
    BY <2>1, SearchAssumption DEF TypeOK, IsLaneMap, Contacts
  <2> QED
    BY <2>2 DEF Relax, TypeOK
<1>3. /\ e \in Entries
      /\ current.cost <= e.cost
      /\ Key(e) = <<Contacts[contact].to, TRUE>>
  BY <1>2, SuccessorType
<1>4. e.cost \in Nat /\ current.cost \in Nat
  BY <1>3 DEF Entries, TypeOK
<1>5. Key(e) \in Keys
  BY <1>3, KeyType
<1>6. Reached(Key(e)) => e.cost < bestCosts[Key(e)]
  BY <1>1 DEF Improves
<1>7. ~ Settled(Key(e))
  <2>1. SUFFICES ASSUME Settled(Key(e)) PROVE FALSE
    OBVIOUS
  <2>2. Reached(Key(e)) /\ bestCosts[Key(e)] <= current.cost
    BY <1>5, <2>1 DEF SettledInv, Settled
  <2> QED
    BY <1>3, <1>4, <1>5, <1>6, <2>2, ReachedType
<1>8. ASSUME NEW k \in Keys, Settled(k)'
      PROVE  Settled(k) /\ bestCosts'[k] = bestCosts[k]
  <2>1. bestCosts \in [Keys -> Nat \cup {Inf}]
    BY DEF TypeOK
  <2>2. k # Key(e)
    <3>1. SUFFICES ASSUME k = Key(e) PROVE FALSE
      OBVIOUS
    <3>2. e \in frontier' /\ bestCosts'[k] = e.cost
      BY <1>1, <1>5, <2>1, <3>1
    <3>3. Waiting(k)'
      BY <3>1, <3>2 DEF Waiting, Key
    <3> QED
      BY <1>8, <3>3 DEF Settled
  <2>3. bestCosts'[k] = bestCosts[k]
    BY <1>1, <2>1, <2>2
  <2> QED
    BY <1>1, <1>8, <2>3 DEF Settled, Waiting, Reached, Key
<1> QED
  BY <1>1, <1>2, <1>3, <1>4, <1>5, <1>6, <1>7, <1>8

LEMMA InitIInv == Init => IInv
<1> SUFFICES ASSUME Init PROVE IInv
  OBVIOUS
<1>1. TypeOK
  BY InitTypeOK
<1>2. query.start \in map.lanes /\ Inf \notin Nat
  BY SearchAssumption DEF Init
<1> DEFINE s == <<query.start, FALSE>>
<1>3. s \in Keys /\ Key(current) = s
  BY <1>2 DEF Keys, Key, Init, StartEntry
<1>4. /\ frontier = {current}
      /\ current.cost = 0
      /\ bestCosts[s] = 0
      /\ \A k \in Keys : k # s => ~ Reached(k)
      /\ pc = "pop"
  BY <1>2, <1>3 DEF Init, StartEntry, Reached
<1>5. \A k \in Keys : ~ Settled(k)
  BY <1>3, <1>4 DEF Settled, Waiting
<1>6. HeapInv
  <2>1. bestCosts[Key(current)] = 0
    BY <1>3, <1>4
  <2>2. Reached(Key(current)) /\ bestCosts[Key(current)] <= current.cost
    BY <1>2, <1>4, <2>1 DEF Reached
  <2>3. current.cost <= current.cost
    BY <1>4
  <2> QED
    BY <1>4, <2>2, <2>3, Zenon DEF HeapInv
<1>7. SettledInv
  BY <1>4, <1>5 DEF SettledInv
<1> QED
  BY <1>1, <1>4, <1>5, <1>6, <1>7 DEF IInv, RelaxedInv, GoalInv

LEMMA NextHeapInv == IInv /\ [Next]_vars => HeapInv'
<1> SUFFICES ASSUME IInv, [Next]_vars PROVE HeapInv'
  OBVIOUS
<1> USE DEF IInv
<1>0. CASE UNCHANGED vars
  BY <1>0 DEF vars, HeapInv, Reached, Key
<1>1. CASE PopStale
  BY <1>1 DEF PopStale, HeapInv, Reached, Key
<1>2. CASE PopGoal \/ PopExpand
  <2>1. PICK e \in frontier :
          /\ IsNext(e)
          /\ frontier' = frontier \ {e}
          /\ current' = e
          /\ bestCosts' = bestCosts
    BY <1>2 DEF PopGoal, PopExpand
  <2>2. ASSUME NEW f \in frontier PROVE f.cost \in Nat
    BY DEF TypeOK, Entries
  <2>3. \A f \in frontier : e.cost <= f.cost
    BY <2>1, <2>2 DEF IsNext
  <2> QED
    BY <2>1, <2>3 DEF HeapInv, Reached, Key
<1>3. CASE Exhausted \/ SkipContact \/ EndExpand
  BY <1>3 DEF Exhausted, SkipContact, EndExpand, HeapInv, Reached, Key
<1>4. CASE Relax
  <2> DEFINE e == Successor(Contacts[contact])
  <2>1. /\ e.cost \in Nat
        /\ Key(e) \in Keys
        /\ current.cost <= e.cost
        /\ Reached(Key(e)) => e.cost < bestCosts[Key(e)]
        /\ bestCosts' = [bestCosts EXCEPT ![Key(e)] = e.cost]
        /\ frontier' = frontier \cup {e}
    BY <1>4, RelaxFacts
  <2>2. /\ bestCosts \in [Keys -> Nat \cup {Inf}]
        /\ Inf \notin Nat
        /\ current' = current
    BY <1>4, SearchAssumption DEF TypeOK, Relax
  <2>3. bestCosts'[Key(e)] = e.cost
    BY <2>1, <2>2
  <2> HIDE DEF e
  <2>4. ASSUME NEW f \in frontier
        PROVE  /\ f.cost \in Nat
               /\ Key(f) \in Keys
               /\ Reached(Key(f)) /\ bestCosts[Key(f)] \in Nat
               /\ bestCosts[Key(f)] <= f.cost
               /\ current.cost <= f.cost
               /\ Key(f) = Key(e) => e.cost < f.cost
    <3>1. f \in Entries
      BY DEF TypeOK
    <3>2. f.cost \in Nat /\ Key(f) \in Keys
      BY <3>1, KeyType DEF Entries
    <3> QED
      BY <2>1, <3>2, ReachedType DEF HeapInv
  <2>5. ASSUME NEW f \in frontier'
        PROVE  Reached(Key(f))' /\ bestCosts'[Key(f)] <= f.cost /\ current.cost <= f.cost
    <3>1. CASE f = e
      BY <2>1, <2>2, <2>3, <3>1 DEF Reached, Key
    <3>2. CASE f \in frontier /\ Key(f) = Key(e)
      BY <2>1, <2>2, <2>3, <2>4, <3>2 DEF Reached, Key
    <3>3. CASE f \in frontier /\ Key(f) # Key(e)
      <4>1. bestCosts'[Key(f)] = bestCosts[Key(f)]
        BY <2>1, <2>2, <2>4, <3>3
      <4> QED
        BY <2>4, <3>3, <4>1 DEF Reached, Key
    <3> QED
      BY <2>1, <3>1, <3>2, <3>3
  <2>6. ASSUME NEW f \in frontier', NEW g \in frontier', Key(f) = Key(g), f.cost = g.cost
        PROVE  f = g
    <3>1. CASE f \in frontier /\ g \in frontier
      BY <2>6, <3>1 DEF HeapInv
    <3>2. CASE f = e \/ g = e
      BY <2>1, <2>4, <2>6, <3>2
    <3> QED
      BY <2>1, <3>1, <3>2
  <2> QED
    BY <2>2, <2>5, <2>6 DEF HeapInv, Key
<1> QED
  BY <1>0, <1>1, <1>2, <1>3, <1>4 DEF Next

(* A pop of an entry with the best cost of its key: what PopGoal and       *)
(* PopExpand have in common.                                               *)
LEMMA PopFacts ==
  ASSUME IInv, PopGoal \/ PopExpand
  PROVE  \E e \in frontier :
           /\ e = current'
           /\ e.cost = bestCosts[Key(e)]
           /\ Key(e) = Key(current)' /\ Key(e) \in Keys
           /\ e.cost \in Nat /\ current.cost \in Nat
           /\ current.cost <= e.cost
           /\ pc' = "found" => IsGoal(e)
           /\ pc' = "relax" => ~ IsGoal(e) /\ contact' = 1
           /\ pc = "pop" /\ pc' \in {"found", "relax"}
           /\ UNCHANGED <<map, query, bestCosts>>
           /\ \A k \in Keys : Settled(k)' <=> Settled(k) \/ k = Key(e)
<1>1. PICK e \in frontier :
        /\ e.cost = bestCosts[Key(e)]
        /\ frontier' = frontier \ {e}
        /\ current' = e
        /\ pc' = "found" => IsGoal(e)
        /\ pc' = "relax" => ~ IsGoal(e) /\ contact' = 1
        /\ pc = "pop" /\ pc' \in {"found", "relax"}
        /\ UNCHANGED <<map, query, bestCosts>>
  BY DEF PopGoal, PopExpand
<1>2. e \in Entries /\ current \in Entries
  BY DEF IInv, TypeOK
<1>3. Key(e) \in Keys /\ Key(e) = Key(current)'
  BY <1>1, <1>2, KeyType DEF Key
<1>4. e.cost \in Nat /\ current.cost \in Nat
  BY <1>2 DEF Entries
<1>5. current.cost <= e.cost
  BY DEF IInv, HeapInv
<1>6. \A k \in Keys : Settled(k)' <=> Settled(k) \/ k = Key(e)
  BY <1>1, PopSettles DEF IInv
<1> QED
  BY <1>1, <1>3, <1>4, <1>5, <1>6

(* A step that only moves the cursor or drops an outdated entry leaves the *)
(* settled keys alone.                                                     *)
LEMMA QuietSteps ==
  ASSUME IInv,
         UNCHANGED vars \/ PopStale \/ Exhausted \/ SkipContact \/ EndExpand
  PROVE  /\ \A k \in Keys : Settled(k)' <=> Settled(k)
         /\ UNCHANGED <<map, query, bestCosts, current>>
         /\ Key(current)' = Key(current)
<1>1. CASE PopStale
  <2>1. PICK e \in frontier : e.cost # bestCosts[Key(e)] /\ frontier' = frontier \ {e}
    BY <1>1 DEF PopStale
  <2>2. UNCHANGED <<map, query, bestCosts, current>>
    BY <1>1 DEF PopStale
  <2> QED
    BY <2>1, <2>2, StaleSettlesNone DEF Key
<1>2. CASE UNCHANGED vars \/ Exhausted \/ SkipContact \/ EndExpand
  BY <1>2 DEF vars, Exhausted, SkipContact, EndExpand, Settled, Waiting, Reached, Key
<1> QED
  BY <1>1, <1>2

LEMMA FlagsDiffer ==
  ASSUME NEW k, NEW l PROVE <<k, FALSE>> # <<l, TRUE>>
OBVIOUS

LEMMA KeysStable ==
  ASSUME map' = map PROVE Keys' = Keys
BY DEF Keys

LEMMA NextSettledInv == IInv /\ [Next]_vars => SettledInv'
<1> SUFFICES ASSUME IInv, [Next]_vars PROVE SettledInv'
  OBVIOUS
<1>0. /\ current \in Entries /\ current.cost \in Nat
      /\ Key(current) \in Keys
  BY KeyType DEF IInv, TypeOK, Entries
<1>1. CASE PopGoal \/ PopExpand
  <2>1. PICK e \in frontier :
           /\ e = current'
           /\ e.cost = bestCosts[Key(e)]
           /\ Key(e) = Key(current)' /\ Key(e) \in Keys
           /\ e.cost \in Nat /\ current.cost <= e.cost
           /\ UNCHANGED <<map, query, bestCosts>>
           /\ \A k \in Keys : Settled(k)' <=> Settled(k) \/ k = Key(e)
    BY <1>1, PopFacts
  <2>2. ASSUME NEW k \in Keys, Settled(k)' PROVE bestCosts[k] <= e.cost
    <3>1. CASE k = Key(e)
      BY <2>1, <3>1
    <3>2. CASE Settled(k)
      <4>1. bestCosts[k] <= current.cost /\ bestCosts[k] \in Nat
        BY <3>2, ReachedType DEF IInv, SettledInv, Settled
      <4> QED
        BY <1>0, <2>1, <4>1
    <3> QED
      BY <2>1, <2>2, <3>1, <3>2
  <2> QED
    BY <2>1, <2>2, KeysStable DEF IInv, SettledInv
<1>2. CASE UNCHANGED vars \/ PopStale \/ Exhausted \/ SkipContact \/ EndExpand
  <2>1. /\ \A k \in Keys : Settled(k)' <=> Settled(k)
        /\ UNCHANGED <<map, query, bestCosts, current>>
        /\ Key(current)' = Key(current)
    BY <1>2, QuietSteps
  <2>2. pc' \in {"relax", "found"} => pc \in {"relax", "found"}
    BY <1>2 DEF vars, PopStale, Exhausted, SkipContact, EndExpand
  <2> QED
    BY <1>0, <2>1, <2>2, KeysStable DEF IInv, SettledInv
<1>3. CASE Relax
  <2> DEFINE e == Successor(Contacts[contact])
  <2>1. /\ e.cost \in Nat /\ Key(e) \in Keys
        /\ Key(e) = <<Contacts[contact].to, TRUE>>
        /\ ~ Settled(Key(e))
        /\ bestCosts' = [bestCosts EXCEPT ![Key(e)] = e.cost]
        /\ frontier' = frontier \cup {e}
        /\ \A k \in Keys : Settled(k)' => Settled(k) /\ bestCosts'[k] = bestCosts[k]
    BY <1>3, RelaxFacts DEF IInv
  <2>2. UNCHANGED <<map, query, pc, current>> /\ pc = "relax"
    BY <1>3 DEF Relax
  <2>3. Settled(Key(current)) /\ bestCosts[Key(current)] = current.cost
    BY <2>2 DEF IInv, SettledInv
  <2>4. bestCosts \in [Keys -> Nat \cup {Inf}]
    BY DEF IInv, TypeOK
  <2> HIDE DEF e
  <2>5. /\ Key(current) # Key(e)
        /\ bestCosts'[Key(current)] = bestCosts[Key(current)]
    BY <1>0, <2>1, <2>3, <2>4
  <2>6. Settled(Key(current))'
    <3>1. ~ Waiting(Key(current)) /\ Reached(Key(current))
      BY <2>3 DEF Settled
    <3> QED
      BY <2>1, <2>2, <2>5, <3>1 DEF Settled, Waiting, Reached, Key
  <2>7. bestCosts'[<<query.start, FALSE>>] = 0
    <3>1. query.start \in map.lanes
      BY SearchAssumption DEF IInv, TypeOK
    <3>2. <<query.start, FALSE>> \in Keys
      BY <3>1 DEF Keys
    <3>3. <<query.start, FALSE>> # Key(e)
      BY <2>1, FlagsDiffer
    <3> QED
      BY <2>1, <2>4, <3>2, <3>3 DEF IInv, SettledInv
  <2>8. Key(current)' = Key(current)
    BY <2>2 DEF Key
  <2>9. \A k \in Keys : Settled(k)' => bestCosts'[k] <= current.cost
    BY <2>1 DEF IInv, SettledInv
  <2> QED
    BY <2>2, <2>3, <2>5, <2>6, <2>7, <2>8, <2>9, KeysStable DEF SettledInv
<1> QED
  BY <1>1, <1>2, <1>3 DEF Next

LEMMA NextRelaxedInv == IInv /\ [Next]_vars => RelaxedInv'
<1> SUFFICES ASSUME IInv, [Next]_vars PROVE RelaxedInv'
  OBVIOUS
<1> SUFFICES ASSUME NEW k \in Keys', Settled(k)',
                    NEW i \in 1 .. Len(map'.contacts[k[1]])
             PROVE  \/ RelaxedAt(k, i)'
                    \/ k = Key(current)' /\ pc' = "found"
                    \/ k = Key(current)' /\ pc' = "relax" /\ i >= contact'
  BY DEF RelaxedInv
<1>0. map' = map /\ k \in Keys /\ i \in 1 .. Len(map.contacts[k[1]])
  BY KeysStable DEF Next, vars, PopStale, PopGoal, PopExpand, Exhausted,
                    SkipContact, Relax, EndExpand
<1> DEFINE c == map.contacts[k[1]][i]
<1>00. /\ k[1] \in map.lanes
       /\ c.to \in map.lanes
       /\ <<c.to, TRUE>> \in Keys
       /\ TransitionCost(map, k[1], c, Penalty) \in Nat
  BY <1>0, ContactType DEF Keys, IInv, TypeOK
<1>1. CASE PopGoal \/ PopExpand
  <2>1. PICK e \in frontier :
           /\ Key(e) = Key(current)'
           /\ e.cost \in Nat /\ current.cost <= e.cost
           /\ pc' = "relax" => contact' = 1
           /\ pc = "pop" /\ pc' \in {"found", "relax"}
           /\ UNCHANGED <<map, query, bestCosts>>
           /\ \A j \in Keys : Settled(j)' <=> Settled(j) \/ j = Key(e)
    BY <1>1, PopFacts
  <2>2. CASE k = Key(e)
    BY <1>0, <2>1, <2>2
  <2>3. CASE Settled(k)
    <3>1. RelaxedAt(k, i)
      BY <1>0, <2>1, <2>3 DEF IInv, RelaxedInv
    <3> QED
      BY <2>1, <3>1 DEF RelaxedAt, Reached
  <2> QED
    BY <1>0, <2>1, <2>2, <2>3
<1>2. CASE UNCHANGED vars \/ PopStale \/ Exhausted
  <2>1. /\ Settled(k) /\ UNCHANGED <<map, query, bestCosts, current>>
        /\ Key(current)' = Key(current)
    BY <1>0, <1>2, QuietSteps
  <2>2. UNCHANGED <<pc, contact>> \/ pc = "pop"
    BY <1>2 DEF vars, PopStale, Exhausted
  <2> QED
    BY <1>0, <2>1, <2>2 DEF IInv, RelaxedInv, RelaxedAt, Reached
<1>3. CASE SkipContact
  <2>1. /\ Settled(k) /\ UNCHANGED <<map, query, bestCosts, current>>
        /\ Key(current)' = Key(current)
    BY <1>0, <1>3, QuietSteps
  <2>2. pc = "relax" /\ pc' = "relax" /\ contact' = contact + 1 /\ contact \in Nat
    BY <1>3 DEF SkipContact, IInv, TypeOK
  <2>3. CASE k = Key(current) /\ i = contact
    <3>1. k[1] = current.lane
      BY <2>3 DEF Key
    <3>2. Contacts[contact] = c /\ contact \in 1 .. Len(Contacts)
      BY <1>0, <2>3, <3>1 DEF Contacts
    <3>3. SUFFICES ASSUME IsTransition(map, current.lane, c) PROVE RelaxedAt(k, i)'
      BY <2>1, <3>1 DEF RelaxedAt
    <3>4. ~ Improves(<<c.to, TRUE>>, Successor(c).cost)
      BY <1>3, <3>2, <3>3 DEF SkipContact
    <3>5. Successor(c).cost = current.cost + TransitionCost(map, current.lane, c, Penalty)
      BY DEF Successor
    <3>6. bestCosts[k] = current.cost /\ current.cost \in Nat
      BY <2>2, <2>3 DEF IInv, SettledInv, TypeOK, Entries
    <3>7. Reached(<<c.to, TRUE>>) /\ bestCosts[<<c.to, TRUE>>] \in Nat
      BY <1>00, <3>4, ReachedType DEF Improves, IInv
    <3>8. bestCosts[<<c.to, TRUE>>] <= Successor(c).cost
      BY <1>00, <3>1, <3>4, <3>5, <3>6, <3>7 DEF Improves
    <3> QED
      BY <2>1, <3>1, <3>5, <3>6, <3>7, <3>8 DEF RelaxedAt, Reached
  <2>4. CASE k # Key(current) \/ i # contact
    <3>1. RelaxedAt(k, i) \/ (k = Key(current) /\ i > contact)
      BY <1>0, <2>1, <2>2, <2>4 DEF IInv, RelaxedInv
    <3> QED
      BY <2>1, <2>2, <3>1 DEF RelaxedAt, Reached
  <2> QED
    BY <2>3, <2>4
<1>4. CASE EndExpand
  <2>1. /\ Settled(k) /\ UNCHANGED <<map, query, bestCosts, current>>
        /\ Key(current)' = Key(current)
    BY <1>0, <1>4, QuietSteps
  <2>2. pc = "relax" /\ contact > Len(Contacts) /\ contact \in Nat
    BY <1>4 DEF EndExpand, IInv, TypeOK
  <2>3. k = Key(current) => i < contact
    <3>1. SUFFICES ASSUME k = Key(current) PROVE i < contact
      OBVIOUS
    <3>2. k[1] = current.lane
      BY <3>1 DEF Key
    <3>3. Len(Contacts) \in Nat
      BY <1>00, <3>2, SearchAssumption DEF IInv, TypeOK, IsLaneMap, Contacts
    <3> QED
      BY <1>0, <2>2, <3>2, <3>3 DEF Contacts
  <2>4. RelaxedAt(k, i)
    BY <1>0, <2>1, <2>2, <2>3 DEF IInv, RelaxedInv
  <2> QED
    BY <2>1, <2>4 DEF RelaxedAt, Reached
<1>5. CASE Relax
  <2> DEFINE e == Successor(Contacts[contact])
  <2>1. /\ contact \in 1 .. Len(Contacts)
        /\ e.cost \in Nat /\ Key(e) \in Keys
        /\ Key(e) = <<Contacts[contact].to, TRUE>>
        /\ Reached(Key(e)) => e.cost < bestCosts[Key(e)]
        /\ bestCosts' = [bestCosts EXCEPT ![Key(e)] = e.cost]
        /\ Settled(k) /\ bestCosts'[k] = bestCosts[k]
    BY <1>0, <1>5, RelaxFacts DEF IInv
  <2>2. /\ UNCHANGED <<map, query, pc, current>> /\ pc = "relax"
        /\ contact' = contact + 1 /\ contact \in Nat
        /\ Key(current)' = Key(current)
    BY <1>5 DEF Relax, Key, IInv, TypeOK
  <2>3. e.cost = current.cost + TransitionCost(map, current.lane, Contacts[contact], Penalty)
    BY DEF Successor
  <2>4. bestCosts \in [Keys -> Nat \cup {Inf}] /\ Inf \notin Nat
    BY SearchAssumption DEF IInv, TypeOK
  <2> HIDE DEF e
  <2>5. bestCosts[k] \in Nat
    BY <1>0, <2>1, ReachedType DEF Settled, IInv
  \* No key is left with a higher cost.
  <2>6. ASSUME NEW j \in Keys, Reached(j)
        PROVE  bestCosts'[j] # Inf /\ bestCosts[j] \in Nat /\ bestCosts'[j] <= bestCosts[j]
    <3>1. bestCosts[j] \in Nat
      BY <2>6, ReachedType DEF IInv
    <3>2. CASE j = Key(e)
      <4>1. bestCosts'[j] = e.cost
        BY <2>1, <2>4, <3>2
      <4>2. e.cost < bestCosts[j] /\ e.cost \in Nat
        BY <2>1, <2>6, <3>2
      <4> QED
        BY <2>4, <3>1, <4>1, <4>2
    <3>3. CASE j # Key(e)
      <4>1. bestCosts'[j] = bestCosts[j]
        BY <2>1, <2>4, <3>3
      <4> QED
        BY <2>4, <3>1, <4>1
    <3> QED
      BY <3>2, <3>3
  <2>7. CASE k = Key(current) /\ i = contact
    <3>1. k[1] = current.lane
      BY <2>7 DEF Key
    <3>2. Contacts[contact] = c
      BY <2>7, <3>1 DEF Contacts
    <3>3. bestCosts[k] = current.cost /\ current.cost \in Nat
      BY <2>2, <2>7 DEF IInv, SettledInv, TypeOK, Entries
    <3>4. bestCosts'[<<c.to, TRUE>>] = e.cost /\ e.cost \in Nat
      BY <2>1, <2>4, <3>2
    <3>5. e.cost = bestCosts[k] + TransitionCost(map, k[1], c, Penalty)
      BY <2>3, <3>1, <3>2, <3>3
    <3>6. bestCosts'[k] = bestCosts[k]
      BY <2>1
    <3>7. /\ bestCosts'[<<c.to, TRUE>>] # Inf
          /\ bestCosts'[<<c.to, TRUE>>] <=
               bestCosts'[k] + TransitionCost(map, k[1], c, Penalty)
      BY <2>4, <3>4, <3>5, <3>6
    <3> QED
      BY <2>2, <3>7 DEF RelaxedAt, Reached
  <2>8. CASE k # Key(current) \/ i # contact
    <3>1. RelaxedAt(k, i) \/ (k = Key(current) /\ i > contact)
      BY <1>0, <2>1, <2>2, <2>8 DEF IInv, RelaxedInv
    <3>2. CASE RelaxedAt(k, i)
      <4>1. SUFFICES ASSUME IsTransition(map, k[1], c) PROVE RelaxedAt(k, i)'
        BY <2>2 DEF RelaxedAt
      <4>2. /\ Reached(<<c.to, TRUE>>)
            /\ bestCosts[<<c.to, TRUE>>] <=
                 bestCosts[k] + TransitionCost(map, k[1], c, Penalty)
        BY <3>2, <4>1 DEF RelaxedAt
      <4>3. bestCosts'[<<c.to, TRUE>>] # Inf
            /\ bestCosts[<<c.to, TRUE>>] \in Nat
            /\ bestCosts'[<<c.to, TRUE>>] <= bestCosts[<<c.to, TRUE>>]
        BY <1>00, <2>6, <4>2
      <4>4. bestCosts'[<<c.to, TRUE>>] \in Nat
        BY <1>00, <2>1, <2>4, <4>3
      <4>5. bestCosts'[k] = bestCosts[k]
        BY <2>1
      <4>6. bestCosts'[<<c.to, TRUE>>] <=
              bestCosts'[k] + TransitionCost(map, k[1], c, Penalty)
        BY <1>00, <2>5, <4>2, <4>3, <4>4, <4>5
      <4> QED
        BY <2>2, <4>3, <4>6 DEF RelaxedAt, Reached
    <3> QED
      BY <2>2, <3>1, <3>2
  <2> QED
    BY <2>7, <2>8
<1> QED
  BY <1>1, <1>2, <1>3, <1>4, <1>5 DEF Next

LEMMA NextGoalInv == IInv /\ [Next]_vars => GoalInv'
<1> SUFFICES ASSUME IInv, [Next]_vars PROVE GoalInv'
  OBVIOUS
<1>1. CASE PopGoal \/ PopExpand
  <2>1. PICK e \in frontier :
           /\ e = current'
           /\ Key(e) = Key(current)'
           /\ pc' = "found" => IsGoal(e)
           /\ pc' = "relax" => ~ IsGoal(e)
           /\ pc = "pop" /\ pc' \in {"found", "relax"}
           /\ UNCHANGED <<map, query, bestCosts>>
           /\ \A k \in Keys : Settled(k)' <=> Settled(k) \/ k = Key(e)
    BY <1>1, PopFacts
  <2>2. IsGoal(e) <=> GoalKey(Key(e))
    BY DEF IsGoal, GoalKey, Key
  <2>3. \A k : GoalKey(k)' <=> GoalKey(k)
    BY <2>1 DEF GoalKey, DirectFinishAllowed
  <2>4. \A k \in Keys : Settled(k)' /\ GoalKey(k)' => pc' = "found" /\ k = Key(current)'
    BY <2>1, <2>2, <2>3 DEF IInv, GoalInv
  <2>5. pc' = "found" => IsGoal(current)'
    BY <2>1 DEF IsGoal, DirectFinishAllowed
  <2> QED
    BY <2>1, <2>4, <2>5, KeysStable DEF GoalInv
<1>2. CASE UNCHANGED vars \/ PopStale \/ Exhausted \/ SkipContact \/ EndExpand
  <2>1. /\ \A k \in Keys : Settled(k)' <=> Settled(k)
        /\ UNCHANGED <<map, query, bestCosts, current>>
        /\ Key(current)' = Key(current)
    BY <1>2, QuietSteps
  <2>2. /\ pc = "found" <=> pc' = "found"
        /\ pc' = "none" => frontier' = {}
    BY <1>2 DEF vars, PopStale, Exhausted, SkipContact, EndExpand, IInv, GoalInv
  <2>3. \A k : GoalKey(k)' <=> GoalKey(k)
    BY <2>1 DEF GoalKey, DirectFinishAllowed
  <2>4. IsGoal(current)' <=> IsGoal(current)
    BY <2>1 DEF IsGoal, DirectFinishAllowed
  <2> QED
    BY <2>1, <2>2, <2>3, <2>4, KeysStable DEF IInv, GoalInv
<1>3. CASE Relax
  <2>1. \A k \in Keys : Settled(k)' => Settled(k)
    BY <1>3, RelaxFacts DEF IInv
  <2>2. UNCHANGED <<map, query, pc, current>> /\ pc = "relax"
    BY <1>3 DEF Relax
  <2>3. \A k : GoalKey(k)' <=> GoalKey(k)
    BY <2>2 DEF GoalKey, DirectFinishAllowed
  <2> QED
    BY <2>1, <2>2, <2>3, KeysStable DEF IInv, GoalInv
<1> QED
  BY <1>1, <1>2, <1>3 DEF Next

LEMMA Inductive == Spec => []IInv
<1>1. Init => IInv
  BY InitIInv
<1>2. IInv /\ [Next]_vars => IInv'
  BY NextTypeOK, NextHeapInv, NextSettledInv, NextRelaxedInv, NextGoalInv DEF IInv
<1> QED
  BY <1>1, <1>2, PTL DEF Spec

-----------------------------------------------------------------------------
(* What the invariant gives.                                               *)

LEMMA SettledStays ==
  ASSUME IInv, [Next]_vars, NEW k \in Keys, Settled(k)
  PROVE  Settled(k)' /\ bestCosts'[k] = bestCosts[k]
<1>1. CASE Relax
  <2> DEFINE e == Successor(Contacts[contact])
  <2>1. /\ Key(e) \in Keys /\ ~ Settled(Key(e))
        /\ bestCosts' = [bestCosts EXCEPT ![Key(e)] = e.cost]
        /\ frontier' = frontier \cup {e}
    BY <1>1, RelaxFacts DEF IInv
  <2> HIDE DEF e
  <2>2. k # Key(e) /\ bestCosts'[k] = bestCosts[k]
    BY <2>1 DEF IInv, TypeOK
  <2> QED
    BY <2>1, <2>2 DEF Settled, Waiting, Reached, Key
<1>2. CASE PopGoal \/ PopExpand
  BY <1>2, PopFacts
<1>3. CASE UNCHANGED vars \/ PopStale \/ Exhausted \/ SkipContact \/ EndExpand
  BY <1>3, QuietSteps
<1> QED
  BY <1>1, <1>2, <1>3 DEF Next

(* No later step finds a cheaper way to a key that was popped.             *)
THEOREM SettledCostsFinal == Spec => SettledCostsAreFinal
<1>1. IInv /\ [Next]_vars =>
        [\A k \in Keys : Settled(k) => bestCosts'[k] = bestCosts[k]]_vars
  BY SettledStays
<1> QED
  BY <1>1, Inductive, PTL DEF Spec, SettledCostsAreFinal

(* "No path" comes with a set of lanes, closed under the legal moves, on    *)
(* none of which the goal can be finished.                                  *)
THEOREM NoPathJustified == Spec => []NoPathIsJustified
<1>1. IInv => NoPathIsJustified
  <2> SUFFICES ASSUME IInv, pc = "none" PROVE NoPathIsJustified
    BY DEF NoPathIsJustified
  <2>1. frontier = {}
    BY DEF IInv, GoalInv
  <2>2. \A k \in Keys : Reached(k) <=> Settled(k)
    BY <2>1 DEF Settled, Waiting
  <2>3. \A k \in Keys : Reached(k) => ~ GoalKey(k)
    BY <2>2 DEF IInv, GoalInv
  <2>4. query.start \in map.lanes /\ query.goal \in map.lanes /\ Inf \notin Nat
    BY SearchAssumption DEF IInv, TypeOK
  <2>5. Reached(<<query.start, FALSE>>)
    BY <2>4 DEF IInv, SettledInv, Reached
  <2>6. <<query.start, FALSE>> \in Keys /\ <<query.goal, TRUE>> \in Keys
    BY <2>4 DEF Keys
  <2>7. ~ Reached(<<query.goal, TRUE>>)
    BY <2>3, <2>6 DEF GoalKey
  <2>8. ~ DirectFinishAllowed
    BY <2>3, <2>5, <2>6 DEF GoalKey, DirectFinishAllowed
  <2>9. ASSUME NEW k \in Keys, Reached(k), NEW i \in 1 .. Len(map.contacts[k[1]]),
               IsTransition(map, k[1], map.contacts[k[1]][i])
        PROVE  Reached(<<map.contacts[k[1]][i].to, TRUE>>)
    <3>1. RelaxedAt(k, i)
      BY <2>2, <2>9 DEF IInv, RelaxedInv
    <3> QED
      BY <2>9, <3>1 DEF RelaxedAt
  <2> QED
    BY <2>5, <2>7, <2>8, <2>9 DEF NoPathIsJustified
<1> QED
  BY <1>1, Inductive, PTL

(* The costs at the return, capped by the cost of the returned path, are a  *)
(* potential under which no path to the goal can be cheaper.                *)
THEOREM CostCertified == Spec => []CostIsCertified
<1>1. IInv => CostIsCertified
  <2> SUFFICES ASSUME IInv, pc = "found" PROVE CostIsCertified
    BY DEF CostIsCertified
  <2> DEFINE C == current.cost
  <2>1. IsGoal(current) /\ C \in Nat /\ Key(current) \in Keys
    BY KeyType DEF IInv, GoalInv, TypeOK, Entries
  <2>2. query.start \in map.lanes /\ Inf \notin Nat
    BY SearchAssumption DEF IInv, TypeOK
  <2>3. <<query.start, FALSE>> \in Keys
    BY <2>2 DEF Keys
  <2>4. \A k \in Keys : Reached(k) => bestCosts[k] \in Nat
    BY ReachedType DEF IInv
  <2>5. \A k \in Keys : Potential(k) \in Nat /\ Potential(k) <= C
    BY <2>1, <2>4 DEF Potential
  <2>6. bestCosts[<<query.start, FALSE>>] = 0
    BY DEF IInv, SettledInv
  <2>7. Potential(<<query.start, FALSE>>) = 0
    BY <2>1, <2>2, <2>6 DEF Potential, Reached
  <2>8. bestCosts[Key(current)] = C
    BY DEF IInv, SettledInv
  <2>9. Potential(<<query.goal, TRUE>>) = C
    <3>1. CASE current.hasLeftStart = TRUE
      <4>1. Key(current) = <<query.goal, TRUE>>
        BY <2>1, <3>1 DEF IsGoal, Key
      <4> QED
        BY <2>1, <2>8, <4>1 DEF Potential
    <3>2. CASE current.hasLeftStart = FALSE
      <4>1. Key(current) = <<query.start, FALSE>>
        BY <2>1, <3>2 DEF IsGoal, Key, DirectFinishAllowed
      <4>2. C = 0
        BY <2>6, <2>8, <4>1
      <4>3. <<query.goal, TRUE>> \in Keys
        BY SearchAssumption DEF IInv, TypeOK, Keys
      <4> QED
        BY <2>5, <4>2, <4>3
    <3> QED
      BY <3>1, <3>2 DEF IInv, TypeOK, Entries
  <2>10. ASSUME NEW k \in Keys, NEW i \in 1 .. Len(map.contacts[k[1]]),
                IsTransition(map, k[1], map.contacts[k[1]][i])
         PROVE  Potential(<<map.contacts[k[1]][i].to, TRUE>>) <=
                  Potential(k) + TransitionCost(map, k[1], map.contacts[k[1]][i], Penalty)
    <3> DEFINE c == map.contacts[k[1]][i]
               w == TransitionCost(map, k[1], c, Penalty)
               to == <<c.to, TRUE>>
    <3>1. to \in Keys /\ w \in Nat
      BY ContactType DEF Keys, IInv, TypeOK
    <3> HIDE DEF w, to
    <3>2. CASE Potential(k) = C
      <4>1. Potential(to) <= C /\ Potential(to) \in Nat
        BY <2>5, <3>1
      <4>2. Potential(to) <= Potential(k) + w
        BY <2>1, <3>1, <3>2, <4>1
      <4> QED
        BY <4>2 DEF to, w
    <3>3. CASE Potential(k) # C
      <4>1. Reached(k) /\ bestCosts[k] < C /\ Potential(k) = bestCosts[k]
        BY <3>3 DEF Potential
      <4>2. Settled(k)
        <5>1. SUFFICES ASSUME NEW e \in frontier, Key(e) = k, e.cost = bestCosts[k]
                       PROVE FALSE
          BY <4>1 DEF Settled, Waiting
        <5>2. C <= e.cost
          BY DEF IInv, HeapInv
        <5> QED
          BY <2>1, <2>4, <4>1, <5>1, <5>2
      <4>3. k # Key(current)
        BY <2>1, <2>8, <4>1
      <4>4. RelaxedAt(k, i)
        BY <4>2, <4>3 DEF IInv, RelaxedInv
      <4>5. Reached(to) /\ bestCosts[to] <= bestCosts[k] + w
        BY <2>10, <4>4 DEF RelaxedAt, to, w
      <4>6. Potential(to) <= bestCosts[to]
        BY <2>1, <2>4, <3>1, <4>5 DEF Potential
      <4>7. bestCosts[to] \in Nat /\ Potential(to) \in Nat /\ bestCosts[k] \in Nat
        BY <2>4, <2>5, <3>1, <4>1, <4>5
      <4>8. Potential(to) <= Potential(k) + w
        BY <3>1, <4>1, <4>5, <4>6, <4>7
      <4> QED
        BY <4>8 DEF to, w
    <3> QED
      BY <3>2, <3>3
  <2> QED
    BY <2>1, <2>7, <2>9, <2>10 DEF CostIsCertified
<1> QED
  BY <1>1, Inductive, PTL

-----------------------------------------------------------------------------
(* Against all paths, of any length.                                       *)

\* A drive from the start to the goal: its lanes, and what it has cost on
\* entering each of them.
IsDrive(d) ==
  /\ Len(d.path) >= 1 /\ Len(d.costs) = Len(d.path)
  /\ d.path[1] = query.start /\ d.costs[1] = 0
  /\ \A n \in 1 .. Len(d.path) - 1 :
       \E i \in 1 .. Len(map.contacts[d.path[n]]) :
          LET c == map.contacts[d.path[n]][i] IN
          /\ c.to = d.path[n + 1]
          /\ IsTransition(map, d.path[n], c)
          /\ d.costs[n + 1] =
               d.costs[n] + TransitionCost(map, d.path[n], c, Penalty)
  /\ d.path[Len(d.path)] = query.goal
  /\ Len(d.path) > 1 \/ DirectFinishAllowed

Drives == { d \in [path : Seq(map.lanes), costs : Seq(Nat)] : IsDrive(d) }

ReturnIsOptimal ==
  /\ pc = "found" => \A d \in Drives : current.cost <= d.costs[Len(d.path)]
  /\ pc = "none" => Drives = {}

LEMMA DriveType ==
  ASSUME NEW d \in Drives, NEW n \in 1 .. Len(d.path)
  PROVE  /\ Len(d.path) \in Nat
         /\ d.path[n] \in map.lanes
         /\ d.costs[n] \in Nat
         /\ PathKey(d, n) \in Keys
<1>1. /\ d.path \in Seq(map.lanes) /\ d.costs \in Seq(Nat)
      /\ Len(d.costs) = Len(d.path)
  BY DEF Drives, IsDrive
<1>2. d.path[n] \in map.lanes /\ d.costs[n] \in Nat
  BY <1>1, ElementOfSeq
<1>3. (n > 1) \in BOOLEAN
  OBVIOUS
<1>4. PathKey(d, n) \in Keys
  BY <1>2, <1>3, Zenon DEF PathKey, Keys
<1>5. Len(d.path) \in Nat
  BY <1>1, LenProperties
<1> QED
  BY <1>2, <1>4, <1>5

LEMMA PathKeys ==
  ASSUME NEW d
  PROVE  /\ PathKey(d, 1) = <<d.path[1], FALSE>>
         /\ \A n \in Nat : n > 1 => PathKey(d, n) = <<d.path[n], TRUE>>
<1>1. (1 > 1) = FALSE
  OBVIOUS
<1>2. ASSUME NEW n \in Nat, n > 1 PROVE (n > 1) = TRUE
  BY <1>2
<1> QED
  BY <1>1, <1>2, Zenon DEF PathKey

(* When the goal is ahead on the start lane the search returns at once.    *)
LEMMA DirectFinishIsFree ==
  ASSUME IInv, pc = "found", DirectFinishAllowed
  PROVE  current.cost = 0
<1> DEFINE s == <<query.start, FALSE>>
<1>1. query.start \in map.lanes /\ Inf \notin Nat /\ s \in Keys
  BY SearchAssumption DEF IInv, TypeOK, Keys
<1>2. bestCosts[s] = 0 /\ current.cost \in Nat
  BY DEF IInv, SettledInv, TypeOK, Entries
<1>3. CASE Settled(s)
  <2>1. GoalKey(s)
    BY DEF GoalKey, DirectFinishAllowed
  <2>2. s = Key(current)
    BY <1>1, <1>3, <2>1 DEF IInv, GoalInv
  <2> QED
    BY <1>2, <2>2 DEF IInv, SettledInv
<1>4. CASE ~ Settled(s)
  <2>1. Reached(s)
    BY <1>1, <1>2 DEF Reached
  <2>2. PICK e \in frontier : e.cost = 0
    BY <1>2, <1>4, <2>1 DEF Settled, Waiting
  <2> QED
    BY <1>2, <2>2 DEF IInv, HeapInv
<1> QED
  BY <1>3, <1>4

(* The returned path costs no more than any legal path from the start to    *)
(* the goal, whatever its length, and no such path exists when none is      *)
(* returned.                                                                *)
THEOREM ReturnsAreOptimal == Spec => []ReturnIsOptimal
<1>1. ASSUME IInv, CostIsCertified, pc = "found", NEW d \in Drives
      PROVE  current.cost <= d.costs[Len(d.path)]
  <2> DEFINE S == { n \in Nat : Potential(PathKey(d, n)) <= d.costs[n] }
             N == Len(d.path)
  <2>1. IsDrive(d) /\ N \in Nat /\ N >= 1
    BY DriveType, LenProperties DEF Drives, IsDrive
  <2>2. \A k \in Keys : Potential(k) \in Nat
    BY <1>1, ReachedType DEF Potential, IInv, TypeOK, Entries
  <2>3. 1 \in S
    <3>1. Potential(<<d.path[1], FALSE>>) = 0 /\ d.costs[1] = 0
      BY <1>1, <2>1 DEF IsDrive, CostIsCertified
    <3>2. PathKey(d, 1) = <<d.path[1], FALSE>>
      BY PathKeys
    <3>3. Potential(PathKey(d, 1)) <= d.costs[1] /\ 1 \in Nat
      <4>1. Potential(PathKey(d, 1)) = 0
        BY <3>1, <3>2, Zenon
      <4> QED
        BY <3>1, <4>1
    <3> QED
      BY <3>3
  <2>4. ASSUME NEW n \in 1 .. N - 1, n \in S PROVE n + 1 \in S
    <3> DEFINE k == PathKey(d, n)
    <3>1. n \in 1 .. N /\ n + 1 \in 1 .. N /\ n + 1 \in Nat
      BY <2>1
    <3>2. k \in Keys /\ d.path[n] \in map.lanes /\ d.costs[n] \in Nat
      BY <3>1, DriveType
    <3>3. PICK i \in 1 .. Len(map.contacts[d.path[n]]) :
            /\ map.contacts[d.path[n]][i].to = d.path[n + 1]
            /\ IsTransition(map, d.path[n], map.contacts[d.path[n]][i])
            /\ d.costs[n + 1] = d.costs[n] +
                 TransitionCost(map, d.path[n], map.contacts[d.path[n]][i], Penalty)
      BY <2>1 DEF IsDrive
    <3> DEFINE w == TransitionCost(map, d.path[n], map.contacts[d.path[n]][i], Penalty)
    <3>4. w \in Nat
      <4>1. map \in Maps
        BY <1>1 DEF IInv, TypeOK
      <4> QED
        BY <3>2, <4>1, ContactType
    <3>5. Potential(<<d.path[n + 1], TRUE>>) <= Potential(k) + w
      <4>1. k[1] = d.path[n]
        BY DEF PathKey
      <4> HIDE DEF k
      <4> QED
        BY <1>1, <3>2, <3>3, <4>1 DEF CostIsCertified
    <3>6. Potential(k) <= d.costs[n]
      BY <2>4
    <3>7. PathKey(d, n + 1) = <<d.path[n + 1], TRUE>> /\ PathKey(d, n + 1) \in Keys
      <4>1. n + 1 > 1
        BY <3>1
      <4> QED
        BY <3>1, <4>1, DriveType, PathKeys
    <3>8. Potential(<<d.path[n + 1], TRUE>>) \in Nat /\ Potential(k) \in Nat
      BY <2>2, <3>2, <3>7
    <3>9. d.costs[n + 1] = d.costs[n] + w
      BY <3>3
    <3> HIDE DEF w, k
    <3>10. Potential(<<d.path[n + 1], TRUE>>) <= d.costs[n + 1]
      BY <3>2, <3>4, <3>5, <3>6, <3>8, <3>9
    <3> QED
      BY <3>1, <3>7, <3>10
  <2>5. \A n \in 1 .. N : n \in S
    <3> HIDE DEF S, N
    <3> QED
      BY <2>1, <2>3, <2>4, UpTo
  <2>6. N \in S /\ N \in 1 .. N
    BY <2>1, <2>5
  <2>7. Potential(PathKey(d, N)) <= d.costs[N]
    BY <2>6
  <2>8. CASE N > 1
    <3>1. PathKey(d, N) = <<query.goal, TRUE>>
      BY <2>1, <2>8, PathKeys DEF IsDrive
    <3> QED
      BY <1>1, <2>7, <3>1 DEF CostIsCertified
  <2>9. CASE ~ (N > 1)
    <3>1. DirectFinishAllowed /\ d.costs[N] \in Nat
      BY <2>1, <2>6, <2>9, DriveType DEF IsDrive
    <3> QED
      BY <1>1, <3>1, DirectFinishIsFree
  <2> QED
    BY <2>8, <2>9
<1>2. ASSUME IInv, NoPathIsJustified, pc = "none", NEW d \in Drives
      PROVE  FALSE
  <2> DEFINE S == { n \in Nat : Reached(PathKey(d, n)) }
             N == Len(d.path)
  <2>1. IsDrive(d) /\ N \in Nat /\ N >= 1
    BY DriveType, LenProperties DEF Drives, IsDrive
  <2>2. N > 1
    BY <1>2, <2>1 DEF IsDrive, NoPathIsJustified
  <2>3. 1 \in S
    <3>1. Reached(<<d.path[1], FALSE>>)
      BY <1>2, <2>1 DEF IsDrive, NoPathIsJustified
    <3>2. PathKey(d, 1) = <<d.path[1], FALSE>> /\ 1 \in Nat
      BY PathKeys
    <3> QED
      BY <3>1, <3>2
  <2>4. ASSUME NEW n \in 1 .. N - 1, n \in S PROVE n + 1 \in S
    <3>1. n \in 1 .. N /\ n + 1 \in Nat /\ n + 1 > 1
      BY <2>1
    <3>2. PathKey(d, n) \in Keys /\ Reached(PathKey(d, n))
      BY <2>4, <3>1, DriveType
    <3>3. PICK i \in 1 .. Len(map.contacts[d.path[n]]) :
            /\ map.contacts[d.path[n]][i].to = d.path[n + 1]
            /\ IsTransition(map, d.path[n], map.contacts[d.path[n]][i])
      BY <2>1 DEF IsDrive
    <3>4. Reached(<<d.path[n + 1], TRUE>>)
      <4> DEFINE k == PathKey(d, n)
      <4>1. k[1] = d.path[n]
        BY DEF PathKey
      <4>2. k \in Keys /\ Reached(k)
        BY <3>2
      <4> HIDE DEF k
      <4> QED
        BY <1>2, <3>3, <4>1, <4>2 DEF NoPathIsJustified
    <3> QED
      BY <3>1, <3>4, PathKeys
  <2>5. \A n \in 1 .. N : n \in S
    <3> HIDE DEF S, N
    <3> QED
      BY <2>1, <2>3, <2>4, UpTo
  <2>6. Reached(PathKey(d, N))
    BY <2>1, <2>5
  <2>7. PathKey(d, N) = <<query.goal, TRUE>>
    BY <2>1, <2>2, PathKeys DEF IsDrive
  <2> QED
    BY <1>2, <2>6, <2>7 DEF NoPathIsJustified
<1>3. IInv /\ CostIsCertified /\ NoPathIsJustified => ReturnIsOptimal
  BY <1>1, <1>2 DEF ReturnIsOptimal
<1> QED
  BY <1>3, Inductive, CostCertified, NoPathJustified, PTL

-----------------------------------------------------------------------------
(* The paths themselves.                                                   *)

LEMMA EntryKeys ==
  ASSUME NEW e \in Entries, NEW i \in 1 .. Len(e.path)
  PROVE  PathKey(e, i) \in Keys /\ e.path[i] \in map.lanes /\ Len(e.path) \in Nat
<1>1. e.path \in Seq(map.lanes)
  BY DEF Entries
<1>2. e.path[i] \in map.lanes /\ Len(e.path) \in Nat
  BY <1>1, ElementOfSeq, LenProperties
<1>3. (i > 1) \in BOOLEAN
  OBVIOUS
<1>4. PathKey(e, i) \in Keys
  BY <1>2, <1>3, Zenon DEF PathKey, Keys
<1> QED
  BY <1>2, <1>4

(* What an entry says of its path stays true: the keys on the way to its   *)
(* last lane are settled, and their costs are final.                       *)
LEMMA DescriptionsStay ==
  ASSUME IInv, [Next]_vars, NEW e \in Entries, DescribesPath(e)
  PROVE  DescribesPath(e)'
<1>1. UNCHANGED <<map, query>>
  BY DEF Next, vars, PopStale, PopGoal, PopExpand, Exhausted, SkipContact, Relax,
         EndExpand
<1>2. Len(e.path) \in Nat /\ Len(e.path) >= 1
  BY LenProperties DEF DescribesPath, Entries
<1>3. ASSUME NEW i \in 1 .. Len(e.path) - 1
      PROVE  Settled(PathKey(e, i))' /\ CostAt(e, i)' = CostAt(e, i)
  <2>1. i \in 1 .. Len(e.path) /\ i # Len(e.path)
    BY <1>2
  <2>2. PathKey(e, i) \in Keys /\ Settled(PathKey(e, i))
    BY <2>1, EntryKeys DEF DescribesPath
  <2>3. Settled(PathKey(e, i))' /\ bestCosts'[PathKey(e, i)] = bestCosts[PathKey(e, i)]
    <3> DEFINE k == PathKey(e, i)
    <3>1. k \in Keys /\ Settled(k)
      BY <2>2
    <3> HIDE DEF k
    <3>2. Settled(k)' /\ bestCosts'[k] = bestCosts[k]
      BY <3>1, SettledStays
    <3>3. Settled(PathKey(e, i))' <=> Settled(k)'
      BY DEF k, PathKey, Settled, Waiting, Reached, Key
    <3> QED
      BY <3>2, <3>3 DEF k
  <2> QED
    BY <2>1, <2>3 DEF CostAt, PathKey
<1>4. CostAt(e, Len(e.path))' = CostAt(e, Len(e.path))
  BY DEF CostAt
<1>5. \A i \in 1 .. Len(e.path) : CostAt(e, i)' = CostAt(e, i)
  BY <1>2, <1>3, <1>4
<1>6. CostAt(e, 1)' = 0
  BY <1>2, <1>5 DEF DescribesPath
<1>7. ASSUME NEW i \in 1 .. Len(e.path) - 1
      PROVE  \E j \in 1 .. Len(map.contacts[e.path[i]]) :
               LET c == map.contacts[e.path[i]][j] IN
               /\ c.to = e.path[i + 1]
               /\ IsTransition(map, e.path[i], c)
               /\ TransitionType(map, e.path[i], c) = e.types[i]
               /\ Settled(PathKey(e, i))'
               /\ CostAt(e, i + 1)' =
                    CostAt(e, i)' + TransitionCost(map, e.path[i], c, Penalty)
  <2>1. i \in 1 .. Len(e.path) /\ i + 1 \in 1 .. Len(e.path)
    BY <1>2
  <2>2. CostAt(e, i + 1)' = CostAt(e, i + 1) /\ CostAt(e, i)' = CostAt(e, i)
    BY <1>5, <2>1
  <2> QED
    BY <1>3, <2>2 DEF DescribesPath
<1> QED
  BY <1>1, <1>6, <1>7 DEF DescribesPath

(* A relaxation appends one legal move to the path of the popped entry.    *)
LEMMA RelaxDescribes ==
  ASSUME IInv, DescribesPath(current), Relax
  PROVE  DescribesPath(Successor(Contacts[contact]))
<1> DEFINE c == Contacts[contact]
           e == Successor(c)
           n == Len(current.path)
<1>1. /\ contact \in 1 .. Len(Contacts) /\ e \in Entries
      /\ IsTransition(map, current.lane, c)
  BY RelaxFacts DEF IInv, Relax
<1>2. /\ current \in Entries
      /\ current.path \in Seq(map.lanes)
      /\ current.types \in Seq({"forward", "lane_change"})
      /\ c.to \in map.lanes
      /\ TransitionType(map, current.lane, c) \in {"forward", "lane_change"}
  <2>1. current \in Entries /\ map \in Maps
    BY DEF IInv, TypeOK
  <2>2. current.lane \in map.lanes /\ contact \in 1 .. Len(map.contacts[current.lane])
    BY <1>1, <2>1 DEF Entries, Contacts
  <2> QED
    BY <2>1, <2>2, ContactType DEF Entries, Contacts
<1>3. /\ n \in Nat /\ n >= 1 /\ Len(current.types) = n - 1
      /\ current.path[1] = query.start /\ current.path[n] = current.lane
      /\ current.hasLeftStart = (n > 1)
  BY <1>2, LenProperties DEF DescribesPath
<1>4. /\ e.path = Append(current.path, c.to)
      /\ e.types = Append(current.types, TransitionType(map, current.lane, c))
      /\ e.lane = c.to /\ e.hasLeftStart = TRUE
      /\ e.cost = current.cost + TransitionCost(map, current.lane, c, Penalty)
  BY DEF Successor
<1> HIDE DEF e, c
<1>5. /\ Len(e.path) = n + 1
      /\ \A i \in 1 .. n : e.path[i] = current.path[i]
      /\ e.path[n + 1] = c.to
  BY <1>2, <1>4, AppendProperties
<1>6. /\ Len(e.types) = n
      /\ \A i \in 1 .. n - 1 : e.types[i] = current.types[i]
      /\ e.types[n] = TransitionType(map, current.lane, c)
  BY <1>2, <1>3, <1>4, AppendProperties
<1>7. PathKey(current, n) = Key(current)
  BY <1>3, Zenon DEF PathKey, Key
<1>8. Settled(Key(current)) /\ bestCosts[Key(current)] = current.cost
  BY DEF IInv, SettledInv, Relax
<1>9. ASSUME NEW i \in 1 .. n
      PROVE  /\ PathKey(e, i) = PathKey(current, i)
             /\ Settled(PathKey(e, i))
             /\ CostAt(e, i) = CostAt(current, i)
  <2>1. PathKey(e, i) = PathKey(current, i)
    BY <1>5 DEF PathKey
  <2>2. i # Len(e.path)
    BY <1>3, <1>5
  <2>3. CASE i = n
    BY <1>7, <1>8, <2>1, <2>2, <2>3 DEF CostAt
  <2>4. CASE i # n
    <3>1. i \in 1 .. n - 1
      BY <1>3, <2>4
    <3>2. Settled(PathKey(current, i))
      BY <3>1 DEF DescribesPath
    <3> QED
      BY <2>1, <2>2, <2>4, <3>2 DEF CostAt
  <2> QED
    BY <2>3, <2>4
<1>10. CostAt(e, 1) = 0 /\ e.path[1] = query.start
  BY <1>3, <1>5, <1>9 DEF DescribesPath
<1>11. ASSUME NEW i \in 1 .. n
       PROVE  \E j \in 1 .. Len(map.contacts[e.path[i]]) :
                LET k == map.contacts[e.path[i]][j] IN
                /\ k.to = e.path[i + 1]
                /\ IsTransition(map, e.path[i], k)
                /\ TransitionType(map, e.path[i], k) = e.types[i]
                /\ Settled(PathKey(e, i))
                /\ CostAt(e, i + 1) =
                     CostAt(e, i) + TransitionCost(map, e.path[i], k, Penalty)
  <2>1. CASE i = n
    <3>1. e.path[i] = current.lane /\ e.path[i + 1] = c.to
      BY <1>3, <1>5, <2>1
    <3>2. CostAt(e, i) = current.cost /\ CostAt(e, i + 1) = e.cost
      BY <1>3, <1>5, <1>9, <2>1 DEF CostAt
    <3>3. map.contacts[e.path[i]][contact] = c
          /\ contact \in 1 .. Len(map.contacts[e.path[i]])
      BY <1>1, <3>1 DEF Contacts, c
    <3> QED
      BY <1>1, <1>4, <1>6, <1>9, <2>1, <3>1, <3>2, <3>3 DEF c
  <2>2. CASE i # n
    <3>1. i \in 1 .. n - 1 /\ i + 1 \in 1 .. n
      BY <1>3, <2>2
    <3>2. /\ e.path[i] = current.path[i] /\ e.path[i + 1] = current.path[i + 1]
          /\ e.types[i] = current.types[i]
          /\ CostAt(e, i) = CostAt(current, i)
          /\ CostAt(e, i + 1) = CostAt(current, i + 1)
          /\ Settled(PathKey(e, i))
      BY <1>5, <1>6, <1>9, <3>1
    <3> QED
      BY <3>1, <3>2 DEF DescribesPath
  <2> QED
    BY <2>1, <2>2
<1>12. DescribesPath(e)
  <2>1. (Len(e.path) > 1) = TRUE
    BY <1>3, <1>5
  <2>2. e.hasLeftStart = (Len(e.path) > 1)
    BY <1>4, <2>1, Zenon
  <2>3. /\ Len(e.path) >= 1 /\ Len(e.types) = Len(e.path) - 1
        /\ e.path[Len(e.path)] = e.lane
    BY <1>3, <1>4, <1>5, <1>6
  <2>4. 1 .. Len(e.path) - 1 = 1 .. n
    BY <1>3, <1>5
  <2> QED
    BY <1>10, <1>11, <2>2, <2>3, <2>4, Zenon DEF DescribesPath
<1> QED
  BY <1>12 DEF e, c

(* Every path the search holds or returns is made of legal moves from the   *)
(* start lane, and costs what its entry says.                               *)
THEOREM PathsLegal == Spec => []PathsAreLegal
<1>1. Init => PathsAreLegal
  <2> SUFFICES ASSUME Init PROVE PathsAreLegal
    OBVIOUS
  <2>1. /\ frontier = {current}
        /\ current.path = <<query.start>> /\ current.types = << >>
        /\ current.lane = query.start /\ current.cost = 0
        /\ current.hasLeftStart = FALSE
    BY DEF Init, StartEntry
  <2>2. Len(current.path) = 1 /\ current.path[1] = query.start /\ Len(current.types) = 0
    BY <2>1
  <2>3. DescribesPath(current)
    <3>1. (Len(current.path) > 1) = FALSE
      BY <2>2
    <3>2. current.hasLeftStart = (Len(current.path) > 1)
      BY <2>1, <3>1, Zenon
    <3>3. /\ Len(current.path) >= 1 /\ Len(current.types) = Len(current.path) - 1
          /\ 1 .. Len(current.path) - 1 = {}
      BY <2>2
    <3>4. current.path[Len(current.path)] = current.lane /\ CostAt(current, 1) = 0
      BY <2>1, <2>2 DEF CostAt
    <3> QED
      BY <2>2, <3>2, <3>3, <3>4, Zenon DEF DescribesPath
  <2> QED
    BY <2>1, <2>3 DEF PathsAreLegal
<1>2. IInv /\ PathsAreLegal /\ [Next]_vars => PathsAreLegal'
  <2> SUFFICES ASSUME IInv, PathsAreLegal, [Next]_vars, NEW e \in (frontier \cup {current})'
               PROVE  DescribesPath(e)'
    BY DEF PathsAreLegal
  <2>1. CASE e \in frontier \cup {current}
    <3>1. e \in Entries
      BY <2>1 DEF IInv, TypeOK
    <3> QED
      BY <2>1, <3>1, DescriptionsStay DEF PathsAreLegal
  <2>2. CASE e \notin frontier \cup {current}
    <3>1. Relax /\ e = Successor(Contacts[contact])
      BY <2>2 DEF Next, vars, PopStale, PopGoal, PopExpand, Exhausted, SkipContact,
                  Relax, EndExpand
    <3>2. e \in Entries /\ DescribesPath(e)
      BY <3>1, RelaxFacts, RelaxDescribes DEF IInv, PathsAreLegal
    <3> QED
      BY <3>2, DescriptionsStay
  <2> QED
    BY <2>1, <2>2
<1> QED
  BY <1>1, <1>2, Inductive, PTL DEF Spec

-----------------------------------------------------------------------------
(* The search answers as LanePath does.  The reference builds the legal    *)
(* paths without entering a lane twice, so the search must not do it       *)
(* either, and there must not be a cheaper path that does.                 *)

(* Induction along 0 .. n.                                                  *)
LEMMA UpFromZero ==
  ASSUME NEW n \in Nat, NEW S,
         0 \in S,
         \A k \in 0 .. n - 1 : k \in S => k + 1 \in S
  PROVE  0 .. n \subseteq S
<1> DEFINE T == { m \in Nat : m - 1 \in S }
<1>1. 1 \in T
  OBVIOUS
<1>2. ASSUME NEW m \in 1 .. (n + 1) - 1, m \in T PROVE m + 1 \in T
  <2>1. m - 1 \in 0 .. n - 1 /\ m - 1 \in S /\ (m - 1) + 1 = (m + 1) - 1 /\ m + 1 \in Nat
    BY <1>2
  <2>2. (m - 1) + 1 \in S
    BY <2>1
  <2> QED
    BY <2>1, <2>2
<1>3. \A m \in 1 .. n + 1 : m \in T
  <2>1. n + 1 \in Nat
    OBVIOUS
  <2> HIDE DEF T
  <2> QED
    BY <1>1, <1>2, <2>1, UpTo
<1>4. ASSUME NEW k \in 0 .. n PROVE k \in S
  <2>1. k + 1 \in 1 .. n + 1 /\ (k + 1) - 1 = k
    OBVIOUS
  <2>2. k + 1 \in T
    BY <1>3, <2>1
  <2> QED
    BY <2>1, <2>2
<1> QED
  BY <1>4

\* The recursive function of PathsOfLength, up to n moves.
PathsTo(m, s, n) ==
  CHOOSE Q : Q = [i \in 0 .. n |-> IF i = 0 THEN { [path |-> <<s>>, types |-> << >>, cost |-> 0] }
                                   ELSE LP!Extended(m, Q[i-1])]

LEMMA SameCardinality == \A S : LP!Cardinality(S) = Cardinality(S)
BY Zenon DEF LP!Cardinality, Cardinality

LEMMA PathsFromStart ==
  ASSUME NEW m, NEW s
  PROVE  LP!PathsOfLength(m, s) = PathsTo(m, s, Cardinality(m.lanes))
BY SameCardinality DEF LP!PathsOfLength, PathsTo

\* It exists, for every map and every lane to start on.
LEMMA PathsAreDefined ==
  ASSUME NEW m, NEW s, NEW n \in Nat
  PROVE  /\ PathsTo(m, s, n)[0] = { [path |-> <<s>>, types |-> << >>, cost |-> 0] }
         /\ \A k \in 1 .. n : PathsTo(m, s, n)[k] = LP!Extended(m, PathsTo(m, s, n)[k-1])
<1> DEFINE Start0 == { [path |-> <<s>>, types |-> << >>, cost |-> 0] }
           Paths(P, k) == P = [i \in 0 .. k |-> IF i = 0 THEN Start0 ELSE LP!Extended(m, P[i-1])]
           Defined == { k \in 0 .. n : \E P : Paths(P, k) }
<1>1. 0 \in Defined
  <2> DEFINE none == [i \in 0 .. 0 |-> Start0]
  <2>1. none = [i \in 0 .. 0 |-> none[i]] /\ none[0] = Start0
    OBVIOUS
  <2> HIDE DEF none, Start0
  <2>2. \A i \in 0 .. 0 : none[i] = IF i = 0 THEN Start0 ELSE LP!Extended(m, none[i-1])
    BY <2>1
  <2>3. Paths(none, 0)
    BY <2>1, <2>2, Zenon
  <2> QED
    BY <2>3
<1>2. ASSUME NEW k \in 0 .. n - 1, k \in Defined PROVE k + 1 \in Defined
  <2> HIDE DEF Start0
  <2>1. PICK R : Paths(R, k)
    BY <1>2
  <2> DEFINE longer == [i \in 0 .. k + 1 |-> IF i = k + 1 THEN LP!Extended(m, R[k]) ELSE R[i]]
  <2>2. ASSUME NEW i \in 0 .. k + 1
        PROVE  longer[i] = IF i = 0 THEN Start0 ELSE LP!Extended(m, longer[i-1])
    <3>1. CASE i = 0
      BY <2>1, <3>1
    <3>2. CASE i \in 1 .. k
      <4>1. longer[i] = R[i] /\ longer[i-1] = R[i-1]
        BY <3>2
      <4>2. R[i] = LP!Extended(m, R[i-1])
        BY <2>1, <3>2
      <4> QED
        BY <3>2, <4>1, <4>2
    <3>3. CASE i = k + 1
      <4>1. longer[i] = LP!Extended(m, R[k]) /\ longer[i-1] = R[k] /\ i # 0
        BY <3>3
      <4> QED
        BY <4>1
    <3> QED
      BY <3>1, <3>2, <3>3
  <2>3. longer = [i \in 0 .. k + 1 |-> longer[i]]
    OBVIOUS
  <2> HIDE DEF longer
  <2>4. Paths(longer, k + 1)
    BY <2>2, <2>3, Zenon
  <2>5. k + 1 \in 0 .. n
    OBVIOUS
  <2> QED
    BY <2>4, <2>5
<1>3. n \in Defined
  <2> HIDE DEF Defined
  <2> QED
    BY <1>1, <1>2, UpFromZero
<1>4. PICK R : Paths(R, n)
  BY <1>3
<1>5. PathsTo(m, s, n) = CHOOSE P : Paths(P, n)
  BY Zenon DEF PathsTo
<1>6. Paths(PathsTo(m, s, n), n)
  <2> HIDE DEF Paths
  <2> QED
    BY <1>4, <1>5
<1> DEFINE Q == PathsTo(m, s, n)
<1>7. Q = [i \in 0 .. n |-> IF i = 0 THEN Start0 ELSE LP!Extended(m, Q[i-1])]
  BY <1>6
<1> HIDE DEF Q, Start0
<1>8. \A k \in 0 .. n : Q[k] = IF k = 0 THEN Start0 ELSE LP!Extended(m, Q[k-1])
  BY <1>7
<1>9. Q[0] = Start0 /\ \A k \in 1 .. n : Q[k] = LP!Extended(m, Q[k-1])
  BY <1>8
<1> USE DEF Start0
<1> QED
  BY <1>9 DEF Q

(* No lane of a path but the first is entered twice.                        *)
NoLaneTwice(e) == \A i, k \in 2 .. Len(e.path) : i < k => e.path[i] # e.path[k]

(* Along a path the costs only grow.                                        *)
LEMMA CostsGrow ==
  ASSUME IInv, NEW e \in Entries, DescribesPath(e), NEW i \in 1 .. Len(e.path)
  PROVE  CostAt(e, i) \in Nat /\ CostAt(e, i) <= e.cost
<1> DEFINE N == Len(e.path)
           S == { n \in Nat : CostAt(e, N + 1 - n) \in Nat /\ CostAt(e, N + 1 - n) <= e.cost }
<1>1. N \in Nat /\ N >= 1 /\ e.cost \in Nat /\ map \in Maps
  BY LenProperties DEF DescribesPath, Entries, IInv, TypeOK
<1>2. 1 \in S
  <2>1. CostAt(e, N) = e.cost /\ N + 1 - 1 = N
    BY <1>1 DEF CostAt
  <2> QED
    BY <1>1, <2>1
<1>3. ASSUME NEW n \in 1 .. N - 1, n \in S PROVE n + 1 \in S
  <2> DEFINE j == N - n
  <2>1. j \in 1 .. N - 1 /\ j \in 1 .. N /\ N + 1 - n = j + 1 /\ N + 1 - (n + 1) = j
    <3> HIDE DEF N
    <3> QED
      BY <1>1
  <2> HIDE DEF j
  <2>2. PICK k \in 1 .. Len(map.contacts[e.path[j]]) :
          CostAt(e, j + 1) = CostAt(e, j) +
            TransitionCost(map, e.path[j], map.contacts[e.path[j]][k], Penalty)
    BY <2>1 DEF DescribesPath
  <2>3. PathKey(e, j) \in Keys /\ e.path[j] \in map.lanes
    BY <2>1, EntryKeys
  <2>4. Settled(PathKey(e, j))
    BY <2>1 DEF DescribesPath
  <2>5. CostAt(e, j) \in Nat
    <3> DEFINE key == PathKey(e, j)
    <3>1. key \in Keys /\ Reached(key)
      BY <2>3, <2>4 DEF Settled
    <3>2. CostAt(e, j) = bestCosts[key]
      BY <1>1, <2>1 DEF CostAt
    <3> HIDE DEF key
    <3> QED
      BY <3>1, <3>2, ReachedType DEF IInv
  <2>6. TransitionCost(map, e.path[j], map.contacts[e.path[j]][k], Penalty) \in Nat
    BY <1>1, <2>3, ContactType
  <2>7. CostAt(e, j + 1) \in Nat /\ CostAt(e, j + 1) <= e.cost
    <3>1. CostAt(e, N + 1 - n) \in Nat /\ CostAt(e, N + 1 - n) <= e.cost
      BY <1>3
    <3> QED
      BY <2>1, <3>1
  <2>8. CostAt(e, j) <= e.cost
    BY <1>1, <2>2, <2>5, <2>6, <2>7
  <2>9. n + 1 \in Nat
    OBVIOUS
  <2> QED
    BY <2>1, <2>5, <2>8, <2>9
<1>4. \A n \in 1 .. N : n \in S
  <2> HIDE DEF S, N
  <2> QED
    BY <1>1, <1>2, <1>3, UpTo
<1>5. N + 1 - i \in 1 .. N /\ N + 1 - (N + 1 - i) = i
  BY <1>1
<1>6. N + 1 - i \in S
  BY <1>4, <1>5
<1> QED
  BY <1>5, <1>6

(* A lane the path has entered is settled, at a cost that going round to it *)
(* again does not beat.                                                     *)
LEMMA RelaxEntersNew ==
  ASSUME IInv, DescribesPath(current), NoLaneTwice(current), Relax
  PROVE  NoLaneTwice(Successor(Contacts[contact]))
<1> DEFINE c == Contacts[contact]
           e == Successor(c)
           n == Len(current.path)
<1>1. /\ current \in Entries /\ map \in Maps
      /\ current.path \in Seq(map.lanes) /\ n \in Nat /\ n >= 1
      /\ current.path[n] = current.lane /\ current.hasLeftStart = (n > 1)
  BY LenProperties DEF IInv, TypeOK, Entries, DescribesPath
<1>2. /\ contact \in 1 .. Len(map.contacts[current.lane])
      /\ c = map.contacts[current.lane][contact]
      /\ Improves(Key(e), e.cost)
  BY RelaxFacts DEF IInv, Relax, Contacts
<1>3. /\ c.to \in map.lanes
      /\ TransitionCost(map, current.lane, c, Penalty) \in Nat
  BY <1>1, <1>2, ContactType DEF Entries
<1>4. /\ e.path = Append(current.path, c.to) /\ Key(e) = <<c.to, TRUE>>
      /\ e.cost = current.cost + TransitionCost(map, current.lane, c, Penalty)
  BY DEF Successor, Key
<1> HIDE DEF e, c
<1>5. /\ Len(e.path) = n + 1
      /\ \A i \in 1 .. n : e.path[i] = current.path[i]
      /\ e.path[n + 1] = c.to
  BY <1>1, <1>3, <1>4, AppendProperties
<1>6. ASSUME NEW i \in 2 .. n PROVE current.path[i] # c.to
  <2> SUFFICES ASSUME current.path[i] = c.to PROVE FALSE
    OBVIOUS
  <2>1. i \in 1 .. n
    OBVIOUS
  <2>2. PathKey(current, i) = <<c.to, TRUE>>
    <3>1. i \in Nat /\ i > 1
      OBVIOUS
    <3>2. PathKey(current, i) = <<current.path[i], TRUE>>
      BY <3>1, PathKeys
    <3> QED
      BY <3>2
  <2>3. Settled(PathKey(current, i)) /\ bestCosts[PathKey(current, i)] = CostAt(current, i)
    <3>1. CASE i = n
      <4>1. (n > 1) = TRUE
        BY <1>1, <3>1
      <4>2. PathKey(current, i) = Key(current)
        BY <1>1, <3>1, <4>1 DEF PathKey, Key
      <4>3. Settled(Key(current)) /\ bestCosts[Key(current)] = current.cost
        BY DEF IInv, SettledInv, Relax
      <4> QED
        BY <3>1, <4>2, <4>3 DEF CostAt
    <3>2. CASE i # n
      <4>1. i \in 1 .. n - 1
        BY <1>1, <3>2
      <4> QED
        BY <3>2, <4>1 DEF DescribesPath, CostAt
    <3> QED
      BY <3>1, <3>2
  <2>4. CostAt(current, i) \in Nat /\ CostAt(current, i) <= current.cost
    BY <1>1, <2>1, CostsGrow
  <2>5. Reached(<<c.to, TRUE>>) /\ bestCosts[<<c.to, TRUE>>] <= current.cost
    <3> DEFINE k == <<c.to, TRUE>>
    <3>1. Settled(k) /\ bestCosts[k] = CostAt(current, i)
      BY <2>2, <2>3
    <3> HIDE DEF k
    <3>2. Reached(k) /\ bestCosts[k] <= current.cost
      BY <2>4, <3>1 DEF Settled
    <3> QED
      BY <3>2 DEF k
  <2>6. e.cost < bestCosts[<<c.to, TRUE>>]
    BY <1>2, <1>4, <2>5 DEF Improves
  <2>7. bestCosts[<<c.to, TRUE>>] \in Nat /\ current.cost \in Nat
    BY <1>1, <2>2, <2>3, <2>4 DEF Entries
  <2> QED
    BY <1>3, <1>4, <2>5, <2>6, <2>7
<1>7. NoLaneTwice(e)
  <2> SUFFICES ASSUME NEW i \in 2 .. Len(e.path), NEW k \in 2 .. Len(e.path), i < k
               PROVE  e.path[i] # e.path[k]
    BY DEF NoLaneTwice
  <2>1. i \in 2 .. n /\ i \in 1 .. n
    BY <1>1, <1>5
  <2>2. CASE k = n + 1
    BY <1>5, <1>6, <2>1, <2>2
  <2>3. CASE k # n + 1
    <3>1. k \in 2 .. n /\ k \in 1 .. n
      BY <1>1, <1>5, <2>3
    <3> QED
      BY <1>5, <2>1, <3>1 DEF NoLaneTwice
  <2> QED
    BY <2>2, <2>3
<1> QED
  BY <1>7 DEF e, c

PathsEnterNew == \A e \in frontier \cup {current} : NoLaneTwice(e)

LEMMA NothingEnteredTwice == Spec => []PathsEnterNew
<1>1. Init => PathsEnterNew
  <2> SUFFICES ASSUME Init, NEW e \in frontier \cup {current} PROVE NoLaneTwice(e)
    BY DEF PathsEnterNew
  <2>1. Len(e.path) = 1
    BY DEF Init, StartEntry
  <2> QED
    BY <2>1 DEF NoLaneTwice
<1>2. IInv /\ PathsAreLegal /\ PathsEnterNew /\ [Next]_vars => PathsEnterNew'
  <2> SUFFICES ASSUME IInv, PathsAreLegal, PathsEnterNew, [Next]_vars,
                      NEW e \in (frontier \cup {current})'
               PROVE  NoLaneTwice(e)
    BY DEF PathsEnterNew, NoLaneTwice
  <2>1. CASE e \in frontier \cup {current}
    BY <2>1 DEF PathsEnterNew
  <2>2. CASE e \notin frontier \cup {current}
    <3>1. Relax /\ e = Successor(Contacts[contact])
      BY <2>2 DEF Next, vars, PopStale, PopGoal, PopExpand, Exhausted, SkipContact,
                  Relax, EndExpand
    <3> QED
      BY <3>1, RelaxEntersNew DEF PathsAreLegal, PathsEnterNew
  <2> QED
    BY <2>1, <2>2
<1> QED
  BY <1>1, <1>2, Inductive, PathsLegal, PTL DEF Spec

LEMMA PrefixFacts ==
  ASSUME NEW S, NEW s \in Seq(S), NEW k \in 0 .. Len(s)
  PROVE  /\ SubSeq(s, 1, k) \in Seq(S)
         /\ Len(SubSeq(s, 1, k)) = k
         /\ \A i \in 1 .. k : SubSeq(s, 1, k)[i] = s[i]
         /\ k < Len(s) => SubSeq(s, 1, k + 1) = Append(SubSeq(s, 1, k), s[k + 1])
         /\ SubSeq(s, 1, Len(s)) = s
         /\ SubSeq(s, 1, 0) = << >>
         /\ Len(s) >= 1 => SubSeq(s, 1, 1) = <<s[1]>>
<1>1. ASSUME NEW n \in 0 .. Len(s)
      PROVE  /\ SubSeq(s, 1, n) \in Seq(S)
             /\ Len(SubSeq(s, 1, n)) = n
             /\ \A i \in 1 .. n : SubSeq(s, 1, n)[i] = s[i]
             /\ n < Len(s) => SubSeq(s, 1, n + 1) = Append(SubSeq(s, 1, n), s[n + 1])
             /\ SubSeq(s, 1, Len(s)) = s
             /\ SubSeq(s, 1, 0) = << >>
  OBVIOUS
<1>2. ASSUME Len(s) >= 1 PROVE SubSeq(s, 1, 1) = <<s[1]>>
  <2>1. 0 \in 0 .. Len(s) /\ 0 < Len(s) /\ 0 + 1 = 1
    BY <1>2
  <2>2. SubSeq(s, 1, 1) = Append(<< >>, s[1])
    BY <1>1, <2>1
  <2>3. \A a : Append(<< >>, a) = <<a>>
    OBVIOUS
  <2> QED
    BY <2>2, <2>3
<1> QED
  BY <1>1, <1>2

(* LanePath asks the map the same questions.                                *)
LEMMA LanePathAsksTheSame ==
  /\ \A m, l, t :
       t \in LP!Steps(m, l) <=>
         \E i \in 1 .. Len(m.contacts[l]) :
           LET c == m.contacts[l][i] IN
           /\ IsTransition(m, l, c)
           /\ t = <<c.to, TransitionType(m, l, c), TransitionCost(m, l, c, Penalty)>>
  /\ LP!DirectFinishAllowed(map, query) <=> DirectFinishAllowed
<1>1. /\ \A m, l, c : LP!IsTransition(m, l, c) = IsTransition(m, l, c)
      /\ \A m, l, c : LP!TransitionType(m, l, c) = TransitionType(m, l, c)
      /\ \A m, l, c, w : LP!TransitionCost(m, l, c, w) = TransitionCost(m, l, c, w)
      /\ \A m, l, a, b : LP!OffsetsMoveForward(m, l, a, b) = OffsetsMoveForward(m, l, a, b)
  BY DEF LP!IsTransition, IsTransition, LP!TransitionType, TransitionType,
         LP!TransitionCost, TransitionCost, LP!IsForward, IsForward, LP!IsLaneChange,
         IsLaneChange, LP!Routeable, Routeable, LP!ForwardContactLocation,
         ForwardContactLocation, LP!LaneIsPositive, LaneIsPositive,
         LP!LaneIsIntersection, LaneIsIntersection, LP!LanesHaveSameDirection,
         LanesHaveSameDirection, LP!OffsetsMoveForward, OffsetsMoveForward
<1>2. LP!DirectFinishAllowed(map, query) <=> DirectFinishAllowed
  BY <1>1 DEF LP!DirectFinishAllowed, DirectFinishAllowed
<1>3. ASSUME NEW m, NEW l, NEW t
      PROVE  t \in LP!Steps(m, l) <=>
               \E i \in 1 .. Len(m.contacts[l]) :
                 LET c == m.contacts[l][i] IN
                 /\ IsTransition(m, l, c)
                 /\ t = <<c.to, TransitionType(m, l, c), TransitionCost(m, l, c, Penalty)>>
  BY <1>1 DEF LP!Steps
<1> QED
  BY <1>2, <1>3

(* A path without a lane that is entered twice has at most as many moves as *)
(* the map has lanes.                                                       *)
LEMMA MovesAreFew ==
  ASSUME IInv, NEW e \in Entries, NoLaneTwice(e), Len(e.path) >= 1
  PROVE  Len(e.path) - 1 \in 0 .. Cardinality(map.lanes)
<1> DEFINE N == Len(e.path)
           f == [i \in 2 .. N |-> e.path[i]]
           lanes == map.lanes
<1>1. N \in Nat /\ N >= 1 /\ e.path \in Seq(lanes) /\ IsFiniteSet(lanes)
  BY LenProperties, SearchAssumption DEF Entries, IInv, TypeOK
<1> HIDE DEF N, lanes
<1>2. f \in Injection(2 .. N, lanes)
  <2>1. \A i \in 2 .. N : i \in 1 .. N
    BY <1>1
  <2>2. f \in [2 .. N -> lanes]
    BY <1>1, <2>1, ElementOfSeq DEF N
  <2>3. ASSUME NEW i \in 2 .. N, NEW k \in 2 .. N, f[i] = f[k] PROVE i = k
    BY <2>3 DEF NoLaneTwice, N
  <2> HIDE DEF f
  <2> QED
    BY <2>2, <2>3 DEF Injection, IsInjective
<1>3. Cardinality(2 .. N) <= Cardinality(lanes) /\ IsFiniteSet(2 .. N)
  <2> HIDE DEF f
  <2> QED
    BY <1>1, <1>2, FS_Injection
<1>4. Cardinality(2 .. N) = N - 1
  BY <1>1, FS_Interval
<1>5. Cardinality(lanes) \in Nat
  BY <1>1, FS_CardinalityType
<1> QED
  BY <1>1, <1>3, <1>4, <1>5 DEF N, lanes

(* What the search has found LanePath has among its legal paths.            *)
LEMMA FoundIsLegal ==
  ASSUME IInv, NEW e \in Entries, DescribesPath(e), NoLaneTwice(e)
  PROVE  LET n == Len(e.path) - 1 IN
         /\ n \in 0 .. Cardinality(map.lanes)
         /\ [path |-> e.path, types |-> e.types, cost |-> e.cost] \in
               LP!PathsOfLength(map, query.start)[n]
<1> DEFINE n == Len(e.path) - 1
           M == Cardinality(map.lanes)
           Q == PathsTo(map, query.start, M)
           Prefix(k) == [path |-> SubSeq(e.path, 1, k + 1), types |-> SubSeq(e.types, 1, k),
                         cost |-> CostAt(e, k + 1)]
           S == { k \in 0 .. n : Prefix(k) \in Q[k] }
<1>1. /\ e.path \in Seq(map.lanes) /\ e.types \in Seq({"forward", "lane_change"})
      /\ Len(e.path) = n + 1 /\ Len(e.types) = n /\ n \in Nat
  BY LenProperties DEF Entries, DescribesPath
<1>2. n \in 0 .. M /\ M \in Nat
  <2>1. IsFiniteSet(map.lanes)
    BY SearchAssumption DEF IInv, TypeOK
  <2>2. Len(e.path) >= 1
    BY DEF DescribesPath
  <2>3. Len(e.path) - 1 \in 0 .. Cardinality(map.lanes)
    BY <2>2, MovesAreFew
  <2>4. Cardinality(map.lanes) \in Nat
    BY <2>1, FS_CardinalityType
  <2> QED
    BY <2>3, <2>4
<1>3. LP!PathsOfLength(map, query.start) = Q
  BY PathsFromStart
<1> HIDE DEF M, n
<1>4. /\ Q[0] = { [path |-> <<query.start>>, types |-> << >>, cost |-> 0] }
      /\ \A k \in 1 .. M : Q[k] = LP!Extended(map, Q[k-1])
  BY <1>2, PathsAreDefined
<1> HIDE DEF Q
<1>5. 0 \in S
  <2>1. SubSeq(e.path, 1, 0) = << >> /\ SubSeq(e.types, 1, 0) = << >>
    BY <1>1, PrefixFacts
  <2>2. SubSeq(e.path, 1, 1) = <<query.start>>
    <3>1. e.path \in Seq(map.lanes) /\ Len(e.path) >= 1 /\ e.path[1] = query.start
          /\ 0 \in 0 .. Len(e.path)
      BY <1>1 DEF DescribesPath
    <3>2. SubSeq(e.path, 1, 1) = <<e.path[1]>>
      BY <3>1, PrefixFacts
    <3> QED
      BY <3>1, <3>2, Zenon
  <2>3. CostAt(e, 1) = 0
    BY DEF DescribesPath
  <2>4. Prefix(0) = [path |-> <<query.start>>, types |-> << >>, cost |-> 0]
    <3>1. 0 + 1 = 1
      OBVIOUS
    <3>2. SubSeq(e.path, 1, 0 + 1) = <<query.start>> /\ CostAt(e, 0 + 1) = 0
      BY <2>2, <2>3, <3>1, Zenon
    <3> QED
      BY <2>1, <3>2, Zenon
  <2> QED
    BY <1>1, <1>4, <2>4
<1>6. ASSUME NEW k \in 0 .. n - 1, k \in S PROVE k + 1 \in S
  <2> DEFINE l == e.path[k + 1]
             p == Prefix(k)
  <2>1. k + 1 \in 1 .. n /\ k + 1 \in 1 .. Len(e.path) - 1 /\ k \in 0 .. Len(e.types)
        /\ k + 1 \in 0 .. Len(e.path) /\ k + 1 < Len(e.path) /\ k < Len(e.types)
        /\ k + 1 \in 1 .. M /\ (k + 1) - 1 = k /\ k + 1 \in 0 .. n
    BY <1>1, <1>2
  <2>2. PICK j \in 1 .. Len(map.contacts[l]) :
          LET c == map.contacts[l][j] IN
          /\ c.to = e.path[(k + 1) + 1]
          /\ IsTransition(map, l, c)
          /\ TransitionType(map, l, c) = e.types[k + 1]
          /\ CostAt(e, (k + 1) + 1) = CostAt(e, k + 1) + TransitionCost(map, l, c, Penalty)
    BY <2>1 DEF DescribesPath
  <2> DEFINE c == map.contacts[l][j]
             t == <<c.to, TransitionType(map, l, c), TransitionCost(map, l, c, Penalty)>>
  <2>3. t \in LP!Steps(map, l)
    BY <2>2, LanePathAsksTheSame
  <2>4. /\ Len(p.path) = k + 1
        /\ \A i \in 1 .. k + 1 : p.path[i] = e.path[i]
    BY <1>1, <2>1, PrefixFacts
  <2>5. p.path[Len(p.path)] = l
    BY <2>1, <2>4
  <2>6. \A i \in 2 .. Len(p.path) : p.path[i] # t[1]
    <3>1. t[1] = e.path[(k + 1) + 1]
      BY <2>2
    <3>2. ASSUME NEW i \in 2 .. k + 1 PROVE p.path[i] # e.path[(k + 1) + 1]
      <4>1. i \in 1 .. k + 1 /\ i \in 2 .. Len(e.path) /\ (k + 1) + 1 \in 2 .. Len(e.path)
            /\ i < (k + 1) + 1
        BY <1>1, <2>1
      <4> QED
        BY <2>4, <4>1 DEF NoLaneTwice
    <3> QED
      BY <2>4, <3>1, <3>2
  <2>7. Prefix(k + 1) = [path |-> Append(p.path, t[1]), types |-> Append(p.types, t[2]),
                         cost |-> p.cost + t[3]]
    <3>1. SubSeq(e.path, 1, (k + 1) + 1) = Append(SubSeq(e.path, 1, k + 1), e.path[(k + 1) + 1])
      BY <1>1, <2>1, PrefixFacts
    <3>2. SubSeq(e.types, 1, k + 1) = Append(SubSeq(e.types, 1, k), e.types[k + 1])
      BY <1>1, <2>1, PrefixFacts
    <3>3. t[1] = e.path[(k + 1) + 1] /\ t[2] = e.types[k + 1]
          /\ CostAt(e, (k + 1) + 1) = CostAt(e, k + 1) + t[3]
      BY <2>2
    <3> QED
      BY <3>1, <3>2, <3>3
  <2>8. p \in Q[k]
    BY <1>6
  <2> HIDE DEF p, t, l
  <2>9. Prefix(k + 1) \in LP!Extended(map, Q[k])
    <3>1. t \in { u \in LP!Steps(map, p.path[Len(p.path)]) :
                    \A i \in 2 .. Len(p.path) : p.path[i] # u[1] }
      BY <2>3, <2>5, <2>6
    <3> DEFINE Longer(r) == { [path |-> Append(r.path, u[1]), types |-> Append(r.types, u[2]),
                               cost |-> r.cost + u[3]] :
                                u \in { v \in LP!Steps(map, r.path[Len(r.path)]) :
                                          \A i \in 2 .. Len(r.path) : r.path[i] # v[1] } }
    <3>2. [path |-> Append(p.path, t[1]), types |-> Append(p.types, t[2]),
           cost |-> p.cost + t[3]] \in Longer(p)
      BY <3>1
    <3>3. LP!Extended(map, Q[k]) = UNION { Longer(r) : r \in Q[k] }
      BY Zenon DEF LP!Extended
    <3> HIDE DEF Longer, Prefix
    <3> QED
      BY <2>7, <2>8, <3>2, <3>3
  <2>10. Q[k + 1] = LP!Extended(map, Q[k])
    BY <1>4, <2>1
  <2> QED
    BY <2>1, <2>9, <2>10
<1>7. n \in S
  <2>1. 0 .. n \subseteq S
    <3> HIDE DEF S
    <3> QED
      BY <1>1, <1>5, <1>6, UpFromZero
  <2> QED
    BY <1>1, <2>1
<1>8. Prefix(n) = [path |-> e.path, types |-> e.types, cost |-> e.cost]
  <2>1. SubSeq(e.path, 1, n + 1) = e.path /\ SubSeq(e.types, 1, n) = e.types
    BY <1>1, PrefixFacts
  <2>2. CostAt(e, n + 1) = e.cost
    BY <1>1 DEF CostAt
  <2> QED
    BY <2>1, <2>2
<1>9. [path |-> e.path, types |-> e.types, cost |-> e.cost] \in Q[n]
  BY <1>7, <1>8
<1> QED
  BY <1>2, <1>3, <1>9 DEF n, M

(* A path of LanePath has been driven at these costs.                       *)
DrivenAt(r, costs) ==
  /\ r.path \in Seq(map.lanes) /\ costs \in Seq(Nat)
  /\ Len(r.path) >= 1 /\ Len(costs) = Len(r.path)
  /\ r.path[1] = query.start /\ costs[1] = 0
  /\ costs[Len(costs)] = r.cost
  /\ \A n \in 1 .. Len(r.path) - 1 :
       \E i \in 1 .. Len(map.contacts[r.path[n]]) :
          LET c == map.contacts[r.path[n]][i] IN
          /\ c.to = r.path[n + 1]
          /\ IsTransition(map, r.path[n], c)
          /\ costs[n + 1] = costs[n] + TransitionCost(map, r.path[n], c, Penalty)

LEMMA StartIsDriven ==
  ASSUME IInv
  PROVE  DrivenAt([path |-> <<query.start>>, types |-> << >>, cost |-> 0], <<0>>)
<1>1. query.start \in map.lanes
  BY SearchAssumption DEF IInv, TypeOK
<1>2. <<query.start>> \in Seq(map.lanes) /\ <<0>> \in Seq(Nat)
  BY <1>1, SingletonSeq
<1> DEFINE r == [path |-> <<query.start>>, types |-> << >>, cost |-> 0]
<1>3. r.path = <<query.start>> /\ r.cost = 0
  OBVIOUS
<1> HIDE DEF r
<1>4. DrivenAt(r, <<0>>)
  BY <1>2, <1>3 DEF DrivenAt
<1> QED
  BY <1>4 DEF r

LEMMA LongerIsDriven ==
  ASSUME IInv, NEW p, NEW costs, DrivenAt(p, costs),
         NEW t \in LP!Steps(map, p.path[Len(p.path)]), NEW types
  PROVE  DrivenAt([path |-> Append(p.path, t[1]), types |-> types, cost |-> p.cost + t[3]],
                  Append(costs, p.cost + t[3]))
<1> DEFINE n == Len(p.path)
           l == p.path[n]
           r == [path |-> Append(p.path, t[1]), types |-> types, cost |-> p.cost + t[3]]
           longer == Append(costs, p.cost + t[3])
<1>1. /\ p.path \in Seq(map.lanes) /\ costs \in Seq(Nat) /\ n \in Nat /\ n >= 1
      /\ Len(costs) = n /\ costs[n] = p.cost /\ map \in Maps
      /\ p.path[1] = query.start /\ costs[1] = 0
  BY LenProperties DEF DrivenAt, IInv, TypeOK
<1>2. l \in map.lanes /\ p.cost \in Nat
  <2>1. n \in 1 .. Len(p.path) /\ n \in 1 .. Len(costs)
    BY <1>1
  <2>2. l \in map.lanes
    BY <1>1, <2>1, ElementOfSeq
  <2>3. costs[n] \in Nat
    BY <1>1, <2>1, ElementOfSeq
  <2> QED
    BY <1>1, <2>2, <2>3
<1>3. PICK j \in 1 .. Len(map.contacts[l]) :
        LET c == map.contacts[l][j] IN
        /\ IsTransition(map, l, c)
        /\ t = <<c.to, TransitionType(map, l, c), TransitionCost(map, l, c, Penalty)>>
  BY LanePathAsksTheSame
<1> DEFINE c == map.contacts[l][j]
<1>4. /\ t[1] = c.to /\ t[3] = TransitionCost(map, l, c, Penalty)
      /\ IsTransition(map, l, c)
  BY <1>3
<1>5. t[1] \in map.lanes /\ t[3] \in Nat
  BY <1>1, <1>2, <1>4, ContactType
<1>6. /\ Append(p.path, t[1]) \in Seq(map.lanes)
      /\ Len(Append(p.path, t[1])) = n + 1
      /\ \A i \in 1 .. n : Append(p.path, t[1])[i] = p.path[i]
      /\ Append(p.path, t[1])[n + 1] = t[1]
  <2> DEFINE lanes == map.lanes
             path == p.path
             to == t[1]
  <2>1. path \in Seq(lanes) /\ to \in lanes /\ Len(path) = n
    BY <1>1, <1>5
  <2> HIDE DEF lanes, path, to
  <2>2. /\ Append(path, to) \in Seq(lanes)
        /\ Len(Append(path, to)) = n + 1
        /\ \A i \in 1 .. n : Append(path, to)[i] = path[i]
        /\ Append(path, to)[n + 1] = to
    BY <2>1, AppendProperties
  <2> QED
    BY <2>2 DEF lanes, path, to
<1>7. /\ longer \in Seq(Nat)
      /\ Len(longer) = n + 1
      /\ \A i \in 1 .. n : longer[i] = costs[i]
      /\ longer[n + 1] = p.cost + t[3]
  BY <1>1, <1>2, <1>5, AppendProperties
<1>8. r.path = Append(p.path, t[1]) /\ r.cost = p.cost + t[3]
  OBVIOUS
<1> HIDE DEF r, longer, c, n
<1>9. ASSUME NEW i \in 1 .. n
      PROVE  \E k \in 1 .. Len(map.contacts[r.path[i]]) :
               LET d == map.contacts[r.path[i]][k] IN
               /\ d.to = r.path[i + 1]
               /\ IsTransition(map, r.path[i], d)
               /\ longer[i + 1] = longer[i] + TransitionCost(map, r.path[i], d, Penalty)
  <2>1. r.path[i] = p.path[i] /\ longer[i] = costs[i]
    BY <1>6, <1>7, <1>8
  <2>2. CASE i = n
    <3>1. r.path[i + 1] = c.to /\ longer[i + 1] = longer[i] + TransitionCost(map, l, c, Penalty)
          /\ r.path[i] = l
      BY <1>1, <1>4, <1>6, <1>7, <1>8, <2>1, <2>2
    <3>2. j \in 1 .. Len(map.contacts[r.path[i]]) /\ map.contacts[r.path[i]][j] = c
      BY <3>1 DEF c
    <3> QED
      BY <1>4, <3>1, <3>2
  <2>3. CASE i # n
    <3>1. i \in 1 .. n - 1 /\ i + 1 \in 1 .. n
      BY <1>1, <2>3
    <3>2. r.path[i + 1] = p.path[i + 1] /\ longer[i + 1] = costs[i + 1]
      BY <1>6, <1>7, <1>8, <3>1
    <3> QED
      BY <2>1, <3>1, <3>2 DEF DrivenAt, n
  <2> QED
    BY <2>2, <2>3
<1>10. r.path[1] = query.start /\ longer[1] = 0 /\ 1 \in 1 .. n
  BY <1>1, <1>6, <1>7, <1>8
<1>11. DrivenAt(r, longer)
  <2>1. Len(r.path) = n + 1 /\ (n + 1) - 1 = n /\ n + 1 >= 1
    BY <1>1, <1>6, <1>8
  <2> QED
    BY <1>6, <1>7, <1>8, <1>9, <1>10, <2>1 DEF DrivenAt
<1> QED
  BY <1>11 DEF r, longer

(* Every legal path of LanePath is a drive that costs as much.              *)
LEMMA LegalPathsAreDrives ==
  ASSUME IInv, NEW r \in LP!LegalPaths(map, query)
  PROVE  \E d \in Drives : d.costs[Len(d.path)] = r.cost
<1> DEFINE M == Cardinality(map.lanes)
           Q == PathsTo(map, query.start, M)
           S == { k \in 0 .. M : \A p \in Q[k] : \E costs : DrivenAt(p, costs) }
<1>1. M \in Nat
  <2>1. IsFiniteSet(map.lanes)
    BY SearchAssumption DEF IInv, TypeOK
  <2> QED
    BY <2>1, FS_CardinalityType
<1>2. LP!PathsOfLength(map, query.start) = Q /\ LP!Cardinality(map.lanes) = M
  BY PathsFromStart, SameCardinality
<1> HIDE DEF M
<1>3. /\ Q[0] = { [path |-> <<query.start>>, types |-> << >>, cost |-> 0] }
      /\ \A k \in 1 .. M : Q[k] = LP!Extended(map, Q[k-1])
  BY <1>1, PathsAreDefined
<1>4. PICK k \in 0 .. M : r \in Q[k]
  BY <1>2 DEF LP!LegalPaths
<1>5. /\ r.path[Len(r.path)] = query.goal
      /\ Len(r.path) > 1 \/ DirectFinishAllowed
  BY LanePathAsksTheSame DEF LP!LegalPaths
<1> HIDE DEF Q
<1>6. 0 \in S
  <2>1. ASSUME NEW p \in Q[0] PROVE \E costs : DrivenAt(p, costs)
    <3>1. p = [path |-> <<query.start>>, types |-> << >>, cost |-> 0]
      BY <1>3
    <3>2. DrivenAt(p, <<0>>)
      BY <3>1, StartIsDriven
    <3> QED
      BY <3>2
  <2> QED
    BY <1>1, <2>1
<1>7. ASSUME NEW n \in 0 .. M - 1, n \in S PROVE n + 1 \in S
  <2>1. n + 1 \in 1 .. M /\ (n + 1) - 1 = n /\ n + 1 \in 0 .. M
    BY <1>1
  <2>2. Q[n + 1] = LP!Extended(map, Q[n])
    BY <1>3, <2>1
  <2>3. ASSUME NEW e \in Q[n + 1] PROVE \E costs : DrivenAt(e, costs)
    <3>1. PICK p \in Q[n] : \E t \in LP!Steps(map, p.path[Len(p.path)]) :
            e = [path |-> Append(p.path, t[1]), types |-> Append(p.types, t[2]),
                 cost |-> p.cost + t[3]]
      BY <2>2, Zenon DEF LP!Extended
    <3>2. PICK t \in LP!Steps(map, p.path[Len(p.path)]) :
            e = [path |-> Append(p.path, t[1]), types |-> Append(p.types, t[2]),
                 cost |-> p.cost + t[3]]
      BY <3>1
    <3> PICK costs : DrivenAt(p, costs)
      BY <1>7
    <3>3. DrivenAt(e, Append(costs, p.cost + t[3]))
      BY <3>2, LongerIsDriven
    <3> QED
      BY <3>3
  <2> QED
    BY <2>1, <2>3
<1>8. k \in S
  <2>1. 0 .. M \subseteq S
    <3> HIDE DEF S
    <3> QED
      BY <1>1, <1>6, <1>7, UpFromZero
  <2> QED
    BY <2>1
<1>9. PICK costs : DrivenAt(r, costs)
  BY <1>4, <1>8
<1> DEFINE d == [path |-> r.path, costs |-> costs]
<1>10. d.path = r.path /\ d.costs = costs
       /\ (r.path \in Seq(map.lanes) /\ costs \in Seq(Nat) =>
             d \in [path : Seq(map.lanes), costs : Seq(Nat)])
  OBVIOUS
<1> HIDE DEF d
<1>11. IsDrive(d)
  BY <1>5, <1>9, <1>10 DEF DrivenAt, IsDrive
<1>12. d \in Drives
  BY <1>9, <1>10, <1>11 DEF DrivenAt, Drives
<1>13. d.costs[Len(d.path)] = r.cost
  BY <1>9, <1>10 DEF DrivenAt
<1> QED
  BY <1>12, <1>13

(* The entry that reaches the goal is a legal path of LanePath.             *)
LEMMA GoalIsLegal ==
  ASSUME IInv, NEW e \in Entries, DescribesPath(e), NoLaneTwice(e), IsGoal(e)
  PROVE  [path |-> e.path, types |-> e.types, cost |-> e.cost] \in LP!LegalPaths(map, query)
<1> DEFINE p == [path |-> e.path, types |-> e.types, cost |-> e.cost]
           n == Len(e.path) - 1
<1>1. n \in 0 .. Cardinality(map.lanes) /\ p \in LP!PathsOfLength(map, query.start)[n]
  BY FoundIsLegal
<1>2. p.path = e.path
  OBVIOUS
<1>3. e.path[Len(e.path)] = query.goal
  BY DEF DescribesPath, IsGoal
<1>4. Len(e.path) > 1 \/ LP!DirectFinishAllowed(map, query)
  BY LanePathAsksTheSame DEF DescribesPath, IsGoal
<1>5. LP!Cardinality(map.lanes) = Cardinality(map.lanes)
  BY SameCardinality
<1> HIDE DEF p, n
<1>6. p \in LP!LegalPaths(map, query)
  BY <1>1, <1>2, <1>3, <1>4, <1>5 DEF LP!LegalPaths
<1> QED
  BY <1>6 DEF p

\* The drives depend on the query only.
LEMMA SameDrives == ASSUME map' = map, query' = query PROVE Drives' = Drives
BY DEF Drives, IsDrive, DirectFinishAllowed

(* find_lane_path answers as LanePath does: what it returns is a cheapest   *)
(* among LanePath's legal paths, and (None, None) is returned only when     *)
(* there is none.  This is the safety part of ImplementsLanePath.           *)
THEOREM AnswersAsLanePath == Spec => LP!Init /\ [][LP!Next]_(LP!vars)
<1>1. Init => LP!Init
  BY DEF Init, LP!Init, LP!Pending
<1>2. ASSUME IInv, PathsAreLegal, PathsEnterNew, ReturnIsOptimal', IInv', PathsAreLegal',
             PathsEnterNew', [Next]_vars
      PROVE  [LP!Next]_(LP!vars)
  <2>1. CASE PopGoal
    <3>1. PICK e \in frontier : IsGoal(e) /\ current' = e
      BY <2>1 DEF PopGoal
    <3>2. /\ map' = map /\ query' = query /\ pc = "pop" /\ pc' = "found"
      BY <2>1 DEF PopGoal
    <3>3. e \in Entries /\ DescribesPath(e) /\ NoLaneTwice(e)
      BY <1>2 DEF IInv, TypeOK, PathsAreLegal, PathsEnterNew
    <3> DEFINE p == [path |-> e.path, types |-> e.types, cost |-> e.cost]
    <3>4. p \in LP!LegalPaths(map, query)
      BY <1>2, <3>1, <3>3, GoalIsLegal
    <3>5. ASSUME NEW r \in LP!LegalPaths(map, query) PROVE p.cost <= r.cost
      <4>1. PICK d \in Drives : d.costs[Len(d.path)] = r.cost
        BY <1>2, LegalPathsAreDrives
      <4>2. d \in Drives'
        BY <3>2, SameDrives
      <4>3. current'.cost <= d.costs[Len(d.path)]
        BY <1>2, <3>2, <4>2 DEF ReturnIsOptimal
      <4> QED
        BY <3>1, <4>1, <4>3
    <3>6. p.path = e.path /\ p.types = e.types
      OBVIOUS
    <3> HIDE DEF p
    <3>7. LP!AnswerPath
      BY <3>1, <3>2, <3>4, <3>5, <3>6 DEF LP!AnswerPath, LP!Pending
    <3> QED
      BY <3>7 DEF LP!Next
  <2>2. CASE Exhausted
    <3>1. /\ map' = map /\ query' = query /\ pc = "pop" /\ pc' = "none"
      BY <2>2 DEF Exhausted
    <3>2. Drives = {}
      BY <1>2, <3>1, SameDrives DEF ReturnIsOptimal
    <3>3. LP!LegalPaths(map, query) = {}
      BY <1>2, <3>2, LegalPathsAreDrives
    <3>4. LP!AnswerNone
      BY <3>1, <3>3 DEF LP!AnswerNone, LP!Pending, LP!NoPath
    <3> QED
      BY <3>4 DEF LP!Next
  <2>3. CASE PopStale \/ PopExpand \/ SkipContact \/ Relax \/ EndExpand
    <3>1. UNCHANGED <<map, query>> /\ pc \in {"pop", "relax"} /\ pc' \in {"pop", "relax"}
      BY <2>3 DEF PopStale, PopExpand, SkipContact, Relax, EndExpand
    <3> QED
      BY <3>1 DEF LP!vars
  <2>4. CASE UNCHANGED vars
    BY <2>4 DEF vars, LP!vars
  <2> QED
    BY <1>2, <2>1, <2>2, <2>3, <2>4 DEF Next
<1> QED
  BY <1>1, <1>2, Inductive, PathsLegal, NothingEnteredTwice, ReturnsAreOptimal, PTL DEF Spec
=============================================================================
