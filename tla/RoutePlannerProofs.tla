------------------------- MODULE RoutePlannerProofs -------------------------
(***************************************************************************)
(* Theorems about RoutePlanner, for all maps, all matches of start and     *)
(* goal point, and all lengths: what it hands to the builder is what the   *)
(* builder was made for, and what it returns is the best of all pairs.     *)
(***************************************************************************)
EXTENDS RoutePlanner, FiniteSetTheorems, WellFoundedInduction, TLAPS

-----------------------------------------------------------------------------
(* Recursive functions on 0 .. n.                                           *)

\* Induction along 0 .. n: a set that has 0, and k + 1 with every k below n,
\* has them all.
LEMMA UpFromZero ==
  ASSUME NEW n \in Nat, NEW S,
         0 \in S,
         \A k \in 0 .. n - 1 : k \in S => k + 1 \in S
  PROVE  0 .. n \subseteq S
<1> DEFINE Bad == { k \in 0 .. n : k \notin S }
<1> SUFFICES ASSUME Bad # {} PROVE FALSE
  OBVIOUS
<1>1. PICK k \in Bad : \A j \in Bad : ~ (j < k)
  <2> DEFINE R == OpToRel(<, Nat)
  <2>1. IsWellFoundedOn(R, Nat)
    BY NatLessThanWellFounded
  <2>2. \A x, y \in Nat : x < y => <<x, y>> \in R
    BY DEF OpToRel
  <2>3. Bad \subseteq Nat
    OBVIOUS
  <2> HIDE DEF R
  <2>4. PICK k \in Bad : \A j \in Bad : ~ (<<j, k>> \in R)
    BY <2>1, <2>3, WFMin
  <2>5. \A j \in Bad : ~ (j < k)
    BY <2>2, <2>3, <2>4
  <2> QED
    BY <2>5
<1>2. k \in 1 .. n /\ k \notin S
  BY <1>1
<1>3. k - 1 \in 0 .. n - 1
  BY <1>2
<1>4. k - 1 \in S
  BY <1>1, <1>2, <1>3
<1> QED
  BY <1>2, <1>3, <1>4

\* The length that get_custom_route_length adds up, as a recursive function.
LengthTo(m, route, n) ==
  CHOOSE sum : sum = [i \in 0 .. n |->
                        IF i = 0 THEN 0 ELSE sum[i-1] + StepLength(m, route[i])]

\* It exists for every route.
LEMMA LengthIsDefined ==
  ASSUME NEW m, NEW route, NEW n \in Nat
  PROVE  LengthTo(m, route, n) =
           [i \in 0 .. n |->
              IF i = 0 THEN 0 ELSE LengthTo(m, route, n)[i-1] + StepLength(m, route[i])]
<1> DEFINE Sum(sum, k) ==
             sum = [i \in 0 .. k |-> IF i = 0 THEN 0 ELSE sum[i-1] + StepLength(m, route[i])]
           Defined == { k \in 0 .. n : \E sum : Sum(sum, k) }
<1>1. 0 \in Defined
  <2> DEFINE none == [i \in 0 .. 0 |-> 0]
  <2>1. none = [i \in 0 .. 0 |-> none[i]] /\ none[0] = 0
    OBVIOUS
  <2> HIDE DEF none
  <2>2. \A i \in 0 .. 0 : none[i] = IF i = 0 THEN 0 ELSE none[i-1] + StepLength(m, route[i])
    BY <2>1
  <2>3. Sum(none, 0)
    BY <2>1, <2>2, Zenon
  <2> QED
    BY <2>3
<1>2. ASSUME NEW k \in 0 .. n - 1, k \in Defined PROVE k + 1 \in Defined
  <2>1. PICK sum : Sum(sum, k)
    BY <1>2
  <2> DEFINE longer == [i \in 0 .. k + 1 |->
                          IF i = k + 1 THEN sum[k] + StepLength(m, route[k + 1]) ELSE sum[i]]
  <2>2. ASSUME NEW i \in 0 .. k + 1
        PROVE  longer[i] = IF i = 0 THEN 0 ELSE longer[i-1] + StepLength(m, route[i])
    <3>1. CASE i = 0
      BY <2>1, <3>1
    <3>2. CASE i \in 1 .. k
      <4>1. longer[i] = sum[i] /\ longer[i-1] = sum[i-1]
        BY <3>2
      <4>2. sum[i] = sum[i-1] + StepLength(m, route[i])
        BY <2>1, <3>2
      <4> QED
        BY <3>2, <4>1, <4>2
    <3>3. CASE i = k + 1
      BY <3>3
    <3> QED
      BY <3>1, <3>2, <3>3
  <2>3. longer = [i \in 0 .. k + 1 |-> longer[i]]
    OBVIOUS
  <2> HIDE DEF longer
  <2>4. Sum(longer, k + 1)
    BY <2>2, <2>3, Zenon
  <2>5. k + 1 \in 0 .. n
    OBVIOUS
  <2> QED
    BY <2>4, <2>5
<1>3. n \in Defined
  <2> HIDE DEF Defined
  <2> QED
    BY <1>1, <1>2, UpFromZero
<1>4. PICK sum : Sum(sum, n)
  BY <1>3
<1> QED
  BY <1>4 DEF LengthTo

-----------------------------------------------------------------------------
(* What the planner has at each place.                                       *)

StepsOf(m) == [type : {"lane_segment", "lane_change"}, fromLane : m.lanes, fromOffset : Int,
               toLane : m.lanes, toOffset : Int]

\* The builder's variables, as far as scores need them.
BuilderInv ==
  /\ Builder!IsTask(map, task)
  /\ index \in 1 .. Len(task.path)
  /\ currentOffset \in Int
  /\ steps \in Seq(StepsOf(map))
  /\ result \in {"building", "built", "goal behind", "change behind"}

\* The pairs before this one in the order of the loops.
Earlier(p) == p[1] < pair[1] \/ (p[1] = pair[1] /\ p[2] < pair[2])

SnapsOf(p) == starts[p[1]].snap + goals[p[2]].snap

Scores == { <<a, b, c, d, e>> : a, b, c, d, e \in Int }

\* Each pair that was tried has its outcome, and each route its score.
OutcomesInv ==
  /\ DOMAIN outcomes = (1 .. Len(starts)) \X (1 .. Len(goals))
  /\ \A p \in DOMAIN outcomes :
       Built(p) => outcomes[p].score \in Scores /\ outcomes[p].score[1] = SnapsOf(p)
  /\ pc \in {"candidates", "search", "build"} =>
       \A p \in DOMAIN outcomes : Earlier(p) <=> outcomes[p].how # "untried"
  /\ pc \in {"search", "build"} => pair \in DOMAIN outcomes
  /\ pc \in {"choose", "returned", "no route"} =>
       \A p \in DOMAIN outcomes : outcomes[p].how # "untried"

\* What is kept is the best so far.
BestInv ==
  /\ best = None => \A p \in DOMAIN outcomes : ~ Built(p)
  /\ best # None =>
       /\ best.pair \in DOMAIN outcomes
       /\ outcomes[best.pair] = Outcome("built", best.score)
       /\ \A p \in DOMAIN outcomes : Built(p) => ~ Before(outcomes[p].score, best.score)
  /\ pc = "returned" => best # None
  /\ pc = "no route" => best = None

PlannerInv ==
  /\ map \in Maps
  /\ request \in Requests(map)
  /\ starts \in Candidates(map, request.starts)
  /\ goals \in Candidates(map, request.goals)
  /\ pc = "candidates" => pair = <<1, 1>>
  /\ pc = "build" => BuilderInv
  /\ OutcomesInv
  /\ BestInv

-----------------------------------------------------------------------------
(* The candidates.                                                           *)

\* The candidates are matches, and the first lies nearest.
LEMMA CandidateFacts ==
  ASSUME NEW m, NEW matches \in Seq(Matches(m)), NEW c \in Candidates(m, matches)
  PROVE  /\ c \in Seq(Matches(m))
         /\ Len(c) \in Nat
         /\ \A k \in 1 .. Len(c) : c[k] \in Matches(m) /\ c[1].snap <= c[k].snap
<1> DEFINE drivable == { i \in DOMAIN matches : Routeable(m, matches[i].lane) }
           n == Cardinality(drivable)
<1>1. n \in Nat
  <2>1. IsFiniteSet(1 .. Len(matches))
    BY FS_Interval
  <2>2. drivable \subseteq 1 .. Len(matches)
    OBVIOUS
  <2> QED
    BY <2>1, <2>2, FS_Subset, FS_CardinalityType
<1>2. PICK order \in Bijection(1 .. n, drivable) :
        /\ \A k, l \in 1 .. n :
             k < l => ~ Before(CandidateKey(matches[order[l]]), CandidateKey(matches[order[k]]))
        /\ c = [k \in 1 .. n |-> matches[order[k]]]
  BY DEF Candidates
<1>3. order \in [1 .. n -> drivable]
  BY <1>2 DEF Bijection, Injection
<1> HIDE DEF n
<1>4. \A k \in 1 .. n : c[k] = matches[order[k]] /\ c[k] \in Matches(m)
  <2>1. \A i \in drivable : matches[i] \in Matches(m)
    OBVIOUS
  <2> HIDE DEF drivable
  <2> QED
    BY <1>2, <1>3, <2>1
<1>5. c \in Seq(Matches(m)) /\ Len(c) = n
  BY <1>1, <1>2, <1>4
<1>6. ASSUME NEW k \in 1 .. n PROVE c[1].snap <= c[k].snap
  <2>1. c[1] \in Matches(m) /\ c[k] \in Matches(m) /\ c[1].snap \in Nat /\ c[k].snap \in Nat
    BY <1>1, <1>4 DEF Matches
  <2>2. CASE k = 1
    BY <2>1, <2>2
  <2>3. CASE 1 < k
    <3>1. ~ Before(CandidateKey(c[k]), CandidateKey(c[1]))
      BY <1>1, <1>2, <1>4, <2>3
    <3>2. ~ (CandidateKey(c[k])[1] < CandidateKey(c[1])[1])
      BY <3>1 DEF Before, CandidateKey
    <3> QED
      BY <2>1, <3>2 DEF CandidateKey
  <2> QED
    BY <1>1, <2>2, <2>3
<1> QED
  BY <1>1, <1>4, <1>5, <1>6

-----------------------------------------------------------------------------
(* The paths the search may answer with.                                     *)

\* A legal path, as the builder expects it, with the offsets left out.
LegalPath(m, s, p) ==
  /\ p.path \in Seq(m.lanes)
  /\ p.types \in Seq({"forward", "lane_change"})
  /\ Len(p.path) = Len(p.types) + 1
  /\ p.path[1] = s
  /\ \A i \in 1 .. Len(p.types) : MayMove(m, p.path[i], p.path[i + 1], p.types[i])

LEMMA ElementOfSequence ==
  ASSUME NEW S, NEW s \in Seq(S), NEW i \in 1 .. Len(s)
  PROVE  s[i] \in S
OBVIOUS

LEMMA AppendFacts ==
  ASSUME NEW S, NEW s \in Seq(S), NEW x \in S
  PROVE  /\ Append(s, x) \in Seq(S)
         /\ Len(s) \in Nat
         /\ Len(Append(s, x)) = Len(s) + 1
         /\ \A i \in 1 .. Len(s) : Append(s, x)[i] = s[i]
         /\ Append(s, x)[Len(s) + 1] = x
OBVIOUS

\* Each step is a move that the contacts of the lane allow.
LEMMA StepsAreMoves ==
  ASSUME NEW m, IsLaneMap(m), NEW l \in m.lanes, NEW t \in Steps(m, l)
  PROVE  /\ t[1] \in m.lanes
         /\ t[2] \in {"forward", "lane_change"}
         /\ MayMove(m, l, t[1], t[2])
<1>1. PICK i \in 1 .. Len(m.contacts[l]) :
        /\ IsTransition(m, l, m.contacts[l][i])
        /\ t = << m.contacts[l][i].to, TransitionType(m, l, m.contacts[l][i]),
                  TransitionCost(m, l, m.contacts[l][i], Penalty) >>
  BY DEF Steps
<1>2. m.contacts[l] \in Seq([to : m.lanes, location : ContactLocations])
  BY DEF IsLaneMap
<1>3. m.contacts[l][i] \in [to : m.lanes, location : ContactLocations]
  BY <1>1, <1>2, ElementOfSequence
<1>4. m.contacts[l][i].to \in m.lanes
  BY <1>3
<1> QED
  BY <1>1, <1>4 DEF MayMove, TransitionType

\* A move more makes a legal path of a legal path.
LEMMA LegalPathGrows ==
  ASSUME NEW m, IsLaneMap(m), NEW s, NEW p, LegalPath(m, s, p),
         NEW t \in Steps(m, p.path[Len(p.path)]), NEW cost
  PROVE  LegalPath(m, s, [path  |-> Append(p.path, t[1]),
                          types |-> Append(p.types, t[2]),
                          cost  |-> cost])
<1> DEFINE q == [path |-> Append(p.path, t[1]), types |-> Append(p.types, t[2]), cost |-> cost]
           n == Len(p.types)
<1>1. /\ p.path \in Seq(m.lanes) /\ p.types \in Seq({"forward", "lane_change"})
      /\ n \in Nat /\ Len(p.path) = n + 1
  BY DEF LegalPath
<1>2. p.path[n + 1] \in m.lanes
  BY <1>1
<1>3. t[1] \in m.lanes /\ t[2] \in {"forward", "lane_change"}
      /\ MayMove(m, p.path[n + 1], t[1], t[2])
  BY <1>1, <1>2, StepsAreMoves
<1>4. /\ q.path \in Seq(m.lanes) /\ q.types \in Seq({"forward", "lane_change"})
      /\ Len(q.path) = n + 2 /\ Len(q.types) = n + 1
      /\ \A i \in 1 .. n + 1 : q.path[i] = p.path[i]
      /\ q.path[n + 2] = t[1]
      /\ \A i \in 1 .. n : q.types[i] = p.types[i]
      /\ q.types[n + 1] = t[2]
  <2>1. n + 1 + 1 = n + 2
    BY <1>1
  <2>2. /\ q.path = Append(p.path, t[1]) /\ q.types = Append(p.types, t[2])
    OBVIOUS
  <2> DEFINE lanes == m.lanes
             pp == p.path
             next == t[1]
  <2>3. pp \in Seq(lanes) /\ next \in lanes
    BY <1>1, <1>3
  <2> HIDE DEF q, lanes, pp, next
  <2>4. /\ Append(pp, next) \in Seq(lanes)
        /\ Len(Append(pp, next)) = Len(pp) + 1
        /\ \A i \in 1 .. Len(pp) : Append(pp, next)[i] = pp[i]
        /\ Append(pp, next)[Len(pp) + 1] = next
    BY <2>3, AppendFacts
  <2> USE DEF lanes, pp, next
  <2>5. /\ q.path \in Seq(m.lanes) /\ Len(q.path) = Len(p.path) + 1
        /\ \A i \in 1 .. Len(p.path) : q.path[i] = p.path[i]
        /\ q.path[Len(p.path) + 1] = t[1]
    BY <2>2, <2>4
  <2>6. /\ q.types \in Seq({"forward", "lane_change"}) /\ Len(q.types) = n + 1
        /\ \A i \in 1 .. n : q.types[i] = p.types[i]
        /\ q.types[n + 1] = t[2]
    BY <1>1, <1>3, <2>2, AppendFacts
  <2> QED
    BY <1>1, <2>1, <2>5, <2>6
<1>5. ASSUME NEW i \in 1 .. n + 1
      PROVE  MayMove(m, q.path[i], q.path[i + 1], q.types[i])
  <2>1. CASE i = n + 1
    BY <1>1, <1>3, <1>4, <2>1
  <2>2. CASE i \in 1 .. n
    BY <1>1, <1>4, <2>2 DEF LegalPath
  <2> QED
    BY <1>1, <2>1, <2>2
<1>6. q.path[1] = s
  BY <1>1, <1>4 DEF LegalPath
<1> HIDE DEF q
<1>7. LegalPath(m, s, q)
  BY <1>1, <1>4, <1>5, <1>6 DEF LegalPath
<1> QED
  BY <1>7 DEF q

\* The recursive function of PathsOfLength, up to n moves.
PathsTo(m, s, n) ==
  CHOOSE Q : Q = [i \in 0 .. n |-> IF i = 0 THEN { [path |-> <<s>>, types |-> << >>, cost |-> 0] }
                                   ELSE Extended(m, Q[i-1])]

\* It exists, for every map and every lane to start on.
LEMMA PathsAreDefined ==
  ASSUME NEW m, NEW s, NEW n \in Nat
  PROVE  /\ PathsTo(m, s, n)[0] = { [path |-> <<s>>, types |-> << >>, cost |-> 0] }
         /\ \A k \in 1 .. n : PathsTo(m, s, n)[k] = Extended(m, PathsTo(m, s, n)[k-1])
<1> DEFINE Start0 == { [path |-> <<s>>, types |-> << >>, cost |-> 0] }
           Paths(P, k) == P = [i \in 0 .. k |-> IF i = 0 THEN Start0 ELSE Extended(m, P[i-1])]
           Defined == { k \in 0 .. n : \E P : Paths(P, k) }
<1>1. 0 \in Defined
  <2> DEFINE none == [i \in 0 .. 0 |-> Start0]
  <2>1. none = [i \in 0 .. 0 |-> none[i]] /\ none[0] = Start0
    OBVIOUS
  <2> HIDE DEF none, Start0
  <2>2. \A i \in 0 .. 0 : none[i] = IF i = 0 THEN Start0 ELSE Extended(m, none[i-1])
    BY <2>1
  <2>3. Paths(none, 0)
    BY <2>1, <2>2, Zenon
  <2> QED
    BY <2>3
<1>2. ASSUME NEW k \in 0 .. n - 1, k \in Defined PROVE k + 1 \in Defined
  <2> HIDE DEF Start0
  <2>1. PICK R : Paths(R, k)
    BY <1>2
  <2> DEFINE longer == [i \in 0 .. k + 1 |-> IF i = k + 1 THEN Extended(m, R[k]) ELSE R[i]]
  <2>2. ASSUME NEW i \in 0 .. k + 1
        PROVE  longer[i] = IF i = 0 THEN Start0 ELSE Extended(m, longer[i-1])
    <3>1. CASE i = 0
      BY <2>1, <3>1
    <3>2. CASE i \in 1 .. k
      <4>1. longer[i] = R[i] /\ longer[i-1] = R[i-1]
        BY <3>2
      <4>2. R[i] = Extended(m, R[i-1])
        BY <2>1, <3>2
      <4> QED
        BY <3>2, <4>1, <4>2
    <3>3. CASE i = k + 1
      <4>1. longer[i] = Extended(m, R[k]) /\ longer[i-1] = R[k] /\ i # 0
        BY <3>3
      <4> QED
        BY <4>1
    <3> QED
      BY <3>1, <3>2, <3>3
  <2>3. longer = [i \in 0 .. k + 1 |-> longer[i]]
    OBVIOUS
  <2> HIDE DEF longer
  <2>4. Paths(longer, k + 1)
    BY <2>2, <2>3, Zenon
  <2>5. k + 1 \in 0 .. n
    OBVIOUS
  <2> QED
    BY <2>4, <2>5
<1>3. n \in Defined
  <2> HIDE DEF Defined
  <2> QED
    BY <1>1, <1>2, UpFromZero
<1>4. PICK R : Paths(R, n)
  BY <1>3
<1>5. PathsTo(m, s, n) = CHOOSE P : Paths(P, n)
  BY Zenon DEF PathsTo
<1>6. Paths(PathsTo(m, s, n), n)
  <2> HIDE DEF Paths
  <2> QED
    BY <1>4, <1>5
<1> DEFINE Q == PathsTo(m, s, n)
<1>7. Q = [i \in 0 .. n |-> IF i = 0 THEN Start0 ELSE Extended(m, Q[i-1])]
  BY <1>6
<1> HIDE DEF Q, Start0
<1>8. \A k \in 0 .. n : Q[k] = IF k = 0 THEN Start0 ELSE Extended(m, Q[k-1])
  BY <1>7
<1>9. Q[0] = Start0 /\ \A k \in 1 .. n : Q[k] = Extended(m, Q[k-1])
  BY <1>8
<1> USE DEF Start0
<1> QED
  BY <1>9 DEF Q

\* Every path that may be answered is legal.
LEMMA PathsAreLegal ==
  ASSUME NEW m \in Maps, NEW s \in m.lanes, NEW n \in 0 .. Cardinality(m.lanes),
         NEW p \in PathsOfLength(m, s)[n]
  PROVE  LegalPath(m, s, p)
<1> DEFINE N == Cardinality(m.lanes)
           Q == PathsTo(m, s, N)
           Legal == { k \in 0 .. N : \A r \in Q[k] : LegalPath(m, s, r) }
<1>1. IsLaneMap(m) /\ N \in Nat
  BY PlannerAssumption, FS_CardinalityType
<1>2. PathsOfLength(m, s) = Q
  BY Zenon DEF PathsOfLength, PathsTo
<1> HIDE DEF N
<1>3. /\ Q[0] = { [path |-> <<s>>, types |-> << >>, cost |-> 0] }
      /\ \A k \in 1 .. N : Q[k] = Extended(m, Q[k-1])
  BY <1>1, PathsAreDefined
<1> HIDE DEF Q
<1>4. 0 \in Legal
  <2> DEFINE lanes == m.lanes
             p0 == [path |-> <<s>>, types |-> << >>, cost |-> 0]
  <2>1. p0.path = <<s>> /\ p0.types = << >>
    OBVIOUS
  <2>2. s \in lanes
    OBVIOUS
  <2> HIDE DEF lanes, p0
  <2>3. <<s>> \in Seq(lanes) /\ Len(<<s>>) = 1 /\ <<s>>[1] = s
    BY <2>2
  <2>4. << >> \in Seq({"forward", "lane_change"}) /\ Len(<< >>) = 0
    OBVIOUS
  <2>5. LegalPath(m, s, p0)
    BY <2>1, <2>3, <2>4 DEF LegalPath, lanes
  <2> USE DEF p0
  <2> QED
    BY <1>1, <1>3, <2>5
<1>5. ASSUME NEW k \in 0 .. N - 1, k \in Legal PROVE k + 1 \in Legal
  <2>1. Q[k + 1] = Extended(m, Q[k])
    BY <1>1, <1>3
  <2>2. ASSUME NEW r \in Extended(m, Q[k]) PROVE LegalPath(m, s, r)
    <3>1. PICK o \in Q[k] : \E t \in Steps(m, o.path[Len(o.path)]) :
             r = [path |-> Append(o.path, t[1]), types |-> Append(o.types, t[2]),
                  cost |-> o.cost + t[3]]
      BY DEF Extended
    <3>2. LegalPath(m, s, o)
      BY <1>5
    <3> QED
      BY <1>1, <3>1, <3>2, LegalPathGrows
  <2>3. k + 1 \in 0 .. N
    BY <1>1
  <2> QED
    BY <2>1, <2>2, <2>3
<1>6. 0 .. N \subseteq Legal
  <2> HIDE DEF Legal
  <2> QED
    BY <1>1, <1>4, <1>5, UpFromZero
<1> QED
  BY <1>2, <1>6 DEF N

\* The builder asks the map the same questions.
LEMMA BuilderAsksTheSame ==
  /\ \A m, l : Builder!LaneIsPositive(m, l) = LaneIsPositive(m, l)
  /\ \A m, k, l, t : Builder!MayMove(m, k, l, t) = MayMove(m, k, l, t)
  /\ \A m, l, a, b : Builder!OffsetsMoveForward(m, l, a, b) = OffsetsMoveForward(m, l, a, b)
  /\ Builder!Offsets = Offsets
BY DEF Builder!LaneIsPositive, LaneIsPositive, Builder!OffsetsMoveForward, OffsetsMoveForward,
       Builder!Offsets, Offsets, Builder!MayMove, MayMove, Builder!IsTransition, IsTransition,
       Builder!TransitionType, TransitionType, Builder!IsForward, IsForward,
       Builder!IsLaneChange, IsLaneChange, Builder!Routeable, Routeable,
       Builder!ForwardContactLocation, ForwardContactLocation,
       Builder!LaneIsIntersection, LaneIsIntersection,
       Builder!LanesHaveSameDirection, LanesHaveSameDirection

\* What the search answers is what the builder was made for.
LEMMA AnswerIsTask ==
  ASSUME NEW m \in Maps,
         NEW q, q.start \in m.lanes, q.startOffset \in Offsets, q.goalOffset \in Offsets,
         NEW p \in CheapestPaths(m, q)
  PROVE  Builder!IsTask(m, [path |-> p.path, types |-> p.types,
                            startOffset |-> q.startOffset, goalOffset |-> q.goalOffset])
<1>1. /\ p \in UNION { PathsOfLength(m, q.start)[n] : n \in 0 .. Cardinality(m.lanes) }
      /\ Len(p.path) > 1 \/ DirectFinishAllowed(m, q)
  BY DEF CheapestPaths, LegalPaths
<1>2. LegalPath(m, q.start, p)
  BY <1>1, PathsAreLegal
<1>3. Len(p.path) = 1 => OffsetsMoveForward(m, p.path[1], q.startOffset, q.goalOffset)
  BY <1>1, <1>2 DEF DirectFinishAllowed, LegalPath
<1> QED
  BY <1>2, <1>3, BuilderAsksTheSame DEF LegalPath, Builder!IsTask

-----------------------------------------------------------------------------
(* Scores.                                                                   *)

\* The order of scores, written out.
LEMMA BeforeIsLexicographic ==
  ASSUME NEW a \in Scores, NEW b \in Scores
  PROVE  /\ a[1] \in Int /\ a[2] \in Int /\ a[3] \in Int /\ a[4] \in Int /\ a[5] \in Int
         /\ Before(a, b) <=>
              \/ a[1] < b[1]
              \/ a[1] = b[1] /\ a[2] < b[2]
              \/ a[1] = b[1] /\ a[2] = b[2] /\ a[3] < b[3]
              \/ a[1] = b[1] /\ a[2] = b[2] /\ a[3] = b[3] /\ a[4] < b[4]
              \/ a[1] = b[1] /\ a[2] = b[2] /\ a[3] = b[3] /\ a[4] = b[4] /\ a[5] < b[5]
<1>1. \A i \in 1 .. 5 : a[i] \in Int
  BY DEF Scores
<1>2. Len(a) = 5
  BY DEF Scores
<1>3. Before(a, b) <=> \E i \in 1 .. 5 : a[i] < b[i] /\ \A j \in 1 .. i - 1 : a[j] = b[j]
  BY <1>2 DEF Before
<1> QED
  BY <1>1, <1>3

\* Better than the better one is better.
LEMMA BeforeIsTransitive ==
  ASSUME NEW a \in Scores, NEW b \in Scores, NEW c \in Scores,
         Before(a, b), Before(b, c)
  PROVE  Before(a, c)
<1> DEFINE L(x, y) ==
       \/ x[1] < y[1]
       \/ x[1] = y[1] /\ x[2] < y[2]
       \/ x[1] = y[1] /\ x[2] = y[2] /\ x[3] < y[3]
       \/ x[1] = y[1] /\ x[2] = y[2] /\ x[3] = y[3] /\ x[4] < y[4]
       \/ x[1] = y[1] /\ x[2] = y[2] /\ x[3] = y[3] /\ x[4] = y[4] /\ x[5] < y[5]
<1>1. /\ \A i \in 1 .. 5 : a[i] \in Int /\ b[i] \in Int /\ c[i] \in Int
  BY DEF Scores
<1>2. L(a, b) /\ L(b, c)
  BY BeforeIsLexicographic
<1>3. L(a, c)
  BY <1>1, <1>2
<1> QED
  BY <1>3, BeforeIsLexicographic

LEMMA BeforeIsIrreflexive ==
  ASSUME NEW a \in Scores
  PROVE  ~ Before(a, a)
BY BeforeIsLexicographic

\* A route has a length.
LEMMA RouteLengthIsNumber ==
  ASSUME NEW m, IsLaneMap(m), NEW route \in Seq(StepsOf(m))
  PROVE  RouteLength(m, route) \in Int
<1> DEFINE n == Len(route)
           Sum == LengthTo(m, route, n)
           Known == { k \in 0 .. n : Sum[k] \in Int }
<1>1. n \in Nat
  OBVIOUS
<1>2. RouteLength(m, route) = Sum[n]
  BY Zenon DEF RouteLength, LengthTo
<1>3. Sum = [i \in 0 .. n |-> IF i = 0 THEN 0 ELSE Sum[i-1] + StepLength(m, route[i])]
  BY <1>1, LengthIsDefined
<1> HIDE DEF Sum
<1>4. \A i \in 0 .. n : Sum[i] = IF i = 0 THEN 0 ELSE Sum[i-1] + StepLength(m, route[i])
  BY <1>3
<1>5. ASSUME NEW i \in 1 .. n PROVE StepLength(m, route[i]) \in Int
  <2>1. route[i] \in StepsOf(m)
    BY ElementOfSequence
  <2>2. route[i].fromOffset \in Int /\ route[i].toOffset \in Int /\ route[i].toLane \in m.lanes
    BY <2>1 DEF StepsOf
  <2>3. m.length[route[i].toLane] \in Nat
    BY <2>2 DEF IsLaneMap
  <2>4. LaneWidth \in Nat /\ Scale \in Nat
    BY PlannerAssumption, ScaleAssumption
  <2>5. LaneWidth * Scale \in Int
    BY <2>4
  <2>6. Distance(route[i].fromOffset, route[i].toOffset) \in Int
    BY <2>2 DEF Distance
  <2>7. Distance(route[i].fromOffset, route[i].toOffset) * m.length[route[i].toLane] \in Int
    BY <2>3, <2>6
  <2> QED
    BY <2>5, <2>7 DEF StepLength
<1>6. 0 \in Known
  BY <1>1, <1>4
<1>7. ASSUME NEW k \in 0 .. n - 1, k \in Known PROVE k + 1 \in Known
  <2>1. Sum[k] \in Int /\ k + 1 \in 1 .. n
    BY <1>1, <1>7
  <2> QED
    BY <1>1, <1>4, <1>5, <2>1
<1>8. 0 .. n \subseteq Known
  <2> HIDE DEF Known, n
  <2> QED
    BY <1>1, <1>6, <1>7, UpFromZero
<1> QED
  BY <1>1, <1>2, <1>8

-----------------------------------------------------------------------------
(* The steps of the builder.                                                 *)

\* A lane change begins and lands at a number.
LEMMA ChangeOffsetsAreNumbers ==
  ASSUME map \in Maps, BuilderInv, index # Len(task.path)
  PROVE  /\ task.path[index] \in map.lanes
         /\ task.path[index + 1] \in map.lanes
         /\ Builder!ChangeFrom \in Int
         /\ Builder!ChangeTo \in Int
<1>1. /\ task.path \in Seq(map.lanes) /\ task.goalOffset \in Offsets
      /\ index \in 1 .. Len(task.path) /\ currentOffset \in Int
  BY BuilderAsksTheSame DEF BuilderInv, Builder!IsTask
<1>2. /\ task.path[index] \in map.lanes /\ task.path[index + 1] \in map.lanes
  <2>1. index + 1 \in 1 .. Len(task.path)
    BY <1>1
  <2> QED
    BY <1>1, <2>1, ElementOfSequence
<1>3. /\ task.goalOffset \in Int /\ Scale \in Nat /\ ChangeDistance \in Nat \ {0}
      /\ \A l \in map.lanes : map.length[l] \in Nat
  <2>1. Scale \in Nat /\ ChangeDistance \in Nat \ {0} /\ IsLaneMap(map)
    BY ScaleAssumption, PlannerAssumption
  <2>2. task.goalOffset \in Int
    BY <1>1, <2>1 DEF Offsets
  <2> QED
    BY <2>1, <2>2 DEF IsLaneMap
<1>4. \A a, b \in Int : Builder!Lower(a, b) \in Int /\ Builder!Higher(a, b) \in Int
  BY DEF Builder!Lower, Builder!Higher
<1>5. \A p \in Nat : Builder!Percent(p) \in Int
  BY <1>3 DEF Builder!Percent
<1>6. ASSUME NEW l \in map.lanes, NEW way \in Int PROVE Builder!Share(map, l, way) \in Int
  <2>1. CASE map.length[l] = 0
    BY <1>3, <2>1 DEF Builder!Share
  <2>2. CASE map.length[l] # 0
    <3>1. 100 * map.length[l] \in Nat \ {0}
      BY <1>3, <2>2
    <3>2. way * Scale \in Int
      BY <1>3
    <3>3. (way * Scale) \div (100 * map.length[l]) \in Int
      BY <3>1, <3>2
    <3> QED
      BY <1>3, <1>4, <2>2, <3>3 DEF Builder!Share
  <2> QED
    BY <2>1, <2>2
<1>7. ASSUME NEW l \in map.lanes, NEW left \in Int
      PROVE  Builder!DeltaBeforeChange(map, l, left) \in Int
  <2>1. Builder!Higher(map.length[l], ChangeDistance) \in Nat \ {0}
    BY <1>3 DEF Builder!Higher
  <2>2. ChangeDistance * Scale \in Int
    BY <1>3
  <2>3. (ChangeDistance * Scale) \div Builder!Higher(map.length[l], ChangeDistance) \in Int
    BY <2>1, <2>2
  <2> QED
    BY <1>4, <2>3 DEF Builder!DeltaBeforeChange
<1>8. ASSUME NEW l \in map.lanes, NEW o \in Int PROVE Builder!ChangeFromOffset(map, l, o) \in Int
  <2>1. Scale - o \in Int
    BY <1>3
  <2>2. /\ Builder!DeltaBeforeChange(map, l, Scale - o) \in Int
        /\ Builder!DeltaBeforeChange(map, l, o) \in Int
    BY <1>7, <2>1
  <2>3. /\ o + Builder!DeltaBeforeChange(map, l, Scale - o) \in Int
        /\ o - Builder!DeltaBeforeChange(map, l, o) \in Int
    BY <2>2
  <2>4. Builder!Percent(95) \in Int /\ Builder!Percent(5) \in Int
    BY <1>5
  <2> QED
    BY <1>4, <2>3, <2>4 DEF Builder!ChangeFromOffset
<1>9. Builder!ChangeFrom \in Int
  <2>1. Builder!Percent(2) \in Int
    BY <1>5
  <2>2. \A from \in Int : Builder!BeforeGoal(map, task.path[index], currentOffset, from,
                                            task.goalOffset) \in Int
    <3>1. /\ currentOffset + Builder!Percent(2) \in Int /\ task.goalOffset - Builder!Percent(2) \in Int
          /\ currentOffset - Builder!Percent(2) \in Int /\ task.goalOffset + Builder!Percent(2) \in Int
      BY <1>1, <1>3, <2>1
    <3> QED
      BY <1>4, <3>1 DEF Builder!BeforeGoal
  <2>3. Builder!ChangeFromOffset(map, task.path[index], currentOffset) \in Int
    BY <1>1, <1>2, <1>8
  <2> QED
    BY <2>2, <2>3 DEF Builder!ChangeFrom, Builder!Lane
<1>10. \A o \in Int : Builder!AdvanceForward(map, task.path[index + 1], o, Builder!LandingWay) \in Int
  <2>1. Builder!LandingWay \in Int
    BY <1>3 DEF Builder!LandingWay
  <2> TAKE o \in Int
  <2>2. Builder!Share(map, task.path[index + 1], Builder!LandingWay) \in Int
    BY <1>2, <1>6, <2>1
  <2>3. /\ o + Builder!Share(map, task.path[index + 1], Builder!LandingWay) \in Int
        /\ o - Builder!Share(map, task.path[index + 1], Builder!LandingWay) \in Int
    BY <2>2
  <2>4. /\ Builder!Lower(Scale, o + Builder!Share(map, task.path[index + 1], Builder!LandingWay)) \in Int
        /\ Builder!Higher(0, o - Builder!Share(map, task.path[index + 1], Builder!LandingWay)) \in Int
    <3>1. Scale \in Int /\ 0 \in Int
      BY <1>3
    <3> QED
      BY <1>4, <2>3, <3>1
  <2> QED
    BY <2>4 DEF Builder!AdvanceForward
<1>11. Builder!ChangeTo \in Int
  BY <1>3, <1>4, <1>9, <1>10 DEF Builder!ChangeTo, Builder!NextLane, Builder!NotPastGoal
<1> QED
  BY <1>2, <1>9, <1>11

\* Each step of the builder goes on with the task it was given.
LEMMA BuilderSteps ==
  ASSUME map \in Maps, BuilderInv, Builder!Next
  PROVE  BuilderInv' /\ map' = map /\ task' = task
<1>0. Scale \in Nat
  BY ScaleAssumption
<1>1. /\ task.path \in Seq(map.lanes) /\ task.goalOffset \in Int
      /\ index \in 1 .. Len(task.path) /\ currentOffset \in Int
      /\ steps \in Seq(StepsOf(map))
  <2>1. /\ task.path \in Seq(map.lanes) /\ task.goalOffset \in Offsets
        /\ index \in 1 .. Len(task.path) /\ currentOffset \in Int
        /\ steps \in Seq(StepsOf(map))
    BY BuilderAsksTheSame DEF BuilderInv, Builder!IsTask
  <2>2. task.goalOffset \in Int
    BY <1>0, <2>1 DEF Offsets
  <2> QED
    BY <2>1, <2>2
<1>2. task.path[index] \in map.lanes
  BY <1>1, ElementOfSequence
<1>3. ASSUME NEW from \in Int, NEW to \in Int
      PROVE  Builder!LaneSegment(from, to) \in StepsOf(map)
  BY <1>2 DEF Builder!LaneSegment, Builder!Lane, StepsOf
<1>4. ASSUME map' = map, task' = task, index' \in 1 .. Len(task.path), currentOffset' \in Int,
             steps' \in Seq(StepsOf(map)),
             result' \in {"building", "built", "goal behind", "change behind"}
      PROVE  BuilderInv'
  BY <1>4 DEF BuilderInv
<1>5. CASE Builder!FinishOnGoalLane
  <2>1. steps' = Append(steps, Builder!LaneSegment(currentOffset, task.goalOffset))
    BY <1>5 DEF Builder!FinishOnGoalLane
  <2>2. steps' \in Seq(StepsOf(map))
    BY <1>1, <1>3, <2>1, AppendFacts
  <2> QED
    BY <1>1, <1>4, <1>5, <2>2 DEF Builder!FinishOnGoalLane
<1>6. CASE Builder!GoalBehind \/ Builder!ChangeBehind
  BY <1>1, <1>4, <1>6 DEF Builder!GoalBehind, Builder!ChangeBehind, Builder!Raise
<1>7. CASE Builder!DriveForward
  <2>1. \A l : Builder!TravelEndOffset(map, l) \in Int /\ Builder!TravelStartOffset(map, l) \in Int
    BY <1>0 DEF Builder!TravelEndOffset, Builder!TravelStartOffset
  <2>2. Builder!LaneSegment(currentOffset, Builder!TravelEndOffset(map, Builder!Lane))
          \in StepsOf(map)
    BY <1>1, <1>3, <2>1
  <2>3. steps' = Append(steps, Builder!LaneSegment(currentOffset,
                                 Builder!TravelEndOffset(map, Builder!Lane)))
    BY <1>7 DEF Builder!DriveForward
  <2>4. steps' \in Seq(StepsOf(map))
    BY <1>1, <2>2, <2>3, AppendFacts
  <2>5. index' = index + 1 /\ index # Len(task.path)
    BY <1>7 DEF Builder!DriveForward, Builder!OnGoalLane
  <2>6. index' \in 1 .. Len(task.path)
    BY <1>1, <2>5
  <2> QED
    BY <1>4, <1>7, <2>1, <2>4, <2>6 DEF Builder!DriveForward, BuilderInv
<1>8. CASE Builder!ChangeLane
  <2>1. index' = index + 1 /\ index # Len(task.path)
    BY <1>8 DEF Builder!ChangeLane, Builder!OnGoalLane
  <2>2. index' \in 1 .. Len(task.path)
    BY <1>1, <2>1
  <2>3. /\ task.path[index + 1] \in map.lanes
        /\ Builder!ChangeFrom \in Int /\ Builder!ChangeTo \in Int
    BY <2>1, ChangeOffsetsAreNumbers
  <2> DEFINE segment == Builder!LaneSegment(currentOffset, Builder!ChangeFrom)
             change == Builder!LaneChange(Builder!ChangeFrom, Builder!ChangeTo)
  <2>4. segment \in StepsOf(map)
    BY <1>1, <1>3, <2>3
  <2>5. change \in StepsOf(map)
    BY <1>2, <2>3 DEF Builder!LaneChange, Builder!Lane, Builder!NextLane, StepsOf
  <2>6. steps' = steps \o <<segment, change>>
    BY <1>8 DEF Builder!ChangeLane
  <2> DEFINE All == StepsOf(map)
  <2> HIDE DEF segment, change, All
  <2>7. steps' \in Seq(All)
    BY <1>1, <2>4, <2>5, <2>6 DEF All
  <2> QED
    BY <1>4, <1>8, <2>2, <2>3, <2>7 DEF Builder!ChangeLane, BuilderInv, All
<1> QED
  BY <1>5, <1>6, <1>7, <1>8
     DEF Builder!Next, Builder!FinishOnGoalLane, Builder!GoalBehind, Builder!DriveForward,
         Builder!ChangeLane, Builder!ChangeBehind, Builder!Raise

-----------------------------------------------------------------------------
(* The loop over the pairs.                                                  *)

\* What is known of the candidates of a state.
LEMMA CandidatesAreMatches ==
  ASSUME PlannerInv
  PROVE  /\ starts \in Seq(Matches(map)) /\ Len(starts) \in Nat
         /\ goals \in Seq(Matches(map)) /\ Len(goals) \in Nat
         /\ \A i \in 1 .. Len(starts) : starts[i] \in Matches(map) /\ starts[1].snap <= starts[i].snap
         /\ \A j \in 1 .. Len(goals) : goals[j] \in Matches(map) /\ goals[1].snap <= goals[j].snap
<1>1. request.starts \in Seq(Matches(map)) /\ request.goals \in Seq(Matches(map))
  BY PlannerAssumption DEF PlannerInv
<1> QED
  BY <1>1, CandidateFacts DEF PlannerInv

\* The score of the route of a pair.
LEMMA ScoreOfPair ==
  ASSUME PlannerInv, pair \in DOMAIN outcomes, pc = "build"
  PROVE  Score \in Scores /\ Score[1] = SnapsOf(pair)
<1>1. pair[1] \in 1 .. Len(starts) /\ pair[2] \in 1 .. Len(goals)
  BY DEF PlannerInv, OutcomesInv
<1>2. Start \in Matches(map) /\ Goal \in Matches(map)
  BY <1>1, CandidatesAreMatches DEF Start, Goal
<1>3. /\ Start.snap \in Nat /\ Goal.snap \in Nat
      /\ Start.probability \in Nat /\ Goal.probability \in Nat
  BY <1>2 DEF Matches
<1>4. RouteLength(map, steps) \in Int
  BY PlannerAssumption, RouteLengthIsNumber DEF PlannerInv, BuilderInv
<1>5. \A b : Flag(b) \in Int
  BY DEF Flag
<1>6. /\ Start.snap + Goal.snap \in Int
      /\ 0 - (Start.probability + Goal.probability) \in Int
  BY <1>3
<1> DEFINE length == RouteLength(map, steps)
           away == Start.snap + Goal.snap
           unlikely == 0 - (Start.probability + Goal.probability)
           noStart == Flag(~ Start.inLane)
           noGoal == Flag(~ Goal.inLane)
<1>7. Score = <<away, length, noStart, noGoal, unlikely>>
  BY Zenon DEF Score
<1>8. away = SnapsOf(pair)
  BY DEF SnapsOf, Start, Goal
<1>9. length \in Int /\ away \in Int /\ unlikely \in Int /\ noStart \in Int /\ noGoal \in Int
  BY <1>4, <1>5, <1>6
<1> HIDE DEF length, away, unlikely, noStart, noGoal
<1>10. Score \in Scores
  BY <1>7, <1>9 DEF Scores
<1> QED
  BY <1>7, <1>8, <1>10

LEMMA PlannerInit ==
  Init => PlannerInv
<1> SUFFICES ASSUME Init PROVE PlannerInv
  OBVIOUS
<1>1. \A p \in DOMAIN outcomes : outcomes[p] = Outcome("untried", << >>)
  BY DEF Init
<1>2. \A p \in DOMAIN outcomes : outcomes[p].how = "untried"
  BY <1>1 DEF Outcome
<1>3. DOMAIN outcomes = (1 .. Len(starts)) \X (1 .. Len(goals))
  BY DEF Init
<1>4. \A p \in DOMAIN outcomes : ~ Earlier(p)
  <2>1. request.starts \in Seq(Matches(map)) /\ request.goals \in Seq(Matches(map))
    BY PlannerAssumption DEF Init
  <2>2. Len(starts) \in Nat /\ Len(goals) \in Nat
    BY <2>1, CandidateFacts DEF Init
  <2>3. pair[1] = 1 /\ pair[2] = 1
    BY DEF Init
  <2> QED
    BY <1>3, <2>2, <2>3 DEF Earlier
<1>5. pc = "candidates" /\ best = None
  BY DEF Init
<1>6. OutcomesInv
  BY <1>2, <1>3, <1>4, <1>5 DEF OutcomesInv, Built
<1>7. BestInv
  BY <1>2, <1>5 DEF BestInv, Built
<1> QED
  BY <1>5, <1>6, <1>7 DEF Init, PlannerInv

\* The outcome of the pair is written down, and the next pair is the first one
\* without an outcome.
LEMMA OutcomeWritten ==
  ASSUME PlannerInv, pc \in {"search", "build"}, NEW outcome, PairDone(outcome),
         outcome.how # "untried",
         outcome.how = "built" =>
           outcome.score \in Scores /\ outcome.score[1] = SnapsOf(pair)
  PROVE  OutcomesInv' /\ pair \in DOMAIN outcomes
<1>1. /\ outcomes' = [outcomes EXCEPT ![pair] = outcome]
      /\ pair' = NextPair(pair)
      /\ pc' = IF NextPair(pair)[1] > Len(starts) THEN "choose" ELSE "search"
      /\ starts' = starts /\ goals' = goals
  BY DEF PairDone
<1>2. /\ DOMAIN outcomes = (1 .. Len(starts)) \X (1 .. Len(goals))
      /\ pair \in DOMAIN outcomes
      /\ \A p \in DOMAIN outcomes :
           Built(p) => outcomes[p].score \in Scores /\ outcomes[p].score[1] = SnapsOf(p)
      /\ \A p \in DOMAIN outcomes : Earlier(p) <=> outcomes[p].how # "untried"
  BY DEF PlannerInv, OutcomesInv
<1>3. Len(starts) \in Nat /\ Len(goals) \in Nat
  BY CandidatesAreMatches
<1>4. pair[1] \in 1 .. Len(starts) /\ pair[2] \in 1 .. Len(goals) /\ pair = <<pair[1], pair[2]>>
  BY <1>2
<1>5. /\ DOMAIN outcomes' = DOMAIN outcomes
      /\ outcomes'[pair] = outcome
      /\ \A p \in DOMAIN outcomes : p # pair => outcomes'[p] = outcomes[p]
  BY <1>1, <1>2
<1>6. ASSUME NEW p \in DOMAIN outcomes
      PROVE  /\ Earlier(p)' <=> (Earlier(p) \/ p = pair)
  <2>1. p[1] \in 1 .. Len(starts) /\ p[2] \in 1 .. Len(goals) /\ p = <<p[1], p[2]>>
    BY <1>2
  <2>2. Earlier(p)' <=> (p[1] < pair'[1] \/ (p[1] = pair'[1] /\ p[2] < pair'[2]))
    BY DEF Earlier
  <2>3. p = pair <=> (p[1] = pair[1] /\ p[2] = pair[2])
    BY <1>4, <2>1
  <2>4. CASE pair[2] < Len(goals)
    <3>1. pair'[1] = pair[1] /\ pair'[2] = pair[2] + 1
      BY <1>1, <2>4 DEF NextPair
    <3> QED
      BY <1>3, <1>4, <2>1, <2>2, <2>3, <3>1 DEF Earlier
  <2>5. CASE ~ (pair[2] < Len(goals))
    <3>1. pair'[1] = pair[1] + 1 /\ pair'[2] = 1
      BY <1>1, <2>5 DEF NextPair
    <3>2. pair[2] = Len(goals)
      BY <1>3, <1>4, <2>5
    <3> QED
      BY <1>3, <1>4, <2>1, <2>2, <2>3, <3>1, <3>2 DEF Earlier
  <2> QED
    BY <2>4, <2>5
<1>7. \A p \in DOMAIN outcomes' : Earlier(p)' <=> outcomes'[p].how # "untried"
  BY <1>2, <1>5, <1>6
<1>8. ASSUME NEW p \in DOMAIN outcomes', Built(p)'
      PROVE  outcomes'[p].score \in Scores /\ outcomes'[p].score[1] = SnapsOf(p)'
  <2>1. SnapsOf(p)' = SnapsOf(p)
    BY <1>1 DEF SnapsOf
  <2>2. CASE p = pair
    BY <1>5, <1>8, <2>1, <2>2 DEF Built
  <2>3. CASE p # pair
    <3>1. outcomes'[p] = outcomes[p] /\ Built(p) /\ p \in DOMAIN outcomes
      BY <1>5, <1>8, <2>3 DEF Built
    <3> QED
      BY <1>2, <2>1, <3>1
  <2> QED
    BY <2>2, <2>3
<1>9. ASSUME pc' = "search" PROVE pair' \in DOMAIN outcomes'
  <2>1. ~ (NextPair(pair)[1] > Len(starts))
    BY <1>1, <1>9
  <2>2. NextPair(pair)[1] \in 1 .. Len(starts) /\ NextPair(pair)[2] \in 1 .. Len(goals)
        /\ NextPair(pair) = <<NextPair(pair)[1], NextPair(pair)[2]>>
    BY <1>3, <1>4, <2>1 DEF NextPair
  <2> QED
    BY <1>1, <1>2, <1>5, <2>2
<1>10. ASSUME pc' = "choose", NEW p \in DOMAIN outcomes' PROVE outcomes'[p].how # "untried"
  <2>1. NextPair(pair)[1] > Len(starts)
    BY <1>1, <1>10
  <2>2. p[1] \in 1 .. Len(starts)
    BY <1>2, <1>5
  <2>3. NextPair(pair)[1] \in Int
    BY <1>4 DEF NextPair
  <2>4. Earlier(p)'
    BY <1>1, <1>3, <2>1, <2>2, <2>3 DEF Earlier
  <2> QED
    BY <1>7, <2>4
<1>11. pc' \in {"search", "choose"}
  BY <1>1
<1> QED
  BY <1>1, <1>2, <1>5, <1>7, <1>8, <1>9, <1>10, <1>11 DEF OutcomesInv

\* What was best stays best when another pair is known to be no better.
LEMMA BestStays ==
  ASSUME PlannerInv, pc \in {"search", "build"}, NEW outcome, PairDone(outcome), best' = best,
         outcome.how = "built" => best # None /\ ~ Before(outcome.score, best.score)
  PROVE  BestInv'
<1>1. /\ outcomes' = [outcomes EXCEPT ![pair] = outcome]
      /\ pc' \in {"choose", "search"}
  BY DEF PairDone
<1>2. /\ pair \in DOMAIN outcomes
      /\ \A p \in DOMAIN outcomes : Earlier(p) <=> outcomes[p].how # "untried"
      /\ DOMAIN outcomes = (1 .. Len(starts)) \X (1 .. Len(goals))
  BY DEF PlannerInv, OutcomesInv
<1>3. ~ Earlier(pair)
  <2>1. pair[1] \in Int /\ pair[2] \in Int
    BY <1>2, CandidatesAreMatches
  <2> QED
    BY <2>1 DEF Earlier
<1>4. ~ Built(pair)
  BY <1>2, <1>3 DEF Built
<1>5. /\ DOMAIN outcomes' = DOMAIN outcomes
      /\ outcomes'[pair] = outcome
      /\ \A p \in DOMAIN outcomes : p # pair => outcomes'[p] = outcomes[p]
  BY <1>1, <1>2
<1>6. ASSUME best # None
      PROVE  /\ best.pair \in DOMAIN outcomes'
             /\ outcomes'[best.pair] = Outcome("built", best.score)
  <2>1. best.pair \in DOMAIN outcomes /\ outcomes[best.pair] = Outcome("built", best.score)
    BY <1>6 DEF PlannerInv, BestInv
  <2>2. best.pair # pair
    BY <1>4, <2>1 DEF Built, Outcome
  <2> QED
    BY <1>5, <2>1, <2>2
<1>7. ASSUME best # None, NEW p \in DOMAIN outcomes', Built(p)'
      PROVE  ~ Before(outcomes'[p].score, best.score)
  <2>1. CASE p = pair
    BY <1>5, <1>7, <2>1 DEF Built
  <2>2. CASE p # pair
    <3>1. outcomes'[p] = outcomes[p] /\ Built(p) /\ p \in DOMAIN outcomes
      BY <1>5, <1>7, <2>2 DEF Built
    <3> QED
      BY <1>7, <3>1 DEF PlannerInv, BestInv
  <2> QED
    BY <2>1, <2>2
<1>8. ASSUME best = None, NEW p \in DOMAIN outcomes' PROVE ~ Built(p)'
  <2>1. CASE p = pair
    BY <1>5, <1>8, <2>1 DEF Built
  <2>2. CASE p # pair
    <3>1. outcomes'[p] = outcomes[p] /\ p \in DOMAIN outcomes
      BY <1>5, <2>2
    <3>2. ~ Built(p)
      BY <1>8, <3>1 DEF PlannerInv, BestInv
    <3> QED
      BY <3>1, <3>2 DEF Built
  <2> QED
    BY <2>1, <2>2
<1>9. None' = None /\ best' = best
  BY DEF None
<1> QED
  BY <1>1, <1>6, <1>7, <1>8, <1>9 DEF BestInv

\* A better score becomes the best.
LEMMA BestReplaced ==
  ASSUME PlannerInv, pc = "build", result = "built", Better, Compare
  PROVE  BestInv'
<1>1. /\ outcomes' = [outcomes EXCEPT ![pair] = Outcome("built", Score)]
      /\ best' = [pair |-> pair, score |-> Score]
      /\ pc' \in {"choose", "search"}
  BY DEF Compare, PairDone
<1>2. pair \in DOMAIN outcomes
  BY DEF PlannerInv, OutcomesInv
<1>3. Score \in Scores
  BY <1>2, ScoreOfPair
<1>4. /\ DOMAIN outcomes' = DOMAIN outcomes
      /\ outcomes'[pair] = Outcome("built", Score)
      /\ \A p \in DOMAIN outcomes : p # pair => outcomes'[p] = outcomes[p]
  BY <1>1, <1>2
<1>5. best'.pair = pair /\ best'.score = Score
  BY <1>1
<1>6. ASSUME NEW p \in DOMAIN outcomes', Built(p)'
      PROVE  ~ Before(outcomes'[p].score, Score)
  <2>1. CASE p = pair
    BY <1>3, <1>4, <2>1, BeforeIsIrreflexive DEF Outcome
  <2>2. CASE p # pair
    <3>1. outcomes'[p] = outcomes[p] /\ Built(p) /\ p \in DOMAIN outcomes
      BY <1>4, <1>6, <2>2 DEF Built
    <3>2. best # None
      BY <3>1 DEF PlannerInv, BestInv
    <3>3. /\ Before(Score, best.score)
          /\ ~ Before(outcomes[p].score, best.score)
      BY <3>1, <3>2 DEF PlannerInv, BestInv, Better
    <3>4. outcomes[p].score \in Scores
      BY <3>1 DEF PlannerInv, OutcomesInv
    <3>5. best.pair \in DOMAIN outcomes /\ outcomes[best.pair] = Outcome("built", best.score)
      BY <3>2 DEF PlannerInv, BestInv
    <3>6. best.score \in Scores
      BY <3>5 DEF PlannerInv, OutcomesInv, Outcome, Built
    <3> QED
      BY <1>3, <3>1, <3>3, <3>4, <3>6, BeforeIsTransitive
  <2> QED
    BY <2>1, <2>2
<1>7. best' # None'
  <2>1. pair # <<0, 0>>
    BY <1>2, CandidatesAreMatches DEF PlannerInv, OutcomesInv
  <2> QED
    BY <1>5, <2>1 DEF None
<1> QED
  BY <1>1, <1>2, <1>4, <1>5, <1>6, <1>7 DEF BestInv

LEMMA PlannerStep ==
  PlannerInv /\ [Next]_vars => PlannerInv'
<1> SUFFICES ASSUME PlannerInv, [Next]_vars PROVE PlannerInv'
  OBVIOUS
<1>1. CASE NoStartLane \/ NoGoalLane \/ EnterLoop
  <2>1. UNCHANGED <<map, request, starts, goals, pair, best, outcomes, buildVars>>
    BY <1>1 DEF NoStartLane, NoGoalLane, EnterLoop, End
  <2>2. pc = "candidates" /\ pc' \in {"no start lane", "no goal lane", "search"}
    BY <1>1 DEF NoStartLane, NoGoalLane, EnterLoop, End
  <2>3. pc' = "search" => pair \in DOMAIN outcomes
    <3>1. ASSUME pc' = "search" PROVE starts # << >> /\ goals # << >>
      BY <1>1, <3>1 DEF NoStartLane, NoGoalLane, EnterLoop, End
    <3>2. ASSUME pc' = "search" PROVE 1 \in 1 .. Len(starts) /\ 1 \in 1 .. Len(goals)
      <4>1. /\ starts \in Seq(Matches(map)) /\ Len(starts) \in Nat
            /\ goals \in Seq(Matches(map)) /\ Len(goals) \in Nat
        BY CandidatesAreMatches
      <4> QED
        BY <3>1, <3>2, <4>1
    <3> QED
      BY <2>2, <3>2 DEF PlannerInv, OutcomesInv
  <2>4. OutcomesInv'
    BY <2>1, <2>2, <2>3 DEF PlannerInv, OutcomesInv, Earlier, SnapsOf, Built
  <2>5. BestInv'
    BY <2>1, <2>2 DEF PlannerInv, BestInv, Built, None
  <2> QED
    BY <2>1, <2>2, <2>4, <2>5 DEF PlannerInv
<1>2. CASE PathFound
  <2>1. UNCHANGED <<map, request, starts, goals, pair, best, outcomes>>
    BY <1>2 DEF PathFound
  <2>2. pc = "search" /\ pc' = "build" /\ index' = 1 /\ currentOffset' = Start.offset
        /\ steps' = << >> /\ result' = "building"
    BY <1>2 DEF PathFound
  <2>3. PICK p \in CheapestPaths(map, Query) :
          task' = [path |-> p.path, types |-> p.types,
                   startOffset |-> Start.offset, goalOffset |-> Goal.offset]
    BY <1>2 DEF PathFound
  <2>4. Start \in Matches(map) /\ Goal \in Matches(map)
    BY <2>2, CandidatesAreMatches DEF PlannerInv, OutcomesInv, Start, Goal
  <2>5. Start.lane \in map.lanes /\ Start.offset \in Offsets /\ Goal.offset \in Offsets
    BY <2>4 DEF Matches
  <2>6. /\ Query.start = Start.lane /\ Query.startOffset = Start.offset
        /\ Query.goalOffset = Goal.offset
    BY DEF Query
  <2>7. Builder!IsTask(map, task')
    <3> HIDE DEF Query
    <3>1. map \in Maps
      BY DEF PlannerInv
    <3> QED
      BY <2>3, <2>5, <2>6, <3>1, AnswerIsTask
  <2>8. Start.offset \in Int
    BY <2>5, ScaleAssumption DEF Offsets
  <2>9. 1 \in 1 .. Len(task'.path)
    <3>1. Len(task'.path) = Len(task'.types) + 1 /\ task'.types \in Seq({"forward", "lane_change"})
      BY <2>7 DEF Builder!IsTask
    <3>2. Len(task'.types) \in Nat
      BY <3>1
    <3> QED
      BY <3>1, <3>2
  <2>10. BuilderInv'
    <3>1. << >> \in Seq(StepsOf(map))
      OBVIOUS
    <3> QED
      BY <2>1, <2>2, <2>7, <2>8, <2>9, <3>1 DEF BuilderInv
  <2>11. OutcomesInv'
    BY <2>1, <2>2 DEF PlannerInv, OutcomesInv, Earlier, SnapsOf, Built
  <2>12. BestInv'
    BY <2>1, <2>2 DEF PlannerInv, BestInv, Built, None
  <2> QED
    BY <2>1, <2>2, <2>10, <2>11, <2>12 DEF PlannerInv
<1>3. CASE NoPath \/ BuildFailed
  <2>1. PICK outcome : /\ PairDone(outcome)
                       /\ outcome.how \in {"no path", "goal behind", "change behind"}
    <3>1. CASE NoPath
      <4>1. Outcome("no path", << >>).how = "no path" /\ PairDone(Outcome("no path", << >>))
        BY <3>1 DEF NoPath, Outcome
      <4> QED
        BY <4>1
    <3>2. CASE BuildFailed
      <4>1. Outcome(result, << >>).how = result /\ PairDone(Outcome(result, << >>))
            /\ result \in {"goal behind", "change behind"}
        BY <3>2 DEF BuildFailed, Outcome
      <4> QED
        BY <4>1
    <3> QED
      BY <1>3, <3>1, <3>2
  <2>2. pc \in {"search", "build"} /\ best' = best
    BY <1>3 DEF NoPath, BuildFailed
  <2>3. outcome.how # "untried" /\ outcome.how # "built"
    BY <2>1
  <2>4. OutcomesInv' /\ BestInv'
    BY <2>1, <2>2, <2>3, OutcomeWritten, BestStays
  <2>5. pc' \notin {"candidates", "build"} /\ UNCHANGED <<map, request, starts, goals>>
    BY <2>1 DEF PairDone
  <2> QED
    BY <2>4, <2>5 DEF PlannerInv
<1>4. CASE Build
  <2>1. pc = "build" /\ Builder!Next /\ UNCHANGED loopVars
    BY <1>4 DEF Build
  <2>2. BuilderInv' /\ map' = map
    BY <2>1, BuilderSteps DEF PlannerInv
  <2>3. OutcomesInv'
    BY <2>1 DEF loopVars, PlannerInv, OutcomesInv, Earlier, SnapsOf, Built
  <2>4. BestInv'
    BY <2>1 DEF loopVars, PlannerInv, BestInv, Built, None
  <2> QED
    BY <2>1, <2>2, <2>3, <2>4 DEF loopVars, PlannerInv
<1>5. CASE Compare
  <2>1. pc = "build" /\ result = "built" /\ PairDone(Outcome("built", Score))
        /\ best' = IF Better THEN [pair |-> pair, score |-> Score] ELSE best
    BY <1>5 DEF Compare
  <2>2. Score \in Scores /\ Score[1] = SnapsOf(pair)
    BY <2>1, ScoreOfPair DEF PlannerInv, OutcomesInv
  <2>3. Outcome("built", Score).how = "built" /\ Outcome("built", Score).score = Score
    BY DEF Outcome
  <2>4. OutcomesInv'
    <3> HIDE DEF Outcome
    <3> QED
      BY <2>1, <2>2, <2>3, OutcomeWritten
  <2>5. BestInv'
    <3>1. CASE Better
      BY <1>5, <2>1, <3>1, BestReplaced
    <3>2. CASE ~ Better
      BY <2>1, <2>3, <3>2, BestStays DEF Better
    <3> QED
      BY <3>1, <3>2
  <2>6. pc' \notin {"candidates", "build"} /\ UNCHANGED <<map, request, starts, goals>>
    BY <2>1 DEF PairDone
  <2> QED
    BY <2>4, <2>5, <2>6 DEF PlannerInv
<1>6. CASE Return \/ NoRoute
  <2>1. UNCHANGED <<map, request, starts, goals, pair, best, outcomes, buildVars>>
    BY <1>6 DEF Return, NoRoute, End
  <2>2. /\ pc = "choose" /\ pc' \in {"returned", "no route"}
        /\ pc' = "returned" => best # None
        /\ pc' = "no route" => best = None
    BY <1>6 DEF Return, NoRoute, End
  <2>3. OutcomesInv'
    BY <2>1, <2>2 DEF PlannerInv, OutcomesInv, Earlier, SnapsOf, Built
  <2>4. BestInv'
    BY <2>1, <2>2 DEF PlannerInv, BestInv, Built, None
  <2> QED
    BY <2>1, <2>2, <2>3, <2>4 DEF PlannerInv
<1>7. CASE UNCHANGED vars
  <2>1. OutcomesInv'
    BY <1>7 DEF vars, loopVars, PlannerInv, OutcomesInv, Earlier, SnapsOf, Built
  <2>2. BestInv'
    BY <1>7 DEF vars, loopVars, PlannerInv, BestInv, Built, None
  <2>3. pc = "build" => BuilderInv'
    BY <1>7 DEF vars, buildVars, PlannerInv, BuilderInv
  <2> QED
    BY <1>7, <2>1, <2>2, <2>3 DEF vars, loopVars, PlannerInv
<1> QED
  BY <1>1, <1>2, <1>3, <1>4, <1>5, <1>6, <1>7 DEF Next

LEMMA PlannerKeepsInv ==
  Spec => []PlannerInv
BY PlannerInit, PlannerStep, PTL DEF Spec

-----------------------------------------------------------------------------
(* What the planner promises.                                                *)

\* find_shortest_route returns the route with the best score of all pairs of
\* candidates, and gives up only if no pair leads to a route.
THEOREM BestRouteReturned ==
  Spec => []BestOfAllPairs
<1>1. PlannerInv => BestOfAllPairs
  BY DEF PlannerInv, OutcomesInv, BestInv, BestOfAllPairs
<1> QED
  BY <1>1, PlannerKeepsInv, PTL

\* If the first pair of candidates leads to a route and no other pair is as
\* near, the route that find_shortest_route returns is the one of that pair, the
\* one between the snap points it returns with it.
THEOREM SnapPointsKept ==
  Spec => []SnapPointsOnRoute
<1>1. ASSUME PlannerInv, pc = "returned", Built(<<1, 1>>),
             \A p \in DOMAIN outcomes \ {<<1, 1>>} :
                \/ starts[p[1]].snap # starts[1].snap
                \/ goals[p[2]].snap # goals[1].snap
      PROVE  best.pair = <<1, 1>>
  <2> SUFFICES ASSUME best.pair # <<1, 1>> PROVE FALSE
    OBVIOUS
  <2>1. /\ best.pair \in DOMAIN outcomes
        /\ outcomes[best.pair] = Outcome("built", best.score)
        /\ \A p \in DOMAIN outcomes : Built(p) => ~ Before(outcomes[p].score, best.score)
    BY <1>1 DEF PlannerInv, BestInv
  <2>2. /\ DOMAIN outcomes = (1 .. Len(starts)) \X (1 .. Len(goals))
        /\ \A p \in DOMAIN outcomes :
             Built(p) => outcomes[p].score \in Scores /\ outcomes[p].score[1] = SnapsOf(p)
    BY <1>1 DEF PlannerInv, OutcomesInv
  <2>3. best.pair[1] \in 1 .. Len(starts) /\ best.pair[2] \in 1 .. Len(goals)
    BY <2>1, <2>2
  <2>4. <<1, 1>> \in DOMAIN outcomes /\ 1 \in 1 .. Len(starts) /\ 1 \in 1 .. Len(goals)
    BY <1>1, <2>2, <2>3, CandidatesAreMatches
  <2>5. /\ starts[1] \in Matches(map) /\ starts[best.pair[1]] \in Matches(map)
        /\ starts[1].snap <= starts[best.pair[1]].snap
        /\ goals[1] \in Matches(map) /\ goals[best.pair[2]] \in Matches(map)
        /\ goals[1].snap <= goals[best.pair[2]].snap
    BY <1>1, <2>3, <2>4, CandidatesAreMatches
  <2>6. /\ starts[1].snap \in Nat /\ starts[best.pair[1]].snap \in Nat
        /\ goals[1].snap \in Nat /\ goals[best.pair[2]].snap \in Nat
    BY <2>5 DEF Matches
  <2>7. SnapsOf(<<1, 1>>) < SnapsOf(best.pair)
    BY <1>1, <2>1, <2>5, <2>6 DEF SnapsOf
  <2>8. Built(best.pair) /\ outcomes[best.pair].score = best.score
    BY <2>1 DEF Built, Outcome
  <2>9. /\ outcomes[<<1, 1>>].score \in Scores /\ outcomes[<<1, 1>>].score[1] = SnapsOf(<<1, 1>>)
        /\ best.score \in Scores /\ best.score[1] = SnapsOf(best.pair)
    BY <1>1, <2>1, <2>2, <2>4, <2>8
  <2>10. Before(outcomes[<<1, 1>>].score, best.score)
    BY <2>7, <2>9, BeforeIsLexicographic
  <2> QED
    BY <1>1, <2>1, <2>4, <2>10
<1>2. PlannerInv => SnapPointsOnRoute
  BY <1>1 DEF SnapPointsOnRoute
<1> QED
  BY <1>2, PlannerKeepsInv, PTL

\* What find_lane_path answers is what build_custom_route was made for, in every
\* run of the loop: a path of legal moves on the map, with one type per move.
THEOREM BuilderIsAskedRight ==
  Spec => [](pc = "build" => Builder!IsTask(map, task))
<1>1. PlannerInv => (pc = "build" => Builder!IsTask(map, task))
  BY DEF PlannerInv, BuilderInv
<1> QED
  BY <1>1, PlannerKeepsInv, PTL
=============================================================================
