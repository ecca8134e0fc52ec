---------------------------- MODULE Poker_proofs ----------------------------
(***************************************************************************)
(* Proofs about the poker engine for every table size, stack and blind, in *)
(* five parts: the operators of BettingRound; a street of betting and the  *)
(* history projection beside it (BettingStreet, ActionFacts); the pots and *)
(* the awards (Pots); a whole hand (GameHand); the settlement of any hand  *)
(* (Settlement).                                                           *)
(***************************************************************************)
EXTENDS GameHand, ActionFacts, Settlement, SumFacts, WellFoundedInduction

-----------------------------------------------------------------------------
(* Part 1. The operators of BettingRound: who is next to act, and what opening,
   acting, retiring and check_done do to the fields of a round. *)

\* A bounded, non-empty set of natural numbers has the maximum Max takes.
LEMMA MaxOfBounded ==
  ASSUME NEW T \in SUBSET Nat, T # {}, NEW b \in Nat, \A x \in T : x <= b
  PROVE  Max(T) \in T /\ \A y \in T : y <= Max(T)
<1> DEFINE U == {b - x : x \in T}
<1>1. U \in SUBSET Nat /\ U # {}
  <2>1. \A x \in T : b - x \in Nat
    OBVIOUS
  <2>2. U \in SUBSET Nat
    BY <2>1
  <2>3. PICK x \in T : TRUE
    OBVIOUS
  <2>4. b - x \in U
    BY <2>3
  <2> QED BY <2>2, <2>4
<1>2. PICK u \in U : \A v \in U : u <= v
  <2> HIDE DEF U
  <2> QED BY <1>1, LeastElement
<1>3. PICK x \in T : u = b - x
  OBVIOUS
<1>4. \A y \in T : x >= y
  <2> TAKE y \in T
  <2>1. u <= b - y
    BY <1>2
  <2> QED BY <1>3, <2>1
<1>5. \E z \in T : \A y \in T : z >= y
  BY <1>4
<1> QED BY <1>5 DEF Max

-----------------------------------------------------------------------------
(* Sums of chips.                                                          *)

\* g holds the partial sums of the chips of f over S, up to seat n.
IsPrefixSum(g, f, S, n) ==
  g = [k \in 0 .. n |->
         IF k = 0 THEN 0
         ELSE g[k - 1] + (IF k - 1 \in S THEN f[k - 1] ELSE 0)]

\* Partial sums exist: the recursion of SumOver is well defined.
LEMMA PrefixSumExists ==
  ASSUME NEW f \in [Seats -> Nat], NEW S
  PROVE  \A n \in 0 .. N : \E g \in [0 .. n -> Nat] : IsPrefixSum(g, f, S, n)
<1> DEFINE Bad == {n \in 0 .. N :
                    ~ \E g \in [0 .. n -> Nat] : IsPrefixSum(g, f, S, n)}
<1> SUFFICES ASSUME Bad # {} PROVE FALSE
  OBVIOUS
<1>1. Bad \in SUBSET Nat
  BY SeatCount
<1>2. PICK n \in Bad : \A m \in Bad : n <= m
  <2> HIDE DEF Bad
  <2> QED BY <1>1, LeastElement
<1>3. n \in 0 .. N /\ ~ \E g \in [0 .. n -> Nat] : IsPrefixSum(g, f, S, n)
  BY <1>2
<1>4. CASE n = 0
  <2> DEFINE g == [k \in 0 .. 0 |-> 0]
  <2>1. g \in [0 .. n -> Nat]
    BY <1>4
  <2>2. IsPrefixSum(g, f, S, n)
    BY <1>4 DEF IsPrefixSum
  <2> QED BY <2>1, <2>2, <1>3
<1>5. CASE n # 0
  <2>1. n \in Nat /\ n - 1 \in 0 .. N /\ n - 1 \in Seats
    BY <1>3, <1>5, SeatCount DEF Seats
  <2>2. n - 1 \notin Bad
    BY <2>1, <1>2, SeatCount
  <2>3. PICK h \in [0 .. n - 1 -> Nat] : IsPrefixSum(h, f, S, n - 1)
    BY <2>1, <2>2
  <2> DEFINE c == IF n - 1 \in S THEN f[n - 1] ELSE 0
             g == [k \in 0 .. n |-> IF k = n THEN h[n - 1] + c ELSE h[k]]
  <2>4. c \in Nat /\ h[n - 1] \in Nat
    BY <2>1, <2>3
  <2>5. g \in [0 .. n -> Nat]
    <3> HIDE DEF c
    <3> QED BY <2>1, <2>3, <2>4
  <2>6. IsPrefixSum(g, f, S, n)
    <3>1. \A k \in 0 .. n - 1 :
             h[k] = IF k = 0 THEN 0
                    ELSE h[k - 1] + (IF k - 1 \in S THEN f[k - 1] ELSE 0)
      BY <2>3 DEF IsPrefixSum
    <3>2. \A k \in 0 .. n :
             g[k] = IF k = 0 THEN 0
                    ELSE g[k - 1] + (IF k - 1 \in S THEN f[k - 1] ELSE 0)
      BY <3>1, <2>1, <1>5
    <3> HIDE DEF g
    <3> QED BY <3>2, <2>5 DEF IsPrefixSum
  <2> QED BY <2>5, <2>6, <1>3
<1> QED BY <1>4, <1>5

\* SumOver is the last of the partial sums, each one seat more than the last.
LEMMA SumOverUnfolds ==
  ASSUME NEW f \in [Seats -> Nat], NEW S
  PROVE  \E g : /\ SumOver(f, S) = g[N]
                /\ g[0] = 0
                /\ \A n \in 1 .. N :
                     g[n] = g[n - 1] + (IF n - 1 \in S THEN f[n - 1] ELSE 0)
<1>1. N \in 0 .. N
  BY SeatCount
<1>2. \E g \in [0 .. N -> Nat] : IsPrefixSum(g, f, S, N)
  BY <1>1, PrefixSumExists
<1>3. \E g : IsPrefixSum(g, f, S, N) /\ SumOver(f, S) = g[N]
  BY <1>2 DEF SumOver, IsPrefixSum
<1>4. PICK g : IsPrefixSum(g, f, S, N) /\ SumOver(f, S) = g[N]
  BY <1>3
<1>5. \A k \in 0 .. N :
        g[k] = IF k = 0 THEN 0
               ELSE g[k - 1] + (IF k - 1 \in S THEN f[k - 1] ELSE 0)
  BY <1>4 DEF IsPrefixSum
<1>6. g[0] = 0
  BY <1>5, SeatCount
<1>7. \A n \in 1 .. N : n \in 0 .. N /\ n # 0
  OBVIOUS
<1>8. \A n \in 1 .. N :
        g[n] = g[n - 1] + (IF n - 1 \in S THEN f[n - 1] ELSE 0)
  BY <1>5, <1>7
<1> QED BY <1>4, <1>6, <1>8

\* A sum of chips is a number of chips.
LEMMA SumOverType ==
  ASSUME NEW f \in [Seats -> Nat], NEW S
  PROVE  SumOver(f, S) \in Nat
<1>1. PICK g : /\ SumOver(f, S) = g[N]
               /\ g[0] = 0
               /\ \A n \in 1 .. N :
                    g[n] = g[n - 1] + (IF n - 1 \in S THEN f[n - 1] ELSE 0)
  BY SumOverUnfolds
<1> DEFINE Bad == {n \in 0 .. N : g[n] \notin Nat}
<1>2. Bad = {}
  <2> SUFFICES ASSUME Bad # {} PROVE FALSE
    OBVIOUS
  <2>1. Bad \in SUBSET Nat
    BY SeatCount
  <2>2. PICK n \in Bad : \A m \in Bad : n <= m
    <3> HIDE DEF Bad
    <3> QED BY <2>1, LeastElement
  <2>3. n # 0
    BY <2>2, <1>1
  <2>4. n \in 1 .. N /\ n - 1 \in 0 .. N /\ n - 1 \in Seats
    BY <2>2, <2>3, SeatCount DEF Seats
  <2>5. g[n - 1] \in Nat
    BY <2>2, <2>4
  <2>6. g[n] = g[n - 1] + (IF n - 1 \in S THEN f[n - 1] ELSE 0)
    BY <1>1, <2>4
  <2>7. g[n] \in Nat
    BY <2>4, <2>5, <2>6
  <2> QED BY <2>2, <2>7
<1> QED BY <1>1, <1>2, SeatCount

\* Sums add up seat by seat.
LEMMA SumOverAdds ==
  ASSUME NEW f \in [Seats -> Nat], NEW g \in [Seats -> Nat],
         NEW h \in [Seats -> Nat], NEW S,
         \A s \in Seats : h[s] = f[s] + g[s]
  PROVE  SumOver(h, S) = SumOver(f, S) + SumOver(g, S)
<1>1. PICK F : /\ SumOver(f, S) = F[N]
               /\ F[0] = 0
               /\ \A n \in 1 .. N :
                    F[n] = F[n - 1] + (IF n - 1 \in S THEN f[n - 1] ELSE 0)
  BY SumOverUnfolds
<1>2. PICK G : /\ SumOver(g, S) = G[N]
               /\ G[0] = 0
               /\ \A n \in 1 .. N :
                    G[n] = G[n - 1] + (IF n - 1 \in S THEN g[n - 1] ELSE 0)
  BY SumOverUnfolds
<1>3. PICK H : /\ SumOver(h, S) = H[N]
               /\ H[0] = 0
               /\ \A n \in 1 .. N :
                    H[n] = H[n - 1] + (IF n - 1 \in S THEN h[n - 1] ELSE 0)
  BY SumOverUnfolds
<1> DEFINE Bad == {n \in 0 .. N : ~(/\ F[n] \in Nat /\ G[n] \in Nat
                                    /\ H[n] = F[n] + G[n])}
<1>4. Bad = {}
  <2> SUFFICES ASSUME Bad # {} PROVE FALSE
    OBVIOUS
  <2>1. Bad \in SUBSET Nat
    BY SeatCount
  <2>2. PICK n \in Bad : \A m \in Bad : n <= m
    <3> HIDE DEF Bad
    <3> QED BY <2>1, LeastElement
  <2>3. n # 0
    BY <2>2, <1>1, <1>2, <1>3
  <2>4. n \in 1 .. N /\ n - 1 \in 0 .. N /\ n - 1 \in Seats
    BY <2>2, <2>3, SeatCount DEF Seats
  <2>5. F[n - 1] \in Nat /\ G[n - 1] \in Nat /\ H[n - 1] = F[n - 1] + G[n - 1]
    BY <2>2, <2>4
  <2>6. /\ F[n] = F[n - 1] + (IF n - 1 \in S THEN f[n - 1] ELSE 0)
        /\ G[n] = G[n - 1] + (IF n - 1 \in S THEN g[n - 1] ELSE 0)
        /\ H[n] = H[n - 1] + (IF n - 1 \in S THEN h[n - 1] ELSE 0)
    BY <1>1, <1>2, <1>3, <2>4
  <2>7. f[n - 1] \in Nat /\ g[n - 1] \in Nat /\ h[n - 1] = f[n - 1] + g[n - 1]
    BY <2>4
  <2>8. F[n] \in Nat /\ G[n] \in Nat /\ H[n] = F[n] + G[n]
    BY <2>5, <2>6, <2>7
  <2> QED BY <2>2, <2>8
<1>5. N \in 0 .. N
  BY SeatCount
<1> QED BY <1>1, <1>2, <1>3, <1>4, <1>5

\* Chips of a single seat.
LEMMA SumOverPoint ==
  ASSUME NEW p \in Seats, NEW c \in Nat, NEW S, p \in S
  PROVE  SumOver([s \in Seats |-> IF s = p THEN c ELSE 0], S) = c
<1> DEFINE f == [s \in Seats |-> IF s = p THEN c ELSE 0]
<1>1. f \in [Seats -> Nat]
  OBVIOUS
<1>2. PICK g : /\ SumOver(f, S) = g[N]
               /\ g[0] = 0
               /\ \A n \in 1 .. N :
                    g[n] = g[n - 1] + (IF n - 1 \in S THEN f[n - 1] ELSE 0)
  <2> HIDE DEF f
  <2> QED BY <1>1, SumOverUnfolds
<1> DEFINE Bad == {n \in 0 .. N : g[n] # IF n <= p THEN 0 ELSE c}
<1>3. Bad = {}
  <2> SUFFICES ASSUME Bad # {} PROVE FALSE
    OBVIOUS
  <2>1. Bad \in SUBSET Nat
    BY SeatCount
  <2>2. PICK n \in Bad : \A m \in Bad : n <= m
    <3> HIDE DEF Bad
    <3> QED BY <2>1, LeastElement
  <2>3. n # 0
    BY <2>2, <1>2 DEF Seats
  <2>4. n \in 1 .. N /\ n - 1 \in 0 .. N /\ n - 1 \in Seats
    BY <2>2, <2>3, SeatCount DEF Seats
  <2>5. g[n - 1] = IF n - 1 <= p THEN 0 ELSE c
    BY <2>2, <2>4
  <2>6. g[n] = g[n - 1] + (IF n - 1 \in S THEN f[n - 1] ELSE 0)
    BY <1>2, <2>4
  <2>7. f[n - 1] = IF n - 1 = p THEN c ELSE 0
    BY <2>4
  <2>8. g[n] = IF n <= p THEN 0 ELSE c
    BY <2>4, <2>5, <2>6, <2>7 DEF Seats
  <2> QED BY <2>2, <2>8
<1>4. N \in 0 .. N /\ ~(N <= p)
  BY SeatCount DEF Seats
<1>5. g[N] = c
  BY <1>3, <1>4
<1> QED BY <1>2, <1>5

LEMMA SumOverZero == SumOver([s \in Seats |-> 0], Seats) = 0
<1>1. 0 \in Seats
  BY SeatCount DEF Seats
<1>2. SumOver([s \in Seats |-> IF s = 0 THEN 0 ELSE 0], Seats) = 0
  BY <1>1, SumOverPoint
<1>3. [s \in Seats |-> IF s = 0 THEN 0 ELSE 0] = [s \in Seats |-> 0]
  OBVIOUS
<1> QED BY <1>2, <1>3

\* A seat that adds c chips adds c to the sum.
LEMMA SumOverUpdate ==
  ASSUME NEW f \in [Seats -> Nat], NEW p \in Seats, NEW c \in Nat,
         NEW S, p \in S
  PROVE  SumOver([f EXCEPT ![p] = f[p] + c], S) = SumOver(f, S) + c
<1> DEFINE g == [s \in Seats |-> IF s = p THEN c ELSE 0]
           h == [f EXCEPT ![p] = f[p] + c]
<1>1. g \in [Seats -> Nat] /\ h \in [Seats -> Nat]
  OBVIOUS
<1>2. \A s \in Seats : h[s] = f[s] + g[s]
  OBVIOUS
<1>3. SumOver(g, S) = c
  BY SumOverPoint
<1> HIDE DEF g, h
<1>4. SumOver(h, S) = SumOver(f, S) + SumOver(g, S)
  BY <1>1, <1>2, SumOverAdds
<1> QED BY <1>3, <1>4 DEF h

-----------------------------------------------------------------------------
(* The table as a ring.                                                    *)

LEMMA SeatsFinite == IsFiniteSet(Seats)
BY SeatCount, FS_Interval DEF Seats

LEMMA FiniteSeats ==
  ASSUME NEW S \in SUBSET Seats
  PROVE  IsFiniteSet(S) /\ Cardinality(S) \in Nat
BY SeatsFinite, FS_Subset, FS_CardinalityType

LEMMA LeftIsSeat == \A a \in Seats : Left(a) \in Seats /\ Right(a) \in Seats
BY SeatCount DEF Left, Right, Seats

\* FirstFrom finds the nearest seat of a non-empty set.
LEMMA FirstFromIsNearest ==
  ASSUME NEW S \in SUBSET Seats, S # {}, NEW a \in Seats
  PROVE  /\ FirstFrom(a, S) \in S
         /\ \A t \in S : Clockwise(a, FirstFrom(a, S)) <= Clockwise(a, t)
<1> DEFINE D == {Clockwise(a, t) : t \in S}
<1>1. D \in SUBSET Nat /\ D # {}
  <2>1. \A t \in S : Clockwise(a, t) \in Nat
    BY SeatCount DEF Clockwise, Seats
  <2>2. D \in SUBSET Nat
    BY <2>1
  <2>3. PICK t \in S : TRUE
    OBVIOUS
  <2>4. Clockwise(a, t) \in D
    BY <2>3
  <2> QED BY <2>2, <2>4
<1>2. PICK d \in D : \A e \in D : d <= e
  <2> HIDE DEF D
  <2> QED BY <1>1, LeastElement
<1>3. \E s \in S : \A t \in S : Clockwise(a, s) <= Clockwise(a, t)
  BY <1>2
<1> QED BY <1>3 DEF FirstFrom

\* When the turn passes from c to its successor, the seats of S keep their
\* order, and c comes after all of them.
LEMMA TurnPasses ==
  ASSUME NEW S \in SUBSET Seats, S # {}, NEW c \in Seats,
         NEW n, n = FirstFrom(Left(c), S)
  PROVE  /\ n \in S
         /\ \A s \in S : s # c =>
              Clockwise(n, s) + Clockwise(c, n) = Clockwise(c, s)
         /\ c \in S => \A s \in S : s # c => Clockwise(n, s) < Clockwise(n, c)
<1>1. Left(c) \in Seats
  BY LeftIsSeat
<1>2. n \in S /\ \A t \in S : Clockwise(Left(c), n) <= Clockwise(Left(c), t)
  BY <1>1, FirstFromIsNearest
<1>3. \A s \in S : s \in 0 .. N - 1
  BY DEF Seats
<1>4. ASSUME NEW s \in S, s # c
      PROVE  Clockwise(n, s) + Clockwise(c, n) = Clockwise(c, s)
  BY <1>2, <1>3, <1>4, SeatCount DEF Clockwise, Left, Seats
<1>5. ASSUME c \in S, NEW s \in S, s # c
      PROVE  Clockwise(n, s) < Clockwise(n, c)
  BY <1>2, <1>3, <1>5, SeatCount DEF Clockwise, Left, Seats
<1> QED BY <1>2, <1>4, <1>5

-----------------------------------------------------------------------------
(* check_done.                                                             *)

LEMMA LiveFacts ==
  ASSUME NEW r \in Round
  PROVE  /\ Live(r) \in SUBSET Seats /\ NotFolded(r) \in SUBSET Seats
         /\ Unacted(r) \in SUBSET Seats /\ Owing(r) \subseteq Live(r)
         /\ Live(r) \subseteq NotFolded(r) /\ Unacted(r) \subseteq Owing(r)
         /\ IsFiniteSet(Live(r)) /\ IsFiniteSet(Unacted(r))
         /\ IsFiniteSet(NotFolded(r))
         /\ Cardinality(Live(r)) \in Nat /\ Cardinality(Unacted(r)) \in Nat
         /\ Cardinality(NotFolded(r)) \in Nat
         /\ Cardinality(Live(r)) = 0 <=> Live(r) = {}
         /\ Cardinality(Unacted(r)) = 0 <=> Unacted(r) = {}
<1>1. /\ Live(r) \in SUBSET Seats /\ NotFolded(r) \in SUBSET Seats
      /\ Unacted(r) \in SUBSET Seats /\ Owing(r) \subseteq Live(r)
      /\ Live(r) \subseteq NotFolded(r) /\ Unacted(r) \subseteq Owing(r)
  BY DEF Live, NotFolded, Unacted, Owing, OwesResponse, Round
<1> QED BY <1>1, FiniteSeats, FS_EmptySet

\* A lone live seat, and the most an opponent put in.
LEMMA LoneFacts ==
  ASSUME NEW r \in Round, r.nCanAct = Cardinality(Live(r)), r.nCanAct = 1,
         \A q \in NotFolded(r) : r.contributed[q] <= r.currentBet
  PROVE  /\ Live(r) = {Lone(r)}
         /\ Lone(r) \in Seats
         /\ MaxOpponent(r, Lone(r)) \in Nat
         /\ \A q \in NotFolded(r) \ {Lone(r)} :
              r.contributed[q] <= MaxOpponent(r, Lone(r))
         /\ MaxOpponent(r, Lone(r)) <= r.currentBet
<1>1. Cardinality(Live(r)) = 1
  OBVIOUS
<1>2. \E x : Live(r) = {x}
  BY <1>1, LiveFacts, FS_Singleton
<1>3. Live(r) = {Lone(r)}
  BY <1>2 DEF Lone
<1>4. Lone(r) \in Seats
  BY <1>3, LiveFacts
<1> DEFINE T == {r.contributed[q] : q \in NotFolded(r) \ {Lone(r)}} \cup {0}
<1>5. \A q \in NotFolded(r) : r.contributed[q] \in Nat /\ r.contributed[q] <= r.currentBet
  BY LiveFacts DEF Round
<1>6. r.currentBet \in Nat
  BY DEF Round
<1>7. T \in SUBSET Nat /\ T # {} /\ \A x \in T : x <= r.currentBet
  BY <1>5, <1>6
<1>8. Max(T) \in T /\ \A y \in T : y <= Max(T)
  <2> HIDE DEF T
  <2> QED BY <1>6, <1>7, MaxOfBounded
<1>9. MaxOpponent(r, Lone(r)) = Max(T)
  BY DEF MaxOpponent
<1> QED BY <1>3, <1>4, <1>7, <1>8, <1>9

\* Rounds that differ only in whose turn it is and in done.
SameTable(q, r) ==
  /\ q.players = r.players /\ q.folded = r.folded /\ q.allIn = r.allIn
  /\ q.hasActed = r.hasActed /\ q.contributed = r.contributed
  /\ q.currentBet = r.currentBet /\ q.nCanAct = r.nCanAct
  /\ q.actionsRemaining = r.actionsRemaining

LEMMA SameTableFacts ==
  ASSUME NEW r, NEW q, SameTable(q, r)
  PROVE  /\ Live(q) = Live(r) /\ NotFolded(q) = NotFolded(r)
         /\ Unacted(q) = Unacted(r) /\ Owing(q) = Owing(r)
         /\ q.contributed = r.contributed /\ q.currentBet = r.currentBet
         /\ q.hasActed = r.hasActed
         /\ CountersInv(r) => CountersInv(q)
<1>1. /\ Live(q) = Live(r) /\ NotFolded(q) = NotFolded(r)
      /\ Unacted(q) = Unacted(r)
  BY DEF SameTable, Live, NotFolded, Unacted
<1>2. Owing(q) = Owing(r)
  BY <1>1 DEF SameTable, Owing, OwesResponse
<1> QED BY <1>1, <1>2 DEF SameTable, CountersInv

\* Closing a settled round, or leaving an open one to its owing actor.
LEMMA CheckDoneKeeps ==
  ASSUME NEW r \in Round, CountersInv(r),
         ~r.done => r.current \in Live(r) /\ OwingFirst(r, r.current),
         r.done => Settled(r)
  PROVE  CheckDone(r) \in Round /\ RoundInv(CheckDone(r))
<1> DEFINE closed == [r EXCEPT !.done = TRUE]
           m == MaxOpponent(r, Lone(r))
<1>0. /\ r.currentBet \in Nat /\ r.actionsRemaining \in Nat /\ r.nCanAct \in Nat
      /\ r.contributed \in [Seats -> Nat] /\ r.done \in BOOLEAN
      /\ r.current \in Seats
  BY DEF Round
<1>l. r.nCanAct = 1 =>
        /\ Live(r) = {Lone(r)} /\ Lone(r) \in Seats
        /\ MaxOpponent(r, Lone(r)) \in Nat /\ MaxOpponent(r, Lone(r)) <= r.currentBet
        /\ \A q \in NotFolded(r) \ {Lone(r)} :
             r.contributed[q] <= MaxOpponent(r, Lone(r))
  BY LoneFacts DEF CountersInv
<1>c. /\ closed \in Round /\ closed.done = TRUE
      /\ Live(closed) = Live(r) /\ NotFolded(closed) = NotFolded(r)
      /\ Unacted(closed) = Unacted(r)
      /\ closed.contributed = r.contributed /\ closed.currentBet = r.currentBet
      /\ closed.hasActed = r.hasActed
      /\ CountersInv(closed)
  <2>1. closed \in Round /\ closed.done = TRUE
    BY DEF Round
  <2>2. SameTable(closed, r)
    BY DEF Round, SameTable
  <2> HIDE DEF closed
  <2> QED BY <2>1, <2>2, SameTableFacts
<1>1. CASE r.nCanAct = 0
  <2>1. Live(r) = {}
    BY <1>1, LiveFacts DEF CountersInv
  <2>2. CheckDone(r) = closed
    BY <1>1 DEF CheckDone
  <2>3. Settled(closed)
    BY <2>1, <1>c DEF Settled
  <2> HIDE DEF closed
  <2> QED BY <1>c, <2>2, <2>3 DEF RoundInv
<1>2. CASE LoneCovers(r)
  <2>1. r.nCanAct = 1 /\ r.contributed[Lone(r)] >= m
    BY <1>2 DEF LoneCovers, OneCanAct
  <2>2. CheckDone(r) = closed
    BY <1>2 DEF CheckDone
  <2>3. \A q \in NotFolded(r) : r.contributed[q] <= r.contributed[Lone(r)]
    BY <2>1, <1>l, LiveFacts, <1>0
  <2>4. Settled(closed)
    <3> HIDE DEF closed
    <3> QED BY <2>1, <2>3, <1>c, <1>l DEF Settled
  <2> HIDE DEF closed
  <2> QED BY <1>c, <2>2, <2>4 DEF RoundInv
<1>3. CASE r.nCanAct # 0 /\ ~LoneCovers(r) /\ r.nCanAct = 1
  <2> DEFINE l == Lone(r)
             e == [r EXCEPT !.currentBet = m]
             ec == [e EXCEPT !.done = TRUE]
  <2>1. /\ Live(r) = {l} /\ l \in Seats /\ m \in Nat /\ m <= r.currentBet
        /\ \A q \in NotFolded(r) \ {l} : r.contributed[q] <= m
    BY <1>3, <1>l
  <2>2. r.contributed[l] < m
    BY <1>3, <2>1, <1>0 DEF LoneCovers, OneCanAct
  <2>3. EffectiveBet(r) = m
    BY <1>3, <2>1, <1>0 DEF EffectiveBet, OneCanAct, Least
  <2>4. CheckDone(r) = IF \/ Cardinality(NotFolded(e)) <= 1
                          \/ AllMatched(e) /\ e.actionsRemaining = 0
                         THEN ec ELSE e
    BY <1>3, <2>3 DEF CheckDone
  <2>5. /\ e \in Round /\ Live(e) = {l} /\ NotFolded(e) = NotFolded(r)
        /\ Unacted(e) = Unacted(r) /\ e.contributed = r.contributed
        /\ e.currentBet = m /\ e.hasActed = r.hasActed /\ e.done = r.done
        /\ e.current = r.current /\ e.nCanAct = r.nCanAct
        /\ e.actionsRemaining = r.actionsRemaining
    BY <2>1 DEF Round, Live, NotFolded, Unacted
  <2>6. Unacted(r) \subseteq {l}
    BY <2>1 DEF Unacted
  <2>7. CountersInv(e)
    <3> HIDE DEF e, m, l
    <3>1. \A p \in NotFolded(e) : e.contributed[p] <= e.currentBet
      BY <2>1, <2>2, <2>5, <1>0
    <3>2. \A p \in Unacted(e) : e.contributed[p] < e.currentBet
      BY <2>2, <2>5, <2>6
    <3> QED BY <3>1, <3>2, <2>1, <2>5 DEF CountersInv
  <2>8. /\ ec \in Round /\ ec.done = TRUE /\ CountersInv(ec)
        /\ NotFolded(ec) = NotFolded(r)
    <3>1. ec \in Round /\ ec.done = TRUE
      BY <2>5 DEF Round
    <3>2. /\ Live(ec) = Live(e) /\ NotFolded(ec) = NotFolded(e)
          /\ Unacted(ec) = Unacted(e) /\ ec.contributed = e.contributed
          /\ ec.currentBet = e.currentBet /\ ec.nCanAct = e.nCanAct
          /\ ec.actionsRemaining = e.actionsRemaining
      BY DEF Live, NotFolded, Unacted
    <3> HIDE DEF e, ec
    <3> QED BY <3>1, <3>2, <2>5, <2>7 DEF CountersInv
  <2>9. ~AllMatched(e)
    BY <2>2, <2>5, <1>0, <2>1 DEF AllMatched
  <2>10. CASE Cardinality(NotFolded(r)) <= 1
    <3>1. CheckDone(r) = ec
      BY <2>4, <2>5, <2>10
    <3> HIDE DEF ec
    <3> QED BY <3>1, <2>8, <2>10 DEF RoundInv, Settled
  <2>11. CASE ~(Cardinality(NotFolded(r)) <= 1)
    <3>1. CheckDone(r) = e
      BY <2>4, <2>5, <2>9, <2>11
    <3>2. ~r.done
      <4> SUFFICES ASSUME r.done PROVE FALSE
        OBVIOUS
      <4>1. m = 0 \/ \E q \in NotFolded(r) \ {l} : r.contributed[q] = m
        <5> DEFINE T == {r.contributed[q] : q \in NotFolded(r) \ {l}} \cup {0}
        <5>1. T \in SUBSET Nat /\ T # {} /\ \A x \in T : x <= r.currentBet
          BY <1>0, LiveFacts DEF CountersInv
        <5>2. Max(T) \in T
          <6> HIDE DEF T
          <6> QED BY <5>1, <1>0, MaxOfBounded
        <5>3. m = Max(T)
          BY DEF MaxOpponent
        <5> QED BY <5>2, <5>3
      <4>2. Settled(r)
        OBVIOUS
      <4> HIDE DEF m
      <4> QED BY <4>1, <4>2, <2>1, <2>2, <2>11, <1>0 DEF Settled
    <3>3. l \in Owing(e) /\ Owing(e) = {l}
      BY <2>2, <2>5 DEF Owing, OwesResponse
    <3>4. r.current = l
      BY <3>2, <2>1
    <3> HIDE DEF e, l, m
    <3> QED BY <3>1, <3>2, <3>3, <3>4, <2>5, <2>7 DEF RoundInv, OwingFirst
  <2> QED BY <2>10, <2>11
<1>4. CASE r.nCanAct # 0 /\ ~LoneCovers(r) /\ r.nCanAct # 1
  <2>1. EffectiveBet(r) = r.currentBet
    BY <1>4 DEF EffectiveBet, OneCanAct
  <2>2. [r EXCEPT !.currentBet = r.currentBet] = r
    BY DEF Round
  <2>3. CheckDone(r) = IF \/ Cardinality(NotFolded(r)) <= 1
                          \/ AllMatched(r) /\ r.actionsRemaining = 0
                         THEN closed ELSE r
    BY <1>4, <2>1, <2>2 DEF CheckDone
  <2>4. CASE Cardinality(NotFolded(r)) <= 1
    <3> HIDE DEF closed
    <3> QED BY <2>3, <2>4, <1>c DEF RoundInv, Settled
  <2>5. CASE AllMatched(r) /\ r.actionsRemaining = 0
    <3>1. Unacted(r) = {}
      <4> SUFFICES ASSUME Unacted(r) # {} PROVE FALSE
        OBVIOUS
      <4>1. r.actionsRemaining < Cardinality(Unacted(r))
        BY <2>5, LiveFacts
      <4>2. \A p \in Unacted(r) : r.contributed[p] < r.currentBet
        BY <4>1 DEF CountersInv
      <4> QED BY <4>2, <2>5, <1>0, LiveFacts DEF AllMatched, Unacted
    <3>2. \A p \in Live(r) : p \in r.hasActed /\ r.contributed[p] = r.currentBet
      BY <3>1, <2>5 DEF AllMatched, Unacted
    <3>3. Settled(closed)
      <4> HIDE DEF closed
      <4> QED BY <3>2, <1>c DEF Settled
    <3> HIDE DEF closed
    <3> QED BY <2>3, <2>5, <3>3, <1>c DEF RoundInv
  <2>6. CASE ~(Cardinality(NotFolded(r)) <= 1) /\ ~(AllMatched(r) /\ r.actionsRemaining = 0)
    <3>1. CheckDone(r) = r
      BY <2>3, <2>6
    <3>2. ASSUME ~r.done, r.current \notin Owing(r) PROVE FALSE
      <4>1. r.current \in Live(r) \ Owing(r) /\ OwingFirst(r, r.current)
        BY <3>2
      <4>2. \A p \in Seats : ~(Clockwise(r.current, p) < Clockwise(r.current, r.current))
        BY <1>0, SeatCount DEF Clockwise, Seats
      <4>3. Owing(r) = {}
        BY <4>1, <4>2, LiveFacts DEF OwingFirst
      <4>4. \A p \in Live(r) : p \in r.hasActed /\ ~(r.contributed[p] < r.currentBet)
        BY <4>3 DEF Owing, OwesResponse
      <4>5. AllMatched(r)
        BY <4>4, <1>0, LiveFacts DEF AllMatched, CountersInv
      <4>6. Unacted(r) = {}
        BY <4>4 DEF Unacted
      <4>7. r.actionsRemaining = 0
        BY <4>6, <1>0, LiveFacts DEF CountersInv
      <4> QED BY <4>5, <4>7, <2>6
    <3> QED BY <3>1, <3>2 DEF RoundInv
  <2> QED BY <2>4, <2>5, <2>6
<1> QED BY <1>1, <1>2, <1>3, <1>4, <1>0

-----------------------------------------------------------------------------
(* Passing the turn.                                                       *)

\* advance, called on the round an action or a retirement leaves: the old
\* actor owes nothing, and behind it the owing seats come first.
LEMMA AdvanceKeeps ==
  ASSUME NEW r \in Round, CountersInv(r),
         r.current \notin Owing(r),
         ~r.done =>
           \A p \in Owing(r), q \in Live(r) \ Owing(r) :
             q # r.current => Clockwise(r.current, p) < Clockwise(r.current, q),
         r.done => Settled(r)
  PROVE  CheckDone(Advance(r)) \in Round /\ RoundInv(CheckDone(Advance(r)))
<1>0. r.current \in Seats /\ r.done \in BOOLEAN
  BY DEF Round
<1>1. CASE Live(r) = {}
  <2>1. Advance(r) = [r EXCEPT !.current = r.current, !.done = TRUE]
    BY <1>1 DEF Advance, Round
  <2> DEFINE q == Advance(r)
  <2>a. q \in Round /\ SameTable(q, r) /\ q.done = TRUE
    BY <2>1 DEF Round, SameTable
  <2> HIDE DEF q
  <2>2. CountersInv(q) /\ Live(q) = {}
    BY <2>a, <1>1, SameTableFacts
  <2>3. Settled(q)
    BY <2>2 DEF Settled
  <2>4. CheckDone(q) \in Round /\ RoundInv(CheckDone(q))
    BY <2>a, <2>2, <2>3, CheckDoneKeeps
  <2> QED BY <2>4 DEF q
<1>2. CASE Live(r) # {}
  <2> DEFINE n == FirstFrom(Left(r.current), Live(r))
             q == Advance(r)
  <2>1. /\ n \in Live(r)
        /\ \A s \in Live(r) : s # r.current =>
             Clockwise(n, s) + Clockwise(r.current, n) = Clockwise(r.current, s)
        /\ r.current \in Live(r) =>
             \A s \in Live(r) : s # r.current =>
               Clockwise(n, s) < Clockwise(n, r.current)
    BY <1>2, <1>0, LiveFacts, TurnPasses
  <2>2. n \in Seats
    BY <2>1, LiveFacts
  <2>3. q = [r EXCEPT !.current = n, !.done = r.done]
    BY <1>2 DEF Advance, Round
  <2> HIDE DEF q, n
  <2>a. q \in Round /\ SameTable(q, r) /\ q.current = n /\ q.done = r.done
    BY <2>2, <2>3 DEF Round, SameTable
  <2>4. /\ q \in Round /\ q.current = n /\ q.done = r.done /\ CountersInv(q)
        /\ Live(q) = Live(r) /\ Owing(q) = Owing(r)
        /\ NotFolded(q) = NotFolded(r) /\ q.contributed = r.contributed
        /\ q.currentBet = r.currentBet /\ Unacted(q) = Unacted(r)
    BY <2>a, SameTableFacts
  <2>5. ~r.done => OwingFirst(q, n)
    <3> SUFFICES ASSUME ~r.done, NEW p \in Owing(r), NEW x \in Live(r) \ Owing(r)
                 PROVE  Clockwise(n, p) < Clockwise(n, x)
      BY <2>4 DEF OwingFirst
    <3>1. p \in Live(r) /\ p # r.current /\ p \in Seats /\ x \in Seats
      BY LiveFacts
    <3>2. CASE x = r.current
      BY <3>1, <3>2, <2>1
    <3>3. CASE x # r.current
      <4>1. Clockwise(r.current, p) < Clockwise(r.current, x)
        BY <3>3
      <4>2. /\ Clockwise(n, p) + Clockwise(r.current, n) = Clockwise(r.current, p)
            /\ Clockwise(n, x) + Clockwise(r.current, n) = Clockwise(r.current, x)
        BY <3>1, <3>3, <2>1
      <4>3. /\ Clockwise(n, p) \in Nat /\ Clockwise(n, x) \in Nat
            /\ Clockwise(r.current, n) \in Nat
        BY <3>1, <2>2, <1>0, SeatCount DEF Clockwise, Seats
      <4> QED BY <4>1, <4>2, <4>3
    <3> QED BY <3>2, <3>3
  <2>6. r.done => Settled(q)
    <3> SUFFICES ASSUME r.done PROVE Settled(q)
      OBVIOUS
    <3>1. q.hasActed = r.hasActed
      BY <2>a, SameTableFacts
    <3> QED BY <3>1, <2>4 DEF Settled
  <2>7. CheckDone(q) \in Round /\ RoundInv(CheckDone(q))
    BY <2>1, <2>4, <2>5, <2>6, CheckDoneKeeps
  <2> QED BY <2>7 DEF q
<1> QED BY <1>1, <1>2

-----------------------------------------------------------------------------
(* Opening a round.                                                        *)

\* seek_active on a round nobody can act in.
LEMMA TurnedTo ==
  ASSUME NEW r \in Round, NEW first \in Seats,
         NEW q, q = [r EXCEPT !.current = first, !.done = TRUE]
  PROVE  q \in Round /\ SameTable(q, r) /\ q.done = TRUE
<1>1. q \in Round
  BY DEF Round
<1>2. q.done = TRUE /\ SameTable(q, r)
  BY DEF Round, SameTable
<1> QED BY <1>1, <1>2

\* A freshly opened round: everybody with chips is asked once.
OpeningShape(o, players, money, posted, first, bet, pot, live, broke) ==
  /\ o \in Round /\ o.players = players /\ o.folded = {}
  /\ o.stack = money /\ o.potTotal = pot
  /\ o.allIn = broke /\ o.hasActed = {}
  /\ o.contributed = posted /\ o.currentBet = bet /\ o.done = FALSE
  /\ o.current = first /\ o.actedAtBet = [s \in Seats |-> 0]
  /\ o.actionsRemaining = Cardinality(live) /\ o.nCanAct = Cardinality(live)

LEMMA OpeningFields ==
  ASSUME NEW players \in SUBSET Seats, NEW money \in [Seats -> Nat],
         NEW posted \in [Seats -> Nat], NEW first \in Seats, NEW bet \in Nat,
         NEW increment \in Nat, NEW pot \in Nat,
         NEW live, live = {p \in players : money[p] # 0},
         NEW broke, broke = {p \in players : money[p] = 0}
  PROVE  OpeningShape(Opening(players, money, posted, first, bet, increment, pot),
                      players, money, posted, first, bet, pot, live, broke)
<1> DEFINE zero == [s \in Seats |-> 0]
           o == Opening(players, money, posted, first, bet, increment, pot)
<1>1. players \ broke = live
  OBVIOUS
<1>2. live \in SUBSET Seats /\ broke \in SUBSET Seats
  OBVIOUS
<1>3. Cardinality(live) \in Nat
  BY <1>2, FiniteSeats
<1>4. zero \in [Seats -> Nat]
  OBVIOUS
<1>5. o = [ players |-> players, stack |-> money, contributed |-> posted,
            folded |-> {}, allIn |-> broke,
            hasActed |-> {}, actedAtBet |-> zero,
            current |-> first, currentBet |-> bet, lastRaise |-> increment,
            potTotal |-> pot, done |-> FALSE,
            actionsRemaining |-> Cardinality(live),
            nCanAct |-> Cardinality(live) ]
  BY <1>1 DEF Opening
<1> HIDE DEF zero, o
<1>6. /\ o \in Round /\ o.players = players /\ o.folded = {}
      /\ o.stack = money /\ o.potTotal = pot
      /\ o.allIn = broke /\ o.hasActed = {}
      /\ o.contributed = posted /\ o.currentBet = bet /\ o.done = FALSE
      /\ o.current = first /\ o.actedAtBet = zero
      /\ o.actionsRemaining = Cardinality(live) /\ o.nCanAct = Cardinality(live)
  BY <1>2, <1>3, <1>4, <1>5 DEF Round
<1>7. OpeningShape(o, players, money, posted, first, bet, pot, live, broke)
  BY <1>6 DEF OpeningShape, zero
<1> QED BY <1>7 DEF o

LEMMA OpeningKeeps ==
  ASSUME NEW players \in SUBSET Seats, NEW money \in [Seats -> Nat],
         NEW posted \in [Seats -> Nat], NEW first \in Seats, NEW bet \in Nat,
         NEW increment \in Nat, NEW pot \in Nat,
         \A s \in players : posted[s] <= bet,
         NEW o, o = Opening(players, money, posted, first, bet, increment, pot)
  PROVE  /\ CheckDone(SeekActive(o)) \in Round
         /\ RoundInv(CheckDone(SeekActive(o)))
<1> DEFINE live == {p \in players : money[p] # 0}
           broke == {p \in players : money[p] = 0}
<1>2. live \in SUBSET Seats
  OBVIOUS
<1>3. Cardinality(live) \in Nat
  BY <1>2, FiniteSeats
<1>4. /\ o \in Round /\ o.players = players /\ o.folded = {}
      /\ o.allIn = broke /\ o.hasActed = {}
      /\ o.contributed = posted /\ o.currentBet = bet /\ o.done = FALSE
      /\ o.current = first
      /\ o.actionsRemaining = Cardinality(live) /\ o.nCanAct = Cardinality(live)
  <2>1. live = {p \in players : money[p] # 0} /\ broke = {p \in players : money[p] = 0}
    OBVIOUS
  <2> HIDE DEF live, broke
  <2>2. OpeningShape(o, players, money, posted, first, bet, pot, live, broke)
    BY <2>1, OpeningFields
  <2> QED BY <2>2 DEF OpeningShape
<1>5. Live(o) = live /\ Unacted(o) = live /\ Owing(o) = live /\ NotFolded(o) = players
  BY <1>4 DEF Live, Unacted, Owing, OwesResponse, NotFolded
<1>6. CountersInv(o)
  <2> HIDE DEF live
  <2> QED BY <1>3, <1>4, <1>5 DEF CountersInv
<1> HIDE DEF live
<1>7. CASE live = {}
  <2>1. SeekActive(o) = [o EXCEPT !.current = first, !.done = TRUE]
    BY <1>4, <1>5, <1>7 DEF SeekActive, Round
  <2> DEFINE q == SeekActive(o)
  <2>a. q \in Round /\ SameTable(q, o) /\ q.done = TRUE
    BY <2>1, <1>4, TurnedTo
  <2> HIDE DEF q
  <2>2. CountersInv(q) /\ Live(q) = {}
    BY <2>a, <1>5, <1>6, <1>7, SameTableFacts
  <2>3. Settled(q)
    BY <2>2 DEF Settled
  <2>4. CheckDone(q) \in Round /\ RoundInv(CheckDone(q))
    BY <2>a, <2>2, <2>3, CheckDoneKeeps
  <2> QED BY <2>4 DEF q
<1>8. CASE live # {}
  <2> DEFINE n == FirstFrom(first, live)
             q == SeekActive(o)
  <2>1. n \in live /\ n \in Seats
    BY <1>2, <1>8, FirstFromIsNearest
  <2>2. q = [o EXCEPT !.current = n, !.done = FALSE]
    BY <1>4, <1>5, <1>8 DEF SeekActive, Round
  <2> HIDE DEF q, n
  <2>a. q \in Round /\ SameTable(q, o) /\ q.current = n /\ q.done = FALSE
    BY <2>1, <2>2, <1>4 DEF Round, SameTable
  <2>3. CountersInv(q) /\ Live(q) = live /\ Owing(q) = live
    BY <2>a, <1>5, <1>6, SameTableFacts
  <2>4. OwingFirst(q, n)
    BY <2>a, <2>3 DEF OwingFirst
  <2>5. CheckDone(q) \in Round /\ RoundInv(CheckDone(q))
    BY <2>a, <2>1, <2>3, <2>4, CheckDoneKeeps
  <2> QED BY <2>5 DEF q
<1> QED BY <1>7, <1>8

-----------------------------------------------------------------------------
(* An action.                                                              *)

\* What a legal action moves: no more than the actor has, and a seat that can
\* still act afterwards has matched the bet.
LEMMA CommitFacts ==
  ASSUME NEW r \in Round, RoundInv(r), NEW p \in Seats, NEW a \in Action,
         Legal(r, p, a)
  PROVE  /\ p \in Live(r) /\ p = r.current /\ p \in Owing(r)
         /\ Commit(r, p, a) \in Nat /\ Commit(r, p, a) <= r.stack[p]
         /\ Total(r, p, a) \in Nat
         /\ BetAfter(r, p, a) \in Nat /\ BetAfter(r, p, a) >= r.currentBet
         /\ Total(r, p, a) <= BetAfter(r, p, a)
         /\ a.type # "Fold" /\ ~GoesAllIn(r, p, a) =>
              Total(r, p, a) = BetAfter(r, p, a)
         /\ IsFullRaise(r, p, a) =>
              /\ Total(r, p, a) = BetAfter(r, p, a) /\ a.type # "Fold"
              /\ BetAfter(r, p, a) >= r.currentBet + r.lastRaise
         /\ ~IsFullRaise(r, p, a) /\ BetAfter(r, p, a) > r.currentBet =>
              GoesAllIn(r, p, a)
<1>1. ~r.done /\ p = r.current /\ p \in Live(r) /\ p \in Owing(r)
  BY DEF Legal, RoundInv, Live
<1>2. /\ r.stack[p] \in Nat /\ r.contributed[p] \in Nat /\ r.currentBet \in Nat
      /\ r.lastRaise \in Nat /\ a.to \in Nat /\ a.type \in ActionTypes
  BY DEF Round, Action
<1>3. r.contributed[p] <= r.currentBet
  BY <1>1, LiveFacts DEF RoundInv, CountersInv
<1>4. CASE a.type = "Fold"
  BY <1>1, <1>2, <1>3, <1>4
     DEF Commit, Total, BetAfter, GoesAllIn, IsFullRaise
<1>5. CASE a.type = "Check"
  BY <1>1, <1>2, <1>3, <1>5
     DEF Commit, Total, BetAfter, GoesAllIn, IsFullRaise, Legal, ToCall, Monus
<1>6. CASE a.type = "Call"
  BY <1>1, <1>2, <1>3, <1>6
     DEF Commit, Total, BetAfter, GoesAllIn, IsFullRaise, ToCall, Monus, Least
<1>7. CASE a.type = "AllIn"
  BY <1>1, <1>2, <1>3, <1>7
     DEF Commit, Total, BetAfter, GoesAllIn, IsFullRaise, Greatest
<1>8. CASE a.type = "Raise"
  BY <1>1, <1>2, <1>3, <1>8
     DEF Commit, Total, BetAfter, GoesAllIn, IsFullRaise, Greatest, Monus,
         MinRaiseTo, Legal
<1> QED BY <1>2, <1>4, <1>5, <1>6, <1>7, <1>8 DEF ActionTypes

\* The fields of the round after the wager.
WagerShape(w, r, p, a) ==
  /\ w \in Round
  /\ w.players = r.players /\ w.current = p /\ w.done = FALSE
  /\ w.stack = [r.stack EXCEPT ![p] = r.stack[p] - Commit(r, p, a)]
  /\ w.contributed = [r.contributed EXCEPT ![p] = Total(r, p, a)]
  /\ w.folded = IF a.type = "Fold" THEN r.folded \cup {p} ELSE r.folded
  /\ w.allIn = IF GoesAllIn(r, p, a) THEN r.allIn \cup {p} ELSE r.allIn
  /\ w.hasActed = (IF IsFullRaise(r, p, a)
                     THEN r.hasActed \ Responders(r, p)
                     ELSE r.hasActed) \cup {p}
  /\ w.actedAtBet = [r.actedAtBet EXCEPT ![p] = BetAfter(r, p, a)]
  /\ w.currentBet = BetAfter(r, p, a)
  /\ w.lastRaise = IF IsFullRaise(r, p, a)
                     THEN BetAfter(r, p, a) - r.currentBet
                     ELSE r.lastRaise
  /\ w.potTotal = r.potTotal + Commit(r, p, a)
  /\ w.actionsRemaining = ActionsRemainingAfter(r, p, a)
  /\ w.nCanAct = CanActAfter(r, p, a)

LEMMA WagerFields ==
  ASSUME NEW r \in Round, RoundInv(r), NEW p \in Seats, NEW a \in Action,
         Legal(r, p, a), NEW w, w = Wager(r, p, a)
  PROVE  WagerShape(w, r, p, a)
<1>1. /\ p = r.current /\ ~r.done
      /\ Commit(r, p, a) \in Nat /\ Commit(r, p, a) <= r.stack[p]
      /\ Total(r, p, a) \in Nat /\ BetAfter(r, p, a) \in Nat
      /\ BetAfter(r, p, a) >= r.currentBet
  BY CommitFacts DEF Legal
<1>2. CanActAfter(r, p, a) \in Nat /\ ActionsRemainingAfter(r, p, a) \in Nat
  BY DEF CanActAfter, ActionsRemainingAfter, Monus, Round
<1>3. Total(r, p, a) = r.contributed[p] + Commit(r, p, a)
  BY DEF Total
<1>4. r.stack[p] \in Nat /\ r.currentBet \in Nat /\ r.done = FALSE
  BY <1>1 DEF Round
<1>5. Responders(r, p) \in SUBSET Seats
  BY LiveFacts DEF Responders
<1> DEFINE st == [r.stack EXCEPT ![p] = r.stack[p] - Commit(r, p, a)]
           co == [r.contributed EXCEPT ![p] = Total(r, p, a)]
           at == [r.actedAtBet EXCEPT ![p] = BetAfter(r, p, a)]
           fo == IF a.type = "Fold" THEN r.folded \cup {p} ELSE r.folded
           al == IF GoesAllIn(r, p, a) THEN r.allIn \cup {p} ELSE r.allIn
           ha == (IF IsFullRaise(r, p, a) THEN r.hasActed \ Responders(r, p)
                  ELSE r.hasActed) \cup {p}
           la == IF IsFullRaise(r, p, a) THEN BetAfter(r, p, a) - r.currentBet
                 ELSE r.lastRaise
<1>6. /\ st \in [Seats -> Nat] /\ co \in [Seats -> Nat] /\ at \in [Seats -> Nat]
  BY <1>1, <1>4 DEF Round
<1>7. fo \in SUBSET Seats /\ al \in SUBSET Seats /\ ha \in SUBSET Seats
  BY DEF Round
<1>8. la \in Nat /\ r.potTotal + Commit(r, p, a) \in Nat
  BY <1>1, <1>4 DEF Round
<1>9. w = [ players |-> r.players, stack |-> st, contributed |-> co,
            folded |-> fo, allIn |-> al, hasActed |-> ha, actedAtBet |-> at,
            current |-> r.current, currentBet |-> BetAfter(r, p, a),
            lastRaise |-> la, potTotal |-> r.potTotal + Commit(r, p, a),
            done |-> r.done,
            actionsRemaining |-> ActionsRemainingAfter(r, p, a),
            nCanAct |-> CanActAfter(r, p, a) ]
  BY <1>3 DEF Wager, Round
<1> HIDE DEF st, co, at, fo, al, ha, la
<1>10. /\ w \in Round
       /\ w.players = r.players /\ w.current = r.current /\ w.done = r.done
       /\ w.stack = st /\ w.contributed = co /\ w.folded = fo /\ w.allIn = al
       /\ w.hasActed = ha /\ w.actedAtBet = at
       /\ w.currentBet = BetAfter(r, p, a) /\ w.lastRaise = la
       /\ w.potTotal = r.potTotal + Commit(r, p, a)
       /\ w.actionsRemaining = ActionsRemainingAfter(r, p, a)
       /\ w.nCanAct = CanActAfter(r, p, a)
  <2>1. /\ r.players \in SUBSET Seats /\ r.current \in Seats
        /\ r.done \in BOOLEAN
    BY DEF Round
  <2> QED BY <2>1, <1>1, <1>2, <1>6, <1>7, <1>8, <1>9 DEF Round
<1> QED BY <1>1, <1>4, <1>10 DEF WagerShape, st, co, at, fo, al, ha, la

\* The actor leaves the live seats when it folds or goes all-in, and nCanAct
\* follows.
LEMMA WagerCounts ==
  ASSUME NEW r \in Round, RoundInv(r), NEW p \in Seats, NEW a \in Action,
         Legal(r, p, a)
  PROVE  LET w == Wager(r, p, a)
         IN  /\ w \in Round
             /\ Live(w) = IF a.type = "Fold" \/ GoesAllIn(r, p, a)
                            THEN Live(r) \ {p} ELSE Live(r)
             /\ w.nCanAct = Cardinality(Live(w))
<1> DEFINE w == Wager(r, p, a)
<1>1. WagerShape(w, r, p, a)
  BY WagerFields
<1>2. p \in Live(r)
  BY CommitFacts
<1> HIDE DEF w
<1>3. w \in Round /\ w.nCanAct = CanActAfter(r, p, a)
  BY <1>1 DEF WagerShape
<1>4. Live(w) = IF a.type = "Fold" \/ GoesAllIn(r, p, a) THEN Live(r) \ {p}
                ELSE Live(r)
  BY <1>1 DEF WagerShape, Live
<1>5. /\ IsFiniteSet(Live(r)) /\ Cardinality(Live(r)) \in Nat
      /\ Cardinality(Live(r)) # 0 /\ r.nCanAct = Cardinality(Live(r))
  BY <1>2, LiveFacts DEF RoundInv, CountersInv
<1>6. Cardinality(Live(r) \ {p}) = Cardinality(Live(r)) - 1
  BY <1>5, <1>2, FS_RemoveElement
<1>7. w.nCanAct = Cardinality(Live(w))
  BY <1>3, <1>4, <1>5, <1>6 DEF CanActAfter, Monus
<1> QED BY <1>3, <1>4, <1>7 DEF w

\* apply_action keeps the round's promises.
LEMMA AfterActionKeeps ==
  ASSUME NEW r \in Round, RoundInv(r), NEW p \in Seats, NEW a \in Action,
         Legal(r, p, a)
  PROVE  AfterAction(r, p, a) \in Round /\ RoundInv(AfterAction(r, p, a))
<1> DEFINE w == Wager(r, p, a)
           bet == BetAfter(r, p, a)
           full == IsFullRaise(r, p, a)
           leaves == a.type = "Fold" \/ GoesAllIn(r, p, a)
<1>1. /\ p \in Live(r) /\ p = r.current /\ p \in Owing(r)
      /\ Total(r, p, a) \in Nat /\ bet \in Nat /\ bet >= r.currentBet
      /\ Total(r, p, a) <= bet
      /\ ~leaves => Total(r, p, a) = bet
      /\ full => Total(r, p, a) = bet /\ a.type # "Fold"
      /\ ~full /\ bet > r.currentBet => leaves
  BY CommitFacts
<1>2. /\ w \in Round /\ w.players = r.players /\ w.current = p /\ w.done = FALSE
      /\ w.contributed = [r.contributed EXCEPT ![p] = Total(r, p, a)]
      /\ w.folded = IF a.type = "Fold" THEN r.folded \cup {p} ELSE r.folded
      /\ w.allIn = IF GoesAllIn(r, p, a) THEN r.allIn \cup {p} ELSE r.allIn
      /\ w.hasActed = (IF full THEN r.hasActed \ Responders(r, p)
                        ELSE r.hasActed) \cup {p}
      /\ w.currentBet = bet
      /\ w.actionsRemaining = ActionsRemainingAfter(r, p, a)
      /\ w.nCanAct = CanActAfter(r, p, a)
  <2>1. w = Wager(r, p, a)
    OBVIOUS
  <2> HIDE DEF w
  <2>2. WagerShape(w, r, p, a)
    BY <2>1, WagerFields
  <2> QED BY <2>2 DEF WagerShape
<1>3. /\ r.contributed \in [Seats -> Nat] /\ r.currentBet \in Nat
      /\ r.actionsRemaining \in Nat
      /\ Live(r) \in SUBSET Seats /\ NotFolded(r) \in SUBSET Seats
      /\ CountersInv(r) /\ OwingFirst(r, p)
  BY <1>1, LiveFacts DEF Round, RoundInv, Legal
<1> HIDE DEF w, bet, full, leaves
<1>4. Live(w) = IF leaves THEN Live(r) \ {p} ELSE Live(r)
  BY <1>1, <1>2 DEF Live, leaves
<1>5. NotFolded(w) \subseteq NotFolded(r)
  BY <1>2 DEF NotFolded
<1>6. \A q \in Seats : q # p => w.contributed[q] = r.contributed[q]
  BY <1>2, <1>3
<1>7. w.contributed[p] = Total(r, p, a)
  BY <1>2, <1>3
<1>8. \A q \in NotFolded(w) : w.contributed[q] <= w.currentBet
  <2> SUFFICES ASSUME NEW q \in NotFolded(w) PROVE w.contributed[q] <= bet
    BY <1>2
  <2>1. q \in Seats /\ r.contributed[q] \in Nat /\ r.contributed[q] <= r.currentBet
    BY <1>3, <1>5 DEF CountersInv
  <2> QED BY <2>1, <1>1, <1>3, <1>6, <1>7
<1>9. w.nCanAct = Cardinality(Live(w))
  BY WagerCounts DEF w
<1>10. CASE full
  <2>1. Unacted(w) = Live(r) \ {p}
    BY <1>10, <1>2, <1>4, <1>1 DEF Unacted, Responders
  <2>2. w.actionsRemaining = Cardinality(Unacted(w))
    <3>1. IsFiniteSet(Live(r)) /\ Cardinality(Live(r)) \in Nat /\ Cardinality(Live(r)) # 0
      BY <1>1, LiveFacts
    <3>2. Cardinality(Live(r) \ {p}) = Cardinality(Live(r)) - 1
      BY <3>1, <1>1, FS_RemoveElement
    <3>3. r.nCanAct = Cardinality(Live(r))
      BY <1>3 DEF CountersInv
    <3> QED BY <3>1, <3>2, <3>3, <2>1, <1>10, <1>1, <1>2
            DEF ActionsRemainingAfter, CanActAfter, Monus, full, leaves
  <2>3. \A q \in Live(w) \ Unacted(w) : q = p
    BY <2>1, <1>4
  <2>4. w.contributed[p] = w.currentBet
    BY <1>1, <1>2, <1>7, <1>10
  <2>5. CountersInv(w)
    <3>1. Cardinality(Unacted(w)) \in Nat /\ w.currentBet \in Nat
      BY <1>2, LiveFacts DEF Round
    <3>2. ~(w.contributed[p] < w.currentBet)
      BY <2>4, <3>1
    <3>3. \A x \in Live(w) \ Unacted(w) : ~(w.contributed[x] < w.currentBet)
      BY <2>3, <3>2
    <3>4. ~(w.actionsRemaining < Cardinality(Unacted(w)))
      BY <2>2, <3>1
    <3>5. w.actionsRemaining <= Cardinality(Unacted(w))
      BY <2>2, <3>1
    <3> QED BY <1>8, <1>9, <3>3, <3>4, <3>5 DEF CountersInv
  <2>6. p \notin Owing(w)
    BY <1>2, <2>4, <1>1 DEF Owing, OwesResponse
  <2>7. \A q \in Live(w) \ Owing(w) : q = p
    BY <2>3, <1>2, LiveFacts
  <2>8. CheckDone(Advance(w)) \in Round /\ RoundInv(CheckDone(Advance(w)))
    BY <1>2, <2>5, <2>6, <2>7, AdvanceKeeps
  <2> QED BY <2>8 DEF AfterAction, w
<1>11. CASE ~full
  <2>1. w.hasActed = r.hasActed \cup {p}
    BY <1>2, <1>11
  <2>2. Unacted(w) = Unacted(r) \ {p}
    BY <2>1, <1>4 DEF Unacted
  <2>3. w.actionsRemaining = Monus(r.actionsRemaining, 1)
    BY <1>2, <1>11 DEF ActionsRemainingAfter, full
  <2>4. /\ IsFiniteSet(Unacted(r)) /\ Cardinality(Unacted(r)) \in Nat
        /\ p \in Unacted(r) => Cardinality(Unacted(r)) # 0
        /\ r.actionsRemaining <= Cardinality(Unacted(r))
        /\ r.actionsRemaining < Cardinality(Unacted(r)) =>
             \A q \in Unacted(r) : r.contributed[q] < r.currentBet
        /\ \A x \in Live(r) \ Unacted(r), q \in Unacted(r) :
             r.contributed[x] < r.currentBet => r.contributed[q] < r.currentBet
    BY <1>3, LiveFacts DEF CountersInv
  <2>5. Cardinality(Unacted(w)) =
          IF p \in Unacted(r) THEN Cardinality(Unacted(r)) - 1
                              ELSE Cardinality(Unacted(r))
    <3>1. IsFiniteSet(Unacted(r))
      BY <2>4
    <3>2. Cardinality(Unacted(r) \ {p}) =
            IF p \in Unacted(r) THEN Cardinality(Unacted(r)) - 1
                                ELSE Cardinality(Unacted(r))
      BY <3>1, FS_RemoveElement
    <3> QED BY <3>2, <2>2
  <2>6. w.actionsRemaining <= Cardinality(Unacted(w))
    BY <2>3, <2>4, <2>5, <1>3 DEF Monus
  <2>7. \A q \in Unacted(w) : /\ q \in Unacted(r) /\ q # p /\ q \in Live(r)
                              /\ q \in Seats /\ q \in NotFolded(r)
    BY <2>2, LiveFacts
  <2>8. CASE bet > r.currentBet
    <3>1. \A q \in Live(w) : q # p /\ w.contributed[q] < w.currentBet
      <4> SUFFICES ASSUME NEW q \in Live(w) PROVE q # p /\ w.contributed[q] < bet
        BY <1>2
      <4>1. q # p /\ q \in Live(r) /\ q \in Seats /\ q \in NotFolded(r)
        BY <1>1, <1>4, <1>11, <2>8, LiveFacts
      <4>2. r.contributed[q] \in Nat /\ r.contributed[q] <= r.currentBet
        BY <4>1, <1>3 DEF CountersInv
      <4> QED BY <4>1, <4>2, <2>8, <1>1, <1>3, <1>6
    <3>2. CountersInv(w)
      BY <3>1, <1>8, <1>9, <2>6, <1>2, LiveFacts DEF CountersInv
    <3>3. Owing(w) = Live(w) /\ p \notin Owing(w)
      BY <3>1 DEF Owing, OwesResponse
    <3>4. CheckDone(Advance(w)) \in Round /\ RoundInv(CheckDone(Advance(w)))
      BY <1>2, <3>2, <3>3, AdvanceKeeps
    <3> QED BY <3>4 DEF AfterAction, w
  <2>9. CASE bet = r.currentBet
    <3>1. \A q \in Seats : q # p =>
             (w.contributed[q] < w.currentBet <=> r.contributed[q] < r.currentBet)
      BY <2>9, <1>2, <1>6
    <3>2. p \notin Owing(w)
      BY <2>1, <1>1, <1>2, <1>4, <1>7 DEF Owing, OwesResponse
    <3>3. Owing(w) = Owing(r) \ {p}
      <4>1. \A q \in Live(r) : q \in Seats
        BY <1>3
      <4> QED BY <2>1, <3>1, <3>2, <4>1, <1>4 DEF Owing, OwesResponse
    <3>4. ASSUME w.actionsRemaining < Cardinality(Unacted(w)), NEW q \in Unacted(w)
          PROVE  w.contributed[q] < w.currentBet
      <4>1. q \in Unacted(r) /\ q \in Seats /\ q # p
        BY <2>7
      <4>2. CASE p \in Unacted(r)
        <5>1. r.actionsRemaining < Cardinality(Unacted(r))
          BY <4>2, <3>4, <2>3, <2>4, <2>5, <1>3 DEF Monus
        <5> QED BY <5>1, <4>1, <2>4, <3>1
      <4>3. CASE p \notin Unacted(r)
        <5>1. p \in r.hasActed /\ r.contributed[p] < r.currentBet
          BY <4>3, <1>1 DEF Unacted, Owing, OwesResponse
        <5> QED BY <5>1, <4>1, <4>3, <1>1, <2>4, <3>1
      <4> QED BY <4>2, <4>3
    <3>5. ASSUME NEW x \in Live(w) \ Unacted(w), NEW q \in Unacted(w),
                 w.contributed[x] < w.currentBet
          PROVE  w.contributed[q] < w.currentBet
      <4>1. q \in Unacted(r) /\ q \in Seats /\ q # p
        BY <2>7
      <4>2. x # p
        BY <3>5, <1>1, <1>2, <1>4, <1>7
      <4>3. x \in Live(r) \ Unacted(r) /\ x \in Seats
        BY <4>2, <2>2, <1>4, <1>3
      <4> QED BY <4>1, <4>2, <4>3, <3>1, <3>5, <2>4
    <3>6. CountersInv(w)
      BY <3>4, <3>5, <1>8, <1>9, <2>6 DEF CountersInv
    <3>7. \A x \in Owing(w), q \in Live(w) \ Owing(w) :
             q # p => Clockwise(p, x) < Clockwise(p, q)
      BY <3>3, <1>3, <1>4 DEF OwingFirst
    <3>8. CheckDone(Advance(w)) \in Round /\ RoundInv(CheckDone(Advance(w)))
      BY <1>2, <3>2, <3>6, <3>7, AdvanceKeeps
    <3> QED BY <3>8 DEF AfterAction, w
  <2> QED BY <2>8, <2>9, <1>1, <1>3
<1> QED BY <1>10, <1>11

-----------------------------------------------------------------------------
(* Retiring a seat.                                                        *)

RetireShape(q, r, p) ==
  /\ q \in Round
  /\ q.players = r.players /\ q.current = r.current /\ q.done = r.done
  /\ q.stack = r.stack /\ q.contributed = r.contributed
  /\ q.folded = r.folded \cup {p} /\ q.allIn = r.allIn
  /\ q.hasActed = r.hasActed \cup {p} /\ q.actedAtBet = r.actedAtBet
  /\ q.currentBet = r.currentBet /\ q.lastRaise = r.lastRaise
  /\ q.potTotal = r.potTotal
  /\ q.nCanAct = IF p \in r.allIn THEN r.nCanAct ELSE Monus(r.nCanAct, 1)
  /\ q.actionsRemaining =
       IF p \notin r.allIn /\ OwesResponse(r, p)
         THEN Monus(r.actionsRemaining, 1) ELSE r.actionsRemaining

LEMMA RetireFields ==
  ASSUME NEW r \in Round, NEW p \in Seats, NEW q, q = Retire(r, p)
  PROVE  RetireShape(q, r, p)
<1> DEFINE nc == IF p \in r.allIn THEN r.nCanAct ELSE Monus(r.nCanAct, 1)
           ar == IF p \notin r.allIn /\ OwesResponse(r, p)
                   THEN Monus(r.actionsRemaining, 1) ELSE r.actionsRemaining
<1>1. nc \in Nat /\ ar \in Nat
  BY DEF Monus, Round
<1>2. r.folded \cup {p} \in SUBSET Seats /\ r.hasActed \cup {p} \in SUBSET Seats
  BY DEF Round
<1>3. q = [ players |-> r.players, stack |-> r.stack,
            contributed |-> r.contributed, folded |-> r.folded \cup {p},
            allIn |-> r.allIn, hasActed |-> r.hasActed \cup {p},
            actedAtBet |-> r.actedAtBet, current |-> r.current,
            currentBet |-> r.currentBet, lastRaise |-> r.lastRaise,
            potTotal |-> r.potTotal, done |-> r.done,
            actionsRemaining |-> ar, nCanAct |-> nc ]
  BY DEF Retire, Round
<1> HIDE DEF nc, ar
<1>4. /\ q \in Round
      /\ q.players = r.players /\ q.current = r.current /\ q.done = r.done
      /\ q.stack = r.stack /\ q.contributed = r.contributed
      /\ q.folded = r.folded \cup {p} /\ q.allIn = r.allIn
      /\ q.hasActed = r.hasActed \cup {p} /\ q.actedAtBet = r.actedAtBet
      /\ q.currentBet = r.currentBet /\ q.lastRaise = r.lastRaise
      /\ q.potTotal = r.potTotal /\ q.nCanAct = nc /\ q.actionsRemaining = ar
  BY <1>1, <1>2, <1>3 DEF Round
<1> QED BY <1>4 DEF RetireShape, nc, ar

\* forfeit_player keeps the round's promises, also once the round is closed.
LEMMA AfterForfeitKeeps ==
  ASSUME NEW r \in Round, RoundInv(r), NEW p \in Seats, CanForfeit(r, p)
  PROVE  AfterForfeit(r, p) \in Round /\ RoundInv(AfterForfeit(r, p))
<1> DEFINE q == Retire(r, p)
<1>1. RetireShape(q, r, p)
  BY RetireFields
<1> HIDE DEF q
<1>2. /\ q \in Round /\ q.current = r.current /\ q.done = r.done
      /\ q.contributed = r.contributed /\ q.currentBet = r.currentBet
  BY <1>1 DEF RetireShape
<1>3. /\ r.contributed \in [Seats -> Nat] /\ r.currentBet \in Nat
      /\ r.actionsRemaining \in Nat /\ r.done \in BOOLEAN
      /\ Live(r) \in SUBSET Seats
      /\ CountersInv(r)
  BY LiveFacts DEF Round, RoundInv
<1>4. /\ Live(q) = Live(r) \ {p} /\ NotFolded(q) = NotFolded(r) \ {p}
      /\ Unacted(q) = Unacted(r) \ {p}
  BY <1>1 DEF RetireShape, Live, NotFolded, Unacted
<1>5. Owing(q) = Owing(r) \ {p}
  BY <1>1, <1>4 DEF RetireShape, Owing, OwesResponse
<1>6. p \in Live(r) <=> p \notin r.allIn
  BY DEF CanForfeit, Live
<1>7. CountersInv(q)
  <2>1. /\ IsFiniteSet(Live(r)) /\ Cardinality(Live(r)) \in Nat
        /\ p \in Live(r) => Cardinality(Live(r)) # 0
        /\ IsFiniteSet(Unacted(r)) /\ Cardinality(Unacted(r)) \in Nat
        /\ p \in Unacted(r) => Cardinality(Unacted(r)) # 0
    BY LiveFacts
  <2>2. /\ Cardinality(Live(q)) = IF p \in Live(r) THEN Cardinality(Live(r)) - 1
                                  ELSE Cardinality(Live(r))
        /\ Cardinality(Unacted(q)) =
             IF p \in Unacted(r) THEN Cardinality(Unacted(r)) - 1
                                 ELSE Cardinality(Unacted(r))
    <3>1. \A S : IsFiniteSet(S) =>
            Cardinality(S \ {p}) = IF p \in S THEN Cardinality(S) - 1 ELSE Cardinality(S)
      BY FS_RemoveElement
    <3>2. /\ Cardinality(Live(r) \ {p}) = IF p \in Live(r) THEN Cardinality(Live(r)) - 1
                                           ELSE Cardinality(Live(r))
          /\ Cardinality(Unacted(r) \ {p}) =
               IF p \in Unacted(r) THEN Cardinality(Unacted(r)) - 1
                                   ELSE Cardinality(Unacted(r))
      BY <2>1, <3>1, Zenon
    <3> QED BY <3>2, <1>4
  <2>3. q.nCanAct = Cardinality(Live(q))
    BY <2>1, <2>2, <1>1, <1>3, <1>6 DEF RetireShape, CountersInv, Monus
  <2>4. \A x \in NotFolded(q) : q.contributed[x] <= q.currentBet
    BY <1>2, <1>3, <1>4 DEF CountersInv
  <2>5. q.actionsRemaining = IF p \in Live(r) /\ OwesResponse(r, p)
                               THEN Monus(r.actionsRemaining, 1)
                               ELSE r.actionsRemaining
    BY <1>1, <1>6 DEF RetireShape
  <2>6. p \in Unacted(r) => p \in Live(r) /\ OwesResponse(r, p)
    BY DEF Unacted, OwesResponse
  <2>7. /\ r.actionsRemaining <= Cardinality(Unacted(r))
        /\ r.actionsRemaining < Cardinality(Unacted(r)) =>
             \A x \in Unacted(r) : r.contributed[x] < r.currentBet
        /\ \A y \in Live(r) \ Unacted(r), x \in Unacted(r) :
             r.contributed[y] < r.currentBet => r.contributed[x] < r.currentBet
    BY <1>3 DEF CountersInv
  <2>8. q.actionsRemaining <= Cardinality(Unacted(q))
    BY <2>1, <2>2, <2>5, <2>6, <2>7, <1>3 DEF Monus
  <2>9. ASSUME q.actionsRemaining < Cardinality(Unacted(q)), NEW x \in Unacted(q)
        PROVE  q.contributed[x] < q.currentBet
    <3>1. x \in Unacted(r)
      BY <1>4
    <3>2. CASE r.actionsRemaining < Cardinality(Unacted(r))
      BY <3>1, <3>2, <2>7, <1>2
    <3>3. CASE ~(r.actionsRemaining < Cardinality(Unacted(r)))
      <4>1. p \in Live(r) \ Unacted(r) /\ OwesResponse(r, p)
        BY <3>3, <2>9, <2>1, <2>2, <2>5, <2>6, <2>7, <1>3 DEF Monus
      <4>2. r.contributed[p] < r.currentBet
        BY <4>1 DEF Unacted, OwesResponse
      <4> QED BY <4>1, <4>2, <3>1, <2>7, <1>2
    <3> QED BY <3>2, <3>3
  <2>10. \A y \in Live(q) \ Unacted(q), x \in Unacted(q) :
           q.contributed[y] < q.currentBet => q.contributed[x] < q.currentBet
    BY <2>7, <1>2, <1>4
  <2> QED BY <2>3, <2>4, <2>8, <2>9, <2>10 DEF CountersInv
<1>8. r.done => Settled(q)
  <2> SUFFICES ASSUME r.done PROVE Settled(q)
    OBVIOUS
  <2>1. Settled(r) /\ ~(Cardinality(NotFolded(r)) <= 1)
    BY LiveFacts DEF RoundInv, CanForfeit
  <2>2. q.hasActed = r.hasActed \cup {p}
    BY <1>1 DEF RetireShape
  <2>3. CASE Live(q) = {}
    BY <2>3 DEF Settled
  <2>4. CASE \E x \in Live(r) :
               /\ Live(r) = {x}
               /\ \A y \in NotFolded(r) : r.contributed[y] <= r.contributed[x]
    BY <2>3, <2>4, <1>2, <1>4 DEF Settled
  <2>5. CASE \A x \in Live(r) : x \in r.hasActed /\ r.contributed[x] = r.currentBet
    BY <2>5, <2>2, <1>2, <1>4 DEF Settled
  <2> QED BY <2>1, <2>3, <2>4, <2>5, <1>4 DEF Settled
<1>9. CASE p = r.current
  <2>1. ~r.done => OwingFirst(r, p)
    BY <1>9 DEF RoundInv
  <2>2. ~q.done => \A x \in Owing(q), y \in Live(q) \ Owing(q) :
                     y # q.current => Clockwise(q.current, x) < Clockwise(q.current, y)
    BY <2>1, <1>2, <1>4, <1>5, <1>9 DEF OwingFirst
  <2>3. q.current \notin Owing(q)
    BY <1>2, <1>5, <1>9
  <2>4. CheckDone(Advance(q)) \in Round /\ RoundInv(CheckDone(Advance(q)))
    BY <1>2, <1>7, <1>8, <2>2, <2>3, AdvanceKeeps
  <2> QED BY <2>4, <1>9 DEF AfterForfeit, q
<1>10. CASE p # r.current
  <2>1. ~q.done => q.current \in Live(q) /\ OwingFirst(q, q.current)
    <3> SUFFICES ASSUME ~q.done
                 PROVE  q.current \in Live(q) /\ OwingFirst(q, q.current)
      OBVIOUS
    <3>1. r.current \in Owing(r) /\ OwingFirst(r, r.current)
      BY <1>2 DEF RoundInv
    <3>2. q.current \in Live(q)
      BY <3>1, <1>2, <1>4, <1>10, LiveFacts
    <3> QED BY <3>1, <3>2, <1>2, <1>4, <1>5 DEF OwingFirst
  <2>2. CheckDone(q) \in Round /\ RoundInv(CheckDone(q))
    BY <1>2, <1>7, <1>8, <2>1, CheckDoneKeeps
  <2> QED BY <2>2, <1>10 DEF AfterForfeit, q
<1> QED BY <1>9, <1>10

-----------------------------------------------------------------------------
(* What passing the turn and closing leave alone.                          *)

\* The chips, the seats and what each of them did are the same; the bet is too
\* unless at most one seat can act.
SameChips(q, r) ==
  /\ q.players = r.players /\ q.stack = r.stack
  /\ q.contributed = r.contributed /\ q.folded = r.folded
  /\ q.allIn = r.allIn /\ q.hasActed = r.hasActed
  /\ q.actedAtBet = r.actedAtBet /\ q.lastRaise = r.lastRaise
  /\ q.potTotal = r.potTotal
  /\ q.currentBet = r.currentBet \/ \A x, y \in Live(r) : x = y

LEMMA TurnFrame ==
  ASSUME NEW r \in Round
  PROVE  SameChips(Advance(r), r) /\ SameChips(SeekActive(r), r)
BY DEF Advance, SeekActive, SameChips, Round

LEMMA CheckDoneFrame ==
  ASSUME NEW r \in Round, r.nCanAct = Cardinality(Live(r))
  PROVE  SameChips(CheckDone(r), r)
<1>1. CASE r.nCanAct = 1
  <2>1. \E x : Live(r) = {x}
    BY <1>1, LiveFacts, FS_Singleton
  <2> QED BY <2>1 DEF CheckDone, SameChips, Round
<1>2. CASE r.nCanAct # 1
  <2>1. EffectiveBet(r) = r.currentBet
    BY <1>2 DEF EffectiveBet, OneCanAct
  <2> QED BY <2>1 DEF CheckDone, SameChips, Round
<1> QED BY <1>1, <1>2

LEMMA SameChipsTrans ==
  ASSUME NEW q, NEW r, NEW t, SameChips(q, r), SameChips(r, t)
  PROVE  SameChips(q, t)
BY DEF SameChips, Live

\* Books and ReopenInv read only what SameChips compares.
LEMMA SameChipsKeeps ==
  ASSUME NEW q, NEW r, SameChips(q, r), NEW brought, NEW moved
  PROVE  /\ Books(r, brought) => Books(q, brought)
         /\ ReopenInv(r, moved) => ReopenInv(q, moved)
<1>1. Live(q) = Live(r)
  BY DEF SameChips, Live
<1> QED BY <1>1 DEF SameChips, Books, ReopenInv

\* apply_action and forfeit_player end in advance and check_done, the
\* constructors in seek_active and check_done.
LEMMA TurnCheckFrame ==
  ASSUME NEW r \in Round, r.nCanAct = Cardinality(Live(r))
  PROVE  /\ SameChips(CheckDone(Advance(r)), r)
         /\ SameChips(CheckDone(SeekActive(r)), r)
         /\ SameChips(CheckDone(r), r)
<1>1. r.current \in Seats /\ Left(r.current) \in Seats
  BY LeftIsSeat DEF Round
<1>2. ASSUME Live(r) # {}
      PROVE  /\ FirstFrom(Left(r.current), Live(r)) \in Seats
             /\ FirstFrom(r.current, Live(r)) \in Seats
  BY <1>1, <1>2, LiveFacts, FirstFromIsNearest
<1>3. Advance(r) \in Round /\ SeekActive(r) \in Round
  BY <1>2 DEF Advance, SeekActive, Round
<1>4. Advance(r).nCanAct = r.nCanAct /\ SeekActive(r).nCanAct = r.nCanAct
  BY DEF Advance, SeekActive, Round
<1>5. SameChips(Advance(r), r) /\ SameChips(SeekActive(r), r)
  BY TurnFrame
<1>6. Live(Advance(r)) = Live(r) /\ Live(SeekActive(r)) = Live(r)
  BY <1>5 DEF SameChips, Live
<1>7. /\ SameChips(CheckDone(Advance(r)), Advance(r))
      /\ SameChips(CheckDone(SeekActive(r)), SeekActive(r))
  BY <1>3, <1>4, <1>6, CheckDoneFrame
<1> QED BY <1>5, <1>7, CheckDoneFrame, SameChipsTrans

\* check_done lowers the bet, if it changes it at all.
LEMMA CheckDoneBet ==
  ASSUME NEW r \in Round, r.nCanAct = Cardinality(Live(r)),
         \A q \in NotFolded(r) : r.contributed[q] <= r.currentBet
  PROVE  CheckDone(r).currentBet \in Nat /\ CheckDone(r).currentBet <= r.currentBet
<1>1. r.currentBet \in Nat
  BY DEF Round
<1>2. EffectiveBet(r) \in Nat /\ EffectiveBet(r) <= r.currentBet
  BY <1>1, LoneFacts DEF EffectiveBet, OneCanAct, Least
<1> QED BY <1>1, <1>2 DEF CheckDone, Round

LEMMA TurnCheckBet ==
  ASSUME NEW r \in Round, r.nCanAct = Cardinality(Live(r)),
         \A q \in NotFolded(r) : r.contributed[q] <= r.currentBet,
         NEW t \in {r, Advance(r), SeekActive(r)}
  PROVE  CheckDone(t).currentBet \in Nat /\ CheckDone(t).currentBet <= r.currentBet
<1>1. r.current \in Seats /\ Left(r.current) \in Seats
  BY LeftIsSeat DEF Round
<1>2. ASSUME Live(r) # {}
      PROVE  /\ FirstFrom(Left(r.current), Live(r)) \in Seats
             /\ FirstFrom(r.current, Live(r)) \in Seats
  BY <1>1, <1>2, LiveFacts, FirstFromIsNearest
<1>3. t \in Round
  <2>1. Advance(r) \in Round
    BY <1>2 DEF Advance, Round
  <2>2. SeekActive(r) \in Round
    BY <1>2 DEF SeekActive, Round
  <2> QED BY <2>1, <2>2
<1>4. t.nCanAct = r.nCanAct /\ t.currentBet = r.currentBet /\ t.contributed = r.contributed
  BY DEF Advance, SeekActive, Round
<1>5. Live(t) = Live(r) /\ NotFolded(t) = NotFolded(r)
  BY DEF Advance, SeekActive, Round, Live, NotFolded
<1> QED BY <1>3, <1>4, <1>5, CheckDoneBet

-----------------------------------------------------------------------------
(* The chips of a street, and who may raise again.                         *)

LEMMA AfterActionBooks ==
  ASSUME NEW r \in Round, RoundInv(r), NEW p \in Seats, NEW a \in Action,
         Legal(r, p, a), NEW brought \in [Seats -> Nat], Books(r, brought)
  PROVE  Books(AfterAction(r, p, a), brought)
<1> DEFINE w == Wager(r, p, a)
<1>1. WagerShape(w, r, p, a)
  BY WagerFields
<1>2. /\ p \in Live(r) /\ Commit(r, p, a) \in Nat
      /\ Commit(r, p, a) <= r.stack[p]
  BY CommitFacts
<1>3. /\ r.stack \in [Seats -> Nat] /\ r.contributed \in [Seats -> Nat]
      /\ r.potTotal \in Nat /\ r.players \in SUBSET Seats
  BY DEF Round
<1> HIDE DEF w
<1>4. \A q \in Seats : w.stack[q] + w.contributed[q] = brought[q]
  BY <1>1, <1>2, <1>3 DEF WagerShape, Books, Total
<1>5. w.potTotal = SumOver(w.contributed, Seats)
  <2>1. w.contributed = [r.contributed EXCEPT ![p] = r.contributed[p] + Commit(r, p, a)]
    BY <1>1 DEF WagerShape, Total
  <2>2. SumOver(w.contributed, Seats) = SumOver(r.contributed, Seats) + Commit(r, p, a)
    BY <2>1, <1>2, <1>3, SumOverUpdate
  <2> QED BY <2>2, <1>1 DEF WagerShape, Books
<1>6. w.allIn = {q \in w.players : w.stack[q] = 0}
  <2>1. p \in r.players /\ p \notin r.allIn /\ r.stack[p] # 0
    BY <1>2 DEF Live, Books
  <2>2. GoesAllIn(r, p, a) <=> r.stack[p] - Commit(r, p, a) = 0
    BY <1>2, <1>3, <2>1 DEF GoesAllIn, Commit, Action, ActionTypes
  <2>3. w.stack[p] = r.stack[p] - Commit(r, p, a)
    BY <1>1, <1>3 DEF WagerShape
  <2>4. \A q \in r.players : q # p => w.stack[q] = r.stack[q]
    BY <1>1, <1>3 DEF WagerShape
  <2>5. w.players = r.players /\ r.allIn = {q \in r.players : r.stack[q] = 0}
    BY <1>1 DEF WagerShape, Books
  <2>6. w.allIn = IF GoesAllIn(r, p, a) THEN r.allIn \cup {p} ELSE r.allIn
    BY <1>1 DEF WagerShape
  <2> QED BY <2>1, <2>2, <2>3, <2>4, <2>5, <2>6
<1>7. Books(w, brought)
  BY <1>4, <1>5, <1>6 DEF Books
<1>8. w \in Round /\ w.nCanAct = Cardinality(Live(w))
  BY WagerCounts DEF w
<1>9. SameChips(CheckDone(Advance(w)), w)
  BY <1>8, TurnCheckFrame
<1> QED BY <1>7, <1>9, SameChipsKeeps DEF AfterAction, w

\* The seats of the round before the wager, seen from after it.
LEMMA AfterActionReopen ==
  ASSUME NEW r \in Round, RoundInv(r), NEW p \in Seats, NEW a \in Action,
         Legal(r, p, a), NEW moved \in SUBSET Seats, ReopenInv(r, moved)
  PROVE  ReopenInv(AfterAction(r, p, a), moved \cup {p})
<1> DEFINE w == Wager(r, p, a)
<1>1. WagerShape(w, r, p, a)
  BY WagerFields
<1>2. /\ w \in Round /\ w.nCanAct = Cardinality(Live(w))
      /\ Live(w) \subseteq Live(r)
  BY WagerCounts
<1>3. /\ r.currentBet \in Nat /\ r.lastRaise \in Nat
      /\ r.actedAtBet \in [Seats -> Nat] /\ Live(r) \in SUBSET Seats
  BY LiveFacts DEF Round
<1>4. BetAfter(r, p, a) \in Nat /\ BetAfter(r, p, a) >= r.currentBet
  BY CommitFacts
<1> HIDE DEF w
<1>5. ReopenInv(w, moved \cup {p})
  <2> SUFFICES ASSUME NEW x \in Live(w), NEW y \in Live(w), x # y
               PROVE  /\ w.actedAtBet[x] <= w.currentBet
                      /\ x \in (moved \cup {p}) \ w.hasActed =>
                           w.currentBet >= w.actedAtBet[x] + w.lastRaise
    BY DEF ReopenInv
  <2>1. x \in Live(r) /\ y \in Live(r) /\ x \in Seats
    BY <1>2, <1>3
  <2>2. /\ r.actedAtBet[x] <= r.currentBet
        /\ x \in moved \ r.hasActed =>
             r.currentBet >= r.actedAtBet[x] + r.lastRaise
    BY <2>1 DEF ReopenInv
  <2>3. w.currentBet = BetAfter(r, p, a)
    BY <1>1 DEF WagerShape
  <2>4. CASE x = p
    <3>1. w.actedAtBet[x] = BetAfter(r, p, a) /\ x \in w.hasActed
      BY <1>1, <1>3, <2>4 DEF WagerShape
    <3> QED BY <3>1, <2>3, <1>4
  <2>5. CASE x # p
    <3>1. w.actedAtBet[x] = r.actedAtBet[x]
      BY <1>1, <1>3, <2>1, <2>5 DEF WagerShape
    <3>2. r.actedAtBet[x] \in Nat
      BY <1>3, <2>1
    <3>3. CASE IsFullRaise(r, p, a)
      <4>1. w.lastRaise = BetAfter(r, p, a) - r.currentBet
        BY <1>1, <3>3 DEF WagerShape
      <4> QED BY <4>1, <3>1, <3>2, <2>2, <2>3, <1>3, <1>4
    <3>4. CASE ~IsFullRaise(r, p, a)
      <4>1. w.lastRaise = r.lastRaise /\ w.hasActed = r.hasActed \cup {p}
        BY <1>1, <3>4 DEF WagerShape
      <4> QED BY <4>1, <3>1, <3>2, <2>2, <2>3, <2>5, <1>3, <1>4
    <3> QED BY <3>3, <3>4
  <2> QED BY <2>4, <2>5
<1>6. SameChips(CheckDone(Advance(w)), w)
  BY <1>2, TurnCheckFrame
<1> QED BY <1>5, <1>6, SameChipsKeeps DEF AfterAction, w

\* Retiring a seat moves no chips and reopens nothing.
LEMMA AfterForfeitFrame ==
  ASSUME NEW r \in Round, RoundInv(r), NEW p \in Seats, CanForfeit(r, p),
         NEW brought, NEW moved
  PROVE  /\ Books(r, brought) => Books(AfterForfeit(r, p), brought)
         /\ ReopenInv(r, moved) => ReopenInv(AfterForfeit(r, p), moved)
         /\ AfterForfeit(r, p).actedAtBet = r.actedAtBet
         /\ AfterForfeit(r, p).contributed = r.contributed
<1> DEFINE q == Retire(r, p)
<1>1. RetireShape(q, r, p)
  BY RetireFields
<1>2. Live(q) = Live(r) \ {p}
  BY <1>1 DEF RetireShape, Live
<1>3. q \in Round /\ q.nCanAct = Cardinality(Live(q))
  <2>1. /\ IsFiniteSet(Live(r)) /\ Cardinality(Live(r)) \in Nat
        /\ p \in Live(r) => Cardinality(Live(r)) # 0
        /\ r.nCanAct = Cardinality(Live(r))
    BY LiveFacts DEF RoundInv, CountersInv
  <2>2. Cardinality(Live(q)) = IF p \in Live(r) THEN Cardinality(Live(r)) - 1
                               ELSE Cardinality(Live(r))
    <3>1. Cardinality(Live(r) \ {p}) =
            IF p \in Live(r) THEN Cardinality(Live(r)) - 1 ELSE Cardinality(Live(r))
      BY <2>1, FS_RemoveElement
    <3> QED BY <3>1, <1>2
  <2>3. p \in Live(r) <=> p \notin r.allIn
    BY DEF CanForfeit, Live
  <2> HIDE DEF q
  <2> QED BY <1>1, <2>1, <2>2, <2>3 DEF RetireShape, Monus
<1> HIDE DEF q
<1>4. Books(r, brought) => Books(q, brought)
  BY <1>1 DEF RetireShape, Books
<1>5. ReopenInv(r, moved) => ReopenInv(q, moved)
  BY <1>1, <1>2 DEF RetireShape, ReopenInv
<1>6. SameChips(CheckDone(Advance(q)), q) /\ SameChips(CheckDone(q), q)
  BY <1>3, TurnCheckFrame
<1>7. SameChips(AfterForfeit(r, p), q)
  BY <1>6 DEF AfterForfeit, q
<1>8. /\ AfterForfeit(r, p).actedAtBet = r.actedAtBet
      /\ AfterForfeit(r, p).contributed = r.contributed
  BY <1>1, <1>7 DEF SameChips, RetireShape
<1> QED BY <1>4, <1>5, <1>7, <1>8, SameChipsKeeps

-----------------------------------------------------------------------------
(* Part 2. One street, and the history projection that runs beside it: StreetInv
   and ReplayInv are inductive and imply the properties. *)

\* What the constructors leave in the books.
LEMMA OpeningBooks ==
  ASSUME NEW start \in [Seats -> Nat], NEW posted \in [Seats -> Nat],
         \A s \in Seats : posted[s] <= start[s],
         NEW first \in Seats, NEW bet \in Nat, NEW increment \in Nat,
         NEW pot, pot = SumOver(posted, Seats),
         \A s \in Seats : posted[s] <= bet,
         NEW o, o = Opening(Seats, [s \in Seats |-> start[s] - posted[s]],
                            posted, first, bet, increment, pot)
  PROVE  /\ CheckDone(SeekActive(o)) \in Round
         /\ RoundInv(CheckDone(SeekActive(o)))
         /\ Books(CheckDone(SeekActive(o)), start)
         /\ ReopenInv(CheckDone(SeekActive(o)), {})
<1> DEFINE left == [s \in Seats |-> start[s] - posted[s]]
           broke == {p \in Seats : left[p] = 0}
           zero == [s \in Seats |-> 0]
           rich == {p \in Seats : left[p] # 0}
<1>1. left \in [Seats -> Nat] /\ pot \in Nat
  BY SumOverType
<1>2. /\ CheckDone(SeekActive(o)) \in Round
      /\ RoundInv(CheckDone(SeekActive(o)))
  <2> HIDE DEF left
  <2>1. o = Opening(Seats, left, posted, first, bet, increment, pot)
    BY DEF left
  <2> QED BY <1>1, <2>1, OpeningKeeps
<1>6. /\ o \in Round /\ o.players = Seats /\ o.stack = left
      /\ o.contributed = posted /\ o.allIn = broke /\ o.folded = {}
      /\ o.potTotal = pot /\ o.actedAtBet = zero
      /\ o.currentBet = bet /\ o.nCanAct = Cardinality(rich)
  <2>1. o = Opening(Seats, left, posted, first, bet, increment, pot)
    OBVIOUS
  <2>2. rich = {p \in Seats : left[p] # 0} /\ broke = {p \in Seats : left[p] = 0}
    OBVIOUS
  <2> HIDE DEF left, rich, broke
  <2>3. OpeningShape(o, Seats, left, posted, first, bet, pot, rich, broke)
    BY <1>1, <2>1, <2>2, OpeningFields
  <2> QED BY <2>3 DEF OpeningShape
<1>7. Live(o) = rich /\ \A p \in rich : p \in Seats
  BY <1>6 DEF Live
<1> HIDE DEF left, broke, zero, rich
<1>8. Books(o, start)
  <2>1. \A p \in Seats : o.stack[p] + o.contributed[p] = start[p]
    BY <1>6 DEF left
  <2>2. o.allIn = {p \in o.players : o.stack[p] = 0}
    BY <1>6 DEF broke
  <2> QED BY <2>1, <2>2, <1>6 DEF Books
<1>9. ReopenInv(o, {})
  BY <1>6, <1>7 DEF ReopenInv, zero
<1>10. SameChips(CheckDone(SeekActive(o)), o)
  BY <1>6, <1>7, TurnCheckFrame
<1> QED BY <1>2, <1>8, <1>9, <1>10, SameChipsKeeps

\* BettingRound::new and new_preflop open a street with its invariant.
LEMMA InitKeeps == StreetInit => StreetInv
<1> SUFFICES ASSUME StreetInit PROVE StreetInv
  OBVIOUS
<1>1. buyIn \in [Seats -> Nat] /\ acted = {} /\ betAt \in [Seats -> Nat]
  BY StakesAssumption DEF StreetInit
<1>2. PICK b \in Seats :
        \/ bets = NewRound(Seats, buyIn, b, BigBlind)
        \/ \E small \in {0, SmallBlind}, straddle \in {0, Straddle} :
             bets = PreflopRound(buyIn, b, small, BigBlind, straddle)
  BY StakesAssumption DEF StreetInit
<1>3. ASSUME bets \in Round, RoundInv(bets), Books(bets, buyIn),
             ReopenInv(bets, {})
      PROVE  StreetInv
  BY <1>1, <1>3 DEF StreetInv, StreetTypes
<1>4. CASE bets = NewRound(Seats, buyIn, b, BigBlind)
  <2> DEFINE zero == [s \in Seats |-> 0]
  <2>1. zero \in [Seats -> Nat] /\ \A s \in Seats : zero[s] = 0
    OBVIOUS
  <2>2. SumOver(zero, Seats) = 0
    BY SumOverZero
  <2>3. [s \in Seats |-> buyIn[s] - zero[s]] = buyIn
    BY <1>1
  <2> DEFINE o == Opening(Seats, [s \in Seats |-> buyIn[s] - zero[s]], zero, b,
                          0, BigBlind, SumOver(zero, Seats))
  <2>4. bets = CheckDone(SeekActive(o))
    BY <1>4, <2>2, <2>3 DEF NewRound
  <2>5. \A s \in Seats : zero[s] <= buyIn[s] /\ zero[s] <= 0
    BY <1>1, <2>1
  <2>6. BigBlind \in Nat
    BY StakesAssumption
  <2> HIDE DEF zero
  <2>7. /\ CheckDone(SeekActive(o)) \in Round
        /\ RoundInv(CheckDone(SeekActive(o)))
        /\ Books(CheckDone(SeekActive(o)), buyIn)
        /\ ReopenInv(CheckDone(SeekActive(o)), {})
    BY <1>1, <2>1, <2>5, <2>6, OpeningBooks
  <2> QED BY <1>3, <2>4, <2>7
<1>5. CASE \E small \in {0, SmallBlind}, straddle \in {0, Straddle} :
             bets = PreflopRound(buyIn, b, small, BigBlind, straddle)
  <2>1. PICK small \in {0, SmallBlind}, straddle \in {0, Straddle} :
               bets = PreflopRound(buyIn, b, small, BigBlind, straddle)
    BY <1>5
  <2> DEFINE first == IF Straddles(straddle) THEN Left(Left(b)) ELSE Left(b)
             blinds == ForcedPosts(b, small, BigBlind, straddle)
             bringIn == BringIn(buyIn, b, BigBlind, straddle)
             posted == [s \in Seats |-> Least(blinds[s], buyIn[s])]
             T == {posted[s] : s \in Seats} \cup {bringIn}
             bound == small + BigBlind + straddle
             o == Opening(Seats, [s \in Seats |-> buyIn[s] - posted[s]], posted,
                          first, Max(T), bringIn, SumOver(posted, Seats))
  <2>2. small \in Nat /\ straddle \in Nat /\ BigBlind \in Nat /\ bound \in Nat
    BY StakesAssumption
  <2>3. first \in Seats
    BY LeftIsSeat
  <2>4. bringIn \in Nat /\ bringIn <= bound
    BY <2>2 DEF BringIn
  <2>5. \A s \in Seats : blinds[s] \in Nat /\ blinds[s] <= bound
    <3>1. \A s \in Seats : blinds[s] =
            CASE s = b -> BigBlind
              [] s = Right(b) -> small
              [] s = Left(b) /\ Straddles(straddle) -> straddle
              [] OTHER -> 0
      BY DEF ForcedPosts
    <3> HIDE DEF blinds
    <3> QED BY <3>1, <2>2
  <2> HIDE DEF blinds, bringIn, first
  <2>6. /\ posted \in [Seats -> Nat]
        /\ \A s \in Seats : posted[s] <= buyIn[s] /\ posted[s] <= bound
    BY <1>1, <2>2, <2>5 DEF Least
  <2> HIDE DEF posted, bound
  <2>7. T \in SUBSET Nat /\ T # {} /\ \A x \in T : x <= bound
    BY <2>4, <2>6
  <2>8. Max(T) \in T /\ \A y \in T : y <= Max(T)
    <3> HIDE DEF T
    <3> QED BY <2>2, <2>7, MaxOfBounded
  <2>9. Max(T) \in Nat /\ \A s \in Seats : posted[s] <= Max(T)
    BY <2>7, <2>8
  <2>10. bets = CheckDone(SeekActive(o))
    BY <2>1 DEF PreflopRound, NewPreflop, first, blinds, bringIn, posted
  <2> HIDE DEF T
  <2>11. /\ CheckDone(SeekActive(o)) \in Round
         /\ RoundInv(CheckDone(SeekActive(o)))
         /\ Books(CheckDone(SeekActive(o)), buyIn)
         /\ ReopenInv(CheckDone(SeekActive(o)), {})
    BY <1>1, <2>3, <2>4, <2>6, <2>9, OpeningBooks
  <2> QED BY <1>3, <2>10, <2>11
<1> QED BY <1>2, <1>4, <1>5

\* Every action and every forfeit preserves the invariant of the street.
LEMMA NextKeeps == StreetInv /\ [StreetNext]_streetVars => StreetInv'
<1> SUFFICES ASSUME StreetInv, [StreetNext]_streetVars PROVE StreetInv'
  OBVIOUS
<1>0. /\ bets \in Round /\ buyIn \in [Seats -> Nat]
      /\ acted \in SUBSET Seats /\ betAt \in [Seats -> Nat]
      /\ RoundInv(bets) /\ Books(bets, buyIn) /\ ReopenInv(bets, acted)
      /\ \A p \in acted : betAt[p] = bets.actedAtBet[p]
  BY DEF StreetInv, StreetTypes
<1>1. ASSUME NEW p \in Seats, NEW a \in Actions, RoundAction(p, a)
      PROVE  StreetInv'
  <2>1. a \in Action
    BY StakesAssumption DEF Actions, Action, ActionTypes
  <2>2. /\ Legal(bets, p, a) /\ bets' = AfterAction(bets, p, a)
        /\ acted' = acted \cup {p} /\ buyIn' = buyIn
        /\ betAt' = [betAt EXCEPT ![p] = BetAfter(bets, p, a)]
    BY <1>1 DEF RoundAction
  <2>3. bets' \in Round /\ RoundInv(bets')
    BY <1>0, <2>1, <2>2, AfterActionKeeps
  <2>4. Books(bets', buyIn')
    BY <1>0, <2>1, <2>2, AfterActionBooks
  <2>5. ReopenInv(bets', acted')
    BY <1>0, <2>1, <2>2, AfterActionReopen
  <2>6. BetAfter(bets, p, a) \in Nat
    BY <1>0, <2>1, <2>2, CommitFacts
  <2>7. acted' \in SUBSET Seats /\ betAt' \in [Seats -> Nat]
    BY <1>0, <2>2, <2>6
  <2>8. bets'.actedAtBet = [bets.actedAtBet EXCEPT ![p] = BetAfter(bets, p, a)]
    <3>1. WagerShape(Wager(bets, p, a), bets, p, a)
      BY <1>0, <2>1, <2>2, WagerFields
    <3>2. /\ Wager(bets, p, a) \in Round
          /\ Wager(bets, p, a).nCanAct = Cardinality(Live(Wager(bets, p, a)))
      BY <1>0, <2>1, <2>2, WagerCounts
    <3>3. SameChips(bets', Wager(bets, p, a))
      BY <2>2, <3>2, TurnCheckFrame DEF AfterAction
    <3> QED BY <3>1, <3>3 DEF SameChips, WagerShape
  <2>9. \A q \in acted' : betAt'[q] = bets'.actedAtBet[q]
    <3>1. bets.actedAtBet \in [Seats -> Nat]
      BY <1>0 DEF Round
    <3> QED BY <3>1, <2>2, <2>8, <1>0
  <2>10. StreetTypes'
    BY <1>0, <2>2, <2>3, <2>7 DEF StreetTypes
  <2> QED BY <2>3, <2>4, <2>5, <2>9, <2>10 DEF StreetInv
<1>2. ASSUME NEW p \in Seats, RoundForfeit(p)
      PROVE  StreetInv'
  <2>1. /\ CanForfeit(bets, p) /\ bets' = AfterForfeit(bets, p)
        /\ buyIn' = buyIn /\ acted' = acted /\ betAt' = betAt
    BY <1>2 DEF RoundForfeit
  <2>2. bets' \in Round /\ RoundInv(bets')
    BY <1>0, <2>1, AfterForfeitKeeps
  <2>3. /\ Books(bets', buyIn') /\ ReopenInv(bets', acted')
        /\ bets'.actedAtBet = bets.actedAtBet
    BY <1>0, <2>1, AfterForfeitFrame
  <2>4. StreetTypes'
    BY <1>0, <2>1, <2>2 DEF StreetTypes
  <2>5. \A q \in acted' : betAt'[q] = bets'.actedAtBet[q]
    BY <1>0, <2>1, <2>3
  <2> QED BY <2>2, <2>3, <2>4, <2>5 DEF StreetInv
<1>3. CASE UNCHANGED streetVars
  BY <1>0, <1>3 DEF streetVars, StreetInv, StreetTypes
<1> QED BY <1>1, <1>2, <1>3 DEF StreetNext, ActOnStreet, ForfeitOnStreet

-----------------------------------------------------------------------------
(* The theorems.                                                           *)

\* In every state of every street, for any number of seats, stacks and blinds:
\* the counters stand for the sets they replace, the chips balance, and the
\* owing seats come first.
THEOREM StreetInvariant == StreetSpec => []StreetInv
<1>1. StreetInit => StreetInv
  BY InitKeeps
<1>2. StreetInv /\ [StreetNext]_streetVars => StreetInv'
  BY NextKeeps
<1> QED BY <1>1, <1>2, PTL DEF StreetSpec

\* apply_action, forfeit_player and the constructors keep every field of the
\* round in its range: no stack, bet or counter ever goes below zero.
THEOREM StreetTypeOK == StreetSpec => []StreetTypes
<1>1. StreetInv => StreetTypes
  BY DEF StreetInv
<1> QED BY <1>1, StreetInvariant, PTL

\* apply_action and forfeit_player neither create nor destroy a chip.
THEOREM StreetBooksBalance == StreetSpec => []BooksBalance
<1>1. StreetInv => BooksBalance
  BY DEF StreetInv, BooksBalance
<1> QED BY <1>1, StreetInvariant, PTL

\* check_done never closes a street on a seat with a decision left.
THEOREM StreetClosesOnlyWhenSettled == StreetSpec => []ClosesOnlyWhenSettled
<1>1. StreetInv => ClosesOnlyWhenSettled
  BY DEF StreetInv, RoundInv, ClosesOnlyWhenSettled
<1> QED BY <1>1, StreetInvariant, PTL

\* advance never hands the turn to a seat with nothing to decide.
THEOREM StreetNoRedundantPrompt == StreetSpec => []NoRedundantPrompt
<1>1. StreetInv => NoRedundantPrompt
  BY DEF StreetInv, RoundInv, NoRedundantPrompt, Owing
<1> QED BY <1>1, StreetInvariant, PTL

\* player_can_raise and apply_action enforce TDA rules 6 and 43.
THEOREM StreetReraise == StreetSpec => ReraiseOnlyWhenReopened
<1> DEFINE Reopened(p) ==
             bets'.contributed[p] > bets.currentBet =>
               \/ bets.contributed[p] > bets.currentBet
               \/ bets.currentBet >= betAt[p] + bets.lastRaise
<1>1. StreetInv /\ [StreetNext]_streetVars => [\A p \in acted : Reopened(p)]_streetVars
  <2> SUFFICES ASSUME StreetInv, StreetNext, NEW p \in acted PROVE Reopened(p)
    OBVIOUS
  <2>0. /\ bets \in Round /\ p \in Seats /\ RoundInv(bets)
        /\ ReopenInv(bets, acted) /\ betAt[p] = bets.actedAtBet[p]
        /\ bets.contributed \in [Seats -> Nat] /\ bets.currentBet \in Nat
        /\ bets.lastRaise \in Nat /\ bets.actedAtBet \in [Seats -> Nat]
    BY DEF StreetInv, StreetTypes, Round
  <2>1. CASE ForfeitOnStreet
    <3>1. PICK q \in Seats : RoundForfeit(q)
      BY <2>1 DEF ForfeitOnStreet
    <3>2. bets'.contributed = bets.contributed
      BY <2>0, <3>1, AfterForfeitFrame DEF RoundForfeit
    <3> QED BY <3>2
  <2>2. CASE ActOnStreet
    <3>1. PICK q \in Seats, a \in Actions : RoundAction(q, a)
      BY <2>2 DEF ActOnStreet
    <3>2. a \in Action
      BY StakesAssumption DEF Actions, Action, ActionTypes
    <3>3. Legal(bets, q, a) /\ bets' = AfterAction(bets, q, a)
      BY <3>1 DEF RoundAction
    <3>4. bets'.contributed = [bets.contributed EXCEPT ![q] = Total(bets, q, a)]
      <4>1. WagerShape(Wager(bets, q, a), bets, q, a)
        BY <2>0, <3>2, <3>3, WagerFields
      <4>2. /\ Wager(bets, q, a) \in Round
            /\ Wager(bets, q, a).nCanAct = Cardinality(Live(Wager(bets, q, a)))
        BY <2>0, <3>2, <3>3, WagerCounts
      <4>3. SameChips(bets', Wager(bets, q, a))
        BY <3>3, <4>2, TurnCheckFrame DEF AfterAction
      <4> QED BY <4>1, <4>3 DEF SameChips, WagerShape
    <3>5. CASE p # q
      BY <3>4, <3>5, <2>0
    <3>6. CASE p = q
      <4> SUFFICES ASSUME Total(bets, p, a) > bets.currentBet
                   PROVE  bets.currentBet >= betAt[p] + bets.lastRaise
        BY <3>4, <3>6, <2>0
      <4>1. IsAggressiveAttempt(bets, p, a)
        <5>1. /\ bets.stack[p] \in Nat /\ bets.contributed[p] \in Nat
              /\ a.to \in Nat /\ a.type \in ActionTypes
          BY <2>0, <3>2 DEF Round, Action
        <5>2. bets.contributed[p] <= bets.currentBet
          <6>1. p \in Live(bets)
            BY <3>2, <3>3, <3>6, <2>0, CommitFacts
          <6> QED BY <6>1, <2>0, LiveFacts DEF RoundInv, CountersInv
        <5> QED BY <5>1, <5>2, <2>0
                DEF Total, Commit, IsAggressiveAttempt, ToCall, Monus, Least,
                    ActionTypes
      <4>2. PlayerCanRaise(bets, p)
        BY <4>1, <3>3, <3>6 DEF Legal
      <4>3. PICK y \in Live(bets) : y # p
        BY <4>2 DEF PlayerCanRaise
      <4>4. p \in Live(bets)
        BY <4>2 DEF PlayerCanRaise
      <4>5. CASE p \notin bets.hasActed
        BY <4>3, <4>4, <4>5, <2>0 DEF ReopenInv
      <4>6. CASE ActionReopenedFor(bets, p)
        BY <4>6, <2>0 DEF ActionReopenedFor, Monus
      <4> QED BY <4>2, <4>5, <4>6 DEF PlayerCanRaise
    <3> QED BY <3>5, <3>6
  <2> QED BY <2>1, <2>2 DEF StreetNext
<1> QED BY <1>1, StreetInvariant, PTL DEF StreetSpec, ReraiseOnlyWhenReopened

-----------------------------------------------------------------------------
(* The history projection.                                                 *)

\* What the constructors leave for the replay to agree with.
OpenedAt(r, posted, increment, bet) ==
  /\ r.contributed = posted /\ r.lastRaise = increment
  /\ r.currentBet \in Nat /\ r.currentBet <= bet
  /\ \A x, y \in Live(r) : x # y => r.currentBet = bet

LEMMA OpeningReplay ==
  ASSUME NEW left \in [Seats -> Nat], NEW posted \in [Seats -> Nat],
         NEW first \in Seats, NEW bet \in Nat, NEW increment \in Nat, NEW pot \in Nat,
         \A s \in Seats : posted[s] <= bet,
         NEW o, o = Opening(Seats, left, posted, first, bet, increment, pot),
         NEW r, r = CheckDone(SeekActive(o))
  PROVE  OpenedAt(r, posted, increment, bet)
<1> DEFINE broke == {p \in Seats : left[p] = 0}
           rich == {p \in Seats : left[p] # 0}
<1>1. /\ o \in Round /\ o.players = Seats /\ o.contributed = posted
      /\ o.folded = {} /\ o.allIn = broke
      /\ o.currentBet = bet /\ o.nCanAct = Cardinality(rich)
  <2>1. rich = {p \in Seats : left[p] # 0} /\ broke = {p \in Seats : left[p] = 0}
    OBVIOUS
  <2> HIDE DEF rich, broke
  <2>2. OpeningShape(o, Seats, left, posted, first, bet, pot, rich, broke)
    BY <2>1, OpeningFields
  <2> QED BY <2>2 DEF OpeningShape
<1>2. o.lastRaise = increment
  BY DEF Opening
<1>3. Live(o) = rich /\ NotFolded(o) = Seats
  BY <1>1 DEF Live, NotFolded
<1> HIDE DEF broke, rich
<1>4. SameChips(r, o)
  BY <1>1, <1>3, TurnCheckFrame
<1>5. Live(r) = Live(o)
  BY <1>4 DEF SameChips, Live
<1>6. r.currentBet \in Nat /\ r.currentBet <= bet
  BY <1>1, <1>3, TurnCheckBet
<1> QED BY <1>1, <1>2, <1>4, <1>5, <1>6 DEF SameChips, OpenedAt

\* Preflop the round opens at the bring-in or at the largest post above it.
LEMMA OpeningPreflop ==
  ASSUME NEW start \in [Seats -> Nat], NEW b \in Seats,
         NEW small \in {0, SmallBlind}, NEW straddle \in {0, Straddle},
         NEW r, r = PreflopRound(start, b, small, BigBlind, straddle),
         NEW bringIn, bringIn = BringIn(start, b, BigBlind, straddle)
  PROVE  /\ bringIn \in Nat /\ bringIn > 0
         /\ r.contributed \in [Seats -> Nat]
         /\ \E bet \in Nat :
              /\ OpenedAt(r, r.contributed, bringIn, bet)
              /\ bringIn <= bet
              /\ bet = bringIn \/ \E s \in Seats : bet = r.contributed[s]
<1> DEFINE first == IF Straddles(straddle) THEN Left(Left(b)) ELSE Left(b)
           blinds == ForcedPosts(b, small, BigBlind, straddle)
           posted == [s \in Seats |-> Least(blinds[s], start[s])]
           left == [s \in Seats |-> start[s] - posted[s]]
           T == {posted[s] : s \in Seats} \cup {bringIn}
           bound == small + BigBlind + straddle
           o == Opening(Seats, left, posted, first, Max(T), bringIn,
                        SumOver(posted, Seats))
<1>1. BigBlind \in Nat /\ BigBlind > 0
  BY StakesAssumption
<1>2. small \in Nat /\ straddle \in Nat /\ bound \in Nat
  BY <1>1, StakesAssumption
<1>3. first \in Seats
  BY LeftIsSeat
<1>4. bringIn \in Nat /\ bringIn <= bound /\ bringIn > 0
  BY <1>1, <1>2 DEF BringIn, Straddles
<1>5. \A s \in Seats : blinds[s] \in Nat /\ blinds[s] <= bound
  <2>1. \A s \in Seats : blinds[s] =
          CASE s = b -> BigBlind
            [] s = Right(b) -> small
            [] s = Left(b) /\ Straddles(straddle) -> straddle
            [] OTHER -> 0
    BY DEF ForcedPosts
  <2> HIDE DEF blinds
  <2> QED BY <2>1, <1>1, <1>2
<1>6. r = CheckDone(SeekActive(o))
  BY DEF PreflopRound, NewPreflop
<1> HIDE DEF blinds, first
<1>7. /\ posted \in [Seats -> Nat] /\ left \in [Seats -> Nat]
      /\ \A s \in Seats : posted[s] <= bound
  BY <1>2, <1>5 DEF Least
<1> HIDE DEF posted, left, bound
<1>8. T \in SUBSET Nat /\ T # {} /\ \A x \in T : x <= bound
  BY <1>4, <1>7
<1>9. Max(T) \in T /\ \A y \in T : y <= Max(T)
  <2> HIDE DEF T
  <2> QED BY <1>2, <1>8, MaxOfBounded
<1>10. Max(T) \in Nat /\ \A s \in Seats : posted[s] <= Max(T)
  BY <1>8, <1>9
<1>11. SumOver(posted, Seats) \in Nat
  BY <1>7, SumOverType
<1>12. PICK bet \in Nat, pot \in Nat : bet = Max(T) /\ pot = SumOver(posted, Seats)
  BY <1>10, <1>11
<1>13. PICK op : /\ op = Opening(Seats, left, posted, first, bet, bringIn, pot)
                 /\ r = CheckDone(SeekActive(op))
  BY <1>6, <1>12
<1>14. \A s \in Seats : posted[s] <= bet
  BY <1>10, <1>12
<1>15. bet \in T /\ bringIn <= bet
  BY <1>9, <1>12
<1>16. bet = bringIn \/ \E s \in Seats : bet = posted[s]
  BY <1>15
<1> HIDE DEF T
<1>17. OpenedAt(r, posted, bringIn, bet)
  BY <1>3, <1>4, <1>7, <1>13, <1>14, OpeningReplay
<1>18. r.contributed = posted
  BY <1>17 DEF OpenedAt
<1> QED BY <1>4, <1>7, <1>12, <1>15, <1>16, <1>17, <1>18

\* A later street opens at zero.
LEMMA OpeningPostflop ==
  ASSUME NEW start \in [Seats -> Nat], NEW b \in Seats
  PROVE  OpenedAt(NewRound(Seats, start, b, BigBlind), [p \in Seats |-> 0], BigBlind, 0)
<1> DEFINE zero == [s \in Seats |-> 0]
           o == Opening(Seats, start, zero, b, 0, BigBlind, 0)
<1>1. zero \in [Seats -> Nat] /\ \A s \in Seats : zero[s] <= 0
  OBVIOUS
<1>2. NewRound(Seats, start, b, BigBlind) = CheckDone(SeekActive(o))
  BY DEF NewRound
<1>3. BigBlind \in Nat
  BY StakesAssumption
<1> HIDE DEF zero
<1>4. OpenedAt(NewRound(Seats, start, b, BigBlind), zero, BigBlind, 0)
  BY <1>1, <1>2, <1>3, OpeningReplay
<1> QED BY <1>4 DEF zero

\* Preflop the replay starts from the remembered bring-in, later from zero.
LEMMA ReplayInit == FactsInit => ReplayInv
<1> SUFFICES ASSUME FactsInit, sameOpening PROVE ReplayInv
  BY DEF ReplayInv
<1>1. buyIn \in [Seats -> Nat] /\ fact = truth /\ aggressor = raiser
  BY StakesAssumption DEF FactsInit
<1>2. PICK b \in Seats :
        \/ /\ bets = NewRound(Seats, buyIn, b, BigBlind)
           /\ seen = OpenReplay(0, BigBlind, [p \in Seats |-> 0])
        \/ \E small \in {0, SmallBlind}, straddle \in {0, Straddle} :
             LET bringIn == BringIn(buyIn, b, BigBlind, straddle)
             IN  /\ bets = PreflopRound(buyIn, b, small, BigBlind, straddle)
                 /\ seen = OpenReplay(bringIn, bringIn, bets.contributed)
                 /\ \A p \in Seats : bets.contributed[p] <= bringIn
  BY StakesAssumption DEF FactsInit
<1>3. BigBlind \in Nat /\ BigBlind > 0
  BY StakesAssumption
<1>4. CASE /\ bets = NewRound(Seats, buyIn, b, BigBlind)
           /\ seen = OpenReplay(0, BigBlind, [p \in Seats |-> 0])
  <2>1. OpenedAt(bets, [p \in Seats |-> 0], BigBlind, 0)
    BY <1>1, <1>4, OpeningPostflop
  <2>2. seen.bet = 0 /\ seen.raise = BigBlind /\ seen.committed = [p \in Seats |-> 0]
    BY <1>4 DEF OpenReplay
  <2> QED BY <1>1, <1>3, <2>1, <2>2 DEF ReplayInv, OpenedAt
<1>5. ASSUME NEW small \in {0, SmallBlind}, NEW straddle \in {0, Straddle},
             bets = PreflopRound(buyIn, b, small, BigBlind, straddle),
             NEW bringIn, bringIn = BringIn(buyIn, b, BigBlind, straddle),
             seen = OpenReplay(bringIn, bringIn, bets.contributed),
             \A p \in Seats : bets.contributed[p] <= bringIn
      PROVE  ReplayInv
  <2>1. bringIn \in Nat /\ bringIn > 0 /\ bets.contributed \in [Seats -> Nat]
    BY <1>1, <1>5, OpeningPreflop
  <2>2. PICK bet \in Nat : /\ OpenedAt(bets, bets.contributed, bringIn, bet)
                           /\ bringIn <= bet
                           /\ bet = bringIn \/ \E s \in Seats : bet = bets.contributed[s]
    BY <1>1, <1>5, OpeningPreflop
  <2>3. bet = bringIn
    BY <1>5, <2>1, <2>2
  <2>4. seen.bet = bringIn /\ seen.raise = bringIn /\ seen.committed = bets.contributed
    BY <1>5 DEF OpenReplay
  <2> QED BY <1>1, <2>1, <2>2, <2>3, <2>4 DEF ReplayInv, OpenedAt
<1> QED BY <1>2, <1>4, <1>5

\* What an action does to the round, as the replay has to follow it.
LEMMA ActionRound ==
  ASSUME NEW r \in Round, RoundInv(r), NEW p \in Seats, NEW a \in Action,
         Legal(r, p, a), NEW t, t = AfterAction(r, p, a)
  PROVE  /\ t.contributed = [r.contributed EXCEPT ![p] = Total(r, p, a)]
         /\ t.lastRaise = IF IsFullRaise(r, p, a) THEN BetAfter(r, p, a) - r.currentBet
                          ELSE r.lastRaise
         /\ t.currentBet \in Nat /\ t.currentBet <= BetAfter(r, p, a)
         /\ Live(t) \subseteq Live(r)
         /\ \A x, y \in Live(t) : x # y => t.currentBet = BetAfter(r, p, a)
<1> DEFINE w == Wager(r, p, a)
<1>1. WagerShape(w, r, p, a)
  BY WagerFields
<1>2. w \in Round /\ w.nCanAct = Cardinality(Live(w)) /\ Live(w) \subseteq Live(r)
  BY WagerCounts
<1>3. /\ Total(r, p, a) \in Nat /\ Total(r, p, a) <= BetAfter(r, p, a)
      /\ BetAfter(r, p, a) \in Nat /\ BetAfter(r, p, a) >= r.currentBet
  BY CommitFacts
<1>4. t = CheckDone(Advance(w))
  BY DEF AfterAction
<1> HIDE DEF w
<1>5. w.currentBet = BetAfter(r, p, a) /\ NotFolded(w) \subseteq NotFolded(r)
  BY <1>1 DEF WagerShape, NotFolded
<1>6. \A q \in NotFolded(w) : w.contributed[q] <= w.currentBet
  <2>1. \A q \in NotFolded(r) : q \in Seats /\ r.contributed[q] <= r.currentBet
    BY LiveFacts DEF RoundInv, CountersInv
  <2>2. r.contributed \in [Seats -> Nat] /\ r.currentBet \in Nat
    BY DEF Round
  <2>3. w.contributed = [r.contributed EXCEPT ![p] = Total(r, p, a)]
    BY <1>1 DEF WagerShape
  <2> QED BY <1>3, <1>5, <2>1, <2>2, <2>3
<1>7. SameChips(t, w)
  BY <1>2, <1>4, TurnCheckFrame
<1>8. t.currentBet \in Nat /\ t.currentBet <= w.currentBet
  BY <1>2, <1>4, <1>6, TurnCheckBet
<1>9. Live(t) = Live(w)
  BY <1>7 DEF SameChips, Live
<1> QED BY <1>1, <1>2, <1>5, <1>7, <1>8, <1>9 DEF SameChips, WagerShape

\* A seat that is alone in being able to act cannot raise.
LEMMA LoneCannotRaise ==
  ASSUME NEW r \in Round, RoundInv(r), NEW p \in Seats, NEW a \in Action,
         Legal(r, p, a), \A x, y \in Live(r) : x = y, r.lastRaise > 0
  PROVE  /\ BetAfter(r, p, a) = r.currentBet /\ Total(r, p, a) <= r.currentBet
         /\ ~IsFullRaise(r, p, a)
<1>1. p \in Live(r) /\ Total(r, p, a) \in Nat /\ Total(r, p, a) <= BetAfter(r, p, a)
  BY CommitFacts
<1>2. ~IsAggressiveAttempt(r, p, a)
  BY <1>1 DEF Legal, PlayerCanRaise
<1>3. /\ r.stack[p] \in Nat /\ r.contributed[p] \in Nat /\ r.currentBet \in Nat
      /\ r.lastRaise \in Nat /\ a.to \in Nat
      /\ r.contributed[p] <= r.currentBet
  BY <1>1, LiveFacts DEF Round, Action, RoundInv, CountersInv
<1>4. a.type \in {"Raise", "AllIn"} => Total(r, p, a) <= r.currentBet
  BY <1>2, <1>3 DEF IsAggressiveAttempt, Total, Commit, Monus
<1>5. BetAfter(r, p, a) = r.currentBet
  BY <1>1, <1>3, <1>4 DEF BetAfter, Greatest
<1>6. ~IsFullRaise(r, p, a)
  BY <1>1, <1>2, <1>3, <1>4 DEF IsFullRaise, IsAggressiveAttempt, MinRaiseTo
<1> QED BY <1>1, <1>5, <1>6

\* The projection's verdict on a legal action is the round's, and its
\* accumulator follows.
LEMMA FactIsTrue ==
  ASSUME StreetInv, ReplayInv, sameOpening, NEW p \in Seats, NEW a \in Action,
         Legal(bets, p, a)
  PROVE  LET f == FactOf(p, a, Commit(bets, p, a))
         IN  /\ seen.committed[p] + Commit(bets, p, a) = Total(bets, p, a)
             /\ f.increased <=> BetAfter(bets, p, a) > bets.currentBet
             /\ f.full <=> IsFullRaise(bets, p, a)
             /\ f = [increased |-> BetAfter(bets, p, a) > bets.currentBet,
                     full |-> IsFullRaise(bets, p, a)]
<1> DEFINE f == FactOf(p, a, Commit(bets, p, a))
           total == Total(bets, p, a)
           bet == BetAfter(bets, p, a)
<1>1. /\ bets \in Round /\ RoundInv(bets)
      /\ seen.committed = bets.contributed /\ seen.bet \in Nat /\ seen.raise \in Nat
      /\ bets.currentBet <= seen.bet /\ bets.lastRaise > 0
      /\ \A x, y \in Live(bets) : x # y =>
           seen.bet = bets.currentBet /\ seen.raise = bets.lastRaise
  BY DEF StreetInv, StreetTypes, ReplayInv
<1>2. /\ bets.currentBet \in Nat /\ bets.lastRaise \in Nat
      /\ bets.contributed[p] \in Nat /\ a.to \in Nat /\ p \in Live(bets)
      /\ bets.contributed[p] <= bets.currentBet
  BY <1>1, CommitFacts, LiveFacts DEF Round, Action, RoundInv, CountersInv
<1>3. /\ total \in Nat /\ bet \in Nat /\ total <= bet
      /\ IsFullRaise(bets, p, a) => total = bet /\ bet >= bets.currentBet + bets.lastRaise
  BY <1>1, CommitFacts
<1>4. seen.committed[p] + Commit(bets, p, a) = total
  BY <1>1 DEF Total
<1> DEFINE inc == a.type \in {"Raise", "AllIn"} /\ total > seen.bet
           ful == inc /\ Monus(total, seen.bet) >= seen.raise
           rises == bet > bets.currentBet
           full == IsFullRaise(bets, p, a)
<1>5. f = [increased |-> inc, full |-> ful]
  BY <1>4 DEF FactOf
<1>6. full => a.type \in {"Raise", "AllIn"}
  BY DEF IsFullRaise
<1>7. rises <=> a.type \in {"Raise", "AllIn"} /\ total > bets.currentBet
  BY <1>2, <1>3 DEF BetAfter, Greatest
<1>8. (inc <=> rises) /\ (ful <=> full)
  <2>1. CASE \A x, y \in Live(bets) : x = y
    <3>1. /\ bet = bets.currentBet /\ total <= bets.currentBet
          /\ ~full
      BY <1>1, <2>1, LoneCannotRaise
    <3> HIDE DEF total, bet, full
    <3> QED BY <3>1, <1>1, <1>2, <1>3
  <2>2. CASE \E x, y \in Live(bets) : x # y
    <3>1. seen.bet = bets.currentBet /\ seen.raise = bets.lastRaise
      BY <1>1, <2>2
    <3>2. a.type \in {"Raise", "AllIn"} /\ total > bets.currentBet
            /\ total >= bets.currentBet + bets.lastRaise => full
      BY <1>2, <1>3 DEF IsFullRaise, Total, Commit, Monus, MinRaiseTo
    <3> HIDE DEF total, bet, full
    <3>3. inc <=> rises
      BY <3>1, <1>7
    <3>4. ful => full
      <4>1. ful => /\ a.type \in {"Raise", "AllIn"} /\ total > bets.currentBet
                   /\ total >= bets.currentBet + bets.lastRaise
        BY <3>1, <1>2, <1>3 DEF Monus
      <4> QED BY <3>2, <4>1
    <3>5. full => ful
      <4>1. full => /\ a.type \in {"Raise", "AllIn"} /\ total > bets.currentBet
                    /\ total - bets.currentBet >= bets.lastRaise
        BY <1>1, <1>2, <1>3, <1>6 DEF full
      <4> QED BY <3>1, <4>1, <1>2, <1>3 DEF Monus
    <3> QED BY <3>3, <3>4, <3>5
  <2> QED BY <2>1, <2>2
<1>9. f = [increased |-> rises, full |-> full]
  <2>1. inc = rises
    BY <1>8
  <2>2. ful = full
    BY <1>8 DEF IsFullRaise
  <2> QED BY <1>5, <2>1, <2>2, Zenon
<1>10. (f.increased <=> rises) /\ (f.full <=> full)
  <2> HIDE DEF f, rises, full
  <2> QED BY <1>9, Zenon
<1> QED BY <1>4, <1>9, <1>10

\* A logged action keeps the replay and the round together.
LEMMA ActionReplay ==
  ASSUME StreetInv, ReplayInv, NEW p \in Seats, NEW a \in Actions, LoggedAction(p, a)
  PROVE  ReplayInv'
<1> SUFFICES ASSUME sameOpening PROVE ReplayInv'
  BY DEF ReplayInv, LoggedAction
<1>1. a \in Action
  BY StakesAssumption DEF Actions, Action, ActionTypes
<1>2. /\ bets \in Round /\ RoundInv(bets)
      /\ seen.committed = bets.contributed /\ seen.bet \in Nat /\ seen.raise \in Nat
      /\ bets.currentBet <= seen.bet /\ bets.lastRaise > 0
      /\ \A x, y \in Live(bets) : x # y =>
           seen.bet = bets.currentBet /\ seen.raise = bets.lastRaise
      /\ aggressor = raiser
  BY DEF StreetInv, StreetTypes, ReplayInv
<1>3. Legal(bets, p, a) /\ bets' = AfterAction(bets, p, a)
  BY DEF LoggedAction, RoundAction
<1> DEFINE total == Total(bets, p, a)
           bet == BetAfter(bets, p, a)
           rises == bet > bets.currentBet
           full == IsFullRaise(bets, p, a)
           f == FactOf(p, a, Commit(bets, p, a))
<1>4. /\ seen.committed[p] + Commit(bets, p, a) = total
      /\ f.increased <=> rises
      /\ f.full <=> full
      /\ f = [increased |-> rises, full |-> full]
  BY <1>1, <1>3, FactIsTrue
<1>5. /\ fact' = f
      /\ seen'.bet = (IF rises THEN total ELSE seen.bet)
      /\ seen'.raise = (IF full THEN total - seen.bet ELSE seen.raise)
      /\ seen'.committed = [seen.committed EXCEPT ![p] = total]
      /\ aggressor' = IF rises THEN p ELSE aggressor
  BY <1>4 DEF LoggedAction, Replay
<1>6. fact' = truth' /\ aggressor' = raiser'
  <2>1. truth' = [increased |-> rises, full |-> full]
    BY DEF LoggedAction, Observe
  <2>2. raiser' = IF truth'.increased THEN p ELSE raiser
    BY DEF LoggedAction, Observe
  <2>3. truth'.increased <=> rises
    BY <2>1
  <2> QED BY <1>2, <1>4, <1>5, <2>1, <2>2, <2>3
<1>7. /\ bets'.contributed = [bets.contributed EXCEPT ![p] = total]
      /\ bets'.lastRaise = (IF full THEN bet - bets.currentBet ELSE bets.lastRaise)
      /\ bets'.currentBet \in Nat /\ bets'.currentBet <= bet
      /\ Live(bets') \subseteq Live(bets)
      /\ \A x, y \in Live(bets') : x # y => bets'.currentBet = bet
  BY <1>1, <1>2, <1>3, ActionRound
<1>8. /\ total \in Nat /\ bet \in Nat /\ total <= bet /\ bet >= bets.currentBet
      /\ full => total = bet /\ bet >= bets.currentBet + bets.lastRaise
      /\ rises => total = bet
  <2>1. /\ total \in Nat /\ bet \in Nat /\ total <= bet /\ bet >= bets.currentBet
        /\ full => total = bet /\ bet >= bets.currentBet + bets.lastRaise
    BY <1>1, <1>2, <1>3, CommitFacts
  <2>2. rises => total = bet
    BY <2>1, <1>2 DEF BetAfter, Greatest, Round
  <2> QED BY <2>1, <2>2
<1>9. bets.currentBet \in Nat /\ bets.lastRaise \in Nat
  BY <1>2 DEF Round
<1>10. (\A x, y \in Live(bets) : x = y) => ~rises /\ ~full
  BY <1>1, <1>2, <1>3, <1>9, LoneCannotRaise
<1>11. (\E x, y \in Live(bets) : x # y) =>
         seen.bet = bets.currentBet /\ seen.raise = bets.lastRaise
  BY <1>2
<1> HIDE DEF total, bet, rises, full, f
<1>r. rises <=> bet > bets.currentBet
  BY DEF rises
<1>12. full => rises /\ seen.bet = bets.currentBet
  BY <1>2, <1>8, <1>9, <1>10, <1>11, <1>r
<1>13. /\ seen'.bet \in Nat /\ seen'.raise \in Nat /\ bets'.lastRaise > 0
       /\ bets'.currentBet <= seen'.bet
  <2>1. seen'.bet \in Nat /\ seen'.raise \in Nat
    BY <1>2, <1>5, <1>8, <1>9, <1>12
  <2>2. bets'.lastRaise > 0
    BY <1>2, <1>7, <1>8, <1>9
  <2>3. bets'.currentBet <= seen'.bet
    BY <1>2, <1>5, <1>7, <1>8, <1>9, <1>r
  <2> QED BY <2>1, <2>2, <2>3
<1>14. \A x, y \in Live(bets') : x # y =>
         seen'.bet = bets'.currentBet /\ seen'.raise = bets'.lastRaise
  <2> SUFFICES ASSUME NEW x \in Live(bets'), NEW y \in Live(bets'), x # y
               PROVE  seen'.bet = bets'.currentBet /\ seen'.raise = bets'.lastRaise
    OBVIOUS
  <2>1. seen.bet = bets.currentBet /\ seen.raise = bets.lastRaise /\ bets'.currentBet = bet
    BY <1>7, <1>11
  <2> QED BY <2>1, <1>5, <1>7, <1>8, <1>9, <1>r
<1>15. seen'.committed = bets'.contributed
  BY <1>2, <1>5, <1>7
<1> QED BY <1>6, <1>13, <1>14, <1>15 DEF ReplayInv

\* What retiring a seat does to the round, as the replay has to follow it.
LEMMA ForfeitRound ==
  ASSUME NEW r \in Round, RoundInv(r), NEW p \in Seats,
         CanForfeit(r, p), NEW t, t = AfterForfeit(r, p)
  PROVE  /\ t.contributed = r.contributed /\ t.lastRaise = r.lastRaise
         /\ t.currentBet \in Nat /\ t.currentBet <= r.currentBet
         /\ Live(t) \subseteq Live(r)
         /\ \A x, y \in Live(t) : x # y => t.currentBet = r.currentBet
<1> DEFINE q == Retire(r, p)
<1>1. RetireShape(q, r, p)
  BY RetireFields
<1>2. t = CheckDone(q) \/ t = CheckDone(Advance(q))
  BY DEF AfterForfeit
<1> HIDE DEF q
<1>3. Live(q) = Live(r) \ {p} /\ NotFolded(q) = NotFolded(r) \ {p}
  BY <1>1 DEF RetireShape, Live, NotFolded
<1>4. /\ q \in Round /\ q.contributed = r.contributed
      /\ q.currentBet = r.currentBet /\ q.lastRaise = r.lastRaise
  BY <1>1 DEF RetireShape
<1>5. q.nCanAct = Cardinality(Live(q))
  <2>1. /\ IsFiniteSet(Live(r)) /\ Cardinality(Live(r)) \in Nat
        /\ p \in Live(r) => Cardinality(Live(r)) # 0
        /\ r.nCanAct = Cardinality(Live(r))
    BY LiveFacts DEF RoundInv, CountersInv
  <2>2. Cardinality(Live(q)) = IF p \in Live(r) THEN Cardinality(Live(r)) - 1
                               ELSE Cardinality(Live(r))
    <3>1. Cardinality(Live(r) \ {p}) =
            IF p \in Live(r) THEN Cardinality(Live(r)) - 1 ELSE Cardinality(Live(r))
      BY <2>1, FS_RemoveElement
    <3> QED BY <3>1, <1>3
  <2>3. p \in Live(r) <=> p \notin r.allIn
    BY DEF CanForfeit, Live
  <2> QED BY <1>1, <2>1, <2>2, <2>3 DEF RetireShape, Monus
<1>6. \A x \in NotFolded(q) : q.contributed[x] <= q.currentBet
  BY <1>3, <1>4 DEF RoundInv, CountersInv
<1>7. SameChips(t, q)
  BY <1>2, <1>4, <1>5, TurnCheckFrame
<1>8. t.currentBet \in Nat /\ t.currentBet <= q.currentBet
  BY <1>2, <1>4, <1>5, <1>6, TurnCheckBet
<1>9. Live(t) = Live(q)
  BY <1>7 DEF SameChips, Live
<1> QED BY <1>3, <1>4, <1>7, <1>8, <1>9 DEF SameChips

\* A forfeit is no aggression and moves no chips.
LEMMA ForfeitReplay ==
  ASSUME StreetInv, ReplayInv, NEW p \in Seats, LoggedForfeit(p)
  PROVE  ReplayInv'
<1> SUFFICES ASSUME sameOpening PROVE ReplayInv'
  BY DEF ReplayInv, LoggedForfeit
<1>1. /\ bets \in Round /\ RoundInv(bets)
      /\ seen.committed = bets.contributed /\ seen.bet \in Nat /\ seen.raise \in Nat
      /\ bets.currentBet <= seen.bet /\ bets.lastRaise > 0
      /\ \A x, y \in Live(bets) : x # y =>
           seen.bet = bets.currentBet /\ seen.raise = bets.lastRaise
      /\ aggressor = raiser
  BY DEF StreetInv, StreetTypes, ReplayInv
<1>2. CanForfeit(bets, p) /\ bets' = AfterForfeit(bets, p)
  BY DEF LoggedForfeit, RoundForfeit
<1>3. bets.contributed \in [Seats -> Nat] /\ bets.currentBet \in Nat
  BY <1>1 DEF Round
<1>4. /\ fact' = truth' /\ aggressor' = raiser'
      /\ seen'.bet = seen.bet /\ seen'.raise = seen.raise
      /\ seen'.committed = seen.committed
  <2>1. seen.committed[p] + 0 = seen.committed[p]
    BY <1>1, <1>3
  <2> QED BY <1>1, <1>3, <2>1 DEF LoggedForfeit, Replay, FactOf, Passive
<1>5. /\ bets'.contributed = bets.contributed /\ bets'.lastRaise = bets.lastRaise
      /\ bets'.currentBet \in Nat /\ bets'.currentBet <= bets.currentBet
      /\ Live(bets') \subseteq Live(bets)
      /\ \A x, y \in Live(bets') : x # y => bets'.currentBet = bets.currentBet
  BY <1>1, <1>2, ForfeitRound
<1>6. \A x, y \in Live(bets') : x # y =>
        seen'.bet = bets'.currentBet /\ seen'.raise = bets'.lastRaise
  BY <1>1, <1>4, <1>5
<1>7. /\ seen'.committed = bets'.contributed /\ bets'.lastRaise > 0
      /\ bets'.currentBet <= seen'.bet
  BY <1>1, <1>3, <1>4, <1>5
<1> QED BY <1>1, <1>4, <1>6, <1>7 DEF ReplayInv

\* On a street whose round opens at the bring-in the hand remembers (sameOpening:
\* every street but one with a straddle posted short above the big blind or
\* configured below it), street_action_facts and last_aggressor_player_id say of
\* every action what the betting round did, through short all-ins, forfeits and
\* a bet that check_done lowered.
LEMMA SameOpeningFacts == FactsSpec => []SameOpeningSameFacts
<1> DEFINE Inv == StreetInv /\ ReplayInv
<1>1. FactsInit => Inv
  <2>1. FactsInit => StreetInit
    BY DEF FactsInit, StreetInit
  <2> QED BY <2>1, InitKeeps, ReplayInit
<1>2. Inv /\ [FactsNext]_factVars => Inv'
  <2> SUFFICES ASSUME Inv, [FactsNext]_factVars PROVE Inv'
    OBVIOUS
  <2>1. [StreetNext]_streetVars
    BY DEF FactsNext, LoggedAction, LoggedForfeit, StreetNext, ActOnStreet, ForfeitOnStreet, factVars
  <2>2. StreetInv'
    BY <2>1, NextKeeps
  <2>3. ReplayInv'
    <3>1. CASE UNCHANGED factVars
      BY <3>1 DEF factVars, streetVars, ReplayInv
    <3> QED BY <3>1, ActionReplay, ForfeitReplay DEF FactsNext
  <2> QED BY <2>2, <2>3
<1>3. Inv => SameOpeningSameFacts
  BY DEF ReplayInv, SameOpeningSameFacts
<1> QED BY <1>1, <1>2, <1>3, PTL DEF FactsSpec

\* The replay of any street starts no higher than the round.
LEMMA RaiserInit ==
  ASSUME Straddle = 0 \/ Straddle >= BigBlind, FactsInit
  PROVE  RaiserInv
<1>1. /\ buyIn \in [Seats -> Nat] /\ raiser = Nobody
      /\ BigBlind \in Nat /\ BigBlind > 0 /\ Straddle \in Nat
  BY StakesAssumption DEF FactsInit
<1>2. PICK b \in Seats :
        \/ /\ bets = NewRound(Seats, buyIn, b, BigBlind)
           /\ seen = OpenReplay(0, BigBlind, [p \in Seats |-> 0])
        \/ \E small \in {0, SmallBlind}, straddle \in {0, Straddle} :
             LET bringIn == BringIn(buyIn, b, BigBlind, straddle)
             IN  /\ bets = PreflopRound(buyIn, b, small, BigBlind, straddle)
                 /\ seen = OpenReplay(Greatest(bringIn, BigBlind),
                                      Greatest(bringIn, BigBlind), bets.contributed)
  BY StakesAssumption DEF FactsInit
<1>3. CASE /\ bets = NewRound(Seats, buyIn, b, BigBlind)
           /\ seen = OpenReplay(0, BigBlind, [p \in Seats |-> 0])
  <2>1. OpenedAt(bets, [p \in Seats |-> 0], BigBlind, 0)
    BY <1>1, <1>3, OpeningPostflop
  <2>2. seen.bet = 0 /\ seen.committed = [p \in Seats |-> 0]
    BY <1>3 DEF OpenReplay
  <2> QED BY <1>1, <2>1, <2>2 DEF RaiserInv, RaiserIsNamed, OpenedAt
<1>4. ASSUME NEW small \in {0, SmallBlind}, NEW straddle \in {0, Straddle},
             bets = PreflopRound(buyIn, b, small, BigBlind, straddle),
             NEW bringIn, bringIn = BringIn(buyIn, b, BigBlind, straddle),
             seen = OpenReplay(Greatest(bringIn, BigBlind),
                               Greatest(bringIn, BigBlind), bets.contributed)
      PROVE  RaiserInv
  <2>1. bringIn \in Nat /\ bringIn > 0
    BY <1>1, <1>4, OpeningPreflop
  <2>2. PICK bet \in Nat : /\ OpenedAt(bets, bets.contributed, bringIn, bet)
                           /\ bringIn <= bet
    BY <1>1, <1>4, OpeningPreflop
  <2>3. bringIn >= BigBlind
    BY <1>1, <1>4 DEF BringIn, Straddles
  <2>4. seen.bet = bringIn /\ seen.committed = bets.contributed
    BY <1>1, <1>4, <2>1, <2>3 DEF OpenReplay, Greatest
  <2> QED BY <1>1, <2>1, <2>2, <2>4 DEF RaiserInv, RaiserIsNamed, OpenedAt
<1> QED BY <1>2, <1>3, <1>4

\* A logged action: a true raise is seen and sets the replay's bet to the
\* round's; anything else leaves it no higher than the round's.
LEMMA ActionRaiser ==
  ASSUME StreetInv, RaiserInv, NEW p \in Seats, NEW a \in Actions, LoggedAction(p, a)
  PROVE  RaiserInv'
<1>1. a \in Action
  BY StakesAssumption DEF Actions, Action, ActionTypes
<1>2. /\ bets \in Round /\ RoundInv(bets)
      /\ seen.committed = bets.contributed /\ seen.bet \in Nat /\ bets.lastRaise > 0
      /\ raiser # Nobody => bets.currentBet <= seen.bet /\ aggressor = raiser
      /\ \A x, y \in Live(bets) : x # y =>
           IF raiser = Nobody THEN seen.bet <= bets.currentBet
                              ELSE seen.bet = bets.currentBet
  BY DEF StreetInv, StreetTypes, RaiserInv, RaiserIsNamed
<1>3. Legal(bets, p, a) /\ bets' = AfterAction(bets, p, a)
  BY DEF LoggedAction, RoundAction
<1> DEFINE total == Total(bets, p, a)
           bet == BetAfter(bets, p, a)
           rises == bet > bets.currentBet
           full == IsFullRaise(bets, p, a)
           inc == a.type \in {"Raise", "AllIn"} /\ total > seen.bet
<1>4. /\ fact'.increased <=> inc
      /\ seen'.bet = (IF inc THEN total ELSE seen.bet)
      /\ seen'.committed = [seen.committed EXCEPT ![p] = total]
      /\ aggressor' = IF inc THEN p ELSE aggressor
  <2>1. seen.committed[p] + Commit(bets, p, a) = total
    BY <1>2 DEF Total
  <2>2. FactOf(p, a, Commit(bets, p, a)).increased <=> inc
    BY <2>1 DEF FactOf
  <2> QED BY <2>1, <2>2 DEF LoggedAction, Replay
<1>5. /\ truth'.increased <=> rises
      /\ raiser' = IF rises THEN p ELSE raiser
  BY DEF LoggedAction, Observe
<1>6. /\ bets'.contributed = [bets.contributed EXCEPT ![p] = total]
      /\ bets'.lastRaise = (IF full THEN bet - bets.currentBet ELSE bets.lastRaise)
      /\ bets'.currentBet \in Nat /\ bets'.currentBet <= bet
      /\ Live(bets') \subseteq Live(bets)
      /\ \A x, y \in Live(bets') : x # y => bets'.currentBet = bet
  BY <1>1, <1>2, <1>3, ActionRound
<1>7. bets.currentBet \in Nat /\ bets.lastRaise \in Nat
  BY <1>2 DEF Round
<1>8. /\ total \in Nat /\ bet \in Nat /\ bet >= bets.currentBet
      /\ full => bet >= bets.currentBet + bets.lastRaise
  BY <1>1, <1>2, <1>3, CommitFacts
<1>9. /\ rises <=> a.type \in {"Raise", "AllIn"} /\ total > bets.currentBet
      /\ rises => bet = total
  BY <1>7, <1>8 DEF BetAfter, Greatest
<1>10. (\A x, y \in Live(bets) : x = y) => ~rises /\ total <= bets.currentBet
  BY <1>1, <1>2, <1>3, <1>7, LoneCannotRaise
<1>11. p # Nobody /\ seen.bet \in Nat
  BY <1>2, SeatCount DEF Seats, Nobody
<1> HIDE DEF total, bet, full
<1>12. raiser # Nobody => (inc <=> rises)
  BY <1>2, <1>7, <1>8, <1>9, <1>10
<1>13. rises => inc
  BY <1>2, <1>7, <1>8, <1>9, <1>10, <1>12
<1>14. fact'.increased \in BOOLEAN /\ truth'.increased \in BOOLEAN
  BY DEF LoggedAction, Observe, Replay, FactOf
<1>15. raiser' # Nobody => aggressor' = raiser' /\ fact'.increased = truth'.increased
  BY <1>2, <1>4, <1>5, <1>12, <1>13, <1>14
<1>16. seen'.bet \in Nat /\ bets'.lastRaise > 0
  BY <1>2, <1>4, <1>6, <1>7, <1>8
<1>17. raiser' # Nobody => bets'.currentBet <= seen'.bet
  BY <1>2, <1>4, <1>5, <1>6, <1>7, <1>8, <1>9, <1>12, <1>13
<1>18. \A x, y \in Live(bets') : x # y =>
         IF raiser' = Nobody THEN seen'.bet <= bets'.currentBet
                             ELSE seen'.bet = bets'.currentBet
  <2> SUFFICES ASSUME NEW x \in Live(bets'), NEW y \in Live(bets'), x # y
               PROVE  IF raiser' = Nobody THEN seen'.bet <= bets'.currentBet
                                          ELSE seen'.bet = bets'.currentBet
    OBVIOUS
  <2>1. bets'.currentBet = bet
    BY <1>6
  <2>2. IF raiser = Nobody THEN seen.bet <= bets.currentBet
                           ELSE seen.bet = bets.currentBet
    BY <1>2, <1>6
  <2> QED BY <2>1, <2>2, <1>4, <1>5, <1>7, <1>8, <1>9, <1>11, <1>12, <1>13
<1>19. seen'.committed = bets'.contributed
  BY <1>2, <1>4, <1>6
<1> QED BY <1>15, <1>16, <1>17, <1>18, <1>19 DEF RaiserInv, RaiserIsNamed

\* Nor does a forfeit name a raiser.
LEMMA ForfeitRaiser ==
  ASSUME StreetInv, RaiserInv, NEW p \in Seats, LoggedForfeit(p)
  PROVE  RaiserInv'
<1>1. /\ bets \in Round /\ RoundInv(bets)
      /\ seen.committed = bets.contributed /\ seen.bet \in Nat /\ bets.lastRaise > 0
      /\ raiser # Nobody => bets.currentBet <= seen.bet /\ aggressor = raiser
      /\ \A x, y \in Live(bets) : x # y =>
           IF raiser = Nobody THEN seen.bet <= bets.currentBet
                              ELSE seen.bet = bets.currentBet
  BY DEF StreetInv, StreetTypes, RaiserInv, RaiserIsNamed
<1>2. CanForfeit(bets, p) /\ bets' = AfterForfeit(bets, p)
  BY DEF LoggedForfeit, RoundForfeit
<1>3. bets.contributed \in [Seats -> Nat] /\ bets.currentBet \in Nat
  BY <1>1 DEF Round
<1>4. /\ fact' = truth' /\ aggressor' = aggressor /\ raiser' = raiser
      /\ seen'.bet = seen.bet /\ seen'.committed = seen.committed
  <2>1. seen.committed[p] + 0 = seen.committed[p]
    BY <1>1, <1>3
  <2> QED BY <1>1, <1>3, <2>1 DEF LoggedForfeit, Replay, FactOf, Passive
<1>5. /\ bets'.contributed = bets.contributed /\ bets'.lastRaise = bets.lastRaise
      /\ bets'.currentBet \in Nat /\ bets'.currentBet <= bets.currentBet
      /\ Live(bets') \subseteq Live(bets)
      /\ \A x, y \in Live(bets') : x # y => bets'.currentBet = bets.currentBet
  BY <1>1, <1>2, ForfeitRound
<1>6. \A x, y \in Live(bets') : x # y =>
        IF raiser' = Nobody THEN seen'.bet <= bets'.currentBet
                            ELSE seen'.bet = bets'.currentBet
  BY <1>1, <1>4, <1>5
<1>7. /\ seen'.committed = bets'.contributed /\ seen'.bet \in Nat /\ bets'.lastRaise > 0
      /\ raiser' # Nobody => bets'.currentBet <= seen'.bet
      /\ raiser' # Nobody => aggressor' = raiser'
  BY <1>1, <1>3, <1>4, <1>5
<1> QED BY <1>4, <1>6, <1>7 DEF RaiserInv, RaiserIsNamed

\* At any table whose straddle, if there is one, is at least the big blind,
\* last_aggressor_player_id names the last seat that truly raised, from the
\* street's first true raise on, and street_action_facts takes no later call
\* for a raise: also after a straddle posted short, where SameOpeningFacts is silent.
LEMMA RaiserNamed ==
  ASSUME Straddle = 0 \/ Straddle >= BigBlind
  PROVE  FactsSpec => []RaiserIsNamed
<1> DEFINE Inv == StreetInv /\ RaiserInv
<1>1. FactsInit => Inv
  <2>1. FactsInit => StreetInit
    BY DEF FactsInit, StreetInit
  <2> QED BY <2>1, InitKeeps, RaiserInit
<1>2. Inv /\ [FactsNext]_factVars => Inv'
  <2> SUFFICES ASSUME Inv, [FactsNext]_factVars PROVE Inv'
    OBVIOUS
  <2>1. [StreetNext]_streetVars
    BY DEF FactsNext, LoggedAction, LoggedForfeit, StreetNext, ActOnStreet, ForfeitOnStreet, factVars
  <2>2. StreetInv'
    BY <2>1, NextKeeps
  <2>3. RaiserInv'
    <3>1. CASE UNCHANGED factVars
      BY <3>1 DEF factVars, streetVars, RaiserInv, RaiserIsNamed
    <3> QED BY <3>1, ActionRaiser, ForfeitRaiser DEF FactsNext
  <2> QED BY <2>2, <2>3
<1>3. Inv => RaiserIsNamed
  BY DEF RaiserInv
<1> QED BY <1>1, <1>2, <1>3, PTL DEF FactsSpec

\* Both of them: what street_action_facts and last_aggressor_player_id get right
\* on every street of any table whose straddle, if there is one, is at least the
\* big blind.
THEOREM FactsAreTrue ==
  ASSUME Straddle = 0 \/ Straddle >= BigBlind
  PROVE  FactsSpec => []FactsMatchRound
<1>1. FactsSpec => []RaiserIsNamed
  BY RaiserNamed
<1>2. SameOpeningSameFacts /\ RaiserIsNamed => FactsMatchRound
  BY DEF FactsMatchRound
<1> QED BY <1>1, <1>2, SameOpeningFacts, PTL

-----------------------------------------------------------------------------
(* Part 3. Side pots hold what was put in, and the settlement pays all of it:
   the slices of a seat's money between levels telescope, and shares of a pot
   add up to the pot. *)

\* A seat's own change is the change of the sum.
LEMMA SumOverMoves ==
  ASSUME NEW f \in [Seats -> Nat], NEW g \in [Seats -> Nat], NEW p \in Seats, NEW c \in Nat,
         g[p] = f[p] + c, \A q \in Seats \ {p} : g[q] = f[q]
  PROVE  SumOver(g, Seats) = SumOver(f, Seats) + c
<1> DEFINE h == [s \in Seats |-> IF s = p THEN c ELSE 0]
<1>1. h \in [Seats -> Nat] /\ \A s \in Seats : g[s] = f[s] + h[s]
  OBVIOUS
<1>2. SumOver(h, Seats) = c
  BY SumOverPoint
<1> HIDE DEF h
<1>3. SumOver(g, Seats) = SumOver(f, Seats) + SumOver(h, Seats)
  BY <1>1, SumOverAdds
<1> QED BY <1>2, <1>3

-----------------------------------------------------------------------------
(* The layers of a hand.                                                   *)

\* The levels are a finite set of positive amounts.
LEMMA LevelFacts ==
  ASSUME NEW c \in [Seats -> Nat]
  PROVE  /\ Levels(c) \in SUBSET (Nat \ {0}) /\ IsFiniteSet(Levels(c))
         /\ \A p \in Seats : c[p] \in Levels(c) \cup {0}
         /\ \A l \in Levels(c) : \E p \in Seats : c[p] = l
<1>1. IsFiniteSet({c[p] : p \in Seats})
  BY SeatsFinite, ImageFinite
<1>2. Levels(c) \subseteq {c[p] : p \in Seats}
  BY DEF Levels
<1>3. IsFiniteSet(Levels(c))
  BY <1>1, <1>2, FS_Subset
<1> QED BY <1>3 DEF Levels

\* A layer starts where the next lower one ends.
LEMMA BelowFacts ==
  ASSUME NEW c \in [Seats -> Nat], NEW l \in Levels(c)
  PROVE  /\ Below(c, l) \in Levels(c) \cup {0} /\ Below(c, l) \in Nat /\ Below(c, l) < l
         /\ \A m \in Levels(c) : m < l => m <= Below(c, l)
<1> DEFINE S == {m \in Levels(c) : m < l} \cup {0}
<1>1. /\ Levels(c) \in SUBSET (Nat \ {0}) /\ IsFiniteSet(Levels(c))
  BY LevelFacts
<1>2. S \in SUBSET Nat /\ S \in SUBSET Int /\ S # {} /\ \A m \in S : m < l
  BY <1>1
<1>3. IsFiniteSet(S)
  <2>1. {m \in Levels(c) : m < l} \subseteq Levels(c)
    OBVIOUS
  <2>2. IsFiniteSet({m \in Levels(c) : m < l})
    BY <1>1, <2>1, FS_Subset
  <2> QED BY <2>2, FS_AddElement
<1>4. \A m \in Levels(c) : m < l => m \in S
  OBVIOUS
<1>5. \A m \in S : m \in Levels(c) \cup {0}
  OBVIOUS
<1>6. Below(c, l) = Max(S)
  BY DEF Below
<1> HIDE DEF S
<1>7. Max(S) \in S /\ \A y \in S : y <= Max(S)
  BY <1>2, <1>3, MaxOfFinite
<1> QED BY <1>2, <1>4, <1>5, <1>6, <1>7

(* What a contribution of v puts into the layer of level l. *)
Slice(c, v, l) == Least(Monus(v, Below(c, l)), l - Below(c, l))

LEMMA SliceFacts ==
  ASSUME NEW c \in [Seats -> Nat], NEW l \in Levels(c), NEW v \in Levels(c) \cup {0}
  PROVE  /\ Slice(c, v, l) = IF l <= v THEN l - Below(c, l) ELSE 0
         /\ Slice(c, v, l) \in Nat
<1>1. v \in Nat /\ l \in Nat
  BY LevelFacts
<1>2. /\ Below(c, l) \in Nat /\ Below(c, l) < l
      /\ \A m \in Levels(c) : m < l => m <= Below(c, l)
  BY BelowFacts
<1>3. l <= v \/ v <= Below(c, l)
  BY <1>1, <1>2
<1> QED BY <1>1, <1>2, <1>3 DEF Slice, Least, Monus

\* The layers up to a level hold the level.
LEMMA LayersReach ==
  ASSUME NEW c \in [Seats -> Nat], NEW v \in Levels(c) \cup {0}
  PROVE  SumFunctionOnSet([l \in Levels(c) |-> l - Below(c, l)], {l \in Levels(c) : l <= v}) = v
<1> DEFINE L == Levels(c)
           f == [l \in L |-> l - Below(c, l)]
           U(w) == {l \in L : l <= w}
<1>1. /\ L \in SUBSET (Nat \ {0}) /\ IsFiniteSet(L)
  BY LevelFacts
<1>2. \A l \in L : /\ Below(c, l) \in L \cup {0} /\ Below(c, l) \in Nat /\ Below(c, l) < l
                   /\ \A m \in L : m < l => m <= Below(c, l)
  BY BelowFacts
<1>3. \A l \in L : f[l] = l - Below(c, l) /\ f[l] \in Int
  BY <1>1, <1>2
<1>4. \A w : U(w) \in SUBSET L /\ IsFiniteSet(U(w))
  <2>1. \A T \in SUBSET L : IsFiniteSet(T)
    BY <1>1, FS_Subset
  <2> QED BY <2>1
<1> HIDE DEF L, f
<1>5. U(0) = {} /\ \A w \in L : U(w) = U(Below(c, w)) \cup {w} /\ w \notin U(Below(c, w))
  <2>1. U(0) = {}
    <3>1. \A l \in L : l \in Nat /\ l # 0
      BY <1>1
    <3>2. \A l \in L : ~ (l <= 0)
      BY <3>1
    <3> QED BY <3>2
  <2>2. \A w \in L : U(w) = U(Below(c, w)) \cup {w} /\ w \notin U(Below(c, w))
    <3> TAKE w \in L
    <3>1. \A l \in L : l <= w <=> l <= Below(c, w) \/ l = w
      BY <1>1, <1>2
    <3>2. ~ (w <= Below(c, w))
      BY <1>1, <1>2
    <3> QED BY <3>1, <3>2
  <2> QED BY <2>1, <2>2
<1> DEFINE Bad == {w \in L \cup {0} : SumFunctionOnSet(f, U(w)) # w}
<1>6. Bad = {}
  <2> SUFFICES ASSUME Bad # {} PROVE FALSE
    OBVIOUS
  <2>1. Bad \subseteq Nat
    <3>1. Bad \subseteq L \cup {0}
      OBVIOUS
    <3> HIDE DEF Bad
    <3> QED BY <1>1, <3>1
  <2>2. PICK w \in Bad : \A y \in Bad : w <= y
    <3> HIDE DEF Bad
    <3> QED BY <2>1, LeastElement
  <2>3. \A y \in Bad : ~ (y < w)
    <3> HIDE DEF Bad
    <3> QED BY <2>1, <2>2
  <2>4. w # 0
    <3>1. U(0) = {}
      BY <1>5
    <3>2. SumFunctionOnSet(f, {}) = 0
      BY SumEmpty
    <3>3. SumFunctionOnSet(f, U(w)) # w
      BY <2>2
    <3> HIDE DEF U, Bad
    <3> QED BY <3>1, <3>2, <3>3
  <2>5. w \in L
    BY <2>4
  <2> DEFINE b == Below(c, w)
  <2>6. b \in L \cup {0} /\ b \in Nat /\ b < w /\ \A m \in L : m < w => m <= b
    BY <1>2, <2>5
  <2>7. SumFunctionOnSet(f, U(b)) = b
    <3>1. b \notin Bad
      <4> HIDE DEF Bad, b
      <4> QED BY <2>3, <2>6
    <3> HIDE DEF U, b
    <3> QED BY <2>6, <3>1
  <2>8. U(w) = U(b) \cup {w} /\ w \notin U(b)
    BY <1>5, <2>5
  <2>9. f[w] = w - b /\ w \in Nat
    BY <1>1, <1>3, <2>5
  <2>10. \A x \in U(b) \cup {w} : f[x] \in Int
    BY <1>3, <2>5
  <2>11. SumFunctionOnSet(f, U(w)) # w
    BY <2>2
  <2>12. IsFiniteSet(U(b))
    BY <1>4
  <2> HIDE DEF U, b, Bad
  <2>13. SumFunctionOnSet(f, U(b) \cup {w}) = f[w] + SumFunctionOnSet(f, U(b))
    BY <2>8, <2>10, <2>12, SumAdd
  <2> QED BY <2>6, <2>7, <2>8, <2>9, <2>11, <2>13
<1>7. SumFunctionOnSet(f, U(v)) = v
  BY <1>6 DEF L
<1> QED BY <1>7 DEF L, f

\* A contribution is the sum of its slices.
LEMMA SlicesAdd ==
  ASSUME NEW c \in [Seats -> Nat], NEW v \in Levels(c) \cup {0}
  PROVE  SumFunctionOnSet([l \in Levels(c) |-> Slice(c, v, l)], Levels(c)) = v
<1> DEFINE L == Levels(c)
           f == [l \in L |-> l - Below(c, l)]
           s == [l \in L |-> Slice(c, v, l)]
           U == {l \in L : l <= v}
<1>1. /\ L \in SUBSET (Nat \ {0}) /\ IsFiniteSet(L)
  BY LevelFacts
<1>2. \A l \in L : s[l] = (IF l <= v THEN f[l] ELSE 0) /\ s[l] \in Nat
  BY SliceFacts
<1>3. U \in SUBSET L /\ \A l \in L : l \in U <=> l <= v
  OBVIOUS
<1>4. SumFunctionOnSet(f, U) = v
  BY LayersReach
<1>5. v \in Nat
  BY <1>1
<1> HIDE DEF L, f, s, U
<1>6. IsFiniteSet(U) /\ IsFiniteSet(L \ U)
  <2>1. L \ U \subseteq L /\ U \subseteq L
    BY <1>3
  <2> QED BY <1>1, <2>1, FS_Subset
<1>7. SumFunctionOnSet(s, L) = SumFunctionOnSet(s, U) + SumFunctionOnSet(s, L \ U)
  <2>1. \A l \in L : s[l] \in Int
    BY <1>2
  <2> QED BY <1>1, <1>3, <2>1, SumSplit
<1>8. SumFunctionOnSet(s, U) = SumFunctionOnSet(f, U)
  BY <1>2, <1>3, <1>6, SumSame
<1>9. SumFunctionOnSet(s, L \ U) = 0
  BY <1>2, <1>3, <1>6, SumZero
<1>10. SumFunctionOnSet(s, L) = v
  BY <1>4, <1>5, <1>7, <1>8, <1>9
<1> QED BY <1>10 DEF L, s

\* Sums over the seats and over a set change places.
LEMMA SumsSwap ==
  ASSUME NEW S, IsFiniteSet(S), NEW F, \A x \in S : F[x] \in [Seats -> Nat],
         NEW f, \A x \in S : f[x] = SumOver(F[x], Seats),
         NEW g \in [Seats -> Nat],
         \A p \in Seats : g[p] = SumFunctionOnSet([x \in S |-> F[x][p]], S)
  PROVE  SumFunctionOnSet(f, S) = SumOver(g, Seats)
<1> DEFINE G(T) == [p \in Seats |-> SumFunctionOnSet([x \in S |-> F[x][p]], T)]
           Bad == {T \in SUBSET S : SumFunctionOnSet(f, T) # SumOver(G(T), Seats)}
<1>1. \A x \in S : f[x] \in Nat
  BY SumOverType
<1>2. \A T \in SUBSET S : IsFiniteSet(T) /\ G(T) \in [Seats -> Nat]
  <2> TAKE T \in SUBSET S
  <2>1. IsFiniteSet(T)
    BY FS_Subset
  <2>2. \A p \in Seats : SumFunctionOnSet([x \in S |-> F[x][p]], T) \in Nat
    <3> TAKE p \in Seats
    <3> DEFINE h == [x \in S |-> F[x][p]]
    <3>1. \A x \in T : h[x] \in Nat
      OBVIOUS
    <3> HIDE DEF h
    <3>2. SumFunctionOnSet(h, T) \in Nat
      BY <2>1, <3>1, SumOfNaturals
    <3> QED BY <3>2 DEF h
  <2> QED BY <2>1, <2>2
<1>3. \A T \in SUBSET S : \A x \in T : \A p \in Seats : G(T)[p] = G(T \ {x})[p] + F[x][p]
  <2> TAKE T \in SUBSET S
  <2> TAKE x \in T
  <2> TAKE p \in Seats
  <2> DEFINE h == [y \in S |-> F[y][p]]
  <2>1. \A y \in T : h[y] \in Nat /\ h[y] \in Int
    OBVIOUS
  <2>2. IsFiniteSet(T) /\ T \ {x} \in SUBSET S /\ IsFiniteSet(T \ {x})
    BY <1>2
  <2>3. h[x] = F[x][p]
    OBVIOUS
  <2>4. G(T)[p] = SumFunctionOnSet(h, T) /\ G(T \ {x})[p] = SumFunctionOnSet(h, T \ {x})
    OBVIOUS
  <2> HIDE DEF h, G
  <2>5. SumFunctionOnSet(h, T) = h[x] + SumFunctionOnSet(h, T \ {x})
    BY <2>1, <2>2, SumRemove
  <2>6. SumFunctionOnSet(h, T \ {x}) \in Nat
    BY <2>1, <2>2, SumOfNaturals
  <2> QED BY <2>1, <2>3, <2>4, <2>5, <2>6
<1>4. \A p \in Seats : G({})[p] = 0
  BY SumEmpty
<1>5. g = G(S)
  OBVIOUS
<1> HIDE DEF G
<1>6. Bad = {}
  <2> SUFFICES ASSUME Bad # {} PROVE FALSE
    OBVIOUS
  <2>1. PICK T \in Bad : IsFiniteSet(T) /\ \A x \in T : T \ {x} \notin Bad
    <3>1. Bad \in SUBSET (SUBSET S)
      OBVIOUS
    <3> HIDE DEF Bad
    <3> QED BY <3>1, MinimalSubset
  <2>2. T \in SUBSET S /\ SumFunctionOnSet(f, T) # SumOver(G(T), Seats)
    OBVIOUS
  <2>3. T # {}
    <3> SUFFICES ASSUME T = {} PROVE FALSE
      OBVIOUS
    <3>1. SumFunctionOnSet(f, {}) # SumOver(G({}), Seats)
      BY <2>2
    <3> DEFINE z == [q \in Seats |-> 0]
    <3>2. G({}) \in [Seats -> Nat]
      BY <1>2
    <3>3. G({}) = z
      BY <1>4, <3>2
    <3>4. SumOver(z, Seats) = 0
      BY SumOverZero
    <3> HIDE DEF z, Bad
    <3> QED BY <3>1, <3>3, <3>4, SumEmpty
  <2>4. PICK x : x \in T
    BY <2>3
  <2>5. SumFunctionOnSet(f, T \ {x}) = SumOver(G(T \ {x}), Seats)
    BY <2>1, <2>4
  <2> HIDE DEF Bad
  <2>6. \A y \in T : f[y] \in Int
    BY <1>1, <2>2
  <2>7. SumFunctionOnSet(f, T) = f[x] + SumFunctionOnSet(f, T \ {x})
    BY <2>1, <2>4, <2>6, SumRemove
  <2>8. /\ G(T) \in [Seats -> Nat] /\ G(T \ {x}) \in [Seats -> Nat] /\ F[x] \in [Seats -> Nat]
        /\ \A p \in Seats : G(T)[p] = G(T \ {x})[p] + F[x][p]
    BY <1>2, <1>3, <2>2, <2>4
  <2>9. SumOver(G(T), Seats) = SumOver(G(T \ {x}), Seats) + SumOver(F[x], Seats)
    <3>1. PICK A, B, C : A = G(T) /\ B = G(T \ {x}) /\ C = F[x]
      OBVIOUS
    <3>2. /\ A \in [Seats -> Nat] /\ B \in [Seats -> Nat] /\ C \in [Seats -> Nat]
          /\ \A p \in Seats : A[p] = B[p] + C[p]
      BY <2>8, <3>1
    <3>3. SumOver(A, Seats) = SumOver(B, Seats) + SumOver(C, Seats)
      BY <3>2, SumOverAdds
    <3> QED BY <3>1, <3>3
  <2>10. f[x] = SumOver(F[x], Seats) /\ f[x] \in Nat /\ SumOver(G(T \ {x}), Seats) \in Nat
    BY <1>1, <2>2, <2>4, <2>8, SumOverType
  <2> QED BY <2>2, <2>5, <2>7, <2>9, <2>10
<1>7. SumFunctionOnSet(f, S) = SumOver(G(S), Seats)
  BY <1>6
<1> QED BY <1>5, <1>7

-----------------------------------------------------------------------------
(* The pots hold what was put in.                                          *)

\* A layer is a pot: nobody may win it only if it is refunded.
LEMMA LayerFacts ==
  ASSUME NEW c \in [Seats -> Nat], NEW in \in SUBSET Seats, NEW l \in Levels(c)
  PROVE  /\ Layer(c, in, l) \in Pot
         /\ Layer(c, in, l).refundTo = {} => Layer(c, in, l).eligible # {}
         /\ Layer(c, in, l).amount = SumOver([p \in Seats |-> Slice(c, c[p], l)], Seats)
<1> DEFINE y == Layer(c, in, l)
           slices == [p \in Seats |-> Slice(c, c[p], l)]
<1>1. slices \in [Seats -> Nat]
  <2>1. \A p \in Seats : c[p] \in Levels(c) \cup {0}
    BY LevelFacts
  <2> QED BY <2>1, SliceFacts
<1>2. y.amount = SumOver(slices, Seats)
  BY DEF Layer, Slice
<1>3. SumOver(slices, Seats) \in Nat
  <2> HIDE DEF slices
  <2> QED BY <1>1, SumOverType
<1>4. Contributors(c, Below(c, l)) # {} /\ Contributors(c, Below(c, l)) \in SUBSET Seats
  <2>1. PICK p \in Seats : c[p] = l
    BY LevelFacts
  <2>2. Below(c, l) < l
    BY BelowFacts
  <2> QED BY <2>1, <2>2 DEF Contributors
<1>5. y = [eligible |-> y.eligible, refundTo |-> y.refundTo, amount |-> y.amount]
  BY DEF Layer
<1>6. y.eligible \in SUBSET Seats /\ y.refundTo \in SUBSET Seats
  BY <1>4 DEF Layer
<1>7. y.refundTo = {} => y.eligible # {}
  BY <1>4 DEF Layer
<1>8. y \in Pot
  BY <1>2, <1>3, <1>5, <1>6 DEF Pot
<1> QED BY <1>2, <1>7, <1>8

\* The layers hold every chip of every seat.
LEMMA LayersHoldAll ==
  ASSUME NEW c \in [Seats -> Nat], NEW in \in SUBSET Seats
  PROVE  SumFunctionOnSet([l \in Levels(c) |-> Layer(c, in, l).amount], Levels(c))
           = SumOver(c, Seats)
<1> DEFINE L == Levels(c)
           F == [l \in L |-> [p \in Seats |-> Slice(c, c[p], l)]]
           f == [l \in L |-> Layer(c, in, l).amount]
<1>1. IsFiniteSet(L)
  BY LevelFacts
<1>2. \A p \in Seats : c[p] \in Levels(c) \cup {0}
  BY LevelFacts
<1>3. \A l \in L : F[l] \in [Seats -> Nat]
  BY <1>2, SliceFacts
<1>4. \A l \in L : f[l] = SumOver(F[l], Seats)
  BY LayerFacts
<1>5. \A p \in Seats : c[p] = SumFunctionOnSet([l \in L |-> F[l][p]], L)
  <2> TAKE p \in Seats
  <2>1. SumFunctionOnSet([l \in Levels(c) |-> Slice(c, c[p], l)], Levels(c)) = c[p]
    BY <1>2, SlicesAdd
  <2>2. [l \in L |-> F[l][p]] = [l \in Levels(c) |-> Slice(c, c[p], l)]
    OBVIOUS
  <2> QED BY <2>1, <2>2
<1> HIDE DEF L, F, f
<1>6. SumFunctionOnSet(f, L) = SumOver(c, Seats)
  BY <1>1, <1>3, <1>4, <1>5, SumsSwap
<1> QED BY <1>6 DEF L, f

(* A pot somebody may take, or nobody has to. *)
Takeable(pot) == pot \in Pot /\ (pot.refundTo = {} => pot.eligible # {})

LEMMA LayersFacts ==
  ASSUME NEW c \in [Seats -> Nat], NEW in \in SUBSET Seats, in # {}, NEW ante \in Nat
  PROVE  /\ IsFiniteSet(Layers(c, in, ante))
         /\ \A x \in Layers(c, in, ante) : Takeable(x[2])
         /\ SumFunctionOnSet([x \in Layers(c, in, ante) |-> x[2].amount], Layers(c, in, ante))
              = SumOver(c, Seats) + ante
<1> DEFINE L == Levels(c)
           k == [l \in L |-> <<l, Layer(c, in, l)>>]
           A == {k[l] : l \in L}
           a == <<0, AntePot(in, ante)>>
           S == Layers(c, in, ante)
           f == [l \in L |-> Layer(c, in, l).amount]
           g == [x \in S |-> x[2].amount]
<1>1. IsFiniteSet(L) /\ L \in SUBSET (Nat \ {0})
  BY LevelFacts
<1>2. S = A \cup (IF ante > 0 THEN {a} ELSE {})
  BY DEF Layers
<1>3. \A l \in L : Takeable(k[l][2]) /\ f[l] = k[l][2].amount /\ f[l] \in Nat
  BY LayerFacts DEF Takeable, Pot
<1>4. Takeable(a[2]) /\ a[2].amount = ante
  BY DEF Takeable, AntePot, Pot
<1>5. \A l, m \in L : k[l] = k[m] => l = m
  OBVIOUS
<1>6. a \notin A
  BY <1>1
<1>7. IsFiniteSet(A)
  <2> HIDE DEF k, L
  <2> QED BY <1>1, ImageFinite
<1>8. IsFiniteSet(S)
  <2> HIDE DEF A, a, S
  <2> QED BY <1>2, <1>7, FS_AddElement
<1>9. \A x \in S : Takeable(x[2])
  <2> HIDE DEF k, a, S
  <2> QED BY <1>2, <1>3, <1>4
<1>10. /\ \A l \in L : k[l] \in S /\ g[k[l]] = f[l]
       /\ ante > 0 => a \in S /\ g[a] = ante
  <2> HIDE DEF k, a, L, f
  <2> QED BY <1>2, <1>3, <1>4
<1>11. SumFunctionOnSet(f, L) = SumOver(c, Seats) /\ SumOver(c, Seats) \in Nat
  BY LayersHoldAll, SumOverType
<1> HIDE DEF L, k, a, S, f, g
<1>12. \A l \in L : f[l] \in Int
  BY <1>3
<1>13. SumFunctionOnSet(g, A) = SumFunctionOnSet(f, L)
  <2>1. Renames(k, L, f, A, g)
    BY <1>1, <1>5, <1>10, <1>12 DEF Renames
  <2> HIDE DEF A
  <2> QED BY <2>1, SumRenamed
<1>14. \A x \in A : g[x] \in Int
  BY <1>10, <1>12
<1> HIDE DEF A
<1>15. SumFunctionOnSet(g, S) = SumOver(c, Seats) + ante
  <2>1. CASE ante > 0
    <3>1. S = A \cup {a} /\ g[a] = ante
      BY <1>2, <1>10, <2>1
    <3>2. \A x \in A \cup {a} : g[x] \in Int
      BY <1>14, <3>1
    <3>3. SumFunctionOnSet(g, A \cup {a}) = g[a] + SumFunctionOnSet(g, A)
      BY <1>6, <1>7, <3>2, SumAdd
    <3> QED BY <1>11, <1>13, <3>1, <3>3
  <2>2. CASE ~ (ante > 0)
    <3>1. S = A /\ ante = 0
      BY <1>2, <2>2
    <3> QED BY <1>11, <1>13, <3>1
  <2> QED BY <2>1, <2>2
<1> QED BY <1>8, <1>9, <1>15 DEF S, g

(* What the settlements need of a set of pots. *)
GoodPots(pots) ==
  /\ IsFiniteSet(pots) /\ \A pot \in pots : Takeable(pot)
  /\ \A pot, other \in pots :
       pot.eligible = other.eligible /\ pot.refundTo = other.refundTo => pot = other

\* hand_side_pots: the pots hold what the seats put in and the dead ante.
LEMMA SidePotsHoldAll ==
  ASSUME NEW c \in [Seats -> Nat], NEW in \in SUBSET Seats, in # {}, NEW ante \in Nat
  PROVE  /\ GoodPots(SidePots(c, in, ante))
         /\ PotTotal(SidePots(c, in, ante)) = SumOver(c, Seats) + ante
<1> DEFINE S == Layers(c, in, ante)
           f == [x \in S |-> x[2].amount]
           v(x) == SumFunctionOnSet(f, Merged(S, x[2]))
           k == [x \in S |-> [x[2] EXCEPT !.amount = v(x)]]
           K == {k[x] : x \in S}
           g == [pot \in K |-> pot.amount]
<1>1. /\ IsFiniteSet(S) /\ \A x \in S : Takeable(x[2])
      /\ SumFunctionOnSet(f, S) = SumOver(c, Seats) + ante
  BY LayersFacts
<1>2. SidePots(c, in, ante) = K
  BY DEF SidePots
<1>3. PotTotal(K) = SumFunctionOnSet(g, K)
  BY DEF PotTotal
<1>4. \A x \in S : /\ x[2] \in Pot /\ f[x] = x[2].amount /\ f[x] \in Nat
                   /\ k[x] = [x[2] EXCEPT !.amount = v(x)]
  BY <1>1 DEF Takeable, Pot
<1>5. \A pot \in K : g[pot] = pot.amount
  OBVIOUS
<1> HIDE DEF S, f, g, k
<1>6. \A x \in S : IsFiniteSet(Merged(S, x[2])) /\ v(x) \in Nat
  <2> TAKE x \in S
  <2>1. Merged(S, x[2]) \in SUBSET S
    BY DEF Merged
  <2>2. IsFiniteSet(Merged(S, x[2]))
    BY <1>1, <2>1, FS_Subset
  <2>3. \A y \in Merged(S, x[2]) : f[y] \in Nat
    BY <1>4, <2>1
  <2> QED BY <2>2, <2>3, SumOfNaturals
<1> HIDE DEF v
<1>7. \A x \in S : /\ k[x] \in Pot /\ k[x].eligible = x[2].eligible
                   /\ k[x].refundTo = x[2].refundTo /\ k[x].amount = v(x)
                   /\ k[x] = [eligible |-> x[2].eligible, refundTo |-> x[2].refundTo,
                              amount |-> v(x)]
  <2> TAKE x \in S
  <2>1. x[2] \in Pot /\ k[x] = [x[2] EXCEPT !.amount = v(x)] /\ v(x) \in Nat
    BY <1>4, <1>6
  <2>2. k[x] = [eligible |-> x[2].eligible, refundTo |-> x[2].refundTo, amount |-> v(x)]
    BY <2>1 DEF Pot
  <2>3. x[2].eligible \in SUBSET Seats /\ x[2].refundTo \in SUBSET Seats
    BY <2>1 DEF Pot
  <2>4. k[x] \in Pot
    BY <2>1, <2>2, <2>3 DEF Pot
  <2> QED BY <2>2, <2>4
<1>8. \A x \in S : k[x].eligible = x[2].eligible /\ k[x].refundTo = x[2].refundTo
  BY <1>7
<1>9. \A x, y \in S : x[2].eligible = y[2].eligible /\ x[2].refundTo = y[2].refundTo => k[x] = k[y]
  <2> SUFFICES ASSUME NEW x \in S, NEW y \in S, x[2].eligible = y[2].eligible,
                      x[2].refundTo = y[2].refundTo
               PROVE  k[x] = k[y]
    OBVIOUS
  <2>1. Merged(S, x[2]) = Merged(S, y[2])
    BY DEF Merged
  <2>2. v(x) = v(y)
    BY <2>1 DEF v
  <2>3. /\ k[x] = [eligible |-> x[2].eligible, refundTo |-> x[2].refundTo, amount |-> v(x)]
        /\ k[y] = [eligible |-> y[2].eligible, refundTo |-> y[2].refundTo, amount |-> v(y)]
    BY <1>7
  <2> QED BY <2>2, <2>3
<1>10. IsFiniteSet(K) /\ (\A x \in S : k[x] \in K) /\ \A t \in K : \E x \in S : t = k[x]
  <2>1. IsFiniteSet(K)
    BY <1>1, ImageFinite
  <2> QED BY <2>1
<1> HIDE DEF K
<1> DEFINE G == [t \in K |-> {x \in S : k[x] = t}]
<1>11. \A t \in K : (\A x : x \in G[t] <=> x \in S /\ k[x] = t) /\ g[t] = SumFunctionOnSet(f, G[t])
  <2> TAKE t \in K
  <2>1. PICK y \in S : t = k[y]
    BY <1>10
  <2>2. \A x \in S : k[x] = t <=> /\ x[2].eligible = y[2].eligible
                                  /\ x[2].refundTo = y[2].refundTo
    <3> TAKE x \in S
    <3>1. ASSUME k[x] = t PROVE x[2].eligible = y[2].eligible /\ x[2].refundTo = y[2].refundTo
      BY <1>8, <2>1, <3>1
    <3> QED BY <1>9, <2>1, <3>1
  <2>3. G[t] = {x \in S : k[x] = t}
    OBVIOUS
  <2>4. G[t] = Merged(S, y[2])
    BY <2>2, <2>3 DEF Merged
  <2>5. g[t] = v(y)
    BY <1>5, <1>7, <2>1
  <2> QED BY <2>3, <2>4, <2>5 DEF v
<1> HIDE DEF G
<1>12. \A pot \in K : Takeable(pot)
  <2> TAKE pot \in K
  <2>1. PICK x \in S : pot = k[x]
    BY <1>10
  <2>2. k[x] \in Pot /\ k[x].eligible = x[2].eligible /\ k[x].refundTo = x[2].refundTo
    BY <1>7
  <2>3. x[2].refundTo = {} => x[2].eligible # {}
    BY <1>1 DEF Takeable
  <2> QED BY <2>1, <2>2, <2>3 DEF Takeable
<1>13. \A pot, other \in K :
         pot.eligible = other.eligible /\ pot.refundTo = other.refundTo => pot = other
  <2> SUFFICES ASSUME NEW pot \in K, NEW other \in K, pot.eligible = other.eligible,
                      pot.refundTo = other.refundTo
               PROVE  pot = other
    OBVIOUS
  <2>1. PICK x \in S : pot = k[x]
    BY <1>10
  <2>2. PICK y \in S : other = k[y]
    BY <1>10
  <2>3. x[2].eligible = y[2].eligible /\ x[2].refundTo = y[2].refundTo
    BY <1>8, <2>1, <2>2
  <2> QED BY <1>9, <2>1, <2>2, <2>3
<1>14. SumFunctionOnSet(g, K) = SumFunctionOnSet(f, S)
  <2>1. \A x \in S : f[x] \in Nat
    BY <1>4
  <2>2. \A x \in S : f[x] \in Int
    BY <2>1
  <2> QED BY <1>1, <1>10, <1>11, <2>2, SumByGivenGroups
<1> QED BY <1>1, <1>2, <1>3, <1>10, <1>12, <1>13, <1>14 DEF GoodPots

-----------------------------------------------------------------------------
(* The recipients of a pot.                                                *)

\* Somebody shows the best of the hands that were shown.
LEMMA BestExists ==
  ASSUME NEW S \in SUBSET Seats, S # {}, NEW rank \in [Seats -> 1 .. N]
  PROVE  Best(S, rank) # {} /\ Best(S, rank) \in SUBSET Seats
<1> DEFINE R == {rank[p] : p \in S}
<1>1. IsFiniteSet(R)
  <2>1. IsFiniteSet(S)
    BY FiniteSeats
  <2> QED BY <2>1, ImageFinite
<1>2. R \in SUBSET Int /\ R # {}
  BY SeatCount
<1>3. \A p \in S : rank[p] \in R
  OBVIOUS
<1>4. \A x \in R : \E p \in S : x = rank[p]
  OBVIOUS
<1> HIDE DEF R
<1>5. Max(R) \in R /\ \A y \in R : y <= Max(R)
  BY <1>1, <1>2, MaxOfFinite
<1>6. PICK p \in S : rank[p] = Max(R)
  BY <1>4, <1>5
<1>7. p \in Best(S, rank)
  BY <1>3, <1>5, <1>6 DEF Best
<1> QED BY <1>7 DEF Best

LEMMA WinnersExist ==
  ASSUME NEW pot, Takeable(pot), NEW shown \in SUBSET Seats, NEW rank \in [Seats -> 1 .. N],
         NEW forfeiters \in SUBSET Seats
  PROVE  Winners(pot, shown, rank, forfeiters) \in (SUBSET Seats) \ {{}}
<1>1. pot.eligible \in SUBSET Seats /\ pot.refundTo \in SUBSET Seats
      /\ (pot.refundTo = {} => pot.eligible # {})
  BY DEF Takeable, Pot
<1>2. CASE pot.refundTo # {}
  BY <1>1, <1>2 DEF Winners
<1>3. CASE pot.refundTo = {} /\ pot.eligible \cap shown # {}
  <2>1. Winners(pot, shown, rank, forfeiters) = Best(pot.eligible \cap shown, rank)
    BY <1>3 DEF Winners
  <2>2. pot.eligible \cap shown \in SUBSET Seats
    BY <1>1
  <2> QED BY <1>3, <2>1, <2>2, BestExists
<1>4. CASE pot.refundTo = {} /\ pot.eligible \cap shown = {}
  <2>1. Winners(pot, shown, rank, forfeiters)
          = IF pot.eligible \cap forfeiters # {} /\ shown # {} THEN Best(shown, rank) ELSE pot.eligible
    BY <1>4 DEF Winners
  <2> QED BY <1>1, <1>4, <2>1, BestExists
<1> QED BY <1>2, <1>3, <1>4

LEMMA OtherWinnersExist ==
  ASSUME NEW pot, Takeable(pot), NEW S \in SUBSET Seats, S # {}
  PROVE  /\ UncontestedWinners(pot, S) \in (SUBSET Seats) \ {{}}
         /\ SurvivorWinners(pot, S) \in (SUBSET Seats) \ {{}}
<1>1. pot.eligible \in SUBSET Seats /\ pot.refundTo \in SUBSET Seats
      /\ (pot.refundTo = {} => pot.eligible # {})
  BY DEF Takeable, Pot
<1>2. UncontestedWinners(pot, S) \in (SUBSET Seats) \ {{}}
  BY <1>1 DEF UncontestedWinners
<1>3. SurvivorWinners(pot, S) \in (SUBSET Seats) \ {{}}
  BY <1>1 DEF SurvivorWinners
<1> QED BY <1>2, <1>3

-----------------------------------------------------------------------------
(* The shares of a pot.                                                    *)

\* Equal amounts add up to a product.
LEMMA SumOverEqual ==
  ASSUME NEW S \in SUBSET Seats, NEW q \in Nat, NEW f \in [Seats -> Nat],
         \A p \in Seats : f[p] = IF p \in S THEN q ELSE 0
  PROVE  SumOver(f, Seats) = q * Cardinality(S)
<1> DEFINE I(T) == [p \in Seats |-> IF p \in T THEN q ELSE 0]
           Bad == {T \in SUBSET S : SumOver(I(T), Seats) # q * Cardinality(T)}
<1>1. \A T : I(T) \in [Seats -> Nat]
  OBVIOUS
<1>2. f = I(S)
  OBVIOUS
<1>3. I({}) = [p \in Seats |-> 0]
  OBVIOUS
<1>4. \A T \in SUBSET S : \A x \in T :
        I(T)[x] = I(T \ {x})[x] + q /\ \A p \in Seats \ {x} : I(T)[p] = I(T \ {x})[p]
  OBVIOUS
<1> HIDE DEF I
<1>5. IsFiniteSet(S)
  BY FiniteSeats
<1>6. Bad = {}
  <2> SUFFICES ASSUME Bad # {} PROVE FALSE
    OBVIOUS
  <2>1. PICK T \in Bad : IsFiniteSet(T) /\ \A x \in T : T \ {x} \notin Bad
    <3>1. Bad \in SUBSET (SUBSET S)
      OBVIOUS
    <3> HIDE DEF Bad
    <3> QED BY <1>5, <3>1, MinimalSubset
  <2>2. T \in SUBSET S /\ SumOver(I(T), Seats) # q * Cardinality(T)
    OBVIOUS
  <2>3. T # {}
    <3> SUFFICES ASSUME T = {} PROVE FALSE
      OBVIOUS
    <3>1. SumOver(I({}), Seats) = 0
      BY <1>3, SumOverZero
    <3>2. Cardinality({}) = 0 /\ q * 0 = 0
      BY FS_EmptySet
    <3>3. SumOver(I({}), Seats) # q * Cardinality({})
      BY <2>2
    <3> HIDE DEF Bad
    <3> QED BY <3>1, <3>2, <3>3
  <2>4. PICK x : x \in T
    BY <2>3
  <2>5. SumOver(I(T \ {x}), Seats) = q * Cardinality(T \ {x})
    BY <2>1, <2>4
  <2> HIDE DEF Bad
  <2>6. SumOver(I(T), Seats) = SumOver(I(T \ {x}), Seats) + q
    <3>1. PICK A, B : A = I(T) /\ B = I(T \ {x})
      OBVIOUS
    <3>2. /\ A \in [Seats -> Nat] /\ B \in [Seats -> Nat] /\ x \in Seats
          /\ A[x] = B[x] + q /\ \A p \in Seats \ {x} : A[p] = B[p]
      BY <1>1, <1>4, <2>2, <2>4, <3>1
    <3>3. SumOver(A, Seats) = SumOver(B, Seats) + q
      BY <3>2, SumOverMoves
    <3> QED BY <3>1, <3>3
  <2>7. Cardinality(T \ {x}) = Cardinality(T) - 1 /\ Cardinality(T) \in Nat
    BY <2>1, <2>4, FS_RemoveElement, FS_CardinalityType
  <2>8. q * (Cardinality(T) - 1) + q = q * Cardinality(T)
    BY <2>7
  <2> QED BY <2>2, <2>5, <2>6, <2>7, <2>8
<1>7. SumOver(I(S), Seats) = q * Cardinality(S)
  BY <1>6
<1> QED BY <1>2, <1>7

\* The elements of T before p, and those with fewer than m before them.
Before(ord, T, p) == {q \in T : ord[q] < ord[p]}
FirstOf(ord, T, m) == {p \in T : Cardinality(Before(ord, T, p)) < m}

LEMMA FirstOfCount ==
  ASSUME NEW ids \in SUBSET Seats, NEW ord \in [Seats -> Nat],
         \A p, q \in Seats : ord[p] = ord[q] => p = q,
         NEW m \in 0 .. Cardinality(ids)
  PROVE  Cardinality(FirstOf(ord, ids, m)) = m
<1> DEFINE Bad == {T \in SUBSET ids :
                     \E n \in 0 .. Cardinality(T) : Cardinality(FirstOf(ord, T, n)) # n}
<1>1. \A T \in SUBSET ids : IsFiniteSet(T) /\ Cardinality(T) \in Nat /\ T \in SUBSET Seats
  <2> TAKE T \in SUBSET ids
  <2>1. T \in SUBSET Seats
    OBVIOUS
  <2> QED BY <2>1, FiniteSeats
<1>2. Bad = {}
  <2> SUFFICES ASSUME Bad # {} PROVE FALSE
    OBVIOUS
  <2>1. PICK T \in Bad : IsFiniteSet(T) /\ \A x \in T : T \ {x} \notin Bad
    <3>1. Bad \in SUBSET (SUBSET ids)
      OBVIOUS
    <3>2. IsFiniteSet(ids)
      BY <1>1
    <3> HIDE DEF Bad
    <3> QED BY <3>1, <3>2, MinimalSubset
  <2>2. PICK n \in 0 .. Cardinality(T) : Cardinality(FirstOf(ord, T, n)) # n
    OBVIOUS
  <2>3. T \in SUBSET ids /\ \A x \in T : \A i \in 0 .. Cardinality(T \ {x}) :
                              Cardinality(FirstOf(ord, T \ {x}, i)) = i
    BY <2>1
  <2> HIDE DEF Bad
  <2>4. Cardinality(T) \in Nat /\ T \in SUBSET Seats /\ n \in Nat /\ n <= Cardinality(T)
    BY <1>1, <2>2, <2>3
  <2>5. \A p \in T : /\ Before(ord, T, p) \in SUBSET (T \ {p})
                     /\ Cardinality(Before(ord, T, p)) <= Cardinality(T) - 1
                     /\ Cardinality(Before(ord, T, p)) \in Nat
    <3> TAKE p \in T
    <3>1. Before(ord, T, p) \in SUBSET (T \ {p})
      BY <2>4 DEF Before
    <3>2. IsFiniteSet(T \ {p}) /\ Cardinality(T \ {p}) = Cardinality(T) - 1
      BY <2>1, FS_RemoveElement
    <3>3. IsFiniteSet(Before(ord, T, p)) /\ Cardinality(Before(ord, T, p)) <= Cardinality(T \ {p})
      BY <3>1, <3>2, FS_Subset
    <3> QED BY <3>1, <3>2, <3>3, FS_CardinalityType
  <2>6. CASE n = Cardinality(T)
    <3>1. FirstOf(ord, T, n) = T
      BY <2>4, <2>5, <2>6 DEF FirstOf
    <3> QED BY <2>2, <2>6, <3>1
  <2>7. CASE n < Cardinality(T)
    <3>1. T # {}
      BY <2>4, <2>7, FS_EmptySet
    <3> DEFINE O == {ord[p] : p \in T}
    <3>2. IsFiniteSet(O)
      BY <2>1, ImageFinite
    <3>3. O \in SUBSET Int /\ O # {}
      BY <2>4, <3>1
    <3>4. (\A p \in T : ord[p] \in O) /\ \A y \in O : \E p \in T : y = ord[p]
      OBVIOUS
    <3> HIDE DEF O
    <3>5. Max(O) \in O /\ \A y \in O : y <= Max(O)
      BY <3>2, <3>3, MaxOfFinite
    <3>6. PICK x \in T : \A p \in T : ord[p] <= ord[x]
      BY <3>4, <3>5
    <3>7. Cardinality(T \ {x}) = Cardinality(T) - 1
      BY <2>1, <3>6, FS_RemoveElement
    <3>8. \A p \in T \ {x} : Before(ord, T \ {x}, p) = Before(ord, T, p)
      <4>1. \A p \in T : ~ (ord[x] < ord[p])
        BY <2>4, <3>6
      <4> QED BY <4>1 DEF Before
    <3>9. Before(ord, T, x) = T \ {x}
      <4>1. \A p \in T \ {x} : ord[p] < ord[x]
        BY <2>4, <3>6
      <4>2. ~ (ord[x] < ord[x])
        BY <2>4
      <4> QED BY <4>1, <4>2 DEF Before
    <3>10. ~ (Cardinality(Before(ord, T, x)) < n)
      BY <2>4, <2>7, <3>7, <3>9
    <3>11. FirstOf(ord, T, n) = FirstOf(ord, T \ {x}, n)
      BY <3>8, <3>10 DEF FirstOf
    <3>12. n \in 0 .. Cardinality(T \ {x})
      BY <2>4, <2>7, <3>7
    <3> QED BY <2>2, <2>3, <3>11, <3>12
  <2> QED BY <2>4, <2>6, <2>7
<1> QED BY <1>2

\* The shares of a pot are the pot, odd chips included.
LEMMA SharesAdd ==
  ASSUME NEW amount \in Nat, NEW ids \in (SUBSET Seats) \ {{}}, NEW dealer \in Seats
  PROVE  /\ [p \in Seats |-> Share(amount, ids, dealer, p)] \in [Seats -> Nat]
         /\ SumOver([p \in Seats |-> Share(amount, ids, dealer, p)], Seats) = amount
<1> DEFINE f == [p \in Seats |-> Share(amount, ids, dealer, p)]
           k == Cardinality(ids)
           ord == [p \in Seats |-> ButtonOrder(dealer, p)]
           rest == amount % k
           A == [p \in Seats |-> IF p \in ids THEN amount \div k ELSE 0]
           first == FirstOf(ord, ids, rest)
           B == [p \in Seats |-> IF p \in first THEN 1 ELSE 0]
<1>1. CASE amount = 0
  <2>1. f = [p \in Seats |-> 0]
    BY <1>1 DEF Share
  <2> QED BY <1>1, <2>1, SumOverZero
<1>2. CASE amount > 0
  <2>1. k \in Nat /\ k > 0
    <3>1. IsFiniteSet(ids) /\ k \in Nat
      BY FiniteSeats
    <3>2. k # 0
      BY <3>1, FS_EmptySet
    <3> QED BY <3>1, <3>2
  <2> HIDE DEF k
  <2>2. /\ amount \div k \in Nat /\ rest \in 0 .. k - 1
        /\ amount = (amount \div k) * k + rest
    BY <2>1
  <2>3. ord \in [Seats -> Nat] /\ \A p, q \in Seats : ord[p] = ord[q] => p = q
    <3>1. Left(dealer) \in Seats
      BY LeftIsSeat
    <3>2. \A p \in Seats : Clockwise(Left(dealer), p) \in Nat
      BY <3>1, SeatCount DEF Clockwise, Seats
    <3>3. \A p, q \in Seats : Clockwise(Left(dealer), p) = Clockwise(Left(dealer), q) => p = q
      BY <3>1, SeatCount DEF Clockwise, Seats
    <3> QED BY <3>2, <3>3 DEF ButtonOrder
  <2>4. A \in [Seats -> Nat] /\ B \in [Seats -> Nat]
    BY <2>2
  <2>5. \A p \in Seats : p \in first <=>
          p \in ids /\ Cardinality({q \in ids : ButtonOrder(dealer, q) < ButtonOrder(dealer, p)}) < rest
    <3> TAKE p \in Seats
    <3>1. Before(ord, ids, p) = {q \in ids : ButtonOrder(dealer, q) < ButtonOrder(dealer, p)}
      BY DEF Before
    <3> QED BY <3>1 DEF FirstOf
  <2>6. \A p \in Seats : f[p] = A[p] + B[p]
    <3> TAKE p \in Seats
    <3>1. OddChip(amount, ids, dealer, p)
            = IF Cardinality({q \in ids : ButtonOrder(dealer, q) < ButtonOrder(dealer, p)}) < rest
                THEN 1 ELSE 0
      BY DEF OddChip, k
    <3>2. f[p] = IF p \in ids THEN amount \div k + OddChip(amount, ids, dealer, p) ELSE 0
      BY <1>2 DEF Share, k
    <3> HIDE DEF f, first
    <3> QED BY <2>2, <2>5, <3>1, <3>2
  <2>7. first \in SUBSET Seats
    BY DEF FirstOf
  <2>8. Cardinality(first) = rest
    <3>1. rest \in 0 .. Cardinality(ids)
      BY <2>1, <2>2 DEF k
    <3> HIDE DEF rest, ord
    <3> QED BY <2>3, <3>1, FirstOfCount
  <2>9. \A p \in Seats : /\ A[p] = IF p \in ids THEN amount \div k ELSE 0
                         /\ B[p] = IF p \in first THEN 1 ELSE 0
    OBVIOUS
  <2> HIDE DEF A, B, first, rest, f
  <2>10. SumOver(A, Seats) = (amount \div k) * k
    BY <2>2, <2>4, <2>9, SumOverEqual DEF k
  <2>11. SumOver(B, Seats) = rest
    <3>1. SumOver(B, Seats) = 1 * Cardinality(first)
      BY <2>4, <2>7, <2>9, SumOverEqual
    <3> QED BY <2>2, <2>8, <3>1
  <2>12. f \in [Seats -> Nat]
    <3>1. \A p \in Seats : f[p] \in Nat
      BY <2>4, <2>6
    <3> QED BY <3>1 DEF f
  <2>13. SumOver(f, Seats) = SumOver(A, Seats) + SumOver(B, Seats)
    BY <2>4, <2>6, <2>12, SumOverAdds
  <2>14. SumOver(f, Seats) = amount
    BY <2>2, <2>10, <2>11, <2>13
  <2> QED BY <2>12, <2>14 DEF f
<1> QED BY <1>1, <1>2

\* Whoever the recipients are, the awards are the pots.
LEMMA AwardsAdd ==
  ASSUME NEW pots, IsFiniteSet(pots), \A pot \in pots : pot.amount \in Nat,
         NEW winners, \A pot \in pots : winners[pot] \in (SUBSET Seats) \ {{}},
         NEW dealer \in Seats
  PROVE  /\ Awards(pots, winners, dealer) \in [Seats -> Nat]
         /\ SumOver(Awards(pots, winners, dealer), Seats) = PotTotal(pots)
<1> DEFINE F == [pot \in pots |-> [p \in Seats |-> Share(pot.amount, winners[pot], dealer, p)]]
           f == [pot \in pots |-> pot.amount]
           g == Awards(pots, winners, dealer)
<1>1. \A pot \in pots : F[pot] \in [Seats -> Nat] /\ f[pot] = SumOver(F[pot], Seats)
  BY SharesAdd
<1>2. \A p \in Seats : [pot \in pots |-> F[pot][p]]
                        = [pot \in pots |-> Share(pot.amount, winners[pot], dealer, p)]
  OBVIOUS
<1>3. g = [p \in Seats |-> SumFunctionOnSet([pot \in pots |-> F[pot][p]], pots)]
  BY <1>2 DEF Awards
<1>4. \A p \in Seats : SumFunctionOnSet([pot \in pots |-> F[pot][p]], pots) \in Nat
  <2> TAKE p \in Seats
  <2> DEFINE h == [pot \in pots |-> F[pot][p]]
  <2>1. \A pot \in pots : h[pot] \in Nat
    <3> HIDE DEF F
    <3> QED BY <1>1
  <2> HIDE DEF h
  <2>2. SumFunctionOnSet(h, pots) \in Nat
    BY <2>1, SumOfNaturals
  <2> QED BY <2>2 DEF h
<1>5. PotTotal(pots) = SumFunctionOnSet(f, pots)
  BY DEF PotTotal
<1> HIDE DEF F, f
<1>6. g \in [Seats -> Nat] /\ \A p \in Seats : g[p] = SumFunctionOnSet([pot \in pots |-> F[pot][p]], pots)
  BY <1>3, <1>4
<1> HIDE DEF g
<1>7. SumFunctionOnSet(f, pots) = SumOver(g, Seats)
  <2>1. (\A pot \in pots : F[pot] \in [Seats -> Nat]) /\ \A pot \in pots : f[pot] = SumOver(F[pot], Seats)
    BY <1>1
  <2> QED BY <1>6, <2>1, SumsSwap
<1> QED BY <1>5, <1>6, <1>7 DEF g

\* A showdown pays out exactly the pots.
LEMMA ShowdownPaysAll ==
  ASSUME NEW pots, IsFiniteSet(pots), \A pot \in pots : Takeable(pot),
         NEW shown \in SUBSET Seats, NEW rank \in [Seats -> 1 .. N],
         NEW forfeiters \in SUBSET Seats, NEW dealer \in Seats
  PROVE  /\ ShowdownAwards(pots, shown, rank, forfeiters, dealer) \in [Seats -> Nat]
         /\ SumOver(ShowdownAwards(pots, shown, rank, forfeiters, dealer), Seats) = PotTotal(pots)
<1> DEFINE winners == [pot \in pots |-> Winners(pot, shown, rank, forfeiters)]
<1>1. \A pot \in pots : pot.amount \in Nat /\ winners[pot] \in (SUBSET Seats) \ {{}}
  BY WinnersExist DEF Takeable, Pot
<1> HIDE DEF winners
<1>2. /\ Awards(pots, winners, dealer) \in [Seats -> Nat]
      /\ SumOver(Awards(pots, winners, dealer), Seats) = PotTotal(pots)
  BY <1>1, AwardsAdd
<1> QED BY <1>2 DEF winners, ShowdownAwards

LEMMA OthersPayAll ==
  ASSUME NEW pots, IsFiniteSet(pots), \A pot \in pots : Takeable(pot),
         NEW S \in (SUBSET Seats) \ {{}}, NEW dealer \in Seats
  PROVE  /\ SumOver(UncontestedAwards(pots, S, dealer), Seats) = PotTotal(pots)
         /\ SumOver(SurvivorAwards(pots, S, dealer), Seats) = PotTotal(pots)
<1> DEFINE lone == [pot \in pots |-> UncontestedWinners(pot, S)]
           chop == [pot \in pots |-> SurvivorWinners(pot, S)]
<1>1. \A pot \in pots : /\ pot.amount \in Nat /\ lone[pot] \in (SUBSET Seats) \ {{}}
                        /\ chop[pot] \in (SUBSET Seats) \ {{}}
  BY OtherWinnersExist DEF Takeable, Pot
<1> HIDE DEF lone, chop
<1>2. SumOver(Awards(pots, lone, dealer), Seats) = PotTotal(pots)
  BY <1>1, AwardsAdd
<1>3. SumOver(Awards(pots, chop, dealer), Seats) = PotTotal(pots)
  BY <1>1, AwardsAdd
<1> QED BY <1>2, <1>3 DEF lone, chop, UncontestedAwards, SurvivorAwards

\* Two runs pay out exactly the pots: halves, odd chips and refunds.
LEMMA RunFacts ==
  ASSUME NEW pot, Takeable(pot)
  PROVE  /\ Takeable(FirstRun(pot)) /\ Takeable(SecondRun(pot))
         /\ FirstRun(pot).eligible = pot.eligible /\ FirstRun(pot).refundTo = pot.refundTo
         /\ SecondRun(pot).eligible = pot.eligible /\ SecondRun(pot).refundTo = pot.refundTo
         /\ FirstRun(pot).amount + SecondRun(pot).amount = pot.amount
         /\ FirstRun(pot).amount \in Nat /\ SecondRun(pot).amount \in Nat
<1>1. pot \in Pot /\ pot.amount \in Nat
  BY DEF Takeable, Pot
<1> DEFINE half == IF pot.refundTo = {} THEN pot.amount \div 2 ELSE 0
<1>2. half \in Nat /\ half <= pot.amount
  BY <1>1
<1>3. SecondRun(pot) = [pot EXCEPT !.amount = half]
  BY DEF SecondRun
<1> HIDE DEF half
<1>4. /\ SecondRun(pot) \in Pot /\ SecondRun(pot).amount = half
      /\ SecondRun(pot).eligible = pot.eligible /\ SecondRun(pot).refundTo = pot.refundTo
  BY <1>1, <1>2, <1>3 DEF Pot
<1>5. FirstRun(pot) = [pot EXCEPT !.amount = pot.amount - half]
  BY <1>4 DEF FirstRun
<1>6. /\ FirstRun(pot) \in Pot /\ FirstRun(pot).amount = pot.amount - half
      /\ FirstRun(pot).eligible = pot.eligible /\ FirstRun(pot).refundTo = pot.refundTo
  BY <1>1, <1>2, <1>5 DEF Pot
<1>7. Takeable(FirstRun(pot)) /\ Takeable(SecondRun(pot))
  BY <1>4, <1>6 DEF Takeable
<1> QED BY <1>1, <1>2, <1>4, <1>6, <1>7

\* The pots of one run are those of the hand, one for one.
LEMMA RunTotal ==
  ASSUME NEW pots, GoodPots(pots), NEW run, \A pot \in pots :
           /\ Takeable(run[pot]) /\ run[pot].eligible = pot.eligible
           /\ run[pot].refundTo = pot.refundTo
  PROVE  /\ IsFiniteSet({run[pot] : pot \in pots})
         /\ \A pot \in {run[x] : x \in pots} : Takeable(pot)
         /\ PotTotal({run[pot] : pot \in pots})
              = SumFunctionOnSet([pot \in pots |-> run[pot].amount], pots)
<1> DEFINE K == {run[pot] : pot \in pots}
           f == [pot \in pots |-> run[pot].amount]
           g == [pot \in K |-> pot.amount]
<1>1. IsFiniteSet(pots)
  BY DEF GoodPots
<1>2. IsFiniteSet(K)
  BY <1>1, ImageFinite
<1>3. \A pot, other \in pots : run[pot] = run[other] => pot = other
  <2> SUFFICES ASSUME NEW pot \in pots, NEW other \in pots, run[pot] = run[other]
               PROVE  pot = other
    OBVIOUS
  <2>1. pot.eligible = other.eligible /\ pot.refundTo = other.refundTo
    OBVIOUS
  <2> QED BY <2>1 DEF GoodPots
<1>4. \A pot \in pots : f[pot] \in Nat /\ f[pot] \in Int /\ g[run[pot]] = f[pot]
  BY DEF Takeable, Pot
<1>5. PotTotal(K) = SumFunctionOnSet(g, K)
  BY DEF PotTotal
<1>6. SumFunctionOnSet(g, K) = SumFunctionOnSet(f, pots)
  <2>1. Renames(run, pots, f, K, g)
    <3> HIDE DEF f, g
    <3> QED BY <1>1, <1>3, <1>4 DEF Renames
  <2> HIDE DEF f, g, K
  <2> QED BY <2>1, SumRenamed
<1> QED BY <1>2, <1>5, <1>6 DEF f

LEMMA TwoRunsPayAll ==
  ASSUME NEW pots, GoodPots(pots), NEW shown \in SUBSET Seats,
         NEW rank \in [Seats -> 1 .. N], NEW rank2 \in [Seats -> 1 .. N],
         NEW forfeiters \in SUBSET Seats, NEW dealer \in Seats
  PROVE  SumOver(TwoRunAwards(pots, shown, rank, rank2, forfeiters, dealer), Seats)
           = PotTotal(pots)
<1> DEFINE one == [pot \in pots |-> FirstRun(pot)]
           two == [pot \in pots |-> SecondRun(pot)]
           P == {one[pot] : pot \in pots}
           Q == {two[pot] : pot \in pots}
           A == ShowdownAwards(P, shown, rank, forfeiters, dealer)
           B == ShowdownAwards(Q, shown, rank2, forfeiters, dealer)
           C == [p \in Seats |-> A[p] + B[p]]
           f == [pot \in pots |-> one[pot].amount]
           g == [pot \in pots |-> two[pot].amount]
           h == [pot \in pots |-> pot.amount]
<1>1. IsFiniteSet(pots) /\ \A pot \in pots : Takeable(pot)
  BY DEF GoodPots
<1>2. \A pot \in pots :
        /\ Takeable(one[pot]) /\ one[pot].eligible = pot.eligible /\ one[pot].refundTo = pot.refundTo
        /\ Takeable(two[pot]) /\ two[pot].eligible = pot.eligible /\ two[pot].refundTo = pot.refundTo
        /\ one[pot].amount \in Nat /\ two[pot].amount \in Nat
        /\ pot.amount = one[pot].amount + two[pot].amount
  <2> TAKE pot \in pots
  <2>1. one[pot] = FirstRun(pot) /\ two[pot] = SecondRun(pot) /\ Takeable(pot)
    BY <1>1
  <2> HIDE DEF one, two
  <2> QED BY <2>1, RunFacts
<1>3. {FirstRun(pot) : pot \in pots} = P /\ {SecondRun(pot) : pot \in pots} = Q
  OBVIOUS
<1>4. TwoRunAwards(pots, shown, rank, rank2, forfeiters, dealer) = C
  BY <1>3 DEF TwoRunAwards
<1> HIDE DEF one, two
<1>5. /\ IsFiniteSet(P) /\ (\A pot \in P : Takeable(pot)) /\ PotTotal(P) = SumFunctionOnSet(f, pots)
  BY <1>2, RunTotal
<1>6. /\ IsFiniteSet(Q) /\ (\A pot \in Q : Takeable(pot)) /\ PotTotal(Q) = SumFunctionOnSet(g, pots)
  BY <1>2, RunTotal
<1>7. PotTotal(pots) = SumFunctionOnSet(h, pots)
  BY DEF PotTotal
<1>8. \A pot \in pots : f[pot] \in Int /\ g[pot] \in Int /\ h[pot] = f[pot] + g[pot]
  BY <1>2
<1> HIDE DEF P, Q, f, g, h
<1>9. SumFunctionOnSet(h, pots) = SumFunctionOnSet(f, pots) + SumFunctionOnSet(g, pots)
  BY <1>1, <1>8, SumPlus
<1>10. A \in [Seats -> Nat] /\ SumOver(A, Seats) = PotTotal(P)
  BY <1>5, ShowdownPaysAll
<1>11. B \in [Seats -> Nat] /\ SumOver(B, Seats) = PotTotal(Q)
  BY <1>6, ShowdownPaysAll
<1> HIDE DEF A, B
<1>12. C \in [Seats -> Nat] /\ \A p \in Seats : C[p] = A[p] + B[p]
  BY <1>10, <1>11
<1> HIDE DEF C
<1>13. SumOver(C, Seats) = SumOver(A, Seats) + SumOver(B, Seats)
  BY <1>10, <1>11, <1>12, SumOverAdds
<1> QED BY <1>4, <1>5, <1>6, <1>7, <1>9, <1>10, <1>11, <1>13

-----------------------------------------------------------------------------
(* Part 4. A whole hand: HandInv says how the hand's own state follows the round
   of the street and the boards that were dealt, and is inductive. *)

(* The board once street s has been dealt. *)
Dealt(s) ==
  CASE s = "Flop" -> {"Flop"} [] s = "Turn" -> {"Flop", "Turn"}
    [] s = "River" -> BoardStreets [] OTHER -> {}

AtMostOne(S) == \A x, y \in S : x = y

(* The chips a seat of round r brought to the street. *)
Brought(r) == [p \in Seats |-> r.stack[p] + r.contributed[p]]

(* A round of this hand, whatever the hand's seats say. *)
StreetRoundInv(r) ==
  /\ r \in Round /\ RoundInv(r) /\ Books(r, Brought(r))
  /\ r.players # {} /\ r.lastRaise > 0
  /\ \A p \in Seats \ r.players : r.contributed[p] = 0
  /\ ~r.done => Cardinality(NotFolded(r)) > 1

(* While a street is played, the seats' copies are the round's, and a round *)
(* that is done from the start has at most one seat able to act.            *)
PlayInv ==
  phase = "Betting" =>
    /\ StreetRoundInv(round)
    /\ stack = round.stack /\ In = NotFolded(round)
    /\ \A p \in round.players : p \in allIn <=> p \in round.allIn
    /\ round.done => pending \in BoardStreets /\ AtMostOne(Live(round))
    /\ choice # "Open" => round.done

(* Outside of it there is no round, and before it nothing has happened. *)
RestInv ==
  /\ phase # "Betting" => round = NoRound
  /\ phase # "Done" => result = NoResult
  /\ phase = "NotStarted" =>
       /\ street = "Preflop" /\ stack = table.stack /\ folded = {} /\ allIn = {}
       /\ completedPot = 0 /\ anteBy = Zero /\ board = {} /\ pending = NoStreet
       /\ choice = "Open"

(* A seat never holds more than it brought, its dead ante is part of what it *)
(* put in, somebody is always left, and the pot is what was put in.          *)
ChipsInv ==
  /\ \A p \in Seats : stack[p] <= table.stack[p] /\ anteBy[p] <= PutIn(stack)[p]
  /\ result = NoResult => In # {}
  /\ PotBooks

(* With the engine's deck, or with a caller that waits for the board, the   *)
(* board follows the streets; a hand two seats finish has all of it.        *)
BoardInv ==
  /\ ~Blind => pending = NoStreet
  /\ ~Blind \/ table.waits =>
       /\ phase = "Betting" =>
            IF pending = NoStreet
              THEN board = Dealt(street)
              ELSE pending = street /\ board = Dealt(street) \ {street}
       /\ phase = "Done" =>
            /\ pending = NoStreet /\ \E s \in Streets : board = Dealt(s)
            /\ result.kind \in {"None", "Showdown"} /\ Cardinality(In) >= 2 => board = BoardStreets

HandInv == TypeOK /\ PlayInv /\ RestInv /\ ChipsInv /\ BoardInv

-----------------------------------------------------------------------------
(* Sums over seats.                                                        *)

\* Only the seats that count matter to a sum.
LEMMA SumOverAgrees ==
  ASSUME NEW f \in [Seats -> Nat], NEW g \in [Seats -> Nat], NEW S, NEW T,
         \A s \in Seats : (IF s \in S THEN f[s] ELSE 0) = (IF s \in T THEN g[s] ELSE 0)
  PROVE  SumOver(f, S) = SumOver(g, T)
<1>1. PICK F : /\ SumOver(f, S) = F[N] /\ F[0] = 0
               /\ \A n \in 1 .. N : F[n] = F[n - 1] + (IF n - 1 \in S THEN f[n - 1] ELSE 0)
  BY SumOverUnfolds
<1>2. PICK G : /\ SumOver(g, T) = G[N] /\ G[0] = 0
               /\ \A n \in 1 .. N : G[n] = G[n - 1] + (IF n - 1 \in T THEN g[n - 1] ELSE 0)
  BY SumOverUnfolds
<1> DEFINE Bad == {n \in 0 .. N : F[n] # G[n]}
<1>3. Bad = {}
  <2> SUFFICES ASSUME Bad # {} PROVE FALSE
    OBVIOUS
  <2>1. Bad \in SUBSET Nat
    BY SeatCount
  <2>2. PICK n \in Bad : \A m \in Bad : n <= m
    <3> HIDE DEF Bad
    <3> QED BY <2>1, LeastElement
  <2>3. n # 0
    BY <2>2, <1>1, <1>2
  <2>4. n \in 1 .. N /\ n - 1 \in 0 .. N /\ n - 1 \in Seats
    BY <2>2, <2>3, SeatCount DEF Seats
  <2>5. F[n - 1] = G[n - 1]
    BY <2>2, <2>4
  <2>6. (IF n - 1 \in S THEN f[n - 1] ELSE 0) = (IF n - 1 \in T THEN g[n - 1] ELSE 0)
    BY <2>4
  <2>7. F[n] = G[n]
    BY <1>1, <1>2, <2>4, <2>5, <2>6
  <2> QED BY <2>7
<1> QED BY <1>1, <1>2, <1>3, SeatCount

\* Seats without chips can be left out.
LEMMA SumOverPlayers ==
  ASSUME NEW f \in [Seats -> Nat], NEW S \in SUBSET Seats,
         \A s \in Seats \ S : f[s] = 0
  PROVE  SumOver(f, S) = SumOver(f, Seats)
<1>1. \A s \in Seats : (IF s \in S THEN f[s] ELSE 0) = (IF s \in Seats THEN f[s] ELSE 0)
  OBVIOUS
<1> QED BY <1>1, SumOverAgrees

LEMMA SumOverNobody ==
  ASSUME NEW f \in [Seats -> Nat]
  PROVE  SumOver(f, {}) = 0
<1> DEFINE z == [s \in Seats |-> 0]
<1>1. z \in [Seats -> Nat]
  OBVIOUS
<1>2. \A s \in Seats : (IF s \in {} THEN f[s] ELSE 0) = (IF s \in Seats THEN z[s] ELSE 0)
  OBVIOUS
<1>3. SumOver(z, Seats) = 0
  BY SumOverZero
<1> HIDE DEF z
<1>4. SumOver(f, {}) = SumOver(z, Seats)
  BY <1>1, <1>2, SumOverAgrees
<1> QED BY <1>3, <1>4

-----------------------------------------------------------------------------
(* The rounds a hand opens.                                                *)

OpenedAs(o, players, left, posted, bet, increment, pot) ==
  /\ o \in Round /\ o.nCanAct = Cardinality(Live(o))
  /\ o.actionsRemaining = Cardinality(Live(o))
  /\ Live(o) = {p \in players : left[p] # 0}
  /\ o.players = players /\ o.stack = left /\ o.contributed = posted
  /\ o.folded = {} /\ o.allIn = {p \in players : left[p] = 0}
  /\ o.potTotal = pot /\ o.lastRaise = increment /\ o.done = FALSE
  /\ o.currentBet = bet

LEMMA LiveOfOpening ==
  ASSUME NEW players \in SUBSET Seats, NEW left \in [Seats -> Nat],
         NEW posted \in [Seats -> Nat], NEW first \in Seats, NEW bet \in Nat,
         NEW increment \in Nat, NEW pot \in Nat,
         NEW o, o = Opening(players, left, posted, first, bet, increment, pot)
  PROVE  OpenedAs(o, players, left, posted, bet, increment, pot)
<1> DEFINE live == {p \in players : left[p] # 0}
           broke == {p \in players : left[p] = 0}
<1>1. live = {p \in players : left[p] # 0} /\ broke = {p \in players : left[p] = 0}
  OBVIOUS
<1>2. o.lastRaise = increment
  BY DEF Opening
<1> HIDE DEF live, broke
<1>3. OpeningShape(o, players, left, posted, first, bet, pot, live, broke)
  BY <1>1, OpeningFields
<1>4. /\ o \in Round /\ o.players = players /\ o.stack = left /\ o.contributed = posted
      /\ o.folded = {} /\ o.allIn = broke /\ o.potTotal = pot /\ o.done = FALSE
      /\ o.nCanAct = Cardinality(live) /\ o.actionsRemaining = Cardinality(live)
      /\ o.currentBet = bet
  BY <1>3 DEF OpeningShape
<1>5. Live(o) = live
  BY <1>1, <1>4 DEF Live
<1> QED BY <1>1, <1>2, <1>4, <1>5 DEF OpenedAs

\* An open round has two seats in the pot.
LEMMA CheckDoneOpen ==
  ASSUME NEW r \in Round, ~CheckDone(r).done
  PROVE  Cardinality(NotFolded(CheckDone(r))) > 1
<1> DEFINE e == [r EXCEPT !.currentBet = EffectiveBet(r)]
<1>1. CASE r.nCanAct = 0 \/ LoneCovers(r)
  <2>1. CheckDone(r) = [r EXCEPT !.done = TRUE]
    BY <1>1 DEF CheckDone
  <2> QED BY <2>1 DEF Round
<1>2. CASE ~(r.nCanAct = 0 \/ LoneCovers(r))
  <2>1. CheckDone(r) = IF \/ Cardinality(NotFolded(e)) <= 1
                          \/ AllMatched(e) /\ e.actionsRemaining = 0
                         THEN [e EXCEPT !.done = TRUE] ELSE e
    BY <1>2 DEF CheckDone
  <2>2. [e EXCEPT !.done = TRUE].done = TRUE
    BY DEF Round
  <2>3. NotFolded(e) = NotFolded(r)
    BY DEF Round, NotFolded
  <2>4. Cardinality(NotFolded(r)) \in Nat
    BY LiveFacts
  <2> HIDE DEF e
  <2>5. CASE Cardinality(NotFolded(e)) <= 1
    BY <2>1, <2>2, <2>5
  <2>6. CASE ~(Cardinality(NotFolded(e)) <= 1)
    <3>1. CheckDone(r) = [e EXCEPT !.done = TRUE] \/ CheckDone(r) = e
      BY <2>1
    <3>2. CheckDone(r) = e
      BY <2>2, <3>1
    <3> QED BY <2>3, <2>4, <2>6, <3>2
  <2> QED BY <2>5, <2>6
<1> QED BY <1>1, <1>2

\* advance, seek_active and check_done keep the count of actions to come.
LEMMA TurnRound ==
  ASSUME NEW r \in Round
  PROVE  /\ Advance(r) \in Round /\ SeekActive(r) \in Round
         /\ Advance(r).actionsRemaining = r.actionsRemaining
         /\ r.done => Advance(r).done
<1>1. r.current \in Seats /\ Left(r.current) \in Seats
  BY LeftIsSeat DEF Round
<1>2. Live(r) # {} => /\ FirstFrom(Left(r.current), Live(r)) \in Seats
                      /\ FirstFrom(r.current, Live(r)) \in Seats
  BY <1>1, LiveFacts, FirstFromIsNearest
<1> QED BY <1>1, <1>2 DEF Advance, SeekActive, Round

LEMMA CheckDoneCount ==
  ASSUME NEW r \in Round
  PROVE  CheckDone(r).actionsRemaining = r.actionsRemaining
BY DEF CheckDone, Round

StreetOpened(r, players, left, posted, pot) ==
  /\ StreetRoundInv(r) /\ r.players = players /\ r.stack = left
  /\ r.contributed = posted /\ r.folded = {} /\ r.potTotal = pot
  /\ r.allIn = {p \in players : left[p] = 0} /\ NotFolded(r) = players
  /\ Live(r) = {p \in players : left[p] # 0}

\* What opening a round leaves, blinds posted or not.
LEMMA OpenedRound ==
  ASSUME NEW players \in SUBSET Seats, players # {}, NEW left \in [Seats -> Nat],
         NEW posted \in [Seats -> Nat], NEW first \in Seats, NEW bet \in Nat,
         NEW increment \in Nat \ {0}, NEW pot, pot = SumOver(posted, Seats),
         \A s \in Seats : posted[s] <= bet,
         \A s \in Seats \ players : posted[s] = 0,
         NEW o, o = Opening(players, left, posted, first, bet, increment, pot),
         NEW r, r = CheckDone(SeekActive(o))
  PROVE  StreetOpened(r, players, left, posted, pot)
<1>1. pot \in Nat /\ increment \in Nat /\ \A s \in players : posted[s] <= bet
  BY SumOverType
<1>2. /\ o \in Round /\ o.nCanAct = Cardinality(Live(o))
      /\ o.players = players /\ o.stack = left /\ o.contributed = posted
      /\ o.folded = {} /\ o.allIn = {p \in players : left[p] = 0}
      /\ o.potTotal = pot /\ o.lastRaise = increment
  <2>1. OpenedAs(o, players, left, posted, bet, increment, pot)
    BY <1>1, LiveOfOpening
  <2> QED BY <2>1 DEF OpenedAs
<1>3. r \in Round /\ RoundInv(r)
  BY <1>1, OpeningKeeps
<1>4. SameChips(r, o)
  BY <1>2, TurnCheckFrame
<1>5. /\ r.players = players /\ r.stack = left /\ r.contributed = posted
      /\ r.folded = {} /\ r.potTotal = pot /\ r.lastRaise = increment
      /\ r.allIn = {p \in players : left[p] = 0}
  BY <1>2, <1>4 DEF SameChips
<1>6. Books(r, Brought(r))
  BY <1>5 DEF Books, Brought
<1>7. NotFolded(r) = players /\ Live(r) = {p \in players : left[p] # 0}
  BY <1>5 DEF NotFolded, Live
<1>8. ~r.done => Cardinality(NotFolded(r)) > 1
  BY <1>2, CheckDoneOpen, TurnRound
<1> QED BY <1>3, <1>5, <1>6, <1>7, <1>8 DEF StreetRoundInv, StreetOpened

\* check_done never reopens a round.
LEMMA CheckDoneStays ==
  ASSUME NEW r \in Round, r.done
  PROVE  CheckDone(r).done
BY DEF CheckDone, Round

\* One seat able to act, and nothing bet: there is nothing to decide.
LEMMA LoneStreetDone ==
  ASSUME NEW r \in Round, r.nCanAct = Cardinality(Live(r)), AtMostOne(Live(r)),
         \A p \in Seats : r.contributed[p] = 0
  PROVE  CheckDone(r).done
<1>1. CASE Live(r) = {}
  <2>1. r.nCanAct = 0
    BY <1>1, FS_EmptySet
  <2> QED BY <2>1 DEF CheckDone, Round
<1>2. CASE Live(r) # {}
  <2>1. PICK x : Live(r) = {x}
    BY <1>2 DEF AtMostOne
  <2>2. r.nCanAct = 1 /\ Lone(r) = x /\ x \in Seats
    BY <2>1, FS_Singleton, LiveFacts DEF Lone
  <2>3. {r.contributed[q] : q \in NotFolded(r) \ {x}} \cup {0} = {0}
    BY LiveFacts
  <2>4. MaxOpponent(r, x) = 0
    <3>1. Max({0}) = 0
      BY DEF Max
    <3> QED BY <2>3, <3>1 DEF MaxOpponent
  <2>5. LoneCovers(r)
    BY <2>1, <2>2, <2>4 DEF LoneCovers, OneCanAct
  <2> QED BY <2>5 DEF CheckDone, Round
<1> QED BY <1>1, <1>2

\* Two seats able to act, and two actions to come: the round is open.
LEMMA TwoCanAct ==
  ASSUME NEW r \in Round, r.nCanAct = Cardinality(Live(r)), ~AtMostOne(Live(r)),
         r.actionsRemaining = r.nCanAct, ~r.done
  PROVE  ~CheckDone(r).done
<1>1. PICK x \in Live(r), y \in Live(r) : x # y
  BY DEF AtMostOne
<1>2. Cardinality({x, y}) = 2
  <2>1. IsFiniteSet({x}) /\ Cardinality({x}) = 1
    BY FS_Singleton
  <2>2. y \notin {x} /\ {x} \cup {y} = {x, y}
    BY <1>1
  <2>3. Cardinality({x} \cup {y}) = Cardinality({x}) + 1
    BY <2>1, <2>2, FS_AddElement
  <2> QED BY <2>1, <2>2, <2>3
<1>3. {x, y} \subseteq Live(r) /\ Live(r) \subseteq NotFolded(r) /\ IsFiniteSet(Live(r)) /\ IsFiniteSet(NotFolded(r))
      /\ Cardinality(Live(r)) \in Nat /\ Cardinality(NotFolded(r)) \in Nat
  BY <1>1, LiveFacts
<1>4. Cardinality({x, y}) <= Cardinality(Live(r)) /\ Cardinality(Live(r)) <= Cardinality(NotFolded(r))
  BY <1>3, FS_Subset
<1>5. Cardinality(Live(r)) >= 2 /\ Cardinality(NotFolded(r)) >= 2
  BY <1>2, <1>3, <1>4
<1>6. EffectiveBet(r) = r.currentBet /\ r.nCanAct # 0 /\ ~LoneCovers(r)
  BY <1>5 DEF EffectiveBet, LoneCovers, OneCanAct
<1>7. [r EXCEPT !.currentBet = r.currentBet] = r
  BY DEF Round
<1>8. ~(Cardinality(NotFolded(r)) <= 1) /\ ~(r.actionsRemaining = 0)
  BY <1>3, <1>5
<1>9. CheckDone(r) = IF \/ Cardinality(NotFolded(r)) <= 1
                        \/ AllMatched(r) /\ r.actionsRemaining = 0
                       THEN [r EXCEPT !.done = TRUE] ELSE r
  BY <1>6, <1>7 DEF CheckDone
<1>10. CheckDone(r) = r
  BY <1>8, <1>9
<1> QED BY <1>10

(* A street that opens with nothing bet: done at once unless two can act. *)
StreetStarts(r, in, left) ==
  /\ StreetRoundInv(r) /\ r.players = in /\ r.stack = left
  /\ r.contributed = Zero /\ r.folded = {} /\ r.potTotal = 0
  /\ r.allIn = {p \in in : left[p] = 0} /\ NotFolded(r) = in
  /\ Live(r) = {p \in in : left[p] # 0}
  /\ r.done <=> AtMostOne(Live(r))

\* BettingRound::new for the seats still in: open unless at most one can act.
LEMMA StreetOpens ==
  ASSUME NEW in \in SUBSET Seats, in # {}, NEW left \in [Seats -> Nat],
         NEW first \in Seats, NEW big \in Nat \ {0},
         NEW r, r = NewRound(in, left, first, big)
  PROVE  StreetStarts(r, in, left)
<1> DEFINE o == Opening(in, left, Zero, first, 0, big, 0)
           s == SeekActive(o)
<1>1. /\ Zero \in [Seats -> Nat] /\ \A x \in Seats : Zero[x] = 0
      /\ SumOver(Zero, Seats) = 0 /\ big \in Nat
  BY SumOverZero DEF Zero
<1>2. r = CheckDone(s)
  BY DEF NewRound, Zero
<1>3. OpenedAs(o, in, left, Zero, 0, big, 0)
  BY <1>1, LiveOfOpening
<1> HIDE DEF o
<1>4. /\ o \in Round /\ o.nCanAct = Cardinality(Live(o)) /\ o.actionsRemaining = o.nCanAct
      /\ Live(o) = {p \in in : left[p] # 0} /\ o.contributed = Zero /\ o.done = FALSE
  BY <1>3 DEF OpenedAs
<1>5. /\ StreetRoundInv(r) /\ r.players = in /\ r.stack = left
      /\ r.contributed = Zero /\ r.folded = {} /\ r.potTotal = 0
      /\ r.allIn = {p \in in : left[p] = 0} /\ NotFolded(r) = in
      /\ Live(r) = {p \in in : left[p] # 0}
  <2>1. \A x \in Seats : Zero[x] <= 0
    BY <1>1
  <2>2. o = Opening(in, left, Zero, first, 0, big, 0)
    BY DEF o
  <2>3. StreetOpened(r, in, left, Zero, 0)
    BY <1>1, <1>2, <2>1, <2>2, OpenedRound
  <2> QED BY <2>3 DEF StreetOpened
<1>6. r.done <=> AtMostOne(Live(r))
  <2>1. CASE Live(o) = {}
    <3>1. s = [o EXCEPT !.done = TRUE]
      BY <2>1 DEF SeekActive
    <3>2. s \in Round /\ s.done
      BY <1>4, <3>1 DEF Round
    <3>3. r.done
      BY <1>2, <3>2, CheckDoneStays
    <3> QED BY <1>4, <1>5, <2>1, <3>3 DEF AtMostOne
  <2>2. CASE Live(o) # {}
    <3>1. s = [o EXCEPT !.current = FirstFrom(o.current, Live(o))]
      BY <2>2 DEF SeekActive
    <3>2. FirstFrom(o.current, Live(o)) \in Seats
      <4>1. o.current \in Seats /\ Live(o) \in SUBSET Seats
        BY <1>4 DEF Round
      <4> QED BY <2>2, <4>1, FirstFromIsNearest
    <3>3. /\ s \in Round /\ s.nCanAct = o.nCanAct /\ s.actionsRemaining = o.actionsRemaining
          /\ s.contributed = o.contributed /\ s.done = FALSE
          /\ s.players = o.players /\ s.folded = o.folded /\ s.allIn = o.allIn
      BY <1>4, <3>1, <3>2 DEF Round
    <3>4. Live(s) = Live(o)
      BY <3>3 DEF Live
    <3>5. s.nCanAct = Cardinality(Live(s)) /\ s.actionsRemaining = s.nCanAct
      BY <1>4, <3>3, <3>4
    <3>6. \A p \in Seats : s.contributed[p] = 0
      BY <1>1, <1>4, <3>3
    <3> HIDE DEF s
    <3>7. AtMostOne(Live(s)) => CheckDone(s).done
      BY <3>3, <3>5, <3>6, LoneStreetDone
    <3>8. ~AtMostOne(Live(s)) => ~CheckDone(s).done
      BY <3>3, <3>5, TwoCanAct
    <3> QED BY <1>2, <1>4, <1>5, <3>4, <3>7, <3>8
  <2> QED BY <2>1, <2>2
<1> QED BY <1>5, <1>6 DEF StreetStarts

(* The preflop round of a table whose seats hold left. *)
PreflopStarts(r, left) ==
  /\ StreetRoundInv(r) /\ r.players = Seats /\ r.folded = {}
  /\ r.allIn = {p \in Seats : r.stack[p] = 0} /\ NotFolded(r) = Seats
  /\ r.potTotal = SumOver(r.contributed, Seats)
  /\ r.contributed \in [Seats -> Nat]
  /\ r.stack = [p \in Seats |-> left[p] - r.contributed[p]]
  /\ \A p \in Seats : r.contributed[p] <= left[p]

\* BettingRound::new_preflop as GameHand::start calls it.
LEMMA PreflopOpens ==
  ASSUME NEW left \in [Seats -> Nat], NEW b \in Seats, NEW small \in Nat,
         NEW big \in Nat \ {0}, NEW straddle \in Nat,
         NEW r, r = PreflopRound(left, b, small, big, straddle)
  PROVE  PreflopStarts(r, left)
<1> DEFINE first == IF Straddles(straddle) THEN Left(Left(b)) ELSE Left(b)
           blinds == ForcedPosts(b, small, big, straddle)
           bringIn == BringIn(left, b, big, straddle)
           posted == [s \in Seats |-> Least(blinds[s], left[s])]
           rest == [s \in Seats |-> left[s] - posted[s]]
           T == {posted[s] : s \in Seats} \cup {bringIn}
           bound == small + big + straddle
           o == Opening(Seats, rest, posted, first, Max(T), bringIn, SumOver(posted, Seats))
<1>1. bound \in Nat /\ 0 \in Seats
  BY SeatCount DEF Seats
<1>2. first \in Seats
  BY LeftIsSeat
<1>3. bringIn \in Nat \ {0} /\ bringIn <= bound
  BY DEF BringIn, Straddles
<1>4. \A s \in Seats : blinds[s] \in Nat /\ blinds[s] <= bound
  <2>1. \A s \in Seats : blinds[s] =
          CASE s = b -> big
            [] s = Right(b) -> small
            [] s = Left(b) /\ Straddles(straddle) -> straddle
            [] OTHER -> 0
    BY DEF ForcedPosts
  <2> HIDE DEF blinds
  <2> QED BY <2>1
<1>5. r = CheckDone(SeekActive(o))
  BY DEF PreflopRound, NewPreflop
<1> HIDE DEF blinds, bringIn, first
<1>6. /\ posted \in [Seats -> Nat] /\ rest \in [Seats -> Nat]
      /\ \A s \in Seats : posted[s] <= left[s] /\ posted[s] <= bound
  BY <1>1, <1>4 DEF Least
<1> HIDE DEF posted, bound
<1>7. T \in SUBSET Nat /\ T # {} /\ \A x \in T : x <= bound
  BY <1>3, <1>6
<1>8. Max(T) \in T /\ \A y \in T : y <= Max(T)
  <2> HIDE DEF T
  <2> QED BY <1>1, <1>7, MaxOfBounded
<1>9. Max(T) \in Nat /\ \A s \in Seats : posted[s] <= Max(T)
  BY <1>7, <1>8
<1>10. Seats # {}
  BY <1>1
<1>11. \A p \in Seats : rest[p] = left[p] - posted[p]
  OBVIOUS
<1>12. rest = [p \in Seats |-> left[p] - posted[p]]
  OBVIOUS
<1> HIDE DEF T, rest
<1>13. /\ StreetRoundInv(r) /\ r.players = Seats /\ r.stack = rest
       /\ r.contributed = posted /\ r.folded = {} /\ r.potTotal = SumOver(posted, Seats)
       /\ r.allIn = {p \in Seats : rest[p] = 0} /\ NotFolded(r) = Seats
  <2>1. StreetOpened(r, Seats, rest, posted, SumOver(posted, Seats))
    BY <1>2, <1>3, <1>5, <1>6, <1>9, <1>10, OpenedRound
  <2> QED BY <2>1 DEF StreetOpened
<1> QED BY <1>6, <1>12, <1>13 DEF PreflopStarts

-----------------------------------------------------------------------------
(* What an action or a forfeit makes of a round.                           *)

(* The round after seat p moved c chips, leaving out or staying in. *)
RoundMoved(t, r, p, c, in) ==
  /\ StreetRoundInv(t) /\ t.players = r.players
  /\ t.stack = [r.stack EXCEPT ![p] = r.stack[p] - c]
  /\ t.potTotal = r.potTotal + c
  /\ NotFolded(t) = in /\ in # {}
  /\ Live(t) \subseteq Live(r)
  /\ \A q \in r.players \ {p} : /\ q \in t.folded <=> q \in r.folded
                                /\ q \in t.allIn <=> q \in r.allIn

\* A full raise is at least the increment it has to beat.
LEMMA FullRaiseGrows ==
  ASSUME NEW r \in Round, RoundInv(r), NEW p \in Seats, NEW a \in Action,
         Legal(r, p, a), r.lastRaise > 0, IsFullRaise(r, p, a)
  PROVE  BetAfter(r, p, a) - r.currentBet > 0 /\ Commit(r, p, a) > 0
<1>1. /\ p \in Live(r) /\ Commit(r, p, a) \in Nat /\ Total(r, p, a) \in Nat
      /\ BetAfter(r, p, a) \in Nat /\ Total(r, p, a) <= BetAfter(r, p, a)
  BY CommitFacts
<1>2. /\ r.contributed[p] \in Nat /\ r.currentBet \in Nat /\ r.lastRaise \in Nat /\ a.to \in Nat
      /\ r.contributed[p] <= r.currentBet
  BY <1>1, LiveFacts DEF Round, Action, RoundInv, CountersInv
<1>3. Total(r, p, a) = r.contributed[p] + Commit(r, p, a)
  BY DEF Total
<1>4. Total(r, p, a) >= r.currentBet + r.lastRaise
  <2>1. CASE a.type = "Raise" /\ a.to >= MinRaiseTo(r)
    <3>1. Commit(r, p, a) = Monus(a.to, r.contributed[p])
      BY <2>1 DEF Commit
    <3>2. r.contributed[p] + Monus(a.to, r.contributed[p]) >= a.to
      BY <1>2 DEF Monus
    <3>3. Total(r, p, a) >= a.to
      BY <1>3, <3>1, <3>2
    <3> QED BY <1>1, <1>2, <2>1, <3>3 DEF MinRaiseTo
  <2>2. CASE Total(r, p, a) > r.currentBet /\ Total(r, p, a) - r.currentBet >= r.lastRaise
    BY <1>1, <1>2, <2>2
  <2> QED BY <2>1, <2>2 DEF IsFullRaise
<1> QED BY <1>1, <1>2, <1>3, <1>4

LEMMA ActionOnRound ==
  ASSUME NEW r, StreetRoundInv(r), NEW p \in Seats, NEW a \in Action,
         Legal(r, p, a), NEW t, t = AfterAction(r, p, a)
  PROVE  /\ RoundMoved(t, r, p, Commit(r, p, a),
                       IF a.type = "Fold" THEN NotFolded(r) \ {p} ELSE NotFolded(r))
         /\ Commit(r, p, a) \in Nat /\ Commit(r, p, a) <= r.stack[p]
         /\ p \in NotFolded(r) /\ (p \in t.folded <=> a.type = "Fold")
         /\ t.actionsRemaining = ActionsRemainingAfter(r, p, a)
<1> DEFINE w == Wager(r, p, a)
           c == Commit(r, p, a)
<1>0. r \in Round /\ RoundInv(r) /\ r.lastRaise > 0 /\ Books(r, Brought(r)) /\ r.players # {}
  BY DEF StreetRoundInv
<1>1. WagerShape(w, r, p, a)
  BY <1>0, WagerFields
<1>2. /\ w \in Round /\ w.nCanAct = Cardinality(Live(w)) /\ Live(w) \subseteq Live(r)
  BY <1>0, WagerCounts
<1>3. /\ c \in Nat /\ c <= r.stack[p] /\ p \in Live(r) /\ p \in NotFolded(r) /\ p \in r.players
      /\ p \notin r.folded /\ BetAfter(r, p, a) \in Nat
  BY <1>0, CommitFacts, LiveFacts DEF Live
<1>4. t = CheckDone(Advance(w)) /\ Advance(w) \in Round
      /\ Advance(w).actionsRemaining = w.actionsRemaining
  BY <1>2, TurnRound DEF AfterAction
<1>5. SameChips(t, w)
  BY <1>2, <1>4, TurnCheckFrame
<1> HIDE DEF w, c
<1>6. /\ t.players = r.players /\ t.folded = w.folded /\ t.allIn = w.allIn
      /\ t.stack = [r.stack EXCEPT ![p] = r.stack[p] - c]
      /\ t.contributed = [r.contributed EXCEPT ![p] = Total(r, p, a)]
      /\ t.potTotal = r.potTotal + c
      /\ t.lastRaise = IF IsFullRaise(r, p, a) THEN BetAfter(r, p, a) - r.currentBet
                       ELSE r.lastRaise
      /\ w.folded = IF a.type = "Fold" THEN r.folded \cup {p} ELSE r.folded
      /\ w.allIn = IF GoesAllIn(r, p, a) THEN r.allIn \cup {p} ELSE r.allIn
      /\ w.actionsRemaining = ActionsRemainingAfter(r, p, a)
  BY <1>1, <1>5 DEF WagerShape, SameChips, c
<1>7. t.actionsRemaining = ActionsRemainingAfter(r, p, a)
  BY <1>4, <1>6, CheckDoneCount
<1>8. t \in Round /\ RoundInv(t)
  BY <1>0, AfterActionKeeps
<1>9. NotFolded(t) = IF a.type = "Fold" THEN NotFolded(r) \ {p} ELSE NotFolded(r)
  BY <1>6 DEF NotFolded
<1>10. NotFolded(t) # {}
  <2>1. ~r.done
    BY DEF Legal
  <2>2. Cardinality(NotFolded(r)) > 1
    BY <2>1 DEF StreetRoundInv
  <2>3. NotFolded(r) # {p}
    <3>1. Cardinality({p}) = 1
      BY FS_Singleton
    <3> QED BY <2>2, <3>1
  <2> QED BY <1>3, <1>9, <2>3
<1>11. Live(t) \subseteq Live(r)
  BY <1>2, <1>5 DEF SameChips, Live
<1>12. Books(t, Brought(t))
  <2>1. Brought(r) \in [Seats -> Nat]
    BY <1>0 DEF Brought, Round
  <2>2. Books(t, Brought(r))
    BY <1>0, <2>1, AfterActionBooks
  <2> QED BY <2>2 DEF Books, Brought
<1>13. t.lastRaise > 0
  BY <1>0, <1>6, FullRaiseGrows
<1>14. \A q \in Seats \ t.players : t.contributed[q] = 0
  <2>1. \A q \in Seats \ r.players : r.contributed[q] = 0 /\ r.contributed \in [Seats -> Nat]
    BY <1>0 DEF StreetRoundInv, Round
  <2> QED BY <1>3, <1>6, <2>1
<1>15. ~t.done => Cardinality(NotFolded(t)) > 1
  BY <1>4, CheckDoneOpen
<1>16. StreetRoundInv(t)
  BY <1>0, <1>6, <1>8, <1>12, <1>13, <1>14, <1>15 DEF StreetRoundInv
<1>17. \A q \in r.players \ {p} : /\ q \in t.folded <=> q \in r.folded
                                  /\ q \in t.allIn <=> q \in r.allIn
  BY <1>6
<1>18. p \in t.folded <=> a.type = "Fold"
  BY <1>3, <1>6
<1> QED BY <1>3, <1>6, <1>7, <1>9, <1>10, <1>11, <1>16, <1>17, <1>18 DEF RoundMoved, c

LEMMA ForfeitOnRound ==
  ASSUME NEW r, StreetRoundInv(r), NEW p \in Seats, CanForfeit(r, p),
         NEW t, t = AfterForfeit(r, p)
  PROVE  /\ RoundMoved(t, r, p, 0, NotFolded(r) \ {p})
         /\ p \in NotFolded(r) /\ p \in t.folded
         /\ p \in t.allIn <=> p \in r.allIn
         /\ r.done => t.done
<1> DEFINE q == Retire(r, p)
           u == IF p = r.current THEN Advance(q) ELSE q
<1>0. r \in Round /\ RoundInv(r) /\ r.lastRaise > 0 /\ Books(r, Brought(r)) /\ r.players # {}
  BY DEF StreetRoundInv
<1>1. RetireShape(q, r, p)
  BY <1>0, RetireFields
<1>2. t = CheckDone(u)
  BY DEF AfterForfeit
<1>3. q \in Round /\ (q.done <=> r.done)
  BY <1>1 DEF RetireShape
<1>4. u \in Round /\ (r.done => u.done)
  <2> HIDE DEF q
  <2> QED BY <1>3, TurnRound
<1>5. /\ t.contributed = r.contributed /\ Books(t, Brought(r))
  BY <1>0, AfterForfeitFrame
<1>6. Live(q) = Live(r) \ {p} /\ p \in r.players /\ p \notin r.folded
  BY <1>1 DEF RetireShape, Live, CanForfeit
<1>7. q.nCanAct = Cardinality(Live(q))
  <2>1. /\ IsFiniteSet(Live(r)) /\ Cardinality(Live(r)) \in Nat
        /\ p \in Live(r) => Cardinality(Live(r)) # 0
        /\ r.nCanAct = Cardinality(Live(r))
    BY <1>0, LiveFacts DEF RoundInv, CountersInv
  <2>2. Cardinality(Live(r) \ {p}) =
          IF p \in Live(r) THEN Cardinality(Live(r)) - 1 ELSE Cardinality(Live(r))
    BY <2>1, FS_RemoveElement
  <2>3. p \in Live(r) <=> p \notin r.allIn
    BY <1>6 DEF Live
  <2> HIDE DEF q
  <2> QED BY <1>1, <1>6, <2>1, <2>2, <2>3 DEF RetireShape, Monus
<1> HIDE DEF q
<1>8. SameChips(t, q)
  BY <1>2, <1>3, <1>7, TurnCheckFrame
<1> HIDE DEF u
<1>9. /\ t.players = r.players /\ t.folded = r.folded \cup {p} /\ t.allIn = r.allIn
      /\ t.stack = r.stack /\ t.potTotal = r.potTotal /\ t.lastRaise = r.lastRaise
  BY <1>1, <1>8 DEF SameChips, RetireShape
<1>10. r.done => t.done
  BY <1>2, <1>4, CheckDoneStays
<1>11. t \in Round /\ RoundInv(t)
  BY <1>0, AfterForfeitKeeps
<1>12. NotFolded(t) = NotFolded(r) \ {p} /\ p \in NotFolded(r)
  BY <1>6, <1>9 DEF NotFolded
<1>13. NotFolded(t) # {}
  <2>1. Cardinality(NotFolded(r)) > 1
    BY DEF CanForfeit
  <2>2. NotFolded(r) # {p}
    <3>1. Cardinality({p}) = 1
      BY FS_Singleton
    <3> QED BY <2>1, <3>1
  <2> QED BY <1>12, <2>2
<1>14. Live(t) \subseteq Live(r)
  BY <1>9 DEF Live
<1>15. Books(t, Brought(t))
  BY <1>5 DEF Books, Brought
<1>16. ~t.done => Cardinality(NotFolded(t)) > 1
  BY <1>2, <1>4, CheckDoneOpen
<1>17. StreetRoundInv(t)
  <2>1. \A s \in Seats \ t.players : t.contributed[s] = 0
    BY <1>5, <1>9 DEF StreetRoundInv
  <2> QED BY <1>0, <1>9, <1>11, <1>15, <1>16, <2>1 DEF StreetRoundInv
<1>18. t.stack = [r.stack EXCEPT ![p] = r.stack[p] - 0] /\ t.potTotal = r.potTotal + 0
  BY <1>0, <1>9 DEF Round
<1>19. \A s \in r.players \ {p} : /\ s \in t.folded <=> s \in r.folded
                                  /\ s \in t.allIn <=> s \in r.allIn
  BY <1>9
<1>20. RoundMoved(t, r, p, 0, NotFolded(r) \ {p})
  BY <1>9, <1>12, <1>13, <1>14, <1>17, <1>18, <1>19 DEF RoundMoved
<1> QED BY <1>9, <1>10, <1>12, <1>20

-----------------------------------------------------------------------------
(* Closing a street.                                                       *)

\* NextStreet and the boards behind it.
LEMMA StreetOrder ==
  ASSUME NEW s \in Streets
  PROVE  /\ NextStreet(s) = NoStreet <=> s = "River"
         /\ NextStreet(s) \in BoardStreets \cup {NoStreet}
         /\ Dealt(s) \in SUBSET BoardStreets
         /\ s = "River" => Dealt(s) = BoardStreets
         /\ s # "River" =>
              /\ NextStreet(s) \in BoardStreets /\ NextStreet(s) # NoStreet
              /\ Dealt(NextStreet(s)) = Dealt(s) \cup {NextStreet(s)}
              /\ Dealt(s) = Dealt(NextStreet(s)) \ {NextStreet(s)}
              /\ Dealt(s) \cup StreetsFrom(NextStreet(s)) = BoardStreets
              /\ StreetsFrom(NextStreet(s)) \in SUBSET BoardStreets
<1>1. BoardStreets = {"Flop", "Turn", "River"} /\ NoStreet = "None"
  BY DEF BoardStreets, Streets, NoStreet
<1>2. CASE s = "Preflop"
  BY <1>1, <1>2 DEF NextStreet, Dealt, StreetsFrom
<1>3. CASE s = "Flop"
  BY <1>1, <1>3 DEF NextStreet, Dealt, StreetsFrom
<1>4. CASE s = "Turn"
  BY <1>1, <1>4 DEF NextStreet, Dealt, StreetsFrom
<1>5. CASE s = "River"
  BY <1>1, <1>5 DEF NextStreet, Dealt, StreetsFrom
<1> QED BY <1>2, <1>3, <1>4, <1>5 DEF Streets

LEMMA TableTypes ==
  ASSUME table \in Tables
  PROVE  /\ table.dealer \in Seats /\ table.stack \in [Seats -> Nat]
         /\ table.small \in Nat /\ table.big \in Nat \ {0} /\ table.straddle \in Nat
         /\ table.bomb \in Nat /\ table.ante \in Nat /\ table.bigBlindAnte \in Nat
BY TablesAssumption DEF Table

\* The first actor of a street is a seat.
LEMMA FirstActorIsSeat ==
  ASSUME table \in Tables, NEW in \in SUBSET Seats, in # {}, NEW able \in SUBSET Seats
  PROVE  FirstActor(in, able) \in Seats
<1>1. Left(table.dealer) \in Seats /\ 0 \in Seats
  <2>1. table.dealer \in Seats
    BY TableTypes
  <2>2. 0 \in Seats
    BY SeatCount DEF Seats
  <2> QED BY <2>1, <2>2, LeftIsSeat
<1>2. able # {} => FirstFrom(Left(table.dealer), able) \in able
  BY <1>1, FirstFromIsNearest
<1>3. FirstFrom(0, in) \in in
  BY <1>1, FirstFromIsNearest
<1> QED BY <1>1, <1>2, <1>3 DEF FirstActor

LEMMA NoRoundFacts ==
  /\ NoRound \in Round /\ NoRound.players = {} /\ NoRound.potTotal = 0 /\ NoRound.done = FALSE
  /\ NoRound.contributed = Zero
<1>1. Zero \in [Seats -> Nat] /\ 0 \in Seats
  BY SeatCount DEF Zero, Seats
<1>2. OpenedAs(NoRound, {}, Zero, Zero, 0, 0, 0)
  BY <1>1, LiveOfOpening DEF NoRound
<1> QED BY <1>2 DEF OpenedAs

(* What holds of the seats' own state when a street is closed. *)
SeatsReady ==
  /\ table \in Tables /\ table' = table
  /\ stack' \in [Seats -> Nat] /\ folded' \in SUBSET Seats /\ allIn' \in SUBSET Seats
  /\ In' # {} /\ \A p \in In' : p \in allIn' <=> stack'[p] = 0
  /\ choice' # "Open" => AtMostOne({p \in In' : stack'[p] # 0})
  /\ result' = NoResult

(* The board that goes with it. *)
BoardReady(s, dealt, waiting) ==
  /\ dealt \in SUBSET BoardStreets /\ waiting \in BoardStreets \cup {NoStreet}
  /\ ~Blind => waiting = NoStreet
  /\ ~Blind \/ table.waits => dealt = Dealt(s) /\ waiting = NoStreet

(* The hand once close_street_and_advance is through. *)
StreetClosed(s) ==
  /\ phase' \in {"Betting", "Done"} /\ street' \in Streets /\ round' \in Round
  /\ completedPot' \in Nat /\ board' \in SUBSET BoardStreets
  /\ pending' \in BoardStreets \cup {NoStreet}
  /\ PlayInv' /\ RestInv' /\ PotBooks' /\ BoardInv'
  /\ phase' = "Betting" => s # "River" /\ street' = NextStreet(s)

LEMMA CloseKeeps ==
  ASSUME NEW chips \in Nat, NEW s \in Streets, NEW dealt, NEW waiting,
         SeatsReady, BoardReady(s, dealt, waiting),
         completedPot \in Nat, completedPot + chips = SumOver(PutIn(stack)', Seats),
         CloseStreet(chips, s, dealt, waiting)
  PROVE  StreetClosed(s)
<1> DEFINE next == NextStreet(s)
           in == Seats \ folded'
           r == StreetRound(stack', in, in \ allIn')
           over == Cardinality(in) <= 1 \/ next = NoStreet
           runsOut == ~Blind /\ r.done
<1>0. /\ table \in Tables /\ table' = table /\ stack' \in [Seats -> Nat]
      /\ in \in SUBSET Seats /\ in # {} /\ allIn' \in SUBSET Seats
      /\ \A p \in in : p \in allIn' <=> stack'[p] = 0
      /\ choice' # "Open" => AtMostOne({p \in in : stack'[p] # 0})
      /\ In' = in /\ Blind' = Blind /\ result' = NoResult
  BY DEF SeatsReady, In, Blind
<1>1. /\ StreetRoundInv(r) /\ r.players = in /\ r.stack = stack'
      /\ r.potTotal = 0 /\ r.allIn = {p \in in : stack'[p] = 0} /\ NotFolded(r) = in
      /\ Live(r) = {p \in in : stack'[p] # 0}
      /\ r.done <=> AtMostOne(Live(r))
  <2>1. FirstActor(in, in \ allIn') \in Seats
    BY <1>0, FirstActorIsSeat
  <2>2. table.big \in Nat \ {0}
    BY <1>0, TableTypes
  <2>3. r = NewRound(in, stack', FirstActor(in, in \ allIn'), table.big)
    BY DEF StreetRound
  <2> HIDE DEF r, in
  <2>4. StreetStarts(r, in, stack')
    BY <1>0, <2>1, <2>2, <2>3, StreetOpens
  <2> QED BY <2>4 DEF StreetStarts
<1>2. /\ completedPot' = completedPot + chips
      /\ phase' = IF over \/ runsOut THEN "Done" ELSE "Betting"
      /\ street' = CASE over -> s [] ~over /\ runsOut -> "River" [] OTHER -> next
      /\ round' = IF over \/ runsOut THEN NoRound ELSE r
      /\ board' = CASE over \/ Blind -> dealt
                   [] ~over /\ runsOut -> dealt \cup StreetsFrom(next)
                   [] OTHER -> dealt \cup {next}
      /\ pending' = IF Blind /\ ~over THEN next ELSE waiting
  BY DEF CloseStreet
<1> HIDE DEF r
<1>3. /\ NoRound \in Round /\ NoRound.potTotal = 0
      /\ r \in Round /\ completedPot' \in Nat
  BY <1>1, <1>2, NoRoundFacts DEF StreetRoundInv
<1>4. PotBooks'
  <2>1. round'.potTotal = 0
    BY <1>1, <1>2, <1>3
  <2> QED BY <1>2, <1>3, <2>1 DEF PotBooks
<1>5. /\ NextStreet(s) = NoStreet <=> s = "River"
      /\ Dealt(s) \in SUBSET BoardStreets
      /\ s = "River" => Dealt(s) = BoardStreets
      /\ s # "River" =>
              /\ next \in BoardStreets /\ next # NoStreet
              /\ Dealt(next) = Dealt(s) \cup {next}
              /\ Dealt(s) = Dealt(next) \ {next}
              /\ Dealt(s) \cup StreetsFrom(next) = BoardStreets
              /\ StreetsFrom(next) \in SUBSET BoardStreets
  BY StreetOrder
<1>6. Cardinality(in) \in Nat
  BY <1>0, FiniteSeats
<1>7. /\ dealt \in SUBSET BoardStreets /\ waiting \in BoardStreets \cup {NoStreet}
      /\ ~Blind => waiting = NoStreet
      /\ ~Blind \/ table.waits => dealt = Dealt(s) /\ waiting = NoStreet
  BY DEF BoardReady
<1>s. "River" \in Streets /\ BoardStreets \subseteq Streets /\ Dealt("River") = BoardStreets
  BY DEF Streets, BoardStreets, Dealt
<1>8. CASE over
  <2>1. /\ phase' = "Done" /\ street' = s /\ round' = NoRound /\ board' = dealt /\ pending' = waiting
    BY <1>2, <1>8
  <2>2. PlayInv' /\ RestInv'
    BY <1>0, <2>1 DEF PlayInv, RestInv
  <2>3. BoardInv'
    <3>1. ~Blind' => pending' = NoStreet
      BY <1>0, <1>7, <2>1
    <3>2. ASSUME ~Blind' \/ table'.waits
          PROVE  /\ pending' = NoStreet /\ \E x \in Streets : board' = Dealt(x)
                 /\ Cardinality(In') >= 2 => board' = BoardStreets
      <4>1. dealt = Dealt(s) /\ waiting = NoStreet
        BY <1>0, <1>7, <3>2
      <4>2. Cardinality(in) >= 2 => s = "River"
        BY <1>5, <1>6, <1>8
      <4> HIDE DEF in
      <4> QED BY <1>0, <1>5, <2>1, <4>1, <4>2
    <3> QED BY <2>1, <3>1, <3>2 DEF BoardInv
  <2> QED BY <1>3, <1>4, <1>7, <2>1, <2>2, <2>3 DEF StreetClosed
<1>9. CASE ~over /\ runsOut
  <2>1. /\ phase' = "Done" /\ street' = "River" /\ round' = NoRound /\ pending' = waiting /\ ~Blind
        /\ s # "River" /\ board' = dealt \cup StreetsFrom(next)
    BY <1>2, <1>5, <1>9
  <2>2. PlayInv' /\ RestInv'
    BY <1>0, <2>1 DEF PlayInv, RestInv
  <2>3. board' = BoardStreets /\ pending' = NoStreet
    BY <1>5, <1>7, <2>1
  <2>4. BoardInv'
    BY <1>s, <2>1, <2>3 DEF BoardInv
  <2> QED BY <1>3, <1>4, <1>7, <1>s, <2>1, <2>2, <2>3, <2>4 DEF StreetClosed
<1>10. CASE ~over /\ ~runsOut
  <2>1. /\ phase' = "Betting" /\ street' = next /\ round' = r /\ s # "River"
        /\ board' = IF Blind THEN dealt ELSE dealt \cup {next}
        /\ pending' = IF Blind THEN next ELSE waiting
    BY <1>2, <1>5, <1>10
  <2>2. r.done => Blind
    BY <1>10
  <2>3. PlayInv'
    <3>1. \A p \in round'.players : p \in allIn' <=> p \in round'.allIn
      BY <1>0, <1>1, <2>1
    <3>2. round'.done => pending' \in BoardStreets /\ AtMostOne(Live(round'))
      BY <1>1, <1>5, <2>1, <2>2
    <3>3. choice' # "Open" => round'.done
      BY <1>0, <1>1, <2>1
    <3>4. stack' = round'.stack /\ In' = NotFolded(round') /\ StreetRoundInv(round')
      BY <1>0, <1>1, <2>1
    <3> QED BY <3>1, <3>2, <3>3, <3>4 DEF PlayInv
  <2>4. RestInv'
    BY <1>0, <2>1 DEF RestInv
  <2>5. BoardInv'
    <3>1. ~Blind' => pending' = NoStreet
      BY <1>0, <1>7, <2>1
    <3>2. ASSUME ~Blind' \/ table'.waits
          PROVE  IF pending' = NoStreet THEN board' = Dealt(street')
                 ELSE pending' = street' /\ board' = Dealt(street') \ {street'}
      <4>1. dealt = Dealt(s) /\ waiting = NoStreet
        BY <1>0, <1>7, <3>2
      <4>2. CASE Blind
        BY <1>5, <2>1, <4>1, <4>2
      <4>3. CASE ~Blind
        BY <1>5, <2>1, <4>1, <4>3
      <4> QED BY <4>2, <4>3
    <3> QED BY <2>1, <3>1, <3>2 DEF BoardInv
  <2>6. street' \in Streets /\ board' \in SUBSET BoardStreets /\ pending' \in BoardStreets \cup {NoStreet}
    BY <1>5, <1>7, <1>s, <2>1
  <2> QED BY <1>3, <1>4, <2>1, <2>3, <2>4, <2>5, <2>6 DEF StreetClosed
<1> QED BY <1>8, <1>9, <1>10

-----------------------------------------------------------------------------
(* The steps of a hand.                                                    *)

LEMMA HandInit == Init => HandInv
<1> SUFFICES ASSUME Init PROVE HandInv
  OBVIOUS
<1>1. /\ table \in Tables /\ phase = "NotStarted" /\ street = "Preflop" /\ round = NoRound
      /\ stack = table.stack /\ folded = {} /\ allIn = {}
      /\ completedPot = 0 /\ anteBy = Zero /\ board = {} /\ pending = NoStreet
      /\ choice = "Open" /\ twiceFrom = NoStreet /\ secondBoard = FALSE
      /\ result = NoResult /\ hole \in [Seats -> {"Opaque", "Empty"}]
  BY DEF Init
<1>2. table.stack \in [Seats -> Nat] /\ Zero \in [Seats -> Nat]
  BY <1>1, TableTypes DEF Zero
<1>3. TypeOK
  BY <1>1, <1>2, NoRoundFacts DEF TypeOK, Streets, BoardStreets
<1>4. PlayInv /\ RestInv /\ BoardInv
  BY <1>1 DEF PlayInv, RestInv, BoardInv
<1>5. ChipsInv
  <2>1. PutIn(stack) = Zero
    BY <1>1, <1>2 DEF PutIn, Monus, Zero
  <2>2. \A p \in Seats : stack[p] <= table.stack[p] /\ anteBy[p] <= PutIn(stack)[p]
    <3>1. \A p \in Seats : anteBy[p] = 0 /\ PutIn(stack)[p] = 0
      BY <1>1, <2>1 DEF Zero
    <3> QED BY <1>1, <1>2, <3>1
  <2>3. In # {}
    <3>1. 0 \in Seats
      BY SeatCount DEF Seats
    <3> QED BY <1>1, <3>1 DEF In
  <2>4. PotBooks
    BY <1>1, <2>1, NoRoundFacts, SumOverZero DEF PotBooks, Zero
  <2> QED BY <2>2, <2>3, <2>4 DEF ChipsInv
<1> QED BY <1>3, <1>4, <1>5 DEF HandInv

\* What is in play before the hand: everything a seat brought.
LEMMA BeforeStart ==
  ASSUME HandInv, phase = "NotStarted"
  PROVE  /\ table \in Tables /\ round = NoRound /\ result = NoResult
         /\ street = "Preflop" /\ stack = table.stack /\ folded = {} /\ allIn = {}
         /\ completedPot = 0 /\ anteBy = Zero /\ board = {} /\ pending = NoStreet
         /\ choice = "Open" /\ stack \in [Seats -> Nat] /\ Seats # {}
BY SeatCount DEF HandInv, TypeOK, RestInv, Seats

\* Nothing is dealt and nothing is awaited before the flop.
LEMMA NothingDealt == BoardReady("Preflop", {}, NoStreet)
BY DEF BoardReady, Dealt

LEMMA DealtHoles ==
  ASSUME HandInv, DealHoles
  PROVE  hole' \in [Seats -> {"Empty", "Plain", "Opaque", "Revealed"}]
BY DEF DealHoles, HandInv, TypeOK

\* What anybody posts it has.
LEMMA PostsFit ==
  ASSUME table \in Tables
  PROVE  /\ AntePosts \in [Seats -> Nat]
         /\ \A p \in Seats : AntePosts[p] <= table.stack[p]
         /\ BigBlindAntePosts \in [Seats -> Nat]
         /\ \A p \in Seats : BigBlindAntePosts[p] <= table.stack[p]
         /\ table.bigBlindAnte = 0 => \A p \in Seats : BigBlindAntePosts[p] = 0
         /\ table.ante = 0 /\ table.bomb = 0 => \A p \in Seats : AntePosts[p] = 0
<1>1. /\ table.stack \in [Seats -> Nat] /\ table.big \in Nat
      /\ table.bomb \in Nat /\ table.ante \in Nat /\ table.bigBlindAnte \in Nat
  BY TableTypes
<1> QED BY <1>1 DEF AntePosts, BigBlindAntePosts, Least, Monus

LEMMA StartBombPotKeeps ==
  ASSUME HandInv, StartBombPot
  PROVE  HandInv'
<1> DEFINE posts == AntePosts
           chips == SumOver(posts, Seats)
<1>1. phase = "NotStarted"
  BY DEF StartBombPot, MayStart
<1>2. /\ table \in Tables /\ result = NoResult
      /\ street = "Preflop" /\ stack = table.stack /\ folded = {}
      /\ completedPot = 0 /\ anteBy = Zero /\ board = {} /\ pending = NoStreet
      /\ choice = "Open" /\ stack \in [Seats -> Nat] /\ Seats # {}
  BY <1>1, BeforeStart
<1>3. /\ stack' = [p \in Seats |-> stack[p] - posts[p]]
      /\ allIn' = {p \in Seats : stack'[p] = 0}
      /\ table' = table /\ folded' = folded /\ anteBy' = anteBy /\ result' = result
      /\ choice' = choice /\ twiceFrom' = twiceFrom /\ secondBoard' = secondBoard
      /\ DealHoles /\ CloseStreet(chips, "Preflop", {}, NoStreet)
  BY <1>2 DEF StartBombPot, runout
<1>4. posts \in [Seats -> Nat] /\ \A p \in Seats : posts[p] <= table.stack[p]
  BY <1>2, PostsFit
<1> HIDE DEF posts
<1>5. stack' \in [Seats -> Nat] /\ \A p \in Seats : stack'[p] <= table.stack[p]
  BY <1>2, <1>3, <1>4
<1>6. PutIn(stack)' = posts
  <2>1. \A p \in Seats : Monus(table.stack[p], stack'[p]) = posts[p]
    BY <1>2, <1>3, <1>4 DEF Monus
  <2> QED BY <1>3, <1>4, <2>1 DEF PutIn
<1>7. chips \in Nat /\ completedPot + chips = SumOver(PutIn(stack)', Seats)
  BY <1>2, <1>4, <1>6, SumOverType
<1>8. SeatsReady
  BY <1>2, <1>3, <1>5 DEF SeatsReady, In
<1>9. StreetClosed("Preflop")
  <2>1. completedPot \in Nat /\ "Preflop" \in Streets
    BY <1>2 DEF Streets
  <2> HIDE DEF chips
  <2> QED BY <1>3, <1>7, <1>8, <2>1, NothingDealt, CloseKeeps
<1>10. TypeOK'
  BY <1>2, <1>3, <1>5, <1>9, DealtHoles DEF TypeOK, StreetClosed, SeatsReady, HandInv
<1>11. ChipsInv'
  <2>1. \A p \in Seats : anteBy'[p] <= PutIn(stack)'[p]
    BY <1>2, <1>3, <1>4, <1>6 DEF Zero
  <2>2. In' # {}
    BY <1>8 DEF SeatsReady
  <2> QED BY <1>3, <1>5, <1>9, <2>1, <2>2 DEF ChipsInv, StreetClosed
<1> QED BY <1>9, <1>10, <1>11 DEF HandInv, StreetClosed

LEMMA StartBlindsKeeps ==
  ASSUME HandInv, StartBlinds
  PROVE  HandInv'
<1> DEFINE ante == AntePosts
           bbAnte == BigBlindAntePosts
           dead == [p \in Seats |-> ante[p] + bbAnte[p]]
           left == [p \in Seats |-> stack[p] - dead[p]]
           r == PreflopRound(left, BigBlindSeat, SmallBlindAmount, table.big, table.straddle)
<1>1. phase = "NotStarted" /\ (table.bigBlindAnte > 0 => table.ante = 0 /\ table.bomb = 0) /\ table.bomb = 0
  BY DEF StartBlinds, MayStart
<1>2. /\ table \in Tables /\ result = NoResult
      /\ street = "Preflop" /\ stack = table.stack /\ folded = {}
      /\ completedPot = 0 /\ anteBy = Zero /\ board = {} /\ pending = NoStreet
      /\ choice = "Open" /\ stack \in [Seats -> Nat] /\ Seats # {}
  BY <1>1, BeforeStart
<1>3. /\ stack' = r.stack /\ folded' = r.folded /\ allIn' = r.allIn /\ anteBy' = bbAnte
      /\ table' = table /\ result' = result
      /\ choice' = choice /\ twiceFrom' = twiceFrom /\ secondBoard' = secondBoard
      /\ DealHoles
      /\ IF r.done
           THEN CloseStreet(SumOver(dead, Seats) + SumOver(r.contributed, r.players),
                            "Preflop", {}, NoStreet)
           ELSE /\ phase' = "Betting" /\ round' = r
                /\ completedPot' = SumOver(dead, Seats)
                /\ street' = street /\ board' = board /\ pending' = pending
  BY <1>2 DEF StartBlinds, runout
<1>4. /\ ante \in [Seats -> Nat] /\ bbAnte \in [Seats -> Nat]
      /\ \A p \in Seats : ante[p] <= table.stack[p] /\ bbAnte[p] <= table.stack[p]
      /\ (\A p \in Seats : ante[p] = 0) \/ (\A p \in Seats : bbAnte[p] = 0)
  <2>1. table.bigBlindAnte \in Nat
    BY <1>2, TableTypes
  <2> QED BY <1>1, <1>2, <2>1, PostsFit
<1> HIDE DEF ante, bbAnte
<1>5. /\ dead \in [Seats -> Nat] /\ left \in [Seats -> Nat]
      /\ \A p \in Seats : /\ dead[p] <= table.stack[p] /\ bbAnte[p] <= dead[p]
                          /\ left[p] = table.stack[p] - dead[p]
  BY <1>2, <1>4
<1>6. PreflopStarts(r, left)
  <2>1. table.big \in Nat \ {0} /\ table.straddle \in Nat /\ SmallBlindAmount \in Nat
    BY <1>2, TableTypes DEF SmallBlindAmount
  <2>2. BigBlindSeat \in Seats
    BY <1>2, TableTypes, LeftIsSeat DEF BigBlindSeat
  <2> HIDE DEF left
  <2> QED BY <1>5, <2>1, <2>2, PreflopOpens
<1> HIDE DEF r, left, dead
<1>7. /\ StreetRoundInv(r) /\ r.players = Seats /\ r.folded = {}
      /\ r.allIn = {p \in Seats : r.stack[p] = 0} /\ NotFolded(r) = Seats
      /\ r.potTotal = SumOver(r.contributed, Seats)
      /\ r.contributed \in [Seats -> Nat]
      /\ r.stack = [p \in Seats |-> left[p] - r.contributed[p]]
      /\ \A p \in Seats : r.contributed[p] <= left[p]
  BY <1>6 DEF PreflopStarts
<1>8. r \in Round /\ stack' \in [Seats -> Nat] /\ \A p \in Seats : stack'[p] <= table.stack[p]
  <2>1. r \in Round
    BY <1>7 DEF StreetRoundInv
  <2>2. \A p \in Seats : r.stack[p] = left[p] - r.contributed[p]
    BY <1>7
  <2>3. table.stack \in [Seats -> Nat]
    BY <1>2
  <2>4. \A p \in Seats : r.stack[p] <= table.stack[p]
    BY <1>5, <1>7, <2>2, <2>3
  <2>5. r.stack \in [Seats -> Nat]
    BY <2>1 DEF Round
  <2> QED BY <1>3, <2>1, <2>4, <2>5
<1> DEFINE total == [p \in Seats |-> dead[p] + r.contributed[p]]
<1>9. PutIn(stack)' = total
  <2>1. \A p \in Seats : Monus(table.stack[p], stack'[p]) = dead[p] + r.contributed[p]
    <3> TAKE p \in Seats
    <3>1. /\ table.stack[p] \in Nat /\ dead[p] \in Nat /\ r.contributed[p] \in Nat
          /\ stack'[p] = (table.stack[p] - dead[p]) - r.contributed[p]
          /\ dead[p] <= table.stack[p] /\ r.contributed[p] <= table.stack[p] - dead[p]
      BY <1>2, <1>3, <1>5, <1>7
    <3> QED BY <3>1 DEF Monus
  <2> QED BY <1>3, <2>1 DEF PutIn
<1>10. SumOver(total, Seats) = SumOver(dead, Seats) + SumOver(r.contributed, Seats)
  <2>1. total \in [Seats -> Nat] /\ \A p \in Seats : total[p] = dead[p] + r.contributed[p]
    BY <1>5, <1>7
  <2> HIDE DEF total
  <2> QED BY <1>5, <1>7, <2>1, SumOverAdds
<1>11. SumOver(dead, Seats) \in Nat /\ SumOver(r.contributed, Seats) \in Nat
  BY <1>5, <1>7, SumOverType
<1>12. \A p \in Seats : anteBy'[p] <= PutIn(stack)'[p]
  BY <1>3, <1>4, <1>5, <1>7, <1>9
<1>13. In' = Seats
  BY <1>3, <1>7 DEF In
<1> HIDE DEF total
<1>14. CASE r.done
  <2> DEFINE chips == SumOver(dead, Seats) + SumOver(r.contributed, r.players)
  <2>1. chips \in Nat /\ completedPot + chips = SumOver(PutIn(stack)', Seats)
    BY <1>2, <1>7, <1>9, <1>10, <1>11
  <2>2. CloseStreet(chips, "Preflop", {}, NoStreet)
    BY <1>3, <1>14
  <2>3. SeatsReady
    BY <1>2, <1>3, <1>7, <1>8, <1>13 DEF SeatsReady
  <2>4. StreetClosed("Preflop")
    <3>1. completedPot \in Nat /\ "Preflop" \in Streets
      BY <1>2 DEF Streets
    <3> HIDE DEF chips
    <3> QED BY <2>1, <2>2, <2>3, <3>1, NothingDealt, CloseKeeps
  <2>5. TypeOK'
    BY <1>2, <1>3, <1>4, <1>8, <2>3, <2>4, DealtHoles DEF TypeOK, StreetClosed, SeatsReady, HandInv
  <2>6. ChipsInv'
    BY <1>2, <1>3, <1>8, <1>12, <1>13, <2>4 DEF ChipsInv, StreetClosed
  <2> QED BY <2>4, <2>5, <2>6 DEF HandInv, StreetClosed
<1>15. CASE ~r.done
  <2>1. /\ phase' = "Betting" /\ round' = r /\ completedPot' = SumOver(dead, Seats)
        /\ street' = "Preflop" /\ board' = {} /\ pending' = NoStreet
    BY <1>2, <1>3, <1>15
  <2>2. r.folded \in SUBSET Seats /\ r.allIn \in SUBSET Seats
    BY <1>8 DEF Round
  <2>3. TypeOK'
    BY <1>2, <1>3, <1>4, <1>8, <1>11, <2>1, <2>2, DealtHoles DEF TypeOK, HandInv, Streets
  <2>4. PlayInv'
    BY <1>2, <1>3, <1>7, <1>13, <1>15, <2>1 DEF PlayInv
  <2>5. RestInv'
    BY <1>2, <1>3, <2>1 DEF RestInv
  <2>6. PotBooks'
    BY <1>7, <1>9, <1>10, <2>1 DEF PotBooks
  <2>7. ChipsInv'
    BY <1>2, <1>3, <1>8, <1>12, <1>13, <2>6 DEF ChipsInv
  <2>8. BoardInv'
    <3>1. Dealt("Preflop") = {}
      BY DEF Dealt
    <3> QED BY <2>1, <3>1 DEF BoardInv
  <2> QED BY <2>3, <2>4, <2>5, <2>7, <2>8 DEF HandInv
<1> QED BY <1>14, <1>15

\* The chips of a round are those of its players.
LEMMA RoundChips ==
  ASSUME NEW r, StreetRoundInv(r)
  PROVE  /\ SumOver(r.contributed, r.players) = r.potTotal /\ r.potTotal \in Nat
         /\ r.allIn = {p \in r.players : r.stack[p] = 0}
         /\ Live(r) = {p \in NotFolded(r) : r.stack[p] # 0}
<1>1. r \in Round /\ Books(r, Brought(r)) /\ \A p \in Seats \ r.players : r.contributed[p] = 0
  BY DEF StreetRoundInv
<1>2. r.contributed \in [Seats -> Nat] /\ r.players \in SUBSET Seats /\ r.potTotal \in Nat
  BY <1>1 DEF Round
<1>3. SumOver(r.contributed, r.players) = SumOver(r.contributed, Seats)
  BY <1>1, <1>2, SumOverPlayers
<1>4. r.potTotal = SumOver(r.contributed, Seats) /\ r.allIn = {p \in r.players : r.stack[p] = 0}
  BY <1>1 DEF Books
<1>5. Live(r) = {p \in NotFolded(r) : r.stack[p] # 0}
  BY <1>4 DEF Live, NotFolded
<1> QED BY <1>2, <1>3, <1>4, <1>5

\* The hand after an action or a forfeit: the round t replaced the hand's, and
\* the street may have closed.
Synced(t, p, c, in) ==
  /\ HandInv' /\ In' = in /\ stack' = [stack EXCEPT ![p] = stack[p] - c]
  /\ phase' = "Betting" => \/ street' = street /\ round' = t
                           \/ street # "River" /\ street' = NextStreet(street)

LEMMA SyncKeeps ==
  ASSUME HandInv, phase = "Betting", BoardSettled, NEW p \in Seats, NEW c \in Nat,
         NEW t, NEW in, RoundMoved(t, round, p, c, in), c <= round.stack[p],
         p \in NotFolded(round), in \in {NotFolded(round), NotFolded(round) \ {p}},
         p \in in <=> p \notin t.folded, round.done => t.done,
         SyncSeat(t, p, c)
  PROVE  Synced(t, p, c, in)
<1>1. /\ TypeOK /\ StreetRoundInv(round) /\ stack = round.stack /\ In = NotFolded(round)
      /\ \A q \in round.players : q \in allIn <=> q \in round.allIn
      /\ round.done => pending \in BoardStreets /\ AtMostOne(Live(round))
      /\ choice # "Open" => round.done
      /\ result = NoResult
  BY DEF HandInv, PlayInv, RestInv
<1>2. /\ \A q \in Seats : stack[q] <= table.stack[q] /\ anteBy[q] <= PutIn(stack)[q]
      /\ completedPot + round.potTotal = SumOver(PutIn(stack), Seats)
  BY DEF HandInv, ChipsInv, PotBooks
<1>3. /\ table \in Tables /\ stack \in [Seats -> Nat] /\ folded \in SUBSET Seats
      /\ allIn \in SUBSET Seats /\ completedPot \in Nat /\ street \in Streets
      /\ board \in SUBSET BoardStreets /\ pending \in BoardStreets \cup {NoStreet}
      /\ round \in Round /\ anteBy \in [Seats -> Nat]
  BY <1>1 DEF TypeOK
<1>4. table.stack \in [Seats -> Nat]
  BY <1>3, TableTypes
<1>5. /\ stack' = [stack EXCEPT ![p] = Monus(stack[p], c)]
      /\ folded' = IF p \in t.folded THEN folded \cup {p} ELSE folded \ {p}
      /\ allIn' = IF p \in t.allIn THEN allIn \cup {p} ELSE allIn \ {p}
      /\ Continue(t)
      /\ table' = table /\ anteBy' = anteBy /\ hole' = hole /\ result' = result
      /\ choice' = choice /\ twiceFrom' = twiceFrom /\ secondBoard' = secondBoard
  BY DEF SyncSeat, runout
<1>6. /\ StreetRoundInv(t) /\ t.players = round.players
      /\ t.stack = [round.stack EXCEPT ![p] = round.stack[p] - c]
      /\ t.potTotal = round.potTotal + c
      /\ NotFolded(t) = in /\ in # {}
      /\ Live(t) \subseteq Live(round)
      /\ \A q \in round.players \ {p} : q \in t.allIn <=> q \in round.allIn
  BY DEF RoundMoved
<1>7. Monus(stack[p], c) = stack[p] - c
  BY <1>1, <1>3 DEF Monus
<1>8. /\ stack' = [stack EXCEPT ![p] = stack[p] - c] /\ stack' = t.stack
      /\ stack' \in [Seats -> Nat] /\ \A q \in Seats : stack'[q] <= stack[q]
  BY <1>1, <1>3, <1>5, <1>6, <1>7
<1>9. SumOver(PutIn(stack)', Seats) = SumOver(PutIn(stack), Seats) + c
  <2>1. PICK before, after : before = PutIn(stack) /\ after = PutIn(stack)'
    OBVIOUS
  <2>2. before \in [Seats -> Nat] /\ after \in [Seats -> Nat]
    BY <1>3, <1>4, <1>5, <1>8, <2>1 DEF PutIn, Monus
  <2>3. \A q \in Seats : after[q] = before[q] + (IF q = p THEN c ELSE 0)
    <3> TAKE q \in Seats
    <3>1. /\ before[q] = Monus(table.stack[q], stack[q])
          /\ after[q] = Monus(table.stack[q], stack'[q])
      BY <1>5, <2>1 DEF PutIn
    <3>2. /\ stack[q] \in Nat /\ table.stack[q] \in Nat /\ stack[q] <= table.stack[q]
          /\ stack[p] \in Nat /\ c <= stack[p]
          /\ stack'[q] = IF q = p THEN stack[p] - c ELSE stack[q]
      BY <1>1, <1>2, <1>3, <1>4, <1>8
    <3> QED BY <3>1, <3>2 DEF Monus
  <2>4. after[p] = before[p] + c /\ \A q \in Seats \ {p} : after[q] = before[q]
    BY <2>2, <2>3
  <2>5. SumOver(after, Seats) = SumOver(before, Seats) + c
    BY <2>2, <2>4, SumOverMoves
  <2> QED BY <2>1, <2>5
<1>10. In' = in /\ p \in round.players
  BY <1>1, <1>3, <1>5 DEF In, NotFolded
<1>11. folded' \in SUBSET Seats /\ allIn' \in SUBSET Seats
  BY <1>3, <1>5
<1>12. \A q \in t.players : q \in allIn' <=> q \in t.allIn
  BY <1>1, <1>5, <1>6
<1>13. /\ SumOver(t.contributed, t.players) = t.potTotal /\ t.potTotal \in Nat
       /\ t.allIn = {q \in t.players : t.stack[q] = 0}
       /\ Live(t) = {q \in in : t.stack[q] # 0}
  BY <1>6, RoundChips
<1>14. \A q \in Seats : stack'[q] <= table'.stack[q] /\ anteBy'[q] <= PutIn(stack)'[q]
  <2> TAKE q \in Seats
  <2>1. /\ stack[q] <= table.stack[q] /\ anteBy[q] <= Monus(table.stack[q], stack[q])
        /\ stack[q] \in Nat /\ stack'[q] \in Nat /\ table.stack[q] \in Nat /\ anteBy[q] \in Nat
        /\ stack'[q] <= stack[q]
    BY <1>2, <1>3, <1>4, <1>8 DEF PutIn
  <2>2. PutIn(stack)'[q] = Monus(table.stack[q], stack'[q])
    BY <1>5 DEF PutIn
  <2> QED BY <1>5, <2>1, <2>2 DEF Monus
<1>15. AtMostOne(Live(round)) => AtMostOne(Live(t))
  BY <1>6 DEF AtMostOne
<1>16. CASE t.done
  <2> DEFINE chips == SumOver(t.contributed, t.players)
  <2>1. CloseStreet(chips, street, board, pending)
    BY <1>5, <1>16 DEF Continue
  <2>2. chips \in Nat /\ completedPot + chips = SumOver(PutIn(stack)', Seats)
    <3>1. round.potTotal \in Nat
      BY <1>3 DEF Round
    <3> QED BY <1>2, <1>3, <1>6, <1>9, <1>13, <3>1
  <2>3. SeatsReady
    <3>1. \A q \in In' : q \in allIn' <=> stack'[q] = 0
      <4>1. in \subseteq t.players
        BY <1>6 DEF NotFolded
      <4> QED BY <1>8, <1>10, <1>12, <1>13, <4>1
    <3>2. choice' # "Open" => AtMostOne({q \in In' : stack'[q] # 0})
      <4>1. {q \in In' : stack'[q] # 0} = Live(t)
        BY <1>8, <1>10, <1>13
      <4>2. choice' # "Open" => AtMostOne(Live(t))
        BY <1>1, <1>5, <1>15
      <4> QED BY <4>1, <4>2
    <3> QED BY <1>1, <1>3, <1>5, <1>6, <1>8, <1>10, <1>11, <3>1, <3>2 DEF SeatsReady
  <2>4. BoardReady(street, board, pending)
    <3>1. ~Blind => pending = NoStreet
      BY DEF HandInv, BoardInv
    <3>2. ~Blind \/ table.waits => pending = NoStreet
      BY <3>1 DEF BoardSettled
    <3>3. ~Blind \/ table.waits => board = Dealt(street)
      BY <3>2 DEF HandInv, BoardInv
    <3> QED BY <1>3, <3>1, <3>2, <3>3 DEF BoardReady
  <2>5. StreetClosed(street)
    <3> HIDE DEF chips
    <3> QED BY <1>3, <2>1, <2>2, <2>3, <2>4, CloseKeeps
  <2>6. TypeOK'
    BY <1>1, <1>5, <1>8, <1>11, <2>5 DEF TypeOK, StreetClosed
  <2>7. ChipsInv'
    BY <1>6, <1>10, <1>14, <2>5 DEF ChipsInv, StreetClosed
  <2>8. HandInv'
    BY <2>5, <2>6, <2>7 DEF HandInv, StreetClosed
  <2> QED BY <1>8, <1>10, <2>5, <2>8 DEF StreetClosed, Synced
<1>17. CASE ~t.done
  <2>1. /\ round' = t /\ phase' = phase /\ street' = street /\ completedPot' = completedPot
        /\ board' = board /\ pending' = pending
    BY <1>5, <1>17 DEF Continue
  <2>2. choice' = "Open"
    BY <1>1, <1>5, <1>17
  <2>3. TypeOK'
    BY <1>1, <1>5, <1>6, <1>8, <1>11, <2>1 DEF TypeOK, StreetRoundInv
  <2>4. PlayInv'
    BY <1>6, <1>8, <1>10, <1>12, <1>17, <2>1, <2>2 DEF PlayInv
  <2>5. RestInv'
    BY <1>1, <1>5, <2>1 DEF RestInv
  <2>6. PotBooks'
    <3>1. round.potTotal \in Nat
      BY <1>3 DEF Round
    <3> QED BY <1>2, <1>3, <1>6, <1>9, <2>1, <3>1 DEF PotBooks
  <2>7. ChipsInv'
    BY <1>6, <1>10, <1>14, <2>6 DEF ChipsInv
  <2>8. BoardInv'
    <3>1. Blind' = Blind /\ table'.waits = table.waits
      BY <1>5 DEF Blind
    <3> QED BY <2>1, <3>1 DEF BoardInv, HandInv
  <2>9. HandInv'
    BY <2>3, <2>4, <2>5, <2>7, <2>8 DEF HandInv
  <2> QED BY <1>8, <1>10, <2>1, <2>9 DEF Synced
<1> QED BY <1>16, <1>17


-----------------------------------------------------------------------------
(* A hand moves on.                                                        *)

(* A step of a hand in play uses up some of what is left of it. *)
MovesOn ==
  /\ phase = "Betting" /\ phase' = "Betting" => Less(Remaining', Remaining)
  /\ choice # "Open" => stack' = stack

LEMMA LessHere ==
  ASSUME NEW a1, NEW a2, NEW a3, NEW a4, NEW a5,
         NEW b1, NEW b2, NEW b3, NEW b4, NEW b5,
         \/ a1 < b1
         \/ a1 = b1 /\ a2 < b2
         \/ a1 = b1 /\ a2 = b2 /\ a3 < b3
         \/ a1 = b1 /\ a2 = b2 /\ a3 = b3 /\ a4 < b4
         \/ a1 = b1 /\ a2 = b2 /\ a3 = b3 /\ a4 = b4 /\ a5 < b5
  PROVE  Less(<<a1, a2, a3, a4, a5>>, <<b1, b2, b3, b4, b5>>)
<1> DEFINE a == <<a1, a2, a3, a4, a5>>
           b == <<b1, b2, b3, b4, b5>>
<1>1. /\ DOMAIN a = 1 .. 5
      /\ a[1] = a1 /\ a[2] = a2 /\ a[3] = a3 /\ a[4] = a4 /\ a[5] = a5
      /\ b[1] = b1 /\ b[2] = b2 /\ b[3] = b3 /\ b[4] = b4 /\ b[5] = b5
  OBVIOUS
<1> HIDE DEF a, b
<1>2. \A i \in 1 .. 5 : a[i] < b[i] /\ (\A j \in 1 .. i - 1 : a[j] = b[j]) => Less(a, b)
  BY <1>1 DEF Less
<1>3. CASE a1 < b1
  <2>1. \A j \in 1 .. 1 - 1 : a[j] = b[j]
    OBVIOUS
  <2> QED BY <1>1, <1>2, <1>3, <2>1 DEF a, b
<1>4. CASE a1 = b1 /\ a2 < b2
  <2>1. \A j \in 1 .. 2 - 1 : j = 1
    OBVIOUS
  <2> QED BY <1>1, <1>2, <1>4, <2>1 DEF a, b
<1>5. CASE a1 = b1 /\ a2 = b2 /\ a3 < b3
  <2>1. \A j \in 1 .. 3 - 1 : j = 1 \/ j = 2
    OBVIOUS
  <2> QED BY <1>1, <1>2, <1>5, <2>1 DEF a, b
<1>6. CASE a1 = b1 /\ a2 = b2 /\ a3 = b3 /\ a4 < b4
  <2>1. \A j \in 1 .. 4 - 1 : j = 1 \/ j = 2 \/ j = 3
    OBVIOUS
  <2> QED BY <1>1, <1>2, <1>6, <2>1 DEF a, b
<1>7. CASE a1 = b1 /\ a2 = b2 /\ a3 = b3 /\ a4 = b4 /\ a5 < b5
  <2>1. \A j \in 1 .. 5 - 1 : j = 1 \/ j = 2 \/ j = 3 \/ j = 4
    OBVIOUS
  <2> QED BY <1>1, <1>2, <1>7, <2>1 DEF a, b
<1> QED BY <1>3, <1>4, <1>5, <1>6, <1>7 DEF a, b

\* The streets to come, counted.
LEMMA StreetsToCome ==
  /\ Cardinality(StreetsFrom("Flop")) = 3 /\ Cardinality(StreetsFrom("Turn")) = 2
  /\ Cardinality(StreetsFrom("River")) = 1 /\ Cardinality(StreetsFrom(NoStreet)) = 0
<1>1. Cardinality({}) = 0 /\ IsFiniteSet({})
  BY FS_EmptySet
<1>2. {} \cup {"River"} = {"River"} /\ "River" \notin {}
  OBVIOUS
<1>3. IsFiniteSet({"River"}) /\ Cardinality({"River"}) = 1
  BY <1>1, <1>2, FS_AddElement
<1>4. {"River"} \cup {"Turn"} = {"Turn", "River"} /\ "Turn" \notin {"River"}
  OBVIOUS
<1>5. IsFiniteSet({"Turn", "River"}) /\ Cardinality({"Turn", "River"}) = 2
  BY <1>3, <1>4, FS_AddElement
<1>6. {"Turn", "River"} \cup {"Flop"} = {"Flop", "Turn", "River"} /\ "Flop" \notin {"Turn", "River"}
  OBVIOUS
<1>7. Cardinality({"Flop", "Turn", "River"}) = 3
  BY <1>5, <1>6, FS_AddElement
<1> QED BY <1>1, <1>3, <1>5, <1>7 DEF StreetsFrom, NoStreet

LEMMA NextStreetMovesOn ==
  ASSUME street \in Streets, street # "River", street' = NextStreet(street)
  PROVE  Less(Remaining', Remaining)
<1>1. Cardinality(StreetsFrom(NextStreet(street'))) < Cardinality(StreetsFrom(NextStreet(street)))
  BY StreetsToCome DEF NextStreet, Streets
<1> QED BY <1>1, LessHere DEF Remaining

\* A check, or a call of nothing, uses up one of the responses a street waits for.
LEMMA ResponseUsed ==
  ASSUME NEW r, StreetRoundInv(r), NEW p \in Seats, NEW a \in Action,
         Legal(r, p, a), a.type # "Fold", Commit(r, p, a) = 0
  PROVE  ActionsRemainingAfter(r, p, a) < r.actionsRemaining
<1>1. /\ r \in Round /\ RoundInv(r) /\ Books(r, Brought(r)) /\ r.lastRaise > 0
  BY DEF StreetRoundInv
<1>2. /\ ~r.done /\ p \in r.players /\ p = r.current /\ p \notin r.folded /\ p \notin r.allIn
  BY DEF Legal
<1>3. /\ CountersInv(r) /\ p \in Owing(r)
  BY <1>1, <1>2 DEF RoundInv
<1>4. /\ r.stack[p] \in Nat /\ r.contributed[p] \in Nat /\ r.currentBet \in Nat
      /\ r.lastRaise \in Nat /\ r.actionsRemaining \in Nat /\ a.to \in Nat
      /\ a.type \in ActionTypes /\ r.players \in SUBSET Seats
  BY <1>1 DEF Round, Action
<1>5. r.stack[p] > 0
  BY <1>1, <1>2, <1>4 DEF Books
<1>6. r.contributed[p] = r.currentBet
  <2>1. r.contributed[p] <= r.currentBet
    BY <1>2, <1>3 DEF CountersInv, NotFolded
  <2>2. CASE a.type = "Check"
    BY <1>4, <2>1, <2>2 DEF Legal, ToCall, Monus
  <2>3. CASE a.type = "Call"
    BY <1>4, <1>5, <2>1, <2>3 DEF Commit, ToCall, Monus, Least
  <2>4. CASE a.type = "Raise"
    <3>1. a.to >= MinRaiseTo(r)
      BY <1>4, <1>5, <2>4 DEF Legal, MinRaiseTo
    <3>2. Monus(a.to, r.contributed[p]) = 0
      BY <2>4 DEF Commit
    <3> QED BY <1>1, <1>4, <2>1, <3>1, <3>2 DEF MinRaiseTo, Monus
  <2>5. CASE a.type = "AllIn"
    BY <1>5, <2>5 DEF Commit
  <2> QED BY <1>4, <2>2, <2>3, <2>4, <2>5 DEF ActionTypes
<1>7. p \in Unacted(r)
  BY <1>3, <1>4, <1>6 DEF Owing, OwesResponse, Unacted
<1>8. r.actionsRemaining = Cardinality(Unacted(r)) /\ Cardinality(Unacted(r)) \in Nat
  <2>1. Unacted(r) \in SUBSET Seats
    BY <1>4 DEF Unacted, Live
  <2>2. Cardinality(Unacted(r)) \in Nat
    BY <2>1, FiniteSeats
  <2> QED BY <1>3, <1>4, <1>6, <1>7, <2>2 DEF CountersInv
<1>9. Cardinality(Unacted(r)) # 0
  <2>1. IsFiniteSet(Unacted(r))
    BY <1>4, FiniteSeats DEF Unacted, Live
  <2> QED BY <1>7, <2>1, FS_EmptySet
<1>10. ~IsFullRaise(r, p, a)
  BY <1>1, FullRaiseGrows
<1>11. ActionsRemainingAfter(r, p, a) = Monus(r.actionsRemaining, 1)
  BY <1>10 DEF ActionsRemainingAfter
<1> QED BY <1>4, <1>8, <1>9, <1>11 DEF Monus

\* Chips that left a stack, or a seat that left the pot, are gone for good.
LEMMA ChipsAndSeatsLeft ==
  ASSUME HandInv, NEW p \in Seats, NEW c \in Nat, c <= stack[p],
         stack' = [stack EXCEPT ![p] = stack[p] - c],
         In' = In \/ (p \in In /\ In' = In \ {p})
  PROVE  /\ SumOver(stack, Seats)' + c = SumOver(stack, Seats)
         /\ SumOver(stack, Seats)' \in Nat /\ Cardinality(In)' \in Nat
         /\ Cardinality(In) = IF In' = In THEN Cardinality(In)' ELSE Cardinality(In)' + 1
<1>1. stack \in [Seats -> Nat] /\ stack' \in [Seats -> Nat]
  BY DEF HandInv, TypeOK
<1>2. stack[p] = stack'[p] + c /\ \A q \in Seats \ {p} : stack[q] = stack'[q]
  BY <1>1
<1>3. SumOver(stack, Seats) = SumOver(stack', Seats) + c
  <2>1. PICK before, after : before = stack /\ after = stack'
    OBVIOUS
  <2>2. /\ before \in [Seats -> Nat] /\ after \in [Seats -> Nat]
        /\ before[p] = after[p] + c /\ \A q \in Seats \ {p} : before[q] = after[q]
    BY <1>1, <1>2, <2>1
  <2>3. SumOver(before, Seats) = SumOver(after, Seats) + c
    BY <2>2, SumOverMoves
  <2> QED BY <2>1, <2>3
<1>4. SumOver(stack', Seats) \in Nat
  BY <1>1, SumOverType
<1>5. In \in SUBSET Seats
  BY DEF In
<1>6. IsFiniteSet(In) /\ Cardinality(In) \in Nat
  BY <1>5, FiniteSeats
<1>7. p \in In => Cardinality(In \ {p}) = Cardinality(In) - 1 /\ IsFiniteSet(In \ {p})
  BY <1>6, FS_RemoveElement
<1>8. Cardinality(In \ {p}) \in Nat
  <2>1. In \ {p} \in SUBSET Seats
    BY <1>5
  <2> QED BY <2>1, FiniteSeats
<1>9. CASE In' = In
  BY <1>3, <1>4, <1>6, <1>9
<1>10. CASE In' # In
  <2>1. p \in In /\ In' = In \ {p}
    BY <1>10
  <2>2. Cardinality(In') = Cardinality(In) - 1 /\ Cardinality(In') \in Nat
    BY <1>7, <1>8, <2>1
  <2> QED BY <1>3, <1>4, <1>6, <1>10, <2>2
<1> QED BY <1>9, <1>10

\* Act and Forfeit after the round has moved: what is left shrinks.
LEMMA SyncMovesOn ==
  ASSUME HandInv, phase = "Betting", phase' = "Betting", NEW p \in Seats, NEW c \in Nat,
         NEW t, NEW in, c <= stack[p], Synced(t, p, c, in), in = In \/ (p \in In /\ in = In \ {p}),
         c = 0 /\ in = In => t.actionsRemaining < round.actionsRemaining
  PROVE  Less(Remaining', Remaining)
<1>1. /\ In' = in /\ stack' = [stack EXCEPT ![p] = stack[p] - c]
      /\ \/ street' = street /\ round' = t
         \/ street # "River" /\ street' = NextStreet(street)
      /\ HandInv'
  BY DEF Synced
<1>2. street \in Streets
  BY DEF HandInv, TypeOK
<1>3. CASE street # "River" /\ street' = NextStreet(street)
  BY <1>2, <1>3, NextStreetMovesOn
<1>4. CASE street' = street /\ round' = t
  <2>1. /\ SumOver(stack, Seats)' + c = SumOver(stack, Seats)
        /\ SumOver(stack, Seats)' \in Nat /\ Cardinality(In)' \in Nat
        /\ Cardinality(In) = IF In' = In THEN Cardinality(In)' ELSE Cardinality(In)' + 1
    BY <1>1, ChipsAndSeatsLeft
  <2>2. Cardinality(StreetsFrom(NextStreet(street)))' = Cardinality(StreetsFrom(NextStreet(street)))
    BY <1>4
  <2>3. \/ SumOver(stack, Seats)' + Cardinality(In)' < SumOver(stack, Seats) + Cardinality(In)
        \/ /\ SumOver(stack, Seats)' + Cardinality(In)' = SumOver(stack, Seats) + Cardinality(In)
           /\ round.actionsRemaining' < round.actionsRemaining
    <3>1. CASE c = 0 /\ in = In
      <4>1. SumOver(stack, Seats)' = SumOver(stack, Seats) /\ Cardinality(In)' = Cardinality(In)
        BY <1>1, <2>1, <3>1
      <4> QED BY <1>4, <3>1, <4>1
    <3>2. CASE ~(c = 0 /\ in = In)
      BY <1>1, <2>1, <3>2
    <3> QED BY <3>1, <3>2
  <2> QED BY <2>2, <2>3, LessHere DEF Remaining
<1> QED BY <1>1, <1>3, <1>4

LEMMA ApplyActionKeeps ==
  ASSUME HandInv, NEW p \in Seats, NEW a \in Action, ApplyAction(p, a)
  PROVE  HandInv' /\ MovesOn
<1> DEFINE t == AfterAction(round, p, a)
           c == Commit(round, p, a)
           in == IF a.type = "Fold" THEN NotFolded(round) \ {p} ELSE NotFolded(round)
<1>1. phase = "Betting" /\ BoardSettled /\ Legal(round, p, a) /\ SyncSeat(t, p, c)
  BY DEF ApplyAction
<1>2. /\ StreetRoundInv(round) /\ stack = round.stack /\ In = NotFolded(round)
      /\ choice # "Open" => round.done
  BY <1>1 DEF HandInv, PlayInv
<1>3. ~round.done
  BY <1>1 DEF Legal
<1>4. /\ RoundMoved(t, round, p, c, in)
      /\ c \in Nat /\ c <= round.stack[p]
      /\ p \in NotFolded(round) /\ (p \in t.folded <=> a.type = "Fold")
      /\ t.actionsRemaining = ActionsRemainingAfter(round, p, a)
  BY <1>1, <1>2, ActionOnRound
<1>5. /\ in \in {NotFolded(round), NotFolded(round) \ {p}}
      /\ p \in in <=> p \notin t.folded
  BY <1>4
<1>6. a.type # "Fold" /\ c = 0 => t.actionsRemaining < round.actionsRemaining
  BY <1>1, <1>2, <1>4, ResponseUsed
<1>7. a.type # "Fold" <=> in = In
  BY <1>2, <1>4
<1> HIDE DEF t, c, in
<1>8. Synced(t, p, c, in)
  BY <1>1, <1>3, <1>4, <1>5, SyncKeeps
<1>9. HandInv'
  BY <1>8 DEF Synced
<1>10. phase' = "Betting" => Less(Remaining', Remaining)
  <2> SUFFICES ASSUME phase' = "Betting" PROVE Less(Remaining', Remaining)
    OBVIOUS
  <2>1. c <= stack[p] /\ (in = In \/ (p \in In /\ in = In \ {p}))
    BY <1>2, <1>4, <1>5
  <2>2. c = 0 /\ in = In => t.actionsRemaining < round.actionsRemaining
    BY <1>6, <1>7
  <2> QED BY <1>1, <1>4, <1>8, <2>1, <2>2, SyncMovesOn
<1> QED BY <1>2, <1>3, <1>9, <1>10 DEF MovesOn

LEMMA ForfeitPlayerKeeps ==
  ASSUME HandInv, NEW p \in Seats, ForfeitPlayer(p)
  PROVE  HandInv' /\ MovesOn
<1> DEFINE t == AfterForfeit(round, p)
           in == NotFolded(round) \ {p}
<1>1. phase = "Betting" /\ BoardSettled /\ CanForfeit(round, p) /\ SyncSeat(t, p, 0)
  BY DEF ForfeitPlayer
<1>2. /\ StreetRoundInv(round) /\ stack = round.stack /\ In = NotFolded(round)
      /\ stack \in [Seats -> Nat]
  BY <1>1 DEF HandInv, PlayInv, TypeOK
<1>3. /\ RoundMoved(t, round, p, 0, in) /\ p \in NotFolded(round) /\ p \in t.folded
      /\ round.done => t.done
  BY <1>1, <1>2, ForfeitOnRound
<1>4. /\ in \in {NotFolded(round), NotFolded(round) \ {p}} /\ (p \in in <=> p \notin t.folded)
      /\ 0 <= round.stack[p] /\ 0 \in Nat /\ in # In
  BY <1>2, <1>3
<1> HIDE DEF t, in
<1>5. Synced(t, p, 0, in)
  BY <1>1, <1>3, <1>4, SyncKeeps
<1>6. HandInv' /\ stack' = [stack EXCEPT ![p] = stack[p] - 0]
  BY <1>5 DEF Synced
<1>7. stack' = stack
  BY <1>2, <1>6
<1>8. phase' = "Betting" => Less(Remaining', Remaining)
  <2> SUFFICES ASSUME phase' = "Betting" PROVE Less(Remaining', Remaining)
    OBVIOUS
  <2>1. 0 <= stack[p] /\ p \in In /\ in = In \ {p}
    BY <1>2, <1>3, <1>4 DEF in
  <2> QED BY <1>1, <1>4, <1>5, <2>1, SyncMovesOn
<1> QED BY <1>6, <1>7, <1>8 DEF MovesOn

-----------------------------------------------------------------------------
(* Injections, the runout choice and the settlements.                      *)

LEMMA InjectBoardKeeps ==
  ASSUME HandInv, InjectBoard
  PROVE  HandInv' /\ MovesOn
<1>1. /\ Blind /\ pending \in BoardStreets
      /\ table' = table /\ stack' = stack /\ folded' = folded /\ allIn' = allIn
      /\ anteBy' = anteBy /\ hole' = hole /\ result' = result
      /\ choice' = choice /\ twiceFrom' = twiceFrom /\ secondBoard' = secondBoard
  BY DEF InjectBoard, runout
<1>2. /\ TypeOK /\ PlayInv /\ RestInv /\ ChipsInv /\ BoardInv
  BY DEF HandInv
<1>3. /\ table \in Tables /\ stack \in [Seats -> Nat] /\ completedPot \in Nat
      /\ street \in Streets /\ board \in SUBSET BoardStreets /\ round \in Round
      /\ folded \in SUBSET Seats /\ allIn \in SUBSET Seats
      /\ phase \in {"NotStarted", "Betting", "Done"}
  BY <1>2 DEF TypeOK
<1>4. phase # "NotStarted" /\ pending # NoStreet
  BY <1>1, <1>2 DEF RestInv, BoardStreets, Streets, NoStreet
<1>5. In' = In /\ Blind' = Blind /\ table'.waits = table.waits /\ PutIn(stack)' = PutIn(stack)
  BY <1>1 DEF In, Blind, PutIn
<1>6. board \cup {pending} \in SUBSET BoardStreets
  BY <1>1, <1>3
<1>7. phase = "Betting" /\ table.waits => board \cup {pending} = Dealt(street)
  <2>1. phase = "Betting" /\ table.waits => pending = street /\ board = Dealt(street) \ {street}
    BY <1>2, <1>4 DEF BoardInv
  <2>2. street \in BoardStreets => street \in Dealt(street)
    BY DEF BoardStreets, Streets, Dealt
  <2> QED BY <1>1, <2>1, <2>2
<1>8. CASE round.done
  <2>1. phase = "Betting"
    BY <1>2, <1>8, NoRoundFacts DEF RestInv
  <2>2. /\ StreetRoundInv(round) /\ stack = round.stack /\ In = NotFolded(round)
        /\ \A p \in round.players : p \in allIn <=> p \in round.allIn
        /\ AtMostOne(Live(round)) /\ result = NoResult
    BY <1>2, <1>8, <2>1 DEF PlayInv, RestInv
  <2> DEFINE chips == SumOver(round.contributed, round.players)
  <2>3. CloseStreet(chips, street, board \cup {pending}, NoStreet)
    BY <1>8 DEF InjectBoard
  <2>4. /\ chips = round.potTotal /\ chips \in Nat
        /\ round.allIn = {p \in round.players : round.stack[p] = 0}
        /\ Live(round) = {p \in NotFolded(round) : round.stack[p] # 0}
    BY <2>2, RoundChips
  <2>5. completedPot + chips = SumOver(PutIn(stack)', Seats)
    BY <1>2, <1>5, <2>4 DEF ChipsInv, PotBooks
  <2>6. SeatsReady
    <3>1. \A p \in In' : p \in allIn' <=> stack'[p] = 0
      BY <1>1, <1>5, <2>2, <2>4 DEF NotFolded
    <3>2. {p \in In' : stack'[p] # 0} = Live(round)
      BY <1>1, <1>5, <2>2, <2>4
    <3>3. In' # {}
      BY <1>2, <1>5, <2>2 DEF ChipsInv
    <3> QED BY <1>1, <1>3, <2>2, <3>1, <3>2, <3>3 DEF SeatsReady
  <2>7. BoardReady(street, board \cup {pending}, NoStreet)
    BY <1>1, <1>6, <1>7, <2>1 DEF BoardReady
  <2>8. StreetClosed(street)
    <3> HIDE DEF chips
    <3> QED BY <1>3, <2>3, <2>4, <2>5, <2>6, <2>7, CloseKeeps
  <2>9. TypeOK'
    BY <1>1, <1>2, <2>8 DEF TypeOK, StreetClosed
  <2>10. ChipsInv'
    BY <1>1, <1>2, <1>5, <2>8 DEF ChipsInv, StreetClosed
  <2>11. HandInv'
    BY <2>8, <2>9, <2>10 DEF HandInv, StreetClosed
  <2>12. phase' = "Betting" => Less(Remaining', Remaining)
    BY <1>3, <2>8, NextStreetMovesOn DEF StreetClosed
  <2> QED BY <1>1, <2>11, <2>12 DEF MovesOn
<1>9. CASE ~round.done
  <2>1. /\ board' = board \cup {pending} /\ pending' = NoStreet
        /\ phase' = phase /\ street' = street /\ round' = round /\ completedPot' = completedPot
    BY <1>9 DEF InjectBoard
  <2>2. TypeOK'
    BY <1>1, <1>2, <1>6, <2>1 DEF TypeOK
  <2>3. PlayInv'
    BY <1>1, <1>2, <1>5, <1>9, <2>1 DEF PlayInv
  <2>4. RestInv'
    BY <1>1, <1>2, <1>4, <2>1 DEF RestInv
  <2>5. ChipsInv'
    BY <1>1, <1>2, <1>5, <2>1 DEF ChipsInv, PotBooks
  <2>6. BoardInv'
    <3>1. table.waits => phase = "Betting"
      BY <1>2, <1>3, <1>4 DEF BoardInv
    <3> QED BY <1>1, <1>5, <1>7, <2>1, <3>1 DEF BoardInv
  <2>7. Less(Remaining', Remaining)
    <3>1. /\ Cardinality(StreetsFrom(NextStreet(street)))' = Cardinality(StreetsFrom(NextStreet(street)))
          /\ (SumOver(stack, Seats) + Cardinality(In))' = SumOver(stack, Seats) + Cardinality(In)
          /\ round.actionsRemaining' = round.actionsRemaining
      BY <1>1, <1>5, <2>1
    <3>2. (IF pending = NoStreet THEN 0 ELSE 1)' < (IF pending = NoStreet THEN 0 ELSE 1)
      BY <1>4, <2>1
    <3> QED BY <3>1, <3>2, LessHere DEF Remaining
  <2> QED BY <1>1, <2>2, <2>3, <2>4, <2>5, <2>6, <2>7 DEF HandInv, MovesOn
<1> QED BY <1>8, <1>9

LEMMA ChooseRunoutKeeps ==
  ASSUME HandInv, NEW twice \in BOOLEAN, ChooseRunout(twice)
  PROVE  HandInv' /\ MovesOn
<1>1. /\ choice = "Open" /\ round.done /\ pending \in BoardStreets
      /\ choice' = IF twice THEN "Twice" ELSE "Once"
      /\ twiceFrom' = IF twice THEN pending ELSE twiceFrom
      /\ UNCHANGED <<table, phase, street, round, stack, folded, allIn, completedPot>>
      /\ UNCHANGED <<anteBy, board, pending, hole, secondBoard, result>>
  BY DEF ChooseRunout, RunoutOpen, betting
<1>2. /\ TypeOK /\ PlayInv /\ RestInv /\ ChipsInv /\ BoardInv
  BY DEF HandInv
<1>3. phase = "Betting"
  BY <1>1, <1>2, NoRoundFacts DEF RestInv
<1>4. In' = In /\ Blind' = Blind /\ PutIn(stack)' = PutIn(stack)
  BY <1>1 DEF In, Blind, PutIn
<1>5. TypeOK'
  BY <1>1, <1>2 DEF TypeOK
<1>6. PlayInv'
  BY <1>1, <1>2, <1>4 DEF PlayInv
<1>7. RestInv'
  BY <1>1, <1>2, <1>3 DEF RestInv
<1>8. ChipsInv'
  BY <1>1, <1>2, <1>4 DEF ChipsInv, PotBooks
<1>9. BoardInv'
  BY <1>1, <1>2, <1>4 DEF BoardInv
<1>10. Less(Remaining', Remaining)
  <2>1. /\ Cardinality(StreetsFrom(NextStreet(street)))' = Cardinality(StreetsFrom(NextStreet(street)))
        /\ (SumOver(stack, Seats) + Cardinality(In))' = SumOver(stack, Seats) + Cardinality(In)
        /\ round.actionsRemaining' = round.actionsRemaining
        /\ (IF pending = NoStreet THEN 0 ELSE 1)' = (IF pending = NoStreet THEN 0 ELSE 1)
    BY <1>1, <1>4
  <2>2. (IF choice = "Open" THEN 1 ELSE 0)' < (IF choice = "Open" THEN 1 ELSE 0)
    BY <1>1
  <2> QED BY <2>1, <2>2, LessHere DEF Remaining
<1> QED BY <1>1, <1>5, <1>6, <1>7, <1>8, <1>9, <1>10 DEF HandInv, MovesOn

(* Steps that leave the betting of a hand that is over alone. *)
BettingOver ==
  /\ phase = "Done"
  /\ UNCHANGED <<table, phase, street, round, stack, folded, allIn, completedPot>>
  /\ UNCHANGED <<anteBy, board, pending>>
  /\ hole' \in [Seats -> {"Empty", "Plain", "Opaque", "Revealed"}]
  /\ choice' \in {"Open", "Once", "Twice"}
  /\ twiceFrom' \in BoardStreets \cup {NoStreet} /\ secondBoard' \in BOOLEAN
  /\ result' = result \/ (result.kind = "None" /\ result' # NoResult)

LEMMA BettingOverKeeps ==
  ASSUME HandInv, BettingOver
  PROVE  HandInv' /\ MovesOn
<1>1. /\ TypeOK /\ PlayInv /\ RestInv /\ ChipsInv /\ BoardInv
  BY DEF HandInv
<1>2. In' = In /\ Blind' = Blind /\ PutIn(stack)' = PutIn(stack)
  BY DEF In, Blind, PutIn, BettingOver
<1>3. TypeOK'
  BY <1>1 DEF TypeOK, BettingOver
<1>4. PlayInv'
  BY DEF PlayInv, BettingOver
<1>5. RestInv'
  BY <1>1 DEF RestInv, BettingOver
<1>6. ChipsInv'
  BY <1>1, <1>2 DEF ChipsInv, PotBooks, BettingOver
<1>7. BoardInv'
  BY <1>1, <1>2 DEF BoardInv, BettingOver
<1> QED BY <1>3, <1>4, <1>5, <1>6, <1>7 DEF HandInv, MovesOn, BettingOver

LEMMA SecondRunKeeps ==
  ASSUME HandInv, InjectSecondRun
  PROVE  HandInv' /\ MovesOn
<1>1. TypeOK
  BY DEF HandInv
<1>2. BettingOver
  BY <1>1 DEF InjectSecondRun, BettingOver, betting, TypeOK
<1> QED BY <1>2, BettingOverKeeps

LEMMA RestoreKeeps ==
  ASSUME HandInv, NEW from \in BoardStreets, RestoreRunTwice(from)
  PROVE  HandInv' /\ MovesOn
<1>1. TypeOK
  BY DEF HandInv
<1>2. BettingOver
  BY <1>1 DEF RestoreRunTwice, BettingOver, betting, TypeOK
<1> QED BY <1>2, BettingOverKeeps

LEMMA RevealKeeps ==
  ASSUME HandInv, NEW p \in Seats, InjectShowdownReveal(p)
  PROVE  HandInv' /\ MovesOn
<1>1. TypeOK
  BY DEF HandInv
<1>2. hole' \in [Seats -> {"Empty", "Plain", "Opaque", "Revealed"}]
  BY <1>1 DEF InjectShowdownReveal, TypeOK
<1>3. BettingOver
  BY <1>1, <1>2 DEF InjectShowdownReveal, BettingOver, betting, runout, TypeOK
<1> QED BY <1>3, BettingOverKeeps

\* A settlement always leaves a result.
LEMMA SettleResult ==
  ASSUME NEW kind \in {"Showdown", "Uncontested", "ForfeitBoard"}, NEW pots, NEW awards,
         NEW absorbed, Settle(kind, pots, awards, absorbed)
  PROVE  result' # NoResult /\ result'.kind \in {kind, "Panic"}
<1>1. result'.kind \in {kind, "Panic"}
  BY DEF Settle
<1>2. NoResult.kind = "None"
  BY DEF NoResult
<1> QED BY <1>1, <1>2

LEMMA ShowdownResult ==
  ASSUME NEW S, NEW forfeiters, SettleShowdown(S, forfeiters)
  PROVE  result' # NoResult
BY SettleResult DEF SettleShowdown

LEMMA UncontestedResult ==
  ASSUME SettleUncontested
  PROVE  result' # NoResult
BY SettleResult DEF SettleUncontested

LEMMA FinishKeeps ==
  ASSUME HandInv, Finish \/ FinishBlind \/ FinishBlindWithForfeits
  PROVE  HandInv' /\ MovesOn
<1>1. TypeOK
  BY DEF HandInv
<1>2. /\ result.kind = "None" /\ phase = "Done"
      /\ UNCHANGED <<table, phase, street, round, stack, folded, allIn, completedPot>>
      /\ UNCHANGED <<anteBy, board, pending, hole, choice, twiceFrom, secondBoard>>
  BY DEF Finish, FinishBlind, FinishBlindWithForfeits, Unsettled, betting, runout
<1>3. result' # NoResult
  BY ShowdownResult, UncontestedResult DEF Finish, FinishBlind, FinishBlindWithForfeits
<1>4. BettingOver
  BY <1>1, <1>2, <1>3 DEF BettingOver, TypeOK
<1> QED BY <1>4, BettingOverKeeps

\* The chips a settlement absorbs, wherever the hand was.
LEMMA AbsorbedIsPutIn ==
  ASSUME HandInv
  PROVE  /\ completedPot + SumOver(round.contributed, round.players) \in Nat
         /\ completedPot + SumOver(round.contributed, round.players) = SumOver(PutIn(stack), Seats)
<1>1. /\ completedPot \in Nat /\ completedPot + round.potTotal = SumOver(PutIn(stack), Seats)
  BY DEF HandInv, TypeOK, ChipsInv, PotBooks
<1>2. SumOver(round.contributed, round.players) = round.potTotal /\ round.potTotal \in Nat
  <2>1. CASE phase = "Betting"
    <3>1. StreetRoundInv(round)
      BY <2>1 DEF HandInv, PlayInv
    <3> QED BY <3>1, RoundChips
  <2>2. CASE phase # "Betting"
    <3>1. round = NoRound
      BY <2>2 DEF HandInv, RestInv
    <3>2. Zero \in [Seats -> Nat]
      BY DEF Zero
    <3>3. SumOver(Zero, {}) = 0
      BY <3>2, SumOverNobody
    <3> QED BY <3>1, <3>3, NoRoundFacts
  <2> QED BY <2>1, <2>2
<1> QED BY <1>1, <1>2

LEMMA WithholdKeeps ==
  ASSUME HandInv, NEW W \in SUBSET In, FinishBlindForfeitBoard(W)
  PROVE  HandInv' /\ MovesOn
<1>1. /\ TypeOK /\ PlayInv /\ RestInv /\ ChipsInv /\ BoardInv
  BY DEF HandInv
<1>2. /\ Blind /\ result.kind = "None"
      /\ completedPot' = completedPot + SumOver(round.contributed, round.players)
      /\ folded' = folded \cup W /\ allIn' = allIn \ W
      /\ phase' = "Done" /\ round' = NoRound /\ pending' = NoStreet
      /\ UNCHANGED <<table, street, stack, anteBy, board, hole, choice, twiceFrom, secondBoard>>
  BY DEF FinishBlindForfeitBoard, Unsettled, runout
<1>3. result' # NoResult /\ result'.kind \in {"NoSurvivor", "ForfeitBoard", "Panic"}
  <2>1. CASE In \ W = {}
    <3>1. result' = [kind |-> "NoSurvivor", awards |-> Zero]
      BY <2>1 DEF FinishBlindForfeitBoard
    <3>2. result'.kind = "NoSurvivor" /\ NoResult.kind = "None"
      BY <3>1 DEF NoResult
    <3> QED BY <3>2
  <2>2. CASE In \ W # {}
    <3>1. \E pots, awards, absorbed : Settle("ForfeitBoard", pots, awards, absorbed)
      BY <2>2 DEF FinishBlindForfeitBoard
    <3> QED BY <3>1, SettleResult
  <2> QED BY <2>1, <2>2
<1>4. /\ completedPot' \in Nat /\ completedPot' = SumOver(PutIn(stack), Seats)
  BY <1>2, AbsorbedIsPutIn
<1>5. PutIn(stack)' = PutIn(stack) /\ Blind' = Blind
  BY <1>2 DEF PutIn, Blind
<1>6. TypeOK'
  BY <1>1, <1>2, <1>4, NoRoundFacts DEF TypeOK, In
<1>7. PlayInv' /\ RestInv'
  BY <1>2 DEF PlayInv, RestInv
<1>8. ChipsInv'
  BY <1>1, <1>2, <1>3, <1>4, <1>5, NoRoundFacts DEF ChipsInv, PotBooks
<1>9. BoardInv'
  <2>1. table.waits => \E s \in Streets : board = Dealt(s)
    <3> SUFFICES ASSUME table.waits PROVE \E s \in Streets : board = Dealt(s)
      OBVIOUS
    <3>1. CASE phase = "NotStarted"
      <4>1. board = Dealt("Preflop") /\ "Preflop" \in Streets
        BY <1>1, <3>1 DEF RestInv, Dealt, Streets
      <4> QED BY <4>1
    <3>2. CASE phase = "Done"
      BY <1>1, <3>2 DEF BoardInv
    <3>3. CASE phase = "Betting" /\ pending = NoStreet
      BY <1>1, <3>3 DEF BoardInv, TypeOK
    <3>4. CASE phase = "Betting" /\ pending # NoStreet
      <4>1. street \in BoardStreets /\ board = Dealt(street) \ {street}
        BY <1>1, <3>4 DEF BoardInv, TypeOK
      <4>2. PICK s \in Streets : s # "River" /\ street = NextStreet(s)
        BY <4>1 DEF BoardStreets, Streets, NextStreet
      <4>3. board = Dealt(s)
        BY <4>1, <4>2, StreetOrder
      <4> QED BY <4>3
    <3> QED BY <1>1, <3>1, <3>2, <3>3, <3>4 DEF TypeOK
  <2> QED BY <1>2, <1>3, <1>5, <2>1 DEF BoardInv
<1> QED BY <1>2, <1>6, <1>7, <1>8, <1>9 DEF HandInv, MovesOn

-----------------------------------------------------------------------------
(* The theorems.                                                           *)

LEMMA HandStep == HandInv /\ [Next]_vars => HandInv' /\ (MovesOn \/ vars' = vars)
<1> SUFFICES ASSUME HandInv, [Next]_vars
             PROVE  HandInv' /\ (MovesOn \/ vars' = vars)
  OBVIOUS
<1>1. CASE Start
  <2>1. phase = "NotStarted"
    BY <1>1 DEF Start, StartBombPot, StartBlinds, MayStart
  <2>2. choice = "Open"
    BY <2>1, BeforeStart
  <2>3. HandInv'
    BY <1>1, StartBombPotKeeps, StartBlindsKeeps DEF Start
  <2> QED BY <2>1, <2>2, <2>3 DEF MovesOn
<1>2. CASE Act
  <2>1. PICK p \in Seats, type \in ActionTypes, to \in 0 .. SumOver(table.stack, Seats) :
               ApplyAction(p, [type |-> type, to |-> to])
    BY <1>2 DEF Act
  <2>2. SumOver(table.stack, Seats) \in Nat
    BY TableTypes, SumOverType DEF HandInv, TypeOK
  <2>3. [type |-> type, to |-> to] \in Action
    BY <2>2 DEF Action
  <2> QED BY <2>1, <2>3, ApplyActionKeeps
<1>3. CASE Forfeit
  BY <1>3, ForfeitPlayerKeeps DEF Forfeit
<1>4. CASE InjectBoard
  BY <1>4, InjectBoardKeeps
<1>5. CASE Runout
  BY <1>5, ChooseRunoutKeeps DEF Runout
<1>6. CASE InjectSecondRun
  BY <1>6, SecondRunKeeps
<1>7. CASE Restore
  BY <1>7, RestoreKeeps DEF Restore
<1>8. CASE Reveal
  BY <1>8, RevealKeeps DEF Reveal
<1>9. CASE Finish \/ FinishBlind \/ FinishBlindWithForfeits
  BY <1>9, FinishKeeps
<1>10. CASE WithholdBoard
  BY <1>10, WithholdKeeps DEF WithholdBoard
<1>11. CASE UNCHANGED vars
  <2>1. /\ UNCHANGED <<table, phase, street, round, stack, folded, allIn, completedPot>>
        /\ UNCHANGED <<anteBy, board, pending, hole, choice, twiceFrom, secondBoard, result>>
    BY <1>11 DEF vars, betting, runout
  <2>2. In' = In /\ Blind' = Blind /\ PutIn(stack)' = PutIn(stack)
    BY <2>1 DEF In, Blind, PutIn
  <2>3. TypeOK'
    BY <2>1 DEF HandInv, TypeOK
  <2>4. PlayInv'
    BY <2>1, <2>2 DEF HandInv, PlayInv
  <2>5. RestInv' /\ BoardInv'
    BY <2>1, <2>2 DEF HandInv, RestInv, BoardInv
  <2>6. ChipsInv'
    BY <2>1, <2>2 DEF HandInv, ChipsInv, PotBooks
  <2> QED BY <1>11, <2>3, <2>4, <2>5, <2>6 DEF HandInv
<1> QED BY <1>1, <1>2, <1>3, <1>4, <1>5, <1>6, <1>7, <1>8, <1>9, <1>10, <1>11 DEF Next

\* HandInv is an inductive invariant of the hand: the seats' copies, the pot, the
\* board and the pending street follow the betting rounds of GameHand.
THEOREM HandInvariant == Spec => []HandInv
<1>1. Init => HandInv
  BY HandInit
<1>2. HandInv /\ [Next]_vars => HandInv'
  BY HandStep
<1> QED BY <1>1, <1>2, PTL DEF Spec

\* Every field of the hand keeps its type, at every table.
THEOREM HandTypeOK == Spec => []TypeOK
<1>1. HandInv => TypeOK
  BY DEF HandInv
<1> QED BY <1>1, HandInvariant, PTL

LEMMA BooksOfInv == HandInv => HandBooks /\ NoStuckHand
<1> SUFFICES ASSUME HandInv PROVE HandBooks /\ NoStuckHand
  OBVIOUS
<1>1. PotBooks /\ PlayInv /\ (phase # "Betting" => round = NoRound) /\ folded \in SUBSET Seats
  BY DEF HandInv, ChipsInv, RestInv, TypeOK
<1>2. CASE phase = "Betting"
  <2>1. /\ StreetRoundInv(round) /\ stack = round.stack /\ In = NotFolded(round)
        /\ \A p \in round.players : p \in allIn <=> p \in round.allIn
        /\ round.done => pending \in BoardStreets
    BY <1>1, <1>2 DEF PlayInv
  <2>2. round.players # {} /\ round \in Round
    BY <2>1 DEF StreetRoundInv
  <2>3. round # NoRound
    BY <2>2, NoRoundFacts
  <2>4. \A p \in Seats : p \in folded <=> p \notin round.players \/ p \in round.folded
    BY <1>1, <2>1 DEF In, NotFolded
  <2>5. SeatsMatchRound
    BY <2>1, <2>4 DEF SeatsMatchRound
  <2> QED BY <1>1, <2>1, <2>3, <2>5 DEF HandBooks, NoStuckHand
<1>3. CASE phase # "Betting"
  BY <1>1, <1>3 DEF HandBooks, SeatsMatchRound, NoStuckHand
<1> QED BY <1>2, <1>3

\* The seats' copies of stack, folded and all-in never drift from the round they
\* were copied from, and completed_pot plus the open round is what was put in.
THEOREM HandBooksHold == Spec => []HandBooks
<1>1. HandInv => HandBooks
  BY BooksOfInv
<1> QED BY <1>1, HandInvariant, PTL

\* A hand in play has a seat to act or awaits a board whose injection moves it on.
THEOREM HandNeverStuck == Spec => []NoStuckHand
<1>1. HandInv => NoStuckHand
  BY BooksOfInv
<1> QED BY <1>1, HandInvariant, PTL

LEMMA DealtInOrder ==
  ASSUME NEW x \in Streets
  PROVE  \A s \in Dealt(x) : \A t \in BoardStreets : s \in StreetsFrom(t) => t \in Dealt(x)
BY DEF Dealt, BoardStreets, Streets, StreetsFrom

LEMMA BoardOfInv == HandInv => BoardIsProgressive
<1> SUFFICES ASSUME HandInv, table.waits
             PROVE  /\ \A s \in board : \A t \in BoardStreets : s \in StreetsFrom(t) => t \in board
                    /\ result.kind = "Showdown" /\ Cardinality(In) >= 2 => board = BoardStreets
  BY DEF BoardIsProgressive
<1>1. TypeOK /\ RestInv /\ BoardInv
  BY DEF HandInv
<1>2. \E x \in Streets : board = Dealt(x)
  <2>1. CASE phase = "NotStarted"
    <3>1. board = Dealt("Preflop") /\ "Preflop" \in Streets
      BY <1>1, <2>1 DEF RestInv, Dealt, Streets
    <3> QED BY <3>1
  <2>2. CASE phase = "Done"
    BY <1>1, <2>2 DEF BoardInv
  <2>3. CASE phase = "Betting" /\ pending = NoStreet
    BY <1>1, <2>3 DEF BoardInv, TypeOK
  <2>4. CASE phase = "Betting" /\ pending # NoStreet
    <3>1. street \in BoardStreets /\ board = Dealt(street) \ {street}
      BY <1>1, <2>4 DEF BoardInv, TypeOK
    <3>2. PICK s \in Streets : s # "River" /\ street = NextStreet(s)
      BY <3>1 DEF BoardStreets, Streets, NextStreet
    <3>3. board = Dealt(s)
      BY <3>1, <3>2, StreetOrder
    <3> QED BY <3>3
  <2> QED BY <1>1, <2>1, <2>2, <2>3, <2>4 DEF TypeOK
<1>3. result.kind = "Showdown" => phase = "Done"
  BY <1>1 DEF RestInv, NoResult
<1> QED BY <1>1, <1>2, <1>3, DealtInOrder DEF BoardInv

\* The board is revealed flop, turn, river, and a contested hand is ranked on all
\* of it, at every table whose caller lets nobody act on a pending board.
THEOREM HandBoardProgressive == Spec => []BoardIsProgressive
<1>1. HandInv => BoardIsProgressive
  BY BoardOfInv
<1> QED BY <1>1, HandInvariant, PTL

\* Every step of a hand in play uses up some of what is left of it, and once the
\* runout choice is recorded no chip moves: no hand of GameHand goes on for ever.
THEOREM HandMovesForward == Spec => HandMovesOn
<1>1. HandInv /\ [Next]_vars =>
        [/\ phase = "Betting" /\ phase' = "Betting" => Less(Remaining', Remaining)
         /\ choice # "Open" => stack' = stack]_vars
  BY HandStep DEF MovesOn
<1> QED BY <1>1, HandInvariant, PTL DEF Spec, HandMovesOn

-----------------------------------------------------------------------------
(* The settlement's own assertions.                                        *)

(* The hand is unsettled, or a settlement balanced. *)
SettledInv == NeverPanics /\ (result.kind = "None" => result = NoResult)

\* The pots of a hand hold what its seats put in.
LEMMA HandPotsHoldAll ==
  ASSUME HandInv, In # {}
  PROVE  /\ GoodPots(HandPots(In))
         /\ PotTotal(HandPots(In)) = SumOver(PutIn(stack), Seats)
<1>1. /\ stack \in [Seats -> Nat] /\ anteBy \in [Seats -> Nat] /\ table.stack \in [Seats -> Nat]
      /\ \A p \in Seats : anteBy[p] <= PutIn(stack)[p]
  BY TableTypes DEF HandInv, TypeOK, ChipsInv
<1>2. In \in SUBSET Seats
  BY DEF In
<1>3. PICK put, live : put = PutIn(stack) /\ live = Contribution
  OBVIOUS
<1>4. put \in [Seats -> Nat]
  BY <1>1, <1>3 DEF PutIn, Monus
<1>5. live = [p \in Seats |-> Monus(put[p], anteBy[p])]
  BY <1>3 DEF Contribution
<1>6. live \in [Seats -> Nat] /\ \A p \in Seats : put[p] = live[p] + anteBy[p]
  BY <1>1, <1>3, <1>4, <1>5 DEF Monus
<1>7. SumOver(put, Seats) = SumOver(live, Seats) + SumOver(anteBy, Seats)
  BY <1>1, <1>4, <1>6, SumOverAdds
<1>8. SumOver(anteBy, Seats) \in Nat
  BY <1>1, SumOverType
<1>9. HandPots(In) = SidePots(live, In, SumOver(anteBy, Seats))
  BY <1>3 DEF HandPots, AntePosted
<1>10. /\ GoodPots(SidePots(live, In, SumOver(anteBy, Seats)))
       /\ PotTotal(SidePots(live, In, SumOver(anteBy, Seats))) = SumOver(live, Seats) + SumOver(anteBy, Seats)
  BY <1>2, <1>6, <1>8, SidePotsHoldAll
<1> QED BY <1>3, <1>7, <1>9, <1>10

\* A settlement that balances keeps its kind.
LEMMA BalancedSettles ==
  ASSUME NEW kind \in {"Showdown", "Uncontested", "ForfeitBoard"}, NEW pots, NEW awards,
         NEW absorbed, Settle(kind, pots, awards, absorbed),
         absorbed = SumOver(PutIn(stack), Seats),
         PotTotal(pots) = SumOver(PutIn(stack), Seats),
         SumOver(awards, Seats) = PotTotal(pots)
  PROVE  SettledInv'
<1>1. Balanced(pots, awards, absorbed)
  BY DEF Balanced
<1>2. result'.kind = kind
  BY <1>1 DEF Settle
<1> QED BY <1>2 DEF SettledInv, NeverPanics

LEMMA ShowdownBalances ==
  ASSUME HandInv, In # {}, phase = "Done", NEW S \in SUBSET Seats,
         NEW forfeiters \in SUBSET Seats, SettleShowdown(S, forfeiters)
  PROVE  SettledInv'
<1> DEFINE pots == HandPots(In)
           put == SumOver(PutIn(stack), Seats)
<1>1. GoodPots(pots) /\ PotTotal(pots) = put
  BY HandPotsHoldAll
<1>2. completedPot = put
  BY NoRoundFacts DEF HandInv, RestInv, ChipsInv, PotBooks, TypeOK
<1>3. table.dealer \in Seats
  BY TableTypes DEF HandInv, TypeOK
<1>4. PICK rank \in Ranks(S), rank2 \in Ranks(IF secondBoard THEN S ELSE {}) :
        Settle("Showdown", pots,
               IF twiceFrom # NoStreet /\ secondBoard
                 THEN TwoRunAwards(pots, S, rank, rank2, forfeiters, table.dealer)
                 ELSE ShowdownAwards(pots, S, rank, forfeiters, table.dealer),
               completedPot)
  BY DEF SettleShowdown
<1>5. rank \in [Seats -> 1 .. N] /\ rank2 \in [Seats -> 1 .. N]
  BY DEF Ranks
<1> HIDE DEF pots, put
<1>6. SumOver(TwoRunAwards(pots, S, rank, rank2, forfeiters, table.dealer), Seats) = PotTotal(pots)
  BY <1>1, <1>3, <1>5, TwoRunsPayAll
<1>7. SumOver(ShowdownAwards(pots, S, rank, forfeiters, table.dealer), Seats) = PotTotal(pots)
  BY <1>1, <1>3, <1>5, ShowdownPaysAll DEF GoodPots
<1>8. PICK awards : Settle("Showdown", pots, awards, completedPot) /\ SumOver(awards, Seats) = PotTotal(pots)
  BY <1>4, <1>6, <1>7
<1> QED BY <1>1, <1>2, <1>8, BalancedSettles DEF put

LEMMA UncontestedBalances ==
  ASSUME HandInv, In # {}, phase = "Done", SettleUncontested
  PROVE  SettledInv'
<1> DEFINE pots == HandPots(In)
           awards == UncontestedAwards(pots, In, table.dealer)
<1>1. GoodPots(pots) /\ PotTotal(pots) = SumOver(PutIn(stack), Seats)
  BY HandPotsHoldAll
<1>2. completedPot = SumOver(PutIn(stack), Seats)
  BY NoRoundFacts DEF HandInv, RestInv, ChipsInv, PotBooks, TypeOK
<1>3. table.dealer \in Seats /\ In \in (SUBSET Seats) \ {{}}
  BY TableTypes DEF HandInv, TypeOK, In
<1>4. Settle("Uncontested", pots, awards, completedPot)
  BY DEF SettleUncontested
<1> HIDE DEF pots
<1>5. SumOver(awards, Seats) = PotTotal(pots)
  BY <1>1, <1>3, OthersPayAll DEF GoodPots
<1> HIDE DEF awards
<1> QED BY <1>1, <1>2, <1>4, <1>5, BalancedSettles

LEMMA FinishBalances ==
  ASSUME HandInv, SettledInv, Finish \/ FinishBlind \/ FinishBlindWithForfeits
  PROVE  SettledInv'
<1>1. result.kind = "None" /\ phase = "Done"
  BY DEF Finish, FinishBlind, FinishBlindWithForfeits, Unsettled
<1>2. In # {} /\ In \in SUBSET Seats
  BY <1>1 DEF SettledInv, HandInv, ChipsInv, In
<1>3. CASE Finish
  <2>1. SettleShowdown({p \in In : hole[p] = "Plain"}, {})
    BY <1>3 DEF Finish
  <2>2. {p \in In : hole[p] = "Plain"} \in SUBSET Seats /\ {} \in SUBSET Seats
    BY <1>2
  <2> QED BY <1>1, <1>2, <2>1, <2>2, ShowdownBalances
<1>4. CASE FinishBlind
  <2>1. SettleUncontested \/ SettleShowdown(In, {})
    BY <1>4 DEF FinishBlind
  <2>2. {} \in SUBSET Seats
    OBVIOUS
  <2> QED BY <1>1, <1>2, <2>1, <2>2, ShowdownBalances, UncontestedBalances
<1>5. CASE FinishBlindWithForfeits
  <2> DEFINE S == {p \in In : hole[p] = "Revealed"}
  <2>1. SettleUncontested \/ SettleShowdown(S, In \ S)
    BY <1>5 DEF FinishBlindWithForfeits
  <2>2. S \in SUBSET Seats /\ In \ S \in SUBSET Seats
    BY <1>2
  <2> HIDE DEF S
  <2> QED BY <1>1, <1>2, <2>1, <2>2, ShowdownBalances, UncontestedBalances
<1> QED BY <1>3, <1>4, <1>5

LEMMA WithholdBalances ==
  ASSUME HandInv, SettledInv, NEW W \in SUBSET In, FinishBlindForfeitBoard(W)
  PROVE  SettledInv'
<1> DEFINE pots == HandPots(In)
           absorbed == completedPot + SumOver(round.contributed, round.players)
           awards == SurvivorAwards(pots, In \ W, table.dealer)
<1>1. result.kind = "None"
  BY DEF FinishBlindForfeitBoard, Unsettled
<1>2. In # {} /\ In \in SUBSET Seats
  BY <1>1 DEF SettledInv, HandInv, ChipsInv, In
<1>3. CASE In \ W = {}
  <2>1. result' = [kind |-> "NoSurvivor", awards |-> Zero]
    BY <1>3 DEF FinishBlindForfeitBoard
  <2>2. result'.kind = "NoSurvivor"
    BY <2>1
  <2> QED BY <2>2 DEF SettledInv, NeverPanics
<1>4. CASE In \ W # {}
  <2>1. Settle("ForfeitBoard", pots, awards, absorbed)
    BY <1>4 DEF FinishBlindForfeitBoard
  <2>2. GoodPots(pots) /\ PotTotal(pots) = SumOver(PutIn(stack), Seats)
    BY <1>2, HandPotsHoldAll
  <2>3. absorbed = SumOver(PutIn(stack), Seats)
    BY AbsorbedIsPutIn
  <2>4. table.dealer \in Seats /\ In \ W \in (SUBSET Seats) \ {{}}
    BY <1>2, <1>4, TableTypes DEF HandInv, TypeOK
  <2> HIDE DEF pots, absorbed
  <2>5. SumOver(awards, Seats) = PotTotal(pots)
    BY <2>2, <2>4, OthersPayAll DEF GoodPots
  <2> HIDE DEF awards
  <2> QED BY <2>1, <2>2, <2>3, <2>5, BalancedSettles
<1> QED BY <1>3, <1>4

LEMMA SettledStep == HandInv /\ SettledInv /\ [Next]_vars => SettledInv'
<1> SUFFICES ASSUME HandInv, SettledInv, [Next]_vars PROVE SettledInv'
  OBVIOUS
<1>1. CASE result' = result
  BY <1>1 DEF SettledInv, NeverPanics
<1>2. CASE Finish \/ FinishBlind \/ FinishBlindWithForfeits
  BY <1>2, FinishBalances
<1>3. CASE WithholdBoard
  BY <1>3, WithholdBalances DEF WithholdBoard
<1>4. Start => result' = result
  BY DEF Start, StartBombPot, StartBlinds
<1>5. Act \/ Forfeit => result' = result
  BY DEF Act, Forfeit, ApplyAction, ForfeitPlayer, SyncSeat
<1>6. InjectBoard \/ Runout \/ InjectSecondRun \/ Restore \/ Reveal => result' = result
  BY DEF InjectBoard, Runout, ChooseRunout, InjectSecondRun, Restore, RestoreRunTwice, Reveal,
         InjectShowdownReveal
<1>7. UNCHANGED vars => result' = result
  BY DEF vars
<1> QED BY <1>1, <1>2, <1>3, <1>4, <1>5, <1>6, <1>7 DEF Next

\* The assertions of finalize_pots_with_show_order never fire: at every table, on
\* every path to a settlement, one run or two, the pots and the awards are
\* exactly the chips the seats put in.
THEOREM HandNeverPanics == Spec => []NeverPanics
<1>1. Init => SettledInv
  BY DEF Init, SettledInv, NeverPanics, NoResult
<1>2. HandInv /\ SettledInv /\ [Next]_vars => SettledInv'
  BY SettledStep
<1>3. SettledInv => NeverPanics
  BY DEF SettledInv
<1> QED BY <1>1, <1>2, <1>3, HandInvariant, PTL DEF Spec

-----------------------------------------------------------------------------
(* Part 5. The settlement of any hand (Settlement): pots layer by layer, what
   goes back to whom, and what every path pays a seat pot by pot. *)

-----------------------------------------------------------------------------
(* Pots, layer by layer.                                                   *)

(* The seats whose money reaches a level. *)
Payers(c, l) == {p \in Seats : c[p] >= l}

(* Money that P paid goes back to them. *)
Returned(P, in) == P \cap in = {} \/ \E p \in in : P = {p}

\* A layer goes back to those who reached it when none of them is still in, or
\* only one seat reached it.
LEMMA LayerShape ==
  ASSUME NEW c \in [Seats -> Nat], NEW in \in SUBSET Seats, NEW l \in Levels(c)
  PROVE  /\ Payers(c, l) \in (SUBSET Seats) \ {{}}
         /\ Layer(c, in, l).eligible = Payers(c, l) \cap in
         /\ Returned(Payers(c, l), in) => Layer(c, in, l).refundTo = Payers(c, l)
         /\ ~Returned(Payers(c, l), in) => Layer(c, in, l).refundTo = {}
<1>1. /\ l \in Nat /\ Below(c, l) \in Nat /\ Below(c, l) < l
      /\ \A m \in Levels(c) : m < l => m <= Below(c, l)
      /\ \A p \in Seats : c[p] \in Levels(c) \cup {0}
      /\ \E p \in Seats : c[p] = l
  BY LevelFacts, BelowFacts
<1> DEFINE P == Payers(c, l)
<1>2. P \in (SUBSET Seats) \ {{}}
  <2>1. PICK p \in Seats : c[p] = l
    BY <1>1
  <2>2. p \in P
    BY <1>1, <2>1 DEF Payers
  <2> QED BY <2>2 DEF Payers
<1>3. Contributors(c, Below(c, l)) = P
  <2>1. \A p \in Seats : c[p] > Below(c, l) <=> c[p] >= l
    BY <1>1
  <2> QED BY <2>1 DEF Contributors, Payers
<1>4. {p \in in : c[p] >= l} = P \cap in
  BY DEF Payers
<1>5. (P \cap in = {} \/ (Cardinality(P \cap in) = 1 /\ P = P \cap in))
        <=> Returned(P, in)
  <2>1. ASSUME Cardinality(P \cap in) = 1, P = P \cap in PROVE \E p \in in : P = {p}
    <3>1. IsFiniteSet(P)
      BY <1>2, SeatsFinite, FS_Subset
    <3>2. PICK p : P = {p}
      BY <2>1, <3>1, FS_Singleton
    <3> QED BY <2>1, <3>2
  <2>2. ASSUME NEW p \in in, P = {p} PROVE Cardinality(P \cap in) = 1 /\ P = P \cap in
    <3>1. P \cap in = {p}
      BY <2>2
    <3>2. Cardinality({p}) = 1
      BY FS_Singleton
    <3> QED BY <2>2, <3>1, <3>2
  <2> HIDE DEF P
  <2> QED BY <2>1, <2>2 DEF Returned
<1>6. /\ Layer(c, in, l).eligible = P \cap in
      /\ Layer(c, in, l).refundTo =
           IF P \cap in = {} \/ (Cardinality(P \cap in) = 1 /\ P = P \cap in) THEN P ELSE {}
  <2> DEFINE E == {p \in in : c[p] >= l}
             Q == Contributors(c, Below(c, l))
  <2>1. Layer(c, in, l).eligible = E
    BY DEF Layer
  <2>2. Layer(c, in, l).refundTo = IF E = {} \/ (Cardinality(E) = 1 /\ Q = E) THEN Q ELSE {}
    BY DEF Layer
  <2>3. E = P \cap in /\ Q = P
    BY <1>3, <1>4
  <2> HIDE DEF P, E, Q
  <2> QED BY <2>1, <2>2, <2>3
<1>7. /\ Returned(P, in) => Layer(c, in, l).refundTo = P
      /\ ~Returned(P, in) => Layer(c, in, l).refundTo = {}
  <2> HIDE DEF P
  <2>1. CASE Returned(P, in)
    BY <1>5, <1>6, <2>1
  <2>2. CASE ~Returned(P, in)
    BY <1>5, <1>6, <2>2
  <2> QED BY <2>1, <2>2
<1> QED BY <1>2, <1>6, <1>7, Zenon

\* A layer takes the same from everybody who reached it.
LEMMA LayerAmount ==
  ASSUME NEW c \in [Seats -> Nat], NEW in \in SUBSET Seats, NEW l \in Levels(c)
  PROVE  /\ l - Below(c, l) \in Nat \ {0}
         /\ Layer(c, in, l).amount = (l - Below(c, l)) * Cardinality(Payers(c, l))
<1>1. /\ l \in Nat /\ Below(c, l) \in Nat /\ Below(c, l) < l
      /\ \A p \in Seats : c[p] \in Levels(c) \cup {0}
  BY LevelFacts, BelowFacts
<1> DEFINE P == Payers(c, l)
<1>2. Layer(c, in, l).amount = (l - Below(c, l)) * Cardinality(P)
  <2> DEFINE f == [p \in Seats |-> Slice(c, c[p], l)]
  <2>1. Layer(c, in, l).amount = SumOver(f, Seats)
    BY LayerFacts
  <2>2. \A p \in Seats : f[p] \in Nat /\ f[p] = IF p \in P THEN l - Below(c, l) ELSE 0
    <3> TAKE p \in Seats
    <3>1. Slice(c, c[p], l) \in Nat /\ Slice(c, c[p], l) = IF l <= c[p] THEN l - Below(c, l) ELSE 0
      BY <1>1, SliceFacts
    <3>2. p \in P <=> l <= c[p]
      BY <1>1 DEF Payers
    <3> QED BY <3>1, <3>2
  <2>3. f \in [Seats -> Nat] /\ l - Below(c, l) \in Nat /\ P \in SUBSET Seats
    BY <1>1, <2>2 DEF Payers
  <2> HIDE DEF f, P
  <2> QED BY <2>1, <2>2, <2>3, SumOverEqual
<1>3. l - Below(c, l) \in Nat \ {0}
  BY <1>1
<1> QED BY <1>2, <1>3, Zenon

\* The seat that set a level stops there: two levels have different payers.
LEMMA PayersTell ==
  ASSUME NEW c \in [Seats -> Nat], NEW l \in Levels(c), NEW m \in Levels(c),
         Payers(c, l) = Payers(c, m)
  PROVE  l = m
<1>1. l \in Nat /\ m \in Nat
  BY LevelFacts
<1>2. PICK p \in Seats : c[p] = l
  BY LevelFacts
<1>3. PICK q \in Seats : c[q] = m
  BY LevelFacts
<1>4. p \in Payers(c, m) /\ q \in Payers(c, l)
  BY <1>1, <1>2, <1>3 DEF Payers
<1> QED BY <1>1, <1>2, <1>3, <1>4 DEF Payers

\* Where the layers of a hand come from.
LEMMA LayersAre ==
  ASSUME NEW c, NEW in, NEW ante \in Nat
  PROVE  \A x : x \in Layers(c, in, ante) <=>
           \/ \E l \in Levels(c) : x = <<l, Layer(c, in, l)>>
           \/ ante > 0 /\ x = <<0, AntePot(in, ante)>>
BY DEF Layers

(* The amounts of the layers. *)
Amounts(c, in, ante) == [x \in Layers(c, in, ante) |-> x[2].amount]

\* A pot is the layers that agree on who may win it and whom it goes back to.
LEMMA PotsAre ==
  ASSUME NEW c \in [Seats -> Nat], NEW in \in SUBSET Seats, in # {}, NEW ante \in Nat
  PROVE  /\ \A pot \in SidePots(c, in, ante) :
              \E x \in Layers(c, in, ante) :
                /\ pot.eligible = x[2].eligible /\ pot.refundTo = x[2].refundTo
                /\ pot.amount = SumFunctionOnSet(Amounts(c, in, ante), Merged(Layers(c, in, ante), pot))
         /\ \A x \in Layers(c, in, ante) :
              \E pot \in SidePots(c, in, ante) :
                pot.eligible = x[2].eligible /\ pot.refundTo = x[2].refundTo
<1> DEFINE S == Layers(c, in, ante)
           f == Amounts(c, in, ante)
           pot(x) == [x[2] EXCEPT !.amount = SumFunctionOnSet(f, Merged(S, x[2]))]
<1>1. SidePots(c, in, ante) = {pot(x) : x \in S}
  BY DEF SidePots, Amounts
<1>2. \A x \in S : x[2] \in Pot
  BY LayersFacts DEF Takeable
<1>3. \A x \in S : /\ pot(x).eligible = x[2].eligible /\ pot(x).refundTo = x[2].refundTo
                   /\ pot(x).amount = SumFunctionOnSet(f, Merged(S, x[2]))
  <2> TAKE x \in S
  <2>1. PICK v : v = SumFunctionOnSet(f, Merged(S, x[2]))
    OBVIOUS
  <2>2. x[2] \in Pot
    BY <1>2
  <2>3. PICK y : y = x[2]
    OBVIOUS
  <2>4. pot(x) = [y EXCEPT !.amount = v]
    BY <2>1, <2>3
  <2> QED BY <2>1, <2>2, <2>3, <2>4 DEF Pot
<1>4. \A x \in S : Merged(S, pot(x)) = Merged(S, x[2])
  <2> TAKE x \in S
  <2>1. pot(x).eligible = x[2].eligible /\ pot(x).refundTo = x[2].refundTo
    BY <1>3
  <2> HIDE DEF pot, S
  <2> QED BY <2>1 DEF Merged
<1>5. \A x \in S : pot(x).amount = SumFunctionOnSet(f, Merged(S, pot(x)))
  BY <1>3, <1>4
<1> HIDE DEF S, pot, f
<1> QED BY <1>1, <1>3, <1>5 DEF S, f

(* f on the layers is g on the levels, and v for the ante. *)
ByLevel(f, g, v, c, in, ante) ==
  /\ \A x \in Layers(c, in, ante) : f[x] \in Int
  /\ \A l \in Levels(c) : g[l] = f[<<l, Layer(c, in, l)>>]
  /\ v = IF ante > 0 THEN f[<<0, AntePot(in, ante)>>] ELSE 0

\* A sum over the layers is one over the levels, and the ante's.
LEMMA LayersSum ==
  ASSUME NEW c \in [Seats -> Nat], NEW in \in SUBSET Seats, NEW ante \in Nat,
         NEW f, NEW g, NEW v, ByLevel(f, g, v, c, in, ante)
  PROVE  SumFunctionOnSet(f, Layers(c, in, ante)) = SumFunctionOnSet(g, Levels(c)) + v
<1> USE DEF ByLevel
<1> DEFINE L == Levels(c)
           k == [l \in L |-> <<l, Layer(c, in, l)>>]
           A == {k[l] : l \in L}
           a == <<0, AntePot(in, ante)>>
           S == Layers(c, in, ante)
<1>1. IsFiniteSet(L) /\ L \in SUBSET (Nat \ {0})
  BY LevelFacts
<1>2. S = A \cup (IF ante > 0 THEN {a} ELSE {})
  BY DEF Layers
<1>3. a \notin A
  BY <1>1
<1>4. Renames(k, L, g, A, f)
  <2>1. \A l, m \in L : k[l] = k[m] => l = m
    OBVIOUS
  <2>2. \A l \in L : f[k[l]] = g[l] /\ k[l] \in S
    BY <1>2
  <2> HIDE DEF k, L, S
  <2> QED BY <1>1, <2>1, <2>2 DEF Renames, S
<1>5. IsFiniteSet(A)
  <2>1. k \in Surjection(L, A)
    BY DEF Surjection
  <2> HIDE DEF k, L, A
  <2> QED BY <1>1, <2>1, FS_Surjection
<1>6. \A x \in S : f[x] \in Int
  OBVIOUS
<1> HIDE DEF A, L, S, k, a
<1>7. SumFunctionOnSet(f, A) = SumFunctionOnSet(g, L)
  BY <1>4, SumRenamed
<1>8. SumFunctionOnSet(f, A) \in Int
  BY <1>2, <1>5, <1>6, SumType
<1>9. CASE ante > 0
  <2>1. S = A \cup {a}
    BY <1>2, <1>9
  <2>2. SumFunctionOnSet(f, A \cup {a}) = f[a] + SumFunctionOnSet(f, A) /\ f[a] \in Int
    BY <1>3, <1>5, <1>6, <2>1, SumAdd
  <2> QED BY <1>7, <1>8, <1>9, <2>1, <2>2 DEF S, L, a
<1>10. CASE ~(ante > 0)
  <2>1. S = A
    BY <1>2, <1>10
  <2>2. SumFunctionOnSet(f, S) = SumFunctionOnSet(g, L) + 0
    BY <1>7, <1>8, <2>1
  <2>3. v = 0
    BY <1>10
  <2> QED BY <2>2, <2>3 DEF S, L
<1> QED BY <1>9, <1>10

\* A sum over the pots is one over the layers they are merged from.
LEMMA PotsByLayer ==
  ASSUME NEW c \in [Seats -> Nat], NEW in \in SUBSET Seats, in # {}, NEW ante \in Nat,
         NEW f, \A x \in Layers(c, in, ante) : f[x] \in Int,
         NEW g, \A pot \in SidePots(c, in, ante) :
                  g[pot] = SumFunctionOnSet(f, Merged(Layers(c, in, ante), pot))
  PROVE  SumFunctionOnSet(g, SidePots(c, in, ante)) = SumFunctionOnSet(f, Layers(c, in, ante))
<1> DEFINE S == Layers(c, in, ante)
           K == SidePots(c, in, ante)
           k == [x \in S |-> CHOOSE pot \in K : pot.eligible = x[2].eligible /\ pot.refundTo = x[2].refundTo]
           G == [pot \in K |-> Merged(S, pot)]
<1>1. IsFiniteSet(S) /\ GoodPots(K)
  BY LayersFacts, SidePotsHoldAll
<1>2. \A x \in S : \E pot \in K : pot.eligible = x[2].eligible /\ pot.refundTo = x[2].refundTo
  BY PotsAre
<1>3. \A x \in S : k[x] \in K /\ k[x].eligible = x[2].eligible /\ k[x].refundTo = x[2].refundTo
  <2> HIDE DEF S, K
  <2> QED BY <1>2
<1>4. \A pot \in K : \A x : x \in G[pot] <=> x \in S /\ k[x] = pot
  <2> HIDE DEF k, S, K
  <2> TAKE pot \in K
  <2> TAKE x
  <2>1. G[pot] = {y \in S : y[2].eligible = pot.eligible /\ y[2].refundTo = pot.refundTo}
    BY DEF Merged
  <2>2. ASSUME x \in S, x[2].eligible = pot.eligible, x[2].refundTo = pot.refundTo PROVE k[x] = pot
    BY <1>1, <1>3, <2>2 DEF GoodPots
  <2> QED BY <1>3, <2>1, <2>2
<1>5. \A pot \in K : g[pot] = SumFunctionOnSet(f, G[pot])
  OBVIOUS
<1>6. IsFiniteSet(K)
  BY <1>1 DEF GoodPots
<1> HIDE DEF S, K, k, G
<1>7. \A x \in S : f[x] \in Int
  BY DEF S
<1>8. SumFunctionOnSet(g, K) = SumFunctionOnSet(f, S)
  BY <1>1, <1>3, <1>4, <1>5, <1>6, <1>7, SumByGivenGroups
<1> QED BY <1>8 DEF K, S

\* The layer of a level that goes back is a pot of its own.
LEMMA RefundPots ==
  ASSUME NEW c \in [Seats -> Nat], NEW in \in SUBSET Seats, in # {}, NEW ante \in Nat
  PROVE  /\ \A pot \in SidePots(c, in, ante) : pot.refundTo # {} =>
              \E l \in Levels(c) : pot = Layer(c, in, l)
         /\ \A l \in Levels(c) : Layer(c, in, l).refundTo # {} =>
              Layer(c, in, l) \in SidePots(c, in, ante)
<1> DEFINE S == Layers(c, in, ante)
           K == SidePots(c, in, ante)
           f == Amounts(c, in, ante)
<1>1. ASSUME NEW l \in Levels(c), Layer(c, in, l).refundTo # {},
             NEW pot \in K, pot.refundTo = Layer(c, in, l).refundTo,
             pot.eligible = Layer(c, in, l).eligible
      PROVE  pot = Layer(c, in, l)
  <2> DEFINE y == Layer(c, in, l)
             z == <<l, y>>
  <2>1. z \in S /\ \A x \in S : x[2].refundTo = y.refundTo => x = z
    <3>1. z \in S
      BY LayersAre
    <3>2. ASSUME NEW m \in Levels(c), Layer(c, in, m).refundTo = y.refundTo
          PROVE  m = l
      <4>1. y.refundTo = Payers(c, l) /\ Layer(c, in, m).refundTo = Payers(c, m)
        BY <1>1, <3>2, LayerShape
      <4> QED BY <3>2, <4>1, PayersTell
    <3>3. AntePot(in, ante).refundTo # y.refundTo
      BY <1>1 DEF AntePot
    <3>4. \A x \in S : \/ \E m \in Levels(c) : x = <<m, Layer(c, in, m)>>
                       \/ x = <<0, AntePot(in, ante)>>
      BY LayersAre
    <3> HIDE DEF S
    <3> QED BY <3>1, <3>2, <3>3, <3>4
  <2>2. Merged(S, pot) = {z}
    <3> HIDE DEF S
    <3> QED BY <1>1, <2>1 DEF Merged
  <2>3. f[z] = y.amount /\ y \in Pot
    BY <2>1, LayerFacts DEF Amounts
  <2>4. pot.amount = SumFunctionOnSet(f, Merged(S, pot))
    BY PotsAre
  <2>5. SumFunctionOnSet(f, {z}) = f[z]
    <3>1. f[z] \in Int
      BY <2>3 DEF Pot
    <3> HIDE DEF f, z
    <3> QED BY <3>1, SumOne
  <2>6. pot.amount = y.amount
    BY <2>2, <2>3, <2>4, <2>5
  <2>7. pot \in Pot
    BY SidePotsHoldAll DEF GoodPots, Takeable
  <2> HIDE DEF y, z, f, S, K
  <2> QED BY <1>1, <2>3, <2>6, <2>7 DEF Pot, y
<1>3. /\ \A pot \in K : \E x \in S : pot.eligible = x[2].eligible /\ pot.refundTo = x[2].refundTo
      /\ \A x \in S : \E pot \in K : pot.eligible = x[2].eligible /\ pot.refundTo = x[2].refundTo
  BY PotsAre
<1>4. ASSUME NEW pot \in K, pot.refundTo # {} PROVE \E l \in Levels(c) : pot = Layer(c, in, l)
  <2>1. PICK x \in S : pot.eligible = x[2].eligible /\ pot.refundTo = x[2].refundTo
    BY <1>3
  <2>2. x[2] # AntePot(in, ante)
    BY <1>4, <2>1 DEF AntePot
  <2>3. PICK l \in Levels(c) : x = <<l, Layer(c, in, l)>>
    <3>1. \/ \E l \in Levels(c) : x = <<l, Layer(c, in, l)>>
          \/ x = <<0, AntePot(in, ante)>>
      BY LayersAre
    <3> QED BY <2>2, <3>1
  <2> HIDE DEF K, S
  <2> QED BY <1>1, <1>4, <2>1, <2>3
<1>5. ASSUME NEW l \in Levels(c), Layer(c, in, l).refundTo # {} PROVE Layer(c, in, l) \in K
  <2>1. <<l, Layer(c, in, l)>> \in S
    BY LayersAre
  <2> HIDE DEF K, S
  <2>2. PICK pot \in K : /\ pot.eligible = Layer(c, in, l).eligible
                         /\ pot.refundTo = Layer(c, in, l).refundTo
    BY <1>3, <2>1
  <2> QED BY <1>1, <1>5, <2>2
<1> QED BY <1>4, <1>5

-----------------------------------------------------------------------------
(* What nobody called.                                                     *)

(* What p gets back of a pot that is not played for. *)
Refund(pot, d, p) ==
  IF p \in pot.refundTo THEN Share(pot.amount, pot.refundTo, d, p) ELSE 0

LEMMA DivideExactly ==
  ASSUME NEW h \in Nat, NEW k \in Nat \ {0}
  PROVE  (h * k) \div k = h /\ (h * k) % k = 0
<1> DEFINE a == h * k
           q == a \div k
           r == a % k
<1>1. a \in Nat
  OBVIOUS
<1>2. q \in Int /\ r \in 0 .. k - 1 /\ a = k * q + r
  <2> HIDE DEF a
  <2> QED BY <1>1
<1> HIDE DEF q, r
<1>3. CASE q >= h + 1
  <2>1. k * q >= k * (h + 1)
    BY <1>2, <1>3
  <2>2. k * (h + 1) = k * h + k /\ k * h = a
    OBVIOUS
  <2> QED BY <1>1, <1>2, <2>1, <2>2
<1>4. CASE q <= h - 1
  <2>1. k * q <= k * (h - 1)
    BY <1>2, <1>4
  <2>2. k * (h - 1) = k * h - k /\ k * h = a
    OBVIOUS
  <2> QED BY <1>1, <1>2, <2>1, <2>2
<1>5. CASE q = h
  <2>1. k * h = a
    OBVIOUS
  <2> QED BY <1>1, <1>2, <1>5, <2>1 DEF q, r
<1> QED BY <1>2, <1>3, <1>4, <1>5

\* A layer that goes back gives every payer its own slice.
LEMMA RefundShare ==
  ASSUME NEW c \in [Seats -> Nat], NEW in \in SUBSET Seats, NEW l \in Levels(c),
         NEW d \in Seats, NEW p \in Layer(c, in, l).refundTo
  PROVE  Refund(Layer(c, in, l), d, p) = l - Below(c, l)
<1> DEFINE P == Payers(c, l)
           h == l - Below(c, l)
           k == Cardinality(P)
           y == Layer(c, in, l)
<1>1. P \in (SUBSET Seats) \ {{}} /\ y.refundTo = P /\ y.amount = h * k /\ h \in Nat \ {0}
  <2>1. y.amount = h * k /\ h \in Nat \ {0}
    BY LayerAmount
  <2>2. P \in (SUBSET Seats) \ {{}} /\ y.refundTo = P
    BY LayerShape
  <2> QED BY <2>1, <2>2
<1>2. k \in Nat \ {0}
  <2>1. IsFiniteSet(P)
    BY <1>1, SeatsFinite, FS_Subset
  <2> QED BY <1>1, <2>1, FS_CardinalityType, FS_EmptySet
<1> HIDE DEF P, h, k, y
<1>3. h * k > 0 /\ (h * k) \div k = h /\ (h * k) % k = 0
  BY <1>1, <1>2, DivideExactly
<1>4. OddChip(h * k, P, d, p) = 0
  <2> DEFINE B == {q \in P : ButtonOrder(d, q) < ButtonOrder(d, p)}
  <2>1. IsFiniteSet(B)
    BY <1>1, SeatsFinite, FS_Subset
  <2>2. Cardinality(B) \in Nat
    BY <2>1, FS_CardinalityType
  <2>3. ~(Cardinality(B) < 0)
    BY <2>2
  <2> QED BY <1>3, <2>3 DEF OddChip, k
<1>5. Share(h * k, P, d, p) = h + 0
  BY <1>1, <1>3, <1>4 DEF Share, k, y
<1> QED BY <1>1, <1>5 DEF Refund, y, h

\* What a seat gets back reaches from the highest level others played for up to
\* its own.
LEMMA RefundSum ==
  ASSUME NEW c \in [Seats -> Nat], NEW in \in SUBSET Seats, in # {}, NEW ante \in Nat,
         NEW d \in Seats, NEW p \in Seats, NEW M \in Levels(c) \cup {0},
         \A l \in Levels(c) : p \in Layer(c, in, l).refundTo <=> M < l /\ l <= c[p],
         NEW h, \A pot \in SidePots(c, in, ante) : h[pot] = Refund(pot, d, p)
  PROVE  SumFunctionOnSet(h, SidePots(c, in, ante)) = Monus(c[p], M)
<1> DEFINE K == SidePots(c, in, ante)
           L == Levels(c)
           R == {l \in L : M < l /\ l <= c[p]}
           k == [l \in R |-> Layer(c, in, l)]
           A == {k[l] : l \in R}
           f == [l \in L |-> l - Below(c, l)]
           U(v) == {l \in L : l <= v}
<1>1. L \in SUBSET (Nat \ {0}) /\ IsFiniteSet(L) /\ c[p] \in L \cup {0} /\ M \in Nat /\ c[p] \in Nat
  BY LevelFacts
<1>2. \A l \in L : f[l] \in Nat /\ f[l] = l - Below(c, l)
  BY <1>1, BelowFacts
<1>3. /\ \A pot \in K : pot.refundTo # {} => \E l \in L : pot = Layer(c, in, l)
      /\ \A l \in L : Layer(c, in, l).refundTo # {} => Layer(c, in, l) \in K
  BY RefundPots
<1>4. IsFiniteSet(K) /\ \A pot \in K : pot \in Pot
  BY SidePotsHoldAll DEF GoodPots, Takeable
<1>5. \A l \in R : p \in k[l].refundTo /\ h[k[l]] = f[l] /\ k[l] \in K
  <2> TAKE l \in R
  <2>1. p \in Layer(c, in, l).refundTo
    OBVIOUS
  <2>2. Layer(c, in, l) \in K
    BY <1>3, <2>1
  <2>3. Refund(Layer(c, in, l), d, p) = l - Below(c, l)
    BY <2>1, RefundShare
  <2> QED BY <1>2, <2>1, <2>2, <2>3
<1>6. \A pot \in K \ A : h[pot] = 0
  <2> TAKE pot \in K \ A
  <2>1. p \notin pot.refundTo
    <3> SUFFICES ASSUME p \in pot.refundTo PROVE FALSE
      OBVIOUS
    <3>1. PICK l \in L : pot = Layer(c, in, l)
      BY <1>3
    <3>2. l \in R
      BY <3>1
    <3> QED BY <3>1, <3>2
  <2> QED BY <2>1 DEF Refund
<1>7. \A l, m \in R : k[l] = k[m] => l = m
  <2> SUFFICES ASSUME NEW l \in R, NEW m \in R, k[l] = k[m] PROVE l = m
    OBVIOUS
  <2>1. k[l].refundTo = Payers(c, l) /\ k[m].refundTo = Payers(c, m)
    <3>1. p \in Layer(c, in, l).refundTo /\ p \in Layer(c, in, m).refundTo
      OBVIOUS
    <3>2. Layer(c, in, l).refundTo = Payers(c, l) /\ Layer(c, in, m).refundTo = Payers(c, m)
      BY <3>1, LayerShape
    <3> QED BY <3>2
  <2> QED BY <2>1, PayersTell
<1>8. IsFiniteSet(R) /\ R \in SUBSET L
  <2>1. R \in SUBSET L
    OBVIOUS
  <2> QED BY <1>1, <2>1, FS_Subset
<1>9. Renames(k, R, f, A, h)
  <2>1. \A l \in R : f[l] \in Int
    BY <1>2, <1>8
  <2> HIDE DEF k, R, f
  <2> QED BY <1>5, <1>7, <1>8, <2>1 DEF Renames
<1>10. A \in SUBSET K /\ \A pot \in K : h[pot] \in Int
  <2>1. A \in SUBSET K
    BY <1>5
  <2>2. \A pot \in A : h[pot] \in Int
    <3> HIDE DEF k, f, R
    <3> QED BY <1>2, <1>5, <1>8
  <2> HIDE DEF A
  <2> QED BY <1>6, <2>1, <2>2
<1> HIDE DEF A, k, R, f, K, L
<1>11. SumFunctionOnSet(h, K) = SumFunctionOnSet(h, A) + SumFunctionOnSet(h, K \ A)
  BY <1>4, <1>10, SumSplit
<1>12. SumFunctionOnSet(h, K \ A) = 0
  <2>1. IsFiniteSet(K \ A)
    BY <1>4, FS_Subset
  <2> QED BY <1>6, <2>1, SumZero
<1>13. SumFunctionOnSet(h, A) = SumFunctionOnSet(f, R)
  BY <1>9, SumRenamed
<1>14. SumFunctionOnSet(f, R) = Monus(c[p], M) /\ SumFunctionOnSet(f, R) \in Int
  <2>1. CASE M <= c[p]
    <3>1. SumFunctionOnSet(f, U(c[p])) = c[p] /\ SumFunctionOnSet(f, U(M)) = M
      BY <1>1, LayersReach DEF f, L
    <3>2. U(M) \in SUBSET U(c[p]) /\ U(c[p]) \ U(M) = R /\ U(c[p]) \in SUBSET L
      BY <1>1, <2>1 DEF R
    <3>3. IsFiniteSet(U(c[p])) /\ \A l \in U(c[p]) : f[l] \in Int
      BY <1>1, <1>2, <3>2, FS_Subset
    <3> HIDE DEF U
    <3>4. SumFunctionOnSet(f, U(c[p])) = SumFunctionOnSet(f, U(M)) + SumFunctionOnSet(f, U(c[p]) \ U(M))
      BY <3>2, <3>3, SumSplit
    <3>5. SumFunctionOnSet(f, R) \in Int
      <4>1. \A l \in R : f[l] \in Int
        BY <1>2, <1>8
      <4> QED BY <1>8, <4>1, SumType
    <3>6. c[p] = M + SumFunctionOnSet(f, R)
      BY <3>1, <3>2, <3>4
    <3>7. SumFunctionOnSet(f, R) = c[p] - M
      <4> HIDE DEF R
      <4> QED BY <1>1, <3>5, <3>6
    <3> QED BY <1>1, <2>1, <3>5, <3>7 DEF Monus
  <2>2. CASE ~(M <= c[p])
    <3>1. R = {}
      <4>1. \A l \in L : ~(M < l /\ l <= c[p])
        <5> TAKE l \in L
        <5>1. l \in Nat
          BY <1>1
        <5> QED BY <1>1, <2>2, <5>1
      <4> QED BY <4>1 DEF R
    <3> QED BY <1>1, <2>2, <3>1, SumEmpty DEF Monus
  <2> QED BY <2>1, <2>2
<1> QED BY <1>11, <1>12, <1>13, <1>14 DEF K

\* Uncalled is what lies above the seats of S.
LEMMA UncalledFacts ==
  ASSUME NEW c \in [Seats -> Nat], NEW S \in SUBSET Seats, NEW p \in Seats
  PROVE  \E M \in Levels(c) \cup {0} :
           /\ Uncalled(c, S, p) = Monus(c[p], M)
           /\ \A l \in Levels(c) : M < l <=> \A q \in S \ {p} : c[q] < l
<1> DEFINE A == {c[q] : q \in S \ {p}}
           T == A \cup {0}
           M == Max(T)
<1>1. /\ Levels(c) \in SUBSET (Nat \ {0}) /\ \A q \in Seats : c[q] \in Levels(c) \cup {0}
  BY LevelFacts
<1>2. IsFiniteSet(A)
  <2>1. IsFiniteSet(S \ {p})
    BY SeatsFinite, FS_Subset
  <2> QED BY <2>1, ImageFinite
<1>3. IsFiniteSet(T) /\ T \in SUBSET Int /\ T # {} /\ T \in SUBSET (Levels(c) \cup {0})
  BY <1>1, <1>2, FS_AddElement
<1>4. M \in T /\ \A y \in T : y <= M
  <2> HIDE DEF T
  <2> QED BY <1>3, MaxOfFinite
<1>5. Uncalled(c, S, p) = Monus(c[p], M)
  BY DEF Uncalled
<1>6. \A l \in Levels(c) : M < l <=> \A q \in S \ {p} : c[q] < l
  <2> TAKE l \in Levels(c)
  <2>1. l \in Nat /\ 0 < l /\ M \in Int /\ \A y \in T : y \in Int
    BY <1>1, <1>3, <1>4
  <2>2. ASSUME M < l, NEW q \in S \ {p} PROVE c[q] < l
    <3>1. c[q] \in T /\ c[q] <= M
      BY <1>4
    <3> HIDE DEF M, T
    <3> QED BY <2>1, <2>2, <3>1
  <2>3. ASSUME \A q \in S \ {p} : c[q] < l PROVE M < l
    BY <1>4, <2>1, <2>3
  <2> QED BY <2>2, <2>3
<1> HIDE DEF M, T
<1> QED BY <1>3, <1>4, <1>5, <1>6

\* A layer that goes back goes to those who paid it.
LEMMA LayerRefund ==
  ASSUME NEW c \in [Seats -> Nat], NEW in \in SUBSET Seats, NEW l \in Levels(c)
  PROVE  \A q \in Seats : q \in Layer(c, in, l).refundTo <=>
                            Returned(Payers(c, l), in) /\ q \in Payers(c, l)
<1>1. CASE Returned(Payers(c, l), in)
  <2>1. \A q \in Seats : q \in Layer(c, in, l).refundTo <=> q \in Payers(c, l)
    BY <1>1, LayerShape
  <2> QED BY <2>1, <1>1
<1>2. CASE ~Returned(Payers(c, l), in)
  BY <1>2, LayerShape
<1> QED BY <1>1, <1>2

\* A folded seat gets back what nobody still in reached; a seat still in, what
\* nobody else reached.
LEMMA WhoGetsBack ==
  ASSUME NEW c \in [Seats -> Nat], NEW in \in SUBSET Seats, NEW l \in Levels(c), NEW p \in Seats
  PROVE  p \in Layer(c, in, l).refundTo <=>
           /\ l <= c[p]
           /\ \A q \in (IF p \in in THEN Seats ELSE in) \ {p} : c[q] < l
<1> DEFINE P == Payers(c, l)
<1>1. p \in Layer(c, in, l).refundTo <=> Returned(P, in) /\ p \in P
  BY LayerRefund
<1>2. l \in Nat /\ \A q \in Seats : c[q] \in Nat
  BY LevelFacts
<1>3. \A q \in Seats : q \in P <=> ~(c[q] < l)
  BY <1>2 DEF Payers
<1>4. P \in SUBSET Seats /\ (p \in P <=> l <= c[p])
  BY <1>2 DEF Payers
<1> HIDE DEF P
<1>5. CASE p \in in
  <2>1. ASSUME p \in Layer(c, in, l).refundTo PROVE p \in P /\ \A q \in Seats \ {p} : c[q] < l
    <3>1. P = {p}
      BY <1>1, <1>5, <2>1 DEF Returned
    <3> QED BY <1>3, <3>1
  <2>2. ASSUME p \in P, \A q \in Seats \ {p} : c[q] < l PROVE p \in Layer(c, in, l).refundTo
    <3>1. P = {p}
      BY <1>3, <1>4, <2>2
    <3> QED BY <1>1, <1>5, <3>1 DEF Returned
  <2> QED BY <1>4, <1>5, <2>1, <2>2
<1>6. CASE p \notin in
  <2>1. ASSUME p \in Layer(c, in, l).refundTo PROVE p \in P /\ \A q \in in \ {p} : c[q] < l
    <3>1. p \in P /\ P \cap in = {}
      BY <1>1, <1>6, <2>1 DEF Returned
    <3> QED BY <1>3, <3>1
  <2>2. ASSUME p \in P, \A q \in in \ {p} : c[q] < l PROVE p \in Layer(c, in, l).refundTo
    <3>1. P \cap in = {}
      BY <1>3, <1>6, <2>2
    <3> QED BY <1>1, <2>2, <3>1 DEF Returned
  <2> QED BY <1>4, <1>6, <2>1, <2>2
<1> QED BY <1>5, <1>6

\* Refunds are the uncalled part of a bet.
LEMMA RefundIsUncalled ==
  ASSUME NEW c \in [Seats -> Nat], NEW in \in SUBSET Seats, in # {}, NEW ante \in Nat,
         NEW d \in Seats, NEW p \in Seats,
         NEW h, \A pot \in SidePots(c, in, ante) : h[pot] = Refund(pot, d, p)
  PROVE  SumFunctionOnSet(h, SidePots(c, in, ante))
           = Uncalled(c, IF p \in in THEN Seats ELSE in, p)
<1> DEFINE S == IF p \in in THEN Seats ELSE in
<1>1. S \in SUBSET Seats
  OBVIOUS
<1>2. \A l \in Levels(c) : p \in Layer(c, in, l).refundTo <=>
                             l <= c[p] /\ \A q \in S \ {p} : c[q] < l
  BY WhoGetsBack
<1> HIDE DEF S
<1>3. PICK M \in Levels(c) \cup {0} :
           /\ Uncalled(c, S, p) = Monus(c[p], M)
           /\ \A l \in Levels(c) : M < l <=> \A q \in S \ {p} : c[q] < l
  BY <1>1, UncalledFacts
<1>4. \A l \in Levels(c) : p \in Layer(c, in, l).refundTo <=> M < l /\ l <= c[p]
  BY <1>2, <1>3
<1>5. SumFunctionOnSet(h, SidePots(c, in, ante)) = Monus(c[p], M)
  BY <1>4, RefundSum
<1> QED BY <1>3, <1>5 DEF S

-----------------------------------------------------------------------------
(* What a seat is paid of one pot.                                         *)

LEMMA DivideParts ==
  ASSUME NEW a \in Nat, NEW k \in Nat \ {0}
  PROVE  a \div k \in Nat /\ a % k \in Nat /\ a = (a \div k) * k + (a % k)
<1>1. a \div k \in Nat /\ a % k \in 0 .. k - 1
  OBVIOUS
<1>2. a = (a \div k) * k + (a % k)
  OBVIOUS
<1> QED BY <1>1, <1>2

\* A share is a natural number, at most the pot, and nothing to who is not a
\* recipient.
LEMMA ShareFacts ==
  ASSUME NEW amount \in Nat, NEW ids \in (SUBSET Seats) \ {{}}, NEW d \in Seats, NEW p \in Seats
  PROVE  /\ Share(amount, ids, d, p) \in Nat /\ Share(amount, ids, d, p) <= amount
         /\ p \notin ids => Share(amount, ids, d, p) = 0
<1> DEFINE k == Cardinality(ids)
           o == OddChip(amount, ids, d, p)
           B == {q \in ids : ButtonOrder(d, q) < ButtonOrder(d, p)}
<1>1. IsFiniteSet(ids) /\ k \in Nat /\ k > 0 /\ Cardinality(B) \in Nat
  <2>1. IsFiniteSet(ids) /\ IsFiniteSet(B)
    BY SeatsFinite, FS_Subset
  <2>2. k \in Nat /\ k # 0 /\ Cardinality(B) \in Nat
    BY <2>1, FS_CardinalityType, FS_EmptySet
  <2> QED BY <2>1, <2>2
<1>2. o = IF Cardinality(B) < amount % k THEN 1 ELSE 0
  BY DEF OddChip
<1> HIDE DEF k, B
<1>3. /\ amount \div k \in Nat /\ amount % k \in Nat
      /\ amount = (amount \div k) * k + (amount % k)
  BY <1>1, DivideParts
<1>4. o \in Nat /\ o <= amount % k
  BY <1>1, <1>2, <1>3
<1>5. (amount \div k) * k >= amount \div k
  <2> DEFINE e == amount \div k
  <2>1. k >= 1 /\ e \in Nat
    BY <1>1, <1>3
  <2> HIDE DEF e
  <2>2. e * k = e + e * (k - 1) /\ e * (k - 1) \in Nat
    BY <1>1, <2>1
  <2>3. e * k >= e
    BY <2>1, <2>2
  <2> QED BY <2>3 DEF e
<1>6. amount \div k + o \in Nat /\ amount \div k + o <= amount
  <2> DEFINE e == amount \div k
             r == amount % k
             m == e * k
  <2>1. e \in Nat /\ r \in Nat /\ amount = m + r /\ m >= e /\ m \in Int
    BY <1>1, <1>3, <1>5
  <2> HIDE DEF e, r, m, o
  <2>2. e + o \in Nat /\ e + o <= amount
    BY <1>4, <2>1 DEF r
  <2> QED BY <2>2 DEF e
<1>7. Share(amount, ids, d, p) = IF p \in ids /\ amount > 0 THEN amount \div k + o ELSE 0
  BY DEF Share, k
<1> HIDE DEF o
<1> QED BY <1>6, <1>7

(* How a settlement may choose recipients: refunds go back, nobody who folded  *)
(* or gave up its claim is paid, and unless somebody gave up only those are    *)
(* paid who reached the pot.                                                   *)
Entitled(w, pot, in, forf) ==
  /\ w \in (SUBSET Seats) \ {{}}
  /\ pot.refundTo # {} => w = pot.refundTo
  /\ pot.refundTo = {} => w \subseteq in \ forf
  /\ pot.refundTo = {} /\ forf = {} => w \subseteq pot.eligible

(* The pots of a hand. *)
PotsOf(pots, in) == GoodPots(pots) /\ \A pot \in pots : pot.eligible \subseteq in

LEMMA SidePotsOf ==
  ASSUME NEW c \in [Seats -> Nat], NEW in \in SUBSET Seats, in # {}, NEW ante \in Nat
  PROVE  PotsOf(SidePots(c, in, ante), in)
<1>1. GoodPots(SidePots(c, in, ante))
  BY SidePotsHoldAll
<1>2. \A x \in Layers(c, in, ante) : x[2].eligible \subseteq in
  <2> TAKE x \in Layers(c, in, ante)
  <2>1. CASE \E l \in Levels(c) : x = <<l, Layer(c, in, l)>>
    <3>1. PICK l \in Levels(c) : x = <<l, Layer(c, in, l)>>
      BY <2>1
    <3>2. Layer(c, in, l).eligible = {p \in in : c[p] >= l}
      BY DEF Layer
    <3> QED BY <3>1, <3>2
  <2>2. CASE x = <<0, AntePot(in, ante)>>
    BY <2>2 DEF AntePot
  <2> QED BY <2>1, <2>2, LayersAre
<1>3. \A pot \in SidePots(c, in, ante) :
        \E x \in Layers(c, in, ante) : pot.eligible = x[2].eligible
  BY PotsAre
<1> QED BY <1>1, <1>2, <1>3 DEF PotsOf

LEMMA BestIsIn ==
  ASSUME NEW S, NEW rank
  PROVE  Best(S, rank) \subseteq S
BY DEF Best

LEMMA WinnersEntitled ==
  ASSUME NEW in \in SUBSET Seats, NEW pots, PotsOf(pots, in), NEW pot \in pots,
         NEW S \in (SUBSET in) \ {{}}, NEW rank \in [Seats -> 1 .. N]
  PROVE  Entitled(Winners(pot, S, rank, in \ S), pot, in, in \ S)
<1> DEFINE w == Winners(pot, S, rank, in \ S)
           E == pot.eligible
<1>1. Takeable(pot) /\ E \subseteq in /\ (pot.refundTo = {} => E # {})
  BY DEF PotsOf, GoodPots, Takeable
<1>2. w \in (SUBSET Seats) \ {{}}
  BY <1>1, WinnersExist
<1>3. pot.refundTo # {} => w = pot.refundTo
  BY DEF Winners
<1>4. ASSUME pot.refundTo = {}
      PROVE  w \subseteq S /\ (in \ S = {} => w \subseteq E)
  <2>1. CASE E \cap S # {}
    <3>1. w = Best(E \cap S, rank)
      BY <1>4, <2>1 DEF Winners
    <3>2. w \subseteq E \cap S
      BY <3>1, BestIsIn
    <3> QED BY <3>2
  <2>2. CASE E \cap S = {}
    <3>1. E \cap (in \ S) # {} /\ in \ S # {}
      BY <1>1, <1>4, <2>2
    <3>2. w = Best(S, rank)
      BY <1>4, <2>2, <3>1 DEF Winners
    <3> QED BY <3>1, <3>2, BestIsIn
  <2> QED BY <2>1, <2>2
<1>5. S \subseteq in \ (in \ S)
  OBVIOUS
<1> HIDE DEF w, E
<1> QED BY <1>2, <1>3, <1>4, <1>5 DEF Entitled, w, E

LEMMA OthersEntitled ==
  ASSUME NEW in \in SUBSET Seats, NEW pots, PotsOf(pots, in), NEW pot \in pots
  PROVE  /\ (\A x, y \in in : x = y) /\ in # {} => Entitled(UncontestedWinners(pot, in), pot, in, {})
         /\ \A W \in SUBSET in : in \ W # {} =>
              Entitled(SurvivorWinners(pot, in \ W), pot, in, W)
<1> DEFINE E == pot.eligible
<1>1. Takeable(pot) /\ E \subseteq in /\ (pot.refundTo = {} => E # {})
  BY DEF PotsOf, GoodPots, Takeable
<1>2. ASSUME \A x, y \in in : x = y, in # {}
      PROVE  Entitled(UncontestedWinners(pot, in), pot, in, {})
  <2> DEFINE w == UncontestedWinners(pot, in)
  <2>1. w \in (SUBSET Seats) \ {{}}
    BY <1>1, <1>2, OtherWinnersExist
  <2>2. pot.refundTo # {} => w = pot.refundTo
    BY DEF UncontestedWinners
  <2>3. pot.refundTo = {} => w = in /\ in = E
    BY <1>1, <1>2 DEF UncontestedWinners
  <2> HIDE DEF w
  <2> QED BY <2>1, <2>2, <2>3 DEF Entitled, w, E
<1>3. ASSUME NEW W \in SUBSET in, in \ W # {}
      PROVE  Entitled(SurvivorWinners(pot, in \ W), pot, in, W)
  <2> DEFINE w == SurvivorWinners(pot, in \ W)
  <2>1. w \in (SUBSET Seats) \ {{}}
    <3>1. in \ W \in SUBSET Seats
      OBVIOUS
    <3> QED BY <1>1, <1>3, <3>1, OtherWinnersExist
  <2>2. pot.refundTo # {} => w = pot.refundTo
    BY DEF SurvivorWinners
  <2>3. ASSUME pot.refundTo = {}
        PROVE  w \subseteq in \ W /\ (W = {} => w \subseteq E)
    <3>1. CASE E \cap (in \ W) # {}
      <4>1. w = E \cap (in \ W)
        BY <1>1, <2>3, <3>1 DEF SurvivorWinners
      <4> QED BY <4>1
    <3>2. CASE E \cap (in \ W) = {}
      <4>1. w = in \ W /\ W # {}
        BY <1>1, <1>3, <2>3, <3>2 DEF SurvivorWinners
      <4> QED BY <4>1
    <3> QED BY <3>1, <3>2
  <2> HIDE DEF w
  <2> QED BY <2>1, <2>2, <2>3 DEF Entitled, w, E
<1> QED BY <1>2, <1>3

(* What p is paid, pot by pot. *)
Pays(h, pots, in, forf, d, p) ==
  \A pot \in pots :
    /\ h[pot] \in Nat /\ h[pot] <= pot.amount
    /\ pot.refundTo # {} => h[pot] = Refund(pot, d, p)
    /\ pot.refundTo = {} /\ p \notin in \ forf => h[pot] = 0
    /\ pot.refundTo = {} /\ forf = {} /\ p \notin pot.eligible => h[pot] = 0

(* Its shares of the pots when the recipients are w. *)
Shares(pots, w, d, p) == [pot \in pots |-> Share(pot.amount, w[pot], d, p)]

\* A refund is shared like any pot.
LEMMA SharePays ==
  ASSUME NEW pot, Takeable(pot), NEW in, NEW forf, NEW w, Entitled(w, pot, in, forf),
         NEW amount \in Nat, NEW d \in Seats, NEW p \in Seats
  PROVE  /\ Share(amount, w, d, p) \in Nat /\ Share(amount, w, d, p) <= amount
         /\ pot.refundTo # {} /\ amount = pot.amount => Share(amount, w, d, p) = Refund(pot, d, p)
         /\ pot.refundTo = {} /\ p \notin in \ forf => Share(amount, w, d, p) = 0
         /\ pot.refundTo = {} /\ forf = {} /\ p \notin pot.eligible => Share(amount, w, d, p) = 0
<1>1. /\ w \in (SUBSET Seats) \ {{}} /\ (pot.refundTo # {} => w = pot.refundTo)
      /\ (pot.refundTo = {} => w \subseteq in \ forf)
      /\ (pot.refundTo = {} /\ forf = {} => w \subseteq pot.eligible)
  BY DEF Entitled
<1>2. /\ Share(amount, w, d, p) \in Nat /\ Share(amount, w, d, p) <= amount
      /\ p \notin w => Share(amount, w, d, p) = 0
  BY <1>1, ShareFacts
<1>3. ASSUME pot.refundTo # {}, amount = pot.amount PROVE Share(amount, w, d, p) = Refund(pot, d, p)
  <2>1. w = pot.refundTo
    BY <1>1, <1>3
  <2>2. CASE p \in w
    BY <1>3, <2>1, <2>2 DEF Refund
  <2>3. CASE p \notin w
    BY <1>2, <2>1, <2>3 DEF Refund
  <2> QED BY <2>2, <2>3
<1> QED BY <1>1, <1>2, <1>3

LEMMA AwardsPay ==
  ASSUME NEW pots, NEW in, PotsOf(pots, in), NEW forf, NEW w,
         \A pot \in pots : Entitled(w[pot], pot, in, forf),
         NEW d \in Seats, NEW p \in Seats
  PROVE  /\ Awards(pots, w, d)[p] = SumFunctionOnSet(Shares(pots, w, d, p), pots)
         /\ Pays(Shares(pots, w, d, p), pots, in, forf, d, p)
<1>1. Awards(pots, w, d)[p] = SumFunctionOnSet(Shares(pots, w, d, p), pots)
  BY DEF Awards, Shares
<1>2. Pays(Shares(pots, w, d, p), pots, in, forf, d, p)
  <2> SUFFICES ASSUME NEW pot \in pots
               PROVE  LET v == Shares(pots, w, d, p)[pot]
                      IN  /\ v \in Nat /\ v <= pot.amount
                          /\ pot.refundTo # {} => v = Refund(pot, d, p)
                          /\ pot.refundTo = {} /\ p \notin in \ forf => v = 0
                          /\ pot.refundTo = {} /\ forf = {} /\ p \notin pot.eligible => v = 0
    BY DEF Pays
  <2>1. Shares(pots, w, d, p)[pot] = Share(pot.amount, w[pot], d, p)
    BY DEF Shares
  <2>2. Takeable(pot) /\ pot.amount \in Nat /\ Entitled(w[pot], pot, in, forf)
    BY DEF PotsOf, GoodPots, Takeable, Pot
  <2>3. PICK y : y = w[pot]
    OBVIOUS
  <2>4. PICK v : v = Share(pot.amount, y, d, p)
    OBVIOUS
  <2>5. /\ v \in Nat /\ v <= pot.amount
        /\ pot.refundTo # {} => v = Refund(pot, d, p)
        /\ pot.refundTo = {} /\ p \notin in \ forf => v = 0
        /\ pot.refundTo = {} /\ forf = {} /\ p \notin pot.eligible => v = 0
    BY <2>2, <2>3, <2>4, SharePays
  <2> QED BY <2>1, <2>3, <2>4, <2>5
<1> QED BY <1>1, <1>2

(* The recipients at a showdown. *)
Recipients(pots, shown, rank, forf) == [pot \in pots |-> Winners(pot, shown, rank, forf)]

(* K are the pots as one run plays for them. *)
RunOf(K, run, pots) == K = {run[pot] : pot \in pots}

(* h is what p is paid of each pot by that run. *)
RunShare(h, run, pots, shown, rank, forf, d, p) ==
  \A pot \in pots : h[pot] = Share(run[pot].amount, Winners(pot, shown, rank, forf), d, p)

\* A run pays of its part of each pot.
LEMMA RunShares ==
  ASSUME NEW pots, GoodPots(pots), NEW run,
         \A pot \in pots : /\ Takeable(run[pot]) /\ run[pot].eligible = pot.eligible
                           /\ run[pot].refundTo = pot.refundTo,
         NEW shown \in SUBSET Seats, NEW rank \in [Seats -> 1 .. N], NEW forf \in SUBSET Seats,
         NEW d \in Seats, NEW p \in Seats,
         NEW K, RunOf(K, run, pots),
         NEW h, RunShare(h, run, pots, shown, rank, forf, d, p)
  PROVE  /\ ShowdownAwards(K, shown, rank, forf, d)[p] = SumFunctionOnSet(h, pots)
         /\ \A pot \in pots : h[pot] \in Nat /\ h[pot] <= run[pot].amount
<1> DEFINE w == Recipients(K, shown, rank, forf)
           g == Shares(K, w, d, p)
<1>1. ShowdownAwards(K, shown, rank, forf, d)[p] = SumFunctionOnSet(g, K)
  BY DEF ShowdownAwards, Awards, Shares, Recipients
<1>2. \A pot \in pots : Winners(run[pot], shown, rank, forf) = Winners(pot, shown, rank, forf)
  BY DEF Winners
<1>3. \A pot \in pots : run[pot] \in K /\ g[run[pot]] = h[pot]
  <2> TAKE pot \in pots
  <2>1. run[pot] \in K
    BY DEF RunOf
  <2>2. w[run[pot]] = Winners(run[pot], shown, rank, forf)
    BY <2>1 DEF Recipients
  <2>3. g[run[pot]] = Share(run[pot].amount, w[run[pot]], d, p)
    BY <2>1 DEF Shares
  <2> QED BY <1>2, <2>1, <2>2, <2>3 DEF RunShare
<1>4. \A pot \in pots : h[pot] \in Nat /\ h[pot] <= run[pot].amount
  <2> TAKE pot \in pots
  <2>1. PICK y : y = Winners(pot, shown, rank, forf)
    OBVIOUS
  <2>2. y \in (SUBSET Seats) \ {{}} /\ run[pot].amount \in Nat
    BY <2>1, WinnersExist DEF GoodPots, Takeable, Pot
  <2> QED BY <2>1, <2>2, ShareFacts DEF RunShare
<1>5. \A pot, other \in pots : run[pot] = run[other] => pot = other
  <2> SUFFICES ASSUME NEW pot \in pots, NEW other \in pots, run[pot] = run[other]
               PROVE  pot = other
    OBVIOUS
  <2>1. pot.eligible = other.eligible /\ pot.refundTo = other.refundTo
    OBVIOUS
  <2> QED BY <2>1 DEF GoodPots
<1> HIDE DEF g
<1>6. Renames(run, pots, h, K, g)
  BY <1>3, <1>4, <1>5 DEF Renames, GoodPots, RunOf
<1> QED BY <1>1, <1>4, <1>6, SumRenamed

(* What p is paid of each pot by the two runs together. *)
RunsPay(pots, shown, rank, rank2, forf, d, p) ==
  [pot \in pots |-> Share(FirstRun(pot).amount, Winners(pot, shown, rank, forf), d, p)
                  + Share(SecondRun(pot).amount, Winners(pot, shown, rank2, forf), d, p)]

\* Two runs together pay every seat pot by pot.
LEMMA TwoRunsAre ==
  ASSUME NEW pots, GoodPots(pots), NEW shown \in SUBSET Seats,
         NEW rank \in [Seats -> 1 .. N], NEW rank2 \in [Seats -> 1 .. N],
         NEW forf \in SUBSET Seats, NEW d \in Seats, NEW p \in Seats
  PROVE  TwoRunAwards(pots, shown, rank, rank2, forf, d)[p]
           = SumFunctionOnSet(RunsPay(pots, shown, rank, rank2, forf, d, p), pots)
<1> DEFINE one == [pot \in pots |-> FirstRun(pot)]
           two == [pot \in pots |-> SecondRun(pot)]
           P == {one[pot] : pot \in pots}
           Q == {two[pot] : pot \in pots}
           A == ShowdownAwards(P, shown, rank, forf, d)
           B == ShowdownAwards(Q, shown, rank2, forf, d)
           f == [pot \in pots |-> Share(one[pot].amount, Winners(pot, shown, rank, forf), d, p)]
           g == [pot \in pots |-> Share(two[pot].amount, Winners(pot, shown, rank2, forf), d, p)]
           h == RunsPay(pots, shown, rank, rank2, forf, d, p)
<1>1. IsFiniteSet(pots) /\ \A pot \in pots : Takeable(pot)
  BY DEF GoodPots
<1>2. \A pot \in pots :
        /\ Takeable(one[pot]) /\ one[pot].eligible = pot.eligible /\ one[pot].refundTo = pot.refundTo
        /\ Takeable(two[pot]) /\ two[pot].eligible = pot.eligible /\ two[pot].refundTo = pot.refundTo
  <2> TAKE pot \in pots
  <2>1. one[pot] = FirstRun(pot) /\ two[pot] = SecondRun(pot) /\ Takeable(pot)
    BY <1>1
  <2> HIDE DEF one, two
  <2> QED BY <2>1, RunFacts
<1>3. {FirstRun(pot) : pot \in pots} = P /\ {SecondRun(pot) : pot \in pots} = Q
  OBVIOUS
<1>4. TwoRunAwards(pots, shown, rank, rank2, forf, d)[p] = A[p] + B[p]
  BY <1>3 DEF TwoRunAwards
<1>5. \A pot \in pots : h[pot] = f[pot] + g[pot]
  BY DEF RunsPay
<1>6. /\ RunShare(f, one, pots, shown, rank, forf, d, p)
      /\ RunShare(g, two, pots, shown, rank2, forf, d, p)
  BY DEF RunShare
<1> HIDE DEF one, two, f, g, h
<1>7. A[p] = SumFunctionOnSet(f, pots) /\ \A pot \in pots : f[pot] \in Nat
  <2> HIDE DEF A
  <2>1. PICK K : K = P /\ RunOf(K, one, pots)
    BY DEF RunOf
  <2>2. A = ShowdownAwards(K, shown, rank, forf, d)
    BY <2>1 DEF A
  <2>3. \A pot \in pots : /\ Takeable(one[pot]) /\ one[pot].eligible = pot.eligible
                          /\ one[pot].refundTo = pot.refundTo
    BY <1>2
  <2>4. RunOf(K, one, pots) /\ RunShare(f, one, pots, shown, rank, forf, d, p)
    BY <1>6, <2>1
  <2>5. /\ ShowdownAwards(K, shown, rank, forf, d)[p] = SumFunctionOnSet(f, pots)
        /\ \A pot \in pots : f[pot] \in Nat /\ f[pot] <= one[pot].amount
    BY <2>3, <2>4, RunShares
  <2> QED BY <2>2, <2>5
<1>8. B[p] = SumFunctionOnSet(g, pots) /\ \A pot \in pots : g[pot] \in Nat
  <2> HIDE DEF B
  <2>1. PICK K : K = Q /\ RunOf(K, two, pots)
    BY DEF RunOf
  <2>2. B = ShowdownAwards(K, shown, rank2, forf, d)
    BY <2>1 DEF B
  <2>3. \A pot \in pots : /\ Takeable(two[pot]) /\ two[pot].eligible = pot.eligible
                          /\ two[pot].refundTo = pot.refundTo
    BY <1>2
  <2>4. RunOf(K, two, pots) /\ RunShare(g, two, pots, shown, rank2, forf, d, p)
    BY <1>6, <2>1
  <2>5. /\ ShowdownAwards(K, shown, rank2, forf, d)[p] = SumFunctionOnSet(g, pots)
        /\ \A pot \in pots : g[pot] \in Nat /\ g[pot] <= two[pot].amount
    BY <2>3, <2>4, RunShares
  <2> QED BY <2>2, <2>5
<1> HIDE DEF A, B, P, Q
<1>9. SumFunctionOnSet(h, pots) = SumFunctionOnSet(f, pots) + SumFunctionOnSet(g, pots)
  <2>1. \A pot \in pots : f[pot] \in Int /\ g[pot] \in Int
    BY <1>7, <1>8
  <2> QED BY <1>1, <1>5, <2>1, SumPlus
<1> QED BY <1>4, <1>7, <1>8, <1>9 DEF h

LEMMA RunsPayFairly ==
  ASSUME NEW in \in SUBSET Seats, NEW pots, PotsOf(pots, in), NEW S \in (SUBSET in) \ {{}},
         NEW rank \in [Seats -> 1 .. N], NEW rank2 \in [Seats -> 1 .. N],
         NEW d \in Seats, NEW p \in Seats
  PROVE  Pays(RunsPay(pots, S, rank, rank2, in \ S, d, p), pots, in, in \ S, d, p)
<1> DEFINE h == RunsPay(pots, S, rank, rank2, in \ S, d, p)
           forf == in \ S
<1> SUFFICES ASSUME NEW pot \in pots
             PROVE  /\ h[pot] \in Nat /\ h[pot] <= pot.amount
                    /\ pot.refundTo # {} => h[pot] = Refund(pot, d, p)
                    /\ pot.refundTo = {} /\ p \notin in \ forf => h[pot] = 0
                    /\ pot.refundTo = {} /\ forf = {} /\ p \notin pot.eligible => h[pot] = 0
  BY DEF Pays
<1>1. PICK w : w = Winners(pot, S, rank, forf)
  OBVIOUS
<1>2. PICK w2 : w2 = Winners(pot, S, rank2, forf)
  OBVIOUS
<1>3. PICK a : a = FirstRun(pot).amount
  OBVIOUS
<1>4. PICK b : b = SecondRun(pot).amount
  OBVIOUS
<1>5. Takeable(pot) /\ Entitled(w, pot, in, forf) /\ Entitled(w2, pot, in, forf)
  BY <1>1, <1>2, WinnersEntitled DEF PotsOf, GoodPots
<1>6. a \in Nat /\ b \in Nat /\ a + b = pot.amount /\ (pot.refundTo # {} => b = 0)
  <2>1. a \in Nat /\ b \in Nat /\ a + b = pot.amount
    BY <1>3, <1>4, <1>5, RunFacts
  <2>2. ASSUME pot.refundTo # {} PROVE b = 0
    <3>1. SecondRun(pot) = [pot EXCEPT !.amount = 0] /\ pot \in Pot
      BY <1>5, <2>2 DEF SecondRun, Takeable
    <3> QED BY <1>4, <3>1 DEF Pot
  <2> QED BY <2>1, <2>2
<1>7. PICK u : u = Share(a, w, d, p)
  OBVIOUS
<1>8. PICK v : v = Share(b, w2, d, p)
  OBVIOUS
<1>9. h[pot] = u + v
  BY <1>1, <1>2, <1>3, <1>4, <1>7, <1>8 DEF RunsPay
<1> HIDE DEF h, forf
<1>10. /\ u \in Nat /\ u <= a
       /\ pot.refundTo # {} /\ a = pot.amount => u = Refund(pot, d, p)
       /\ pot.refundTo = {} /\ p \notin in \ forf => u = 0
       /\ pot.refundTo = {} /\ forf = {} /\ p \notin pot.eligible => u = 0
  BY <1>5, <1>6, <1>7, SharePays
<1>11. /\ v \in Nat /\ v <= b
       /\ pot.refundTo = {} /\ p \notin in \ forf => v = 0
       /\ pot.refundTo = {} /\ forf = {} /\ p \notin pot.eligible => v = 0
  BY <1>5, <1>6, <1>8, SharePays
<1>12. ASSUME pot.refundTo # {} PROVE h[pot] = Refund(pot, d, p)
  <2>1. b = 0 /\ a = pot.amount /\ v = 0
    BY <1>6, <1>11, <1>12
  <2> QED BY <1>9, <1>10, <1>12, <2>1
<1>13. h[pot] \in Nat /\ h[pot] <= pot.amount
  BY <1>6, <1>9, <1>10, <1>11
<1> QED BY <1>9, <1>10, <1>11, <1>12, <1>13

-----------------------------------------------------------------------------
(* The invariant of a settlement: what was paid is what its path awards.   *)

PaidAs ==
  CASE path = "Open" -> TRUE
    [] path = "Showdown" ->
         /\ showed \in (SUBSET stillIn) \ {{}} /\ forfeited = stillIn \ showed
         /\ strength \in [Seats -> 1 .. N]
         /\ payout = ShowdownAwards(Pots0, showed, strength, forfeited, button)
    [] path = "RunTwice" ->
         /\ showed \in (SUBSET stillIn) \ {{}} /\ forfeited = stillIn \ showed
         /\ strength \in [Seats -> 1 .. N] /\ strength2 \in [Seats -> 1 .. N]
         /\ payout = TwoRunAwards(Pots0, showed, strength, strength2, forfeited, button)
    [] path = "Uncontested" ->
         /\ Cardinality(stillIn) = 1 /\ forfeited = {}
         /\ payout = UncontestedAwards(Pots0, stillIn, button)
    [] path = "ForfeitBoard" ->
         /\ forfeited \in SUBSET stillIn /\ stillIn \ forfeited # {}
         /\ payout = SurvivorAwards(Pots0, stillIn \ forfeited, button)

SettleInv ==
  /\ paid \in [Seats -> 0 .. MaxBet] /\ stillIn \in (SUBSET Seats) \ {{}}
  /\ deadAnte \in Nat /\ button \in Seats
  /\ path \in {"Open", "Showdown", "RunTwice", "Uncontested", "ForfeitBoard"}
  /\ path = "Open" => forfeited = {}
  /\ PaidAs

LEMMA SettleInitKeeps == SettleInit => SettleInv
<1> SUFFICES ASSUME SettleInit PROVE SettleInv
  OBVIOUS
<1>1. deadAnte \in Nat /\ button \in Seats
  BY SettlementAssumption DEF SettleInit
<1> QED BY <1>1 DEF SettleInit, SettleInv, PaidAs

LEMMA SettleNextKeeps == SettleInv /\ [SettleNext]_settleVars => SettleInv'
<1> SUFFICES ASSUME SettleInv, [SettleNext]_settleVars PROVE SettleInv'
  OBVIOUS
<1>1. ASSUME UNCHANGED settleVars PROVE SettleInv'
  BY <1>1 DEF SettleInv, PaidAs, settleVars, Pots0
<1>2. ASSUME NEW S \in (SUBSET stillIn) \ {{}}, Showdown(S) PROVE SettleInv'
  <2>1. UNCHANGED handOver /\ Pots0' = Pots0
    BY <1>2 DEF Showdown, handOver, Pots0
  <2>2. /\ path' = "Showdown" /\ showed' = S /\ forfeited' = stillIn \ S
        /\ strength' \in [Seats -> 1 .. N]
        /\ payout' = ShowdownAwards(Pots0, S, strength', stillIn \ S, button)
    BY <1>2 DEF Showdown, Ranks
  <2> QED BY <2>1, <2>2 DEF SettleInv, PaidAs, handOver
<1>3. ASSUME NEW S \in (SUBSET stillIn) \ {{}}, RunTwice(S) PROVE SettleInv'
  <2>1. UNCHANGED handOver /\ Pots0' = Pots0
    BY <1>3 DEF RunTwice, handOver, Pots0
  <2>2. /\ path' = "RunTwice" /\ showed' = S /\ forfeited' = stillIn \ S
        /\ strength' \in [Seats -> 1 .. N] /\ strength2' \in [Seats -> 1 .. N]
        /\ payout' = TwoRunAwards(Pots0, S, strength', strength2', stillIn \ S, button)
    BY <1>3 DEF RunTwice, Ranks
  <2> QED BY <2>1, <2>2 DEF SettleInv, PaidAs, handOver
<1>4. ASSUME Uncontested PROVE SettleInv'
  <2>1. UNCHANGED handOver /\ Pots0' = Pots0
    BY <1>4 DEF Uncontested, handOver, Pots0
  <2>2. /\ path' = "Uncontested" /\ Cardinality(stillIn) = 1 /\ forfeited' = {}
        /\ payout' = UncontestedAwards(Pots0, stillIn, button)
    BY <1>4 DEF Uncontested, SettleInv
  <2> QED BY <2>1, <2>2 DEF SettleInv, PaidAs, handOver
<1>5. ASSUME NEW W \in SUBSET stillIn, ForfeitBoard(W) PROVE SettleInv'
  <2>1. UNCHANGED handOver /\ Pots0' = Pots0
    BY <1>5 DEF ForfeitBoard, handOver, Pots0
  <2>2. /\ path' = "ForfeitBoard" /\ forfeited' = W /\ stillIn \ W # {}
        /\ payout' = SurvivorAwards(Pots0, stillIn \ W, button)
    BY <1>5 DEF ForfeitBoard
  <2> QED BY <2>1, <2>2 DEF SettleInv, PaidAs, handOver
<1> QED BY <1>1, <1>2, <1>3, <1>4, <1>5 DEF SettleNext

\* Every settlement awards what its path says, of the hand as it was played.
THEOREM SettleInvariant == SettleSpec => []SettleInv
<1>1. SettleInit => SettleInv
  BY SettleInitKeeps
<1>2. SettleInv /\ [SettleNext]_settleVars => SettleInv'
  BY SettleNextKeeps
<1> QED BY <1>1, <1>2, PTL DEF SettleSpec

LEMMA HandFacts ==
  ASSUME SettleInv
  PROVE  /\ paid \in [Seats -> Nat] /\ stillIn \in SUBSET Seats /\ stillIn # {}
         /\ PotsOf(Pots0, stillIn) /\ IsFiniteSet(Pots0)
<1>1. paid \in [Seats -> Nat] /\ stillIn \in SUBSET Seats /\ stillIn # {} /\ deadAnte \in Nat
  <2>1. 0 .. MaxBet \subseteq Nat
    OBVIOUS
  <2> QED BY <2>1 DEF SettleInv
<1>2. PotsOf(Pots0, stillIn)
  BY <1>1, SidePotsOf DEF Pots0
<1> QED BY <1>1, <1>2 DEF PotsOf, GoodPots

\* Every path pays pot by pot, to those entitled.
LEMMA PaidPotByPot ==
  ASSUME SettleInv, Settled0, NEW p \in Seats
  PROVE  \E h : /\ payout[p] = SumFunctionOnSet(h, Pots0)
                /\ Pays(h, Pots0, stillIn, forfeited, button, p)
<1>1. /\ stillIn \in SUBSET Seats /\ stillIn # {} /\ PotsOf(Pots0, stillIn)
      /\ button \in Seats /\ PaidAs
      /\ path \in {"Showdown", "RunTwice", "Uncontested", "ForfeitBoard"}
  BY HandFacts DEF SettleInv, Settled0
<1>2. PICK pots : pots = Pots0
  OBVIOUS
<1>3. CASE path = "Showdown"
  <2>1. /\ showed \in (SUBSET stillIn) \ {{}} /\ forfeited = stillIn \ showed
        /\ strength \in [Seats -> 1 .. N]
        /\ payout = ShowdownAwards(pots, showed, strength, forfeited, button)
    BY <1>1, <1>2, <1>3 DEF PaidAs
  <2> DEFINE w == Recipients(pots, showed, strength, forfeited)
  <2>2. \A pot \in pots : Entitled(w[pot], pot, stillIn, forfeited)
    <3> TAKE pot \in pots
    <3>1. w[pot] = Winners(pot, showed, strength, stillIn \ showed)
      BY <2>1 DEF Recipients
    <3> QED BY <1>1, <1>2, <2>1, <3>1, WinnersEntitled
  <2>3. payout = Awards(pots, w, button)
    BY <2>1 DEF ShowdownAwards, Recipients
  <2> HIDE DEF w
  <2> QED BY <1>1, <1>2, <2>2, <2>3, AwardsPay
<1>4. CASE path = "RunTwice"
  <2>1. /\ showed \in (SUBSET stillIn) \ {{}} /\ forfeited = stillIn \ showed
        /\ strength \in [Seats -> 1 .. N] /\ strength2 \in [Seats -> 1 .. N]
        /\ payout = TwoRunAwards(pots, showed, strength, strength2, forfeited, button)
    BY <1>1, <1>2, <1>4 DEF PaidAs
  <2>2. showed \in SUBSET Seats /\ forfeited \in SUBSET Seats /\ GoodPots(pots)
    BY <1>1, <1>2, <2>1 DEF PotsOf
  <2> DEFINE h == RunsPay(pots, showed, strength, strength2, forfeited, button, p)
  <2>3. payout[p] = SumFunctionOnSet(h, pots)
    BY <1>1, <2>1, <2>2, TwoRunsAre
  <2>4. Pays(h, pots, stillIn, forfeited, button, p)
    <3>1. Pays(RunsPay(pots, showed, strength, strength2, stillIn \ showed, button, p),
               pots, stillIn, stillIn \ showed, button, p)
      BY <1>1, <1>2, <2>1, RunsPayFairly
    <3> QED BY <2>1, <3>1
  <2> QED BY <1>2, <2>3, <2>4
<1>5. CASE path = "Uncontested"
  <2>1. /\ Cardinality(stillIn) = 1 /\ forfeited = {}
        /\ payout = UncontestedAwards(pots, stillIn, button)
    BY <1>1, <1>2, <1>5 DEF PaidAs
  <2>2. \A x, y \in stillIn : x = y
    <3>1. IsFiniteSet(stillIn)
      BY <1>1, SeatsFinite, FS_Subset
    <3>2. \E x : stillIn = {x}
      BY <2>1, <3>1, FS_Singleton
    <3> QED BY <3>2
  <2> DEFINE w == [pot \in pots |-> UncontestedWinners(pot, stillIn)]
  <2>3. \A pot \in pots : Entitled(w[pot], pot, stillIn, forfeited)
    <3> TAKE pot \in pots
    <3>1. w[pot] = UncontestedWinners(pot, stillIn)
      OBVIOUS
    <3>2. Entitled(UncontestedWinners(pot, stillIn), pot, stillIn, {})
      BY <1>1, <1>2, <2>2, OthersEntitled
    <3> QED BY <2>1, <3>1, <3>2
  <2>4. payout = Awards(pots, w, button)
    BY <2>1 DEF UncontestedAwards
  <2> HIDE DEF w
  <2> QED BY <1>1, <1>2, <2>3, <2>4, AwardsPay
<1>6. CASE path = "ForfeitBoard"
  <2>1. /\ forfeited \in SUBSET stillIn /\ stillIn \ forfeited # {}
        /\ payout = SurvivorAwards(pots, stillIn \ forfeited, button)
    BY <1>1, <1>2, <1>6 DEF PaidAs
  <2> DEFINE w == [pot \in pots |-> SurvivorWinners(pot, stillIn \ forfeited)]
  <2>3. \A pot \in pots : Entitled(w[pot], pot, stillIn, forfeited)
    <3> TAKE pot \in pots
    <3>1. w[pot] = SurvivorWinners(pot, stillIn \ forfeited)
      OBVIOUS
    <3>2. Entitled(SurvivorWinners(pot, stillIn \ forfeited), pot, stillIn, forfeited)
      BY <1>1, <1>2, <2>1, OthersEntitled
    <3> QED BY <3>1, <3>2
  <2>4. payout = Awards(pots, w, button)
    BY <2>1 DEF SurvivorAwards
  <2> HIDE DEF w
  <2> QED BY <1>1, <1>2, <2>3, <2>4, AwardsPay
<1> QED BY <1>1, <1>3, <1>4, <1>5, <1>6

LEMMA RefundsAddUp ==
  ASSUME SettleInv, NEW p \in Seats, NEW h, \A pot \in Pots0 : h[pot] = Refund(pot, button, p)
  PROVE  SumFunctionOnSet(h, Pots0) = Uncalled(paid, IF p \in stillIn THEN Seats ELSE stillIn, p)
<1>1. /\ paid \in [Seats -> Nat] /\ stillIn \in SUBSET Seats /\ stillIn # {}
      /\ deadAnte \in Nat /\ button \in Seats
  BY HandFacts DEF SettleInv
<1>2. \A pot \in SidePots(paid, stillIn, deadAnte) : h[pot] = Refund(pot, button, p)
  BY DEF Pots0
<1> QED BY <1>1, <1>2, RefundIsUncalled DEF Pots0

\* A seat that folded or gave up its claim is paid its refunds and no more.
LEMMA QuittersRefunded == SettleInv => QuittersGetOnlyUncalled
<1> SUFFICES ASSUME SettleInv, Settled0
             PROVE  /\ \A p \in Seats \ stillIn : payout[p] = Uncalled(paid, stillIn, p)
                    /\ \A p \in forfeited : payout[p] = Uncalled(paid, Seats, p)
  BY DEF QuittersGetOnlyUncalled
<1>1. ASSUME NEW p \in Seats, p \notin stillIn \ forfeited
      PROVE  payout[p] = Uncalled(paid, IF p \in stillIn THEN Seats ELSE stillIn, p)
  <2>1. PICK h : /\ payout[p] = SumFunctionOnSet(h, Pots0)
                 /\ Pays(h, Pots0, stillIn, forfeited, button, p)
    BY PaidPotByPot
  <2>2. \A pot \in Pots0 : h[pot] = Refund(pot, button, p)
    BY <1>1, <2>1 DEF Pays, Refund
  <2> QED BY <2>1, <2>2, RefundsAddUp
<1>2. forfeited \subseteq stillIn /\ stillIn \subseteq Seats
  BY DEF SettleInv, PaidAs, Settled0
<1>3. ASSUME NEW p \in Seats \ stillIn PROVE payout[p] = Uncalled(paid, stillIn, p)
  BY <1>1
<1>4. ASSUME NEW p \in forfeited PROVE payout[p] = Uncalled(paid, Seats, p)
  BY <1>1, <1>2
<1> QED BY <1>3, <1>4

\* Giving up never pays: in every settlement of every hand, a seat that folded
\* gets back what nobody still in called, and one that did not show or withheld
\* its board share what nobody called (pots.rs, refund_to and the forfeits).
THEOREM QuittersLose == SettleSpec => []QuittersGetOnlyUncalled
<1>1. SettleInv => QuittersGetOnlyUncalled
  BY QuittersRefunded
<1> QED BY <1>1, SettleInvariant, PTL

-----------------------------------------------------------------------------
(* Table stakes.                                                           *)

(* p reached the pot: it may win it or gets it back. *)
Reached(pot, p) == p \in pot.eligible \/ p \in pot.refundTo

\* Of one layer, a seat that reached it can collect no more than the slices up
\* to its own contribution.
LEMMA LayerAtStakes ==
  ASSUME NEW c \in [Seats -> Nat], NEW in \in SUBSET Seats, NEW l \in Levels(c), NEW p \in Seats,
         NEW F \in [Seats -> Nat],
         \A q \in Seats : F[q] = Slice(c, Least(c[p], c[q]), l)
  PROVE  (IF Reached(Layer(c, in, l), p) THEN Layer(c, in, l).amount ELSE 0) <= SumOver(F, Seats)
<1>1. l \in Nat /\ \A q \in Seats : c[q] \in Nat /\ c[q] \in Levels(c) \cup {0}
  BY LevelFacts
<1>2. SumOver(F, Seats) \in Nat
  BY SumOverType
<1>3. CASE Reached(Layer(c, in, l), p)
  <2>1. l <= c[p]
    <3>1. Layer(c, in, l).eligible = {q \in in : c[q] >= l}
      BY DEF Layer
    <3>2. p \in Layer(c, in, l).refundTo => p \in Payers(c, l)
      BY LayerRefund
    <3> QED BY <1>1, <1>3, <3>1, <3>2 DEF Reached, Payers
  <2> DEFINE G == [q \in Seats |-> Slice(c, c[q], l)]
  <2>2. Layer(c, in, l).amount = SumOver(G, Seats)
    BY LayerFacts
  <2>3. \A q \in Seats : G[q] = F[q]
    <3> TAKE q \in Seats
    <3>1. PICK v : v = Least(c[p], c[q])
      OBVIOUS
    <3>2. v \in Levels(c) \cup {0} /\ (l <= v <=> l <= c[q])
      BY <1>1, <2>1, <3>1 DEF Least
    <3>3. /\ Slice(c, v, l) = IF l <= v THEN l - Below(c, l) ELSE 0
          /\ Slice(c, c[q], l) = IF l <= c[q] THEN l - Below(c, l) ELSE 0
      BY <1>1, <3>2, SliceFacts
    <3> QED BY <3>1, <3>2, <3>3
  <2>4. G = F
    BY <2>3
  <2> QED BY <1>2, <1>3, <2>2, <2>4
<1>4. CASE ~Reached(Layer(c, in, l), p)
  BY <1>2, <1>4
<1> QED BY <1>3, <1>4

(* What p reached of each layer. *)
ReachedOf(c, in, ante, p) ==
  [x \in Layers(c, in, ante) |-> IF Reached(x[2], p) THEN x[2].amount ELSE 0]

LEMMA LayersAtStakes ==
  ASSUME NEW c \in [Seats -> Nat], NEW in \in SUBSET Seats, in # {}, NEW ante \in Nat,
         NEW p \in Seats
  PROVE  /\ \A x \in Layers(c, in, ante) : ReachedOf(c, in, ante, p)[x] \in Int
         /\ SumFunctionOnSet(ReachedOf(c, in, ante, p), Layers(c, in, ante))
              <= TableStakes(c, ante, p)
<1> DEFINE S == Layers(c, in, ante)
           L == Levels(c)
           f == ReachedOf(c, in, ante, p)
           g == [l \in L |-> IF Reached(Layer(c, in, l), p) THEN Layer(c, in, l).amount ELSE 0]
           F == [l \in L |-> [q \in Seats |-> Slice(c, Least(c[p], c[q]), l)]]
           s == [l \in L |-> SumOver(F[l], Seats)]
           t == [q \in Seats |-> Least(c[p], c[q])]
           a == <<0, AntePot(in, ante)>>
<1>1. IsFiniteSet(L) /\ \A q \in Seats : c[q] \in Nat /\ c[q] \in L \cup {0}
  BY LevelFacts
<1>2. \A x \in S : x[2].amount \in Nat
  BY LayersFacts DEF Takeable, Pot
<1>3. \A x \in S : f[x] = IF Reached(x[2], p) THEN x[2].amount ELSE 0
  BY DEF ReachedOf
<1>4. \A x \in S : f[x] \in Int
  <2> HIDE DEF f, S
  <2> QED BY <1>2, <1>3
<1>5. \A l \in L : g[l] = f[<<l, Layer(c, in, l)>>]
  <2> TAKE l \in L
  <2>1. <<l, Layer(c, in, l)>> \in S
    BY LayersAre
  <2> HIDE DEF S, f
  <2> QED BY <1>3, <2>1
<1>6. ante > 0 => f[a] <= ante /\ f[a] \in Int
  <2> SUFFICES ASSUME ante > 0 PROVE f[a] <= ante /\ f[a] \in Int
    OBVIOUS
  <2>1. a \in S
    BY LayersAre
  <2>2. a[2].amount = ante
    BY DEF AntePot
  <2> HIDE DEF a, f, S
  <2> QED BY <1>3, <2>1, <2>2
<1>7. SumFunctionOnSet(f, S) = SumFunctionOnSet(g, L) + (IF ante > 0 THEN f[a] ELSE 0)
  <2> HIDE DEF f, g
  <2>1. \A x \in Layers(c, in, ante) : f[x] \in Int
    BY <1>4
  <2>2. \A l \in Levels(c) : g[l] = f[<<l, Layer(c, in, l)>>]
    BY <1>5
  <2>3. PICK v : v = IF ante > 0 THEN f[<<0, AntePot(in, ante)>>] ELSE 0
    OBVIOUS
  <2>4. ByLevel(f, g, v, c, in, ante)
    BY <2>1, <2>2, <2>3 DEF ByLevel
  <2>5. SumFunctionOnSet(f, Layers(c, in, ante)) = SumFunctionOnSet(g, Levels(c)) + v
    BY <2>4, LayersSum
  <2> QED BY <2>3, <2>5
<1>8. \A q \in Seats : t[q] \in Nat /\ t[q] \in L \cup {0}
  BY <1>1 DEF Least
<1>9. \A l \in L : F[l] \in [Seats -> Nat] /\ \A q \in Seats : F[l][q] = Slice(c, t[q], l)
  <2> TAKE l \in L
  <2>1. \A q \in Seats : Slice(c, t[q], l) \in Nat
    <3> HIDE DEF t
    <3> QED BY <1>8, SliceFacts
  <2>2. F[l] = [q \in Seats |-> Slice(c, t[q], l)]
    OBVIOUS
  <2> HIDE DEF F, t
  <2> QED BY <2>1, <2>2
<1>10. \A l \in L : g[l] \in Int /\ s[l] \in Int /\ g[l] <= s[l]
  <2> TAKE l \in L
  <2>1. PICK G \in [Seats -> Nat] : G = F[l]
    BY <1>9
  <2>2. \A q \in Seats : G[q] = Slice(c, Least(c[p], c[q]), l)
    BY <2>1
  <2>3. (IF Reached(Layer(c, in, l), p) THEN Layer(c, in, l).amount ELSE 0) <= SumOver(G, Seats)
    BY <2>2, LayerAtStakes
  <2>4. SumOver(G, Seats) \in Nat
    BY SumOverType
  <2>5. g[l] = (IF Reached(Layer(c, in, l), p) THEN Layer(c, in, l).amount ELSE 0)
    OBVIOUS
  <2>6. s[l] = SumOver(G, Seats)
    BY <2>1
  <2>7. g[l] \in Int
    <3>1. Layer(c, in, l).amount \in Nat
      BY LayerFacts DEF Pot
    <3> QED BY <2>5, <3>1
  <2> HIDE DEF g, s
  <2> QED BY <2>3, <2>4, <2>5, <2>6, <2>7
<1>11. SumFunctionOnSet(g, L) <= SumFunctionOnSet(s, L)
       /\ SumFunctionOnSet(g, L) \in Int /\ SumFunctionOnSet(s, L) \in Int
  <2> HIDE DEF g, s, L
  <2> QED BY <1>1, <1>10, SumMonotone, SumType
<1>12. t \in [Seats -> Nat] /\ \A q \in Seats : t[q] = SumFunctionOnSet([l \in L |-> F[l][q]], L)
  <2>1. t \in [Seats -> Nat]
    BY <1>8
  <2>2. ASSUME NEW q \in Seats PROVE t[q] = SumFunctionOnSet([l \in L |-> F[l][q]], L)
    <3>1. PICK v : v = t[q]
      OBVIOUS
    <3>2. [l \in L |-> F[l][q]] = [l \in L |-> Slice(c, v, l)]
      <4> HIDE DEF F, t, L
      <4> QED BY <1>9, <3>1
    <3>3. SumFunctionOnSet([l \in L |-> Slice(c, v, l)], L) = v
      BY <1>8, <3>1, SlicesAdd
    <3> QED BY <3>1, <3>2, <3>3
  <2> QED BY <2>1, <2>2
<1>13. SumFunctionOnSet(s, L) = SumOver(t, Seats)
  <2>1. \A l \in L : s[l] = SumOver(F[l], Seats)
    OBVIOUS
  <2> HIDE DEF s, t, F, L
  <2> QED BY <1>1, <1>9, <1>12, <2>1, SumsSwap
<1>14. TableStakes(c, ante, p) = ante + SumOver(t, Seats)
  BY DEF TableStakes
<1> HIDE DEF f, g, s, t, F, S, L, a
<1>15. SumFunctionOnSet(f, S) <= TableStakes(c, ante, p)
  BY <1>6, <1>7, <1>11, <1>13, <1>14
<1> QED BY <1>4, <1>15 DEF f, S

LEMMA PotsAtStakes ==
  ASSUME NEW c \in [Seats -> Nat], NEW in \in SUBSET Seats, in # {}, NEW ante \in Nat,
         NEW p \in Seats,
         NEW u, \A pot \in SidePots(c, in, ante) :
                  u[pot] = IF Reached(pot, p) THEN pot.amount ELSE 0
  PROVE  SumFunctionOnSet(u, SidePots(c, in, ante)) <= TableStakes(c, ante, p)
<1> DEFINE S == Layers(c, in, ante)
           f == ReachedOf(c, in, ante, p)
           b == Amounts(c, in, ante)
           K == SidePots(c, in, ante)
<1>1. /\ \A x \in S : f[x] \in Int
      /\ SumFunctionOnSet(f, S) <= TableStakes(c, ante, p)
  BY LayersAtStakes
<1>2. /\ IsFiniteSet(S)
      /\ \A x \in S : b[x] = x[2].amount /\ f[x] = IF Reached(x[2], p) THEN x[2].amount ELSE 0
  BY LayersFacts DEF Amounts, ReachedOf
<1>3. \A pot \in K : pot.amount = SumFunctionOnSet(b, Merged(S, pot))
  BY PotsAre
<1> HIDE DEF f, b
<1>4. \A pot \in K : u[pot] = SumFunctionOnSet(f, Merged(S, pot))
  <2> HIDE DEF S
  <2> TAKE pot \in K
  <2>1. PICK T : T = Merged(S, pot)
    OBVIOUS
  <2>2. /\ T \in SUBSET S
        /\ \A x \in T : x[2].eligible = pot.eligible /\ x[2].refundTo = pot.refundTo
    BY <2>1 DEF Merged
  <2>3. IsFiniteSet(T)
    BY <1>2, <2>2, FS_Subset
  <2>4. \A x \in T : Reached(x[2], p) <=> Reached(pot, p)
    BY <2>2 DEF Reached
  <2>5. CASE Reached(pot, p)
    <3>1. \A x \in T : f[x] = b[x]
      BY <1>2, <2>2, <2>4, <2>5
    <3>2. SumFunctionOnSet(f, T) = SumFunctionOnSet(b, T)
      BY <2>3, <3>1, SumSame
    <3> QED BY <1>3, <2>1, <2>5, <3>2
  <2>6. CASE ~Reached(pot, p)
    <3>1. \A x \in T : f[x] = 0
      BY <1>2, <2>2, <2>4, <2>6
    <3>2. SumFunctionOnSet(f, T) = 0
      BY <2>3, <3>1, SumZero
    <3> QED BY <2>1, <2>6, <3>2
  <2> QED BY <2>5, <2>6
<1>5. SumFunctionOnSet(u, K) = SumFunctionOnSet(f, S)
  BY <1>1, <1>4, PotsByLayer
<1> QED BY <1>1, <1>5

\* Nobody collects from a seat more than it put in itself.
LEMMA StakesCapped == SettleInv => CollectsAtTableStakes
<1> SUFFICES ASSUME SettleInv, Settled0, forfeited = {}, NEW p \in stillIn
             PROVE  /\ payout[p] <= TableStakes(paid, deadAnte, p)
                    /\ payout[p] >= Uncalled(paid, Seats, p)
  BY DEF CollectsAtTableStakes
<1>1. /\ paid \in [Seats -> Nat] /\ stillIn \in SUBSET Seats /\ stillIn # {} /\ deadAnte \in Nat
      /\ p \in Seats /\ PotsOf(Pots0, stillIn) /\ IsFiniteSet(Pots0)
  BY HandFacts DEF SettleInv
<1>2. PICK h : /\ payout[p] = SumFunctionOnSet(h, Pots0)
               /\ Pays(h, Pots0, stillIn, forfeited, button, p)
  BY <1>1, PaidPotByPot
<1> DEFINE u == [pot \in Pots0 |-> IF Reached(pot, p) THEN pot.amount ELSE 0]
           r == [pot \in Pots0 |-> Refund(pot, button, p)]
<1>3. \A pot \in Pots0 : u[pot] = IF Reached(pot, p) THEN pot.amount ELSE 0
  OBVIOUS
<1>4. \A pot \in Pots0 : r[pot] = Refund(pot, button, p)
  OBVIOUS
<1> HIDE DEF u, r
<1>5. \A pot \in Pots0 : pot.amount \in Nat
  BY <1>1 DEF PotsOf, GoodPots, Takeable, Pot
<1>6. \A pot \in Pots0 : h[pot] \in Int /\ u[pot] \in Int /\ h[pot] <= u[pot]
  <2> TAKE pot \in Pots0
  <2>1. h[pot] \in Nat /\ h[pot] <= pot.amount
    BY <1>2 DEF Pays
  <2>2. ~Reached(pot, p) => h[pot] = 0
    BY <1>2 DEF Pays, Reached, Refund
  <2> QED BY <1>3, <1>5, <2>1, <2>2
<1>7. \A pot \in Pots0 : r[pot] \in Int /\ r[pot] <= h[pot]
  <2> TAKE pot \in Pots0
  <2>1. h[pot] \in Nat
    BY <1>2 DEF Pays
  <2>2. CASE pot.refundTo # {}
    BY <1>2, <1>4, <2>1, <2>2 DEF Pays
  <2>3. CASE pot.refundTo = {}
    BY <1>4, <2>1, <2>3 DEF Refund
  <2> QED BY <2>2, <2>3
<1>8. SumFunctionOnSet(h, Pots0) <= SumFunctionOnSet(u, Pots0)
  BY <1>1, <1>6, SumMonotone
<1>9. SumFunctionOnSet(r, Pots0) <= SumFunctionOnSet(h, Pots0)
  BY <1>1, <1>6, <1>7, SumMonotone
<1>10. SumFunctionOnSet(u, Pots0) <= TableStakes(paid, deadAnte, p)
  BY <1>1, <1>3, PotsAtStakes DEF Pots0
<1>11. SumFunctionOnSet(r, Pots0) = Uncalled(paid, Seats, p)
  BY <1>1, <1>4, RefundsAddUp
<1>12. /\ SumFunctionOnSet(h, Pots0) \in Int /\ SumFunctionOnSet(u, Pots0) \in Int
       /\ SumFunctionOnSet(r, Pots0) \in Int
  BY <1>1, <1>6, <1>7, SumType
<1>13. TableStakes(paid, deadAnte, p) \in Int
  <2>1. [q \in Seats |-> Least(paid[p], paid[q])] \in [Seats -> Nat]
    BY <1>1 DEF Least
  <2>2. SumOver([q \in Seats |-> Least(paid[p], paid[q])], Seats) \in Nat
    BY <2>1, SumOverType
  <2> QED BY <1>1, <2>2 DEF TableStakes
<1>14. payout[p] <= TableStakes(paid, deadAnte, p)
  BY <1>2, <1>8, <1>10, <1>12, <1>13
<1>15. payout[p] >= Uncalled(paid, Seats, p)
  BY <1>2, <1>9, <1>11, <1>12
<1> QED BY <1>14, <1>15

\* Table stakes: when nobody gives up its claim, no seat still in collects from
\* another more than it put in itself, nor less than the uncalled part of its own
\* bet (hand_side_pots caps every layer, distribute_* pays within eligible).
THEOREM TableStakesHold == SettleSpec => []CollectsAtTableStakes
<1>1. SettleInv => CollectsAtTableStakes
  BY StakesCapped
<1> QED BY <1>1, SettleInvariant, PTL

-----------------------------------------------------------------------------
(* Ties.                                                                   *)

LEMMA ButtonOrderType ==
  ASSUME NEW d \in Seats, NEW p \in Seats
  PROVE  ButtonOrder(d, p) \in Nat
<1>1. Left(d) \in Seats
  BY LeftIsSeat
<1> QED BY <1>1, SeatCount DEF ButtonOrder, Clockwise, Seats

\* The odd chip goes to the nearer of two recipients first.
LEMMA NearerFirst ==
  ASSUME NEW amount \in Nat, NEW ids \in (SUBSET Seats) \ {{}}, NEW d \in Seats,
         NEW p \in Seats, NEW q \in Seats, p \in ids <=> q \in ids,
         ButtonOrder(d, p) < ButtonOrder(d, q)
  PROVE  /\ Share(amount, ids, d, q) <= Share(amount, ids, d, p)
         /\ Share(amount, ids, d, p) <= Share(amount, ids, d, q) + 1
<1> DEFINE P == {x \in ids : ButtonOrder(d, x) < ButtonOrder(d, p)}
           Q == {x \in ids : ButtonOrder(d, x) < ButtonOrder(d, q)}
           k == Cardinality(ids)
<1>1. \A x \in Seats : ButtonOrder(d, x) \in Nat
  BY ButtonOrderType
<1>2. P \subseteq Q
  BY <1>1
<1>3. Cardinality(P) \in Nat /\ Cardinality(Q) \in Nat /\ Cardinality(P) <= Cardinality(Q)
      /\ k \in Nat /\ k # 0
  <2>1. IsFiniteSet(Q) /\ IsFiniteSet(P) /\ IsFiniteSet(ids)
    BY SeatsFinite, FS_Subset
  <2>2. Cardinality(P) <= Cardinality(Q)
    <3> HIDE DEF P, Q
    <3> QED BY <1>2, <2>1, FS_Subset
  <2> QED BY <2>1, <2>2, FS_CardinalityType, FS_EmptySet
<1>4. amount \div k \in Nat /\ amount % k \in Nat
  <2> HIDE DEF k
  <2> QED BY <1>3, DivideParts
<1> DEFINE e == amount \div k
           op == OddChip(amount, ids, d, p)
           oq == OddChip(amount, ids, d, q)
<1>5. /\ op = IF Cardinality(P) < amount % k THEN 1 ELSE 0
      /\ oq = IF Cardinality(Q) < amount % k THEN 1 ELSE 0
  BY DEF OddChip
<1>6. op \in 0 .. 1 /\ oq \in 0 .. 1 /\ oq <= op
  <2> HIDE DEF P, Q, k, op, oq
  <2> QED BY <1>3, <1>4, <1>5
<1>7. /\ Share(amount, ids, d, p) = IF p \in ids /\ amount > 0 THEN e + op ELSE 0
      /\ Share(amount, ids, d, q) = IF q \in ids /\ amount > 0 THEN e + oq ELSE 0
  BY DEF Share
<1>8. e \in Nat
  BY <1>4
<1> HIDE DEF e, op, oq
<1> QED BY <1>6, <1>7, <1>8

(* p and q have the same claims on a pot. *)
Alike(pot, p, q) ==
  /\ p \in pot.eligible <=> q \in pot.eligible
  /\ p \in pot.refundTo <=> q \in pot.refundTo

LEMMA PotsAlike ==
  ASSUME NEW c \in [Seats -> Nat], NEW in \in SUBSET Seats, in # {}, NEW ante \in Nat,
         NEW p \in in, NEW q \in in, c[p] = c[q], NEW pot \in SidePots(c, in, ante)
  PROVE  Alike(pot, p, q)
<1>1. PICK x \in Layers(c, in, ante) : pot.eligible = x[2].eligible /\ pot.refundTo = x[2].refundTo
  BY PotsAre
<1>2. CASE \E l \in Levels(c) : x = <<l, Layer(c, in, l)>>
  <2>1. PICK l \in Levels(c) : x = <<l, Layer(c, in, l)>>
    BY <1>2
  <2>2. Layer(c, in, l).eligible = {r \in in : c[r] >= l}
    BY DEF Layer
  <2>3. \A r \in Seats : r \in Layer(c, in, l).refundTo <=>
                           Returned(Payers(c, l), in) /\ r \in Payers(c, l)
    BY LayerRefund
  <2>4. p \in Payers(c, l) <=> q \in Payers(c, l)
    BY DEF Payers
  <2>5. Alike(Layer(c, in, l), p, q)
    BY <2>2, <2>3, <2>4 DEF Alike
  <2> QED BY <1>1, <2>1, <2>5 DEF Alike
<1>3. CASE x = <<0, AntePot(in, ante)>>
  BY <1>1, <1>3 DEF AntePot, Alike
<1> QED BY <1>2, <1>3, LayersAre

LEMMA WinnersAlike ==
  ASSUME NEW pot, NEW p, NEW q, Alike(pot, p, q), NEW S, p \in S, q \in S,
         NEW rank, rank[p] = rank[q], NEW forf
  PROVE  p \in Winners(pot, S, rank, forf) <=> q \in Winners(pot, S, rank, forf)
<1>1. \A T : (p \in T <=> q \in T) => (p \in Best(T, rank) <=> q \in Best(T, rank))
  BY DEF Best
<1>2. CASE pot.refundTo # {}
  BY <1>2 DEF Winners, Alike
<1>3. CASE pot.refundTo = {} /\ pot.eligible \cap S # {}
  <2>1. Winners(pot, S, rank, forf) = Best(pot.eligible \cap S, rank)
    BY <1>3 DEF Winners
  <2>2. p \in pot.eligible \cap S <=> q \in pot.eligible \cap S
    BY DEF Alike
  <2> QED BY <1>1, <2>1, <2>2
<1>4. CASE pot.refundTo = {} /\ pot.eligible \cap S = {}
  <2>1. Winners(pot, S, rank, forf)
          = IF pot.eligible \cap forf # {} /\ S # {} THEN Best(S, rank) ELSE pot.eligible
    BY <1>4 DEF Winners
  <2>2. p \in Best(S, rank) <=> q \in Best(S, rank)
    BY <1>1
  <2> QED BY <2>1, <2>2 DEF Alike
<1> QED BY <1>2, <1>3, <1>4

\* Sums whose terms differ by at most k differ by at most k a term.
LEMMA CloseSums ==
  ASSUME NEW S, IsFiniteSet(S), NEW f, NEW g, NEW k \in Nat,
         \A x \in S : f[x] \in Nat /\ g[x] \in Nat /\ g[x] <= f[x] /\ f[x] <= g[x] + k
  PROVE  /\ SumFunctionOnSet(g, S) <= SumFunctionOnSet(f, S)
         /\ SumFunctionOnSet(f, S) <= SumFunctionOnSet(g, S) + k * Cardinality(S)
<1> DEFINE e == [x \in S |-> k]
           h == [x \in S |-> g[x] + k]
<1>1. \A x \in S : e[x] = k /\ h[x] = g[x] + e[x] /\ e[x] \in Int /\ g[x] \in Int /\ h[x] \in Int
                   /\ f[x] \in Int /\ f[x] <= h[x] /\ g[x] <= f[x]
  OBVIOUS
<1> HIDE DEF e, h
<1>2. SumFunctionOnSet(g, S) <= SumFunctionOnSet(f, S)
  BY <1>1, SumMonotone
<1>3. SumFunctionOnSet(f, S) <= SumFunctionOnSet(h, S)
  BY <1>1, SumMonotone
<1>4. SumFunctionOnSet(h, S) = SumFunctionOnSet(g, S) + SumFunctionOnSet(e, S)
  BY <1>1, SumPlus
<1>5. SumFunctionOnSet(e, S) = k * Cardinality(S)
  BY <1>1, SumEqual
<1> QED BY <1>2, <1>3, <1>4, <1>5

LEMMA TiesPaidAlike == SettleInv => TiesSplitEvenly
<1> SUFFICES ASSUME SettleInv, path \in {"Showdown", "RunTwice"}, NEW p \in showed, NEW q \in showed,
                    paid[p] = paid[q], strength[p] = strength[q], strength2[p] = strength2[q],
                    ButtonOrder(button, p) < ButtonOrder(button, q)
             PROVE  /\ payout[q] <= payout[p]
                    /\ payout[p] <= payout[q] + (IF path = "RunTwice" THEN 2 ELSE 1)
                                                   * Cardinality(Pots0)
  BY DEF TiesSplitEvenly
<1>1. /\ paid \in [Seats -> Nat] /\ stillIn \in SUBSET Seats /\ stillIn # {}
      /\ deadAnte \in Nat /\ button \in Seats
      /\ PotsOf(Pots0, stillIn) /\ IsFiniteSet(Pots0) /\ PaidAs
  BY HandFacts DEF SettleInv
<1>2. /\ showed \in (SUBSET stillIn) \ {{}} /\ forfeited = stillIn \ showed
      /\ strength \in [Seats -> 1 .. N]
  BY <1>1 DEF PaidAs
<1>3. /\ p \in Seats /\ q \in Seats /\ p \in stillIn /\ q \in stillIn
      /\ showed \in SUBSET Seats /\ forfeited \in SUBSET Seats
  BY <1>1, <1>2
<1>4. \A pot \in Pots0 : Alike(pot, p, q) /\ Takeable(pot)
  BY <1>1, <1>3, PotsAlike DEF Pots0, PotsOf, GoodPots
<1>5. PICK pots : pots = Pots0
  OBVIOUS
<1>6. ASSUME NEW pot \in pots, NEW rank \in [Seats -> 1 .. N], rank[p] = rank[q], NEW a \in Nat,
             NEW w, w = Winners(pot, showed, rank, forfeited)
      PROVE  /\ Share(a, w, button, q) \in Nat /\ Share(a, w, button, p) \in Nat
             /\ Share(a, w, button, q) <= Share(a, w, button, p)
             /\ Share(a, w, button, p) <= Share(a, w, button, q) + 1
  <2>1. w \in (SUBSET Seats) \ {{}}
    BY <1>3, <1>4, <1>5, <1>6, WinnersExist
  <2>2. p \in w <=> q \in w
    BY <1>4, <1>5, <1>6, WinnersAlike
  <2>3. Share(a, w, button, q) \in Nat /\ Share(a, w, button, p) \in Nat
    BY <1>1, <1>3, <2>1, ShareFacts
  <2> QED BY <1>1, <1>3, <2>1, <2>2, <2>3, NearerFirst
<1>7. CASE path = "Showdown"
  <2>1. payout = ShowdownAwards(pots, showed, strength, forfeited, button)
    BY <1>1, <1>5, <1>7 DEF PaidAs
  <2> DEFINE w == Recipients(pots, showed, strength, forfeited)
             f == Shares(pots, w, button, p)
             g == Shares(pots, w, button, q)
  <2>2. payout[p] = SumFunctionOnSet(f, pots) /\ payout[q] = SumFunctionOnSet(g, pots)
    BY <1>3, <2>1 DEF ShowdownAwards, Awards, Recipients, Shares
  <2>3. \A pot \in pots : f[pot] \in Nat /\ g[pot] \in Nat /\ g[pot] <= f[pot] /\ f[pot] <= g[pot] + 1
    <3> TAKE pot \in pots
    <3>1. PICK a : a = pot.amount
      OBVIOUS
    <3>2. PICK v : v = Winners(pot, showed, strength, forfeited)
      OBVIOUS
    <3>3. f[pot] = Share(a, v, button, p) /\ g[pot] = Share(a, v, button, q)
      BY <3>1, <3>2 DEF Recipients, Shares
    <3>4. a \in Nat
      BY <1>4, <1>5, <3>1 DEF Takeable, Pot
    <3> HIDE DEF f, g
    <3> QED BY <1>2, <1>6, <3>2, <3>3, <3>4
  <2> HIDE DEF f, g
  <2>4. /\ SumFunctionOnSet(g, pots) <= SumFunctionOnSet(f, pots)
        /\ SumFunctionOnSet(f, pots) <= SumFunctionOnSet(g, pots) + 1 * Cardinality(pots)
    BY <1>1, <1>5, <2>3, CloseSums
  <2> QED BY <1>5, <1>7, <2>2, <2>4
<1>8. CASE path = "RunTwice"
  <2>1. /\ payout = TwoRunAwards(pots, showed, strength, strength2, forfeited, button)
        /\ strength2 \in [Seats -> 1 .. N]
    BY <1>1, <1>5, <1>8 DEF PaidAs
  <2> DEFINE f == RunsPay(pots, showed, strength, strength2, forfeited, button, p)
             g == RunsPay(pots, showed, strength, strength2, forfeited, button, q)
  <2>2. payout[p] = SumFunctionOnSet(f, pots) /\ payout[q] = SumFunctionOnSet(g, pots)
    <3>1. GoodPots(pots)
      BY <1>1, <1>5 DEF PotsOf
    <3> QED BY <1>1, <1>2, <1>3, <2>1, <3>1, TwoRunsAre
  <2>3. \A pot \in pots : f[pot] \in Nat /\ g[pot] \in Nat /\ g[pot] <= f[pot] /\ f[pot] <= g[pot] + 2
    <3> TAKE pot \in pots
    <3>1. PICK a : a = FirstRun(pot).amount
      OBVIOUS
    <3>2. PICK b : b = SecondRun(pot).amount
      OBVIOUS
    <3>3. PICK v : v = Winners(pot, showed, strength, forfeited)
      OBVIOUS
    <3>4. PICK v2 : v2 = Winners(pot, showed, strength2, forfeited)
      OBVIOUS
    <3>5. /\ f[pot] = Share(a, v, button, p) + Share(b, v2, button, p)
          /\ g[pot] = Share(a, v, button, q) + Share(b, v2, button, q)
      BY <3>1, <3>2, <3>3, <3>4 DEF RunsPay
    <3>6. a \in Nat /\ b \in Nat
      BY <1>4, <1>5, <3>1, <3>2, RunFacts
    <3> HIDE DEF f, g
    <3>7. /\ Share(a, v, button, q) \in Nat /\ Share(a, v, button, p) \in Nat
          /\ Share(a, v, button, q) <= Share(a, v, button, p)
          /\ Share(a, v, button, p) <= Share(a, v, button, q) + 1
      BY <1>2, <1>6, <3>3, <3>6
    <3>8. /\ Share(b, v2, button, q) \in Nat /\ Share(b, v2, button, p) \in Nat
          /\ Share(b, v2, button, q) <= Share(b, v2, button, p)
          /\ Share(b, v2, button, p) <= Share(b, v2, button, q) + 1
      BY <1>6, <2>1, <3>4, <3>6
    <3> QED BY <3>5, <3>7, <3>8
  <2> HIDE DEF f, g
  <2>4. /\ SumFunctionOnSet(g, pots) <= SumFunctionOnSet(f, pots)
        /\ SumFunctionOnSet(f, pots) <= SumFunctionOnSet(g, pots) + 2 * Cardinality(pots)
    BY <1>1, <1>5, <2>3, CloseSums
  <2> QED BY <1>5, <1>8, <2>2, <2>4
<1> QED BY <1>7, <1>8

\* Seats that tie on every board and put in the same are paid alike, but for the
\* odd chips, which go to the left of the button first (odd_chip_recipients).
THEOREM TiesSplit == SettleSpec => []TiesSplitEvenly
<1>1. SettleInv => TiesSplitEvenly
  BY TiesPaidAlike
<1> QED BY <1>1, SettleInvariant, PTL

-----------------------------------------------------------------------------
(* Chips.                                                                  *)

\* Every height somebody reached lies in exactly one layer, and the same seats
\* paid for both.
LEMMA HeightInLayer ==
  ASSUME NEW c \in [Seats -> Nat], NEW h \in Nat \ {0}, Payers(c, h) # {}
  PROVE  \E l \in Levels(c) : Below(c, l) < h /\ h <= l
<1>1. Levels(c) \in SUBSET (Nat \ {0}) /\ \A p \in Seats : c[p] \in Levels(c) \cup {0}
  BY LevelFacts
<1> DEFINE T == {l \in Levels(c) : l >= h}
<1>2. T \in SUBSET Nat /\ T # {}
  <2>1. PICK p \in Payers(c, h) : TRUE
    OBVIOUS
  <2>2. p \in Seats /\ c[p] >= h /\ c[p] \in Nat
    BY DEF Payers
  <2>3. c[p] \in T
    BY <1>1, <2>2
  <2> QED BY <1>1, <2>3
<1>3. PICK l \in T : \A m \in T : l <= m
  <2> HIDE DEF T
  <2> QED BY <1>2, LeastElement
<1>4. /\ Below(c, l) \in Levels(c) \cup {0} /\ Below(c, l) \in Nat /\ Below(c, l) < l
      /\ l \in Nat
  BY <1>1, <1>3, BelowFacts
<1>5. Below(c, l) < h
  <2> SUFFICES ASSUME ~(Below(c, l) < h) PROVE FALSE
    OBVIOUS
  <2>1. Below(c, l) \in T
    BY <1>4
  <2> QED BY <1>3, <1>4, <2>1
<1> QED BY <1>3, <1>4, <1>5

LEMMA LayerOfHeight ==
  ASSUME NEW c \in [Seats -> Nat], NEW h \in Nat, NEW l \in Levels(c), Below(c, l) < h, h <= l
  PROVE  /\ Payers(c, h) = Payers(c, l)
         /\ \A m \in Levels(c) : Below(c, m) < h /\ h <= m => m = l
<1>1. Levels(c) \in SUBSET (Nat \ {0}) /\ \A p \in Seats : c[p] \in Nat /\ c[p] \in Levels(c) \cup {0}
  BY LevelFacts
<1>2. \A m \in Levels(c) : /\ Below(c, m) \in Nat /\ m \in Nat
                           /\ \A n \in Levels(c) : n < m => n <= Below(c, m)
  BY <1>1, BelowFacts
<1>3. \A p \in Seats : c[p] >= h <=> c[p] >= l
  <2> TAKE p \in Seats
  <2>1. ASSUME c[p] >= h, c[p] < l PROVE FALSE
    <3>1. c[p] # 0 /\ c[p] \in Levels(c)
      BY <1>1, <1>2, <2>1
    <3>2. c[p] <= Below(c, l)
      BY <1>2, <2>1, <3>1
    <3> QED BY <1>1, <1>2, <2>1, <3>2
  <2> QED BY <1>1, <1>2, <2>1
<1>4. ASSUME NEW m \in Levels(c), Below(c, m) < h, h <= m PROVE m = l
  <2>1. ~(m < l) /\ ~(l < m)
    BY <1>2, <1>4
  <2> QED BY <1>2, <2>1
<1> QED BY <1>3, <1>4 DEF Payers

(* Money paid by P belongs to the pot. *)
Fits(P, in, pot) ==
  /\ P \cap in = pot.eligible
  /\ (pot.refundTo # {}) = (P \cap in = {} \/ Cardinality(P) = 1)
  /\ pot.refundTo # {} => P = pot.refundTo

LEMMA LayerFits ==
  ASSUME NEW c \in [Seats -> Nat], NEW in \in SUBSET Seats, NEW l \in Levels(c), NEW pot \in Pot
  PROVE  Fits(Payers(c, l), in, pot) <=>
           Layer(c, in, l).eligible = pot.eligible /\ Layer(c, in, l).refundTo = pot.refundTo
<1> DEFINE P == Payers(c, l)
           R == Layer(c, in, l).refundTo
<1>1. P \in SUBSET Seats /\ P # {}
  <2>1. PICK p \in Seats : c[p] = l
    BY LevelFacts
  <2>2. l \in Nat
    BY LevelFacts
  <2> QED BY <2>1, <2>2 DEF Payers
<1>2. Layer(c, in, l).eligible = P \cap in
  <2>1. Layer(c, in, l).eligible = {p \in in : c[p] >= l}
    BY DEF Layer
  <2> QED BY <2>1 DEF Payers
<1>3. \A q \in Seats : q \in R <=> Returned(P, in) /\ q \in P
  BY LayerRefund
<1>4. R \in SUBSET Seats
  BY LayerFacts DEF Pot
<1>5. Returned(P, in) <=> (P \cap in = {} \/ Cardinality(P) = 1)
  <2>1. IsFiniteSet(P)
    BY <1>1, SeatsFinite, FS_Subset
  <2>2. ASSUME Cardinality(P) = 1 PROVE Returned(P, in)
    <3>1. PICK x : P = {x}
      BY <2>1, <2>2, FS_Singleton
    <3> HIDE DEF P
    <3> QED BY <3>1 DEF Returned
  <2>3. ASSUME Returned(P, in), P \cap in # {} PROVE Cardinality(P) = 1
    <3>1. PICK x : P = {x}
      BY <2>3 DEF Returned
    <3>2. Cardinality({x}) = 1
      BY FS_Singleton
    <3> QED BY <3>1, <3>2
  <2> HIDE DEF P
  <2> QED BY <2>2, <2>3 DEF Returned
<1> HIDE DEF P, R
<1>6. CASE Returned(P, in)
  <2>1. R = P
    BY <1>1, <1>3, <1>4, <1>6
  <2>2. (P \cap in = {} \/ Cardinality(P) = 1) = TRUE
    BY <1>5, <1>6
  <2>3. Fits(P, in, pot) <=> P \cap in = pot.eligible /\ P = pot.refundTo
    BY <1>1, <2>2 DEF Fits
  <2> QED BY <1>2, <2>1, <2>3 DEF P, R
<1>7. CASE ~Returned(P, in)
  <2>1. R = {}
    BY <1>3, <1>4, <1>7
  <2>2. (P \cap in = {} \/ Cardinality(P) = 1) = FALSE
    BY <1>5, <1>7
  <2>3. Fits(P, in, pot) <=> P \cap in = pot.eligible /\ {} = pot.refundTo
    BY <1>1, <2>2 DEF Fits
  <2> QED BY <1>2, <2>1, <2>3 DEF P, R
<1> QED BY <1>6, <1>7

(* The chips of a pot, as pairs of a height and the seat that paid it. *)
Heights(c, in, m, pot) == {h \in 1 .. m : Payers(c, h) # {} /\ Fits(Payers(c, h), in, pot)}
Chips(c, in, m, pot) == {x \in Heights(c, in, m, pot) \X Seats : x[2] \in Payers(c, x[1])}
Depth(c, l) == (Below(c, l) + 1) .. l
LevelsOf(c, in, pot) == {l \in Levels(c) : Fits(Payers(c, l), in, pot)}

\* The chips of one level are its layer.
LEMMA LevelChips ==
  ASSUME NEW c \in [Seats -> Nat], NEW in \in SUBSET Seats, NEW l \in Levels(c)
  PROVE  /\ IsFiniteSet(Depth(c, l) \X Payers(c, l))
         /\ Cardinality(Depth(c, l) \X Payers(c, l)) = Layer(c, in, l).amount
<1> DEFINE P == Payers(c, l)
           D == Depth(c, l)
<1>1. /\ Layer(c, in, l).amount = (l - Below(c, l)) * Cardinality(P)
      /\ l \in Nat /\ Below(c, l) \in Nat /\ Below(c, l) < l
  <2>1. Layer(c, in, l).amount = (l - Below(c, l)) * Cardinality(Payers(c, l))
    BY LayerAmount
  <2>2. l \in Nat /\ Below(c, l) \in Nat /\ Below(c, l) < l
    BY BelowFacts, LevelFacts
  <2> QED BY <2>1, <2>2
<1>2. IsFiniteSet(P)
  BY SeatsFinite, FS_Subset DEF Payers
<1>3. IsFiniteSet(D) /\ Cardinality(D) = l - Below(c, l)
  <2>1. Below(c, l) + 1 \in Int /\ l \in Int /\ ~(Below(c, l) + 1 > l)
    BY <1>1
  <2>2. IsFiniteSet(D) /\ Cardinality(D) = l - (Below(c, l) + 1) + 1
    BY <2>1, FS_Interval DEF Depth
  <2> QED BY <1>1, <2>2
<1> HIDE DEF P, D
<1>4. IsFiniteSet(D \X P) /\ Cardinality(D \X P) = Cardinality(D) * Cardinality(P)
  BY <1>2, <1>3, FS_Product
<1> QED BY <1>1, <1>3, <1>4 DEF P, D

\* The chips of a pot are the layers that fit it.
LEMMA ChipsByLevel ==
  ASSUME NEW m \in Nat, NEW c \in [Seats -> Nat], \A p \in Seats : c[p] <= m,
         NEW in \in SUBSET Seats, NEW pot \in Pot,
         NEW g, \A l \in LevelsOf(c, in, pot) : g[l] = Layer(c, in, l).amount
  PROVE  Cardinality(Chips(c, in, m, pot)) = SumFunctionOnSet(g, LevelsOf(c, in, pot))
<1> DEFINE X == Chips(c, in, m, pot)
           L == LevelsOf(c, in, pot)
           k == [x \in X |-> CHOOSE l \in Levels(c) : Below(c, l) < x[1] /\ x[1] <= l]
           f == [x \in X |-> 1]
           G == [l \in L |-> Depth(c, l) \X Payers(c, l)]
<1>1. /\ Levels(c) \in SUBSET (Nat \ {0}) /\ IsFiniteSet(Levels(c)) /\ L \in SUBSET Levels(c)
      /\ \A l \in Levels(c) : l <= m
  BY LevelFacts DEF LevelsOf
<1>2. IsFiniteSet(X) /\ IsFiniteSet(L)
  <2>1. IsFiniteSet((1 .. m) \X Seats)
    <3>1. IsFiniteSet(1 .. m)
      BY FS_Interval
    <3> QED BY <3>1, FS_Product, SeatsFinite
  <2>2. X \subseteq (1 .. m) \X Seats
    BY DEF Chips, Heights
  <2> QED BY <1>1, <2>1, <2>2, FS_Subset
<1>3. ASSUME NEW x \in X
      PROVE  /\ x[1] \in Nat \ {0} /\ x[2] \in Payers(c, x[1]) /\ x = <<x[1], x[2]>>
             /\ k[x] \in L /\ Below(c, k[x]) < x[1] /\ x[1] <= k[x]
             /\ Payers(c, x[1]) = Payers(c, k[x])
  <2>1. /\ x[1] \in 1 .. m /\ x[2] \in Payers(c, x[1]) /\ x = <<x[1], x[2]>>
        /\ Payers(c, x[1]) # {} /\ Fits(Payers(c, x[1]), in, pot)
    BY DEF Chips, Heights
  <2>2. PICK h \in Nat \ {0} : h = x[1]
    BY <2>1
  <2>3. \E l \in Levels(c) : Below(c, l) < h /\ h <= l
    BY <2>1, <2>2, HeightInLayer
  <2>4. k[x] = CHOOSE l \in Levels(c) : Below(c, l) < h /\ h <= l
    BY <2>2
  <2> HIDE DEF k
  <2>5. k[x] \in Levels(c) /\ Below(c, k[x]) < h /\ h <= k[x]
    BY <2>3, <2>4
  <2>6. PICK l \in Levels(c) : l = k[x]
    BY <2>5
  <2>7. Payers(c, h) = Payers(c, l)
    BY <2>5, <2>6, LayerOfHeight
  <2>8. l \in L
    BY <2>1, <2>2, <2>7 DEF LevelsOf
  <2> QED BY <2>1, <2>2, <2>5, <2>6, <2>7, <2>8
<1>4. ASSUME NEW l \in L, NEW x, x \in G[l]
      PROVE  x \in X /\ k[x] = l
  <2>1. x \in Depth(c, l) \X Payers(c, l)
    BY <1>4
  <2>2. PICK h \in Depth(c, l), p \in Payers(c, l) : x = <<h, p>>
    BY <2>1
  <2>3. l \in Levels(c) /\ l \in Nat /\ Below(c, l) \in Nat /\ Fits(Payers(c, l), in, pot) /\ l <= m
    BY <1>1, BelowFacts DEF LevelsOf
  <2>4. h \in Nat /\ Below(c, l) < h /\ h <= l
    BY <2>2, <2>3 DEF Depth
  <2>5. Payers(c, h) = Payers(c, l) /\ \A n \in Levels(c) : Below(c, n) < h /\ h <= n => n = l
    BY <2>3, <2>4, LayerOfHeight
  <2>6. h \in 1 .. m
    BY <2>3, <2>4
  <2>7. p \in Seats
    BY DEF Payers
  <2>8. x \in X
    <3>1. h \in Heights(c, in, m, pot)
      BY <2>2, <2>3, <2>5, <2>6 DEF Heights
    <3> QED BY <2>2, <2>5, <2>7, <3>1 DEF Chips
  <2>9. x[1] = h
    BY <2>2
  <2>10. k[x] \in L /\ Below(c, k[x]) < x[1] /\ x[1] <= k[x]
    BY <1>3, <2>8
  <2> HIDE DEF k
  <2> QED BY <1>1, <2>5, <2>8, <2>9, <2>10
<1>5. \A l \in L : \A x : x \in G[l] <=> x \in X /\ k[x] = l
  <2> SUFFICES ASSUME NEW l \in L, NEW x, x \in X, k[x] = l PROVE x \in G[l]
    BY <1>4
  <2>1. /\ x[1] \in Nat \ {0} /\ x[2] \in Payers(c, x[1]) /\ x = <<x[1], x[2]>>
        /\ Below(c, l) < x[1] /\ x[1] <= l /\ Payers(c, x[1]) = Payers(c, l)
    BY <1>3
  <2>2. l \in Nat /\ Below(c, l) \in Nat
    BY <1>1, BelowFacts
  <2>3. x[1] \in Depth(c, l)
    BY <2>1, <2>2 DEF Depth
  <2>4. x \in Depth(c, l) \X Payers(c, l)
    BY <2>1, <2>3
  <2> QED BY <2>4
<1>6. \A l \in L : g[l] = SumFunctionOnSet(f, G[l])
  <2> TAKE l \in L
  <2>1. PICK T : T = Depth(c, l) \X Payers(c, l)
    OBVIOUS
  <2>2. IsFiniteSet(T) /\ Cardinality(T) = g[l]
    BY <1>1, <2>1, LevelChips
  <2>3. G[l] = T
    BY <2>1
  <2>4. \A x \in T : f[x] = 1
    BY <1>5, <2>3
  <2> HIDE DEF f, G
  <2>5. SumFunctionOnSet(f, T) = 1 * Cardinality(T)
    BY <2>2, <2>4, SumEqual
  <2>6. Cardinality(T) \in Nat
    BY <2>2, FS_CardinalityType
  <2> QED BY <2>2, <2>3, <2>5, <2>6
<1>7. /\ \A x \in X : f[x] = 1
      /\ \A x \in X : f[x] \in Int
  OBVIOUS
<1>8. \A x \in X : k[x] \in L
  BY <1>3
<1> HIDE DEF k, f, G, X, L
<1>9. SumFunctionOnSet(g, L) = SumFunctionOnSet(f, X)
  BY <1>2, <1>5, <1>6, <1>7, <1>8, SumByGivenGroups
<1>10. SumFunctionOnSet(f, X) = 1 * Cardinality(X)
  BY <1>2, <1>7, SumEqual
<1>11. Cardinality(X) \in Nat
  BY <1>2, FS_CardinalityType
<1> QED BY <1>9, <1>10, <1>11 DEF X, L

\* A pot holds the layers that fit it, and the ante if it is the main pot.
LEMMA PotByLevel ==
  ASSUME NEW c \in [Seats -> Nat], NEW in \in SUBSET Seats, in # {}, NEW ante \in Nat,
         NEW pot \in SidePots(c, in, ante),
         NEW g, \A l \in LevelsOf(c, in, pot) : g[l] = Layer(c, in, l).amount
  PROVE  pot.amount = SumFunctionOnSet(g, LevelsOf(c, in, pot))
                        + (IF pot.eligible = in /\ pot.refundTo = {} THEN ante ELSE 0)
<1> DEFINE S == Layers(c, in, ante)
           T == Merged(S, pot)
           b == Amounts(c, in, ante)
           f == [x \in S |-> IF x \in T THEN b[x] ELSE 0]
           e == [l \in Levels(c) |-> f[<<l, Layer(c, in, l)>>]]
           a == <<0, AntePot(in, ante)>>
           L == LevelsOf(c, in, pot)
<1>1. /\ IsFiniteSet(S) /\ T \in SUBSET S /\ pot \in Pot
      /\ \A x \in S : b[x] = x[2].amount /\ b[x] \in Int
  <2>1. IsFiniteSet(S) /\ \A x \in S : x[2].amount \in Nat
    BY LayersFacts DEF Takeable, Pot
  <2>2. \A x \in S : b[x] = x[2].amount
    BY DEF Amounts
  <2>3. pot \in Pot
    BY SidePotsHoldAll DEF GoodPots, Takeable
  <2>4. T \in SUBSET S
    BY DEF Merged
  <2> HIDE DEF S, T, b
  <2> QED BY <2>1, <2>2, <2>3, <2>4
<1>2. pot.amount = SumFunctionOnSet(b, T)
  BY PotsAre
<1>3. \A x \in S : f[x] = (IF x \in T THEN b[x] ELSE 0) /\ f[x] \in Int
  <2> HIDE DEF S, T, b
  <2> QED BY <1>1
<1> HIDE DEF b, f
<1>4. SumFunctionOnSet(f, S) = SumFunctionOnSet(b, T)
  <2> HIDE DEF S, T
  <2> QED BY <1>1, <1>3, SumRestricted
<1>5. PICK v : v = IF ante > 0 THEN f[a] ELSE 0
  OBVIOUS
<1>6. SumFunctionOnSet(f, S) = SumFunctionOnSet(e, Levels(c)) + v
  <2>1. \A x \in Layers(c, in, ante) : f[x] \in Int
    BY <1>3
  <2>2. \A l \in Levels(c) : e[l] = f[<<l, Layer(c, in, l)>>]
    OBVIOUS
  <2>3. v = IF ante > 0 THEN f[<<0, AntePot(in, ante)>>] ELSE 0
    BY <1>5
  <2>4. ByLevel(f, e, v, c, in, ante)
    BY <2>1, <2>2, <2>3 DEF ByLevel
  <2> HIDE DEF e
  <2> QED BY <2>4, LayersSum
<1>7. \A l \in Levels(c) : e[l] = IF l \in L THEN g[l] ELSE 0
  <2> TAKE l \in Levels(c)
  <2>1. PICK z : z = <<l, Layer(c, in, l)>>
    OBVIOUS
  <2>2. z \in S /\ z[2] = Layer(c, in, l)
    BY <2>1, LayersAre
  <2>3. z \in T <=> Layer(c, in, l).eligible = pot.eligible /\ Layer(c, in, l).refundTo = pot.refundTo
    BY <2>2 DEF Merged
  <2>4. z \in T <=> l \in L
    BY <1>1, <2>3, LayerFits DEF LevelsOf
  <2>5. e[l] = f[z]
    BY <2>1
  <2> HIDE DEF S, T, L, e
  <2> QED BY <1>1, <1>3, <2>2, <2>4, <2>5 DEF L
<1>8. \A l \in L : g[l] \in Int
  <2> TAKE l \in L
  <2>1. l \in Levels(c)
    BY DEF LevelsOf
  <2>2. Layer(c, in, l).amount \in Nat
    BY <2>1, LayerFacts DEF Pot
  <2> QED BY <2>2
<1>9. SumFunctionOnSet(e, Levels(c)) = SumFunctionOnSet(g, L) /\ SumFunctionOnSet(g, L) \in Int
  <2>1. IsFiniteSet(Levels(c)) /\ L \in SUBSET Levels(c)
    BY LevelFacts DEF LevelsOf
  <2> HIDE DEF e, L
  <2> QED BY <1>7, <1>8, <2>1, SumRestricted
<1>10. v = IF pot.eligible = in /\ pot.refundTo = {} THEN ante ELSE 0
  <2>1. CASE ante > 0
    <3>1. a \in S
      BY <2>1, LayersAre
    <3>2. a \in T <=> pot.eligible = in /\ pot.refundTo = {}
      BY <3>1 DEF Merged, AntePot
    <3>3. b[a] = ante
      BY <1>1, <3>1 DEF AntePot
    <3> HIDE DEF a, S, T
    <3> QED BY <1>3, <1>5, <2>1, <3>1, <3>2, <3>3
  <2>2. CASE ~(ante > 0)
    BY <1>5, <2>2
  <2> QED BY <2>1, <2>2
<1> QED BY <1>2, <1>4, <1>6, <1>9, <1>10

LEMMA PotsHoldChips == SettleInv => PotsAreLayersOfChips
<1> SUFFICES ASSUME SettleInv PROVE PotsAreLayersOfChips
  OBVIOUS
<1>1. /\ paid \in [Seats -> Nat] /\ stillIn \in SUBSET Seats /\ stillIn # {} /\ deadAnte \in Nat
      /\ MaxBet \in Nat
  BY HandFacts, SettlementAssumption DEF SettleInv
<1>2. \A p \in Seats : paid[p] <= MaxBet
  BY <1>1 DEF SettleInv
<1>3. ASSUME NEW pot \in Pots0
      PROVE  pot.amount = Cardinality(Chips(paid, stillIn, MaxBet, pot))
                   + (IF pot.eligible = stillIn /\ pot.refundTo = {} THEN deadAnte ELSE 0)
  <2>1. pot \in SidePots(paid, stillIn, deadAnte) /\ pot \in Pot
    BY HandFacts DEF Pots0, PotsOf, GoodPots, Takeable
  <2> DEFINE g == [l \in LevelsOf(paid, stillIn, pot) |-> Layer(paid, stillIn, l).amount]
  <2>2. \A l \in LevelsOf(paid, stillIn, pot) : g[l] = Layer(paid, stillIn, l).amount
    OBVIOUS
  <2> HIDE DEF g
  <2>3. pot.amount = SumFunctionOnSet(g, LevelsOf(paid, stillIn, pot))
                        + (IF pot.eligible = stillIn /\ pot.refundTo = {} THEN deadAnte ELSE 0)
    BY <1>1, <2>1, <2>2, PotByLevel
  <2>4. Cardinality(Chips(paid, stillIn, MaxBet, pot))
          = SumFunctionOnSet(g, LevelsOf(paid, stillIn, pot))
    BY <1>1, <1>2, <2>1, <2>2, ChipsByLevel
  <2> QED BY <2>3, <2>4
<1> QED BY <1>3 DEF PotsAreLayersOfChips, Chips, Heights, Fits, Payers

\* Side pots are exactly the chips, whatever the contributions: a pot holds the
\* chips of the heights that the same seats reached and the same seats may win,
\* and the main pot the dead ante (hand_side_pots).
THEOREM PotsAreChips == SettleSpec => []PotsAreLayersOfChips
<1>1. SettleInv => PotsAreLayersOfChips
  BY PotsHoldChips
<1> QED BY <1>1, SettleInvariant, PTL
=============================================================================
