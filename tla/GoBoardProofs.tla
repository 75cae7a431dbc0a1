---------------------------- MODULE GoBoardProofs ----------------------------
(***************************************************************************)
(* Proofs about GoBoard, for boards of every size.                         *)
(*                                                                         *)
(* The code finds the stones to take with a search from the last stone;    *)
(* the rules take every stone without a liberty, wherever it stands.  The  *)
(* argument has four parts:                                                *)
(*   - what the search finds is the least set of stones closed under       *)
(*     adjacency (the recursion is followed down to the full set of        *)
(*     stones: a largest set of found stones for which this fails would    *)
(*     have a larger one);                                                 *)
(*   - on a board where no stone was without a liberty, every stone that   *)
(*     a move leaves without one is found from the neighbours of the move  *)
(*     or belongs to its own group, and afterwards there is none again;    *)
(*   - GtpToXy keeps the lines that start at a stone, and with them the    *)
(*     dead stones, when no stone is put in columns A and B or in the last *)
(*     one (AwayFromEdges);                                                *)
(*   - hence the two boards stay equal, with equal counts.                 *)
(***************************************************************************)
EXTENDS GoBoard, FiniteSetTheorems, WellFoundedInduction, TLAPS

\* Closed under adjacency inside a set of points.
ClosedIn(points, S) == \A p \in points : Neighbors(p) \cap S \subseteq points

\* The least set of points of S around group that is closed under adjacency.
Closure(group, S) ==
    {p \in S : \A T \in SUBSET S : group \subseteq T /\ ClosedIn(T, S) => p \in T}

-----------------------------------------------------------------------------
\* A closed set holds a group exactly if it holds the group and its neighbours.
LEMMA ClosureUnfolds ==
    ASSUME NEW S, NEW group \in SUBSET S
    PROVE  LET more == (UNION {Neighbors(p) : p \in group}) \cap S
           IN  Closure(group, S) = IF more \subseteq group THEN group
                                   ELSE Closure(group \cup more, S)
<1> DEFINE more == (UNION {Neighbors(p) : p \in group}) \cap S
<1>1. CASE more \subseteq group
  <2>1. ClosedIn(group, S)
    BY <1>1 DEF ClosedIn
  <2>2. Closure(group, S) = group
    BY <2>1 DEF Closure
  <2> QED
    BY <1>1, <2>2
<1>2. CASE ~(more \subseteq group)
  <2>1. \A T \in SUBSET S : ClosedIn(T, S) => (group \subseteq T <=> group \cup more \subseteq T)
    BY DEF ClosedIn
  <2>2. Closure(group, S) = Closure(group \cup more, S)
    BY <2>1 DEF Closure
  <2> QED
    BY <1>2, <2>2
<1> QED
  BY <1>1, <1>2

\* The loop over the stack ends with the stones connected to the first one:
\* they are connected stones of its colour, and no closed set holds fewer.
LEMMA GroupIsLeastClosed ==
    ASSUME NEW board, NEW color, IsFiniteSet(DOMAIN board),
           NEW start \in StonesOf(board, color)
    PROVE  LET S == StonesOf(board, color)
               G == GroupOf(board, start, color)
           IN  /\ start \in G /\ G \subseteq S /\ ClosedIn(G, S)
               /\ \A T \in SUBSET S : start \in T /\ ClosedIn(T, S) => G \subseteq T
<1> DEFINE S == StonesOf(board, color)
           More(group) == (UNION {Neighbors(p) : p \in group}) \cap S
           Grow[group \in SUBSET S] ==
               IF More(group) \subseteq group THEN group ELSE Grow[group \cup More(group)]
           Least(group, G) ==
               /\ group \subseteq G /\ G \subseteq S /\ ClosedIn(G, S)
               /\ \A T \in SUBSET S : group \subseteq T /\ ClosedIn(T, S) => G \subseteq T
<1>1. IsFiniteSet(S)
  BY FS_Subset DEF StonesOf
<1>2. GroupOf(board, start, color) = Grow[{start}]
  BY DEF GroupOf
<1>3. \E f : f = [group \in SUBSET S |->
                    IF More(group) \subseteq group THEN group ELSE f[group \cup More(group)]]
  <2> DEFINE f == [group \in SUBSET S |-> Closure(group, S)]
  <2>1. \A group \in SUBSET S :
           f[group] = IF More(group) \subseteq group THEN group ELSE f[group \cup More(group)]
    BY ClosureUnfolds
  <2>2. f = [group \in SUBSET S |->
               IF More(group) \subseteq group THEN group ELSE f[group \cup More(group)]]
    BY <2>1
  <2> QED
    BY <2>2
<1>4. Grow = [group \in SUBSET S |->
                IF More(group) \subseteq group THEN group ELSE Grow[group \cup More(group)]]
  BY <1>3 DEF Grow
<1> HIDE DEF Grow
<1>5. ASSUME NEW group \in SUBSET S,
             \A g \in SUBSET S : group \subseteq g /\ group # g => Least(g, Grow[g])
      PROVE  Least(group, Grow[group])
  <2>1. CASE More(group) \subseteq group
    <3>1. Grow[group] = group
      BY <1>4, <2>1
    <3>2. ClosedIn(group, S)
      BY <2>1 DEF ClosedIn
    <3> QED
      BY <3>1, <3>2
  <2>2. CASE ~(More(group) \subseteq group)
    <3> DEFINE g == group \cup More(group)
    <3>1. g \in SUBSET S /\ group \subseteq g /\ group # g
      BY <2>2
    <3>2. Grow[group] = Grow[g]
      BY <1>4, <2>2
    <3>3. \A T \in SUBSET S : group \subseteq T /\ ClosedIn(T, S) => g \subseteq T
      BY DEF ClosedIn
    <3> HIDE DEF More, g
    <3>4. Least(g, Grow[g])
      BY <1>5, <3>1
    <3> QED
      BY <3>1, <3>2, <3>3, <3>4
  <2> QED
    BY <2>1, <2>2
<1>6. \A group \in SUBSET S : Least(group, Grow[group])
  <2> HIDE DEF S, Least, More
  <2> DEFINE Bad == {rest \in SUBSET S : ~Least(S \ rest, Grow[S \ rest])}
  <2> SUFFICES ASSUME Bad # {} PROVE FALSE
    <3> SUFFICES ASSUME Bad = {}, NEW group \in SUBSET S
                 PROVE  Least(group, Grow[group])
      OBVIOUS
    <3>1. S \ group \in SUBSET S /\ S \ (S \ group) = group
      OBVIOUS
    <3>2. Least(S \ (S \ group), Grow[S \ (S \ group)])
      BY <3>1
    <3> QED
      BY <3>1, <3>2
  <2>1. IsWellFoundedOn(StrictSubsetOrdering(S), SUBSET S)
    BY <1>1, FS_StrictSubsetOrderingWellFounded, FS_FiniteSubsetsOfFinite
  <2>2. Bad \subseteq SUBSET S
    OBVIOUS
  <2>3. PICK rest \in Bad : \A r \in Bad : ~(<<r, rest>> \in StrictSubsetOrdering(S))
    <3> HIDE DEF Bad
    <3> QED
      BY <2>1, <2>2, WFMin, Zenon
  <2>4. \A g \in SUBSET S : S \ rest \subseteq g /\ S \ rest # g => Least(g, Grow[g])
    <3> SUFFICES ASSUME NEW g \in SUBSET S, S \ rest \subseteq g, S \ rest # g
                 PROVE  Least(g, Grow[g])
      OBVIOUS
    <3>1. S \ g \subseteq rest /\ S \ g # rest /\ S \ g \in SUBSET S /\ rest \in SUBSET S
      OBVIOUS
    <3>2. <<S \ g, rest>> \in StrictSubsetOrdering(S)
      BY <3>1 DEF StrictSubsetOrdering
    <3>3. S \ g \notin Bad
      BY <2>3, <3>2
    <3>4. S \ (S \ g) = g
      OBVIOUS
    <3> QED
      BY <3>1, <3>3, <3>4
  <2>5. Least(S \ rest, Grow[S \ rest])
    BY <1>5, <2>4
  <2> QED
    BY <2>5
<1>7. Least({start}, Grow[{start}])
  BY <1>6
<1> QED
  BY <1>2, <1>7
-----------------------------------------------------------------------------
\* The points that Neighbors knows.
XyBoard == (1 .. Size) \X (1 .. Size)

\* Stones of one colour, whole groups of them, that touch no empty point.
Lifeless(points, board, color) ==
    /\ points \subseteq StonesOf(board, color)
    /\ \A p \in points : \A q \in Neighbors(p) :
          q \in DOMAIN board /\ (board[q] = color => q \in points)

\* The same rule as Dead, on the code's board.
DeadXy(board, color) ==
    UNION {points \in SUBSET StonesOf(board, color) : Lifeless(points, board, color)}

\* What the loop of the code needs to find on the board it is given.
Settled(board, color) == DeadXy(board, color) = {}

\* Adjacency works both ways, and stays inside 1..Size.
LEMMA NeighborsAreMutual ==
    ASSUME NEW p \in XyBoard, NEW q \in Neighbors(p)
    PROVE  q \in XyBoard /\ p \in Neighbors(q)
<1> USE GoBoardAssumption DEF GoBoardAssumption
<1>1. PICK x \in 1 .. Size, y \in 1 .. Size : p = <<x, y>>
  BY DEF XyBoard
<1>2. q \in {<<x + 1, y>>, <<x - 1, y>>, <<x, y + 1>>, <<x, y - 1>>}
  BY <1>1 DEF Neighbors, Around
<1>3. q[1] \in 1 .. Size /\ q[2] \in 1 .. Size
  BY DEF Neighbors
<1>4. q = <<q[1], q[2]>>
  BY <1>2
<1>5. p \in Around(q)
  BY <1>1, <1>2 DEF Around
<1> QED
  BY <1>1, <1>3, <1>4, <1>5 DEF XyBoard, Neighbors

\* What is left after stones are taken.
LEMMA StonesTaken ==
    ASSUME NEW board, NEW points
    PROVE  /\ DOMAIN Without(board, points) = DOMAIN board \ points
           /\ \A q \in DOMAIN board \ points : Without(board, points)[q] = board[q]
BY DEF Without, Restrict

\* The dead stones are lifeless together.
LEMMA DeadIsLifeless ==
    ASSUME NEW board, NEW color
    PROVE  /\ Lifeless(DeadXy(board, color), board, color)
           /\ \A points : Lifeless(points, board, color) => points \subseteq DeadXy(board, color)
<1>1. \A points : Lifeless(points, board, color) => points \subseteq DeadXy(board, color)
  BY DEF DeadXy, Lifeless
<1>2. DeadXy(board, color) \subseteq StonesOf(board, color)
  BY DEF DeadXy
<1>3. ASSUME NEW p \in DeadXy(board, color), NEW q \in Neighbors(p)
      PROVE  q \in DOMAIN board /\ (board[q] = color => q \in DeadXy(board, color))
  <2>1. PICK points \in SUBSET StonesOf(board, color) :
           p \in points /\ Lifeless(points, board, color)
    BY DEF DeadXy
  <2>2. q \in DOMAIN board /\ (board[q] = color => q \in points)
    BY <2>1 DEF Lifeless
  <2> QED
    BY <2>1, <2>2 DEF DeadXy
<1> QED
  BY <1>1, <1>2, <1>3 DEF Lifeless

\* To take stones off the board kills nobody: what is lifeless afterwards was
\* so before.
LEMMA LifelessBefore ==
    ASSUME NEW board, NEW color, NEW taken, NEW points,
           Lifeless(points, Without(board, taken), color)
    PROVE  Lifeless(points, board, color) /\ points \cap taken = {}
<1> DEFINE rest == Without(board, taken)
<1>1. /\ DOMAIN rest = DOMAIN board \ taken
      /\ \A q \in DOMAIN rest : rest[q] = board[q]
  BY StonesTaken
<1> HIDE DEF rest
<1>2. Lifeless(points, rest, color)
  BY DEF rest
<1>3. points \subseteq StonesOf(board, color) /\ points \cap taken = {}
  BY <1>1, <1>2 DEF Lifeless, StonesOf
<1> QED
  BY <1>1, <1>2, <1>3 DEF Lifeless

\* Taking stones off leaves no other stone without a liberty.
LEMMA TakingKillsNobody ==
    ASSUME NEW board, NEW color, NEW taken
    PROVE  DeadXy(Without(board, taken), color) \subseteq DeadXy(board, color) \ taken
BY LifelessBefore, DeadIsLifeless

\* A group without a liberty is lifeless, and lies in every lifeless set that
\* holds one of its stones.
LEMMA LifelessGroup ==
    ASSUME NEW board, NEW color, IsFiniteSet(DOMAIN board),
           NEW start \in StonesOf(board, color)
    PROVE  LET G == GroupOf(board, start, color)
           IN  /\ ~HasLiberty(board, G) => Lifeless(G, board, color)
               /\ \A points : start \in points /\ Lifeless(points, board, color) =>
                     G \subseteq points /\ ~HasLiberty(board, G)
<1> DEFINE S == StonesOf(board, color)
           G == GroupOf(board, start, color)
<1>1. /\ start \in G /\ G \subseteq S /\ ClosedIn(G, S)
      /\ \A T \in SUBSET S : start \in T /\ ClosedIn(T, S) => G \subseteq T
  BY GroupIsLeastClosed
<1> HIDE DEF G
<1>2. HasLiberty(board, G) <=> \E p \in G : \E q \in Neighbors(p) : q \notin DOMAIN board
  BY DEF HasLiberty
<1>3. ~HasLiberty(board, G) => Lifeless(G, board, color)
  BY <1>1, <1>2 DEF Lifeless, ClosedIn, StonesOf
<1>4. ASSUME NEW points, start \in points, Lifeless(points, board, color)
      PROVE  G \subseteq points /\ ~HasLiberty(board, G)
  <2>1. points \in SUBSET S /\ ClosedIn(points, S)
    BY <1>4 DEF Lifeless, ClosedIn, StonesOf
  <2>2. G \subseteq points
    BY <1>1, <1>4, <2>1
  <2> QED
    BY <1>2, <1>4, <2>2 DEF Lifeless
<1> QED
  BY <1>3, <1>4 DEF G

\* Two stones of one group have the same group.
LEMMA GroupIsMutual ==
    ASSUME NEW board, NEW color, DOMAIN board \subseteq XyBoard, IsFiniteSet(DOMAIN board),
           NEW p \in StonesOf(board, color), NEW q \in GroupOf(board, p, color)
    PROVE  /\ q \in StonesOf(board, color)
           /\ p \in GroupOf(board, q, color)
           /\ GroupOf(board, q, color) \subseteq GroupOf(board, p, color)
<1> DEFINE S == StonesOf(board, color)
           P == GroupOf(board, p, color)
           Q == GroupOf(board, q, color)
<1>1. /\ p \in P /\ P \subseteq S /\ ClosedIn(P, S)
      /\ \A T \in SUBSET S : p \in T /\ ClosedIn(T, S) => P \subseteq T
  BY GroupIsLeastClosed
<1>2. q \in S
  BY <1>1
<1>3. /\ q \in Q /\ Q \subseteq S /\ ClosedIn(Q, S)
      /\ \A T \in SUBSET S : q \in T /\ ClosedIn(T, S) => Q \subseteq T
  BY <1>2, GroupIsLeastClosed
<1>4. \A x \in S : \A y \in Neighbors(x) : x \in Neighbors(y)
  BY NeighborsAreMutual DEF StonesOf
<1>5. q \in P
  OBVIOUS
<1> HIDE DEF S, P, Q
<1>6. ClosedIn(S \ Q, S)
  BY <1>3, <1>4 DEF ClosedIn
<1>7. p \in Q
  <2> SUFFICES ASSUME p \in S \ Q PROVE FALSE
    BY <1>1
  <2>1. P \subseteq S \ Q
    BY <1>1, <1>6
  <2> QED
    BY <1>3, <1>5, <2>1
<1>8. Q \subseteq P
  BY <1>1, <1>3, <1>5
<1> QED
  BY <1>2, <1>7, <1>8 DEF S, P, Q
-----------------------------------------------------------------------------
\* The search is over finite sets of points.
LEMMA XyBoardIsFinite ==
    ASSUME NEW points \in SUBSET XyBoard
    PROVE  IsFiniteSet(points)
<1>1. IsFiniteSet(1 .. Size)
  BY GoBoardAssumption, FS_Interval DEF GoBoardAssumption
<1>2. IsFiniteSet(XyBoard)
  BY <1>1, FS_Product DEF XyBoard
<1> QED
  BY <1>2, FS_Subset

\* A lifeless set that appears with a stone has a neighbour of that stone, or
\* the stone itself.
LEMMA NewlyLifeless ==
    ASSUME NEW board, NEW xy \in XyBoard \ DOMAIN board, NEW color, NEW dead,
           DOMAIN board \subseteq XyBoard, Settled(board, dead),
           NEW points, Lifeless(points, With(board, xy, color), dead),
           points # {}, xy \notin points
    PROVE  points \cap Neighbors(xy) # {}
<1> DEFINE placed == With(board, xy, color)
<1>1. /\ DOMAIN placed = DOMAIN board \cup {xy}
      /\ \A q \in DOMAIN board : q # xy => placed[q] = board[q]
  BY DEF With
<1> HIDE DEF placed
<1>2. Lifeless(points, placed, dead)
  BY DEF placed
<1> SUFFICES ASSUME points \cap Neighbors(xy) = {} PROVE FALSE
  OBVIOUS
<1>3. points \subseteq StonesOf(board, dead)
  BY <1>1, <1>2 DEF Lifeless, StonesOf
<1>4. ASSUME NEW p \in points, NEW q \in Neighbors(p)
      PROVE  q \in DOMAIN board /\ (board[q] = dead => q \in points)
  <2>1. p \in XyBoard
    BY <1>3 DEF StonesOf
  <2>2. q # xy
    BY <2>1, NeighborsAreMutual
  <2> QED
    BY <1>1, <1>2, <2>2 DEF Lifeless
<1>5. Lifeless(points, board, dead)
  BY <1>3, <1>4 DEF Lifeless
<1> QED
  BY <1>5, DeadIsLifeless DEF Settled

\* The search from the neighbours of the new stone finds every opposing stone
\* that the new stone leaves without a liberty.
LEMMA CapturedIsDead ==
    ASSUME NEW board, NEW xy \in XyBoard \ DOMAIN board, NEW color, NEW opponent,
           color # opponent, DOMAIN board \subseteq XyBoard, Settled(board, opponent)
    PROVE  LET placed == With(board, xy, color)
           IN  Captured(placed, xy, opponent) = DeadXy(placed, opponent)
<1> DEFINE placed == With(board, xy, color)
           S == StonesOf(placed, opponent)
           Group(n) == GroupOf(placed, n, opponent)
<1>1. /\ DOMAIN placed \subseteq XyBoard /\ IsFiniteSet(DOMAIN placed)
      /\ xy \notin S
  <2>1. DOMAIN placed = DOMAIN board \cup {xy} /\ placed[xy] = color
    BY DEF With
  <2> HIDE DEF placed
  <2> QED
    BY <2>1, XyBoardIsFinite DEF StonesOf
<1>2. \A p : p \in Captured(placed, xy, opponent) <=>
             \E n \in Neighbors(xy) \cap S : p \in Group(n) /\ ~HasLiberty(placed, Group(n))
  BY DEF Captured
<1>3. ASSUME NEW n \in S, ~HasLiberty(placed, Group(n))
      PROVE  Group(n) \subseteq DeadXy(placed, opponent)
  <2>1. Lifeless(Group(n), placed, opponent)
    BY <1>1, <1>3, LifelessGroup
  <2> QED
    BY <2>1, DeadIsLifeless
<1>4. ASSUME NEW p \in DeadXy(placed, opponent)
      PROVE  \E n \in Neighbors(xy) \cap S : p \in Group(n) /\ ~HasLiberty(placed, Group(n))
  <2>1. p \in S /\ Lifeless(DeadXy(placed, opponent), placed, opponent)
    BY DeadIsLifeless DEF Lifeless
  <2>2. ~HasLiberty(placed, Group(p))
    BY <1>1, <2>1, LifelessGroup
  <2>3. p \in Group(p) /\ Group(p) \subseteq S /\ Lifeless(Group(p), placed, opponent)
    BY <1>1, <2>1, <2>2, LifelessGroup, GroupIsLeastClosed
  <2>4. PICK n \in Group(p) : n \in Neighbors(xy)
    <3>1. xy \notin Group(p) /\ Group(p) # {}
      BY <1>1, <2>3
    <3> HIDE DEF Group
    <3>2. Group(p) \cap Neighbors(xy) # {}
      BY <2>3, <3>1, NewlyLifeless
    <3> QED
      BY <3>2
  <2>5. /\ n \in S /\ p \in Group(n)
        /\ Group(n) \subseteq Group(p)
    BY <1>1, <2>1, GroupIsMutual
  <2>6. n \in DeadXy(placed, opponent)
    BY <2>3, DeadIsLifeless
  <2>7. ~HasLiberty(placed, Group(n))
    BY <1>1, <2>1, <2>5, <2>6, LifelessGroup
  <2> QED
    BY <2>4, <2>5, <2>7
<1> HIDE DEF placed, S, Group
<1>5. Captured(placed, xy, opponent) = DeadXy(placed, opponent)
  BY <1>2, <1>3, <1>4
<1> QED
  BY <1>5 DEF placed

\* Once the captures are taken, the new stone's own group is the only one of its
\* colour that can be without a liberty.
LEMMA OwnGroupIsDead ==
    ASSUME NEW board, NEW xy \in XyBoard \ DOMAIN board, NEW color, NEW captured,
           DOMAIN board \subseteq XyBoard, Settled(board, color), xy \notin captured
    PROVE  LET taken == Without(With(board, xy, color), captured)
           IN  AfterOwnCheck(taken, xy, color) = Without(taken, DeadXy(taken, color))
<1> DEFINE placed == With(board, xy, color)
           taken == Without(placed, captured)
           own == GroupOf(taken, xy, color)
           D == DeadXy(taken, color)
<1>1. /\ DOMAIN placed = DOMAIN board \cup {xy} /\ placed[xy] = color
      /\ DOMAIN taken = DOMAIN placed \ captured
      /\ taken[xy] = color
  <2>1. DOMAIN placed = DOMAIN board \cup {xy} /\ placed[xy] = color
    BY DEF With
  <2> HIDE DEF placed
  <2> QED
    BY <2>1, StonesTaken
<1>2. /\ DOMAIN taken \subseteq XyBoard /\ IsFiniteSet(DOMAIN taken)
      /\ xy \in StonesOf(taken, color)
  BY <1>1, XyBoardIsFinite DEF StonesOf
<1>3. Without(taken, {}) = taken
  BY DEF Without, Restrict
<1> HIDE DEF taken, placed
<1>4. ASSUME NEW points, Lifeless(points, taken, color), xy \notin points
      PROVE  points = {}
  <2> SUFFICES ASSUME points # {} PROVE FALSE
    OBVIOUS
  <2>1. Lifeless(points, placed, color)
    BY <1>4, LifelessBefore DEF taken
  <2>2. PICK q \in points : q \in Neighbors(xy)
    BY <1>4, <2>1, NewlyLifeless DEF placed
  <2>3. xy \in Neighbors(q)
    BY <2>2, NeighborsAreMutual
  <2> QED
    BY <1>1, <1>4, <2>1, <2>3 DEF Lifeless
<1>5. /\ xy \in own /\ own \subseteq StonesOf(taken, color)
      /\ ClosedIn(own, StonesOf(taken, color))
  BY <1>2, GroupIsLeastClosed
<1>6. D \subseteq own
  <2>1. Lifeless(D, taken, color)
    BY DeadIsLifeless
  <2> HIDE DEF D, own
  <2>2. ASSUME NEW p \in D \ own, NEW q \in Neighbors(p)
        PROVE  q \in DOMAIN taken /\ (taken[q] = color => q \in D \ own)
    <3>1. q \in DOMAIN taken /\ (taken[q] = color => q \in D)
      BY <2>1 DEF Lifeless
    <3>2. p \in StonesOf(taken, color) /\ p \in XyBoard
      BY <1>2, <2>1 DEF Lifeless, StonesOf
    <3>3. p \in Neighbors(q)
      BY <3>2, NeighborsAreMutual
    <3>4. q \notin own
      BY <1>5, <3>2, <3>3 DEF ClosedIn
    <3> QED
      BY <3>1, <3>4
  <2>3. Lifeless(D \ own, taken, color)
    BY <2>1, <2>2 DEF Lifeless
  <2>4. D \ own = {}
    BY <1>4, <1>5, <2>3
  <2> QED
    BY <2>4
<1>7. CASE HasLiberty(taken, own)
  <2>1. xy \notin D
    BY <1>2, <1>7, DeadIsLifeless, LifelessGroup
  <2>2. D = {}
    BY <1>4, <2>1, DeadIsLifeless
  <2> HIDE DEF own, D
  <2>3. AfterOwnCheck(taken, xy, color) = taken
    BY <1>7 DEF AfterOwnCheck, own
  <2> QED
    BY <1>3, <2>2, <2>3 DEF D, taken, placed
<1>8. CASE ~HasLiberty(taken, own)
  <2>1. own \subseteq D
    BY <1>2, <1>8, DeadIsLifeless, LifelessGroup
  <2>2. own = D
    BY <1>6, <2>1
  <2> HIDE DEF own, D
  <2>3. AfterOwnCheck(taken, xy, color) = Without(taken, own)
    BY <1>8 DEF AfterOwnCheck, own
  <2> QED
    BY <2>2, <2>3 DEF D, taken, placed
<1> QED
  BY <1>7, <1>8
-----------------------------------------------------------------------------
\* There are two colours.
LEMMA OpponentIsTheOther ==
    ASSUME NEW color \in Colors
    PROVE  /\ Opponent(color) \in Colors /\ Opponent(color) # color
           /\ Colors = {color, Opponent(color)}
<1>1. IsFiniteSet(Colors \ {color}) /\ Cardinality(Colors \ {color}) = 1
  BY FS_RemoveElement, GoBoardAssumption DEF GoBoardAssumption
<1>2. PICK c : Colors \ {color} = {c}
  BY <1>1, FS_Singleton
<1> QED
  BY <1>2 DEF Opponent

\* One turn of the loop takes exactly the stones that have no liberty, first the
\* opponent's and then the player's, and leaves no such stone behind.
LEMMA PlacedTakesTheDead ==
    ASSUME NEW board, NEW xy \in XyBoard \ DOMAIN board, NEW color \in Colors,
           DOMAIN board \subseteq XyBoard, \A c \in Colors : Settled(board, c)
    PROVE  LET placed == With(board, xy, color)
               taken == Without(placed, DeadXy(placed, Opponent(color)))
           IN  /\ Placed(board, xy, color) = Without(taken, DeadXy(taken, color))
               /\ \A c \in Colors : Settled(Placed(board, xy, color), c)
<1> DEFINE placed == With(board, xy, color)
           captured == DeadXy(placed, Opponent(color))
           taken == Without(placed, captured)
           final == Without(taken, DeadXy(taken, color))
<1>1. /\ Opponent(color) \in Colors /\ Opponent(color) # color
      /\ Colors = {color, Opponent(color)}
  BY OpponentIsTheOther
<1>2. Captured(placed, xy, Opponent(color)) = captured
  BY <1>1, CapturedIsDead
<1>3. xy \notin captured
  <2>1. placed[xy] = color
    BY DEF With
  <2>2. captured \subseteq StonesOf(placed, Opponent(color))
    BY DEF DeadXy
  <2> HIDE DEF placed, captured
  <2> QED
    BY <1>1, <2>1, <2>2 DEF StonesOf
<1>4. Placed(board, xy, color) = final
  <2>1. Placed(board, xy, color) = AfterOwnCheck(taken, xy, color)
    BY <1>2 DEF Placed
  <2> HIDE DEF captured
  <2>2. AfterOwnCheck(taken, xy, color) = final
    BY <1>3, OwnGroupIsDead
  <2> QED
    BY <2>1, <2>2
<1>5. Settled(final, color)
  <2> HIDE DEF taken
  <2> QED
    BY TakingKillsNobody DEF Settled
<1>6. Settled(final, Opponent(color))
  <2>1. DeadXy(taken, Opponent(color)) = {}
    <3> HIDE DEF placed
    <3> QED
      BY TakingKillsNobody
  <2> HIDE DEF taken
  <2> QED
    BY <2>1, TakingKillsNobody DEF Settled
<1> QED
  BY <1>1, <1>4, <1>5, <1>6

-----------------------------------------------------------------------------
\* The code's board is the goban, read through GtpToXy.
Matches(board, position) ==
    /\ DOMAIN board = {GtpToXy(p) : p \in DOMAIN position}
    /\ \A p \in DOMAIN position : board[GtpToXy(p)] = position[p]

\* At the points where stones are put, GtpToXy keeps points and lines.
LEMMA PointsMatch ==
    ASSUME AwayFromEdges
    PROVE  /\ \A p \in Played : p \in Goban /\ GtpToXy(p) \in XyBoard
           /\ \A p, q \in Goban : GtpToXy(p) = GtpToXy(q) => p = q
           /\ \A p \in Played : \A q \in Around(p) \cap Goban :
                 GtpToXy(q) \in Neighbors(GtpToXy(p))
           /\ \A p \in Played : \A n \in Neighbors(GtpToXy(p)) :
                 \E q \in Around(p) \cap Goban : GtpToXy(q) = n
<1> USE GoBoardAssumption DEF GoBoardAssumption
<1>1. ASSUME NEW p \in Played
      PROVE  \E x \in 3 .. Size - 1, y \in 1 .. Size : p = <<x, y>>
  BY <1>1 DEF AwayFromEdges
<1>2. ASSUME NEW p \in Played PROVE p \in Goban /\ GtpToXy(p) \in XyBoard
  BY <1>1, <1>2 DEF GtpToXy, XyBoard, Goban
<1>3. ASSUME NEW p \in Goban, NEW q \in Goban, GtpToXy(p) = GtpToXy(q) PROVE p = q
  BY <1>3 DEF GtpToXy, Goban
<1>4. ASSUME NEW p \in Played, NEW q \in Around(p) \cap Goban
      PROVE  GtpToXy(q) \in Neighbors(GtpToXy(p))
  <2>1. PICK x \in 3 .. Size - 1, y \in 1 .. Size : p = <<x, y>>
    BY <1>1
  <2>2. GtpToXy(p) = <<x - 1, y>>
    BY <2>1 DEF GtpToXy
  <2>3. q \in {<<x + 1, y>>, <<x - 1, y>>, <<x, y + 1>>, <<x, y - 1>>}
    BY <2>1 DEF Around
  <2>4. GtpToXy(q)[1] \in 1 .. Size /\ GtpToXy(q)[2] \in 1 .. Size
    BY <2>3 DEF GtpToXy, Goban
  <2>5. GtpToXy(q) \in Around(<<x - 1, y>>)
    BY <2>3 DEF GtpToXy, Around
  <2> QED
    BY <2>2, <2>4, <2>5 DEF Neighbors
<1>5. ASSUME NEW p \in Played, NEW n \in Neighbors(GtpToXy(p))
      PROVE  \E q \in Around(p) \cap Goban : GtpToXy(q) = n
  <2>1. PICK x \in 3 .. Size - 1, y \in 1 .. Size : p = <<x, y>>
    BY <1>1
  <2>2. GtpToXy(p) = <<x - 1, y>>
    BY <2>1 DEF GtpToXy
  <2>3. n \in {<<x, y>>, <<x - 2, y>>, <<x - 1, y + 1>>, <<x - 1, y - 1>>}
    BY <2>2 DEF Neighbors, Around
  <2>4. n[1] \in 1 .. Size /\ n[2] \in 1 .. Size
    BY DEF Neighbors
  <2> DEFINE q == <<n[1] + 1, n[2]>>
  <2>5. q \in Around(p)
    BY <2>1, <2>3 DEF Around
  <2>6. q \in Goban
    BY <2>3, <2>4 DEF Goban
  <2>7. GtpToXy(q) = n
    BY <2>3 DEF GtpToXy
  <2> QED
    BY <2>5, <2>6, <2>7
<1> QED
  BY <1>2, <1>3, <1>4, <1>5

\* A stone put on both boards leaves them equal.
LEMMA StonePlacedMatches ==
    ASSUME AwayFromEdges, NEW board, NEW position, Matches(board, position),
           DOMAIN position \subseteq Played, NEW p \in Played, NEW color
    PROVE  Matches(With(board, GtpToXy(p), color), With(position, p, color))
<1>1. \A q, r \in Goban : GtpToXy(q) = GtpToXy(r) => q = r
  BY PointsMatch
<1>2. \A q \in DOMAIN position :
         GtpToXy(q) \in DOMAIN board /\ board[GtpToXy(q)] = position[q]
  BY DEF Matches
<1>3. DOMAIN board \cup {GtpToXy(p)} = {GtpToXy(q) : q \in DOMAIN position \cup {p}}
  BY DEF Matches
<1>4. p \in Goban /\ DOMAIN position \subseteq Goban
  BY PointsMatch
<1> QED
  BY <1>1, <1>2, <1>3, <1>4 DEF Matches, With

\* The same stones taken off both boards leave them equal.
LEMMA StonesTakenMatch ==
    ASSUME NEW board, NEW position, Matches(board, position), NEW xys, NEW points,
           \A p \in DOMAIN position : p \in points <=> GtpToXy(p) \in xys
    PROVE  Matches(Without(board, xys), Without(position, points))
<1>1. \A q \in DOMAIN position \ points :
         GtpToXy(q) \in DOMAIN board \ xys /\ board[GtpToXy(q)] = position[q]
  BY DEF Matches
<1>2. DOMAIN board \ xys = {GtpToXy(q) : q \in DOMAIN position \ points}
  BY DEF Matches
<1> QED
  BY <1>1, <1>2 DEF Matches, Without, Restrict

\* The rules see the same dead stones on both boards.
LEMMA DeadMatch ==
    ASSUME AwayFromEdges, NEW board, NEW position, Matches(board, position),
           DOMAIN position \subseteq Played, NEW color, NEW p \in DOMAIN position
    PROVE  p \in Dead(position, color) <=> GtpToXy(p) \in DeadXy(board, color)
<1>1. \A q \in DOMAIN position :
         GtpToXy(q) \in DOMAIN board /\ board[GtpToXy(q)] = position[q]
  BY DEF Matches
<1>2. \A n \in DOMAIN board : \E q \in DOMAIN position : GtpToXy(q) = n
  BY DEF Matches
<1>3. ASSUME p \in Dead(position, color)
      PROVE  GtpToXy(p) \in DeadXy(board, color)
  <2>1. PICK D \in SUBSET StonesOf(position, color) :
           /\ p \in D
           /\ \A q \in D : \A r \in Around(q) \cap Goban :
                 r \in DOMAIN position /\ (position[r] = color => r \in D)
    BY <1>3 DEF Dead
  <2> DEFINE E == {GtpToXy(q) : q \in D}
  <2>2. E \subseteq StonesOf(board, color)
    BY <1>1 DEF StonesOf
  <2>3. ASSUME NEW e \in E, NEW n \in Neighbors(e)
        PROVE  n \in DOMAIN board /\ (board[n] = color => n \in E)
    <3>1. PICK q \in D : e = GtpToXy(q)
      OBVIOUS
    <3>2. q \in Played
      BY DEF StonesOf
    <3>3. PICK r \in Around(q) \cap Goban : GtpToXy(r) = n
      BY <3>1, <3>2, PointsMatch
    <3>4. r \in DOMAIN position /\ (position[r] = color => r \in D)
      BY <2>1
    <3> QED
      BY <1>1, <3>3, <3>4
  <2>4. Lifeless(E, board, color)
    BY <2>2, <2>3 DEF Lifeless
  <2>5. E \subseteq DeadXy(board, color)
    BY <2>4, DeadIsLifeless
  <2> QED
    BY <2>1, <2>5
<1>4. ASSUME GtpToXy(p) \in DeadXy(board, color)
      PROVE  p \in Dead(position, color)
  <2> DEFINE E == DeadXy(board, color)
             D == {q \in DOMAIN position : GtpToXy(q) \in E}
  <2>1. Lifeless(E, board, color)
    BY DeadIsLifeless
  <2> HIDE DEF E
  <2>2. D \in SUBSET StonesOf(position, color)
    BY <1>1, <2>1 DEF Lifeless, StonesOf
  <2>3. ASSUME NEW q \in D, NEW r \in Around(q) \cap Goban
        PROVE  r \in DOMAIN position /\ (position[r] = color => r \in D)
    <3>1. GtpToXy(r) \in Neighbors(GtpToXy(q))
      BY PointsMatch
    <3>2. GtpToXy(r) \in DOMAIN board /\ (board[GtpToXy(r)] = color => GtpToXy(r) \in E)
      BY <2>1, <3>1 DEF Lifeless
    <3>3. PICK s \in DOMAIN position : GtpToXy(s) = GtpToXy(r)
      BY <1>2, <3>2
    <3>4. r \in DOMAIN position
      BY <3>3, PointsMatch
    <3> QED
      BY <1>1, <3>2, <3>4
  <2>4. p \in D
    BY <1>4 DEF E
  <2> HIDE DEF D
  <2> QED
    BY <2>2, <2>3, <2>4 DEF Dead
<1> QED
  BY <1>3, <1>4
-----------------------------------------------------------------------------
\* How many points are occupied, and how many empty.
LEMMA Occupied ==
    ASSUME NEW board, NEW points, DOMAIN board \subseteq points,
           IsFiniteSet(points), Cardinality(points) = Size * Size
    PROVE  Size * Size - Cardinality(DOMAIN board) \in 0 .. Size * Size
<1>1. /\ IsFiniteSet(DOMAIN board) /\ Cardinality(DOMAIN board) <= Size * Size
  BY FS_Subset
<1>2. Cardinality(DOMAIN board) \in Nat /\ Size * Size \in Int
  BY <1>1, FS_CardinalityType, GoBoardAssumption DEF GoBoardAssumption
<1> QED
  BY <1>1, <1>2

\* Both boards have Size * Size points.
LEMMA BoardSizes ==
    /\ IsFiniteSet((0 .. Size - 1) \X (1 .. Size))
    /\ Cardinality((0 .. Size - 1) \X (1 .. Size)) = Size * Size
    /\ IsFiniteSet(Goban)
    /\ Cardinality(Goban) = Size * Size
<1> USE GoBoardAssumption DEF GoBoardAssumption
<1>1. /\ IsFiniteSet(1 .. Size) /\ Cardinality(1 .. Size) = Size
  BY FS_Interval
<1>2. /\ IsFiniteSet(0 .. Size - 1) /\ Cardinality(0 .. Size - 1) = Size
  BY FS_Interval
<1>3. ASSUME NEW columns, NEW rows, IsFiniteSet(columns), IsFiniteSet(rows),
             Cardinality(columns) = Size, Cardinality(rows) = Size
      PROVE  IsFiniteSet(columns \X rows) /\ Cardinality(columns \X rows) = Size * Size
  BY <1>3, FS_Product
<1> QED
  BY <1>1, <1>2, <1>3 DEF Goban

\* A turn only adds the stone that is played, by the loop and by the rules.
LEMMA OnlyTheStone ==
    ASSUME NEW board, NEW p, NEW color \in Colors, Range(board) \subseteq Colors
    PROVE  /\ DOMAIN Placed(board, p, color) \subseteq DOMAIN board \cup {p}
           /\ Range(Placed(board, p, color)) \subseteq Colors
           /\ DOMAIN ByTheRules(board, p, color) \subseteq DOMAIN board \cup {p}
           /\ Range(ByTheRules(board, p, color)) \subseteq Colors
<1> DEFINE Fewer(b) == DOMAIN b \subseteq DOMAIN board \cup {p} /\ Range(b) \subseteq Colors
<1>1. Fewer(With(board, p, color))
  BY DEF With, Range
<1>2. ASSUME NEW b, NEW points, Fewer(b) PROVE Fewer(Without(b, points))
  BY <1>2 DEF Without, Restrict, Range
<1>3. ASSUME NEW b, Fewer(b) PROVE Fewer(AfterOwnCheck(b, p, color))
  BY <1>2, <1>3 DEF AfterOwnCheck
<1> HIDE DEF Fewer
<1>4. Fewer(Placed(board, p, color))
  BY <1>1, <1>2, <1>3 DEF Placed
<1>5. Fewer(ByTheRules(board, p, color))
  BY <1>1, <1>2 DEF ByTheRules
<1> QED
  BY <1>4, <1>5 DEF Fewer

\* Every point of the board has its xy, column A included (GTP_COLS starts at A).
LEMMA XyOfAMove ==
    ASSUME NEW sgf \in SgfPoints
    PROVE  GtpToXy(SgfCoordToGtp(sgf)) \in (0 .. Size - 1) \X (1 .. Size)
BY GoBoardAssumption DEF GoBoardAssumption, SgfPoints, SgfCoordToGtp, GtpToXy

\* The empty board has its types.
LEMMA InitTypeOK == Init => TypeOK
<1> SUFFICES ASSUME Init PROVE TypeOK
  OBVIOUS
<1>1. DOMAIN stones = {} /\ DOMAIN goban = {}
  BY DEF Init
<1>2. Size * Size \in 0 .. Size * Size
  BY GoBoardAssumption DEF GoBoardAssumption
<1> QED
  BY <1>1, <1>2 DEF TypeOK, Range, Init

\* Every move keeps the types, wherever it is played.
LEMMA StepKeepsTypeOK == TypeOK /\ [Next]_vars => TypeOK'
<1> SUFFICES ASSUME TypeOK, [Next]_vars PROVE TypeOK'
  OBVIOUS
<1>1. ASSUME CountEmpty PROVE {counted', expected'} \subseteq 0 .. Size * Size
  <2>1. DOMAIN goban \subseteq Goban
    BY GoBoardAssumption DEF GoBoardAssumption, TypeOK, Goban
  <2> QED
    BY <1>1, <2>1, Occupied, BoardSizes DEF CountEmpty, TypeOK
<1>2. CASE Pass
  BY <1>1, <1>2 DEF Pass, TypeOK
<1>3. ASSUME NEW color \in Colors, NEW sgf \in SgfPoints, Move(color, sgf) PROVE TypeOK'
  <2> DEFINE gtp == SgfCoordToGtp(sgf)
             xy == GtpToXy(gtp)
  <2>1. /\ gtp \in Played /\ CountEmpty
        /\ stones' = Placed(stones, xy, color) /\ goban' = ByTheRules(goban, gtp, color)
    BY <1>3 DEF Move
  <2>2. xy \in (0 .. Size - 1) \X (1 .. Size)
    BY XyOfAMove
  <2> HIDE DEF gtp, xy
  <2>3. Range(stones) \subseteq Colors /\ Range(goban) \subseteq Colors
    BY DEF TypeOK
  <2>4. /\ DOMAIN stones' \subseteq DOMAIN stones \cup {xy} /\ Range(stones') \subseteq Colors
        /\ DOMAIN goban' \subseteq DOMAIN goban \cup {gtp} /\ Range(goban') \subseteq Colors
    BY <2>1, <2>3, OnlyTheStone
  <2> QED
    BY <1>1, <2>1, <2>2, <2>4 DEF TypeOK
<1>4. CASE UNCHANGED vars
  BY <1>4 DEF vars, TypeOK
<1> QED
  BY <1>2, <1>3, <1>4 DEF Next

\* The replay keeps to the board: stones on its points, counts within its size.
THEOREM TypeCorrectness == Spec => []TypeOK
BY InitTypeOK, StepKeepsTypeOK, PTL DEF Spec

-----------------------------------------------------------------------------
\* Two boards that match have as many stones.
LEMMA AsManyStones ==
    ASSUME AwayFromEdges, NEW board, NEW position, Matches(board, position),
           DOMAIN position \subseteq Played
    PROVE  Cardinality(DOMAIN board) = Cardinality(DOMAIN position)
<1> DEFINE xyOf == [p \in DOMAIN position |-> GtpToXy(p)]
<1>1. IsFiniteSet(DOMAIN position)
  BY PointsMatch, BoardSizes, FS_Subset
<1>2. xyOf \in Bijection(DOMAIN position, DOMAIN board)
  BY PointsMatch DEF Matches, Bijection, Injection, Surjection, IsInjective
<1> QED
  BY <1>1, <1>2, FS_Bijection DEF ExistsBijection

\* Next to the property itself: no stone of either board is without a liberty
\* between two moves.  The search from the last stone misses the stones that had
\* none before it was played.
IInv ==
    /\ TypeOK
    /\ ReplayFollowsRules
    /\ \A color \in Colors : Settled(stones, color)

\* Away from the edges, all the stones of the code lie where _neighbors looks.
LEMMA MatchesInBounds ==
    ASSUME AwayFromEdges, TypeOK, ReplayFollowsRules
    PROVE  /\ Matches(stones, goban) /\ DOMAIN goban \subseteq Played
           /\ DOMAIN stones \subseteq XyBoard
<1>1. Matches(stones, goban) /\ DOMAIN goban \subseteq Played
  BY DEF ReplayFollowsRules, Matches, TypeOK
<1>2. DOMAIN stones \subseteq XyBoard
  BY <1>1, PointsMatch DEF Matches
<1> QED
  BY <1>1, <1>2

\* The empty board satisfies the invariant.
LEMMA InitEstablishesIInv == Init => IInv
<1> SUFFICES ASSUME Init PROVE IInv
  OBVIOUS
<1>1. DOMAIN stones = {} /\ DOMAIN goban = {} /\ counted = expected
  BY DEF Init
<1> QED
  BY <1>1, InitTypeOK DEF IInv, ReplayFollowsRules, Settled, DeadXy, StonesOf

\* A move leaves the boards equal and no stone without a liberty.
LEMMA StepKeepsMatch ==
    ASSUME AwayFromEdges, IInv, NEW color \in Colors, NEW sgf \in SgfPoints, Move(color, sgf)
    PROVE  Matches(stones, goban)' /\ \A c \in Colors : Settled(stones', c)
<1> DEFINE gtp == SgfCoordToGtp(sgf)
           xy == GtpToXy(gtp)
           placed == With(stones, xy, color)
           taken == Without(placed, DeadXy(placed, Opponent(color)))
           gPlaced == With(goban, gtp, color)
           gTaken == Without(gPlaced, Dead(gPlaced, Opponent(color)))
<1>1. /\ gtp \in Played \ DOMAIN goban
      /\ stones' = Placed(stones, xy, color)
      /\ goban' = Without(gTaken, Dead(gTaken, color))
  BY DEF Move, ByTheRules
<1>2. /\ Matches(stones, goban) /\ DOMAIN goban \subseteq Played
      /\ DOMAIN stones \subseteq XyBoard
  BY MatchesInBounds DEF IInv
<1> HIDE DEF gtp
<1>3. xy \in XyBoard \ DOMAIN stones
  BY <1>1, <1>2, PointsMatch DEF Matches
<1>4. /\ Placed(stones, xy, color) = Without(taken, DeadXy(taken, color))
      /\ \A c \in Colors : Settled(Placed(stones, xy, color), c)
  BY <1>2, <1>3, PlacedTakesTheDead DEF IInv
<1>5. Matches(placed, gPlaced) /\ DOMAIN gPlaced \subseteq Played
  <2>1. DOMAIN gPlaced \subseteq Played
    BY <1>1, <1>2 DEF With
  <2>2. Matches(placed, gPlaced)
    BY <1>1, <1>2, StonePlacedMatches
  <2> QED
    BY <2>1, <2>2
<1> HIDE DEF placed, gPlaced
<1>6. Matches(taken, gTaken) /\ DOMAIN gTaken \subseteq Played
  <2>1. DOMAIN gTaken \subseteq Played
    <3> DEFINE dead == Dead(gPlaced, Opponent(color))
    <3> HIDE DEF dead
    <3>1. DOMAIN Without(gPlaced, dead) = DOMAIN gPlaced \ dead
      BY StonesTaken
    <3>2. DOMAIN Without(gPlaced, dead) \subseteq Played
      BY <1>5, <3>1
    <3> QED
      BY <3>2 DEF dead
  <2>2. Matches(taken, gTaken)
    BY <1>5, DeadMatch, StonesTakenMatch
  <2> QED
    BY <2>1, <2>2
<1> HIDE DEF taken, gTaken
<1>7. Matches(Without(taken, DeadXy(taken, color)), Without(gTaken, Dead(gTaken, color)))
  BY <1>6, DeadMatch, StonesTakenMatch
<1>8. Matches(stones', goban')
  BY <1>1, <1>4, <1>7
<1> QED
  BY <1>1, <1>4, <1>8 DEF Matches

\* Every step keeps the invariant when the stones stay away from the edges.
LEMMA StepKeepsIInv == ASSUME AwayFromEdges PROVE IInv /\ [Next]_vars => IInv'
<1> SUFFICES ASSUME IInv, [Next]_vars PROVE IInv'
  OBVIOUS
<1>1. TypeOK'
  BY StepKeepsTypeOK DEF IInv
<1>2. ASSUME CountEmpty PROVE counted' = expected'
  <2>1. Cardinality(DOMAIN stones) = Cardinality(DOMAIN goban)
    BY MatchesInBounds, AsManyStones DEF IInv
  <2> QED
    BY <1>2, <2>1 DEF CountEmpty
<1>3. CASE Pass
  BY <1>1, <1>2, <1>3 DEF Pass, IInv, ReplayFollowsRules
<1>4. ASSUME NEW color \in Colors, NEW sgf \in SgfPoints, Move(color, sgf) PROVE IInv'
  <2>1. counted' = expected'
    BY <1>2, <1>4 DEF Move
  <2>2. Matches(stones, goban)' /\ \A c \in Colors : Settled(stones', c)
    BY <1>4, StepKeepsMatch
  <2> QED
    BY <1>1, <2>1, <2>2 DEF IInv, ReplayFollowsRules, Matches
<1>5. CASE UNCHANGED vars
  BY <1>1, <1>5 DEF vars, IInv, ReplayFollowsRules
<1> QED
  BY <1>3, <1>4, <1>5 DEF Next

\* When no stone is put in columns A and B or in the last one, the replay is the
\* game: the same stones after every move, captures and suicides included, and
\* so the true number of empty points before each.
THEOREM RulesFollowed ==
    ASSUME AwayFromEdges
    PROVE  Spec => []ReplayFollowsRules
<1>1. IInv => ReplayFollowsRules
  BY DEF IInv
<1> QED
  BY <1>1, InitEstablishesIInv, StepKeepsIInv, PTL DEF Spec
=============================================================================
