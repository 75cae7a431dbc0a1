------------------------------- MODULE GoBoard -------------------------------
(***************************************************************************)
(* utils/go_board.py with the coordinates of utils/sgf_parser.py: a game   *)
(* is replayed on a minimal board, to know how many points were empty      *)
(* before each move.                                                       *)
(*                                                                         *)
(* A move comes as an SGF point <<c, r>>, counted from 0 and from the top; *)
(* it becomes a GTP point <<column, row>>, where column is the place of    *)
(* the letter in GTP_COLS (A is 1) and rows are counted from the bottom,   *)
(* and that becomes the xy of the code's board.  The model has the points  *)
(* of the board only: for a letter past the end of GTP_COLS, "tt" included *)
(* on the boards where it means a pass, the code raises IndexError, and    *)
(* the game is not replayed.                                               *)
(*                                                                         *)
(* Next to the code's board the same moves are played on the goban by the  *)
(* rules of the game, with GTP points.  Played bounds the games that are   *)
(* looked at: the points on which they put a stone.                        *)
(***************************************************************************)
EXTENDS Integers, FiniteSets, Functions

CONSTANTS
    Colors,     \* "B" and "W"
    Size,       \* board_size
    Played,     \* the GTP points on which a stone may be put
    MaxStones   \* bound on the stones on the goban

ASSUME GoBoardAssumption ==
    /\ IsFiniteSet(Colors) /\ Cardinality(Colors) = 2
    /\ Size \in Nat \ {0} /\ MaxStones \in Nat
    /\ Played \subseteq (1 .. Size) \X (1 .. Size)

Opponent(color) == CHOOSE c \in Colors : c # color
SgfPoints == (0 .. Size - 1) \X (0 .. Size - 1)
Goban == (1 .. Size) \X (1 .. Size)

VARIABLES
    stones,    \* board["stones"]: a function from the occupied xy to colours
    counted,   \* the last entry of empty_counts_before
    goban,     \* the position by the rules, from occupied points to colours
    expected   \* its empty points before the last move

vars == <<stones, counted, goban, expected>>

TypeOK ==
    /\ DOMAIN stones \subseteq (0 .. Size - 1) \X (1 .. Size)
    /\ DOMAIN goban \subseteq Played
    /\ Range(stones) \cup Range(goban) \subseteq Colors
    /\ {counted, expected} \subseteq 0 .. Size * Size

Init ==
    /\ stones = <<>> /\ goban = <<>>
    /\ counted = Size * Size /\ expected = Size * Size

-----------------------------------------------------------------------------
SgfCoordToGtp(p) == <<p[1] + 1, Size - p[2]>>

\* Mutant: rows are counted from 0 as well.
GtpToXyFromZero(p) == <<p[1] - 1, p[2] - 1>>

\* GTP_COLS.index(letter) counts from 0, int(number) does not.
GtpToXy(p) == <<p[1] - 1, p[2]>>

Around(p) == {<<p[1] + 1, p[2]>>, <<p[1] - 1, p[2]>>, <<p[1], p[2] + 1>>, <<p[1], p[2] - 1>>}

Neighbors(p) == {n \in Around(p) : n[1] \in 1 .. Size /\ n[2] \in 1 .. Size}

StonesOf(board, color) == {p \in DOMAIN board : board[p] = color}

\* The loop over the stack: a group grows by its neighbours of the same colour
\* until there are none left.
GroupOf(board, start, color) ==
    LET Grow[group \in SUBSET StonesOf(board, color)] ==
            LET more == (UNION {Neighbors(p) : p \in group}) \cap StonesOf(board, color)
            IN  IF more \subseteq group THEN group ELSE Grow[group \cup more]
    IN  Grow[{start}]

HasLiberty(board, group) == (UNION {Neighbors(p) : p \in group}) \ DOMAIN board # {}

\* `board["stones"][xy] = color`
With(board, p, color) == [q \in DOMAIN board \cup {p} |-> IF q = p THEN color ELSE board[q]]

Without(board, points) == Restrict(board, DOMAIN board \ points)

\* The groups next to xy that lose their last liberty to it.
Captured(board, xy, opponent) ==
    UNION {g \in {GroupOf(board, n, opponent) : n \in Neighbors(xy) \cap StonesOf(board, opponent)} :
             ~HasLiberty(board, g)}

AfterOwnCheck(board, xy, color) ==
    LET own == GroupOf(board, xy, color)
    IN  IF HasLiberty(board, own) THEN board ELSE Without(board, own)

\* Mutant: the stone's own group is looked at before the captures.
PlacedSuicideFirst(board, xy, color) ==
    LET placed == AfterOwnCheck(With(board, xy, color), xy, color)
    IN  Without(placed, Captured(placed, xy, Opponent(color)))

\* The body of the loop: the stone, then the captures, then the stone's own group.
Placed(board, xy, color) ==
    LET placed == With(board, xy, color)
    IN  AfterOwnCheck(Without(placed, Captured(placed, xy, Opponent(color))), xy, color)

\* The rules: all stones of a colour without liberties are those of the sets
\* that are closed under adjacency and touch no empty point.
Dead(position, color) ==
    UNION {D \in SUBSET StonesOf(position, color) :
             \A p \in D : \A q \in Around(p) \cap Goban :
                 q \in DOMAIN position /\ (position[q] = color => q \in D)}

ByTheRules(position, p, color) ==
    LET placed == With(position, p, color)
        taken == Without(placed, Dead(placed, Opponent(color)))
    IN  Without(taken, Dead(taken, color))

-----------------------------------------------------------------------------
CountEmpty ==
    /\ counted' = Size * Size - Cardinality(DOMAIN stones)
    /\ expected' = Size * Size - Cardinality(DOMAIN goban)

\* A stone on a point that is empty in the game, suicide included.
Move(color, sgf) ==
    LET gtp == SgfCoordToGtp(sgf) IN
    /\ gtp \in Played \ DOMAIN goban
    /\ Cardinality(DOMAIN goban) < MaxStones
    /\ CountEmpty
    /\ stones' = Placed(stones, GtpToXy(gtp), color)
    /\ goban' = ByTheRules(goban, gtp, color)

Pass ==
    /\ CountEmpty
    /\ UNCHANGED <<stones, goban>>

Next == Pass \/ \E color \in Colors, sgf \in SgfPoints : Move(color, sgf)

Spec == Init /\ [][Next]_vars

-----------------------------------------------------------------------------
\* Columns A and B and the last one have no stones: a stone's neighbours are then
\* in the columns where _neighbors looks for them.
AwayFromEdges == \A p \in Played : p[1] \in 3 .. Size - 1

\* The board of the code is the goban, read with its columns counted from 0,
\* and so is every count of empty points: the search from the neighbours of the
\* last stone finds all the stones that the rules take off the whole goban
\* (go_board.py:65-79).  It is claimed of games that stay away from the edges.
ReplayFollowsRules ==
    /\ DOMAIN stones = {GtpToXy(p) : p \in DOMAIN goban}
    /\ \A p \in DOMAIN goban : stones[GtpToXy(p)] = goban[p]
    /\ counted = expected

\* Each entry of the list is the number of empty points just before its move
\* (go_board.py:45-49, "i-번째 값 == (i+1)번째 수 직전의 빈 교차점 수").
EmptyCountsAreTrue == counted = expected
=============================================================================
