---------------------------- MODULE GridSearches ----------------------------
(***************************************************************************)
(* The engines that work on a board: the four pathfinders on a grid        *)
(* (gridAlgorithms.ts, runGridSearch) and the three maze generators        *)
(* (engine/mazeGeneration.ts).                                             *)
(***************************************************************************)
EXTENDS GraphSearches

----------------------------------------------------------------------------
(***************************************************************************)
(* The pathfinders differ in what they take off the frontier: the front,   *)
(* the back, or the cell of least cost so far, with or without the         *)
(* distance still to go.                                                   *)
(***************************************************************************)

CONSTANT Grids  \* [rows, cols, walls: set of cells, rough: set of cells of cost 4, start, end]

GridBfs == "Grid BFS"
GridDfs == "Grid DFS"
GridDijkstra == "Grid Dijkstra"
GridAStar == "Grid A*"
GridTopics == {GridBfs, GridDfs, GridDijkstra, GridAStar}

NoCell == <<>>
CellsOf(grid) == (0 .. grid.rows - 1) \X (0 .. grid.cols - 1)
WeightOf(grid, cell) == IF cell \in grid.rough THEN 4 ELSE 1
AbsDiff(a, b) == IF a < b THEN b - a ELSE a - b
manhattan(a, b) == AbsDiff(a[1], b[1]) + AbsDiff(a[2], b[2])
neighboursOf(grid, cell) ==
    SelectSeq(<< <<cell[1] - 1, cell[2]>>, <<cell[1] + 1, cell[2]>>,
                 <<cell[1], cell[2] - 1>>, <<cell[1], cell[2] + 1>> >>,
              LAMBDA c : c \in CellsOf(grid))

\* The weighted boards are only given to the two weighted pathfinders.
GridInit ==
    \E t \in GridTopics : \E grid \in {g \in Grids : t \in {GridBfs, GridDfs} => g.rough = {}} :
        Begin(t, [grid |-> grid, frontier |-> <<grid.start>>, seen |-> {},
                  g |-> [c \in CellsOf(grid) |-> IF c = grid.start THEN 0 ELSE Infinity],
                  parent |-> [c \in CellsOf(grid) |-> NoCell],
                  pops |-> 0, path |-> <<>>, pc |-> "start"])

GridAt(p) == topic \in GridTopics /\ ds.pc = p

\* With two cells on the frontier the start, which has no score, is not one.
AskCell ==
    Ask("GRID_NEXT_CELL",
        [frontierCells |-> ds.frontier, algorithmType |-> topic,
         g |-> [c \in SeqToSet(ds.frontier) |-> ds.g[c]],
         h |-> [c \in SeqToSet(ds.frontier) |-> manhattan(c, ds.grid.end)]])
CellTile(c) == <<"cell", c[1], c[2]>>

priority(c) == IF topic = GridAStar THEN ds.g[c] + manhattan(c, ds.grid.end) ELSE ds.g[c]
bestFrontierIndex ==
    Least({x \in DOMAIN ds.frontier : \A y \in DOMAIN ds.frontier :
              priority(ds.frontier[x]) <= priority(ds.frontier[y])})
PopIndex == CASE topic = GridBfs -> 1
              [] topic = GridDfs -> Len(ds.frontier)
              [] OTHER -> bestFrontierIndex
RemovedAt(s, x) == SubSeq(s, 1, x - 1) \o SubSeq(s, x + 1, Len(s))

\* A wall at the start or the end: there is nothing to search.
GridBlocked ==
    /\ GridAt("start") /\ {ds.grid.start, ds.grid.end} \cap ds.grid.walls # {}
    /\ Go([ds EXCEPT !.pc = "ended"], Final, NoTile)

GridStart ==
    /\ GridAt("start") /\ {ds.grid.start, ds.grid.end} \cap ds.grid.walls = {}
    /\ Go([ds EXCEPT !.pc = "pop"], Say, NoTile)

\* Every fourth time there is a choice.
AsksCell == Len(ds.frontier) >= 2 /\ ds.pops % 4 = 3
CountPop == [ds EXCEPT !.pops = IF Len(ds.frontier) >= 2 THEN @ + 1 ELSE @]

GridAsk ==
    /\ GridAt("pop") /\ AsksCell
    /\ Go([CountPop EXCEPT !.pc = "asked"], AskCell, NoTile)

\* Wrong: every cell is taken to cost one.
CheaperViaUnweighted(c) ==
    SelectSeq(neighboursOf(ds.grid, c),
              LAMBDA n : /\ n \notin ds.grid.walls \cup ds.seen \cup {c}
                         /\ ds.g[c] + 1 < ds.g[n])

\* The neighbours of a visited cell that are reached more cheaply through it.
CheaperVia(c) ==
    SelectSeq(neighboursOf(ds.grid, c),
              LAMBDA n : /\ n \notin ds.grid.walls \cup ds.seen \cup {c}
                         /\ ds.g[c] + WeightOf(ds.grid, n) < ds.g[n])

GridVisit ==
    /\ GridAt("asked") \/ (GridAt("pop") /\ ds.frontier # <<>> /\ ~AsksCell)
    /\ LET c == ds.frontier[PopIndex]
           rest == RemovedAt(ds.frontier, PopIndex)
           nearer == CheaperVia(c)
           counted == IF ds.pc = "asked" THEN ds ELSE CountPop
           visited == [counted EXCEPT !.seen = @ \cup {c}, !.frontier = rest]
       IN  IF c = ds.grid.end
           THEN Go([visited EXCEPT !.pc = "found"], Say, CellTile(c))
           ELSE Go([visited EXCEPT
                      !.frontier = rest \o SelectSeq(nearer, LAMBDA n : n \notin SeqToSet(rest)),
                      !.g = [n \in DOMAIN @ |-> IF n \in SeqToSet(nearer)
                                                THEN @[c] + WeightOf(ds.grid, n) ELSE @[n]],
                      !.parent = [n \in DOMAIN @ |-> IF n \in SeqToSet(nearer) THEN c ELSE @[n]],
                      !.pc = "pop"],
                   Say, CellTile(c))

GridExhausted ==
    /\ GridAt("pop") /\ ds.frontier = <<>>
    /\ Go([ds EXCEPT !.pc = "ended"], Final, NoTile)

RECURSIVE PathBack(_)
PathBack(c) == IF c = NoCell THEN <<>> ELSE Append(PathBack(ds.parent[c]), c)

GridPath ==
    /\ GridAt("found")
    /\ Go([ds EXCEPT !.path = PathBack(ds.grid.end), !.pc = "ended"], Final, NoTile)

GridNext == GridBlocked \/ GridStart \/ GridAsk \/ GridVisit \/ GridExhausted \/ GridPath

(***************************************************************************)
(* Properties                                                              *)
(***************************************************************************)

\* The grid as a graph: from each open cell to its open neighbours.
GridEdges(grid) ==
    UNION {{[from |-> c, to |-> n, weight |-> WeightOf(grid, n)] :
              n \in SeqToSet(neighboursOf(grid, c)) \ grid.walls} :
              c \in CellsOf(grid) \ grid.walls}
GridCost(grid) == CheapestOver(CellsOf(grid), GridEdges(grid), grid.start)

\* A cell is visited once, and, but for the depth-first search, at the least
\* cost it can be reached at; the search gives up only when the end is out of
\* reach, and the path shown is one of open neighbouring cells from start to
\* end, of least cost but for the depth-first search.
GridRouteIsRight ==
    topic \in GridTopics =>
      LET cost == GridCost(ds.grid)
      IN
        /\ SeqToSet(ds.frontier) \cap ds.seen = {}
        /\ topic # GridDfs /\ ds.pc = "found" =>
              \A c \in ds.seen : ds.g[c] = cost[c]
        /\ step.final =>
              IF ds.path = <<>>
              THEN \/ {ds.grid.start, ds.grid.end} \cap ds.grid.walls # {}
                   \/ cost[ds.grid.end] = Infinity
              ELSE /\ ds.path[1] = ds.grid.start /\ ds.path[Len(ds.path)] = ds.grid.end
                   /\ \A x \in 1 .. Len(ds.path) - 1 :
                         /\ ds.path[x + 1] \notin ds.grid.walls
                         /\ manhattan(ds.path[x], ds.path[x + 1]) = 1
                   /\ topic # GridDfs => ds.g[ds.grid.end] = cost[ds.grid.end]

----------------------------------------------------------------------------
(***************************************************************************)
(* The maze generators. Rooms lie at the even places of the board; a       *)
(* passage between two rooms opens the place between them. The generators  *)
(* draw at random: here every draw is tried.                               *)
(***************************************************************************)

CONSTANT Boards     \* the boards, as <<rows, columns>>

MazeBacktracker == "Maze Generation"
MazePrim == "Maze via Prim's"
MazeKruskal == "Maze via Kruskal's"
Mazes == {MazeBacktracker, MazePrim, MazeKruskal}

Halved(n) == (n + 1) \div 2
Rooms == (0 .. Halved(ds.board[1]) - 1) \X (0 .. Halved(ds.board[2]) - 1)

Beside(c, d) ==
    \/ c[1] = d[1] /\ (c[2] = d[2] + 1 \/ d[2] = c[2] + 1)
    \/ c[2] = d[2] /\ (c[1] = d[1] + 1 \/ d[1] = c[1] + 1)
cellNeighbours(c) == {d \in Rooms : Beside(c, d)}

\* The place of a room on the board, and the one between two rooms.
ToGrid(c) == <<2 * c[1], 2 * c[2]>>
WallBetween(c, d) == <<c[1] + d[1], c[2] + d[2]>>

\* open are the places of the board that are no wall; pending the stack, the
\* frontier or the walls not looked at yet.
MazeLocals(t, b) ==
    LET rooms == (0 .. Halved(b[1]) - 1) \X (0 .. Halved(b[2]) - 1)
    IN  [board |-> b, open |-> {<<0, 0>>}, inMaze |-> {<<0, 0>>},
         stack |-> <<<<0, 0>>>>, frontier |-> {c \in rooms : Beside(c, <<0, 0>>)},
         parent |-> [c \in rooms |-> c],
         walls |-> {w \in rooms \X rooms : Beside(w[1], w[2]) /\ (w[1][1] < w[2][1] \/ w[1][2] < w[2][2])},
         pc |-> IF t = MazeKruskal THEN "rooms" ELSE "carve"]

Carved(c, d) == ds.open \cup {WallBetween(c, d), ToGrid(d)}

\* The generators that open one room after the other.
BacktrackerCarve ==
    /\ At(MazeBacktracker, "carve")
    /\ ds.stack # <<>>
    /\ \E d \in cellNeighbours(LastOf(ds.stack)) \ ds.inMaze :
          Go([ds EXCEPT !.open = Carved(LastOf(ds.stack), d), !.inMaze = @ \cup {d},
                        !.stack = Append(@, d)], Say, NoTile)

BacktrackerReturn ==
    /\ At(MazeBacktracker, "carve")
    /\ ds.stack # <<>>
    /\ cellNeighbours(LastOf(ds.stack)) \subseteq ds.inMaze
    /\ Go([ds EXCEPT !.stack = SubSeq(@, 1, Len(@) - 1)], Say, NoTile)

\* A room met on the frontier a second time is already in the maze and is
\* passed over, so the frontier is a set here.
PrimCarve ==
    /\ At(MazePrim, "carve")
    /\ \E d \in ds.frontier : \E c \in cellNeighbours(d) \cap ds.inMaze :
          Go([ds EXCEPT !.open = Carved(c, d), !.inMaze = @ \cup {d},
                        !.frontier = (@ \cup cellNeighbours(d)) \ (ds.inMaze \cup {d})], Say, NoTile)

\* Kruskal's opens all rooms first and then looks at the walls in a random order.
KruskalOpenRooms ==
    /\ At(MazeKruskal, "rooms")
    /\ Go([ds EXCEPT !.open = {ToGrid(c) : c \in Rooms}, !.inMaze = Rooms, !.pc = "carve"], Say, NoTile)

FindRoom(c) ==
    LET f[k \in Nat] == IF k = 0 THEN c ELSE LET before == f[k - 1] IN ds.parent[before]
    IN  f[Cardinality(Rooms)]

KruskalCarve ==
    /\ At(MazeKruskal, "carve")
    /\ \E w \in ds.walls :
          LET root1 == FindRoom(w[1])
              root2 == FindRoom(w[2])
              rest == [ds EXCEPT !.walls = @ \ {w}]
          IN  IF root1 = root2
              THEN Go(rest, Say, NoTile)
              ELSE Go([rest EXCEPT !.parent[root1] = root2, !.open = Carved(w[1], w[2])], Say, NoTile)

MazeComplete ==
    /\ topic \in Mazes /\ ds.pc = "carve"
    /\ CASE topic = MazeBacktracker -> ds.stack = <<>>
         [] topic = MazePrim -> ds.frontier = {}
         [] topic = MazeKruskal -> ds.walls = {}
    /\ Go([ds EXCEPT !.pc = "over"], Final, NoTile)

MazeInit == \E t \in Mazes, b \in Boards : Begin(t, MazeLocals(t, b))

\* The engines: each runs its steps, and those it shares, for its own topic.

mazeGenerationEngine ==
    /\ topic = MazeBacktracker
    /\ \/ BacktrackerCarve \/ BacktrackerReturn \/ MazeComplete

mazePrimEngine == topic = MazePrim /\ (PrimCarve \/ MazeComplete)

mazeKruskalEngine ==
    /\ topic = MazeKruskal
    /\ \/ KruskalOpenRooms \/ KruskalCarve \/ MazeComplete

MazeNext ==
    \/ mazeGenerationEngine \/ mazePrimEngine \/ mazeKruskalEngine

(***************************************************************************)
(* Properties                                                              *)
(***************************************************************************)

Passages == {w \in ds.open : w[1] % 2 = 1 \/ w[2] % 2 = 1}

\* The rooms reached from the first one through open places.
Reachable ==
    LET f[k \in Nat] ==
            IF k = 0 THEN {<<0, 0>>}
            ELSE LET before == f[k - 1]
                 IN  before \cup {d \in Rooms : \E c \in before :
                                     Beside(c, d) /\ WallBetween(c, d) \in ds.open}
    IN  f[Cardinality(Rooms)]

\* Whatever is drawn, the result is a perfect maze: every room can be reached
\* and there is one passage fewer than there are rooms, so that between any two
\* rooms there is exactly one way; no maze under way ever closes a circle, and
\* no place between four rooms is ever opened.
MazeIsPerfect ==
    topic \in Mazes =>
        /\ step.final => Reachable = Rooms /\ Cardinality(Passages) = Cardinality(Rooms) - 1
        /\ topic # MazeKruskal => Cardinality(Passages) = Cardinality(ds.inMaze) - 1
        /\ \A w \in ds.open : /\ w[1] < ds.board[1] /\ w[2] < ds.board[2]
                             /\ (w[1] % 2 = 0 \/ w[2] % 2 = 0)

==============================================================================
