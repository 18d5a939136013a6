---------------------------- MODULE GraphSearches ----------------------------
(***************************************************************************)
(* The graphs the graph engines run on, and breadth-first search (bfs.ts,  *)
(* bfsNodeGraphEngine), depth-first search (dfs.ts), cycle detection,      *)
(* connected components and topological sort (graphProperties.ts); then    *)
(* the algorithms on weighted graphs.                                      *)
(***************************************************************************)
EXTENDS Lesson, TLC

----------------------------------------------------------------------------
(***************************************************************************)
(* What shortest, connected and acyclic mean. A graph is an adjacency      *)
(* list in the order it is written down; its nodes are numbered in the     *)
(* order of their names. An undirected graph lists each edge at both       *)
(* ends.                                                                   *)
(***************************************************************************)

CONSTANT Networks   \* [adj: node -> sequence of [to, weight], directed: BOOLEAN]

\* JavaScript's Infinity, above every cost that occurs here.
Infinity == 1000
Plus(a, b) == IF Infinity \in {a, b} THEN Infinity ELSE a + b

NodesOf(net) == DOMAIN net.adj
Neighbours(net, u) == [x \in DOMAIN net.adj[u] |-> net.adj[u][x].to]
SeqToSet(s) == {s[x] : x \in DOMAIN s}

\* neighborsOf in the depth-first engines: by name.
ByName(s) == SortSeq(s, LAMBDA a, b : a < b)

\* Every edge as it is met in the order of the nodes and of their lists.
RECURSIVE EdgesFrom(_, _)
EdgesFrom(net, u) ==
    IF u \notin NodesOf(net) THEN <<>>
    ELSE [x \in DOMAIN net.adj[u] |->
             [from |-> u, to |-> net.adj[u][x].to, weight |-> net.adj[u][x].weight]]
         \o EdgesFrom(net, u + 1)
EdgeList(net) == EdgesFrom(net, 1)
EdgeSet(net) == SeqToSet(EdgeList(net))

\* Stably by weight.
ByWeight(edges) ==
    LET order == SortSeq([x \in DOMAIN edges |-> x],
                    LAMBDA x, y : edges[x].weight < edges[y].weight
                                     \/ (edges[x].weight = edges[y].weight /\ x < y))
    IN  [x \in DOMAIN edges |-> edges[order[x]]]

(***************************************************************************)
(* What the results are compared with.                                     *)
(***************************************************************************)

\* The least cost at which each node is reached from start, over walks of
\* fewer edges than there are nodes: pairs of a node and a cost.
CheapestOver(nodes, edges, start) ==
    LET extended(pairs) ==
            pairs \cup {<<m[1].to, m[2][2] + m[1].weight>> :
                          m \in {d \in edges \X pairs : d[1].from = d[2][1]}}
        least(pairs) == {p \in pairs : \A q \in pairs : q[1] = p[1] => p[2] <= q[2]}
        via[k \in 0 .. Cardinality(nodes) - 1] ==
            IF k = 0 THEN {<<start, 0>>}
            ELSE LET longer == extended(via[k - 1]) IN least(longer)
        reached == via[Cardinality(nodes) - 1]
    IN  [v \in nodes |-> IF \E p \in reached : p[1] = v
                         THEN (CHOOSE p \in reached : p[1] = v)[2] ELSE Infinity]
Cheapest(net, start) == CheapestOver(NodesOf(net), EdgeSet(net), start)
Fewest(net, start) ==
    CheapestOver(NodesOf(net), {[e EXCEPT !.weight = 1] : e \in EdgeSet(net)}, start)

\* The nodes that edges lead to from u.
ReachedBy(edges, u) ==
    LET grown[k \in 0 .. Cardinality(edges)] ==
            IF k = 0 THEN {u}
            ELSE LET before == grown[k - 1]
                 IN  before \cup {e.to : e \in {d \in edges : d.from \in before}}
    IN  grown[Cardinality(edges)]
Reaches(net, u, v) == v \in ReachedBy(EdgeSet(net), u)

\* The nodes connected to u by the edges, whichever way they point.
Turned(e) == [e EXCEPT !.from = e.to, !.to = e.from]
ConnectedBy(edges, u) == ReachedBy(edges \cup {Turned(e) : e \in edges}, u)

\* A directed graph has a cycle if a node can get back to itself; an
\* undirected one if an edge can be taken away without parting its ends.
HasCycle(net) ==
    IF net.directed
    THEN \E e \in EdgeSet(net) : Reaches(net, e.to, e.from)
    ELSE \E e \in EdgeSet(net) :
            e.to \in ConnectedBy({d \in EdgeSet(net) : {d.from, d.to} # {e.from, e.to}}, e.from)
HasNegativeEdge(net) == \E e \in EdgeSet(net) : e.weight < 0

\* From start a walk that costs less each time it is repeated can be reached.
NegativeCycleFrom(net, start) ==
    LET cost == Cheapest(net, start)
    IN  HasNegativeEdge(net)
          /\ \E e \in EdgeSet(net) : Plus(cost[e.from], e.weight) < cost[e.to]

\* Following the parents from target back to a node without one.
RECURSIVE PathTo(_, _)
PathTo(parent, target) ==
    IF target = Nowhere THEN <<>> ELSE Append(PathTo(parent, parent[target]), target)
Leads(net, path) ==
    \A x \in 1 .. Len(path) - 1 : path[x + 1] \in SeqToSet(Neighbours(net, path[x]))

----------------------------------------------------------------------------
(***************************************************************************)
(* The engines                                                             *)
(***************************************************************************)

Bfs == "BFS"
Dfs == "DFS"
Cycles == "Cycle Detection"
Components == "Connected Components"
Topological == "Topological Sort"
GraphSearchTopics == {Bfs, Dfs, Cycles, Components, Topological}

NodeTile(u) == <<"node", u>>
None(net) == [u \in NodesOf(net) |-> Nowhere]

\* The stack of a depth-first search: a node and the neighbours still to try.
Frame(u) == [id |-> u, left |-> ByName(Neighbours(ds.net, u))]
OnTop == ds.stack[Len(ds.stack)]
Below == SubSeq(ds.stack, 1, Len(ds.stack) - 1)
WithLeft(left) == Append(Below, [OnTop EXCEPT !.left = left])
StackIds(stack) == [x \in DOMAIN stack |-> stack[x].id]

GraphSearchInit ==
    \/ \E net \in Networks : \E start, target \in NodesOf(net) :
          Begin(Bfs, [net |-> net, target |-> target, visited |-> <<>>, queue |-> <<start>>,
                      dist |-> [None(net) EXCEPT ![start] = 0], parent |-> None(net),
                      dequeues |-> 0, found |-> <<>>, pc |-> "loop"])
    \/ \E net \in Networks : \E start \in NodesOf(net) :
          Begin(Dfs, [net |-> net, start |-> start, visited |-> <<>>, stack |-> <<>>,
                      discovery |-> None(net), finish |-> None(net), time |-> 0,
                      discoveries |-> 0, pc |-> "walk"])
    \/ \E net \in Networks :
          Begin(Cycles, [net |-> net, stack |-> <<>>, parent |-> None(net), cycle |-> FALSE,
                         color |-> [u \in NodesOf(net) |-> "WHITE"], pc |-> "walk"])
    \/ \E net \in {g \in Networks : ~g.directed} :
          Begin(Components, [net |-> net, component |-> None(net), index |-> 0, pc |-> "next"])
    \/ \E net \in {g \in Networks : g.directed /\ ~HasCycle(g)} :
          Begin(Topological, [net |-> net, stack |-> <<>>, order |-> <<>>,
                              color |-> [u \in NodesOf(net) |-> "WHITE"], pc |-> "walk"])

(***************************************************************************)
(* Breadth-first search: every second dequeue is asked about.              *)
(***************************************************************************)

BfsAsk ==
    /\ At(Bfs, "loop") /\ ds.queue # <<>> /\ ds.dequeues % 2 = 1
    /\ Go([ds EXCEPT !.dequeues = @ + 1, !.pc = "asked"],
          Ask("NEXT_NODE_SELECTION",
              [frontier |-> ds.queue, visited |-> SeqToSet(ds.visited),
               nodes |-> NodesOf(ds.net)]), NoTile)

\* The node at the front is visited; its unseen neighbours queue up behind.
\* The neighbours that have been neither visited nor discovered.
BfsFresh(u) ==
    SelectSeq(Neighbours(ds.net, u),
              LAMBDA v : v \notin {u} \cup SeqToSet(ds.visited) \cup SeqToSet(ds.queue))

BfsVisit ==
    /\ At(Bfs, "asked") \/ (At(Bfs, "loop") /\ ds.queue # <<>> /\ ds.dequeues % 2 = 0)
    /\ LET u == Head(ds.queue)
           visited == Append(ds.visited, u)
           fresh == BfsFresh(u)
           reached == [ds EXCEPT !.visited = visited,
                                 !.dequeues = IF ds.pc = "loop" THEN @ + 1 ELSE @]
       IN  IF u = ds.target
           THEN Go([reached EXCEPT !.queue = Tail(@), !.pc = "ended",
                                   !.found = PathTo(ds.parent, u)],
                   Final, NodeTile(u))
           ELSE Go([reached EXCEPT
                      !.queue = Tail(@) \o fresh,
                      !.dist = [v \in DOMAIN @ |->
                                   IF v \in SeqToSet(fresh) THEN @[u] + 1 ELSE @[v]],
                      !.parent = [v \in DOMAIN @ |->
                                   IF v \in SeqToSet(fresh) THEN u ELSE @[v]],
                      !.pc = "loop"],
                   Say, NodeTile(u))

BfsExhausted ==
    /\ At(Bfs, "loop") /\ ds.queue = <<>>
    /\ Go([ds EXCEPT !.pc = "ended"], Final, NoTile)

(***************************************************************************)
(* Depth-first search, from the start and then from every node left over.   *)
(* Every second discovery is asked about if there was a choice, when the    *)
(* node discovered is already on the stack.                                 *)
(***************************************************************************)

DfsUnvisited == NodesOf(ds.net) \ SeqToSet(ds.visited)

DfsRoot ==
    /\ At(Dfs, "walk") /\ ds.stack = <<>> /\ DfsUnvisited # {}
    /\ LET root == IF ds.visited = <<>> THEN ds.start ELSE Least(DfsUnvisited)
       IN  Go([ds EXCEPT !.visited = Append(@, root), !.time = @ + 1,
                         !.discovery[root] = ds.time + 1, !.stack = <<Frame(root)>>],
              Say, NoTile)

DfsDiscover ==
    /\ At(Dfs, "walk") /\ ds.stack # <<>>
    /\ LET open == SelectSeq(OnTop.left, LAMBDA v : v \in DfsUnvisited)
           stack == Append(WithLeft(Tail(open)), Frame(Head(open)))
           visited == Append(ds.visited, Head(open))
           asks == ds.discoveries % 2 = 1 /\ Len(open) > 1
       IN  /\ open # <<>>
           /\ Go([ds EXCEPT !.visited = visited, !.time = @ + 1, !.stack = stack,
                            !.discovery[Head(open)] = ds.time + 1, !.discoveries = @ + 1,
                            !.pc = IF asks THEN "asked" ELSE "walk"],
                 IF asks
                 THEN Ask("NEXT_NODE_SELECTION",
                          [frontier |-> StackIds(stack), visited |-> SeqToSet(visited),
                           nodes |-> NodesOf(ds.net), discoveryTime |-> TRUE])
                 ELSE Say,
                 NoTile)

DfsDiscovered ==
    /\ At(Dfs, "asked")
    /\ Go([ds EXCEPT !.pc = "walk"], Say, NodeTile(OnTop.id))

DfsBacktrack ==
    /\ At(Dfs, "walk") /\ ds.stack # <<>>
    /\ SeqToSet(OnTop.left) \cap DfsUnvisited = {}
    /\ Go([ds EXCEPT !.time = @ + 1, !.finish[OnTop.id] = ds.time + 1, !.stack = Below],
          Say, NoTile)

DfsComplete ==
    /\ At(Dfs, "walk") /\ ds.stack = <<>> /\ DfsUnvisited = {}
    /\ Go([ds EXCEPT !.pc = "ended"], Final, NoTile)

(***************************************************************************)
(* Cycle detection: an edge to a GRAY node closes a cycle, one to a BLACK   *)
(* node does not, and both are asked about.                                 *)
(***************************************************************************)

White == {u \in NodesOf(ds.net) : ds.color[u] = "WHITE"}
ToParent(u) == ~ds.net.directed /\ ds.parent[OnTop.id] = u

CycleRoot ==
    /\ topic \in {Cycles, Topological} /\ ds.pc = "walk" /\ ds.stack = <<>> /\ White # {}
    /\ Go([ds EXCEPT !.stack = <<Frame(Least(White))>>, !.color[Least(White)] = "GRAY"],
          Say, NoTile)

CycleWalk ==
    /\ At(Cycles, "walk") /\ ds.stack # <<>> /\ OnTop.left # <<>>
    /\ LET u == Head(OnTop.left)
           tried == WithLeft(Tail(OnTop.left))
       IN  /\ ToParent(u) \/ ds.color[u] = "WHITE"
           /\ IF ToParent(u)
              THEN Go([ds EXCEPT !.stack = tried], Say, NoTile)
              ELSE Go([ds EXCEPT !.stack = Append(tried, Frame(u)),
                                 !.color[u] = "GRAY", !.parent[u] = OnTop.id],
                      Say, NoTile)

CycleAsk ==
    /\ At(Cycles, "walk") /\ ds.stack # <<>> /\ OnTop.left # <<>>
    /\ LET u == Head(OnTop.left)
       IN  /\ ~ToParent(u) /\ ds.color[u] # "WHITE"
           /\ Go([ds EXCEPT !.stack = WithLeft(Tail(OnTop.left)),
                            !.cycle = ds.color[u] = "GRAY", !.pc = "asked"],
                 Ask("CYCLE_FOUND", [isBackEdge |-> ds.color[u] = "GRAY"]), NoTile)

CycleAnswer ==
    /\ At(Cycles, "asked")
    /\ IF ds.cycle THEN Go([ds EXCEPT !.pc = "ended"], Final, <<"cycle">>)
                   ELSE Go([ds EXCEPT !.pc = "walk"], Say, <<"no-cycle">>)

CycleBacktrack ==
    /\ At(Cycles, "walk") /\ ds.stack # <<>> /\ OnTop.left = <<>>
    /\ Go([ds EXCEPT !.stack = Below, !.color[OnTop.id] = "BLACK"], Say, NoTile)

CycleComplete ==
    /\ At(Cycles, "walk") /\ ds.stack = <<>> /\ White = {}
    /\ Go([ds EXCEPT !.pc = "ended"], Final, NoTile)

(***************************************************************************)
(* Connected components: each node that is not in one yet starts one, and   *)
(* the learner is asked how many there are in all.                          *)
(***************************************************************************)

\* What a queue seeded with u collects, past the nodes already seen.
Collected(net, u, seen) == ReachedBy(EdgeSet(net), u) \ seen
countComponents(net) ==
    LET n == Cardinality(NodesOf(net))
        starts(u) == \A v \in 1 .. u - 1 : ~Reaches(net, v, u)
    IN  Cardinality({u \in 1 .. n : starts(u)})

Unassigned == {u \in NodesOf(ds.net) : ds.component[u] = Nowhere}

ComponentAsk ==
    /\ At(Components, "next") /\ Unassigned # {}
    /\ Go([ds EXCEPT !.pc = "asked"],
          Ask("NEW_COMPONENT", [totalComponents |-> countComponents(ds.net)]), NoTile)

ComponentCollect ==
    /\ At(Components, "asked")
    /\ LET part == Collected(ds.net, Least(Unassigned), NodesOf(ds.net) \ Unassigned)
       IN  Go([ds EXCEPT !.component = [u \in DOMAIN @ |->
                                          IF u \in part THEN ds.index ELSE @[u]],
                         !.index = @ + 1, !.pc = "next"], Say, NoTile)

ComponentsComplete ==
    /\ At(Components, "next") /\ Unassigned = {}
    /\ Go([ds EXCEPT !.pc = "ended"], Final, NoTile)

(***************************************************************************)
(* Topological sort: a node is put in front when all it leads to is placed; *)
(* asked while another node could be taken for it.                          *)
(***************************************************************************)

TopoDescend ==
    /\ At(Topological, "walk") /\ ds.stack # <<>>
    /\ LET open == SelectSeq(OnTop.left, LAMBDA v : v \in White)
       IN  /\ open # <<>>
           /\ Go([ds EXCEPT !.stack = Append(WithLeft(Tail(open)), Frame(Head(open))),
                            !.color[Head(open)] = "GRAY"], Say, NoTile)

Prepended(u, stack) == [ds EXCEPT !.stack = stack, !.order = <<u>> \o @, !.pc = "walk"]

TopoFinish ==
    /\ At(Topological, "walk") /\ ds.stack # <<>> /\ SeqToSet(OnTop.left) \cap White = {}
    /\ LET u == OnTop.id
           pool == NodesOf(ds.net) \ ({u} \cup SeqToSet(ds.order) \cup SeqToSet(StackIds(Below)))
       IN  IF pool = {}
           THEN Go([Prepended(u, Below) EXCEPT !.color[u] = "BLACK"], Say, NoTile)
           ELSE Go([ds EXCEPT !.color[u] = "BLACK", !.pc = "asked"],
                   Ask("TOPOLOGICAL_ORDER",
                       [currentNode |-> u, topoOrder |-> SeqToSet(ds.order),
                        nodes |-> NodesOf(ds.net)]), NoTile)

TopoPlace ==
    /\ At(Topological, "asked")
    /\ Go(Prepended(OnTop.id, Below), Say, NodeTile(OnTop.id))

TopoComplete ==
    /\ At(Topological, "walk") /\ ds.stack = <<>> /\ White = {}
    /\ Go([ds EXCEPT !.pc = "ended"], Final, NoTile)

\* The engines: each runs its steps, and those it shares, for its own topic.

bfsNodeGraphEngine == topic = Bfs /\ (BfsAsk \/ BfsVisit \/ BfsExhausted)

dfsNodeGraphEngine ==
    /\ topic = Dfs
    /\ \/ DfsRoot \/ DfsDiscover \/ DfsDiscovered \/ DfsBacktrack \/ DfsComplete

cycleDetectionEngine ==
    /\ topic = Cycles
    /\ \/ CycleRoot \/ CycleWalk \/ CycleAsk \/ CycleAnswer \/ CycleBacktrack
       \/ CycleComplete

connectedComponentsEngine ==
    /\ topic = Components
    /\ \/ ComponentAsk \/ ComponentCollect \/ ComponentsComplete

topologicalSortEngine ==
    /\ topic = Topological
    /\ \/ CycleRoot \/ TopoDescend \/ TopoFinish \/ TopoPlace \/ TopoComplete

GraphSearchNext ==
    \/ bfsNodeGraphEngine \/ dfsNodeGraphEngine \/ cycleDetectionEngine
    \/ connectedComponentsEngine \/ topologicalSortEngine

(***************************************************************************)
(* Properties                                                              *)
(***************************************************************************)

\* Breadth-first search: a distance, once given, is the fewest edges from the
\* start; a search that gave up has visited everything in reach, and one that
\* did not shows a path of that length.
DistancesAreFewest ==
    topic = Bfs =>
        LET start == CHOOSE u \in DOMAIN ds.dist : ds.dist[u] = 0
            fewest == Fewest(ds.net, start)
        IN  /\ \A u \in DOMAIN ds.dist : ds.dist[u] \in {Nowhere, fewest[u]}
            /\ step.final /\ ds.found = <<>> =>
                  /\ fewest[ds.target] = Infinity
                  /\ SeqToSet(ds.visited) = {u \in DOMAIN fewest : fewest[u] # Infinity}
            /\ ds.found # <<>> =>
                  /\ Leads(ds.net, ds.found) /\ Len(ds.found) = fewest[ds.target] + 1
                  /\ Head(ds.found) = start

\* Depth-first search: a node is discovered before and finished after all
\* that is discovered from it, and no edge leads from a finished node to one
\* that was still undiscovered then.
TimesNest ==
    topic = Dfs /\ step.final =>
        /\ \A u, v \in NodesOf(ds.net) :
              ds.discovery[u] < ds.discovery[v] =>
                 \/ ds.finish[u] < ds.discovery[v]
                 \/ ds.finish[v] < ds.finish[u] /\ Reaches(ds.net, u, v)
        /\ \A e \in EdgeSet(ds.net) : ds.discovery[e.to] < ds.finish[e.from]

\* Cycle detection says there is a cycle exactly when there is one; two nodes
\* are in one component exactly when they are connected, and as many were
\* announced; every edge of a sorted graph leads forward.
GraphAnswerIsRight ==
    step.final =>
        /\ topic = Cycles => ds.cycle = HasCycle(ds.net)
        /\ topic = Components =>
              /\ ds.index = countComponents(ds.net)
              /\ \A u, v \in NodesOf(ds.net) :
                    ds.component[u] = ds.component[v] <=> v \in ConnectedBy(EdgeSet(ds.net), u)
        /\ topic = Topological =>
              /\ Len(ds.order) = Cardinality(NodesOf(ds.net))
              /\ \A e \in EdgeSet(ds.net) :
                    \E x, y \in DOMAIN ds.order :
                       x < y /\ ds.order[x] = e.from /\ ds.order[y] = e.to

----------------------------------------------------------------------------
(***************************************************************************)
(* Shortest paths - Dijkstra (dijkstra.ts), Bellman-Ford (bellmanFord.ts), *)
(* Floyd-Warshall (floydWarshall.ts) - and spanning trees - Kruskal        *)
(* (kruskal.ts) and Prim (prim.ts).                                        *)
(***************************************************************************)

CONSTANT MatrixSize     \* nodes of the largest matrix

Dijkstra == "Dijkstra"
BellmanFord == "Bellman-Ford"
FloydWarshall == "Floyd-Warshall"
Kruskal == "Kruskal"
Prim == "Prim"
WeightedTopics == {Dijkstra, BellmanFord, FloydWarshall, Kruskal, Prim}

NoParent(net) == [u \in NodesOf(net) |-> Nowhere]
OnlyStart(net, start) == [u \in NodesOf(net) |-> IF u = start THEN 0 ELSE Infinity]

\* floydWarshallEngine's first matrix: no edge, Infinity; two, the cheaper.
FirstMatrix(net) ==
    [u \in NodesOf(net) |->
        [v \in NodesOf(net) |->
            Least({IF u = v THEN 0 ELSE Infinity}
                    \cup {e.weight : e \in {d \in EdgeSet(net) : d.from = u /\ d.to = v}})]]

\* collectUniqueEdges: an edge is kept where it is met first.
UniqueEdges(net) ==
    LET all == EdgeList(net)
        repeats(x) == \E y \in 1 .. x - 1 : {all[y].from, all[y].to} = {all[x].from, all[x].to}
        kept == SelectSeq([x \in DOMAIN all |-> x], LAMBDA x : ~repeats(x))
    IN  [x \in DOMAIN kept |-> all[kept[x]]]

\* Kruskal's topic offers a directed preset too and reads it as undirected.
OneWeightPerPair(net) ==
    \A e, d \in EdgeSet(net) : {e.from, e.to} = {d.from, d.to} => e.weight = d.weight

WeightedInit ==
    \/ \E net \in {g \in Networks : ~HasNegativeEdge(g)} : \E start, target \in NodesOf(net) :
          Begin(Dijkstra, [net |-> net, start |-> start, target |-> target,
                           dist |-> OnlyStart(net, start), parent |-> NoParent(net),
                           done |-> {}, u |-> Nowhere, edges |-> <<>>, pc |-> "edges"])
    \/ \E net \in {g \in Networks : ~g.directed => ~HasNegativeEdge(g)} :
          \E start \in NodesOf(net) :
             Begin(BellmanFord, [net |-> net, start |-> start, dist |-> OnlyStart(net, start),
                                 parent |-> NoParent(net), pass |-> 0, changed |-> TRUE,
                                 negative |-> FALSE, pc |-> "pass"])
    \/ \E net \in {g \in Networks : /\ Cardinality(NodesOf(g)) <= MatrixSize
                                    /\ \A u \in NodesOf(g) : ~NegativeCycleFrom(g, u)} :
          Begin(FloydWarshall, [net |-> net, dist |-> FirstMatrix(net), check |-> 0,
                                pc |-> "check"])
    \/ \E net \in {g \in Networks : OneWeightPerPair(g)} :
          Begin(Kruskal, [net |-> net, edges |-> ByWeight(UniqueEdges(net)), k |-> 1,
                          parent |-> [u \in NodesOf(net) |-> u], tree |-> <<>>, pc |-> "edge"])
    \/ \E net \in {g \in Networks : ~g.directed} : \E start \in NodesOf(net) :
          Begin(Prim, [net |-> net, inMst |-> <<start>>, tree |-> <<>>, pc |-> "grow"])

(***************************************************************************)
(* Dijkstra.                                                               *)
(***************************************************************************)

\* The edges of the node just settled that lead to unsettled ones.
OpenEdges == SelectSeq(ds.edges, LAMBDA e : e.to \notin ds.done)
Unsettled == NodesOf(ds.net) \ ds.done
NearestFirst ==
    Least({u \in Unsettled : \A v \in Unsettled : ds.dist[u] <= ds.dist[v]})

DijkstraSettle ==
    /\ At(Dijkstra, "edges") /\ OpenEdges = <<>> /\ Unsettled # {}
    /\ ds.dist[NearestFirst] # Infinity
    /\ LET settled == [ds EXCEPT !.done = @ \cup {NearestFirst}, !.u = NearestFirst,
                                 !.edges = ds.net.adj[NearestFirst]]
       IN  IF NearestFirst = ds.target
           THEN Go([settled EXCEPT !.pc = "reached"], Final, NoTile)
           ELSE Go(settled, Say, NoTile)

\* Nothing is left, or nothing that can be reached.
DijkstraComplete ==
    /\ At(Dijkstra, "edges") /\ OpenEdges = <<>>
    /\ \A u \in Unsettled : ds.dist[u] = Infinity
    /\ Go([ds EXCEPT !.pc = "ended"], Final, NoTile)

Through(e) == Plus(ds.dist[ds.u], e.weight)

DijkstraAsk ==
    /\ At(Dijkstra, "edges") /\ OpenEdges # <<>>
    /\ LET e == Head(OpenEdges)
       IN  Go([ds EXCEPT !.edges = OpenEdges, !.pc = "asked"],
              Ask("EDGE_RELAX", [currentDist |-> ds.dist[e.to], newDist |-> Through(e)]),
              NoTile)

DijkstraRelax ==
    /\ At(Dijkstra, "asked")
    /\ LET e == Head(ds.edges)
           on == [ds EXCEPT !.edges = Tail(@), !.pc = "edges"]
       IN  IF Through(e) < ds.dist[e.to]
           THEN Go([on EXCEPT !.dist[e.to] = Through(e), !.parent[e.to] = ds.u],
                   Say, <<"relax">>)
           ELSE Go(on, Say, <<"skip">>)

(***************************************************************************)
(* Bellman-Ford: after each pass the learner is asked whether another is    *)
(* needed.                                                                  *)
(***************************************************************************)

TotalPasses == Greatest({1, Cardinality(NodesOf(ds.net)) - 1})

\* One pass over the edges, each working on what those before it left.
RECURSIVE Relaxed(_, _)
Relaxed(found, edges) ==
    IF edges = <<>> THEN found
    ELSE LET e == Head(edges)
             cost == Plus(found.dist[e.from], e.weight)
         IN  Relaxed(IF cost < found.dist[e.to]
                     THEN [found EXCEPT !.dist[e.to] = cost, !.parent[e.to] = e.from,
                                        !.changed = TRUE]
                     ELSE found,
                     Tail(edges))

\* What is carried out when a pass is asked for.  After the last one none
\* follows, whatever changed.
AnotherPass == IF ds.pass = 0 THEN NoTile ELSE <<"continue">>

BellmanPass ==
    /\ At(BellmanFord, "pass") /\ ds.changed /\ ds.pass < TotalPasses
    /\ LET swept == Relaxed([ds EXCEPT !.changed = FALSE, !.pass = @ + 1], EdgeList(ds.net))
       IN  Go(swept, Ask("BELLMAN_PASS_COMPLETE", [anyChanged |-> swept.changed]), AnotherPass)

BellmanConverged ==
    /\ At(BellmanFord, "pass") /\ ~ds.changed
    /\ Go([ds EXCEPT !.pc = "ended"], Final, <<"done">>)

BellmanExhausted ==
    /\ At(BellmanFord, "pass") /\ ds.changed /\ ds.pass = TotalPasses
    /\ Go([ds EXCEPT !.pc = "ended",
                     !.negative = \E e \in EdgeSet(ds.net) :
                                     Plus(ds.dist[e.from], e.weight) < ds.dist[e.to]],
          Final, NoTile)

(***************************************************************************)
(* Floyd-Warshall: every pair through every node; a check in six is asked   *)
(* about, if it is of three different nodes.                                *)
(***************************************************************************)

Width == Cardinality(NodesOf(ds.net))
Midway == 1 + (ds.check \div (Width * Width))
Row == 1 + ((ds.check \div Width) % Width)
Col == 1 + (ds.check % Width)
ThroughMidway == Plus(ds.dist[Row][Midway], ds.dist[Midway][Col])
Improves == ThroughMidway < ds.dist[Row][Col]
AsksCheck == Cardinality({Row, Col, Midway}) = 3 /\ (ds.check + 1) % 6 = 0

MatrixAsk ==
    /\ At(FloydWarshall, "check") /\ ds.check < Width * Width * Width /\ AsksCheck
    /\ Go([ds EXCEPT !.pc = "asked"],
          Ask("MATRIX_UPDATE", [dist |-> ds.dist, i |-> Row, j |-> Col, k |-> Midway]),
          NoTile)

MatrixCheck ==
    /\ \/ At(FloydWarshall, "asked")
       \/ At(FloydWarshall, "check") /\ ds.check < Width * Width * Width /\ ~AsksCheck
    /\ Go([ds EXCEPT !.dist[Row][Col] = IF Improves THEN ThroughMidway ELSE @,
                     !.check = @ + 1, !.pc = "check"],
          Say, IF Improves THEN <<"update">> ELSE <<"keep">>)

MatrixComplete ==
    /\ At(FloydWarshall, "check") /\ ds.check = Width * Width * Width
    /\ Go([ds EXCEPT !.pc = "ended"], Final, NoTile)

(***************************************************************************)
(* Kruskal, with a union-find whose find compresses the path it follows.    *)
(***************************************************************************)

RECURSIVE UpFrom(_, _)
UpFrom(parent, u) == IF parent[u] = u THEN {u} ELSE {u} \cup UpFrom(parent, parent[u])
RootOf(parent, u) == CHOOSE r \in UpFrom(parent, u) : parent[r] = r
FindIn(parent, u) ==
    [v \in DOMAIN parent |-> IF v \in UpFrom(parent, u) THEN RootOf(parent, u) ELSE parent[v]]
Union(parent, u, v) ==
    IF RootOf(parent, u) = RootOf(parent, v) THEN parent
    ELSE [parent EXCEPT ![RootOf(parent, u)] = RootOf(parent, v)]

Edge == ds.edges[ds.k]
SameComponent == RootOf(ds.parent, Edge.from) = RootOf(ds.parent, Edge.to)
TreeDone == Len(ds.tree) = Cardinality(NodesOf(ds.net)) - 1

KruskalAsk ==
    /\ At(Kruskal, "edge") /\ ds.k <= Len(ds.edges) /\ (ds.k > 1 => ~TreeDone)
    /\ Go([ds EXCEPT !.parent = FindIn(FindIn(@, Edge.from), Edge.to), !.pc = "asked"],
          Ask("UNION_FIND_CHECK", [sameComponent |-> SameComponent]), NoTile)

KruskalTake ==
    /\ At(Kruskal, "asked")
    /\ LET on == [ds EXCEPT !.k = @ + 1, !.pc = "edge"]
       IN  IF SameComponent
           THEN Go(on, Say, <<"skip">>)
           ELSE Go([on EXCEPT !.parent = Union(@, Edge.from, Edge.to),
                              !.tree = Append(@, Edge)],
                   Say, <<"add">>)

KruskalComplete ==
    /\ At(Kruskal, "edge") /\ (ds.k > Len(ds.edges) \/ (ds.k > 1 /\ TreeDone))
    /\ Go([ds EXCEPT !.pc = "ended"], Final, NoTile)

(***************************************************************************)
(* Prim: the cheapest edge that leaves the tree; up to four are offered.    *)
(***************************************************************************)

RECURSIVE EdgesOut(_)
EdgesOut(inside) ==
    IF inside = <<>> THEN <<>>
    ELSE SelectSeq([x \in DOMAIN ds.net.adj[Head(inside)] |->
                       [from |-> Head(inside), to |-> ds.net.adj[Head(inside)][x].to,
                        weight |-> ds.net.adj[Head(inside)][x].weight]],
                   LAMBDA e : e.to \notin SeqToSet(ds.inMst))
         \o EdgesOut(Tail(inside))
Leaving == LET out == ByWeight(EdgesOut(ds.inMst)) IN SubSeq(out, 1, Least({4, Len(out)}))
EdgeTile(e) == <<"edge", e.from, e.to>>

PrimAsk ==
    /\ At(Prim, "grow") /\ Len(Leaving) > 1
    /\ Go([ds EXCEPT !.pc = "asked"], Ask("MST_EDGE_SELECT", [candidateEdges |-> Leaving]), NoTile)

PrimGrow ==
    /\ At(Prim, "asked") \/ (At(Prim, "grow") /\ Len(Leaving) = 1)
    /\ Go([ds EXCEPT !.inMst = Append(@, Leaving[1].to), !.tree = Append(@, Leaving[1]),
                     !.pc = "grow"],
          Say, EdgeTile(Leaving[1]))

\* Every node is in, or none that can be reached is out.
PrimComplete ==
    /\ At(Prim, "grow") /\ Leaving = <<>>
    /\ Go([ds EXCEPT !.pc = "ended"], Final, NoTile)

\* The engines: each runs its steps, and those it shares, for its own topic.

dijkstraEngine ==
    /\ topic = Dijkstra
    /\ \/ DijkstraSettle \/ DijkstraComplete \/ DijkstraAsk \/ DijkstraRelax

bellmanFordEngine ==
    /\ topic = BellmanFord
    /\ \/ BellmanPass \/ BellmanConverged \/ BellmanExhausted

floydWarshallEngine == topic = FloydWarshall /\ (MatrixAsk \/ MatrixCheck \/ MatrixComplete)

kruskalEngine == topic = Kruskal /\ (KruskalAsk \/ KruskalTake \/ KruskalComplete)

primEngine == topic = Prim /\ (PrimAsk \/ PrimGrow \/ PrimComplete)

WeightedNext ==
    \/ dijkstraEngine \/ bellmanFordEngine \/ floydWarshallEngine \/ kruskalEngine
    \/ primEngine

(***************************************************************************)
(* Properties                                                              *)
(***************************************************************************)

\* The distance of a node that Dijkstra has settled is final, and the parents
\* lead back to the start at that cost; so are all distances when Bellman-Ford
\* ends, unless it reports the negative cycle there is, and the whole matrix
\* when Floyd-Warshall ends.
CostAlong(net, path) ==
    LET cost[x \in 1 .. Len(path)] ==
            IF x = 1 THEN 0
            ELSE cost[x - 1] + Least({e.weight : e \in {d \in EdgeSet(net) :
                                        d.from = path[x - 1] /\ d.to = path[x]}})
    IN  cost[Len(path)]
BackToStart(u) ==
    LET path == PathTo(ds.parent, u)
    IN  Head(path) = ds.start /\ Leads(ds.net, path) /\ CostAlong(ds.net, path) = ds.dist[u]

DistancesAreShortest ==
    /\ topic = Dijkstra =>
          \A u \in ds.done : ds.dist[u] = Cheapest(ds.net, ds.start)[u] /\ BackToStart(u)
    /\ topic = Dijkstra /\ step.final =>
          IF ds.pc = "reached" THEN ds.target \in ds.done
          ELSE ds.done = {u \in NodesOf(ds.net) : Reaches(ds.net, ds.start, u)}
    /\ topic = BellmanFord /\ step.final =>
          /\ ds.negative = NegativeCycleFrom(ds.net, ds.start)
          /\ ~ds.negative =>
                /\ ds.dist = Cheapest(ds.net, ds.start)
                /\ \A u \in NodesOf(ds.net) : ds.dist[u] # Infinity => BackToStart(u)
    /\ topic = FloydWarshall /\ step.final =>
          \A u \in NodesOf(ds.net) : ds.dist[u] = Cheapest(ds.net, u)

\* A spanning tree joins exactly the nodes the graph connects, with an edge
\* less than nodes in each part, and no edge left out would be cheaper than
\* one on the way it closes; the union-find knows what the tree joins.
TreeIsCheapest ==
    topic \in {Kruskal, Prim} =>
        LET tree == SeqToSet(ds.tree)
            seed == IF topic = Prim THEN ConnectedBy(EdgeSet(ds.net), ds.inMst[1])
                    ELSE NodesOf(ds.net)
        IN  /\ \A e \in tree : e.to \notin ConnectedBy(tree \ {e}, e.from)
            /\ topic = Kruskal =>
                  \A u, v \in NodesOf(ds.net) :
                     RootOf(ds.parent, u) = RootOf(ds.parent, v) <=> v \in ConnectedBy(tree, u)
            /\ step.final =>
                  \A e \in {d \in EdgeSet(ds.net) : d.from \in seed} :
                     /\ e.to \in ConnectedBy(tree, e.from)
                     /\ \A d \in tree :
                           d.weight > e.weight => e.to \in ConnectedBy(tree \ {d}, e.from)

=============================================================================
