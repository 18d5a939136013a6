------------------------------ MODULE MCLessons ------------------------------
EXTENDS Lessons

ArraysUpTo(n, values) == UNION {[0 .. k - 1 -> values] : k \in 0 .. n}
ArrayOf(s) == [x \in 0 .. Len(s) - 1 |-> s[x + 1]]

\* All arrays of up to three of three values, and longer ones with values of
\* two digits, equal values and an order that takes every engine's branches.
MCArrays == ArraysUpTo(3, {1, 2, 13})
              \cup {ArrayOf(s) : s \in {<<2, 1, 3, 4>>, <<5, 1, 4, 2, 3>>,
                                        <<3, 12, 3, 1, 11>>}}
MCHaystacks == ArraysUpTo(2, {2, 5})
                 \cup {ArrayOf(s) : s \in {<<1, 3, 8>>, <<7, 2, 2, 9>>,
                                           <<1, 2, 4, 9, 20>>}}
MCTargets == {1, 2, 5, 9, 21}

MCRows == {ArrayOf(s) : s \in {<<>>, <<4>>, <<4, 2>>, <<4, 2, 7>>, <<5, 5, 1, 8>>}}
MCChains == {ArrayOf(s) : s \in {<<>>, <<4>>, <<4, 2>>, <<3, 7, 1>>, <<5, 5, 1>>, <<2, 8, 2, 6, 9>>}}
MCKeys == ArraysUpTo(3, {1, 2, 3})
            \cup {ArrayOf(s) : s \in {<<4, 2, 6, 1, 3>>, <<5, 2, 5, 8, 5>>, <<3, 9, 5, 7, 6>>}}
Permutations5 == {p \in [0 .. 4 -> 1 .. 5] : \A x, y \in 0 .. 4 : x # y => p[x] # p[y]}
MCOrders == Permutations5
              \cup {ArrayOf(s) : s \in {<<>>, <<4>>, <<2, 2, 1>>, <<1, 2, 2>>, <<10, 20, 30, 40, 60, 25>>,
                                        <<8, 4, 12, 2, 6, 10, 14, 1>>, <<1, 2, 3, 4, 5, 6, 7, 8>>, <<6, 3, 7, 2, 4, 8, 1, 5>>,
                                        <<5, 3, 8, 3, 9, 8>>, <<5, 3, 3, 1>>}}
MCWords == {<<"a">>, <<"b">>, <<"a", "b">>, <<"a", "b", "a">>, <<"b", "a">>}
MCWordLists == UNION {[1 .. k -> MCWords] : k \in 0 .. 2} \cup {<<<<"b", "a">>, <<"a">>, <<"a", "b", "a">>, <<"b">>>>}
MCSought == MCWords \cup {<<"a", "a">>, <<"b", "a", "b">>}
\* Of four keys one too many is left out: with no warning at the last key such
\* a run has no final step.
MCKeyLists == UNION {[1 .. k -> {1, 2, 5}] : k \in 0 .. 3}
                \cup {<<1, 5, 9, 2, 6>>, <<3, 7, 2, 11, 4>>, <<1, 4, 2, 1, 3>>}
MCHashTargets == {1, 5, 4, 9, 10}
MCOpLists == UNION {[1 .. k -> {"in", "out"}] : k \in 1 .. 7}

Sets == INSTANCE FiniteSetsExt
Seqs == INSTANCE SequencesExt

\* Graphs by their edges, in the order of the names.
GraphOf(n, directed, weighted) ==
    [directed |-> directed,
     adj |-> [u \in 1 .. n |->
                LET out == {e \in weighted : e[1] = u}
                             \cup IF directed THEN {} ELSE {<<e[2], e[1], e[3]>> : e \in {d \in weighted : d[2] = u}}
                    tos == SortSeq(Seqs!SetToSeq({e[2] : e \in out}), <)
                IN  [x \in DOMAIN tos |->
                       [to |-> tos[x], weight |-> (CHOOSE e \in out : e[2] = tos[x])[3]]]]]
Unit(pairs) == {<<p[1], p[2], 1>> : p \in pairs}

Small7 == GraphOf(7, FALSE, Unit({<<1, 2>>, <<1, 3>>, <<2, 4>>, <<2, 5>>, <<3, 6>>, <<5, 6>>, <<6, 7>>}))
MediumWeighted ==
    GraphOf(8, TRUE, {<<1, 2, 6>>, <<1, 3, 2>>, <<2, 4, 13>>, <<3, 4, 5>>, <<3, 5, 9>>, <<4, 6, 6>>,
                      <<4, 7, 10>>, <<5, 7, 2>>, <<6, 8, 7>>, <<7, 8, 7>>})
MediumFirst5 == GraphOf(5, TRUE, {<<1, 2, 6>>, <<1, 3, 2>>, <<2, 4, 13>>, <<3, 4, 5>>, <<3, 5, 9>>})
GridLike ==
    GraphOf(9, FALSE, {<<1, 2, 4>>, <<1, 4, 8>>, <<2, 3, 7>>, <<2, 5, 3>>, <<3, 6, 5>>, <<4, 5, 2>>,
                       <<4, 7, 6>>, <<5, 6, 9>>, <<5, 8, 4>>, <<6, 9, 3>>, <<7, 8, 5>>, <<8, 9, 8>>})
DirectedCycle == GraphOf(6, TRUE, Unit({<<1, 2>>, <<2, 3>>, <<2, 4>>, <<3, 6>>, <<4, 5>>, <<5, 6>>, <<5, 4>>}))
DirectedAcyclic == GraphOf(6, TRUE, Unit({<<1, 2>>, <<2, 3>>, <<2, 4>>, <<3, 6>>, <<4, 5>>, <<5, 6>>}))
TwoComponents == GraphOf(8, FALSE, Unit({<<1, 2>>, <<1, 3>>, <<3, 4>>, <<5, 6>>, <<5, 7>>, <<7, 8>>}))
BellmanDefault == {<<1, 2, 6>>, <<1, 3, 4>>, <<2, 4, -3>>, <<3, 4, 5>>, <<4, 5, 2>>}
Negatives == {GraphOf(5, TRUE, BellmanDefault), GraphOf(5, TRUE, BellmanDefault \cup {<<2, 1, -8>>}),
              GraphOf(4, TRUE, {<<4, 3, 2>>, <<3, 2, -1>>, <<2, 1, -1>>, <<4, 1, 3>>})}

\* The presets and their parts, graphs with negative weights, every undirected
\* graph on four nodes and every directed one on three.
Pairs4 == {<<1, 2>>, <<1, 3>>, <<1, 4>>, <<2, 3>>, <<2, 4>>, <<3, 4>>}
Arcs3 == {<<1, 2>>, <<2, 1>>, <<1, 3>>, <<3, 1>>, <<2, 3>>, <<3, 2>>}
Weigh(pairs) == {<<p[1], p[2], 1 + ((p[1] * p[2]) % 4)>> : p \in pairs}
MCNetworks ==
    {Small7, MediumWeighted, MediumFirst5, GridLike, DirectedCycle, DirectedAcyclic, TwoComponents}
      \cup Negatives
      \cup {GraphOf(4, FALSE, Weigh(s)) : s \in SUBSET Pairs4}
      \cup {GraphOf(3, TRUE, Weigh(s)) : s \in SUBSET Arcs3}

\* Boards of three rows and four columns with up to two walls.
Cells34 == (0 .. 2) \X (0 .. 3)
MCGrids ==
    {[rows |-> 3, cols |-> 4, walls |-> w, rough |-> r, start |-> <<1, 0>>, end |-> <<1, 3>>] :
        w \in UNION {Sets!kSubset(k, Cells34 \ {<<1, 0>>}) : k \in 0 .. 2},
        r \in {{}, {<<1, 1>>, <<1, 2>>, <<0, 2>>}}}
      \cup {[rows |-> 4, cols |-> 4, walls |-> w, rough |-> {}, start |-> <<2, 1>>, end |-> <<0, 3>>] :
              w \in {{}, {<<2, 2>>, <<1, 1>>, <<0, 2>>}, {<<0, 2>>, <<1, 3>>}}}

MCDepths == {0, 1, 2, 3, 4, 5, 6, 10, 12}
MCStrips == ArraysUpTo(3, {1, 2, 5}) \cup {ArrayOf(s) : s \in {<<2, 3, 1, 2, 4, 3>>, <<1, 3, 3, 1>>, <<1, 2, 9, 2, 1>>}}
MCGoals == {1, 3, 4, 7}
MCSeries ==
    UNION {[0 .. k - 1 -> {-2, 1, 3}] : k \in 1 .. 3}
      \cup {ArrayOf(s) : s \in {<<3, 1, 4, 1, 5>>, <<2, 1, 2, 4, 3>>, <<-2, 1, -3, 4, -1, 2>>,
                                <<-5, -2, -4>>, <<4, -5, 4, 2, 2, -9, 8, -1>>}}
Activity(s, f) == [start |-> s, finish |-> f]
MCActivities ==
    {<<Activity(1, 4), Activity(3, 5), Activity(0, 6), Activity(5, 7), Activity(3, 9), Activity(6, 10),
       Activity(8, 11)>>}
      \cup [1 .. 3 -> {Activity(0, 1), Activity(0, 3), Activity(1, 2), Activity(1, 3), Activity(2, 5), Activity(3, 4)}]
MCWordPairs == {<<<<"k", "i", "t", "t", "e", "n">>, <<"s", "i", "t", "t">>>>}
                 \cup [1 .. 2 -> {<<"a", "b", "c">>, <<"b", "a", "b">>, <<"a", "b", "a", "b">>, <<"c", "c", "a">>}]
MCPurses == {<<3, 4, 5, 2>>, <<1, 1, 1>>, <<2, 2, 4, 6>>, <<1, 2, 3, 4, 5>>, <<5, 1, 4, 2, 3>>, <<7, 2, 2>>}
MCBoards == {<<3, 3>>, <<4, 6>>, <<1, 5>>}

=============================================================================
