------------------------ MODULE MCMisconceptionLoop ------------------------
(* A run of three junctions and four steps, one topic, one category.       *)
EXTENDS MisconceptionLoop

CONSTANTS t1, c1, e1, e2

MCJunctions == 1..3
\* The last junction has three tiles: one clean probe there resolves.
MCTileCount == [j \in MCJunctions |-> IF j = 1 THEN 2 ELSE 3]
MCProbing == [c \in Categories |-> {2, 3}]
MCRequests == ({"check", "tick"} \X (1..MaxAnswers)) \cup {<<"task", 0>>}

\* A student and a network that behave, failures apart; one who steps through
\* the run, with calls that are late; one who hurries, with both.
MCEnvironments ==
  {{"failure"},
   {"manualStep", "slowCall", "eagerClick"},
   {"eagerStudent", "eagerClick", "slowCall", "failure"}}
============================================================================
