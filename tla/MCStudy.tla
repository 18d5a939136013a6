------------------------------ MODULE MCStudy ------------------------------
(* Study for TLC: one participant takes the whole way to the post-test     *)
(* while others join, leave and, some of them, make two calls at once.     *)
EXTENDS Study, TLC

CONSTANTS ann, bob, cal, sort, search, r1, r2

MCTopics == <<sort, search>>
MCUsers == {ann, bob, cal}
MCBudgets == {ann :> a @@ bob :> b @@ cal :> c :
                <<a, b, c>> \in {<<8, 0, 0>>, <<4, 2, 0>>, <<2, 2, 1>>, <<0, 5, 0>>}}
MCSymmetry == Permutations({r1, r2})
============================================================================
