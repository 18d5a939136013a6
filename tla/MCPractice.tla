----------------------------- MODULE MCPractice -----------------------------
(***************************************************************************)
(* A learner on any one topic's page: one who changes the fields of the      *)
(* panel, or one who takes the challenges, the code questions, the Quick     *)
(* Checks and the offers, and goes from topic to topic.                      *)
(***************************************************************************)
EXTENDS Practice

\* Texts a learner may type: a run of its own; one in ascending order; one on
\* the bounds of the sorts with a range, one beyond each; one with a number
\* that is not whole, with one that is not finite, and with a word.
MCTypedTexts ==
    {<<4, 2, 9>>, <<1, 2, 3, 5>>, <<0, 9>>, <<10, 1>>, <<1000, 5>>, <<3, Half, 1>>, <<2, Infinite>>, <<1, Word>>}
MCTypedNumbers == {-1, 0, 3, 11, Blank}
MCTypedWords == {"zebra", "a1", ""}
MCVisited == {"bst", "heap-sort"}
MCShown == {"STRUCTURAL_PROPERTY_VIOLATION", "INVARIANT_MISAPPLICATION"}
=============================================================================
