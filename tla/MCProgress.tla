----------------------------- MODULE MCProgress -----------------------------
(* Progress for TLC: a topic that is mastered by two right first attempts  *)
(* on two inputs and one explanation, and lost sight of by a wrong one.    *)
EXTENDS Progress, TLC

CONSTANTS r1, r2, badge

Scaled(type, correct, attempt, input, score) ==
  [type |-> type, correct |-> correct, attempt |-> attempt, input |-> input,
   score |-> score]

MCAnswers == {Scaled("PREDICTION", TRUE, 1, 1, None),
              Scaled("PREDICTION", TRUE, 1, 2, None),
              Scaled("COMPLEXITY_PREDICTION", FALSE, 1, 1, None),
              Scaled("FEYNMAN", FALSE, 1, None, 80)}

B(r, a, s, e, n) ==
  [rows |-> r, awards |-> a, starts |-> s, ends |-> e, nights |-> n]

MCBudgets == {B(4, 0, 0, 1, 0), B(2, 2, 0, 0, 0), B(0, 0, 4, 0, 3), B(1, 1, 1, 1, 1)}

MCSymmetry == Permutations({r1, r2})
============================================================================
