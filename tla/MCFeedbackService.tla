------------------------- MODULE MCFeedbackService -------------------------
EXTENDS FeedbackService, TLC

\* Neither keys nor handlers are told apart.
Symmetry == Permutations(Keys) \cup Permutations(Handlers)
=============================================================================
