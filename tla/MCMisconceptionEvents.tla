----------------------- MODULE MCMisconceptionEvents -----------------------
(* Instances of MisconceptionEvents for model checking.                    *)
EXTENDS MisconceptionEvents, TLC

\* No handler tells event identities, request slots or topics apart.
Symmetry == 
  Permutations(Events) \cup Permutations(Requests) \cup Permutations(Topics)
============================================================================
