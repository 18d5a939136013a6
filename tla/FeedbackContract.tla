-------------------------- MODULE FeedbackContract --------------------------
(***************************************************************************)
(* What the AI service promises of one stream of prediction feedback: at   *)
(* most MaxSentences sentences of the explanation, each one shown as it    *)
(* is released and never taken back, then one final answer, whose          *)
(* explanation is what was shown whenever anything was.                    *)
(*                                                                         *)
(* FeedbackStream implements it; FeedbackClient is composed with it.       *)
(***************************************************************************)
EXTENDS Naturals, Sequences

CONSTANTS
  Sentences,    \* sentences fit to be shown
  Others,       \* explanations that stand in when none was shown
  MaxSentences, \* sentences released at the most
  None          \* no final answer yet

\* MaxSentences is a natural number, and None neither an explanation of Others
\* nor "shown": FeedbackStream, which instantiates this module, has it so.

VARIABLES
  shown, \* the sentences released, in order
  final  \* the final answer: "shown" when its explanation is what was shown

contractVars == <<shown, final>>

Shown == UNION {[1..n -> Sentences] : n \in 0..MaxSentences}

Init ==
  /\ shown = <<>>
  /\ final = None

\* What can be shown next: one piece of the model's text can complete
\* several sentences.
Longer(s) ==
  UNION {{s \o more : more \in [1..n -> Sentences]} : n \in 1..(MaxSentences - Len(s))}

\* The final answers once s has been shown.
Finals(s) == IF s = <<>> THEN Others ELSE {"shown"}

Reveal ==
  /\ final = None
  /\ shown' \in Longer(shown)
  /\ UNCHANGED final

Conclude ==
  /\ final = None
  /\ final' \in Finals(shown)
  /\ UNCHANGED shown

\* The same feedback is asked for again, and may be there already.
Renew ==
  /\ final # None
  /\ shown' = <<>>
  /\ final' \in Others \cup {None}

Next == Reveal \/ Conclude \/ Renew

Spec == Init /\ [][Next]_contractVars /\ WF_contractVars(Conclude)

=============================================================================
