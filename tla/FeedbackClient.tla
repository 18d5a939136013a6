--------------------------- MODULE FeedbackClient ---------------------------
(***************************************************************************)
(* The feedback on the answers to the steps of one run, in the web client: *)
(* each answer opens a stream of feedback, which keeps FeedbackContract,   *)
(* and asks for a verdict at the same time; the stream is relayed by the   *)
(* API and may break; the student may go on to something else. The card    *)
(* shows the explanation while it comes in, and the interaction log        *)
(* records what was displayed.                                             *)
(***************************************************************************)
EXTENDS Integers, Sequences, SequencesExt, FiniteSets

CONSTANTS
  Sentences, MaxSentences, \* as in FeedbackContract
  Levels,         \* levels of support, out of "HIGH", "MEDIUM", "LOW", "NONE"
  MaxSubmissions, \* bound: answers given in one behaviour
  Steps           \* bound: steps of the run

Submissions == 1..MaxSubmissions

ASSUME ClientAssumption ==
  /\ Levels \subseteq {"HIGH", "MEDIUM", "LOW", "NONE"}
  /\ MaxSentences \in Nat
  /\ MaxSubmissions \in Nat
  /\ Steps \in Nat \ {0}

VARIABLES
  level,      \* the student's level of support
  step,       \* the step of the run on screen
  zone,       \* the prediction zone
  current,    \* the submission whose token is valid, 0 if none
  submission, \* every answer given: its verdict, its stream, its log entry
  card        \* the feedback card: whose text it shows, if any

vars == <<level, step, zone, current, submission, card>>

\* The server's end of a stream: its sentences and its final answer.
Contract == INSTANCE FeedbackContract WITH
  Others <- {"fallback", "empty"}, None <- "none", shown <- <<>>, final <- "none"

NotGiven == [at |-> 0, verdict |-> "none", shown |-> <<>>, final |-> "none",
             read |-> 0, stream |-> "none", previewing |-> FALSE, log |-> <<"no">>]

\* A text is a sequence of sentences; texts that are not the model's are one.
DISCONNECTED_FALLBACK_TEXT == <<"notice">>
FALLBACK_EXPLANATION == <<"fallback">>
NONE_TEXT == <<"static">>

NoCard == [of |-> 0, text |-> <<>>]

FreshZone == [state |-> "idle", submitting |-> FALSE, resolvedBy |-> 0]

Init ==
  /\ level \in Levels
  /\ step = 1
  /\ zone = FreshZone
  /\ current = 0
  /\ submission = [s \in Submissions |-> NotGiven]
  /\ card = NoCard

Given == {s \in Submissions : submission[s].at # 0}
Becomes(s, x) == submission' = [submission EXCEPT ![s] = x]

\* firstSentence, at LOW.
Analysis(text) == IF level = "LOW" THEN SubSeq(text, 1, 1) ELSE text

\* What the stream of x has told the client so far.
SoFar(x) == SubSeq(x.shown, 1, x.read)

----------------------------------------------------------------------------
(* Answering and leaving                                                   *)

\* handleSubmit up to its first await: both calls are sent.
Submit(s) ==
  /\ zone.state = "idle" /\ ~zone.submitting
  /\ s = Cardinality(Given) + 1
  /\ zone' = [zone EXCEPT !.submitting = TRUE]
  /\ current' = s
  /\ Becomes(s, [NotGiven EXCEPT !.at = step, !.verdict = "awaited", !.stream = "opening"])
  /\ UNCHANGED <<level, step, card>>

\* A wrong variant of Preview: of any submission.
PreviewAnyway(s, x) ==
  card' = IF x.previewing /\ x.read > 0
          THEN [of |-> s, text |-> Analysis(SoFar(x))] ELSE card
\* The token is checked when preview text is about to be put on the card.
Preview(s, x) ==
  card' = IF x.previewing /\ x.read > 0 /\ current = s
          THEN [of |-> s, text |-> Analysis(SoFar(x))] ELSE card

\* The verdict is in: the zone takes it, whatever it shows by now, and what
\* has been streamed already is previewed.
Verdict(s, right) ==
  LET x == [submission[s] EXCEPT !.verdict = IF right THEN "right" ELSE "wrong",
                                 !.previewing = level # "NONE"]
  IN /\ submission[s].verdict = "awaited"
     /\ Becomes(s, x)
     /\ zone' = [state |-> IF right THEN "correct" ELSE "incorrect",
                 submitting |-> FALSE,
                 resolvedBy |-> IF right THEN s ELSE zone.resolvedBy]
     /\ IF level = "NONE" /\ ~right
          THEN card' = [of |-> s, text |-> NONE_TEXT]
          ELSE Preview(s, x)
     /\ UNCHANGED <<level, step, current>>

\* The call for the verdict fails: handleSubmit ends there.
VerdictFails(s) ==
  /\ submission[s].verdict = "awaited"
  /\ Becomes(s, [submission[s] EXCEPT !.verdict = "failed"])
  /\ UNCHANGED <<level, step, zone, current, card>>

\* "Try again" at HIGH.
TryAgain ==
  /\ level = "HIGH"
  /\ zone.state = "incorrect"
  /\ zone' = [zone EXCEPT !.state = "idle"]
  /\ current' = 0
  /\ card' = NoCard
  /\ UNCHANGED <<level, step, submission>>

\* Below HIGH the zone resets itself some time after the feedback is in; the
\* card stays.
AutoReset(s) ==
  /\ level # "HIGH"
  /\ current = s
  /\ submission[s].verdict = "wrong" /\ submission[s].stream = "settled"
  /\ zone.state = "incorrect"
  /\ zone' = [zone EXCEPT !.state = "idle"]
  /\ UNCHANGED <<level, step, current, submission, card>>

\* The run goes on to another step, by itself or because the student steps:
\* the effect of the zone starts everything afresh, the answer in flight apart.
MoveOn ==
  /\ step < Steps
  /\ step' = step + 1
  /\ zone' = [FreshZone EXCEPT !.submitting = zone.submitting]
  /\ current' = 0
  /\ card' = NoCard
  /\ UNCHANGED <<level, submission>>

----------------------------------------------------------------------------
(* The stream                                                              *)

\* The server's steps: those of the contract.
ServerReveals(s) ==
  /\ submission[s].stream = "open" /\ submission[s].final = "none"
  /\ \E more \in Contract!Longer(submission[s].shown) :
       Becomes(s, [submission[s] EXCEPT !.shown = more])
  /\ UNCHANGED <<level, step, zone, current, card>>

ServerConcludes(s) ==
  /\ submission[s].stream = "open" /\ submission[s].final = "none"
  /\ \E f \in Contract!Finals(submission[s].shown) :
       Becomes(s, [submission[s] EXCEPT !.final = f])
  /\ UNCHANGED <<level, step, zone, current, card>>

\* relayPredictionStream opens the stream, or fails while it still can.
Open(s) ==
  /\ submission[s].stream = "opening"
  /\ \E result \in {"open", "json"} :
       Becomes(s, [submission[s] EXCEPT !.stream = result])
  /\ UNCHANGED <<level, step, zone, current, card>>

\* readPredictionStream gets the next event: a sentence, or the final answer.
Read(s) ==
  LET x == submission[s]
      next == [x EXCEPT !.read = @ + 1]
  IN /\ x.stream = "open"
     /\ IF x.read < Len(x.shown)
          THEN Becomes(s, next) /\ Preview(s, next)
          ELSE /\ x.final # "none"
               /\ Becomes(s, [x EXCEPT !.stream = "final"])
               /\ UNCHANGED card
     /\ UNCHANGED <<level, step, zone, current>>

\* The connection drops, at the AI service, the API or the browser.
Drop(s) ==
  /\ submission[s].stream = "open"
  /\ Becomes(s, [submission[s] EXCEPT !.stream = "stream_disconnected"])
  /\ UNCHANGED <<level, step, zone, current, card>>

\* STREAM_CEILING_MS passes.
Ceiling(s) ==
  /\ submission[s].stream \in {"opening", "open"}
  /\ Becomes(s, [submission[s] EXCEPT !.stream = "stream_timeout"])
  /\ UNCHANGED <<level, step, zone, current, card>>

----------------------------------------------------------------------------
(* The end of resolveRichFeedback                                          *)

\* resolveDisplayedFeedback and disconnectedFeedback: the card's text, empty
\* when the card is to be left alone.
Displayed(x) ==
  IF level = "NONE" THEN <<>>
  ELSE IF x.stream \in {"stream_disconnected", "stream_timeout"}
  THEN IF x.verdict = "wrong" THEN DISCONNECTED_FALLBACK_TEXT ELSE <<>>
  ELSE CASE x.final = "shown" -> Analysis(x.shown)
         [] x.final = "empty" -> <<>>
         [] OTHER -> FALLBACK_EXPLANATION

\* A wrong variant of Settle: the token is not checked.
SettleAnyway(s, x) ==
  LET text == Displayed(x)
  IN /\ Becomes(s, [x EXCEPT !.stream = "settled", !.log = text])
     /\ card' = IF text # <<>> THEN [of |-> s, text |-> text] ELSE card
     /\ UNCHANGED <<level, step, zone, current>>
\* A text that leaves the card alone is still logged: as no text.
Settle(s, x) ==
  LET text == Displayed(x)
  IN /\ Becomes(s, [x EXCEPT !.stream = "settled", !.log = text])
     /\ card' = IF current = s /\ text # <<>> THEN [of |-> s, text |-> text] ELSE card
     /\ UNCHANGED <<level, step, zone, current>>

Judged(x) == x.verdict \in {"right", "wrong"}

\* A wrong variant of Resolve: a stale answer is not reported.
ResolveCurrent(s) ==
  /\ Judged(submission[s]) /\ current = s
  /\ submission[s].stream \in {"final", "stream_disconnected", "stream_timeout"}
  /\ Settle(s, submission[s])

\* The answer is reported whether or not its token is still valid.
Resolve(s) ==
  /\ Judged(submission[s])
  /\ submission[s].stream \in {"final", "stream_disconnected", "stream_timeout"}
  /\ Settle(s, submission[s])

\* A stream that never opened: the feedback is asked for as JSON instead ...
ResolveJson(s) ==
  /\ Judged(submission[s])
  /\ submission[s].stream = "json"
  /\ \/ \E text \in Contract!Longer(<<>>) :
          Settle(s, [submission[s] EXCEPT !.shown = text, !.final = "shown"])
     \/ Settle(s, [submission[s] EXCEPT !.final = "fallback"])

\* ... and if that fails too, nothing is shown and nothing is reported.
JsonFails(s) ==
  /\ Judged(submission[s])
  /\ submission[s].stream = "json"
  /\ Becomes(s, [submission[s] EXCEPT !.stream = "lost"])
  /\ UNCHANGED <<level, step, zone, current, card>>

Next ==
  \/ TryAgain \/ MoveOn
  \/ \E s \in Submissions :
       \/ Submit(s) \/ VerdictFails(s) \/ AutoReset(s)
       \/ \E right \in BOOLEAN : Verdict(s, right)
       \/ ServerReveals(s) \/ ServerConcludes(s) \/ Open(s) \/ Read(s) \/ Drop(s) \/ Ceiling(s)
       \/ Resolve(s) \/ ResolveJson(s) \/ JsonFails(s)

\* Timers fire, a call that was sent is answered or fails, and a promise that
\* has settled is taken up.
Spec ==
  /\ Init /\ [][Next]_vars
  /\ \A s \in Submissions :
       /\ WF_vars(Ceiling(s))
       /\ WF_vars(Resolve(s))
       /\ WF_vars(ResolveJson(s) \/ JsonFails(s))
       /\ WF_vars(VerdictFails(s) \/ \E right \in BOOLEAN : Verdict(s, right))

----------------------------------------------------------------------------
(* Properties                                                              *)

Texts == Contract!Shown \cup {DISCONNECTED_FALLBACK_TEXT, FALLBACK_EXPLANATION, NONE_TEXT}

TypeOK ==
  /\ level \in Levels /\ step \in 1..Steps
  /\ zone \in [state : {"idle", "correct", "incorrect"}, submitting : BOOLEAN,
               resolvedBy : Submissions \cup {0}]
  /\ current \in Submissions \cup {0}
  /\ card \in [of : Submissions \cup {0}, text : Texts]
  /\ \A s \in Submissions :
       /\ submission[s].at \in 0..Steps
       /\ submission[s].verdict \in {"none", "awaited", "right", "wrong", "failed"}
       /\ submission[s].shown \in Contract!Shown
       /\ submission[s].read \in 0..Len(submission[s].shown)
       /\ submission[s].log \in Texts \cup {<<"no">>}

\* Feedback that comes late never shows over a step it is not about: the card
\* holds the model's text on an answer to the step on screen, and above an
\* answer under judgement on that answer or an earlier one to the same step.
CardIsAboutTheStep ==
  card.of # 0 /\ card.text # NONE_TEXT => submission[card.of].at = step

\* The card of a retry does not bring back an answer given before.
CardNeverGoesBack == card'.of # 0 => card'.of >= card.of

\* What a student reads of one answer is never replaced: it grows, it is taken
\* away, or it gives way to the notice that the explanation could not be loaded.
ReadTextStands ==
  card'.of = card.of /\ card.of # 0 =>
    \/ IsPrefix(card.text, card'.text)
    \/ card'.text = DISCONNECTED_FALLBACK_TEXT

\* The log of an answer still on screen says what the card says.
LogAgreesWithCard ==
  \A s \in Submissions :
    current = s /\ submission[s].stream = "settled" /\ card.of = s
      /\ submission[s].log # <<>> =>
        submission[s].log = card.text

\* At LOW a student never reads more than one sentence.
OneSentenceAtLow == level = "LOW" => Len(card.text) <= 1

\* Every answer with a verdict is reported in the end, unless the stream never
\* opened and the call in its place failed.
JudgedIsReported ==
  \A s \in Submissions :
    Judged(submission[s]) ~> submission[s].stream \in {"settled", "lost"}

\* The card is about the step on screen, says what the log will say it said,
\* and no more than the level allows.
CardIsHonest == TypeOK /\ CardIsAboutTheStep /\ LogAgreesWithCard /\ OneSentenceAtLow

\* A student is never shown an earlier answer's feedback again, and what they
\* have read is not taken back, except by the notice that the connection broke.
CardOnlyGrows == [][CardNeverGoesBack /\ ReadTextStands]_card

=============================================================================
