--------------------------- MODULE FeedbackStream ---------------------------
(***************************************************************************)
(* The streamed feedback of the AI service: one request for feedback on a  *)
(* prediction, from the model's text, which arrives in pieces cut anywhere,*)
(* to the events sent on; and a later request for the same feedback, which *)
(* the cache may answer.                                                   *)
(*                                                                         *)
(* The model's text is a sequence of symbols. It holds the explanation in  *)
(* a JSON string, with its escapes, and a mark for each later field.       *)
(***************************************************************************)
EXTENDS Integers, Sequences, SequencesExt, FiniteSets

CONSTANTS
  Values,       \* explanations the model may write, as sequences of Letters
  Later,        \* what it may make of the later fields, out of Marks
  MaxPiece,     \* bound: symbols of one piece of the stream
  MaxSentences  \* the gate's cap

\* "w": a word. "l", "r": words that reveal the right answer when both are
\* present. "x": a phrase of the model correcting itself. "q": a quotation
\* mark. "." ends a sentence when " " or "n", a line break, follows.
\* "-": a dash, and "u" a dash the model writes as a \u escape.
Letters == {"w", "l", "r", "x", "q", ".", " ", "n", "-", "u"}

\* What the socratic hint and the counterfactual are worth: both fit,
\* the hint breaking its rule, the counterfactual breaking its rule.
Marks == {"fit", "badHint", "badTrace"}

ASSUME StreamAssumption ==
  /\ Values \subseteq Seq(Letters)
  /\ Later \subseteq Marks
  /\ MaxPiece \in Nat \ {0}
  /\ MaxSentences \in Nat

VARIABLES
  request, \* the message the model is writing, and the verdict on the answer
  pos,     \* symbols of the message that have arrived
  cursor,  \* streamer: where the value goes on in the buffer, 0: not found
  done,    \* streamer: the value's closing quote has been seen
  pending, \* gate: decoded text no sentence of which has ended
  released, failure, closed, \* gate
  deltas,  \* the sentences sent on
  finals,  \* the final events sent
  cache    \* the explanation kept for the next request: one at the most

streamer == <<pos, cursor, done>>
gate == <<pending, released, failure, closed>>
events == <<deltas, finals>>
vars == <<request, streamer, gate, events, cache>>

----------------------------------------------------------------------------
(* The text of a message                                                   *)

Escaped == [s \in Letters |-> CASE s \in {"q", "n"} -> <<"\\", s>>
                                [] s = "u" -> <<"\\", "u", "h", "h">>
                                [] OTHER -> <<s>>]

\* The object the model writes: the key, the value in quotes, the later
\* fields, and the closing brace unless the text is garbled.
Raw(m) ==
  <<"{", "key">> \o FlattenSeq([i \in 1..Len(m.value) |-> Escaped[m.value[i]]])
    \o <<"\"", m.later>> \o (IF m.whole THEN <<"}">> ELSE <<>>)

\* A decoded value has no "u": the escape stands for a dash.
Plain(value) == [i \in 1..Len(value) |-> IF value[i] = "u" THEN "-" ELSE value[i]]

White == {" ", "n"}

Inked(t) == {i \in DOMAIN t : t[i] \notin White}

Strip(t) == IF Inked(t) = {} THEN <<>> ELSE SubSeq(t, Min(Inked(t)), Max(Inked(t)))

\* Text with every run of white space made one space: what a reader sees.
Squeeze(t) ==
  FlattenSeq([i \in DOMAIN t |-> CASE t[i] \notin White -> <<t[i]>>
                                   [] t[i] \in White /\ i > 1 /\ t[i - 1] \in White -> <<>>
                                   [] OTHER -> <<" ">>])

\* White space only lies between i and a dash.
BesideDash(t, i) ==
  \E j \in DOMAIN t : t[j] = "-" /\ \A k \in (i..j) \cup (j..i) : k # j => t[k] \in White

\* A dash and the white space around it become " = ", "=" being a hyphen.
sanitize_dashes(t) ==
  FlattenSeq([i \in DOMAIN t |-> CASE t[i] = "-" -> <<" ", "=", " ">>
                                   [] t[i] # "-" /\ BesideDash(t, i) -> <<>>
                                   [] OTHER -> <<t[i]>>])

----------------------------------------------------------------------------
(* JsonStringFieldStreamer                                                 *)

\* One turn of the loop over the buffer. An escape that is not all there yet
\* is left for the next piece.
DecodeNext(buffer, r) ==
  LET i == r.cursor
      escaped == i <= Len(buffer) /\ buffer[i] = "\\"
      unicode == escaped /\ i < Len(buffer) /\ buffer[i + 1] = "u"
      unit == IF unicode THEN 4 ELSE IF escaped THEN 2 ELSE 1
      symbol == IF unicode THEN "-" ELSE buffer[i + unit - 1]
  IN IF r.done \/ i + unit - 1 > Len(buffer) THEN r
     ELSE IF buffer[i] = "\"" THEN [r EXCEPT !.cursor = i + 1, !.done = TRUE]
     ELSE [r EXCEPT !.cursor = i + unit, !.text = Append(@, symbol)]

\* The buffer read from start on: the text decoded, where reading stopped, and
\* whether it stopped at the closing quote.
Decoded(buffer, start) ==
  LET after[k \in 0..Len(buffer)] ==
        IF k = 0 THEN [text |-> <<>>, cursor |-> start, done |-> FALSE]
        ELSE DecodeNext(buffer, after[k - 1])
  IN after[Len(buffer)]

\* The key has to have arrived whole: both its symbols.
FieldStart(buffer) == IF Len(buffer) >= 2 THEN 3 ELSE 0

\* A wrong variant of the next: half an escape at the end of a piece is lost.
ForgetsEscape(buffer) ==
  LET start == IF cursor = 0 THEN FieldStart(buffer) ELSE cursor
  IN IF done \/ start = 0 THEN [text |-> <<>>, cursor |-> cursor, done |-> done]
     ELSE [Decoded(buffer, start) EXCEPT !.cursor = Len(buffer) + 1]

StreamerFeed(buffer) ==
  LET start == IF cursor = 0 THEN FieldStart(buffer) ELSE cursor
  IN IF done \/ start = 0 THEN [text |-> <<>>, cursor |-> cursor, done |-> done]
     ELSE Decoded(buffer, start)

----------------------------------------------------------------------------
(* SentenceGate                                                            *)

Symbols(t) == {t[i] : i \in 1..Len(t)}
Leaks(t) == {"l", "r"} \subseteq Symbols(t)

\* The rule a sentence breaks, "none" if it may be shown. Only a wrong
\* answer leaves something to be given away.
SentenceCheck(t, correct) ==
  IF "x" \in Symbols(t) THEN "self_correction"
  ELSE IF ~correct /\ Leaks(t) THEN "answer_leak"
  ELSE "none"

\* A wrong variant of Admit: a failure takes back what was released.
AdmitTakingBack(g, raw, correct) ==
  LET sentence == Strip(raw)
      why == IF Len(g.released) >= MaxSentences THEN "sentences"
             ELSE SentenceCheck(sentence, correct)
  IN IF sentence = <<>> THEN g
     ELSE IF why # "none" THEN [g EXCEPT !.failure = why, !.closed = TRUE, !.released = <<>>]
     ELSE [g EXCEPT !.released = Append(@, sentence)]

Admit(g, raw, correct) ==
  LET sentence == Strip(raw)
      why == IF Len(g.released) >= MaxSentences THEN "sentences"
             ELSE SentenceCheck(sentence, correct)
  IN IF sentence = <<>> THEN g
     ELSE IF why # "none" THEN [g EXCEPT !.failure = why, !.closed = TRUE]
     ELSE [g EXCEPT !.released = Append(@, sentence)]

\* The length of the first sentence of t, white space after it included; 0
\* when no sentence of t has ended.
SentenceEnd(t) ==
  LET ends == {i \in 1..(Len(t) - 1) : t[i] = "." /\ t[i + 1] \in White}
  IN IF ends = {} THEN 0
     ELSE Min({i \in Inked(t) : i > Min(ends)} \cup {Len(t) + 1}) - 1

\* One turn of the loop of feed: the next sentence is judged, if one has ended.
DrainNext(g, correct) ==
  LET n == SentenceEnd(g.pending)
      rest == [g EXCEPT !.pending = SubSeq(@, n + 1, Len(@))]
  IN IF g.closed \/ n = 0 THEN g ELSE Admit(rest, SubSeq(g.pending, 1, n), correct)

Drain(g, correct) ==
  LET after[k \in 0..Len(g.pending)] ==
        IF k = 0 THEN g ELSE DrainNext(after[k - 1], correct)
  IN after[Len(g.pending)]

GateFeed(g, text, correct) ==
  IF g.closed THEN g ELSE Drain([g EXCEPT !.pending = @ \o text], correct)

\* A wrong variant of GateFinish: the last sentence is not judged but lost.
FinishDropping(g, correct) == [g EXCEPT !.closed = TRUE, !.pending = <<>>]

GateFinish(g, correct) ==
  IF g.closed THEN g
  ELSE [Admit([g EXCEPT !.closed = TRUE], g.pending, correct) EXCEPT !.pending = <<>>]

TheGate == [pending |-> pending, released |-> released,
            failure |-> failure, closed |-> closed]

GateBecomes(g) ==
  /\ pending' = g.pending
  /\ released' = g.released
  /\ failure' = g.failure
  /\ closed' = g.closed

----------------------------------------------------------------------------
(* _prediction_events                                                      *)

\* The rule the whole field breaks: what is cached has to pass as a whole.
SentenceCount(t) ==
  LET text == Strip(t)
  IN 1 + Cardinality({i \in 1..(Len(text) - 1) : text[i] = "." /\ text[i + 1] \in White})

ExplanationFailure(t, correct) ==
  IF Strip(t) = <<>> THEN "empty"
  ELSE IF "x" \in Symbols(t) THEN "self_correction"
  ELSE IF SentenceCount(t) > 2 THEN "sentences"
  ELSE IF ~correct /\ Leaks(t) THEN "answer_leak"
  ELSE "none"

FieldFailures(m, correct) ==
  (IF ExplanationFailure(sanitize_dashes(Plain(m.value)), correct) # "none"
     THEN {"consequence_explanation"} ELSE {})
  \cup (CASE m.later = "badHint" -> {"socratic_hint"}
           [] m.later = "badTrace" -> {"counterfactual_trace"}
           [] OTHER -> {})

\* err is how the stream broke, "none" if it did not; truncated that the
\* model stopped at its token limit. What the gate never closed on was not
\* checked to its end, and is not shown.
Final(err, truncated) ==
  LET m == request.message
      correct == request.correct
      parsed == err = "none" /\ m.whole /\ pos = Len(Raw(m))
      bad == FieldFailures(m, correct)
      gateFailure == IF failure = "none" /\ ~closed THEN "incomplete" ELSE failure
      ownEmpty == parsed /\ correct /\ Strip(m.value) = <<>>
  IN [outcome |-> err,
      explanation |-> released,
      fallback |->
        {f \in {"socratic_hint"} \cup (IF correct THEN {} ELSE {"counterfactual_trace"}) :
           ~parsed \/ f \in bad}
        \cup (IF released = <<>> /\ ~ownEmpty THEN {"consequence_explanation"} ELSE {}),
      valid |-> err = "none" /\ ~truncated /\ parsed /\ gateFailure = "none" /\ bad = {}]

Messages == [value : Values, later : Later, whole : BOOLEAN]
Verdicts == BOOLEAN

Init ==
  /\ request \in [message : Messages, correct : Verdicts]
  /\ pos = 0 /\ cursor = 0 /\ done = FALSE
  /\ pending = <<>> /\ released = <<>> /\ failure = "none" /\ closed = FALSE
  /\ deltas = <<>> /\ finals = <<>>
  /\ cache = {}

\* The next n symbols arrive. A gate that has closed is fed no more, but the
\* stream is read on for the later fields.
Piece(n) ==
  LET buffer == SubSeq(Raw(request.message), 1, pos + n)
      fed == StreamerFeed(buffer)
      afterFeed == IF fed.text = <<>> THEN TheGate
                   ELSE GateFeed(TheGate, sanitize_dashes(fed.text), request.correct)
      g == IF fed.done THEN GateFinish(afterFeed, request.correct) ELSE afterFeed
  IN /\ finals = <<>>
     /\ pos + n <= Len(Raw(request.message))
     /\ pos' = pos + n
     /\ IF closed
          THEN UNCHANGED <<cursor, done, gate, deltas>>
          ELSE /\ cursor' = fed.cursor
               /\ done' = fed.done
               /\ GateBecomes(g)
               /\ deltas' = deltas \o SubSeq(g.released, Len(released) + 1, Len(g.released))
     /\ UNCHANGED <<request, finals, cache>>

\* The stream ends: the model is done, or stops at its token limit; the call
\* fails; or the deadline passes. One final event follows, in any case.
End(err, truncated) ==
  LET f == Final(err, truncated)
  IN /\ finals = <<>>
     /\ err = "none" /\ ~truncated => pos = Len(Raw(request.message))
     /\ closed' = TRUE
     /\ failure' = IF failure = "none" /\ ~closed THEN "incomplete" ELSE failure
     /\ finals' = <<f>>
     /\ cache' = IF f.valid THEN {sanitize_dashes(Plain(request.message.value))} ELSE cache
     /\ UNCHANGED <<request, streamer, pending, released, deltas>>

Hit(text) == [outcome |-> "cache", explanation |-> <<text>>,
              fallback |-> {}, valid |-> TRUE]

\* Feedback on the same answer is asked for again. A hit is sent at once; an
\* entry that has expired is a miss, and the model writes its text anew (the
\* same text here: every other text is that of an initial state, as is what
\* follows an Ask that finds nothing kept).
Ask(expired) ==
  /\ finals # <<>>
  /\ cache # {}
  /\ cache' = IF expired THEN {} ELSE cache
  /\ finals' = IF expired THEN <<>> ELSE <<Hit(CHOOSE text \in cache : TRUE)>>
  /\ pos' = 0 /\ cursor' = 0 /\ done' = FALSE
  /\ pending' = <<>> /\ released' = <<>> /\ failure' = "none" /\ closed' = FALSE
  /\ deltas' = <<>>
  /\ UNCHANGED request

Next ==
  \/ \E n \in 1..MaxPiece : Piece(n)
  \/ \E err \in {"none", "error", "timeout"}, truncated \in BOOLEAN : End(err, truncated)
  \/ \E expired \in BOOLEAN : Ask(expired)

\* The deadline of the stream passes, if nothing has ended it before.
Spec == Init /\ [][Next]_vars /\ WF_vars(End("timeout", FALSE))

----------------------------------------------------------------------------
(* Properties                                                              *)

TypeOK ==
  /\ request \in [message : Messages, correct : Verdicts]
  /\ pos \in 0..Len(Raw(request.message))
  /\ cursor \in 0..(pos + 1)
  /\ done \in BOOLEAN /\ closed \in BOOLEAN
  /\ Symbols(pending) \subseteq Letters \cup {"="}
  /\ Len(released) <= MaxSentences
  /\ failure \in {"none", "sentences", "self_correction", "answer_leak", "incomplete"}
  /\ Len(finals) <= 1
  /\ Cardinality(cache) <= 1

\* What the gate would release if the whole value arrived in one piece.
Reference(value, correct) ==
  LET empty == [pending |-> <<>>, released |-> <<>>, failure |-> "none", closed |-> FALSE]
  IN GateFinish(GateFeed(empty, sanitize_dashes(Plain(value)), correct), correct).released

Read(sentences) == [i \in DOMAIN sentences |-> Squeeze(sentences[i])]

\* However the model's text is cut into pieces, inside an escape, a dash or
\* the space after a full stop too, the student is shown the sentences the
\* whole text would have given, in order (feed of both classes).
CutAnywhere ==
  LET ref == Read(Reference(request.message.value, request.correct))
  IN /\ IsPrefix(Read(deltas), ref)
     /\ done /\ closed => Len(deltas) = Len(ref)

\* A sentence that corrects itself or gives the answer away is never sent,
\* and neither is one that was still being written.
SentSafely ==
  \A i \in DOMAIN deltas :
    /\ SentenceCheck(deltas[i], request.correct) = "none"
    /\ i < Len(deltas) \/ ~done => Last(deltas[i]) = "."

\* The next student is served, from the cache, the sentences this one was
\* shown: only an answer without a fault is kept.
CacheServesWhatWasShown ==
  \A text \in cache :
    finals # <<>> /\ finals[1].outcome = "none" /\ finals[1].valid
      => Squeeze(Strip(text)) = Squeeze(FlattenSeq([i \in DOMAIN deltas |->
                                    IF i = 1 THEN deltas[1] ELSE <<" ">> \o deltas[i]]))

\* What is kept passes every rule on the whole field, on this verdict.
CacheIsValid ==
  \A text \in cache : ExplanationFailure(text, request.correct) = "none"

\* A reader of the contract sees sentences, fit or not, and one final answer.
Seen(sentences) ==
  [i \in DOMAIN sentences |->
     IF SentenceCheck(sentences[i], request.correct) = "none" THEN "fit" ELSE "unfit"]

SeenFinal ==
  IF finals = <<>> THEN "none"
  ELSE IF finals[1].outcome = "cache" THEN "kept"
  ELSE IF "consequence_explanation" \in finals[1].fallback THEN "fallback"
  ELSE IF finals[1].explanation = <<>> THEN "empty"
  ELSE IF finals[1].explanation = deltas THEN "shown"
  ELSE "replaced"

Contract == INSTANCE FeedbackContract WITH
  Sentences <- {"fit"}, Others <- {"kept", "fallback", "empty"}, None <- "none",
  shown <- Seen(deltas), final <- SeenFinal

\* The stream keeps the contract: nothing unfit is shown, nothing shown is
\* replaced by the final answer, and there always is a final answer.
KeepsContract == Contract!Spec

\* Wherever the response is cut, what is released is what the whole text holds,
\* and every sentence released passed its check.
ShownIsChecked == TypeOK /\ CutAnywhere /\ SentSafely

\* The cache keeps only what is fit and what the student was shown.
CacheIsHonest == CacheIsValid /\ CacheServesWhatWasShown

=============================================================================
