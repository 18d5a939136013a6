-------------------------- MODULE MCFeedbackStream --------------------------
(* Explanations of up to three sentences for TLC. *)
EXTENDS FeedbackStream

Clauses == {<<"w">>, <<"l">>, <<"r">>, <<"x">>, <<"q">>, <<"w", ".", "w">>,
            <<"w", " ", "-", " ", "w">>, <<"w", "u", "w">>}
Stops == {<<".", " ">>, <<".", "n", " ">>}

One == Clauses \cup {<<>>, <<" ">>}
Two == {c \o s \o d : c \in Clauses, s \in Stops, d \in Clauses \cup {<<>>}}
Three == {c \o <<".", " ">> \o d \o <<".", "n">> \o e :
            c \in {<<"w">>, <<"l">>}, d \in {<<"w">>, <<"x">>}, e \in {<<"w">>, <<"q", ".">>}}

MCValues == One \cup Two \cup Three
=============================================================================
