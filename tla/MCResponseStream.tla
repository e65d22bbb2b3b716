------------------------- MODULE MCResponseStream -------------------------
EXTENDS ResponseStream, TLC

\* Two labels; the text atom "x" is anything else.
TwoLabels == {"e", "k"}
Values == "e" :> "E" @@ "k" :> "K"
AllAtoms == {"x", "<", ">", "e", "k", "E", "K", "qE", "qK"}
EscapedValues == "e" :> "qE" @@ "k" :> "qK"

\* A placeholder cut at every place, whole ones, and label characters alone.
AllPieces == {<<"x">>, <<"<">>, <<"<", "e">>, <<"k">>, <<"e", ">">>, <<">">>, <<"<", "k", ">">>}

Entry(class, shape) == [class |-> class, shape |-> shape]
\* An ordinary value and a credential; a session's older identity label.
Replays == {"e" :> Entry("plain", "text") @@ "k" :> Entry("credential", "path"),
            "e" :> Entry("account", "uuid") @@ "k" :> Entry("ref", "text")}

Pair(a, b) == "c" :> a @@ "d" :> b
Stream(a, k, i, r, s) == [api |-> a, kind |-> k, choice |-> i, replay |-> r, strict |-> s]
Kinds == {<<"anthropic", Pair("text", "tool_use"), Pair(0, 0)>>,
          <<"anthropic", Pair("thinking", "server_tool_use"), Pair(0, 0)>>,
          <<"chat", Pair("content", "tool_calls"), Pair(0, 0)>>,
          <<"chat", Pair("content", "refusal"), Pair(0, 1)>>,
          <<"chat", Pair("content", "function_call"), Pair(0, 1)>>,
          <<"responses", Pair("output_text", "arguments"), Pair(0, 0)>>,
          <<"responses", Pair("aux", "code"), Pair(0, 0)>>}
AllScenarios == {Stream(k[1], k[2], k[3], r, s) : k \in Kinds, r \in Replays, s \in BOOLEAN}
=============================================================================
