----------------------------- MODULE MCGateway -----------------------------
EXTENDS Gateway, TLC

CONSTANTS r1, r2

\* A text of two windows with a space; a name that the fallback finds bare and
\* the primary in its carrier only.
AllTexts == {"long", "rare", "rare+"}
Lengths == "long" :> 7 @@ "rare" :> 2 @@ "rare+" :> 3
SpaceSets == [t \in AllTexts |-> IF t = "long" THEN {4} ELSE {}]
CarrierOf == "rare" :> "rare+"
Found == {<<"fallback", "rare">>, <<"primary", "rare+">>}

Fields(a, b) == 1 :> a @@ 2 :> b
Body(route, fields, stream) ==
  [route |-> route, size |-> "fits", parses |-> TRUE, fields |-> fields,
   hidden |-> FALSE, stream |-> stream]
Empty == Body(Responses, Fields(None, None), FALSE)
Plain == Body(ChatCompletions, Fields("long", None), FALSE)

\* A turn of the session, and what may come beside it.
BodiesOf ==
  r1 :> {Body(Messages, Fields("long", "rare"), TRUE), [Empty EXCEPT !.hidden = TRUE]}
  @@ r2 :> {Body(MessagesCountTokens, Fields("long", None), FALSE), Body(ClaudeCliBootstrap, Fields(None, None), FALSE),
            [Empty EXCEPT !.stream = TRUE],
            [Plain EXCEPT !.size = "declared", !.parses = FALSE], [Plain EXCEPT !.parses = FALSE]}
=============================================================================
