--------------------------- MODULE MCRedactBody ---------------------------
EXTENDS RedactBody, TLC

Labels == "jane" :> "person" @@ "acme" :> "organization" @@ "card" :> "floor"
            @@ "blue" :> "none" @@ "pin" :> "secret"

Text(words, found) == [words |-> words, found |-> found]
Field(text) == [text |-> text, keyed |-> FALSE]
Secret(text) == [text |-> text, keyed |-> TRUE]

\* The model finds jane in the first text and misses her in the second; only it
\* finds the pin.
Greeting == Text({"jane", "card"}, {"jane"})
Missed == Text({"jane", "blue"}, {})
Vendor == Text({"acme", "blue", "pin"}, {"acme", "pin"})
Word == Text({"blue"}, {})

AllTexts == {Greeting, Missed, Vendor, Word}
Turns == {<<Field(Missed)>>, <<Field(Missed), Field(Greeting)>>, <<Secret(Word), Field(Vendor)>>}
FewTurns == {<<Field(Missed)>>, <<Field(Missed), Field(Greeting)>>}

\* Every mode and edits between requests; fewer of them, in flight, with and
\* without forwards that fail.
Steady == [bodies |-> Turns, modes |-> {"privacy", "coding", "off"},
           lists |-> {{}, {"jane", "pin"}}, edited |-> FALSE, unsent |-> FALSE]
InFlight == [bodies |-> FewTurns, modes |-> {"privacy", "off"},
             lists |-> {{"jane", "blue"}}, edited |-> TRUE, unsent |-> TRUE]
Arriving == [InFlight EXCEPT !.unsent = FALSE]
Sessions == {Steady, InFlight, Arriving}

\* One dictionary edit at any moment of two requests.
Renewed == {[bodies |-> {<<Field(Missed), Field(Greeting)>>}, modes |-> {"privacy"},
             lists |-> {{}, {"blue"}}, edited |-> TRUE, unsent |-> FALSE]}
ProcSymmetry == Permutations(Procs)
=============================================================================
