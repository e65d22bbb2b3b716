----------------------------- MODULE MCDetection -----------------------------
EXTENDS Detection, TLC

MCDigits ==
  "4111" :> <<4, 1, 1, 1>> @@ "1111" :> <<1, 1, 1, 1>> @@ "046" :> <<0, 4, 6>>
    @@ "454" :> <<4, 5, 4>> @@ "286" :> <<2, 8, 6>> @@ "046454286" :> <<0, 4, 6, 4, 5, 4, 2, 8, 6>>
    @@ "1" :> <<1>> @@ "0001" :> <<0, 0, 0, 1>>
    @@ "3782" :> <<3, 7, 8, 2>> @@ "822463" :> <<8, 2, 2, 4, 6, 3>> @@ "10005" :> <<1, 0, 0, 0, 5>>
MCSecrets ==
  {<<0, 4, 6, 4, 5, 4, 2, 8, 6>>, <<4, 1, 1, 1, 1, 1, 1, 1, 1, 1, 1, 1, 1, 1, 1, 1>>,
   <<3, 7, 8, 2, 8, 2, 2, 4, 6, 3, 1, 0, 0, 0, 5>>}

Spellings ==
  "Jean" :> "jean" @@ "JEAN" :> "jean" @@ "Roy" :> "roy" @@ "Tremblay" :> "tremblay"
    @@ "TREMBLAY" :> "tremblay" @@ "tremblay" :> "tremblay" @@ "OLIV" :> "oliv" @@ "IER" :> "ier"
    @@ "Laval" :> "laval" @@ "LAVAL" :> "laval" @@ "vu" :> "vu" @@ "NAS" :> "nas" @@ "RT" :> "rt"
    @@ "de" :> "de" @@ "M" :> "m" @@ "Support" :> "support" @@ "SOLDE" :> "solde"
MCLower == Spellings @@ [a \in {Spellings[b] : b \in DOMAIN Spellings} |-> a]
MCCapitalized == {"Jean", "JEAN", "Roy", "Tremblay", "TREMBLAY", "OLIV", "IER", "Laval", "LAVAL", "NAS", "RT", "M", "Support", "SOLDE"}
MCShapes == "a@b.ca" :> [label |-> "email", conf |-> 99] @@ "A@b.ca" :> [label |-> "email", conf |-> 99]
MCAsciiForm == "nbsp" :> " " @@ "ndash" :> "-"
MCBrowserForm == MCAsciiForm @@ "enquad" :> " " @@ "\t" :> " "
MCInvisible == {"zwsp", "\n", "\t"}
MCNumberCues == {[cues |-> {"compte"}, label |-> "account_number", least |-> 5, most |-> 17]}
MCSecretCues == {[cues |-> {"cvv"}, label |-> "card_cvv", least |-> 3, most |-> 4]}
MCFloorLabels == {"payment_card", "card_cvv", "account_number", "sensitive_account_id", "government_id", "date_of_birth"}
MCLabels ==
  {"person", "city", "email", "government_id", "payment_card", "account_number", "card_cvv", "date_of_birth"}
MCPlaceholder == [l \in MCLabels |-> [n \in 1 .. 32 |-> "<" \o l \o "_" \o ToString(n) \o ">"]]
-----------------------------------------------------------------------------
\* Numbers in every dress, between what may stand beside them.
Gap == {<<>>, <<" ">>, <<"-">>, <<".">>, <<"nbsp">>, <<"ndash">>, <<"zwsp">>, <<"\t">>}

Spelled ==
  {<<"046">> \o g \o <<"454">> \o h \o <<"286">> : g \in Gap, h \in Gap}
    \cup {<<"3782">> \o g \o <<"822463">> \o h \o <<"10005">> : g \in Gap, h \in Gap}
    \cup {<<"4111">> \o g \o <<"1111">> \o h \o <<"1111">> \o g \o <<"1111">> : g \in Gap, h \in Gap}

Befores == {<<>>, <<"Jean">>, <<"NAS", " ">>, <<"1", ",">>, <<"zwsp">>, <<"1", "\n">>}
Afters == {<<>>, <<".">>, <<" ", "RT", "0001">>, <<"\n", "1">>, <<"zwsp", "Roy">>, <<"  ", "046">>}

MCLocalTexts == {b \o n \o a : b \in Befores, n \in Spelled, a \in Afters}
-----------------------------------------------------------------------------
\* Fillers of n words, to move what follows over the edge of a window.
Filler(n) == [k \in 1 .. 2 * n |-> IF k % 2 = 1 THEN "vu" ELSE " "]
Sin == <<"046", " ", "454", " ", "286">>

MCTexts ==
  {Filler(n) \o Sin \o <<" ">> \o Filler(4) : n \in 0 .. 8}
    \cup {Filler(n) \o <<"Jean", " ", "Tremblay", " ">> \o Filler(6) \o <<"TREMBLAY">> : n \in {0, 5, 6, 7}}
    \cup {<<"OLIV", "IER", " ", "Roy", "\n">> \o Filler(8) \o <<"\n", "OLIV", "IER", ".">>,
          <<"vu", " ", "Laval", ",", " ", "LAVAL", " ", "a@b.ca", " ", "A@b.ca">>,
          <<"Jean", " ", "Roy", " ", "Roy", " ", "Roy", " ", "Tremblay", " ", "Laval", "\n", "vu", " ", "LAVAL">>,
          <<"Jean", " ", "046454286", "\n", "vu", " ", "JEAN", "\n">>,
          <<"M", " ", "de", " ", "Tremblay", " ", "SOLDE", "\n", "Support", " ", "Tremblay", " ", "vu">>}

Tag(p, l, c) == [pref |-> p, label |-> l, conf |-> c]
MCTags == {Outside, Tag("B", "person", 90), Tag("I", "person", 90), Tag("B", "person", 60), Tag("B", "city", 95)}
MCTagged == {"Jean", "Tremblay", "OLIV", "Laval", "286"}
=============================================================================
