--------------------------- MODULE MCFieldSpans ---------------------------
EXTENDS FieldSpans

Kind(label, tier, conf) == [label |-> label, tier |-> tier, conf |-> conf]

AllLabels == Soft \cup {"payment_card", "sensitive_account_id", "password", "person", "organization"}
Floor == {"payment_card", "sensitive_account_id", "password"}

Text(kinds) ==
  [length |-> 4, kinds |-> kinds, words |-> {}, gaps |-> {}, hashes |-> {}, uuids |-> {},
   tokens |-> {}, paths |-> {}, users |-> {}]

Card == Kind("payment_card", 0, 2)
Account == Kind("sensitive_account_id", 0, 1)
AccountGuess == Kind("sensitive_account_id", 2, 3)

\* A card under surer and less sure guesses of the model.
Overlaps ==
  Text({Card, Kind("person", 2, 1), Kind("person", 2, 3), Kind("organization", 2, 2)})
\* Two words, a short gap apart.
Words ==
  [Text({Kind("address", 2, 2), Kind("postal_code", 0, 2), Account, AccountGuess})
     EXCEPT !.words = {<<0, 2>>, <<3, 4>>}, !.gaps = {<<2, 3>>}]
\* A path with a home directory.
Path ==
  [Text({Kind("file_path", 2, 2), Kind("password", 2, 3), Account, AccountGuess})
     EXCEPT !.paths = {<<0, 4>>}, !.users = {[root |-> 0, name |-> <<1, 3>>]}]
\* A UUID and a commit hash.
Ids ==
  [Text({Kind("email", 2, 2), Card, Account, AccountGuess})
     EXCEPT !.uuids = {<<0, 3>>}, !.hashes = {<<1, 4>>}]
\* An echoed placeholder.
Echo == [Text({Card, AccountGuess}) EXCEPT !.tokens = {<<1, 3>>}]
AllTexts == {Overlaps, Words, Path, Ids, Echo}

Guesses == {Text({Kind("organization", 2, 3)})}

Config(mode, allow, deny) ==
  [mode |-> mode, enabled |-> TRUE, exclude |-> {}, only |-> Labels,
   allow |-> allow, deny |-> deny]
\* An allowlisted text that is denylisted in part.
Dictionaries ==
  {Config("privacy", {}, {}), Config("coding", {<<0, 2>>}, {<<1, 2>>}),
   Config("off", {<<0, 2>>, <<1, 4>>}, {})}
CodingDeny == {Config("coding", {}, {<<1, 2>>})}
=============================================================================
