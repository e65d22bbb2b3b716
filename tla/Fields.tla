------------------------------- MODULE Fields -------------------------------
(***************************************************************************)
(* One request body from the client to the upstream and one answer back:   *)
(* which strings of the JSON the three adapters surface as fields, how a   *)
(* redaction is written back through the handles that were taken before    *)
(* (a key may be renamed, arguments may be JSON inside a string), and what *)
(* of an answer is restored.                                               *)
(*                                                                         *)
(* A JSON value is a leaf [is |-> "str" | "num" | "file", text, role] or a *)
(* node [is |-> "obj" | "arr" | "json", kids], "json" being a string that  *)
(* holds the JSON of an object.  A kid is [key, role, val].  A place is    *)
(* the path of positions that leads to a kid.  The code never reads a      *)
(* role: it says whose the datum is, for the properties.                   *)
(***************************************************************************)
EXTENDS Naturals, SequencesExt, ToolArgPolicy

CONSTANTS
  Bodies,            \* the requests: [api, body]
  Maps,              \* what the session's map holds at first
  ReplyShapes(_, _, _),  \* the answers of an api that echo two texts
  Detects,           \* the texts the scan finds, with the label it gives them
  Secrets,           \* those of them a secret rule finds in any text
  Short,             \* texts of fewer than four characters
  Folded             \* case folding of the texts

VARIABLES
  api, sent,         \* the adapter, and the client's body
  doc,               \* [body, roots]: the body now, the parsed arguments
  map,               \* [v2p, p2v]
  fields, texts,     \* the handles, and the text each had when surfaced
  pc, next,          \* the pass, and the next field of it
  frozen,            \* the redactions memoized by this request
  replay,            \* what the answer may be restored with
  answer             \* the upstream's answer

fieldVars == <<api, sent, doc, map, fields, texts, pc, next, frozen, replay, answer>>
-----------------------------------------------------------------------------
(* The keys the adapters tell apart. *)

RoutingUrls == {"image_url", "file_url", "server_url"}
RoutingIds == {"file_id", "container_id", "call_id", "item_id", "response_id",
               "previous_response_id", "connector_id"}
DenyKeys ==
  {"type", "role", "id", "object", "status", "model", "name", "mime_type", "mimetype",
   "encoding", "format", "detail", "tool_choice", "service_tier", "output_index",
   "content_index", "index", "file_data", "version", "server_label", "vector_store_ids",
   "allowed_tools", "authorization", "container", "partial_images", "background",
   "verbosity", "properties", "required", "pattern", "additionalProperties", "$ref",
   "$defs", "parameters", "strict", "syntax", "definition"}
OpaqueKeys == {"encrypted_content"}
UserDataKeys == {"output", "outputs", "variables"}
SchemaEntryKeys == {"parameters", "schema", "input_schema"}
ValueLiteralKeys == {"enum", "const"}
JsonArgsKeys == {"arguments", "input", "tool_input"}
ResultKeys == {"output", "outputs", "result", "results"}
FileNameKeys == <<"filename", "file_name", "name">>

TextTypes == {"text", "input_text", "output_text"}
BinaryTypes == {"image", "input_image", "image_url", "document", "redacted_thinking", "thinking"}
FileTypes == {"input_file", "file"}
CallTypes == {"tool_use", "server_tool_use", "function_call", "shell_call", "mcp_call", "custom_tool_call"}

\* customer_id stands for the rest of the *_id family, which is no routing.
IsDenied(k) == k \in DenyKeys \cup RoutingUrls \cup RoutingIds \cup {"customer_id"}
IsRequestBreaking(k) == k \in RoutingIds \cup RoutingUrls

\* The floor label a value has for its key, "" for none.
SensitiveLabel(k) == CASE k = "password" -> "SECRET" [] k = "cvv" -> "CVV" [] OTHER -> ""
-----------------------------------------------------------------------------
(* JSON values. *)

IsLeaf(v) == v.is \in {"str", "num", "file"}
IsString(v) == v.is \in {"str", "file", "json"}
Written(v, x) == [v EXCEPT !.is = IF v.is = "file" THEN "file" ELSE "str", !.text = x]
Keys(v) == {v.kids[i].key : i \in DOMAIN v.kids}

\* What an operator yields for each element, joined.  (The sets bind what they
\* hold, so that TLC evaluates it once.)
Each(xs, Yields(_)) ==
  CHOOSE joined \in {FlattenSeq(parts) :
                       parts \in {<<>> \o [i \in DOMAIN ys |-> Yields(ys[i])] : ys \in {<<>> \o xs}}} : TRUE

RECURSIVE At(_, _)
At(v, p) == IF p = <<>> THEN v ELSE At(v.kids[Head(p)].val, Tail(p))
KidAt(v, p) == At(v, Front(p)).kids[Last(p)]

RECURSIVE Put(_, _, _)
Put(v, p, x) == IF p = <<>> THEN x ELSE [v EXCEPT !.kids[Head(p)].val = Put(@, Tail(p), x)]

\* Every text of a value: its keys and leaves, in order.
RECURSIVE Texts(_)
Texts(v) ==
  IF IsLeaf(v) THEN <<[text |-> v.text, role |-> v.role]>>
  ELSE Each(v.kids, LAMBDA kid :
         (IF v.is = "arr" THEN <<>> ELSE <<[text |-> kid.key, role |-> kid.role]>>) \o Texts(kid.val))

\* An object with a key twice.
Doubled(v) == v.is # "arr" /\ Cardinality(Keys(v)) < Len(v.kids)

RECURSIVE HasDuplicates(_)
HasDuplicates(v) ==
  ~IsLeaf(v) /\ \/ Doubled(v)
                \/ \E i \in DOMAIN v.kids : HasDuplicates(v.kids[i].val)

\* A key for a renamed entry that no sibling has.
Twin(k, n) == k \o ".dup" \o ToString(n)
Disambiguated(k, keys, old) ==
  IF k \notin keys \/ k = old THEN k
  ELSE Twin(k, CHOOSE n \in 1..Cardinality(keys) + 1 :
                 /\ Twin(k, n) \notin keys \ {old}
                 /\ \A m \in 1..n - 1 : Twin(k, m) \in keys \ {old})
-----------------------------------------------------------------------------
(* The entity map, as far as whole texts go. *)

Labels == {"EMAIL", "CARD", "SECRET", "CVV"}
FoldsCase(l) == l = "EMAIL"
Placeholder(l, x) == "<" \o l \o "_" \o x \o ">"
Placeholders == {Placeholder(l, x) : l \in Labels, x \in DOMAIN Folded}
Entry(l, x) ==
  [value |-> x, class |-> IF l = "EMAIL" THEN "plain" ELSE "credential", shape |-> "text", folds |-> FoldsCase(l)]

SameValue(m, x, folds) == {y \in DOMAIN m.v2p : folds /\ m.p2v[m.v2p[y]].folds /\ Folded[y] = Folded[x]}

Minted(m, x, l) ==
  IF x \in DOMAIN m.v2p THEN m
  ELSE IF SameValue(m, x, FoldsCase(l)) # {}
       THEN [m EXCEPT !.v2p = x :> m.v2p[CHOOSE y \in SameValue(m, x, TRUE) : TRUE] @@ @]
       ELSE [v2p |-> x :> Placeholder(l, x) @@ m.v2p, p2v |-> Placeholder(l, x) :> Entry(l, x) @@ m.p2v]

\* sweep_known on a text: a known value becomes its placeholder.
Swept(m, x) ==
  IF x \notin DOMAIN Folded \/ x \in Short THEN x
  ELSE IF x \in DOMAIN m.v2p THEN m.v2p[x]
  ELSE IF SameValue(m, x, TRUE) # {} THEN m.v2p[CHOOSE y \in SameValue(m, x, TRUE) : TRUE]
  ELSE x
-----------------------------------------------------------------------------
(* Extraction.  A cursor is a kid with its place. *)

Cell == "#"     \* a handle that follows its entry, and an index of a list
Slot == "%"     \* a handle on a position among entries that may share a key
Envelope == [struct |-> TRUE, schema |-> FALSE, denied |-> FALSE]
Root(v) == [key |-> "", val |-> v, at |-> <<>>, in |-> Envelope]
Children(c) ==
  IF IsLeaf(c.val) THEN <<>>
  ELSE [i \in DOMAIN c.val.kids |->
         [key |-> c.val.kids[i].key, val |-> c.val.kids[i].val, at |-> c.at \o <<i>>, in |-> c.in]]
Under(c, k) == IF c.val.is = "obj" THEN SelectSeq(Children(c), LAMBDA d : d.key = k) ELSE <<>>
Elements(c) == IF c.val.is = "arr" THEN Children(c) ELSE <<>>
Type(c) == IF Under(c, "type") = <<>> THEN "" ELSE Under(c, "type")[1].val.text

Handle(c, part, name, slot) == [at |-> c.at, part |-> part, name |-> name, slot |-> slot]

Value(c) == <<Handle(c, "val", Cell, <<>>)>>
Named(c) == IF IsString(c.val) THEN <<Handle(c, "val", c.key, <<>>)>> ELSE <<>>

\* Arguments held as JSON in a string: every key and every value inside.
RECURSIVE Inside(_, _, _)
Inside(c, slot, name) ==
  Each(Children(c), LAMBDA d :
    (IF c.val.is = "arr" THEN <<>> ELSE <<Handle(d, "key", name, slot)>>)
      \o IF IsLeaf(d.val) THEN <<Handle(d, "val", name, slot)>> ELSE Inside(d, slot, name))
PlainArgs(c) == Inside(c, c.at, Cell)
DupArgs(c) == Inside(c, c.at, Slot)    \* a key may stand twice: by position
JsonArgs(c) ==
  IF c.val.is # "json" THEN Named(c) ELSE IF HasDuplicates(c.val) THEN DupArgs(c) ELSE PlainArgs(c)

\* An inline file: its names, and its bytes when they are text.
IsDecoded(f) == f.media # "binary" /\ f.utf8
FilePart(c) ==
  IF Type(c) \notin FileTypes THEN <<>>
  ELSE FlattenSeq([i \in DOMAIN FileNameKeys |-> Each(Under(c, FileNameKeys[i]), Named)])
         \o Each(Under(c, "file_data"), LAMBDA d : IF d.val.is = "file" /\ IsDecoded(d.val) THEN Named(d) ELSE <<>>)

\* [mutant] Names inside user data are structure too.
DeniedAnywhere(c) == IsDenied(c.key)

\* What is structure at a place.
Denied(c) == IF c.in.struct THEN IsDenied(c.key) ELSE IsRequestBreaking(c.key)

\* The scope of what is under an entry.
ScopeUnder(c) ==
  LET schema == c.in.schema \/ c.key \in SchemaEntryKeys
  IN  [schema |-> schema, denied |-> Denied(c),
       struct |-> /\ c.in.struct
                  /\ c.key \notin ValueLiteralKeys
                  /\ ~schema => c.key \notin UserDataKeys /\ ~(c.key \in JsonArgsKeys /\ ~IsString(c.val))]

IsScanned(c) == IsString(c.val) \/ (c.val.is = "num" /\ ~c.in.schema)

\* The key of an entry of user data is surfaced with its value.
KeySurfaced(c) == ~c.in.struct /\ ~IsRequestBreaking(c.key) /\ c.key \notin Placeholders

RECURSIVE Collect(_)
CollectEntry(c) ==
  IF c.key \in OpaqueKeys THEN <<>>
  ELSE (IF KeySurfaced(c) THEN <<Handle(c, "key", Cell, <<>>)>> ELSE <<>>)
    \o IF ~IsScanned(c) THEN Collect([c EXCEPT !.in = ScopeUnder(c)])
       ELSE IF Denied(c) THEN <<>>
       ELSE IF c.in.struct /\ c.key \in JsonArgsKeys /\ IsString(c.val) THEN JsonArgs(c)
       ELSE IF KeySurfaced(c) THEN Value(c) ELSE <<Handle(c, "val", c.key, <<>>)>>
CollectElement(c) ==
  IF ~IsScanned(c) THEN Collect(c)
  ELSE IF c.in.denied THEN <<>> ELSE Value(c)
Collect(c) ==
  CASE c.val.is = "obj" -> FilePart(c) \o Each(Children(c), CollectEntry)
    [] c.val.is = "arr" -> Each(Children(c), CollectElement)
    [] OTHER -> <<>>

Structure(c) == Collect([c EXCEPT !.in = Envelope])
UserData(c) == Collect([c EXCEPT !.in = [Envelope EXCEPT !.struct = FALSE]])
StringOrData(c) == IF IsString(c.val) THEN Named(c) ELSE UserData(c)

\* A block of content: text, or anything else that is not media.
Block(c) ==
  IF IsString(c.val) THEN Value(c)
  ELSE IF Type(c) \in TextTypes /\ Under(c, "text") # <<>> THEN Each(Under(c, "text"), Named)
  ELSE IF c.val.is = "obj" /\ Type(c) \in BinaryTypes THEN <<>> ELSE UserData(c)
BlockOf(c) == IF c.val.is = "arr" THEN <<>> ELSE Block(c)    \* the lists that skip nested ones
Content(c) == IF IsString(c.val) THEN Named(c) ELSE Each(Elements(c), BlockOf)

ToolResult(c) ==
  CASE IsString(c.val) -> Named(c)
    [] c.val.is = "arr" -> Each(Elements(c), Block)
    [] OTHER -> UserData(c)

Document(c) ==
  Each(Under(c, "source"), LAMBDA s :
    IF Type(s) \notin {"text", "content"} THEN <<>>
    ELSE Each(Under(s, "text") \o Under(s, "content") \o Under(s, "data"), StringOrData))

AnthropicBlock(c) ==
  CASE Type(c) = "tool_result" -> Each(Under(c, "content"), ToolResult)
    [] Type(c) \in {"tool_use", "server_tool_use"} -> Each(Under(c, "input"), StringOrData)
    [] Type(c) = "document" -> Document(c)
    [] OTHER -> BlockOf(c)

AnthropicFields(c) ==
  Each(Under(c, "system"), Content)
    \o Each(Under(c, "messages"), LAMBDA ms : Each(Elements(ms), LAMBDA msg :
         Each(Under(msg, "content"), LAMBDA b :
           IF IsString(b.val) THEN Named(b) ELSE Each(Elements(b), AnthropicBlock))))
    \o Each(Under(c, "tools"), Structure)
    \o Each(Under(c, "metadata"), UserData)

Arguments(c) == Each(Under(c, "arguments"), LAMBDA d : IF IsString(d.val) THEN JsonArgs(d) ELSE UserData(d))

ChatMessage(c) ==
  LET names == IF \E i \in DOMAIN Under(c, "role") : Under(c, "role")[i].val.text \in {"function", "tool"}
               THEN <<>> ELSE Under(c, "name")
  IN  Each(Under(c, "content"), Content) \o Each(names \o Under(c, "refusal"), Named)
        \o Each(Under(c, "tool_calls"), LAMBDA ts :
             Each(Elements(ts), LAMBDA t : Each(Under(t, "function"), Arguments)))
        \o Each(Under(c, "function_call"), Arguments)

ChatFields(c) ==
  Each(Under(c, "messages"), LAMBDA ms : Each(Elements(ms), ChatMessage))
    \o Each(Under(c, "tools") \o Under(c, "functions"), Structure)
    \o Each(Under(c, "metadata"), UserData)
    \o Each(Under(c, "response_format"), Structure)
    \o Each(Under(c, "prediction"), LAMBDA p : Each(Under(p, "content"), StringOrData))
    \o Each(Under(c, "user"), Named)

\* The typed parts of a list.
ContentPart(c) ==
  IF Type(c) \in TextTypes THEN Each(Under(c, "text"), Named)
  ELSE IF Type(c) = "refusal" THEN Each(Under(c, "refusal"), Named) ELSE <<>>
ContentParts(c) == IF IsString(c.val) THEN Named(c) ELSE Each(Elements(c), ContentPart)

\* The items of a Responses request, then all that is left of each.
ResponsesItem(c) ==
  (IF Type(c) = "function_call" THEN Arguments(c) ELSE <<>>)
    \o (IF Type(c) = "function_call_output" THEN Each(Under(c, "output"), ContentParts) ELSE <<>>)
    \o Each(Under(c, "content"), ContentParts)
    \o Structure(c)

ResponsesFields(c) ==
  Each(Under(c, "instructions"), Named)
    \o Each(Under(c, "prompt"), LAMBDA p :
         Each(Under(p, "variables"), LAMBDA vs : Each(Children(vs), LAMBDA d :
           IF IsString(d.val) THEN Named(d) ELSE ContentPart(d)))
         \o Structure(p))
    \o Each(Under(c, "input"), LAMBDA d :
         IF IsString(d.val) THEN Named(d) ELSE Each(SelectSeq(Elements(d), LAMBDA e : e.val.is = "obj"), ResponsesItem))
    \o Each(Under(c, "tools") \o Under(c, "text"), Structure)
    \o Each(Under(c, "metadata"), UserData)

\* A place is surfaced once.
Claimed(hs) ==
  FoldLeft(LAMBDA seen, h :
             IF \E i \in DOMAIN seen : seen[i].at = h.at /\ seen[i].part = h.part THEN seen ELSE Append(seen, h),
           <<>>, hs)

Surfaced(request) ==
  LET c == Root(request.body)
  IN  Claimed(CASE request.api = "anthropic" -> AnthropicFields(c)
                [] request.api = "chat" -> ChatFields(c)
                [] OTHER -> ResponsesFields(c))
-----------------------------------------------------------------------------
(* Handles.  One into JSON arguments works on the object that was parsed   *)
(* when the handle was taken, and writes all of it back.                   *)

TreeOf(d, h) == IF h.slot = <<>> THEN d.body ELSE d.roots[h.slot]
PlaceIn(h) == SubSeq(h.at, Len(h.slot) + 1, Len(h.at))
Entered(d, h) == KidAt(TreeOf(d, h), PlaceIn(h))

\* container[key] after the key was renamed
IsLost(d, h) == h.part = "val" /\ h.name \notin {Cell, Slot} /\ Entered(d, h).key # h.name

TextOf(d, h) == IF h.part = "key" THEN Entered(d, h).key ELSE Entered(d, h).val.text

\* [mutant] A key is renamed without a look at its siblings.
RenamedBlindly(holder, i, x, name) == [holder EXCEPT !.kids[i].key = x]

\* An entry of an object gets another key.
Renamed(holder, i, x, name) ==
  [holder EXCEPT !.kids[i].key = IF name = Slot THEN x ELSE Disambiguated(x, Keys(holder), @)]

Changed(v, p, h, x) ==
  IF h.part = "val" THEN Put(v, p, Written(At(v, p), x))
  ELSE Put(v, Front(p), Renamed(At(v, Front(p)), Last(p), x, h.name))

WriteTo(d, h, x) ==
  LET tree == Changed(TreeOf(d, h), PlaceIn(h), h, x)
  IN  IF h.slot = <<>> THEN [d EXCEPT !.body = tree]
      ELSE [body |-> Put(d.body, h.slot, tree), roots |-> [d.roots EXCEPT ![h.slot] = tree]]
-----------------------------------------------------------------------------
(* The pass over sensitive keys. *)

\* json.loads keeps the last of the entries with one key.
RECURSIVE Loaded(_)
Loaded(v) ==
  IF IsLeaf(v) THEN v
  ELSE LET kids == [i \in DOMAIN v.kids |-> [v.kids[i] EXCEPT !.val = Loaded(@)]]
           lasting == [i \in DOMAIN kids |->
             [kids[i] EXCEPT !.val = kids[Max({j \in DOMAIN kids : kids[j].key = kids[i].key})].val]]
       IN  [v EXCEPT !.kids =
              IF v.is = "arr" THEN kids
              ELSE FoldLeft(LAMBDA s, k : IF \E i \in DOMAIN s : s[i].key = k.key THEN s ELSE Append(s, k),
                            <<>>, lasting)]

IsForced(k, v) == SensitiveLabel(k) # "" /\ IsLeaf(v) /\ v.text \notin Placeholders

\* The texts that are masked for their keys, in order.
RECURSIVE KeyedTexts(_)
KeyedTexts(v) ==
  IF IsLeaf(v) THEN <<>>
  ELSE Each((IF v.is = "json" THEN Loaded(v) ELSE v).kids, LAMBDA kid :
         IF IsForced(kid.key, kid.val) THEN <<[text |-> kid.val.text, label |-> SensitiveLabel(kid.key)]>>
         ELSE KeyedTexts(kid.val))

\* A value with those texts masked.  Arguments without any stay as they are.
RECURSIVE Forced(_, _)
Forced(v, m) ==
  IF IsLeaf(v) \/ (v.is = "json" /\ KeyedTexts(v) = <<>>) THEN v
  ELSE LET w == IF v.is = "json" THEN Loaded(v) ELSE v
       IN  [w EXCEPT !.kids = [i \in DOMAIN w.kids |->
              [w.kids[i] EXCEPT !.val = IF IsForced(w.kids[i].key, @) THEN Written(@, m.v2p[@.text]) ELSE Forced(@, m)]]]
-----------------------------------------------------------------------------
(* Answers. *)

Rehydrated(x, known) ==
  IF x \in DOMAIN known THEN known[x].value
  ELSE IF \E ph \in DOMAIN known, n \in 1..2 : x = Twin(ph, n)
       THEN LET of == CHOOSE t \in (DOMAIN known) \X (1..2) : x = Twin(t[1], t[2]) IN Twin(known[of[1]].value, of[2])
       ELSE x

TypeOf(v) == IF "type" \in Keys(v) THEN v.kids[CHOOSE i \in DOMAIN v.kids : v.kids[i].key = "type"].val.text ELSE ""

\* A signed block of reasoning stays as it is.
IsSealed(v) ==
  /\ api = "anthropic" /\ v.is = "obj"
  /\ \/ TypeOf(v) = "thinking" /\ "signature" \in Keys(v)
     \/ TypeOf(v) = "redacted_thinking" /\ "data" \in Keys(v)

\* The entries of an object under their restored keys.  Duplicates stay; an entry
\* whose own key was taken by a restored one replaces it, but in a JSON string.
Rekeyed(v, known, how) ==
  IF Doubled(v) THEN [i \in DOMAIN v.kids |-> [v.kids[i] EXCEPT !.key = Rehydrated(@, known)]]
  ELSE FoldLeft(LAMBDA s, kid :
             LET k == Rehydrated(kid.key, known)
                 taken == {s[i].key : i \in DOMAIN s}
             IN  IF k \in taken /\ k = kid.key /\ how # "dumped"
                 THEN [i \in DOMAIN s |-> IF s[i].key = k THEN [s[i] EXCEPT !.val = kid.val] ELSE s[i]]
                 ELSE Append(s, [kid EXCEPT !.key = Disambiguated(k, taken, kid.key)]),
           <<>>, v.kids)

\* [mutant] Only the block that is a call is executed.
ExecutedByType(v, kid) == TypeOf(v) \in CallTypes /\ kid.key \notin ResultKeys

\* Under this entry is what the client executes.
Executed(v, kid) ==
  kid.key \in JsonArgsKeys \/ (TypeOf(v) \in CallTypes /\ kid.key \notin ResultKeys)

\* A value restored to be shown, to be run, or to be run from a JSON string.
RECURSIVE Restored(_, _)
RestoredKid(v, kid, how) ==
  IF api # "anthropic" /\ kid.key \in OpaqueKeys THEN kid
  ELSE [kid EXCEPT !.val = Restored(@, IF how = "shown" /\ v.is = "obj" /\ Executed(v, kid) THEN "run" ELSE how)]
RestoredNode(v, how) ==
  LET whole == [v EXCEPT !.kids = [i \in DOMAIN v.kids |-> RestoredKid(v, v.kids[i], how)]]
      known == IF how = "shown" THEN replay ELSE ToolArgReplay(replay, FALSE)
  IN  IF v.is = "arr" THEN whole ELSE [whole EXCEPT !.kids = Rekeyed(whole, known, how)]
Dumped(v) == RestoredNode(v, "dumped")
Restored(v, how) ==
  CASE v.is = "num" -> v
    [] IsLeaf(v) /\ v.is # "num" ->
         [v EXCEPT !.text = Rehydrated(@, IF how = "shown" THEN replay ELSE ToolArgReplay(replay, FALSE))]
    [] ~IsLeaf(v) /\ IsSealed(v) -> v
    [] v.is = "json" -> Dumped(v)
    [] OTHER -> RestoredNode(v, how)
-----------------------------------------------------------------------------
NoAnswer == [is |-> "arr", kids |-> <<>>]
RECURSIVE AllTexts(_)
AllTexts(v) ==
  IF IsLeaf(v) THEN {v.text} ELSE Keys(v) \cup UNION {AllTexts(v.kids[i].val) : i \in DOMAIN v.kids}

Goes(to) == pc' = to /\ next' = 1

\* redact_body up to the scan; without a field nothing is scanned.
Extract ==
  /\ pc = "extract"
  /\ fields' = Surfaced([api |-> api, body |-> sent])
  /\ doc' = [body |-> sent,
             roots |-> [s \in {fields'[i].slot : i \in DOMAIN fields'} \ {<<>>} |-> At(sent, s)]]
  /\ texts' = [i \in DOMAIN fields' |-> TextOf(doc', fields'[i])]
  /\ IF fields' # <<>> \/ DOMAIN map.v2p # {} THEN Goes("keyed")
     ELSE IF AllTexts(sent) \cap Secrets # {} THEN Goes("refused") ELSE Goes("upstream")
  /\ UNCHANGED <<api, sent, map, frozen, replay, answer>>

MaskKeyed ==
  /\ pc = "keyed" /\ Goes("substitute")
  /\ map' = FoldLeft(LAMBDA m, keyed : Minted(m, keyed.text, keyed.label), map, KeyedTexts(doc.body))
  /\ doc' = [doc EXCEPT !.body = Forced(@, map')]
  /\ UNCHANGED <<api, sent, fields, texts, frozen, replay, answer>>

\* One detected field; the others are passed over.
Substitute ==
  /\ pc = "substitute" /\ next <= Len(fields)
  /\ next' = next + 1
  /\ IF texts[next] \in DOMAIN Detects
     THEN /\ map' = Minted(map, texts[next], Detects[texts[next]])
          /\ doc' = WriteTo(doc, fields[next], map'.v2p[texts[next]])
     ELSE UNCHANGED <<map, doc>>
  /\ UNCHANGED <<api, sent, fields, texts, pc, frozen, replay, answer>>

Substituted == pc = "substitute" /\ next > Len(fields) /\ Goes("sweep")
               /\ UNCHANGED <<api, sent, doc, map, fields, texts, frozen, replay, answer>>

\* One field is replayed, or swept and frozen.
Sweep ==
  /\ pc = "sweep" /\ next <= Len(fields) /\ ~IsLost(doc, fields[next])
  /\ next' = next + 1
  /\ frozen' = IF texts[next] \in DOMAIN frozen THEN frozen
               ELSE texts[next] :> Swept(map, TextOf(doc, fields[next])) @@ frozen
  /\ doc' = IF frozen'[texts[next]] = TextOf(doc, fields[next]) THEN doc
            ELSE WriteTo(doc, fields[next], frozen'[texts[next]])
  /\ UNCHANGED <<api, sent, map, fields, texts, pc, replay, answer>>

\* The field's key is gone: the request is refused.
SweepFails ==
  /\ pc = "sweep" /\ next <= Len(fields) /\ IsLost(doc, fields[next]) /\ Goes("refused")
  /\ UNCHANGED <<api, sent, doc, map, fields, texts, frozen, replay, answer>>

Forward ==
  /\ pc = "sweep" /\ next > Len(fields) /\ Goes("upstream")
  /\ replay' = Restrict(map.p2v, {ph \in DOMAIN map.p2v :
                  \E x \in AllTexts(doc.body) : x = ph \/ \E n \in 1..2 : x = Twin(ph, n)})
  /\ UNCHANGED <<api, sent, doc, map, fields, texts, frozen, answer>>

\* What the client wrote in a field, and what of it went upstream.
Echoes ==
  {e \in {<<texts[i], TextOf(doc, fields[i])>> : i \in DOMAIN fields} : e[2] \in AllTexts(doc.body)}

Answer ==
  /\ pc = "upstream" /\ Goes("answered")
  /\ \E e, f \in Echoes : \E reply \in ReplyShapes(api, e, f) : answer' = reply
  /\ UNCHANGED <<api, sent, doc, map, fields, texts, frozen, replay>>

\* What the client receives.
Received == IF replay = <<>> THEN answer ELSE Restored(answer, "shown")

Init ==
  /\ \E b \in Bodies : api = b.api /\ sent = b.body /\ doc = [body |-> b.body, roots |-> <<>>]
  /\ map \in Maps
  /\ fields = <<>> /\ texts = <<>> /\ pc = "extract" /\ next = 1
  /\ frozen = <<>> /\ replay = <<>> /\ answer = NoAnswer

Next ==
  \/ Extract \/ MaskKeyed \/ Substitute \/ Substituted \/ Sweep \/ SweepFails
  \/ Forward \/ Answer

Spec == Init /\ [][Next]_fieldVars
-----------------------------------------------------------------------------
IsForwarded == pc \in {"upstream", "answered"}

\* What must not go upstream: what the scan finds, and what the map knows.
Raw == DOMAIN Detects \cup (DOMAIN map.v2p \ Short)

\* Wherever the user's data is in a request, under whatever keys and as a key,
\* in arguments or in a file, none of it that is found goes upstream raw.
NothingRaw ==
  IsForwarded => \A t \in ToSet(Texts(doc.body)) : t.role = "user" => t.text \notin Raw

\* A value with the user's data blanked.
RECURSIVE Skeleton(_)
Skeleton(v) ==
  IF IsLeaf(v) THEN IF v.role = "user" THEN [is |-> "str", text |-> "*"] ELSE [is |-> v.is, text |-> v.text]
  ELSE [is |-> v.is, kids |-> [i \in DOMAIN v.kids |->
         [key |-> IF v.kids[i].role = "user" THEN "*" ELSE v.kids[i].key, val |-> Skeleton(v.kids[i].val)]]]

\* What makes up the protocol is forwarded as it came: names, ids, routing,
\* schemas and signed reasoning, and no entry is lost to a renamed key.
StructureKept ==
  IsForwarded => /\ Skeleton(doc.body) = Skeleton(sent)
                 /\ \A p \in {fields[i].at : i \in {j \in DOMAIN fields : fields[j].part = "key"}} :
                      LET holder == At(doc.body, Front(p))
                      IN  HasDuplicates(At(sent, Front(p))) \/ Cardinality(Keys(holder)) = Len(holder.kids)

SameText(x, y) == x = y \/ (x \in DOMAIN Folded /\ y \in DOMAIN Folded /\ Folded[x] = Folded[y])

\* What an answer echoes comes back to the client as the client wrote it, but
\* for case; what the client would execute keeps the placeholder of a
\* withheld value; signed reasoning stays as the upstream wrote it.  It is not
\* said of what the client itself wrote as a placeholder, which is restored like
\* any, nor of a key that was written twice in other cases, which comes back as
\* the twin (.dup1) that the renaming made of it.
RoundTrip ==
  pc = "answered" => \A t \in ToSet(Texts(Received)) :
        CASE t.role.for = "fixed" -> TRUE
          [] t.role.for = "sealed" -> t.text = t.role.echo
          [] t.role.for = "run" /\ t.role.echo \in DOMAIN map.p2v
               /\ IsWithheldPlaceholder(map.p2v[t.role.echo]) -> t.text = t.role.echo
          [] OTHER -> SameText(t.text, t.role.was) \/ t.role.was \in Placeholders
                        \/ \E n \in 1..2, ph \in Placeholders : t.role.echo = Twin(ph, n)
=============================================================================
