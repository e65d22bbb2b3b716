------------------------------ MODULE MCFields ------------------------------
EXTENDS Fields

\* Two spellings of an address, a card, a name that only an earlier turn knows,
\* a key of a service, a value that is a secret for its key only, and words.
MCDetects == "mail" :> "EMAIL" @@ "Mail" :> "EMAIL" @@ "card" :> "CARD" @@ "sk" :> "SECRET"
MCFolded == [x \in {"mail", "Mail", "card", "acme", "sk", "pass", "834", "hello", "t"} |->
              IF x = "Mail" THEN "mail" ELSE x]
Acme == "<EMAIL_acme>"
MCMaps == {[v2p |-> <<>>, p2v |-> <<>>], [v2p |-> "acme" :> Acme, p2v |-> Acme :> Entry("EMAIL", "acme")]}
-----------------------------------------------------------------------------
(* JSON, with the user's data and the protocol's own. *)

Leaf(is, x, role) == [is |-> is, text |-> x, role |-> role]
U(x) == Leaf("str", x, "user")
N(x) == Leaf("num", x, "user")
S(x) == Leaf("str", x, "fixed")
File(x, media, utf8, role) == [is |-> "file", text |-> x, role |-> role, media |-> media, utf8 |-> utf8]
Kid(k, role, v) == [key |-> k, role |-> role, val |-> v]
K(k, v) == Kid(k, "fixed", v)
UK(k, v) == Kid(k, "user", v)
Node(is, kids) == [is |-> is, kids |-> kids]
Obj(kids) == Node("obj", kids)
Json(kids) == Node("json", kids)
Arr(vals) == Node("arr", [i \in DOMAIN vals |-> K("", vals[i])])
Typ(t) == K("type", S(t))
Text(t, x) == Obj(<<Typ(t), K("text", U(x))>>)
\* Two entries whose keys are the user's; one, when they are the same.
Pair(a, v, b, w) == IF a = b THEN <<UK(a, v)>> ELSE <<UK(a, v), UK(b, w)>>

Schema(a, b) ==
  Obj(<<Typ("object"), K("description", U(a)),
        K("properties", Obj(<<
          K("output", Obj(<<Typ("string"), K("name", S("mail")), K("enum", Arr(<<U(b)>>))>>)),
          K("limit", Obj(<<K("default", Leaf("num", "card", "fixed")), K("const", Obj(<<K("name", U(a))>>))>>))>>)),
        K("required", Arr(<<S("mail")>>))>>)

Message(role, content) == Obj(<<K("role", S(role)), K("content", content)>>)
Blocks(vals) == Obj(<<K("messages", Arr(<<Message("user", Arr(vals))>>))>>)

Anthropic(a, b) == {
  Obj(<<K("system", U(a)), K("messages", Arr(<<Message("user", U(b))>>))>>),
  Obj(<<K("system", Arr(<<Text("text", a), U(b)>>)), K("messages", Arr(<<>>)),
        K("metadata", Obj(<<K("user_id", U(a)), UK(b, U("t"))>>))>>),
  Blocks(<<U(a), Text("text", b),
           Obj(<<Typ("thinking"), K("thinking", S("sk")), K("signature", S("t"))>>)>>),
  Blocks(<<Obj(<<Typ("thinking"), K("thinking", S(a)), K("signature", S("t"))>>)>>),
  Blocks(<<Obj(<<Typ("tool_use"), K("id", S("mail")), K("name", S("mail")),
                 K("input", Obj(Pair(a, U(b), b, Obj(<<K("name", N(a)), K("file_id", S("mail"))>>))
                                  \o <<K("password", U("pass"))>>))>>),
           Obj(<<Typ("tool_result"), K("tool_use_id", S("mail")),
                 K("content", Arr(<<Text("text", "pass"), Obj(<<Typ("json"), K("id", U(a))>>), Arr(<<U(b)>>)>>))>>)>>),
  Blocks(<<Obj(<<Typ("document"), K("source", Obj(<<Typ("text"), K("data", U(a))>>))>>),
           Obj(<<Typ("custom"), K("url", U(b)), K("image_url", S("mail"))>>)>>),
  Obj(<<K("messages", Arr(<<Message("user", U("hello"))>>)),
        K("tools", Arr(<<Obj(<<K("name", S("mail")), K("input_schema", Schema(a, b))>>)>>))>>)}

Call(args) == Obj(<<K("name", S("mail")), K("arguments", args)>>)
Calls(args) ==
  Obj(<<K("messages", Arr(<<Obj(<<K("role", S("assistant")),
    K("tool_calls", Arr(<<Obj(<<K("id", S("mail")), K("function", Call(args))>>)>>))>>)>>))>>)

Chat(a, b) == {
  Obj(<<K("messages", Arr(<<Obj(<<K("role", S("user")), K("content", U(a)), K("name", U(b))>>),
                            Obj(<<K("role", S("tool")), K("content", Arr(<<U(b)>>)), K("name", S("mail"))>>)>>)),
        K("user", U(a)), K("prediction", Obj(<<K("content", U(b))>>))>>),
  Calls(Json(Pair(a, N(b), b, Json(<<>>)) \o <<K("password", U("pass"))>>)),
  Calls(Json(<<UK(a, U(b)), UK(a, U(a)), UK(b, Obj(<<K("name", U(a))>>))>>)),
  Calls(Obj(Pair(a, U(a), b, Arr(<<N(b)>>)))),
  Calls(U(a)),
  Obj(<<K("messages", Arr(<<Obj(<<K("role", S("assistant")), K("refusal", U(a)),
          K("function_call", Call(Json(Pair(a, U("t"), b, U("t")))))>>)>>)),
        K("metadata", Obj(Pair(a, U("t"), b, U("t")))),
        K("response_format", Obj(<<Typ("json_schema"), K("schema", Schema(a, b))>>))>>)}

Items(vals) == Obj(<<K("input", Arr(vals))>>)

Responses(a, b) == {
  Obj(<<K("instructions", U(a)), K("input", U(b)), K("metadata", Obj(<<K("customer_id", U(a)), K("file_data", U(b))>>))>>),
  Obj(<<K("prompt", Obj(<<K("id", S("mail")), K("variables", Obj(
        <<UK(a, U("t")), K("part", Text("input_text", b)), K("deep", Obj(<<UK(b, Arr(<<U(a)>>))>>))>>))>>))>>),
  Items(<<Obj(<<Typ("function_call"), K("call_id", S("mail")), K("arguments",
            Json(Pair(a, U(b), b, U(a)) \o <<K("password", U("pass"))>>))>>),
          Obj(<<Typ("function_call_output"), K("call_id", S("mail")), K("output",
            Obj(<<K("name", U(a)), K("call_id", S("mail")), K("file_id", Arr(<<S("mail")>>)), UK("<EMAIL_mail>", U("t")), UK("mail", U("t"))>>))>>)>>),
  Items(<<Obj(<<Typ("shell_call"), K("action", Obj(<<K("commands", Arr(<<U(a)>>)), K("url", U(b))>>))>>),
          Obj(<<Typ("reasoning"), K("encrypted_content", S("mail")), K("summary", Arr(<<Text("summary", a)>>))>>),
          Obj(<<Typ("mcp_call"), K("name", S("mail")), K("arguments", Json(<<UK(a, U(b))>>)), K("outputs", Arr(<<U("pass"), U(b)>>))>>)>>),
  Items(<<Obj(<<Typ("message"), K("content", Arr(<<Text("input_text", a),
            Obj(<<Typ("input_file"), K("name", U(b)), K("file_data", File(a, "none", TRUE, "user"))>>),
            Obj(<<Typ("input_file"), K("file_data", File(a, "binary", TRUE, "fixed")), K("file_id", S("mail"))>>),
            Obj(<<Typ("input_image"), K("image_url", S("mail"))>>)>>))>>)>>),
  Obj(<<K("input", U("hello")),
        K("tools", Arr(<<Obj(<<Typ("function"), K("name", S("mail")), K("parameters", Schema(a, b))>>),
                         Obj(<<Typ("mcp"), K("server_url", S("mail")), K("server_description", U(b))>>)>>)),
        K("text", Obj(<<K("format", Obj(<<Typ("json_schema"), K("schema", Schema(b, a))>>))>>))>>)}

Words == {"mail", "Mail", "card", "acme", "hello"}
Requests(bodies(_, _), which) == {[api |-> which, body |-> x] : x \in UNION {bodies(a, b) : a, b \in Words}}
MCBodies == Requests(Anthropic, "anthropic") \cup Requests(Chat, "chat") \cup Requests(Responses, "responses")
              \cup {[api |-> "anthropic", body |-> Blocks(<<Obj(<<Typ("image"), K("data", S("sk"))>>)>>)]}
-----------------------------------------------------------------------------
(* Answers: each echoed text is shown, run or sealed. *)

Role(for, e) == [for |-> for, was |-> e[1], echo |-> e[2]]
Fixed == Role("fixed", <<"", "">>)
R(x) == Leaf("str", x, Fixed)
E(for, e) == Leaf("str", e[2], Role(for, e))
A(k, v) == Kid(k, Fixed, v)
EK(for, e, v) == Kid(e[2], Role(for, e), v)
List(vals) == Node("arr", [i \in DOMAIN vals |-> A("", vals[i])])
Two(for, e, f) ==
  IF e[2] = f[2] THEN <<EK(for, e, E(for, f))>> ELSE <<EK(for, e, E(for, f)), EK(for, f, E(for, e))>>

MCReplyShapes(which, e, f) ==
  CASE which = "anthropic" ->
         {Obj(<<A("content", List(<<
            Obj(<<A("type", R("text")), A("text", E("shown", e))>>),
            Obj(<<A("type", R("thinking")), A("thinking", E("sealed", f)), A("signature", R("t"))>>),
            Obj(<<A("type", R("tool_use")), A("name", R("t")), A("input", Obj(Two("run", e, f)))>>),
            Obj(<<A("type", R("mcp_tool_use")), A("input", Obj(<<A("to", List(<<E("run", e)>>))>>))>>),
            Obj(<<A("type", R("mcp_tool_result")), A("content", E("shown", f))>>)>>))>>)}
    [] which = "chat" ->
         {Obj(<<A("choices", List(<<Obj(<<A("message", Obj(<<A("content", E("shown", f)),
            A("tool_calls", List(<<Obj(<<A("function", Obj(<<A("name", R("t")), A("arguments", args)>>))>>)>>))>>))>>)>>))>>) :
          args \in {Json(Two("run", e, f)), Json(<<EK("run", e, E("run", e)), EK("run", e, E("run", f))>>),
                    Obj(Two("run", e, f)), E("run", e)}}
    [] OTHER ->
         {Obj(<<A("output", List(<<
            Obj(<<A("type", R("function_call")), A("arguments", Json(Two("run", e, f)))>>),
            Obj(<<A("type", R("shell_call")), A("action", Obj(<<A("commands", List(<<E("run", e)>>))>>)), A("output", E("shown", f))>>),
            Obj(<<A("type", R("reasoning")), A("encrypted_content", E("sealed", e)), A("summary", List(<<E("shown", f)>>))>>),
            Obj(<<A("type", R("function_call_output")), A("output", Obj(Two("shown", e, f)))>>)>>))>>)}
=============================================================================
