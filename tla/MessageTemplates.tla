-------------------------- MODULE MessageTemplates --------------------------
(***************************************************************************)
(* The texts of a message and their variables (core.py extract_tokens,     *)
(* validate_message_template, render_template, _build_message_data).       *)
(*                                                                         *)
(* A template is known by its variables and its own text:                  *)
(*   vars    the names written {{name}}                                    *)
(*   single  the names written {name}: of these only the built-in ones are *)
(*           filled in, any other stays in the text as it is               *)
(*   proper  the braces match and no name is empty or holds a space        *)
(*   lead    the names written before any text of its own, in order        *)
(*   text    the kind of its own text, of its beginning if it is a URL     *)
(* and a rendered text by its kind: what a message is refused for.         *)
(***************************************************************************)
EXTENDS SheetColumns

\* A field left empty.
NoTemplate == [vars |-> {}, single |-> {}, proper |-> TRUE, lead |-> <<>>,
               text |-> "empty"]

ExtractTokens(t) == t.vars \cup t.single

Validates(t, available) ==
    t.proper /\ ExtractTokens(t) \subseteq available \cup BUILTIN_TOKENS

KindOf(text) == About[text].kind

\* ExcelRecipient.context over the global variables: the kind of each value.
BuiltinKind(r, token) ==
    CASE token = <<"first_name">> -> KindOf(r.first_name)
      [] token = <<"last_name">> -> KindOf(r.last_name)
      [] token = <<"full_name">> ->
            IF r.first_name = Blank THEN KindOf(r.last_name)
            ELSE IF r.last_name = Blank THEN KindOf(r.first_name) ELSE "other"
      [] token = <<"phone">> ->
            IF NormalizedPhone(r) # NoPhone THEN "digits" ELSE KindOf(r.raw_phone)
      [] token = <<"row_number">> -> "digits"

Context(globals, r) ==
    [t \in DOMAIN globals \cup DOMAIN r.values \cup BUILTIN_TOKENS |->
        IF t \in BUILTIN_TOKENS THEN BuiltinKind(r, t)
        ELSE IF t \in DOMAIN r.values THEN KindOf(r.values[t])
        ELSE KindOf(globals[t])]

\* render_template checks the template again, against the context it is given.
Renders(t, context) == Validates(t, DOMAIN context)

\* The scheme is looked for at the beginning of the rendered text: whatever
\* follows a URL is a part of it.
RenderedKind(t, context) ==
    LET Value(v) == IF v \in t.vars \cup BUILTIN_TOKENS THEN context[v] ELSE "other"
        parts == {t.text} \cup {Value(v) : v \in ExtractTokens(t)}
        shown == SelectSeq([k \in DOMAIN t.lead |-> Value(t.lead[k])] \o <<t.text>>,
                           LAMBDA kind : kind # "empty")
    IN  IF parts = {"empty"} THEN "empty"
        ELSE IF parts \subseteq {"empty", "digits"} THEN "digits"
        ELSE IF shown # <<>> /\ Head(shown) = "url" THEN "url"
        ELSE "other"

-----------------------------------------------------------------------------
(* One message, of the content c the batch was created with.               *)

ButtonTemplates(c) == UNION {{c.buttons[k].text, c.buttons[k].value} : k \in DOMAIN c.buttons}

\* The templates that are rendered for a message of its type.
TemplatesOf(c) ==
    CASE c.type = "template" -> c.fields
      [] c.type = "otp" -> {c.otp}
      [] c.type = "text" -> {c.message, c.copy} \cup ButtonTemplates(c)

\* Why no message can be built for a row; {} if it can.
Problems(c, attached, context) ==
    LET rendered == {t \in TemplatesOf(c) : Renders(t, context)}
        Kind(t) == RenderedKind(t, context)
    IN  {"variable" : t \in TemplatesOf(c) \ rendered}
        \cup {"otp" : t \in {x \in rendered : c.type = "otp" /\ Kind(x) # "digits"}}
        \cup {"url" : k \in {j \in DOMAIN c.buttons :
                /\ c.type = "text" /\ c.buttons[j].kind \in {"url", "web_app"}
                /\ c.buttons[j].value \in rendered
                /\ Kind(c.buttons[j].value) # "url"}}
        \cup {"empty" : t \in {x \in {c.message} \cap rendered :
                /\ c.type = "text" /\ Kind(x) = "empty"
                /\ ~attached /\ c.copy = NoTemplate /\ c.buttons = <<>>}}
=============================================================================
