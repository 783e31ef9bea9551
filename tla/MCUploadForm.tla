---------------------------- MODULE MCUploadForm ----------------------------
(* Four small files and the forms that go with them, for UploadForm. *)
EXTENDS UploadForm, TLC

\* Strings stand for texts; "n1" and "n2" are two mobile numbers, "u" is a URL.
Text(base, letters, digits, mobile, kind) ==
    [base |-> base, letters |-> letters, digits |-> digits, mobile |-> mobile,
     kind |-> kind]

About_ ==
       ""       :> Text(<<>>, <<>>, 0, NoPhone, "empty")
    @@ "mobile" :> Text(<<"mobile">>, <<13, 15, 2, 9, 12, 5>>, 0, NoPhone, "other")
    @@ "d"      :> Text(<<"d">>, <<4>>, 0, NoPhone, "other")
    @@ "d_2"    :> Text(<<"d", 2>>, <<>>, 0, NoPhone, "other")
    @@ "B"      :> Text(<<"B">>, <<2>>, 0, NoPhone, "other")
    @@ "A"      :> Text(<<"A">>, <<1>>, 0, NoPhone, "other")
    @@ "AB"     :> Text(<<"AB">>, <<1, 2>>, 0, NoPhone, "other")
    @@ "3"      :> Text(<<>>, <<>>, 3, NoPhone, "digits")
    @@ "n1"     :> Text(<<>>, <<>>, 0, "n1", "digits")
    @@ "n2"     :> Text(<<>>, <<>>, 0, "n2", "digits")
    @@ "u"      :> Text(<<"u">>, <<21>>, 0, NoPhone, "url")
Texts_ == DOMAIN About_

\* A row with one more cell in column AB.
Wide(row, text) == row \o [k \in 1..27 - Len(row) |-> ""] \o <<text>>

\* Equal headers and one that looks like a name made from them; numbers and no
\* header; a title above the headers, and one header that is another's letter;
\* no phone header.
SheetOf_ ==
       "twice"  :> << <<"mobile", "d", "d_2", "d">>, <<"n1", "B", "3", "u">>,
                      <<"n2", "d">> >>
    @@ "bare"   :> << <<"n1">>, <<"">>, <<"n2">> >>
    @@ "titled" :> << <<"A">>, Wide(<<"mobile", "d_2", "B">>, "d"),
                      Wide(<<"n1", "3", "u">>, "d_2") >>
    @@ "lost"   :> << <<"d", "B">>, <<"n1", "3">> >>
ExcelFiles_ == DOMAIN SheetOf_

\* {{name}}; the same with text behind it; and a text with two variables in it.
Variable(name) == [vars |-> {name}, single |-> {}, proper |-> TRUE, lead |-> <<name>>,
                   text |-> "empty"]
Followed(name) == [Variable(name) EXCEPT !.text = "other"]
Hello == [vars |-> {<<"full_name">>, <<"g">>}, single |-> {}, proper |-> TRUE, lead |-> <<>>,
          text |-> "other"]

Content(type, message, otp) ==
    [type |-> type, message |-> message, otp |-> otp, copy |-> NoTemplate,
     fields |-> {}, buttons |-> <<>>, template_id |-> FALSE, secure |-> FALSE]
Options(row, phone, mapping) ==
    [DefaultOptions EXCEPT !.header_row = row, !.phone = phone, !.mapping = mapping]
Form(content, options) ==
    [content |-> content, options |-> options, send_mode |-> "send", confirmed |-> TRUE]

Link == [text |-> Hello, value |-> Followed(<<"v">>), kind |-> "url"]

Forms_ ==
    LET plain == Options(1, "", <<>>)
        v(selector) == <<"v">> :> selector
        file == Content("text", NoTemplate, NoTemplate)
    IN  {Form(Content("text", Hello, NoTemplate), plain),
         [Form(file, plain) EXCEPT !.confirmed = FALSE],
         Form([file EXCEPT !.buttons = <<Link>>], Options(1, "", v("d"))),
         Form(Content("text", Variable(<<"v">>), NoTemplate), Options(2, "", v("B"))),
         Form(Content("text", Variable(<<"v">>), NoTemplate), Options(2, "", v("AB"))),
         Form(Content("otp", NoTemplate, Variable(<<"v">>)), Options(1, "", v("d_2"))),
         Form(Content("otp", NoTemplate, Variable(<<"d">>)),
              Options(1, "", <<"d">> :> "3")),
         Form([file EXCEPT !.type = "template", !.template_id = TRUE,
                           !.fields = {Variable(<<"v">>)}],
              Options(1, "A", v("B")))}

GlobalSets_ == {<<>>, <<"g">> :> "u"}
=============================================================================
