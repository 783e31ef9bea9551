---------------------------- MODULE SheetColumns ----------------------------
(***************************************************************************)
(* From an Excel sheet to recipients (core.py inspect_excel,               *)
(* _resolve_column, read_excel_recipients): which row holds the headers,   *)
(* which column a selector names, which variable a column becomes, and     *)
(* what a row gives each variable.  Pure operators.                        *)
(*                                                                         *)
(* A sheet is a sequence of rows, a row a sequence of texts, and About     *)
(* says of a text what the code can tell of it.  A token (the name of a    *)
(* variable) is a sequence: a word, then the numbers appended to it, so    *)
(* that "d_2" is <<"d", 2>> whether it was typed or made from "d".         *)
(***************************************************************************)
EXTENDS Integers, Sequences, FiniteSets

CONSTANTS Texts,             \* cleaned texts of cells and selectors
          Blank,             \* the empty one
          About,             \* [Texts -> [base, letters, digits, mobile, kind]]
          NoPhone,           \* mobile: the text is no Iranian mobile number
          PhoneHeaders, FirstNameHeaders, LastNameHeaders,
          Refused            \* the call raises ValueError

\* base: the text as a token, <<>> if nothing is left or a digit comes first;
\* letters: their places in the alphabet, <<>> if it is not letters only;
\* digits: the column it names as a number, else 0;
\* kind: "empty", "digits", "url" or "other".

ASSUME BlankAssumption == Blank \in Texts /\ About[Blank].kind = "empty"
ASSUME HeadersAssumption ==
    (PhoneHeaders \cup FirstNameHeaders \cup LastNameHeaders) \subseteq (Texts \ {Blank})

ASSUME TokensAssumption ==
    \A t \in Texts : LET base == About[t].base
                    IN  Len(base) \in Nat /\ base = [k \in 1..Len(base) |-> base[k]]

ASSUME LettersAssumption == \A t \in Texts : About[t].letters \in Seq(1..26)

BUILTIN_TOKENS == {<<"first_name">>, <<"last_name">>, <<"full_name">>,
                   <<"phone">>, <<"row_number">>}

-----------------------------------------------------------------------------
(* The header row and its tokens.                                          *)

Filled(row) == {k \in DOMAIN row : row[k] # Blank}

\* A missing or empty header row is refused.
HeaderRow(sheet, n) ==
    IF n \in DOMAIN sheet /\ Filled(sheet[n]) # {} THEN sheet[n] ELSE Refused

SafeToken(text, column) ==
    IF About[text].base = <<>> THEN <<"column_letter", column>> ELSE About[text].base

\* Mutant: the token made is not checked again.
UnusedOnce(base, used) == IF base \notin used THEN base ELSE Append(base, 2)

\* The first of base, base_2, base_3, ... that is not used.
Unused(base, used) ==
    LET free == {n \in 2..Cardinality(used) + 2 : Append(base, n) \notin used}
    IN  IF base \notin used THEN base
        ELSE Append(base, CHOOSE n \in free : \A m \in free : n <= m)

\* The tokens of the columns, left to right; <<>> for a column without header.
ColumnTokens(headers, taken) ==
    LET tokens[k \in 0..Len(headers)] ==
          IF k = 0 THEN <<>>
          ELSE LET used == taken \cup {tokens[k-1][j] : j \in 1..k-1}
               IN  Append(tokens[k-1],
                          IF headers[k] = Blank THEN <<>>
                          ELSE Unused(SafeToken(headers[k], k), used))
    IN  tokens[Len(headers)]

\* inspect_excel: the guide shown beside a preview.
Inspect(sheet, n) ==
    LET headers == HeaderRow(sheet, n)
    IN  IF headers = Refused THEN Refused ELSE ColumnTokens(headers, BUILTIN_TOKENS)

-----------------------------------------------------------------------------
(* Which column is meant: 0 is none.                                       *)

Columns(headers, text) == {k \in DOMAIN headers : headers[k] = text}

\* Mutant: the digits run from 0 to 25, so that AA is A again.
LetterColumnFromZero(letters) ==
    LET number[k \in 0..Len(letters)] ==
          IF k = 0 THEN 0 ELSE number[k-1] * 26 + letters[k] - 1
    IN  IF letters = <<>> THEN 0 ELSE number[Len(letters)] + 1

\* A number to the base 26 with the digits 1 to 26; 0 for no letters.
LetterColumn(letters) ==
    LET number[k \in 0..Len(letters)] ==
          IF k = 0 THEN 0 ELSE number[k-1] * 26 + letters[k]
    IN  number[Len(letters)]

\* A selector: letters of the sheet, then a number, then the text of exactly
\* one header.
Selected(headers, selector) ==
    IF LetterColumn(About[selector].letters) \in DOMAIN headers
    THEN LetterColumn(About[selector].letters)
    ELSE IF About[selector].digits \in DOMAIN headers THEN About[selector].digits
    ELSE IF Cardinality(Columns(headers, selector)) = 1
         THEN CHOOSE k \in Columns(headers, selector) : TRUE
    ELSE Refused

\* Without a selector the first header with one of the usual names.
Resolve(headers, selector, candidates) ==
    LET named == {k \in DOMAIN headers : headers[k] \in candidates}
    IN  IF selector # Blank THEN Selected(headers, selector)
        ELSE IF named # {} THEN CHOOSE k \in named : \A j \in named : k <= j
        ELSE 0

\* A file without headers: its first row is one mobile number and nothing else.
Headerless(headers, o) ==
    /\ o.header_row = 1
    /\ Resolve(headers, o.phone, PhoneHeaders) = 0
    /\ Cardinality(Filled(headers)) = 1
    /\ \A k \in Filled(headers) : About[headers[k]].mobile # NoPhone

\* o: the column options of the form.  The phone column is required.
Layout(headers, o) ==
    LET bare == Headerless(headers, o)
        phone == Resolve(headers, o.phone, PhoneHeaders)
    IN  [first_row |-> IF bare THEN 1 ELSE o.header_row + 1,
         phone |-> IF bare THEN CHOOSE k \in Filled(headers) : TRUE
                   ELSE IF phone = 0 THEN Refused ELSE phone,
         first |-> IF bare THEN 0 ELSE Resolve(headers, o.first, FirstNameHeaders),
         last |-> IF bare THEN 0 ELSE Resolve(headers, o.last, LastNameHeaders),
         mapped |-> [t \in DOMAIN o.mapping |-> Selected(headers, o.mapping[t])],
         tokens |-> ColumnTokens(headers, BUILTIN_TOKENS \cup DOMAIN o.mapping)]

IsReadable(sheet, o) ==
    LET headers == HeaderRow(sheet, o.header_row)
        layout == Layout(headers, o)
    IN  /\ headers # Refused
        /\ Refused \notin {layout.phone, layout.first, layout.last}
        /\ \A t \in DOMAIN layout.mapped : layout.mapped[t] # Refused

-----------------------------------------------------------------------------
(* The recipients of a readable sheet.                                     *)

\* Rows may be shorter than the header row.
CellText(row, k) == IF k \in DOMAIN row THEN row[k] ELSE Blank

ColumnOf(layout, token) == CHOOSE k \in DOMAIN layout.tokens : layout.tokens[k] = token

\* values: the columns' variables, updated with the mapped ones.
CellOf(layout, row, token) ==
    IF token \in DOMAIN layout.mapped THEN CellText(row, layout.mapped[token])
    ELSE CellText(row, ColumnOf(layout, token))

VariableNames(layout) ==
    ({layout.tokens[k] : k \in DOMAIN layout.tokens} \ {<<>>}) \cup DOMAIN layout.mapped

Recipient(layout, sheet, n) ==
    [row_number |-> n,
     raw_phone |-> CellText(sheet[n], layout.phone),
     first_name |-> CellText(sheet[n], layout.first),
     last_name |-> CellText(sheet[n], layout.last),
     values |-> [t \in VariableNames(layout) |-> CellOf(layout, sheet[n], t)]]

\* Blank rows are skipped; the others keep their number in the file.
DataRows(layout, sheet) ==
    SelectSeq([k \in DOMAIN sheet |-> k],
              LAMBDA n : n >= layout.first_row /\ Filled(sheet[n]) # {})

ReadRecipients(sheet, o) ==
    LET layout == Layout(HeaderRow(sheet, o.header_row), o)
        rows == DataRows(layout, sheet)
    IN  [k \in DOMAIN rows |-> Recipient(layout, sheet, rows[k])]

\* normalize_iran_mobile, for the numbers the sheet at hand holds.
NormalizedPhone(r) == About[r.raw_phone].mobile
=============================================================================
