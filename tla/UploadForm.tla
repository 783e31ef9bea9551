----------------------------- MODULE UploadForm -----------------------------
(***************************************************************************)
(* The upload form as a whole (forms.py UploadExcelForm, views.py          *)
(* dashboard): which submissions are accepted, which stored file a page    *)
(* stands for, what a batch keeps of the form and of the settings, and     *)
(* that what was previewed is what the batch builds its messages from.     *)
(* The management command makes a batch without any of it.                 *)
(*                                                                         *)
(* The module follows one window, which shows the form or a batch.  What a *)
(* batch keeps and what is in a stored file does not change (processing:   *)
(* BatchProcessing; ranges and several batches of one file: Dashboard).    *)
(* A file to upload is chosen anew for every submission; a signed token in *)
(* a hidden field stands for the one stored by an earlier one.             *)
(***************************************************************************)
EXTENDS MessageTemplates

CONSTANTS ExcelFiles,   \* files the operator may choose
          SheetOf,      \* [ExcelFiles -> sheets]
          Attachments,
          NoFile,
          Forms,        \* what the operator may fill in
          GlobalSets,   \* global variables the settings may hold
          PreviewRows,  \* how many rows the preview builds messages for
          Unsure,       \* a file was chosen, but its submission was refused
          None          \* no form, no batch

ASSUME FilesAssumption == NoFile \notin ExcelFiles \cup Attachments
ASSUME SheetsAssumption == SheetOf \in [ExcelFiles -> Seq(Seq(Texts))]
ASSUME PreviewRowsAssumption == PreviewRows \in Nat
ASSUME FormsAssumption ==
    /\ None \notin Forms
    /\ \A f \in Forms : /\ f.content.type \in {"text", "template", "otp"}
                        /\ IsFiniteSet(DOMAIN f.options.mapping)
\* SafirConfigurationForm.clean_global_variables_text.
ASSUME GlobalSetsAssumption ==
    \A g \in GlobalSets : DOMAIN g \cap BUILTIN_TOKENS = {}

Categories == {"excel", "attachment"}
FilesOf == [excel |-> ExcelFiles, attachment |-> Attachments]
NoFiles == [c \in Categories |-> NoFile]
Uploads == {u \in [Categories -> ExcelFiles \cup Attachments \cup {NoFile}] :
                \A c \in Categories : u[c] \in FilesOf[c] \cup {NoFile}}

VARIABLES
    globals,    \* the global variables in the settings
    page,       \* tokens: the file each hidden token stands for;
                \* stale: the tokens that no longer lead to a file;
                \* previewed: the form of the preview on show, None once
                \* other settings were saved
    batch,      \* the MessageBatch on show, None: the form is
    chosen,     \* history: the file the operator means, by category
    made        \* history of batch: the files meant, and whether just this form
                \* was previewed

vars == <<globals, page, batch, chosen, made>>

DefaultOptions == [header_row |-> 1, phone |-> Blank, first |-> Blank,
                   last |-> Blank, mapping |-> <<>>]

Page(tokens, stale, previewed) ==
    [tokens |-> tokens, stale |-> stale, previewed |-> previewed]
EmptyPage == Page(NoFiles, {}, None)

Init ==
    /\ globals \in GlobalSets
    /\ page = EmptyPage
    /\ batch = None
    /\ chosen = NoFiles
    /\ made = None

-----------------------------------------------------------------------------
(* UploadExcelForm.clean and the clean_ methods of its fields.             *)

TemplatesIn(c) == {c.message, c.otp, c.copy} \cup c.fields \cup ButtonTemplates(c)

MappingIsValid(mapping) ==
    /\ DOMAIN mapping \cap BUILTIN_TOKENS = {}
    /\ \A t \in DOMAIN mapping : mapping[t] # Blank

TypeIsComplete(c, hasAttachment) ==
    /\ c.type = "text" => c.message # NoTemplate \/ hasAttachment
    /\ c.type = "template" => c.template_id /\ c.fields # {} /\ ~hasAttachment
    /\ c.type = "otp" => c.otp # NoTemplate /\ ~c.secure

\* All templates are checked, those of other message types as well; columns of
\* the file are known by the mapping only.
TemplatesAreValid(f) ==
    \A t \in TemplatesIn(f.content) :
        Validates(t, DOMAIN globals \cup DOMAIN f.options.mapping)

\* Mutant: the token wins.
TokenFirst(up, c) == IF page.tokens[c] # NoFile THEN page.tokens[c] ELSE up[c]

\* Mutant: the attachment is taken from the field of the Excel file.
ExcelFieldOnly(up, c) ==
    IF up["excel"] # NoFile THEN up["excel"] ELSE page.tokens[c]

\* The file a submission leads to: the one uploaded, else the token's.
UsedFile(up, c) == IF up[c] # NoFile THEN up[c] ELSE page.tokens[c]

FormIsValid(f, up, action) ==
    /\ UsedFile(up, "excel") # NoFile
    /\ action = "send" /\ f.send_mode = "send" => f.confirmed
    /\ MappingIsValid(f.options.mapping)
    /\ TypeIsComplete(f.content, UsedFile(up, "attachment") # NoFile)
    /\ TemplatesAreValid(f)

\* _resolve_upload_token: a signature of the last six hours, an existing file.
FilesAreFound(up) ==
    \A c \in page.stale : up[c] # NoFile

Accepted(f, up, action) ==
    batch = None /\ FormIsValid(f, up, action) /\ FilesAreFound(up)

\* What the operator means after choosing the files of up.
ChosenWith(up) == [c \in Categories |-> IF up[c] # NoFile THEN up[c] ELSE chosen[c]]

-----------------------------------------------------------------------------
(* What is built from a file.                                              *)

Rows(file, options) == ReadRecipients(SheetOf[file], options)

ProblemsOf(content, files, variables, r) ==
    Problems(content, files["attachment"] # NoFile, Context(variables, r))

\* build_excel_preview: one row on show without a message refuses it all.
Previewable(f, files) ==
    /\ IsReadable(SheetOf[files["excel"]], f.options)
    /\ LET rows == Rows(files["excel"], f.options)
       IN  \A k \in DOMAIN rows : k <= PreviewRows =>
              ProblemsOf(f.content, files, globals, rows[k]) = {}

\* Mutant: the phone column is not saved.
NewBatchWithoutPhoneColumn(f, files) ==
    [source |-> "form", content |-> f.content,
     options |-> [f.options EXCEPT !.phone = Blank], files |-> files,
     globals |-> globals]

\* MessageBatch.objects.create in the view.
NewBatch(f, files) ==
    [source |-> "form", content |-> f.content, options |-> f.options,
     files |-> files, globals |-> globals]

\* Mutant: the variables are looked up when the messages are built.
CurrentGlobals(b) == globals

\* _build_message_data takes those saved with the batch.
GlobalsOf(b) == b.globals

-----------------------------------------------------------------------------
(* The operator's steps.                                                   *)

\* GET: nothing is kept of an earlier page.
OpenPage ==
    /\ page' = EmptyPage
    /\ chosen' = NoFiles
    /\ batch' = None
    /\ made' = None
    /\ UNCHANGED globals

\* GET ?reuse_batch: new tokens for those of the batch's files that exist; if
\* the Excel file does not, an empty page.  (A file outside uploads/, which only
\* the command reads, is not found again: Expire.)
Reuse(existing) ==
    /\ batch # None
    /\ LET kept == [c \in Categories |->
                      IF {c, "excel"} \subseteq existing THEN batch.files[c] ELSE NoFile]
       IN  /\ page' = Page(kept, {}, None)
           /\ chosen' = [c \in Categories |->
                           IF "excel" \in existing /\ kept[c] # batch.files[c]
                           THEN Unsure ELSE kept[c]]
    /\ batch' = None
    /\ made' = None
    /\ UNCHANGED globals

\* POST that is not accepted, or refused for a field left out here: the page
\* comes back with the tokens it had, the browser forgets the files chosen.
Refuse(up) ==
    /\ batch = None
    /\ page' = Page(page.tokens, page.stale, None)
    /\ chosen' = [c \in Categories |-> IF up[c] # NoFile THEN Unsure ELSE chosen[c]]
    /\ UNCHANGED <<globals, batch, made>>

\* POST action = preview: the files are stored and get new tokens.
Preview(f, up) ==
    LET files == [c \in Categories |-> UsedFile(up, c)] IN
    /\ Accepted(f, up, "preview")
    /\ Previewable(f, files)
    /\ page' = Page(files, {}, f)
    /\ chosen' = ChosenWith(up)
    /\ UNCHANGED <<globals, batch, made>>

\* POST action = send.  (What a real send needs of the settings:
\* SafirSettings!Accept.)  The window is led to the batch's page.
Send(f, up) ==
    /\ Accepted(f, up, "send")
    /\ batch' = NewBatch(f, [c \in Categories |-> UsedFile(up, c)])
    /\ made' = [files |-> ChosenWith(up),
                previewed |-> up = NoFiles /\ page.previewed = f]
    /\ page' = EmptyPage
    /\ chosen' = NoFiles
    /\ UNCHANGED globals

\* The text alone, everything else as the model has it by default.  (The button
\* pair of the command line is left out.)
CommandContent(c) ==
    [c EXCEPT !.type = "text", !.copy = NoTemplate, !.otp = NoTemplate, !.fields = {},
              !.buttons = <<>>, !.template_id = FALSE, !.secure = FALSE]

\* manage.py send_bale_excel: the file and the text, as run_excel_batch makes a
\* batch of them.  The window is at the new batch's page then.
RunCommand(f, file) ==
    LET files == [NoFiles EXCEPT !["excel"] = file] IN
    /\ batch' = [source |-> "command", content |-> CommandContent(f.content),
                 options |-> DefaultOptions, files |-> files, globals |-> <<>>]
    /\ made' = [files |-> files, previewed |-> FALSE]
    /\ page' = EmptyPage
    /\ chosen' = NoFiles
    /\ UNCHANGED globals

\* Six hours pass, or a stored file is removed.
Expire(c) ==
    /\ page.tokens[c] # NoFile
    /\ page' = Page(page.tokens, page.stale \cup {c}, page.previewed)
    /\ UNCHANGED <<globals, batch, chosen, made>>

\* See SafirSettings.
ChangeSettings ==
    /\ globals' \in GlobalSets
    /\ page' = Page(page.tokens, page.stale, None)
    /\ UNCHANGED <<batch, chosen, made>>

Next ==
    \/ OpenPage
    \/ \E existing \in SUBSET Categories : Reuse(existing)
    \/ \E up \in Uploads : Refuse(up) \/ \E f \in Forms : Preview(f, up) \/ Send(f, up)
    \/ \E f \in Forms, file \in ExcelFiles : RunCommand(f, file)
    \/ \E c \in Categories : Expire(c)
    \/ ChangeSettings

Spec == Init /\ [][Next]_vars

-----------------------------------------------------------------------------
(* Properties.                                                             *)

\* The page, the batch and the history hold values of their types; what stands
\* for the file of a category is a file of that category.
TypeOK ==
    LET Files(extra) == [excel : ExcelFiles \cup extra, attachment : Attachments \cup extra]
    IN  /\ globals \in GlobalSets
        /\ page.tokens \in Files({NoFile}) /\ page.stale \subseteq Categories
        /\ page.previewed = None \/ page.previewed \in Forms
        /\ chosen \in Files({NoFile, Unsure})
        /\ batch # None =>
              /\ batch.source \in {"form", "command"}
              /\ batch.files \in Files({NoFile}) /\ batch.files["excel"] # NoFile
              /\ batch.globals \in GlobalSets \cup {<<>>}
              /\ made \in [files : Files({NoFile, Unsure}), previewed : BOOLEAN]

\* The rows of the batch's file, as its thread reads them.
IsRead(b) == IsReadable(SheetOf[b.files["excel"]], b.options)
RowsOf(b) == Rows(b.files["excel"], b.options)

\* forms.py 339-343: a form is accepted only if its templates name variables
\* there are.  No row of a batch made from it fails for an unknown variable,
\* whatever the file holds and the settings have become.
AcceptedTemplateRenders ==
    (batch # None /\ batch.source = "form" /\ IsRead(batch)) =>
        \A k \in DOMAIN RowsOf(batch) :
            "variable" \notin ProblemsOf(batch.content, batch.files, GlobalsOf(batch),
                                        RowsOf(batch)[k])

\* A selector means column k: by the letters of the column, whatever the
\* headers are (AA follows Z), or as the header of this column alone, if it is
\* no column's letters or number.
MeansColumn(headers, selector, k) ==
    LET letters == About[selector].letters
    IN  \/ k \in 1..26 /\ letters = <<k>>
        \/ \E a, b \in 1..26 : letters = <<a, b>> /\ k = 26 * a + b
        \/ /\ Columns(headers, selector) = {k}
           /\ LetterColumn(letters) \notin DOMAIN headers
           /\ About[selector].digits \notin DOMAIN headers

\* The mapping of the form: a variable mapped to a selector that means a column
\* has that column's cell in every row, whichever variables the columns make
\* themselves.
MappedVariableIsItsColumn ==
    (batch # None /\ IsRead(batch)) =>
        LET sheet == SheetOf[batch.files["excel"]]
            headers == sheet[batch.options.header_row]
            mapping == batch.options.mapping
        IN  \A t \in DOMAIN mapping, k \in DOMAIN headers, n \in DOMAIN RowsOf(batch) :
              MeansColumn(headers, mapping[t], k) =>
                  RowsOf(batch)[n].values[t] = CellText(sheet[RowsOf(batch)[n].row_number], k)

\* The guide beside the preview names the variable of each column: no two have
\* the same, none is built-in or mapped, and if the mapping takes none of the
\* guide's names, the names a batch uses are the guide's.
ColumnNamesAgree ==
    (batch # None /\ IsRead(batch)) =>
        LET sheet == SheetOf[batch.files["excel"]]
            tokens == Layout(sheet[batch.options.header_row], batch.options).tokens
            guide == Inspect(sheet, batch.options.header_row)
            taken == BUILTIN_TOKENS \cup DOMAIN batch.options.mapping
        IN  /\ \A j, k \in DOMAIN tokens :
                  tokens[j] # <<>> =>
                      tokens[j] \notin taken /\ (j # k => tokens[j] # tokens[k])
            /\ (\A k \in DOMAIN guide : guide[k] \notin taken) => tokens = guide

\* A batch made from the form on preview, with no other file chosen and no
\* settings saved in between, can read its file, and builds a message for
\* every row the preview showed.
PreviewedFormIsReadable ==
    (batch # None /\ made.previewed) =>
        /\ IsRead(batch)
        /\ \A k \in DOMAIN RowsOf(batch) : k <= PreviewRows =>
              ProblemsOf(batch.content, batch.files, GlobalsOf(batch), RowsOf(batch)[k]) = {}

\* A batch has the files that were chosen for it, however many previews came
\* before, also the file of the batch it was reused from; except where a
\* submission was refused and its new file silently forgotten.
FilesAreTheOnesChosen ==
    batch # None => \A c \in Categories : made.files[c] \in {batch.files[c], Unsure}
=============================================================================
