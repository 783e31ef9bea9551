-------------------------- MODULE UploadFormProofs --------------------------
(***************************************************************************)
(* Proofs about the upload form: a batch has the files that were chosen    *)
(* for it, its templates name variables it has, it is what was previewed,  *)
(* and its variables are those of the columns the mapping and the guide    *)
(* named; for all files, sheets, forms and settings.                       *)
(***************************************************************************)
EXTENDS UploadForm, SequenceTheorems, FiniteSetTheorems, WellFoundedInduction, TLAPS

-----------------------------------------------------------------------------
(* The files.                                                              *)

\* The tokens of the page stand for the files the operator means, if the page
\* has not forgotten them.
PageMeansItsTokens ==
    batch = None => \A c \in Categories : chosen[c] \in {page.tokens[c], Unsure}

FilesInv == PageMeansItsTokens /\ FilesAreTheOnesChosen

LEMMA InitFiles == Init => FilesInv
BY DEF Init, EmptyPage, Page, FilesInv, PageMeansItsTokens, FilesAreTheOnesChosen

LEMMA NextFiles == FilesInv /\ [Next]_vars => FilesInv'
<1> SUFFICES ASSUME FilesInv, [Next]_vars PROVE FilesInv'
  OBVIOUS
<1> USE DEF PageMeansItsTokens, FilesAreTheOnesChosen
<1>1. ASSUME OpenPage PROVE FilesInv'
  BY <1>1 DEF OpenPage, EmptyPage, Page, FilesInv
<1>2. ASSUME NEW existing \in SUBSET Categories, Reuse(existing) PROVE FilesInv'
  BY <1>2 DEF Reuse, Page, FilesInv
<1>3. ASSUME NEW up \in Uploads, Refuse(up) PROVE FilesInv'
  BY <1>3 DEF Refuse, Page, FilesInv
<1>4. ASSUME NEW up \in Uploads, NEW f \in Forms, Preview(f, up) PROVE FilesInv'
  BY <1>4 DEF Preview, Accepted, ChosenWith, UsedFile, Page, FilesInv
<1>5. ASSUME NEW up \in Uploads, NEW f \in Forms, Send(f, up) PROVE FilesInv'
  <2>1. batch = None
    BY <1>5 DEF Send, Accepted
  <2>2. batch'.files = [c \in Categories |-> UsedFile(up, c)] /\ made'.files = ChosenWith(up)
    BY <1>5 DEF Send, NewBatch
  <2>3. page'.tokens = NoFiles /\ chosen' = NoFiles
    BY <1>5 DEF Send, EmptyPage, Page
  <2>4. \A c \in Categories : made'.files[c] \in {batch'.files[c], Unsure}
    BY <2>1, <2>2 DEF ChosenWith, UsedFile, FilesInv
  <2> QED BY <2>3, <2>4 DEF FilesInv
<1>6. ASSUME NEW f \in Forms, NEW file \in ExcelFiles, RunCommand(f, file) PROVE FilesInv'
  <2>1. batch'.files = made'.files
    BY <1>6 DEF RunCommand
  <2>2. page'.tokens = NoFiles /\ chosen' = NoFiles
    BY <1>6 DEF RunCommand, EmptyPage, Page
  <2> QED BY <2>1, <2>2 DEF FilesInv
<1>7. ASSUME NEW c \in Categories, Expire(c) PROVE FilesInv'
  BY <1>7 DEF Expire, Page, FilesInv
<1>8. ASSUME ChangeSettings PROVE FilesInv'
  BY <1>8 DEF ChangeSettings, Page, FilesInv
<1>9. ASSUME UNCHANGED vars PROVE FilesInv'
  BY <1>9 DEF vars, FilesInv
<1> QED BY <1>1, <1>2, <1>3, <1>4, <1>5, <1>6, <1>7, <1>8, <1>9 DEF Next

\* views.py 299-317, 368-374 and 241-276: through any number of previews,
\* refusals and reuses, a batch is made of the files chosen for it, unless a
\* refused submission made the browser forget one.
THEOREM ChosenFilesAreUsed == Spec => []FilesAreTheOnesChosen
<1>1. FilesInv => FilesAreTheOnesChosen BY DEF FilesInv
<1> QED BY <1>1, InitFiles, NextFiles, PTL DEF Spec
-----------------------------------------------------------------------------
(* The templates.                                                          *)

\* A batch of the form names variables that it has itself: built-in, of its
\* own copy of the settings, or mapped.
TemplatesAreCovered(b) ==
    /\ b.content.type \in {"text", "template", "otp"}
    /\ \A t \in TemplatesIn(b.content) :
          Validates(t, DOMAIN b.globals \cup DOMAIN b.options.mapping)

TemplatesInv == (batch # None /\ batch.source = "form") => TemplatesAreCovered(batch)

\* Every row has a value for every mapped variable, whatever the sheet.
LEMMA RowsHaveMappedVariables ==
  ASSUME NEW sheet, NEW o, NEW k \in DOMAIN ReadRecipients(sheet, o)
  PROVE  DOMAIN o.mapping \subseteq DOMAIN ReadRecipients(sheet, o)[k].values
<1> DEFINE layout == Layout(HeaderRow(sheet, o.header_row), o)
           rows == DataRows(layout, sheet)
<1>1. DOMAIN layout.mapped = DOMAIN o.mapping
  BY DEF Layout
<1>2. k \in DOMAIN rows
  BY DEF ReadRecipients
<1>3. ReadRecipients(sheet, o)[k] = Recipient(layout, sheet, rows[k])
  BY <1>2 DEF ReadRecipients
<1>4. DOMAIN Recipient(layout, sheet, rows[k]).values = VariableNames(layout)
  BY DEF Recipient
<1>5. DOMAIN layout.mapped \subseteq VariableNames(layout)
  BY DEF VariableNames
<1> QED BY <1>1, <1>3, <1>4, <1>5

\* So a template that is valid before the file is read is valid for its rows.
LEMMA CoveredTemplatesRender ==
  ASSUME NEW b, TemplatesAreCovered(b), NEW k \in DOMAIN RowsOf(b)
  PROVE  "variable" \notin ProblemsOf(b.content, b.files, GlobalsOf(b), RowsOf(b)[k])
<1> DEFINE r == RowsOf(b)[k]
           context == Context(GlobalsOf(b), r)
<1>1. DOMAIN b.options.mapping \subseteq DOMAIN r.values
  BY RowsHaveMappedVariables DEF RowsOf, Rows
<1>2. DOMAIN context = DOMAIN b.globals \cup DOMAIN r.values \cup BUILTIN_TOKENS
  BY DEF Context, GlobalsOf
<1>3. \A t \in TemplatesIn(b.content) : Renders(t, context)
  <2> HIDE DEF context, r
  <2> QED BY <1>1, <1>2 DEF TemplatesAreCovered, Renders, Validates
<1>4. TemplatesOf(b.content) \subseteq TemplatesIn(b.content)
  BY DEF TemplatesOf, TemplatesIn, TemplatesAreCovered
<1>5. \A t \in TemplatesOf(b.content) : Renders(t, context)
  BY <1>3, <1>4
<1> HIDE DEF context
<1>6. "variable" \notin Problems(b.content, b.files["attachment"] # NoFile, context)
  BY <1>5 DEF Problems
<1> QED BY <1>6 DEF ProblemsOf, context

LEMMA NextTemplates == TemplatesInv /\ [Next]_vars => TemplatesInv'
<1> SUFFICES ASSUME TemplatesInv, [Next]_vars PROVE TemplatesInv'
  OBVIOUS
<1>1. ASSUME batch' = None PROVE TemplatesInv'
  BY <1>1 DEF TemplatesInv
<1>2. ASSUME batch' = batch PROVE TemplatesInv'
  BY <1>2 DEF TemplatesInv
<1>3. ASSUME NEW up \in Uploads, NEW f \in Forms, Send(f, up) PROVE TemplatesInv'
  <2>1. /\ batch'.content = f.content
        /\ batch'.options = f.options
        /\ batch'.globals = globals
    BY <1>3 DEF Send, NewBatch
  <2>2. TemplatesAreValid(f)
    BY <1>3 DEF Send, Accepted, FormIsValid
  <2>3. TemplatesAreCovered(batch')
    BY <2>1, <2>2, FormsAssumption DEF TemplatesAreValid, TemplatesAreCovered
  <2> QED BY <2>3 DEF TemplatesInv
<1>4. ASSUME NEW f \in Forms, NEW file \in ExcelFiles, RunCommand(f, file)
      PROVE TemplatesInv'
  <2>1. batch'.source = "command"
    BY <1>4 DEF RunCommand
  <2> QED BY <2>1 DEF TemplatesInv
<1>5. \/ batch' = None \/ batch' = batch
      \/ \E up \in Uploads, f \in Forms : Send(f, up)
      \/ \E f \in Forms, file \in ExcelFiles : RunCommand(f, file)
  BY DEF Next, vars, OpenPage, Reuse, Refuse, Preview, Expire, ChangeSettings
<1> QED BY <1>1, <1>2, <1>3, <1>4, <1>5

\* forms.py 318-343: no row of a batch made by an accepted form fails for an
\* unknown variable, whatever its file holds and the settings become.
THEOREM AcceptedFormRenders == Spec => []AcceptedTemplateRenders
<1>1. Init => TemplatesInv BY DEF Init, TemplatesInv
<1>2. TemplatesInv => AcceptedTemplateRenders
  BY CoveredTemplatesRender DEF TemplatesInv, AcceptedTemplateRenders
<1> QED BY <1>1, <1>2, NextTemplates, PTL DEF Spec

-----------------------------------------------------------------------------
(* The preview.                                                            *)

\* The form on preview is still what the preview was built from.
PreviewIsOfThePage ==
    page.previewed # None => page.previewed \in Forms /\ Previewable(page.previewed, page.tokens)

PreviewInv == PreviewIsOfThePage /\ PreviewedFormIsReadable

\* What a preview has shown to be so is so for a batch of the same values.
LEMMA PreviewableBatch ==
  ASSUME NEW f, NEW files, NEW b, Previewable(f, files),
         b.content = f.content, b.options = f.options, b.globals = globals,
         b.files["excel"] = files["excel"],
         b.files["attachment"] = files["attachment"]
  PROVE  /\ IsRead(b)
         /\ \A k \in DOMAIN RowsOf(b) : k <= PreviewRows =>
               ProblemsOf(b.content, b.files, GlobalsOf(b), RowsOf(b)[k]) = {}
<1>1. RowsOf(b) = Rows(files["excel"], f.options)
  BY DEF RowsOf
<1>2. \A r : ProblemsOf(b.content, b.files, GlobalsOf(b), r)
              = ProblemsOf(f.content, files, globals, r)
  BY DEF ProblemsOf, GlobalsOf
<1>3. IsRead(b)
  BY DEF IsRead, Previewable
<1>4. \A k \in DOMAIN Rows(files["excel"], f.options) : k <= PreviewRows =>
         ProblemsOf(f.content, files, globals, Rows(files["excel"], f.options)[k]) = {}
  BY DEF Previewable
<1> QED BY <1>1, <1>2, <1>3, <1>4

LEMMA NextPreview == PreviewInv /\ [Next]_vars => PreviewInv'
<1> SUFFICES ASSUME PreviewInv, [Next]_vars PROVE PreviewInv'
  OBVIOUS
<1> USE DEF PreviewIsOfThePage
<1>1. ASSUME page'.previewed = None PROVE PreviewIsOfThePage'
  BY <1>1
<1>2. ASSUME page'.previewed = page.previewed, page'.tokens = page.tokens, globals' = globals
      PROVE PreviewIsOfThePage'
  BY <1>2 DEF PreviewInv, Previewable, ProblemsOf
<1>3. ASSUME batch' = None PROVE PreviewedFormIsReadable'
  BY <1>3 DEF PreviewedFormIsReadable
<1>4. ASSUME batch' = batch, made' = made PROVE PreviewedFormIsReadable'
  BY <1>4 DEF PreviewInv, PreviewedFormIsReadable, IsRead, RowsOf, GlobalsOf, ProblemsOf
<1>5. ASSUME NEW up \in Uploads, NEW f \in Forms, Preview(f, up) PROVE PreviewInv'
  <2>0. PICK files : files = [c \in Categories |-> UsedFile(up, c)]
    OBVIOUS
  <2>1. page' = Page(files, {}, f) /\ Previewable(f, files) /\ globals' = globals
    BY <1>5, <2>0 DEF Preview
  <2>2. page'.previewed = f /\ page'.tokens = files
    BY <2>1 DEF Page
  <2>3. Previewable(f, files)'
    BY <2>1 DEF Previewable, ProblemsOf
  <2>4. PreviewIsOfThePage'
    BY <2>2, <2>3
  <2>5. batch' = batch /\ made' = made
    BY <1>5 DEF Preview
  <2> QED BY <2>4, <2>5, <1>4 DEF PreviewInv
<1>6. ASSUME NEW up \in Uploads, NEW f \in Forms, Send(f, up) PROVE PreviewInv'
  <2>1. /\ batch'.content = f.content /\ batch'.options = f.options
        /\ batch'.globals = globals
        /\ batch'.files = [c \in Categories |-> UsedFile(up, c)]
        /\ made'.previewed = (up = NoFiles /\ page.previewed = f)
    BY <1>6 DEF Send, NewBatch
  <2>2. page'.previewed = None
    BY <1>6 DEF Send, EmptyPage, Page
  <2>3. ASSUME up = NoFiles, page.previewed = f PROVE PreviewedFormIsReadable'
    <3>1. Previewable(f, page.tokens)
      BY <2>3, FormsAssumption DEF PreviewInv
    <3>2. \A c \in Categories : batch'.files[c] = page.tokens[c]
      BY <2>1, <2>3 DEF UsedFile, NoFiles
    <3>3. /\ IsRead(batch')
          /\ \A k \in DOMAIN RowsOf(batch') : k <= PreviewRows =>
               ProblemsOf(batch'.content, batch'.files, GlobalsOf(batch'), RowsOf(batch')[k]) = {}
      BY <2>1, <3>1, <3>2, PreviewableBatch DEF Categories
    <3> QED BY <3>3 DEF PreviewedFormIsReadable
  <2>4. PreviewedFormIsReadable'
    BY <2>1, <2>3 DEF PreviewedFormIsReadable
  <2> QED BY <2>2, <2>4, <1>1 DEF PreviewInv
<1>7. ASSUME NEW f \in Forms, NEW file \in ExcelFiles, RunCommand(f, file)
      PROVE PreviewInv'
  <2>1. page'.previewed = None /\ made'.previewed = FALSE
    BY <1>7 DEF RunCommand, EmptyPage, Page
  <2> QED BY <2>1, <1>1 DEF PreviewInv, PreviewedFormIsReadable
<1>8. ASSUME OpenPage \/ \E existing \in SUBSET Categories : Reuse(existing) PROVE PreviewInv'
  <2>1. page'.previewed = None /\ batch' = None
    BY <1>8 DEF OpenPage, Reuse, EmptyPage, Page
  <2> QED BY <2>1, <1>1, <1>3 DEF PreviewInv
<1>9. ASSUME ChangeSettings \/ \E up \in Uploads : Refuse(up) PROVE PreviewInv'
  <2>1. page'.previewed = None /\ batch' = batch /\ made' = made
    BY <1>9 DEF ChangeSettings, Refuse, Page
  <2> QED BY <2>1, <1>1, <1>4 DEF PreviewInv
<1>10. ASSUME UNCHANGED vars \/ \E c \in Categories : Expire(c) PROVE PreviewInv'
  <2>1. /\ page'.previewed = page.previewed /\ page'.tokens = page.tokens
        /\ globals' = globals /\ batch' = batch /\ made' = made
    BY <1>10 DEF Expire, Page, vars
  <2> QED BY <2>1, <1>2, <1>4 DEF PreviewInv
<1> QED BY <1>5, <1>6, <1>7, <1>8, <1>9, <1>10 DEF Next

\* views.py 336-380: what is sent from the preview on show reads its file, and
\* builds a message for every row the preview showed.
THEOREM PreviewHolds == Spec => []PreviewedFormIsReadable
<1>1. Init => PreviewInv
  BY DEF Init, EmptyPage, Page, PreviewInv, PreviewIsOfThePage, PreviewedFormIsReadable
<1>2. PreviewInv => PreviewedFormIsReadable BY DEF PreviewInv
<1> QED BY <1>1, <1>2, NextPreview, PTL DEF Spec

-----------------------------------------------------------------------------
(* The types.                                                              *)

FilesWith(extra) == [excel : ExcelFiles \cup extra, attachment : Attachments \cup extra]

\* A choice of one file of each category, as a record.
LEMMA FilesByCategory ==
  ASSUME NEW extra, NEW F, F = [c \in Categories |-> F[c]],
         F["excel"] \in ExcelFiles \cup extra, F["attachment"] \in Attachments \cup extra
  PROVE  F \in FilesWith(extra)
BY DEF FilesWith, Categories

LEMMA FilesTypes ==
  ASSUME NEW extra, NEW F \in FilesWith(extra)
  PROVE  /\ F["excel"] \in ExcelFiles \cup extra
         /\ F["attachment"] \in Attachments \cup extra
         /\ F = [c \in Categories |-> F[c]]
BY DEF FilesWith, Categories

\* What holds of the window: the types, and a batch has finitely many mapped
\* variables.
TypeInv ==
    TypeOK /\ (batch # None => IsFiniteSet(DOMAIN batch.options.mapping))

LEMMA UploadTypes ==
  ASSUME NEW up \in Uploads
  PROVE  up["excel"] \in ExcelFiles \cup {NoFile} /\ up["attachment"] \in Attachments \cup {NoFile}
BY DEF Uploads, FilesOf, Categories

LEMMA NoFilesType ==
  NoFiles \in FilesWith({NoFile}) /\ NoFiles \in FilesWith({NoFile, Unsure})
BY DEF NoFiles, FilesWith, Categories

\* The files of a submission, and those the operator means then.
LEMMA UsedFilesType ==
  ASSUME NEW up \in Uploads, page.tokens \in FilesWith({NoFile})
  PROVE  [c \in Categories |-> UsedFile(up, c)] \in FilesWith({NoFile})
<1> DEFINE F == [c \in Categories |-> UsedFile(up, c)]
<1>1. F = [c \in Categories |-> F[c]]
  OBVIOUS
<1>2. /\ F["excel"] \in ExcelFiles \cup {NoFile}
      /\ F["attachment"] \in Attachments \cup {NoFile}
  BY UploadTypes, FilesTypes DEF UsedFile, Categories
<1> HIDE DEF F
<1>3. F \in FilesWith({NoFile})
  BY <1>1, <1>2, FilesByCategory
<1> QED BY <1>3 DEF F

LEMMA ChosenFilesType ==
  ASSUME NEW up \in Uploads, chosen \in FilesWith({NoFile, Unsure})
  PROVE  /\ ChosenWith(up) \in FilesWith({NoFile, Unsure})
         /\ [c \in Categories |-> IF up[c] # NoFile THEN Unsure ELSE chosen[c]]
               \in FilesWith({NoFile, Unsure})
<1> DEFINE F == ChosenWith(up)
           G == [c \in Categories |-> IF up[c] # NoFile THEN Unsure ELSE chosen[c]]
<1>1. F = [c \in Categories |-> F[c]] /\ G = [c \in Categories |-> G[c]]
  BY DEF ChosenWith
<1>2. /\ F["excel"] \in ExcelFiles \cup {NoFile, Unsure}
      /\ F["attachment"] \in Attachments \cup {NoFile, Unsure}
      /\ G["excel"] \in ExcelFiles \cup {NoFile, Unsure}
      /\ G["attachment"] \in Attachments \cup {NoFile, Unsure}
  BY UploadTypes, FilesTypes DEF ChosenWith, Categories
<1> HIDE DEF F, G
<1>3. F \in FilesWith({NoFile, Unsure}) /\ G \in FilesWith({NoFile, Unsure})
  BY <1>1, <1>2, FilesByCategory
<1> QED BY <1>3 DEF F, G

\* TypeOK by its parts.
PageType == /\ page.tokens \in FilesWith({NoFile}) /\ page.stale \subseteq Categories
            /\ page.previewed = None \/ page.previewed \in Forms
BatchType ==
    batch # None =>
        /\ batch.source \in {"form", "command"}
        /\ batch.files \in FilesWith({NoFile}) /\ batch.files["excel"] # NoFile
        /\ batch.globals \in GlobalSets \cup {<<>>}
        /\ made \in [files : FilesWith({NoFile, Unsure}), previewed : BOOLEAN]
        /\ IsFiniteSet(DOMAIN batch.options.mapping)

LEMMA TypeInvParts ==
    /\ TypeInv <=> /\ globals \in GlobalSets /\ PageType
                   /\ chosen \in FilesWith({NoFile, Unsure}) /\ BatchType
    /\ TypeInv' <=> /\ globals' \in GlobalSets /\ PageType'
                    /\ chosen' \in FilesWith({NoFile, Unsure}) /\ BatchType'
BY DEF TypeInv, TypeOK, PageType, BatchType, FilesWith

LEMMA InitTypes == Init => TypeInv
<1> SUFFICES ASSUME Init PROVE TypeInv
  OBVIOUS
<1>1. page.tokens = NoFiles /\ page.stale = {} /\ page.previewed = None
  BY DEF Init, EmptyPage, Page
<1>2. PageType
  BY <1>1, NoFilesType DEF PageType
<1>3. BatchType
  BY DEF Init, BatchType
<1>4. globals \in GlobalSets /\ chosen \in FilesWith({NoFile, Unsure})
  BY NoFilesType DEF Init
<1> QED BY <1>2, <1>3, <1>4, TypeInvParts

LEMMA NextTypes == TypeInv /\ [Next]_vars => TypeInv'
<1> SUFFICES ASSUME TypeInv, [Next]_vars PROVE TypeInv'
  OBVIOUS
<1>1. /\ globals \in GlobalSets /\ PageType
      /\ chosen \in FilesWith({NoFile, Unsure}) /\ BatchType
  BY TypeInvParts
<1>2. NoFiles \in FilesWith({NoFile}) /\ NoFiles \in FilesWith({NoFile, Unsure})
  BY NoFilesType
<1>3. ASSUME UNCHANGED <<batch, made>> PROVE BatchType'
  BY <1>1, <1>3 DEF BatchType
<1>4. ASSUME OpenPage PROVE TypeInv'
  BY <1>1, <1>2, <1>4, TypeInvParts DEF OpenPage, EmptyPage, Page, PageType, BatchType
<1>5. ASSUME NEW existing \in SUBSET Categories, Reuse(existing) PROVE TypeInv'
  <2> DEFINE kept == [c \in Categories |->
                        IF {c, "excel"} \subseteq existing THEN batch.files[c] ELSE NoFile]
             meant == [c \in Categories |->
                        IF "excel" \in existing /\ kept[c] # batch.files[c]
                        THEN Unsure ELSE kept[c]]
  <2>1. /\ page' = Page(kept, {}, None) /\ chosen' = meant
        /\ batch # None /\ batch' = None /\ globals' = globals
    BY <1>5 DEF Reuse
  <2>2. batch.files \in FilesWith({NoFile})
    BY <1>1, <2>1 DEF BatchType
  <2>3. /\ kept = [c \in Categories |-> kept[c]]
        /\ kept["excel"] \in ExcelFiles \cup {NoFile}
        /\ kept["attachment"] \in Attachments \cup {NoFile}
    BY <2>2, FilesTypes DEF Categories
  <2>4. /\ meant = [c \in Categories |-> meant[c]]
        /\ meant["excel"] \in ExcelFiles \cup {NoFile, Unsure}
        /\ meant["attachment"] \in Attachments \cup {NoFile, Unsure}
    <3> HIDE DEF kept
    <3> QED BY <2>3 DEF Categories
  <2> HIDE DEF kept, meant
  <2>5. kept \in FilesWith({NoFile}) /\ meant \in FilesWith({NoFile, Unsure})
    BY <2>3, <2>4, FilesByCategory
  <2>6. PageType' /\ BatchType'
    BY <2>1, <2>5 DEF Page, PageType, BatchType
  <2> QED BY <1>1, <2>1, <2>5, <2>6, TypeInvParts
<1>6. ASSUME NEW up \in Uploads, Refuse(up) PROVE TypeInv'
  <2>1. /\ page' = Page(page.tokens, page.stale, None)
        /\ chosen' = [c \in Categories |-> IF up[c] # NoFile THEN Unsure ELSE chosen[c]]
        /\ UNCHANGED <<globals, batch, made>>
    BY <1>6 DEF Refuse
  <2>2. PageType'
    BY <1>1, <2>1 DEF Page, PageType
  <2>3. chosen' \in FilesWith({NoFile, Unsure})
    BY <1>1, <2>1, ChosenFilesType
  <2> QED BY <1>1, <1>3, <2>1, <2>2, <2>3, TypeInvParts
<1>7. ASSUME NEW up \in Uploads, NEW f \in Forms, Preview(f, up) PROVE TypeInv'
  <2>1. /\ page' = Page([c \in Categories |-> UsedFile(up, c)], {}, f)
        /\ chosen' = ChosenWith(up)
        /\ UNCHANGED <<globals, batch, made>>
    BY <1>7 DEF Preview
  <2>2. PageType'
    BY <1>1, <2>1, UsedFilesType DEF Page, PageType
  <2>3. chosen' \in FilesWith({NoFile, Unsure})
    BY <1>1, <2>1, ChosenFilesType
  <2> QED BY <1>1, <1>3, <2>1, <2>2, <2>3, TypeInvParts
<1>8. ASSUME NEW up \in Uploads, NEW f \in Forms, Send(f, up) PROVE TypeInv'
  <2> DEFINE files == [c \in Categories |-> UsedFile(up, c)]
  <2>1. /\ batch' = NewBatch(f, files)
        /\ made' = [files |-> ChosenWith(up),
                    previewed |-> up = NoFiles /\ page.previewed = f]
        /\ page' = EmptyPage /\ chosen' = NoFiles /\ globals' = globals
    BY <1>8 DEF Send
  <2>2. UsedFile(up, "excel") # NoFile
    BY <1>8 DEF Send, Accepted, FormIsValid
  <2>3. files \in FilesWith({NoFile}) /\ files["excel"] # NoFile
    BY <1>1, <2>2, UsedFilesType DEF PageType, Categories
  <2>4. ChosenWith(up) \in FilesWith({NoFile, Unsure})
    BY <1>1, ChosenFilesType
  <2> HIDE DEF files
  <2>5. /\ batch'.source = "form" /\ batch'.files = files
        /\ batch'.globals = globals /\ batch'.options = f.options
    BY <2>1 DEF NewBatch
  <2>6. BatchType'
    BY <1>1, <2>1, <2>3, <2>4, <2>5, FormsAssumption DEF BatchType
  <2> QED BY <1>1, <1>2, <2>1, <2>6, TypeInvParts DEF EmptyPage, Page, PageType
<1>9. ASSUME NEW f \in Forms, NEW file \in ExcelFiles, RunCommand(f, file) PROVE TypeInv'
  <2> DEFINE files == [NoFiles EXCEPT !["excel"] = file]
  <2>1. /\ batch'.source = "command" /\ batch'.files = files
        /\ batch'.globals = <<>> /\ batch'.options = DefaultOptions
        /\ made' = [files |-> files, previewed |-> FALSE]
        /\ page' = EmptyPage /\ chosen' = NoFiles /\ globals' = globals
    BY <1>9 DEF RunCommand
  <2>2. files \in FilesWith({NoFile}) /\ files["excel"] = file /\ files["excel"] # NoFile
    BY FilesAssumption DEF NoFiles, FilesWith, Categories
  <2>3. files \in FilesWith({NoFile, Unsure})
    BY <2>2 DEF FilesWith
  <2>4. IsFiniteSet(DOMAIN DefaultOptions.mapping)
    <3>1. DOMAIN DefaultOptions.mapping = {}
      BY DEF DefaultOptions
    <3> QED BY <3>1, FS_EmptySet
  <2> HIDE DEF files
  <2>5. BatchType'
    BY <1>1, <2>1, <2>2, <2>3, <2>4 DEF BatchType
  <2> QED BY <1>1, <1>2, <2>1, <2>5, TypeInvParts DEF EmptyPage, Page, PageType
<1>10. ASSUME NEW c \in Categories, Expire(c) PROVE TypeInv'
  <2>1. PageType'
    BY <1>1, <1>10 DEF Expire, Page, PageType
  <2> QED BY <1>1, <1>3, <1>10, <2>1, TypeInvParts DEF Expire
<1>11. ASSUME ChangeSettings PROVE TypeInv'
  <2>1. PageType'
    BY <1>1, <1>11 DEF ChangeSettings, Page, PageType
  <2> QED BY <1>1, <1>3, <1>11, <2>1, TypeInvParts DEF ChangeSettings
<1>12. ASSUME UNCHANGED vars PROVE TypeInv'
  <2>1. PageType'
    BY <1>1, <1>12 DEF vars, PageType
  <2> QED BY <1>1, <1>3, <1>12, <2>1, TypeInvParts DEF vars
<1> QED BY <1>4, <1>5, <1>6, <1>7, <1>8, <1>9, <1>10, <1>11, <1>12 DEF Next

LEMMA Types == Spec => []TypeInv
BY InitTypes, NextTypes, PTL DEF Spec

\* TypeOK: a page's tokens and a batch's files are of their categories, and no
\* batch is without an Excel file.
THEOREM TypeCorrect == Spec => []TypeOK
<1>1. TypeInv => TypeOK BY DEF TypeInv
<1> QED BY <1>1, Types, PTL

-----------------------------------------------------------------------------
(* The columns.                                                            *)

\* One letter is its place in the alphabet, and AA follows Z.
LEMMA OneLetter ==
  ASSUME NEW a \in 1..26
  PROVE  LetterColumn(<<a>>) = a
<1> DEFINE Step(f, k) == IF k = 0 THEN 0 ELSE f[k - 1] * 26 + <<a>>[k]
           f == CHOOSE g : g = [k \in 0..1 |-> Step(g, k)]
           g == [k \in 0..1 |-> IF k = 0 THEN 0 ELSE a]
<1>1. LetterColumn(<<a>>) = f[1]
  BY DEF LetterColumn
<1>2. \A k \in 0..1 : g[k] = Step(g, k)
  <2>1. g[0] = 0 /\ g[1] = a
    OBVIOUS
  <2> QED BY <2>1
<1>3. g = [k \in 0..1 |-> Step(g, k)]
  BY <1>2
<1>4. f = [k \in 0..1 |-> Step(f, k)]
  <2> HIDE DEF g, Step
  <2> QED BY <1>3
<1> HIDE DEF f
<1>5. f[0] = 0 /\ f[1] = f[0] * 26 + a
  BY <1>4
<1> QED BY <1>1, <1>5

LEMMA TwoLetters ==
  ASSUME NEW a \in 1..26, NEW b \in 1..26
  PROVE  LetterColumn(<<a, b>>) = 26 * a + b
<1> DEFINE Step(f, k) == IF k = 0 THEN 0 ELSE f[k - 1] * 26 + <<a, b>>[k]
           f == CHOOSE g : g = [k \in 0..2 |-> Step(g, k)]
           g == [k \in 0..2 |-> IF k = 0 THEN 0 ELSE IF k = 1 THEN a ELSE a * 26 + b]
<1>1. LetterColumn(<<a, b>>) = f[2]
  BY DEF LetterColumn
<1>2. \A k \in 0..2 : g[k] = Step(g, k)
  <2>1. g[0] = 0 /\ g[1] = a /\ g[2] = a * 26 + b
    OBVIOUS
  <2> QED BY <2>1
<1>3. g = [k \in 0..2 |-> Step(g, k)]
  BY <1>2
<1>4. f = [k \in 0..2 |-> Step(f, k)]
  <2> HIDE DEF g, Step
  <2> QED BY <1>3
<1> HIDE DEF f
<1>5. f[0] = 0 /\ f[1] = f[0] * 26 + a /\ f[2] = f[1] * 26 + b
  BY <1>4
<1> QED BY <1>1, <1>5

\* A selector that means a column selects it.
LEMMA MeantIsSelected ==
  ASSUME NEW headers, NEW selector, NEW k \in DOMAIN headers,
         MeansColumn(headers, selector, k)
  PROVE  Selected(headers, selector) = k
<1> DEFINE letters == About[selector].letters
<1>1. CASE k \in 1..26 /\ letters = <<k>>
  <2>1. LetterColumn(letters) = k
    BY <1>1, OneLetter
  <2> QED BY <2>1 DEF Selected
<1>2. CASE \E a, b \in 1..26 : letters = <<a, b>> /\ k = 26 * a + b
  <2>1. LetterColumn(letters) = k
    BY <1>2, TwoLetters
  <2> QED BY <2>1 DEF Selected
<1>3. CASE /\ Columns(headers, selector) = {k}
           /\ LetterColumn(letters) \notin DOMAIN headers
           /\ About[selector].digits \notin DOMAIN headers
  <2>1. Cardinality({k}) = 1 /\ (CHOOSE j \in {k} : TRUE) = k
    BY FS_Singleton
  <2> QED BY <1>3, <2>1 DEF Selected
<1> QED BY <1>1, <1>2, <1>3 DEF MeansColumn

\* MappedVariableIsItsColumn: what the operator mapped wins over what the
\* columns name themselves, for every sheet that can be read.
THEOREM MappingHolds == Spec => []MappedVariableIsItsColumn
<1>1. MappedVariableIsItsColumn
  <2> DEFINE o == batch.options
             sheet == SheetOf[batch.files["excel"]]
             headers == sheet[o.header_row]
             layout == Layout(HeaderRow(sheet, o.header_row), o)
             rows == DataRows(layout, sheet)
  <2> SUFFICES ASSUME IsRead(batch), NEW t \in DOMAIN o.mapping, NEW k \in DOMAIN headers,
                      NEW n \in DOMAIN RowsOf(batch),
                      MeansColumn(headers, o.mapping[t], k)
               PROVE  RowsOf(batch)[n].values[t] =
                        CellText(sheet[RowsOf(batch)[n].row_number], k)
    BY DEF MappedVariableIsItsColumn
  <2>1. HeaderRow(sheet, o.header_row) = headers
    BY DEF IsRead, IsReadable, HeaderRow
  <2>2. RowsOf(batch) = [m \in DOMAIN rows |-> Recipient(layout, sheet, rows[m])]
    BY DEF RowsOf, Rows, ReadRecipients
  <2>3. /\ DOMAIN layout.mapped = DOMAIN o.mapping
        /\ layout.mapped[t] = Selected(headers, o.mapping[t])
    BY <2>1 DEF Layout
  <2>4. Selected(headers, o.mapping[t]) = k
    <3> HIDE DEF headers, o
    <3> QED BY MeantIsSelected
  <2> HIDE DEF rows, layout
  <2>5. RowsOf(batch)[n] = Recipient(layout, sheet, rows[n])
    BY <2>2
  <2>6. t \in VariableNames(layout)
    BY <2>3 DEF VariableNames
  <2> HIDE DEF sheet, headers, o
  <2>7. /\ RowsOf(batch)[n].row_number = rows[n]
        /\ RowsOf(batch)[n].values[t] = CellOf(layout, sheet[rows[n]], t)
    BY <2>5, <2>6 DEF Recipient
  <2>8. CellOf(layout, sheet[rows[n]], t) = CellText(sheet[rows[n]], k)
    BY <2>3, <2>4 DEF CellOf
  <2> QED BY <2>7, <2>8
<1> QED BY <1>1, PTL

\* The least-number principle.
LEMMA LeastElement ==
  ASSUME NEW T \in SUBSET Nat, T # {}
  PROVE  \E m \in T : \A n \in T : m <= n
<1> DEFINE R == OpToRel(<, Nat)
<1>1. IsWellFoundedOn(R, Nat)
  BY NatLessThanWellFounded
<1>2. \A x, y \in Nat : <<x, y>> \in R <=> x < y
  BY DEF OpToRel
<1> HIDE DEF R
<1>3. PICK m \in T : \A y \in T : ~(<<y, m>> \in R)
  BY <1>1, WFMin
<1>4. m \in Nat /\ \A n \in T : n \in Nat /\ ~(n < m)
  BY <1>2, <1>3
<1> QED BY <1>4

\* A token, of whatever elements.
IsToken(base) == Len(base) \in Nat /\ base = [k \in 1..Len(base) |-> base[k]]

LEMMA TokenIsSequence ==
  ASSUME NEW base, IsToken(base)
  PROVE  base \in Seq({base[k] : k \in 1..Len(base)} \cup Nat)
<1> DEFINE S == {base[k] : k \in 1..Len(base)} \cup Nat
           n == Len(base)
<1>1. n \in Nat /\ base = [k \in 1..n |-> base[k]]
  BY DEF IsToken
<1>2. \A k \in 1..n : base[k] \in S
  OBVIOUS
<1> HIDE DEF S, n
<1>3. base \in [1..n -> S]
  BY <1>1, <1>2
<1>4. base \in Seq(S)
  BY <1>1, <1>3, SeqDef
<1> QED BY <1>4 DEF S, n

LEMMA SafeTokenIsToken ==
  ASSUME NEW text \in Texts, NEW column
  PROVE  IsToken(SafeToken(text, column))
<1>1. IsToken(<<"column_letter", column>>)
  BY DEF IsToken
<1> QED BY <1>1, TokensAssumption DEF SafeToken, IsToken

LEMMA NumberedTokensDiffer ==
  ASSUME NEW base, IsToken(base), NEW m \in Nat, NEW n \in Nat,
         Append(base, m) = Append(base, n)
  PROVE  m = n
<1> DEFINE S == {base[k] : k \in 1..Len(base)} \cup Nat
<1>1. base \in Seq(S) /\ m \in S /\ n \in S
  BY TokenIsSequence
<1> HIDE DEF S
<1> QED BY <1>1, AppendProperties

\* The numbers that Unused may append, not all of them are taken.
FreeNumbers(base, used) == {n \in 2..Cardinality(used) + 2 : Append(base, n) \notin used}

LEMMA SomeNumberIsFree ==
  ASSUME NEW base, IsToken(base), NEW used, IsFiniteSet(used)
  PROVE  /\ FreeNumbers(base, used) \in SUBSET Nat
         /\ \E n \in FreeNumbers(base, used) :
                \A m \in FreeNumbers(base, used) : n <= m
<1> DEFINE N == 2..Cardinality(used) + 2
           f == [n \in N |-> Append(base, n)]
<1>1. Cardinality(used) \in Nat
  BY FS_CardinalityType
<1>2. IsFiniteSet(N) /\ Cardinality(N) = Cardinality(used) + 1 /\ N \subseteq Nat
  BY <1>1, FS_Interval
<1>3. FreeNumbers(base, used) \in SUBSET Nat
  BY <1>2 DEF FreeNumbers
<1>4. ASSUME FreeNumbers(base, used) = {} PROVE FALSE
  <2>1. f \in [N -> used]
    BY <1>4 DEF FreeNumbers
  <2>2. \A m, n \in N : f[m] = f[n] => m = n
    BY <1>2, NumberedTokensDiffer
  <2> HIDE DEF f, N
  <2>3. f \in Injection(N, used)
    BY <2>1, <2>2 DEF Injection, IsInjective
  <2>4. Cardinality(N) <= Cardinality(used)
    BY <2>3, FS_Injection
  <2> QED BY <1>1, <1>2, <2>4
<1> QED BY <1>3, <1>4, LeastElement

LEMMA UnusedIsUnused ==
  ASSUME NEW base, IsToken(base), NEW used, IsFiniteSet(used)
  PROVE  /\ Unused(base, used) \notin used
         /\ base \in used =>
              \E n \in FreeNumbers(base, used) :
                 /\ Unused(base, used) = Append(base, n)
                 /\ \A m \in FreeNumbers(base, used) : n <= m
<1> DEFINE free == FreeNumbers(base, used)
           n == CHOOSE k \in free : \A m \in free : k <= m
<1>1. n \in free /\ \A m \in free : n <= m
  BY SomeNumberIsFree
<1>2. Unused(base, used) = IF base \notin used THEN base ELSE Append(base, n)
  BY DEF Unused, FreeNumbers
<1> HIDE DEF n
<1>3. Append(base, n) \notin used
  BY <1>1 DEF FreeNumbers
<1> QED BY <1>1, <1>2, <1>3

\* More used names make no difference if the name found is not one of them.
LEMMA UnusedAmongMore ==
  ASSUME NEW base, IsToken(base), NEW used, NEW more, IsFiniteSet(more), used \subseteq more,
         Unused(base, used) \notin more
  PROVE  Unused(base, more) = Unused(base, used)
<1>1. IsFiniteSet(used) /\ Cardinality(used) <= Cardinality(more)
  BY FS_Subset
<1>2. Cardinality(used) \in Nat /\ Cardinality(more) \in Nat
  BY <1>1, FS_CardinalityType
<1>3. CASE base \notin used
  <2>1. Unused(base, used) = base
    BY <1>3 DEF Unused
  <2> QED BY <2>1 DEF Unused
<1>4. CASE base \in used
  <2>1. PICK n \in FreeNumbers(base, used) :
           /\ Unused(base, used) = Append(base, n)
           /\ \A m \in FreeNumbers(base, used) : n <= m
    BY <1>1, <1>4, UnusedIsUnused
  <2>2. PICK k \in FreeNumbers(base, more) :
           /\ Unused(base, more) = Append(base, k)
           /\ \A m \in FreeNumbers(base, more) : k <= m
    BY <1>4, UnusedIsUnused
  <2>3. n \in FreeNumbers(base, more)
    BY <1>1, <1>2, <2>1 DEF FreeNumbers
  <2>4. k <= n
    BY <2>2, <2>3
  <2>5. /\ n \in Nat /\ n <= Cardinality(used) + 2
        /\ k \in Nat /\ k >= 2 /\ Append(base, k) \notin more
    BY <1>2, <2>1, <2>2 DEF FreeNumbers
  <2>6. k \in FreeNumbers(base, used)
    BY <1>2, <2>4, <2>5 DEF FreeNumbers
  <2>7. n = k
    BY <2>1, <2>4, <2>5, <2>6
  <2> QED BY <2>1, <2>2, <2>7
<1> QED BY <1>3, <1>4

\* One turn of the loop over the columns; the loop; the token of one column,
\* given the tokens before it.
TokenStep(headers, taken, f, k) ==
    IF k = 0 THEN <<>>
    ELSE LET used == taken \cup {f[k-1][j] : j \in 1..k-1}
         IN  Append(f[k-1],
                    IF headers[k] = Blank THEN <<>>
                    ELSE Unused(SafeToken(headers[k], k), used))
TokenLoop(headers, taken) ==
    LET tokens[k \in 0..Len(headers)] ==
          IF k = 0 THEN <<>>
          ELSE LET used == taken \cup {tokens[k-1][j] : j \in 1..k-1}
               IN  Append(tokens[k-1],
                          IF headers[k] = Blank THEN <<>>
                          ELSE Unused(SafeToken(headers[k], k), used))
    IN  tokens
TokenOf(headers, taken, before, k) ==
    IF headers[k] = Blank THEN <<>>
    ELSE Unused(SafeToken(headers[k], k), taken \cup {before[j] : j \in 1..k-1})

\* The loop can be run to any column.
LoopTo(headers, taken, n) ==
    \E g : g = [k \in 0..n |-> TokenStep(headers, taken, g, k)]

LEMMA LoopExtends ==
  ASSUME NEW headers, NEW taken, NEW n \in Nat, LoopTo(headers, taken, n)
  PROVE  LoopTo(headers, taken, n + 1)
<1>1. PICK g : g = [k \in 0..n |-> TokenStep(headers, taken, g, k)]
  BY DEF LoopTo
<1> DEFINE h == [k \in 0..n + 1 |->
                   IF k = n + 1 THEN TokenStep(headers, taken, g, n + 1) ELSE g[k]]
<1>2. ASSUME NEW k \in 0..n + 1 PROVE h[k] = TokenStep(headers, taken, g, k)
  <2>1. k = n + 1 \/ k \in 0..n
    OBVIOUS
  <2> QED BY <1>1, <2>1
<1>3. ASSUME NEW k \in 0..n + 1
      PROVE  TokenStep(headers, taken, h, k) = TokenStep(headers, taken, g, k)
  <2>1. k # 0 => h[k - 1] = g[k - 1]
    OBVIOUS
  <2> HIDE DEF h
  <2> QED BY <2>1 DEF TokenStep
<1>4. h = [k \in 0..n + 1 |-> TokenStep(headers, taken, h, k)]
  BY <1>2, <1>3
<1> HIDE DEF h
<1> QED BY <1>4 DEF LoopTo

LEMMA LoopRuns ==
  ASSUME NEW headers, NEW taken, NEW N \in Nat
  PROVE  LoopTo(headers, taken, N)
<1> DEFINE Bad == {n \in Nat : ~LoopTo(headers, taken, n)}
<1>1. ASSUME Bad # {} PROVE FALSE
  <2>1. Bad \in SUBSET Nat
    OBVIOUS
  <2> HIDE DEF Bad
  <2>2. PICK m \in Bad : \A n \in Bad : m <= n
    BY <1>1, <2>1, LeastElement
  <2> USE DEF Bad
  <2>3. LoopTo(headers, taken, 0)
    <3> DEFINE g == [k \in 0..0 |-> <<>>]
    <3>1. g = [k \in 0..0 |-> TokenStep(headers, taken, g, k)]
      BY DEF TokenStep
    <3> HIDE DEF g
    <3> QED BY <3>1 DEF LoopTo
  <2>4. m # 0 => m - 1 \in Nat /\ LoopTo(headers, taken, m - 1)
    BY <2>2
  <2>5. m # 0 => LoopTo(headers, taken, m - 1 + 1)
    BY <2>4, LoopExtends
  <2> QED BY <2>3, <2>5
<1> QED BY <1>1

LEMMA LoopEquation ==
  ASSUME NEW headers \in Seq(Texts), NEW taken
  PROVE  LET f == TokenLoop(headers, taken)
         IN  /\ f[0] = <<>>
             /\ \A k \in 1..Len(headers) :
                   f[k] = Append(f[k - 1], TokenOf(headers, taken, f[k - 1], k))
<1> DEFINE f == TokenLoop(headers, taken)
           N == Len(headers)
<1>1. N \in Nat
  OBVIOUS
<1>2. PICK g : g = [k \in 0..N |-> TokenStep(headers, taken, g, k)]
  BY <1>1, LoopRuns DEF LoopTo
<1>3. f = [k \in 0..N |-> TokenStep(headers, taken, f, k)]
  BY <1>2 DEF TokenLoop, TokenStep
<1> HIDE DEF f
<1>4. 0 \in 0..N /\ \A k \in 1..N : k \in 0..N /\ k # 0
  BY <1>1
<1>5. f[0] = <<>>
  BY <1>3, <1>4 DEF TokenStep
<1>6. ASSUME NEW k \in 1..N
      PROVE  f[k] = Append(f[k - 1], TokenOf(headers, taken, f[k - 1], k))
  <2>1. f[k] = TokenStep(headers, taken, f, k)
    BY <1>3, <1>4
  <2> QED BY <1>4, <2>1 DEF TokenStep, TokenOf
<1> QED BY <1>5, <1>6 DEF f

\* Each column's token by the tokens of the columns before it.
LEMMA TokensEquation ==
  ASSUME NEW headers \in Seq(Texts), NEW taken
  PROVE  LET t == ColumnTokens(headers, taken)
         IN  t = [k \in 1..Len(headers) |-> TokenOf(headers, taken, t, k)]
<1> DEFINE N == Len(headers)
           f == TokenLoop(headers, taken)
           S == {TokenOf(headers, taken, f[k - 1], k) : k \in 1..N}
           t == f[N]
           Fits(n) == /\ f[n] \in Seq(S) /\ Len(f[n]) = n
                      /\ \A j \in 1..n : f[n][j] = TokenOf(headers, taken, f[j - 1], j)
           Bad == {n \in 0..N : ~Fits(n)}
<1>1. ColumnTokens(headers, taken) = t
  BY DEF ColumnTokens, TokenLoop
<1>2. N \in Nat
  OBVIOUS
<1> HIDE DEF N, f
<1>3. f[0] = <<>> /\ \A k \in 1..N : f[k] = Append(f[k - 1], TokenOf(headers, taken, f[k - 1], k))
  BY LoopEquation DEF N, f
<1>4. ASSUME Bad # {} PROVE FALSE
  <2>1. Bad \in SUBSET Nat
    BY <1>2
  <2> HIDE DEF Bad
  <2>2. PICK m \in Bad : \A n \in Bad : m <= n
    BY <1>4, <2>1, LeastElement
  <2>3. m \in 0..N /\ ~Fits(m) /\ (m # 0 => Fits(m - 1))
    BY <1>2, <2>2 DEF Bad
  <2>4. m # 0
    <3>1. f[0] \in Seq(S) /\ Len(f[0]) = 0
      <4> HIDE DEF S
      <4> QED BY <1>3, EmptySeq
    <3>2. \A j \in 1..0 : f[0][j] = TokenOf(headers, taken, f[j - 1], j)
      OBVIOUS
    <3>3. Fits(0)
      BY <3>1, <3>2
    <3> HIDE DEF Fits
    <3> QED BY <2>3, <3>3
  <2>5. m \in 1..N /\ m - 1 \in Nat
    BY <1>2, <2>3, <2>4
  <2> DEFINE e == TokenOf(headers, taken, f[m - 1], m)
  <2>6. e \in S /\ f[m] = Append(f[m - 1], e)
    BY <1>3, <2>5
  <2>7. /\ f[m - 1] \in Seq(S) /\ Len(f[m - 1]) = m - 1
        /\ \A j \in 1..m - 1 : f[m - 1][j] = TokenOf(headers, taken, f[j - 1], j)
    BY <2>3, <2>4
  <2> HIDE DEF S
  <2>8. /\ f[m] \in Seq(S) /\ Len(f[m]) = m - 1 + 1
        /\ \A j \in 1..m - 1 : f[m][j] = f[m - 1][j]
        /\ f[m][m - 1 + 1] = e
    <3> HIDE DEF e, Fits
    <3> QED BY <2>6, <2>7, AppendProperties
  <2>9. \A j \in 1..m : j \in 1..m - 1 \/ j = m
    BY <2>5
  <2>10. f[m][m] = e /\ Len(f[m]) = m
    BY <2>5, <2>8
  <2>11. \A j \in 1..m : f[m][j] = TokenOf(headers, taken, f[j - 1], j)
    BY <2>7, <2>8, <2>9, <2>10
  <2> QED BY <2>3, <2>8, <2>10, <2>11
<1>5. \A n \in 0..N : Fits(n)
  BY <1>4
<1>6. t \in Seq(S) /\ Len(t) = N
  BY <1>2, <1>5
<1>7. ASSUME NEW k \in 1..N PROVE t[k] = TokenOf(headers, taken, t, k)
  <2>1. N \in 0..N /\ k - 1 \in 0..N
    BY <1>2
  <2>2. t[k] = TokenOf(headers, taken, f[k - 1], k)
    BY <1>5, <2>1
  <2>3. ASSUME NEW j \in 1..k - 1 PROVE f[k - 1][j] = t[j]
    <3>1. j \in 1..N
      BY <1>2
    <3> QED BY <1>5, <2>1, <3>1
  <2> HIDE DEF t, Fits
  <2>4. {f[k - 1][j] : j \in 1..k - 1} = {t[j] : j \in 1..k - 1}
    BY <2>3
  <2> QED BY <2>2, <2>4 DEF TokenOf
<1>8. t = [k \in 1..N |-> t[k]]
  <2> HIDE DEF t, S
  <2> QED BY <1>6
<1> HIDE DEF t
<1> QED BY <1>1, <1>7, <1>8 DEF N

LEMMA BuiltinIsFinite == IsFiniteSet(BUILTIN_TOKENS)
<1>1. ASSUME NEW a, NEW b, NEW c, NEW d, NEW e PROVE IsFiniteSet({a, b, c, d, e})
  <2>1. IsFiniteSet({a} \cup {b})
    BY FS_Singleton, FS_AddElement
  <2>2. IsFiniteSet({a} \cup {b} \cup {c})
    BY <2>1, FS_AddElement
  <2>3. IsFiniteSet({a} \cup {b} \cup {c} \cup {d})
    BY <2>2, FS_AddElement
  <2>4. IsFiniteSet({a} \cup {b} \cup {c} \cup {d} \cup {e})
    BY <2>3, FS_AddElement
  <2>5. {a} \cup {b} \cup {c} \cup {d} \cup {e} = {a, b, c, d, e}
    OBVIOUS
  <2> QED BY <2>4, <2>5
<1> QED BY <1>1 DEF BUILTIN_TOKENS

\* The names used when a column is named are finitely many.
LEMMA UsedIsFinite ==
  ASSUME NEW taken, IsFiniteSet(taken), NEW t, NEW k \in Nat
  PROVE  IsFiniteSet(taken \cup {t[j] : j \in 1..k - 1})
<1> DEFINE I == 1..k - 1
           E == {t[j] : j \in I}
           f == [j \in I |-> t[j]]
<1>1. IsFiniteSet(I)
  BY FS_Interval
<1>2. f \in [I -> E] /\ \A e \in E : \E j \in I : f[j] = e
  OBVIOUS
<1> HIDE DEF f, E, I
<1>3. f \in Surjection(I, E)
  BY <1>2 DEF Surjection
<1>4. IsFiniteSet(E)
  BY <1>1, <1>3, FS_Surjection
<1>5. IsFiniteSet(taken \cup E)
  BY <1>4, FS_Union
<1> QED BY <1>5 DEF E, I

\* No token is taken or given twice.
LEMMA TokensDiffer ==
  ASSUME NEW headers \in Seq(Texts), NEW taken, IsFiniteSet(taken)
  PROVE  LET t == ColumnTokens(headers, taken)
         IN  \A j, k \in DOMAIN t :
                t[j] # <<>> => t[j] \notin taken /\ (j # k => t[j] # t[k])
<1> DEFINE t == ColumnTokens(headers, taken)
           N == Len(headers)
<1>1. N \in Nat /\ \A k \in 1..N : headers[k] \in Texts
  OBVIOUS
<1>2. t = [k \in 1..N |-> TokenOf(headers, taken, t, k)]
  BY TokensEquation
<1> HIDE DEF t
<1>3. DOMAIN t = 1..N /\ \A k \in 1..N : t[k] = TokenOf(headers, taken, t, k)
  BY <1>2
<1>4. ASSUME NEW k \in 1..N, t[k] # <<>>
      PROVE  t[k] \notin taken /\ \A j \in 1..k - 1 : t[j] # t[k]
  <2> DEFINE used == taken \cup {t[j] : j \in 1..k - 1}
  <2>1. t[k] = Unused(SafeToken(headers[k], k), used)
    BY <1>3, <1>4 DEF TokenOf
  <2>2. IsToken(SafeToken(headers[k], k))
    BY <1>1, SafeTokenIsToken
  <2>3. IsFiniteSet(used)
    <3>1. k \in Nat
      BY <1>1
    <3> QED BY <3>1, UsedIsFinite
  <2> HIDE DEF used
  <2>4. t[k] \notin used
    BY <2>1, <2>2, <2>3, UnusedIsUnused
  <2> QED BY <2>4 DEF used
<1>5. ASSUME NEW j \in 1..N, NEW k \in 1..N, t[j] # <<>>, j # k PROVE t[j] # t[k]
  <2>1. CASE k < j
    <3>1. k \in 1..j - 1
      BY <2>1
    <3> QED BY <1>4, <1>5, <3>1
  <2>2. CASE j < k
    <3>1. j \in 1..k - 1
      BY <2>2
    <3>2. t[k] # <<>> => t[j] # t[k]
      BY <1>4, <3>1
    <3> QED BY <1>5, <3>2
  <2> QED BY <1>5, <2>1, <2>2
<1>6. \A j, k \in DOMAIN t : t[j] # <<>> => t[j] \notin taken /\ (j # k => t[j] # t[k])
  BY <1>3, <1>4, <1>5
<1> QED BY <1>6 DEF t

\* Names that are taken besides make no difference if none of them is given.
LEMMA TokensAgree ==
  ASSUME NEW headers \in Seq(Texts), NEW few, NEW taken, IsFiniteSet(taken), few \subseteq taken,
         \A k \in DOMAIN ColumnTokens(headers, few) : ColumnTokens(headers, few)[k] \notin taken
  PROVE  ColumnTokens(headers, taken) = ColumnTokens(headers, few)
<1> DEFINE t == ColumnTokens(headers, taken)
           g == ColumnTokens(headers, few)
           N == Len(headers)
           Bad == {k \in 1..N : t[k] # g[k]}
<1>1. N \in Nat /\ \A k \in 1..N : headers[k] \in Texts
  OBVIOUS
<1>2. /\ t = [k \in 1..N |-> TokenOf(headers, taken, t, k)]
      /\ g = [k \in 1..N |-> TokenOf(headers, few, g, k)]
  BY TokensEquation
<1>3. \A k \in DOMAIN g : g[k] \notin taken
  OBVIOUS
<1> HIDE DEF t, g
<1>4. ASSUME Bad # {} PROVE FALSE
  <2>1. Bad \in SUBSET Nat
    BY <1>1
  <2> HIDE DEF Bad
  <2>2. PICK k \in Bad : \A j \in Bad : k <= j
    BY <1>4, <2>1, LeastElement
  <2>3. k \in 1..N /\ t[k] # g[k] /\ k \in Nat
    BY <2>2 DEF Bad
  <2>4. \A j \in 1..k - 1 : t[j] = g[j]
    <3>1. \A j \in 1..k - 1 : j \in 1..N /\ j \notin Bad
      BY <1>1, <2>2, <2>3
    <3> QED BY <3>1 DEF Bad
  <2> DEFINE base == SafeToken(headers[k], k)
             given == {g[j] : j \in 1..k - 1}
  <2>5. {t[j] : j \in 1..k - 1} = given
    BY <2>4
  <2>6. t[k] = IF headers[k] = Blank THEN <<>> ELSE Unused(base, taken \cup given)
    BY <1>2, <2>3, <2>5 DEF TokenOf
  <2>7. g[k] = IF headers[k] = Blank THEN <<>> ELSE Unused(base, few \cup given)
    BY <1>2, <2>3 DEF TokenOf
  <2>8. headers[k] # Blank
    <3> HIDE DEF base, given
    <3> QED BY <2>3, <2>6, <2>7
  <2>9. IsToken(base) /\ IsFiniteSet(taken \cup given) /\ IsFiniteSet(few \cup given)
    <3>1. IsFiniteSet(few)
      BY FS_Subset
    <3>2. IsToken(base)
      BY <1>1, <2>3, SafeTokenIsToken
    <3>3. IsFiniteSet(taken \cup given) /\ IsFiniteSet(few \cup given)
      BY <2>3, <3>1, UsedIsFinite
    <3> QED BY <3>2, <3>3
  <2> HIDE DEF base, given
  <2>10. g[k] \notin taken \cup given
    <3>1. g[k] \notin few \cup given
      BY <2>7, <2>8, <2>9, UnusedIsUnused
    <3>2. g[k] \notin taken
      BY <1>2, <1>3, <2>3
    <3> QED BY <3>1, <3>2
  <2>11. Unused(base, taken \cup given) = Unused(base, few \cup given)
    <3>1. few \cup given \subseteq taken \cup given
      OBVIOUS
    <3>2. Unused(base, few \cup given) \notin taken \cup given
      BY <2>7, <2>8, <2>10
    <3> QED BY <2>9, <3>1, <3>2, UnusedAmongMore
  <2> QED BY <2>3, <2>6, <2>7, <2>11
<1>5. \A k \in 1..N : t[k] = g[k]
  BY <1>4
<1>6. DOMAIN t = 1..N /\ DOMAIN g = 1..N /\ t = [k \in DOMAIN t |-> t[k]]
      /\ g = [k \in DOMAIN g |-> g[k]]
  BY <1>2
<1>7. t = g
  BY <1>5, <1>6
<1> QED BY <1>7 DEF t, g

\* ColumnNamesAgree: for every sheet and mapping the columns' variables are
\* distinct, and the guide told their names unless the mapping takes one.
THEOREM ColumnNamesHold == Spec => []ColumnNamesAgree
<1>1. ASSUME TypeInv PROVE ColumnNamesAgree
  <2> DEFINE o == batch.options
             sheet == SheetOf[batch.files["excel"]]
             headers == sheet[o.header_row]
             taken == BUILTIN_TOKENS \cup DOMAIN o.mapping
  <2> SUFFICES ASSUME batch # None, IsRead(batch)
               PROVE  LET t == Layout(headers, o).tokens
                          guide == Inspect(sheet, o.header_row)
                      IN  /\ \A j, k \in DOMAIN t :
                                t[j] # <<>> =>
                                    t[j] \notin taken /\ (j # k => t[j] # t[k])
                          /\ (\A k \in DOMAIN guide : guide[k] \notin taken) => t = guide
    BY DEF ColumnNamesAgree
  <2>1. /\ HeaderRow(sheet, o.header_row) # Refused
        /\ HeaderRow(sheet, o.header_row) = headers /\ o.header_row \in DOMAIN sheet
    BY DEF IsRead, IsReadable, HeaderRow
  <2>2. batch.files["excel"] \in ExcelFiles /\ IsFiniteSet(DOMAIN o.mapping)
    <3>1. BatchType
      BY <1>1, TypeInvParts
    <3>2. batch.files \in FilesWith({NoFile})
      BY <3>1 DEF BatchType
    <3>3. batch.files["excel"] \in ExcelFiles \cup {NoFile}
      BY <3>2, FilesTypes
    <3> QED BY <3>1, <3>3 DEF BatchType
  <2>3. headers \in Seq(Texts)
    <3>1. sheet \in Seq(Seq(Texts))
      BY <2>2, SheetsAssumption
    <3> HIDE DEF sheet
    <3> QED BY <2>1, <3>1
  <2>4. IsFiniteSet(taken)
    BY <2>2, BuiltinIsFinite, FS_Union
  <2>5. Layout(headers, o).tokens = ColumnTokens(headers, taken)
    BY DEF Layout
  <2>6. Inspect(sheet, o.header_row) = ColumnTokens(headers, BUILTIN_TOKENS)
    BY <2>1 DEF Inspect
  <2>7. BUILTIN_TOKENS \subseteq taken
    OBVIOUS
  <2> HIDE DEF o, sheet, headers, taken
  <2>8. \A j, k \in DOMAIN ColumnTokens(headers, taken) :
           LET t == ColumnTokens(headers, taken)
           IN  t[j] # <<>> => t[j] \notin taken /\ (j # k => t[j] # t[k])
    BY <2>3, <2>4, TokensDiffer
  <2>9. (\A k \in DOMAIN ColumnTokens(headers, BUILTIN_TOKENS) :
            ColumnTokens(headers, BUILTIN_TOKENS)[k] \notin taken) =>
          ColumnTokens(headers, taken) = ColumnTokens(headers, BUILTIN_TOKENS)
    BY <2>3, <2>4, <2>7, TokensAgree
  <2> QED BY <2>5, <2>6, <2>8, <2>9
<1> QED BY <1>1, Types, PTL
=============================================================================
