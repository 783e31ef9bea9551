# A verification project for bale_send_message

bale_send_message is a local Django dashboard that sends one message per row of an Excel sheet through the
Safir API of the Bale messenger.  This directory holds TLA+ models of the code under `src/`, TLC
configurations that check them on small instances, and TLAPS proofs of what holds for every instance.
Paths below are relative to `src/`; line numbers are of the commit in `src/`.

## 1. Inventory

| Part | Code | State it keeps | Operations |
|---|---|---|---|
| Processing thread | `core.py` `process_excel_batch` 871-1045, `views.py` `_run_batch_in_background` 37-46 | its own `MessageBatch` object, `seen`, loop position; in the database the batch row and one `MessageRecipient` row per sheet row | load flag, announce RUNNING, read, upload, per row: check, record, send, store result, pause; report, totals, final status; exception handler |
| Stop request | `views.py` `cancel_batch` 567-586, `core.py` `cancel_batch_immediately` 838-861 | its own `MessageBatch` object | test status, save CANCELLED and the flag, totals, report |
| Report and totals | `core.py` `write_report` 741-784, `_refresh_totals` 787-813 | the `.xlsx` file, the `total_*` columns | SELECT, then write |
| Safir client | `core.py` `BaleSafirClient` 592-738 | nothing but locals | `send_data` with retries, `send`, `upload_file` |
| Live status page | `views.py` `batch_live_status` 521-564, `batch_detail.html` 137-217 | polling timer, failures in a row, what the page shows | poll every 2 s until inactive or five failures |
| Sheet reading, message building, preview | `core.py` 80-557 | none (pure) | header row, column resolution, variable names, templates, rendering, ranges, preview |
| Dashboard and upload form | `views.py` 49-93, 220-440, `forms.py` 39-344 | stored files, signed upload tokens in the page, batch row | preview, create batch and start the thread on commit, offer the next range |
| Settings | `forms.py` 347-433, `views.py` 443-459, `models.py` 5-38, `core.py` 560-589 | one configuration row | read-modify-write of the row, fallback to env |
| Single test | `core.py` 1048-1124, `views.py` 462-489 | a batch of one row, in the request itself | create, send, report, totals, status |
| Command line | `send_bale_excel.py`, `core.py` `run_excel_batch` 1127-1167 | a batch | create the batch, processing in the foreground |
| Admin site | `admin.py` | the form of a row as it was opened | save all columns of the form |
| URLs, project settings, migrations | `urls.py`, `bale_safir_project/`, `migrations/` | - | Django's own behaviour |

The thread, every HTTP request and the admin share the SQLite database in autocommit mode
(`settings.py` asks for no atomic requests): every ORM call is a transaction of its own.  They also share the report files.
There is no lock, no queue and no supervisor: the thread is a daemon thread of the development server.

What is hard here: a stop request writes the same row, totals and report file as the thread, in several
statements (`core.py` 838-861 against 882-1043), and saving the report first cuts the file and then fills it; both decide by values read earlier; the thread can die at any
point; retries meet late or lost answers; the page's polls overlap and are answered from two queries; settings, next ranges
and whole batches are made from what was read, previewed or uploaded before.
The hazards of `PROJECT.json` list them by line.

What makes each part correct:
- processing: only rows that may be sent are sent, each once; a row is recorded before its message leaves; a run nobody stopped reports exactly what it did; the batch ends.
- stop: at most one more row; the page never goes back to "active"; what the operator is told is true, once the stop's first save is made.
- client: one delivery per request id; a transient outcome is final only when retries are used up; every call returns.
- live page: a page that says "over" counts the rows, and the polling stops.
- settings: an empty key field leaves the stored key alone; a send that was accepted finds what it needs when its thread starts.
- next range: consecutive batches of one file leave out no row and repeat none.
- preview: with duplicates skipped the number of messages it prices is an upper bound (without, it is short by the duplicates it tells); what it counts is what a full run records; what it could build, the batch builds.
- form: a batch is made of the files that were chosen, and no template of it names an unknown variable.
- columns: a mapped variable is its column; the guide on the page and the reading of the rows name columns alike.
- single test: it is closed, tells its result, and a stop of it stands.

## 2. Modules

| Module | What it is |
|---|---|
| `StoppableBatch` | abstract specification: what the batch page promises about a batch that may be stopped |
| `BatchLife` | the steps of one batch as other pages see it: rows recorded, `total_rows`, one stop request |
| `BatchProcessing` | the processing thread against any number of stop requests, with failures and restarts; implements both |
| `ReportFile` | pure operators: a report file that is opened and filled by several hands |
| `BatchClaims` | a statement of a test that the code does not keep |
| `MCBatchProcessing` | the small sheets TLC runs |
| `BatchProcessingProofs`, `BatchLedgerProofs` | proofs: the stop and the batch row; the messages, the recipient rows and what an end shows |
| `SafirClient`, `MCSafirClient`, `SafirClientProofs` | one `send_data` call against the network and Safir; instance, proofs |
| `SafirClaims` | what the repository's README says of retries and the code does not do |
| `LivePage`, `MCLivePage`, `LivePageProofs` | the page's polls and the server's answers around a `StoppableBatch`; instance, proofs |
| `SheetRows` | pure operators: range, limit, preview, the outcome of each row |
| `Dashboard`, `DashboardProofs` | one file sent in several batches, each a `BatchLife`; EXTENDS `SheetRows`; proofs |
| `DashboardClaims`, `MCDashboard` | the batch page's claim on the next range, small files |
| `SheetColumns` | pure operators: headers, selectors, variable names, the rows of a sheet |
| `MessageTemplates` | pure operators: templates, rendering, what makes a message impossible; EXTENDS `SheetColumns` |
| `UploadForm`, `MCUploadForm`, `UploadFormProofs` | the form, its tokens and what a batch keeps; EXTENDS `MessageTemplates`; instance, proofs |
| `SafirSettings`, `MCSafirSettings`, `SafirSettingsProofs` | settings requests and sends around the one configuration row; instance, proofs |
| `SingleTest`, `MCSingleTest`, `SingleTestProofs` | the test message against stop requests and an admin form; instance, proofs |

How they fit: `BatchProcessing` is the only module that knows the thread's statements.  It is shown to implement
`StoppableBatch`, which `LivePage` builds on, and (with one stop request) `BatchLife`, which `Dashboard` builds on.
`SafirClient` is the inside of `BatchProcessing!Send`, `UploadForm` of the form `Dashboard` submits, `SafirSettings!Accept` of
the condition on a real send.

### BatchProcessing

One action is one SQL statement, the opening of the report file or its filling.  `batch` is the database row with the columns the two sides write:
`status`, `cancel_requested`, `error_message` (which of the wordings), `finished` (`finished_at` is set),
`report_path` (set), `file_id` (set).  `recipients` is the sequence of `MessageRecipient` statuses; since each iteration of
the loop inserts exactly one row, the loop position is its length.  `report` is the file
(see `ReportFile`), `totals` the `total_*` columns.  `pc` names the thread's next statement; `mem_cancel`, `seen`,
`configured`, `result` are the thread's own values.  Each stop request has a `cancel_pc` and the rows it last read
(`cancel_view`).  `posted` and `late` are history: rows handed to Safir, and rows recorded or posted after a stop.

Reductions: the thread alone writes recipient rows, so its own SELECT and the write that follows are one
action; those of a stop request are two.  The several reads of the flag during a pause are one, because the
flag never goes back.  `cancelled or batch.cancel_requested` (line 1029) is `mem_cancel`, because `cancelled` is set only when the flag was read
true.  A row is a number (or `NoPhone`) and whether its message can be built (`_build_message_data` 405-481 raises
`ValueError` or not); `Job` is the sheet after range and limit.  `Read` picks `configured`
freely because the settings may change after the dashboard looked.  The thread and a stop request use the same
default report path; only direct calls of `process_excel_batch` in tests pass another.

`workbook.save` (line 784) opens the path, which cuts the file to nothing, and fills it: `WriteReport` and `FillReport` of the thread,
`CancelSaveReport` and `CancelFillReport` of a stop.  `ReportFile` says what is in the file: `whole` (it can be read), `shows` (what the last save
that ended meant it to show), `mixed` (a save opened the file while another had it open).  A save that ends alone leaves the
file whole; after overlapping saves it may be whole or torn, whichever last bytes won; one given up by a raise or a restart
leaves it cut.

Failures: `TryRaises` (any statement of the try block), `ThreadLost` (before it, or in the handler), `CancelRaises`
(any statement of a stop request, also between the opening and the filling of the report), `Restart` (the process dies with the thread and all requests in flight).
`MaxFaults` bounds them.  An unreadable sheet or a refused upload (`ReadOrUploadFails`) needs no fault.

`LifeContract` says that every step of it changes `LifeOf(c)`, what `BatchLife` keeps of a batch, by a step of
`BatchLife` or not at all.

### BatchLife and StoppableBatch

`StoppableBatch` knows whether the batch is active, whether a stop has been registered, and how many rows are recorded;
`grace` is the row in hand, recorded although the flag is set.  `BatchLife` adds how far the thread's end and the stop request are,
because both count rows in one statement and write `total_rows` in another.  `in_hand`, 0 or 1,
is its row in hand.  Its operators give the set of lives that may follow one, so that `Dashboard` can use them for each of its batches.

### SafirClient

`attempt`, `last_result` and `pc` are `send_data`'s.  `wire` holds the POSTs that may still arrive: a timeout leaves the POST
on its way, so it may reach Safir after its retry.  `Handle` is external: Safir takes a request id on once,
possibly without the success reaching the client (a gateway's 5xx, a lost answer), and answers 2xx without an error code only
to what it took on.  A 2xx answer of something else than Safir (a proxy, a wrong `send_url`) whose body
has no code is counted as SENT by the code (`_status` ignores `has_message_id`); the model leaves that server out.
`SafirClaims` states what README promises of 5xx, which `Transient` does not keep.

### LivePage

A poll is sent by the timer or at once, served by two queries (the batch row, then the counts of its recipients),
and shown when its answer arrives; nothing orders the answers of overlapping polls.  `timer` is the interval,
`failures` the count of `batch_detail.html` 205-212, `page` what the page says: whether the batch is active, the number of
rows, and which of the notes.  The batch takes the steps of `StoppableBatch`.  The list of recent rows is left out.

### SheetRows and Dashboard

`SheetRows` states what a range selects (`_apply_data_range` 384-402, then `limit`), what the preview says of it
(`build_excel_preview` 484-557) and what the loop of `process_excel_batch` makes of each row.  The preview remembers the number of
every row that has one; the loop remembers only numbers it sends, and never those of a row whose message
cannot be built.  The preview ignores `limit` and the "skip duplicates" field, and renders only the rows it shows.

`Dashboard` has the form on the page (`form`), the batches, and the
operator who submits what the form holds (`FilledIn`) or something else (`TypedIn`).  `Send` is `dashboard` with `action=send`; a
preview changes nothing and the file never changes, so it is a function of the form (`PreviewOf`).  `Reuse` is
GET `?reuse_batch=`, possible at any moment, also while the batch runs.  `Process`, `Stop`, `Refused` and `Fail` are the steps
of `BatchLife`.  History: `from` (the batch a form was offered by), `settled` (it was over then).

### SheetColumns, MessageTemplates, UploadForm

`SheetColumns` reads a sheet: which row holds the headers, which column a selector names (a header, letters or a
number), which variable each column becomes, in the two loops of the code that do it (`inspect_excel` for the guide,
`read_excel_recipients` for the rows), and what a row gives each variable.  A text is a model value with a table
of what the code can tell of it: its name as a variable, its letters as places in the alphabet, its value as a number, whether it is a phone
number, a URL or digits.  `LetterColumn` is the arithmetic that makes a column of the letters.
`MessageTemplates` knows a template by its variables, what it begins with (`lead`: a rendered text is a URL if its first part that is not empty is) and the kind of
the rest, and says for which reasons `_build_message_data`
refuses a message.

`UploadForm` follows one browser window: a submission is refused, previewed or sent; files are uploaded with it or come from
the signed tokens of the page, which may be too old or point at a removed file (`Expire`); `?reuse_batch=` makes new tokens;
the settings' global variables change in between and are kept with the batch.  `RunCommand` is the management command, which
makes its batch elsewhere, without global variables.  History: `chosen` (the files the operator means), `made` (what was at hand when the batch was made).
Left out: formats of single fields (URLs, JSON text, lengths), which only refuse more forms (`Refuse` may refuse any).

### SafirSettings

`row` is the configuration row with the two columns that decide whether a message can be sent, the key and the
bot id.  A settings request loads the row, validates the form, reads the old key in a SELECT of its own if the
field was empty (`forms.py` 426-429), and writes all columns.  A send reads the row when the dashboard accepts it
and again in its thread; both reads fall back to the environment where a column is empty, and to the environment
alone when the database is locked (`core.py` 573-577).  `newest` and `raced` are history.  Changes
through the admin site are outside.

### SingleTest

The request itself sends the message: `request.at` is its next statement.  The page of its batch has the stop button all the
same, and the admin site can open and save a form of its row, with every column but the two time stamps (`admin.py` 15-27); only the
latter can undo a stop.  Any number of stop requests (`Stops`) may be under way at once.  The test and a stop each write a report file of their own
name unless the stop read the path after the test had saved it (`core.py` 846, 1109), so `files` has both, each a `ReportFile`
that is opened and filled in two steps, and the row's `path` says which is offered.
History: `overlapped` (a stop began while another was under way), `overwritten`, `stopped`.

## 3. Runs

| Run | Shows |
|---|---|
| `batch_stop` | Two stop requests, one failure anywhere, also in the middle of a save of the report, five sheets (an unrendered row of a number that follows and is repeated and an invalid row; duplicates not skipped; a dry run with an attachment; two numbers with an attachment; no rows).  All safety and action properties, the inductive invariant `IInv`, and the refinement `Contract`. |
| `batch_settles` | One stop request, one failure, with fairness: the batch ends unless its thread dies; an accepted stop closes even a dead batch.  And `LifeContract`: the batch lives as `BatchLife` says. |
| `stop_is_overwritten` | violation: the test's expectation that a stopped batch ends CANCELLED fails when the stop comes after the last look at the flag. |
| `safir_call` | All answers of six HTTP statuses (one per branch of the two tables) and eight codes, up to two retries. |
| `server_errors_given_up` | violation: an HTTP 501 is given up at the first answer, although the repository's README says that 5xx is retried. |
| `live_page` | Two polls under way together, each of which may fail or be late, around a batch of up to three rows: a page that says "over" counts the rows (all but the one in hand if it was stopped), and the polling stops. |
| `note_is_overtaken` | violation: an older answer shown last makes the page promise updates that never come. |
| `dashboard_ranges` | Two batches of one file, typed in or offered as the next range, each with a stop request, one failure: consecutive ranges fit together, a stop costs one repeated row at most, and the preview agrees with what is recorded. |
| `next_range_skips` | violation: the next range offered leaves out rows of the file that a limit or a stop left of a range with an end (three rows, end 2, limit 1: after row 1 the next start is 3). |
| `campaign` | Eight forms over four sheets, with and without a global variable, uploaded, previewed, refused, reused and sent in any order: what a batch is made of is what was chosen, previewed and validated. |
| `settings` | Three settings requests around a send, with and without an environment, one locked database: the key can be lost in one race only, and an accepted send can be made. |
| `single_test` | A test against two stop requests at once and a stale admin form, one failure: it is closed and tells its result; the report offered can be read unless saves of one file overlapped, and shows the result unless stops overlapped; a registered stop stands. |

Bounds.  A stop interferes with the thread through the row, the totals, the report; two requests are enough for one to
be stale with respect to the other, and four rows for rows before, in and after the hand.  One failure reaches every
combination of one broken step with the rest; more faults only end more actors earlier.  Two retries
give a first, a middle and a last attempt.  `LivePage`: two polls are enough for answers out of order, and `failures`
reaches the code's limit of five, since polls follow each other without bound.  `Dashboard`: two batches make one step of a chain
(`MaxBatches`), one at a time (`MaxOpen`, since batches share no state but the form); files of three and four rows have
rows before, in and after a range that starts or ends at 2, with a duplicate, an invalid number, and a row that does not
render both on show and not (`PreviewRows` is 2 instead of the code's default), and a file of one row is shorter than the ranges.
`UploadForm`: the sheets have equal headers and one that looks like a name made from them, no headers, a title above the
headers with a header that is another column's letter and a column of two letters (AB), and no phone column; the forms have each message type, one that needs a
global variable, one that needs a file and one not confirmed; one batch at a time is enough, because batches share only files,
which do not change, and settings.  `SafirSettings`: one request that reads, one that writes in
between, one more.  `SingleTest` has two stop requests (interchangeable, hence the symmetry; two are enough for one to overtake the other) and one admin form at a time,
any number in a row.  The proofs have none of these bounds.

Deadlock is off where everything asked has been answered, or where a bound ends the model.

Fairness.  `Worker` is weakly fair: threads are scheduled, SQLite calls and HTTP calls have timeouts, the pause is finite.  Steps of an
accepted stop request are weakly fair for the same reason.  Pressing stop, failures and restarts are
not fair.  In `SafirClient` the client is fair (`requests.post` has a timeout), the network and Safir are not.  In `LivePage` the
timer is fair (`setInterval` fires again and again), and so are the serving and the showing of each poll: a `fetch`
ends in an answer or a failure, whichever it is.  The batch is not fair: `PollingStops` starts from one that is over.

Disagreements with what the repository says are the `findings` of `PROJECT.json`, each with its run.  These are contradicted by the
repository as well, but have no run of their own; the property named allows for them:
- `forms.py:354`, the help text of the key field: left empty, "the current key stays unchanged".  A request with an empty field can write an
  older key over one saved between its two reads (`raced` in `NewestKeyUnlessRaced`).
- `views.py:580` answers "the stop request was registered, but making the report failed" for every exception, also when the save that registers the stop
  failed.  `RepliesAreTrue` says what is true of each reply when that save went through.
- `batch_detail.html:98` offers "the complete Excel of this same report".  After a stop it can lack the row in hand or its result, and after overlapping
  or unfinished saves it cannot be opened (`StopReportIsNearlyComplete`); in a single test two overlapping stops can leave a
  report that says "pending" (`overlapped` in `DownloadShowsTheResult`).
- `README.md:60-61` says that each batch keeps a snapshot of the constants.  A batch of the management command has none (`core.py` 1142-1157, `RunCommand`); `AcceptedTemplateRenders` is about
  batches of the form.
- `views.py:115-116` prices `valid_rows` also when duplicates are not skipped (`EstimateCoversSends` bounds the sends by both counts then).

Nothing in the repository speaks of a thread that dies outside its try block, which leaves no message.

## 4. Proofs

`BatchProcessingProofs` proves, for all sheets, any set of stop requests and any `MaxFaults`:
- `TypeCorrect`: `TypeOK` with `RowInHand` (the row in hand is a row of the sheet; without it the number added to `seen` could be anything).
- `StopWithinOneRow`, `InactiveForever`, `KeepsContract`: from the inductive invariant `IInv`, which adds where the thread
  can be while no stop is registered (`StatusFollowsThread`) and what can already be late at each position
  (`LateFollowsThread`).  Neither property is inductive without them: a batch with a terminal status must be known to have no thread,
  and a late row must be known to be the last one before the flag is read.
- `KeepsContract` maps the steps to `StoppableBatch`: the thread taking up, recording or abandoning a row, a stop, an end, or a stutter.
- `RepliesTrue` and `ColumnsAgree` follow by induction over the same `IInv`; the second also needs that a flag the thread has not passed yet was
  set together with the status (`StopSetsStatus`); otherwise `CloseCancelled` could save an end without its message.

`BatchLedgerProofs` proves `OnlyLegitimateSends` and `LedgerIsTrue` from the inductive invariant `LedgerInv`, which says what `seen` holds
(`SeenFollowsRows`: the numbers of the recorded rows that render and have one) and ties the row being
sent to the thread's position: it is the last one, "pending", not posted before `Send` and posted or answered "no
configuration" after it, may be sent, and its number and attachment have been seen to.  All steps but five leave
the ledger and the posts alone (`Aside`); the five are a row recorded, a message handed over (by a send, or by one that
then raises or dies), a send without configuration, and a result stored.  The ends follow from both invariants:
`SeenStopEndsCancelled`, `UndisturbedEndIsExact`, `StopReportNearlyComplete`.  The last one has two invariants of its own: what a stop read
and what the last save meant to show lack the row in hand at most (`ReportInv`), and a file that is not whole is being written, was written by
saves that overlapped, or was given up by a failure (`FileInv`).  With these every safety property of `batch_stop` is proved.
`KeepsItsLife` proves `LifeContract` for one stop request: every step changes `LifeOf` by a step of `BatchLife` or not at all
(`NextLife`).  It needs that only the stop request sets the flag and that a thread that has returned or raised left a
final status (`LifeKnown`), and that `total_rows` counts the rows (`TallyCountsRows`).  `DashboardProofs` starts from `BatchLife`: together they
bound the next range by what the thread and the stop do.

`SafirClientProofs` proves `DeliveredOnce`, `SentMeansDelivered` and `TransientIsExhausted` for every set of HTTP statuses and every
`MaxRetries` (the third of what the code lists as temporary; README's 5xx is refuted by `server_errors_given_up`), from an invariant that ties the deliveries to the ids Safir knows and every success, seen or
reported, to a known id.

`LivePageProofs` proves `OverPageIsNearlyExact` for any set of polls, any limit of failures and any number of rows.  The invariant adds
what an answer on its way knows: one that says "over" was counted after the batch was over (the server reads the row
first), and from then on at most the row in hand is recorded (`Settled`).

`DashboardProofs` proves, for all files, bounds, limits and numbers of batches, stops and failures, that a batch records
no more than it selected (`TypeCorrect`), that the next range repeats at most one row (`NextRangeIsClose`), and that after a batch that went
through it starts at the very next row or the file is done (`LinksFit`).  The invariant has two parts.  `LifeInv` ties `total_rows` and
a count a stop has not written yet to the rows recorded: behind by the row in hand at most, exact if nobody
pressed stop; it is kept by every step of `BatchLife` (`LifeKept`).  `Offered` says that a form offered by a batch that was over
still tells that batch's next start, because such a batch keeps its total (`LifeFinal`).

The same module proves what is said over the rows and over the batches of a file:
- `EstimateHolds` and `FullRunPreviewed`: the numbers the loop remembers after k rows are, without the loop, the numbers of the first
  k rows that render and have one (`SeenIsKnownNumbers`), so a row that is sent is the first of its number among those; the row the
  preview counts for that number is the first of the whole range.  That gives an injection from the rows sent to the rows
  counted (`SendsAreCounted`, with duplicates skipped; without, the counted rows and duplicates are all that can be sent), whichever part of the range the limit or a stop leaves; if every row renders the two are the same rows (`OutcomesArePreviewed`).
- `ChainsAreSeamless`: by induction over the chain (`SeamKept`), where `ChainIsSeamless` alone is not enough: `Seam` adds that what was
  sent before a batch lies before its rows and fills them up to there, and `LinkFits` carries that to the next batch.  Its consequence `FileIsSentOnce`: a file sent
  from the first row on, the last batch without end and limit, has each row recorded by exactly one batch.

`UploadFormProofs` proves `ChosenFilesAreUsed` (the tokens of the page stand for the files chosen), `AcceptedFormRenders` (every variable of
an accepted template is a global variable of the batch, a mapped column or built in, and each row has these) and `PreviewHolds`
(what was previewed is kept until the page, its files or the settings change), for all sheets and forms; and that the files are of
their categories (`TypeCorrect`, with the finiteness of a batch's mapping, which naming the columns needs).  Of the sheet it
proves `MappingHolds` (selectors of one or two letters by `OneLetter` and `TwoLetters`, or by their header) and `ColumnNamesHold`: the loop over the columns can be run (`LoopRuns`) and gives each column the
token `TokenOf` of those before it (`TokensEquation`); a free number is always found, as finitely many names are used
(`SomeNumberIsFree`, by the pigeonhole principle); and more taken names change nothing unless one of them would have been given (`UnusedAmongMore`, `TokensAgree`).

Induction in these two modules: the library's induction theorems take an operator, so each induction looks for the least
counterexample instead (`LeastElement`, from the well-foundedness of < on Nat).  A recursive function is a CHOOSE: it satisfies its equation once a
function that does is shown, by a closed form (`KnownNumbers`, `ChainOf`) or built up to the last argument (`LoopExtends`).

`SafirSettingsProofs` proves `NewestKeyKept` and `AcceptedSendGoes` for any sets of requests, sends, keys and environments.  The
invariant adds `KeyInHand` (a request about to save holds a key of its own, or the stored one unless a key was saved since) and
`StillCanSend` (what an accepted send relies on between its two reads): `NewestKeyUnlessRaced` alone says nothing of the requests
about to save, and `AcceptedSendCanSend` nothing of the sends not started.

`SingleTestProofs` proves `RegisteredStopStands` for any results and any number of failures: the last save of the test overwrites the
status of a stop, never its flag, and never with "running".  `Progress` adds when the row exists.  `AnsweredTestTellsItsResult` and
`OfferedReportShowsTheResult` prove `ClosedTestTellsItsResult` and `DownloadShowsTheResult`: `ResultInv` says what the request and the stop hold of the result,
`CloseInv` what the totals and the end show once saved, `DownloadInv` where the row's path leads: a file that has been opened or that a stop has yet
to open (`PathInv`); the test's own report is written with the result only (`SingleInv`); and of stops that do not overlap the one that makes
the path lead to its own report reads the result for it (`BatchInv`), which fails for overlapping ones.  Both hold for any number of stop requests.

Assumptions: the named `ASSUME`s of the modules, and what is external in `SafirClient`.  Two of them say how sheets are
represented: `SheetsAssumption` of `UploadForm` (a sheet is a sequence of sequences of texts) and `TokensAssumption` (a token is a sequence: its word,
then the numbers appended to it).

Only model-checked: everything under fairness (`BatchSettles`, `StopClosesEvenADeadBatch`, `CallReturns`, `PollingStops`), as
liveness is out of the prover's reach.  Every invariant and action property of the passing runs is proved.

## 5. Plan

Done: every component of section 1 but the last row, as far as the list below.

Nothing of the plan is left; new behaviour of the code goes into the module of its component.

Not modelled:
- the list of recent rows, the pagination and the exports of recipients: reads only, no statement of the code relates them to each other;
- the layout of the workbook and of the pages;
- formats of single form fields;
- admin forms of recipients and settings (generated by Django; the one of a batch is in `SingleTest`);
- a server other than Safir that answers 2xx (see `SafirClient`);
- migrations, URLs and project settings: schema and configuration without behaviour of their own.
