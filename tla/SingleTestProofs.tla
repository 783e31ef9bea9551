-------------------------- MODULE SingleTestProofs --------------------------
(***************************************************************************)
(* The type invariant of the single test, that a stop of it stands, and    *)
(* what is shown of an answered one, for any set of results, any number of *)
(* stop requests under way together and any number of failures.            *)
(***************************************************************************)
EXTENDS SingleTest, TLAPS

RequestRecords == [at : {"create", "recipient", "send", "save", "path", "read",
                         "write", "fill", "count", "totals", "status", "answered", "dead"},
                   read : Status \cup {None}]
StopRecords == [at : {"idle", "save", "count", "totals", "read", "write", "fill"},
                read : Status \cup {None}, path : Paths \cup {None}]
FileRecords == [shows : Status \cup {None}, whole : BOOLEAN, mixed : BOOLEAN]

Inv == TypeOK /\ Progress /\ StopStands

LEMMA NoneIsNoRow == None \notin Row
BY NoneAssumption

\* What is known of the records.
LEMMA FieldsOf ==
    ASSUME TypeOK
    PROVE  /\ row # None => row \in Row
           /\ request \in RequestRecords
           /\ request = [at |-> request.at, read |-> request.read]
           /\ stopping \in [Stops -> StopRecords]
           /\ \A s \in Stops : stopping[s] \in StopRecords
           /\ files \in [Paths -> FileRecords]
           /\ \A p \in Paths : files[p] \in FileRecords
BY DEF TypeOK, RequestRecords, StopRecords, FileRecords

\* Opening a report file, and filling it.
LEMMA OpenedIs ==
    ASSUME NEW f \in FileRecords, NEW busy \in BOOLEAN
    PROVE  /\ Opened(f, busy) \in FileRecords
           /\ Opened(f, busy).shows = f.shows
           /\ Opened(f, busy).whole = FALSE
BY DEF Opened, FileRecords

LEMMA FilledIs ==
    ASSUME NEW f \in FileRecords, NEW busy \in BOOLEAN,
           NEW content \in Status \cup {None}, NEW g \in Filled(f, content, busy)
    PROVE  g \in FileRecords /\ g.shows = content /\ (g.whole \/ g.mixed)
<1>1. PICK w \in BOOLEAN :
         /\ g = [f EXCEPT !.shows = content, !.whole = w]
         /\ w \/ f.mixed
  BY DEF Filled
<1> QED BY <1>1 DEF FileRecords

\* The record of stop s has become v, the others are as they were.
Moved(s, v) ==
    /\ stopping' \in [Stops -> StopRecords]
    /\ stopping'[s] = v
    /\ \A t \in Stops : t # s => stopping'[t] = stopping[t]

LEMMA MovedBy ==
    ASSUME TypeOK, NEW s \in Stops, NEW v \in StopRecords,
           stopping' = [stopping EXCEPT ![s] = v]
    PROVE  Moved(s, v)
BY FieldsOf DEF Moved

StepsTo(s, from, to, read) ==
    /\ stopping[s].at = from
    /\ Moved(s, [at |-> to, read |-> read, path |-> stopping[s].path])

\* The steps of a stop, one line per action.
LEMMA StopMoves ==
    ASSUME TypeOK, Progress, NEW s \in Stops
    PROVE  /\ StopRead(s) =>
                 /\ stopping[s].at = "idle" /\ row \in Row
                 /\ \E p \in Paths :
                       /\ p = row.path \/ (row.path = None /\ p = "batch")
                       /\ Moved(s, [at |-> "save", read |-> None, path |-> p])
           /\ StopSave(s) => StepsTo(s, "save", "count", None)
           /\ StopCount(s) => StepsTo(s, "count", "totals", recipient)
           /\ StopTotals(s) => StepsTo(s, "totals", "read", None)
           /\ StopReport(s) => StepsTo(s, "read", "write", recipient)
           /\ StopWrite(s) => StepsTo(s, "write", "fill", stopping[s].read)
           /\ StopFill(s) => stopping[s].at = "fill" /\ Moved(s, NoStop)
           /\ StopDies(s) => stopping[s].at # "idle" /\ Moved(s, NoStop)
<1> DEFINE r == stopping[s]
<1>0. /\ r \in StopRecords /\ recipient \in Status \cup {None}
      /\ r.read \in Status \cup {None} /\ r.path \in Paths \cup {None}
      /\ None \in Status \cup {None}
  BY FieldsOf DEF TypeOK, StopRecords
<1>1. ASSUME NEW from, NEW to \in {"count", "totals", "read", "write", "fill"},
             NEW read \in Status \cup {None}, r.at = from,
             stopping' = [stopping EXCEPT ![s] = [at |-> to, read |-> read, path |-> r.path]]
      PROVE  StepsTo(s, from, to, read)
  <2>1. [at |-> to, read |-> read, path |-> r.path] \in StopRecords
    BY <1>0 DEF StopRecords
  <2> QED BY <1>1, <2>1, MovedBy DEF StepsTo
<1>2. ASSUME stopping' = [stopping EXCEPT ![s] = NoStop]
      PROVE  Moved(s, NoStop)
  <2>1. NoStop \in StopRecords BY DEF NoStop, StopRecords
  <2> QED BY <1>2, <2>1, MovedBy
<1>3. ASSUME StopRead(s)
      PROVE  /\ stopping[s].at = "idle" /\ row \in Row
             /\ \E p \in Paths :
                   /\ p = row.path \/ (row.path = None /\ p = "batch")
                   /\ Moved(s, [at |-> "save", read |-> None, path |-> p])
  <2>1. row \in Row BY <1>3, FieldsOf DEF StopRead
  <2>2. PICK p \in Paths :
           /\ p = row.path \/ (row.path = None /\ p = "batch")
           /\ p = IF row.path = None THEN "batch" ELSE row.path
    BY <2>1 DEF Row, Paths
  <2>3. [at |-> "save", read |-> None, path |-> p] \in StopRecords
    BY DEF StopRecords
  <2>4. stopping' = [stopping EXCEPT ![s] = [at |-> "save", read |-> None, path |-> p]]
    BY <1>3, <2>2 DEF StopRead
  <2>5. Moved(s, [at |-> "save", read |-> None, path |-> p])
    BY <2>3, <2>4, MovedBy
  <2> QED BY <1>3, <2>1, <2>2, <2>5 DEF StopRead
<1>4. StopSave(s) => StepsTo(s, "save", "count", None)
  BY <1>0, <1>1 DEF StopSave, StopStep
<1>5. StopCount(s) => StepsTo(s, "count", "totals", recipient)
  BY <1>0, <1>1 DEF StopCount, StopStep
<1>6. StopTotals(s) => StepsTo(s, "totals", "read", None)
  BY <1>0, <1>1 DEF StopTotals, StopStep
<1>7. StopReport(s) => StepsTo(s, "read", "write", recipient)
  BY <1>0, <1>1 DEF StopReport, StopStep
<1>8. StopWrite(s) => StepsTo(s, "write", "fill", stopping[s].read)
  BY <1>0, <1>1 DEF StopWrite, StopStep
<1>9. StopFill(s) => stopping[s].at = "fill" /\ Moved(s, NoStop)
  BY <1>2 DEF StopFill
<1>10. StopDies(s) => stopping[s].at # "idle" /\ Moved(s, NoStop)
  BY <1>2 DEF StopDies
<1> QED BY <1>3, <1>4, <1>5, <1>6, <1>7, <1>8, <1>9, <1>10

\* What the four steps on files do to them.
FileWritten(p, open, content) ==
    /\ files' \in [Paths -> FileRecords]
    /\ IF open THEN files'[p].shows = files[p].shows /\ ~files'[p].whole
       ELSE files'[p].shows = content /\ (files'[p].whole \/ files'[p].mixed)
    /\ \A q \in Paths : q # p => files'[q] = files[q]

LEMMA FileSteps ==
    ASSUME TypeOK, Progress
    PROVE  /\ WriteReport => FileWritten("single", TRUE, None)
           /\ FillReport => FileWritten("single", FALSE, request.read)
           /\ \A s \in Stops :
                 LET p == stopping[s].path IN
                 /\ StopWrite(s) => p \in Paths /\ FileWritten(p, TRUE, None)
                 /\ StopFill(s) =>
                      p \in Paths /\ FileWritten(p, FALSE, stopping[s].read)
<1>1. ASSUME NEW p \in Paths, NEW busy \in BOOLEAN,
             files' = [files EXCEPT ![p] = Opened(files[p], busy)]
      PROVE  FileWritten(p, TRUE, None)
  <2>1. files \in [Paths -> FileRecords] /\ files[p] \in FileRecords
    BY FieldsOf
  <2>2. /\ Opened(files[p], busy) \in FileRecords
        /\ Opened(files[p], busy).shows = files[p].shows
        /\ Opened(files[p], busy).whole = FALSE
    BY <2>1, OpenedIs
  <2> QED BY <1>1, <2>1, <2>2 DEF FileWritten
<1>2. ASSUME NEW p \in Paths, NEW busy \in BOOLEAN,
             NEW content \in Status \cup {None},
             \E file \in Filled(files[p], content, busy) :
                files' = [files EXCEPT ![p] = file]
      PROVE  FileWritten(p, FALSE, content)
  <2>1. files \in [Paths -> FileRecords] /\ files[p] \in FileRecords
    BY FieldsOf
  <2>2. PICK g \in Filled(files[p], content, busy) : files' = [files EXCEPT ![p] = g]
    BY <1>2
  <2>3. g \in FileRecords /\ g.shows = content /\ (g.whole \/ g.mixed)
    BY <2>1, FilledIs
  <2> QED BY <2>1, <2>2, <2>3 DEF FileWritten
<1>3. /\ \A p : TestIsWriting(p) \in BOOLEAN
      /\ \A S, p : StopIsWriting(S, p) \in BOOLEAN
  BY DEF TestIsWriting, StopIsWriting
<1>4. "single" \in Paths /\ request.read \in Status \cup {None}
  BY FieldsOf DEF Paths, RequestRecords
<1>5. WriteReport => FileWritten("single", TRUE, None)
  BY <1>1, <1>3, <1>4 DEF WriteReport
<1>6. FillReport => FileWritten("single", FALSE, request.read)
  BY <1>2, <1>3, <1>4 DEF FillReport
<1>7. ASSUME NEW s \in Stops, StopWrite(s)
      PROVE  stopping[s].path \in Paths /\ FileWritten(stopping[s].path, TRUE, None)
  <2>1. stopping[s].path \in Paths
    BY <1>7, StopMoves DEF StepsTo, Progress
  <2> DEFINE p == stopping[s].path
             busy == TestIsWriting(p) \/ StopIsWriting(Stops \ {s}, p)
  <2>2. files' = [files EXCEPT ![p] = Opened(files[p], busy)] /\ busy \in BOOLEAN
    BY <1>7 DEF StopWrite
  <2> HIDE DEF busy
  <2> QED BY <1>1, <2>1, <2>2
<1>8. ASSUME NEW s \in Stops, StopFill(s)
      PROVE  stopping[s].path \in Paths
             /\ FileWritten(stopping[s].path, FALSE, stopping[s].read)
  <2>1. stopping[s].path \in Paths /\ stopping[s].read \in Status \cup {None}
    BY <1>8, StopMoves, FieldsOf DEF Progress, StopRecords
  <2> DEFINE p == stopping[s].path
             busy == TestIsWriting(p) \/ StopIsWriting(Stops \ {s}, p)
  <2>2. /\ \E file \in Filled(files[p], stopping[s].read, busy) :
              files' = [files EXCEPT ![p] = file]
        /\ busy \in BOOLEAN
    BY <1>8 DEF StopFill
  <2> HIDE DEF busy
  <2> QED BY <1>2, <2>1, <2>2
<1> QED BY <1>5, <1>6, <1>7, <1>8

LEMMA InitInv == Init => Inv
<1> SUFFICES ASSUME Init PROVE Inv
  OBVIOUS
<1>1. 0 \in 0..MaxFaults BY MaxFaultsAssumption
<1>2. /\ row = None /\ recipient = None /\ form = None
      /\ files = [p \in Paths |-> NoReport(None)]
      /\ request = [at |-> "create", read |-> None]
      /\ stopping = [s \in Stops |-> NoStop]
      /\ overwritten = FALSE /\ overlapped = FALSE /\ stopped = FALSE /\ faults = 0
  BY DEF Init
<1>3. TypeOK
  <2>1. NoReport(None) \in FileRecords BY DEF NoReport, FileRecords
  <2>2. NoStop \in StopRecords BY DEF NoStop, StopRecords
  <2>3. request \in RequestRecords BY <1>2 DEF RequestRecords
  <2>4. files \in [Paths -> FileRecords] /\ stopping \in [Stops -> StopRecords]
    BY <1>2, <2>1, <2>2
  <2> QED BY <1>1, <1>2, <2>3, <2>4 DEF TypeOK, FileRecords, StopRecords, RequestRecords
<1>4. Progress BY <1>2 DEF Progress, NoStop
<1> QED BY <1>2, <1>3, <1>4 DEF Inv, StopStands

\* A statement that writes columns of the row and leaves a stop alone.
LEMMA RowWritten ==
    ASSUME Inv, row \in Row, row' \in Row, row'.cancel = row.cancel,
           row'.status # "running" \/ row'.status = row.status,
           row'.finished \/ row'.finished = row.finished
    PROVE  /\ row' \in Row \cup {None} /\ row # None /\ row' # None
           /\ (stopped /\ ~overwritten) =>
                 row'.cancel /\ row'.status # "running" /\ row'.finished
<1>1. row # None /\ row' # None BY NoneIsNoRow
<1> QED BY <1>1 DEF Inv, StopStands, Row

\* The statements of the test itself.
LEMMA RequestInv == Inv /\ Request => Inv'
<1> SUFFICES ASSUME Inv, Request PROVE Inv'
  OBVIOUS
<1> USE DEF Inv, Step, others, history
<1>1. Started \in Row BY DEF Started, Row
<1>2. CASE CreateBatch
  <2>1. /\ row' = Started /\ request.at = "create"
        /\ request' = [at |-> "recipient", read |-> None]
        /\ UNCHANGED <<recipient, files, others>>
    BY <1>2 DEF CreateBatch
  <2>2. TypeOK' BY <1>1, <2>1 DEF TypeOK
  <2>3. row' # None BY <1>1, <2>1, NoneIsNoRow
  <2>4. ~stopped /\ \A s \in Stops : stopping[s].at = "idle" BY <2>1 DEF Progress
  <2> QED BY <2>1, <2>2, <2>3, <2>4 DEF Progress, StopStands
<1>3. CASE CreateRecipient
  BY <1>3 DEF CreateRecipient, TypeOK, Progress, StopStands, Status
<1>4. CASE SendMessage
  BY <1>4 DEF SendMessage, TypeOK, Progress, StopStands, Status
<1>5. CASE SaveRecipient
  BY <1>5 DEF SaveRecipient, TypeOK, Progress, StopStands
<1>6. CASE SavePath
  <2>1. row \in Row BY <1>6 DEF SavePath, TypeOK, Progress
  <2>2. row' \in Row BY <1>6, <2>1 DEF SavePath, Row, Paths
  <2>3. /\ row'.cancel = row.cancel
        /\ row'.status # "running" \/ row'.status = row.status
        /\ row'.finished \/ row'.finished = row.finished
    BY <1>6, <2>1 DEF SavePath, Row, Paths
  <2>4. /\ request' = [at |-> request'.at, read |-> None]
        /\ UNCHANGED <<recipient, files, others>>
        /\ request.at \notin {"create", "dead"}
        /\ request'.at \in {"read", "status", "answered"}
    BY <1>6 DEF SavePath
  <2>5. TypeOK' BY <2>1, <2>2, <2>4, RowWritten DEF TypeOK
  <2> QED BY <2>1, <2>2, <2>3, <2>4, <2>5, RowWritten DEF Progress, StopStands
<1>7. CASE ReadForReport
  BY <1>7 DEF ReadForReport, TypeOK, Progress, StopStands
<1>8. CASE WriteReport
  <2>1. files' \in [Paths -> FileRecords] BY <1>8, FileSteps DEF FileWritten
  <2>2. request' \in RequestRecords /\ request.at \notin {"create", "dead"}
        /\ request'.at \notin {"create", "dead"} /\ UNCHANGED <<row, recipient, others>>
    BY <1>8, FieldsOf DEF WriteReport, RequestRecords
  <2>3. TypeOK' BY <2>1, <2>2 DEF TypeOK, FileRecords, RequestRecords
  <2> QED BY <2>2, <2>3 DEF Progress, StopStands
<1>9. CASE FillReport
  <2>1. files' \in [Paths -> FileRecords] BY <1>9, FileSteps DEF FileWritten
  <2>2. request' \in RequestRecords /\ request.at \notin {"create", "dead"}
        /\ request'.at \notin {"create", "dead"} /\ UNCHANGED <<row, recipient, others>>
    BY <1>9, FieldsOf DEF FillReport, RequestRecords
  <2>3. TypeOK' BY <2>1, <2>2 DEF TypeOK, FileRecords, RequestRecords
  <2> QED BY <2>2, <2>3 DEF Progress, StopStands
<1>10. CASE Count
  BY <1>10 DEF Count, TypeOK, Progress, StopStands
<1>11. CASE SaveTotals
  <2>1. row \in Row BY <1>11 DEF SaveTotals, TypeOK, Progress
  <2>2. row' \in Row BY <1>11, <2>1 DEF SaveTotals, Row, TypeOK
  <2>3. /\ row'.cancel = row.cancel
        /\ row'.status # "running" \/ row'.status = row.status
        /\ row'.finished \/ row'.finished = row.finished
    BY <1>11, <2>1 DEF SaveTotals, Row, TypeOK
  <2>4. /\ request' = [at |-> request'.at, read |-> None]
        /\ UNCHANGED <<recipient, files, others>>
        /\ request.at \notin {"create", "dead"}
        /\ request'.at \in {"read", "status", "answered"}
    BY <1>11 DEF SaveTotals
  <2>5. TypeOK' BY <2>1, <2>2, <2>4, RowWritten DEF TypeOK
  <2> QED BY <2>1, <2>2, <2>3, <2>4, <2>5, RowWritten DEF Progress, StopStands
<1>12. CASE Close
  <2>1. row \in Row BY <1>12 DEF Close, TypeOK, Progress
  <2>2. row' \in Row BY <1>12, <2>1 DEF Close, Row, StatusOf, ErrorOf
  <2>3. /\ row'.cancel = row.cancel
        /\ row'.status # "running" \/ row'.status = row.status
        /\ row'.finished \/ row'.finished = row.finished
    BY <1>12, <2>1 DEF Close, Row, StatusOf, ErrorOf
  <2>4. /\ request' = [at |-> request'.at, read |-> None]
        /\ UNCHANGED <<recipient, files, others>>
        /\ request.at \notin {"create", "dead"}
        /\ request'.at \in {"read", "status", "answered"}
    BY <1>12 DEF Close
  <2>5. TypeOK' BY <2>1, <2>2, <2>4, RowWritten DEF TypeOK
  <2> QED BY <2>1, <2>2, <2>3, <2>4, <2>5, RowWritten DEF Progress, StopStands
<1>13. CASE RequestDies
  <2>1. faults' \in 0..MaxFaults BY <1>13, MaxFaultsAssumption DEF RequestDies, TypeOK
  <2> QED BY <1>13, <2>1 DEF RequestDies, TypeOK, Progress, StopStands
<1> QED BY <1>2, <1>3, <1>4, <1>5, <1>6, <1>7, <1>8, <1>9, <1>10, <1>11, <1>12, <1>13
        DEF Request

\* The statements of a stop request.
LEMMA StopKeepsStops ==
    ASSUME Inv, NEW s \in Stops, Stop(s)
    PROVE  /\ stopping' \in [Stops -> StopRecords]
           /\ \A t \in Stops : stopping'[t].at # "idle" => stopping'[t].path \in Paths
           /\ row # None
<1> USE DEF Inv
<1>1. ASSUME NEW v, Moved(s, v), v.at # "idle" => v.path \in Paths
      PROVE  /\ stopping' \in [Stops -> StopRecords]
             /\ \A t \in Stops : stopping'[t].at # "idle" => stopping'[t].path \in Paths
  BY <1>1 DEF Moved, Progress
<1>2. CASE StopRead(s)
  <2>1. PICK p \in Paths : Moved(s, [at |-> "save", read |-> None, path |-> p])
    BY <1>2, StopMoves
  <2> QED BY <1>1, <1>2, <2>1 DEF StopRead
<1>3. CASE ~StopRead(s)
  <2>1. stopping[s].at # "idle"
    BY <1>3, StopMoves DEF Stop, StepsTo
  <2>2. row # None /\ stopping[s].path \in Paths
    BY <2>1 DEF Progress
  <2>3. CASE StopFill(s) \/ StopDies(s)
    BY <1>1, <2>2, <2>3, StopMoves DEF NoStop
  <2>4. ASSUME NEW from, NEW to, NEW read, StepsTo(s, from, to, read)
        PROVE  /\ stopping' \in [Stops -> StopRecords]
               /\ \A t \in Stops : stopping'[t].at # "idle" => stopping'[t].path \in Paths
    BY <1>1, <2>2, <2>4 DEF StepsTo
  <2>5. CASE \/ StopSave(s) \/ StopCount(s) \/ StopTotals(s) \/ StopReport(s) \/ StopWrite(s)
    BY <2>2, <2>4, <2>5, StopMoves
  <2> QED BY <1>3, <2>2, <2>3, <2>5 DEF Stop
<1> QED BY <1>2, <1>3

LEMMA StopInv == ASSUME NEW s \in Stops PROVE Inv /\ Stop(s) => Inv'
<1> SUFFICES ASSUME Inv, Stop(s) PROVE Inv'
  OBVIOUS
<1> USE DEF Inv, rest, history
<1>1. /\ stopping' \in [Stops -> StopRecords]
      /\ \A t \in Stops : stopping'[t].at # "idle" => stopping'[t].path \in Paths
      /\ row # None /\ row \in Row
  BY StopKeepsStops, FieldsOf
<1>2. CASE StopSave(s)
  <2>1. stopping[s].path \in Paths BY <1>2, StopMoves DEF StepsTo, Progress
  <2>2. row' \in Row BY <1>1, <1>2, <2>1 DEF StopSave, Row
  <2>3. row'.cancel /\ row'.status # "running" /\ row'.finished
    BY <1>1, <1>2 DEF StopSave, Row
  <2>4. row' # None BY <2>2, NoneIsNoRow
  <2>5. stopped' = TRUE /\ UNCHANGED <<recipient, files, overlapped, rest>>
    BY <1>2 DEF StopSave
  <2>6. TypeOK' BY <1>1, <2>2, <2>5 DEF TypeOK, StopRecords
  <2> QED BY <1>1, <2>3, <2>4, <2>5, <2>6 DEF Progress, StopStands
<1>3. CASE StopTotals(s)
  <2>1. stopping[s].read \in Status \cup {None} BY FieldsOf DEF StopRecords
  <2>2. row' \in Row BY <1>1, <1>3, <2>1 DEF StopTotals, Row
  <2>3. /\ row'.cancel = row.cancel /\ row'.status = row.status
        /\ row'.finished = row.finished
    BY <1>1, <1>3 DEF StopTotals, Row
  <2>4. UNCHANGED <<recipient, files, overlapped, stopped, rest>>
    BY <1>3 DEF StopTotals
  <2>5. TypeOK' BY <1>1, <2>2, <2>4 DEF TypeOK, StopRecords
  <2> QED BY <1>1, <2>2, <2>3, <2>4, <2>5, RowWritten DEF Progress, StopStands
<1>4. CASE StopRead(s) \/ StopCount(s) \/ StopReport(s)
  <2>1. overlapped' \in BOOLEAN /\ UNCHANGED <<row, recipient, files, stopped, rest>>
    BY <1>4 DEF StopRead, StopCount, StopReport, TypeOK
  <2>2. TypeOK' BY <1>1, <2>1 DEF TypeOK, StopRecords
  <2> QED BY <1>1, <2>1, <2>2 DEF Progress, StopStands
<1>5. CASE StopWrite(s) \/ StopFill(s)
  <2>1. files' \in [Paths -> FileRecords] BY <1>5, FileSteps DEF FileWritten
  <2>2. UNCHANGED <<row, recipient, overlapped, stopped, rest>>
    BY <1>5 DEF StopWrite, StopFill
  <2>3. TypeOK' BY <1>1, <2>1, <2>2 DEF TypeOK, StopRecords, FileRecords
  <2> QED BY <1>1, <2>2, <2>3 DEF Progress, StopStands
<1>6. CASE StopDies(s)
  <2>1. faults' \in 0..MaxFaults BY <1>6, MaxFaultsAssumption DEF StopDies, TypeOK
  <2>2. UNCHANGED <<row, recipient, files, request, form, history>>
    BY <1>6 DEF StopDies
  <2>3. TypeOK' BY <1>1, <2>1, <2>2 DEF TypeOK, StopRecords
  <2> QED BY <1>1, <2>2, <2>3 DEF Progress, StopStands
<1> QED BY <1>2, <1>3, <1>4, <1>5, <1>6 DEF Stop

\* The admin form: a save that changes nothing overwrites nothing.
LEMMA AdminInv == Inv /\ (AdminOpen \/ AdminSave) => Inv'
<1> SUFFICES ASSUME Inv, AdminOpen \/ AdminSave PROVE Inv'
  OBVIOUS
<1> USE DEF Inv, history
<1>1. CASE AdminOpen
  BY <1>1 DEF AdminOpen, TypeOK, Progress, StopStands
<1>2. CASE AdminSave
  <2>1. row # None /\ form \in Row BY <1>2 DEF AdminSave, TypeOK, Progress
  <2>2. row \in Row BY <2>1 DEF TypeOK
  <2>3. row' \in Row BY <1>2, <2>1, <2>2 DEF AdminSave, Row
  <2>4. /\ overwritten' = (overwritten \/ row' # row) /\ form' = None
        /\ UNCHANGED <<recipient, files, request, stopping, overlapped, stopped, faults>>
    BY <1>2 DEF AdminSave
  <2>5. row' # None BY <2>3, NoneIsNoRow
  <2>6. TypeOK' BY <2>3, <2>4 DEF TypeOK
  <2>7. Progress' BY <2>1, <2>4, <2>5 DEF Progress
  <2>8. StopStands' BY <2>4 DEF StopStands, TypeOK
  <2> QED BY <2>6, <2>7, <2>8
<1> QED BY <1>1, <1>2

LEMMA NextInv == Inv /\ [Next]_vars => Inv'
<1>1. Inv /\ UNCHANGED vars => Inv'
  BY DEF Inv, TypeOK, Progress, StopStands, vars, history
<1> QED BY <1>1, RequestInv, StopInv, AdminInv DEF Next

\* Every value keeps its type, also the report's path in the row.
THEOREM TypeCorrect == Spec => []TypeOK
<1>1. Inv => TypeOK BY DEF Inv
<1> QED BY InitInv, NextInv, <1>1, PTL DEF Spec

\* views.py 583: a stop that was registered stands, whatever the test writes
\* afterwards, unless an admin form from before is saved.
THEOREM RegisteredStopStands == Spec => []StopStands
<1>1. Inv => StopStands BY DEF Inv
<1> QED BY InitInv, NextInv, <1>1, PTL DEF Spec

-----------------------------------------------------------------------------
(* What an answered test shows.                                            *)

\* The last statements, each after the one named has been made.
PathSaved == {"read", "write", "fill", "count", "totals", "status", "answered"}
ReportWritten == {"count", "totals", "status", "answered"}
Saved == {"path"} \cup PathSaved

\* The recipient's status goes from None to "pending" to the result; the test
\* writes what it is, a stop and a report file what it is or was.
ResultInv ==
    /\ request.at \in {"create", "recipient"} => recipient = None
    /\ request.at \in {"send", "save"} => recipient = "pending"
    /\ request.at = "save" => request.read \in Results
    /\ request.at \in Saved => recipient \in Results
    /\ request.at \in {"write", "fill", "totals"} => request.read = recipient
    /\ \A s \in Stops :
          /\ stopping[s].at \in {"count", "totals", "read", "write", "fill"} => stopped
          /\ stopping[s].at \in {"totals", "write", "fill"} =>
                stopping[s].read \in {None, "pending", recipient}
    /\ \A p \in Paths : files[p].shows \in {None, "pending", recipient}

TotalsShown ==
    row.finished /\ (row.totals = recipient \/ (stopped /\ row.totals \in {None, "pending"}))

EndShown ==
    <<row.status, row.error>> \in
        {<<StatusOf(recipient), ErrorOf(recipient)>>} \cup
        (IF stopped THEN {<<"cancelled", "stopped">>} ELSE {})

CloseInv ==
    ~overwritten =>
        /\ request.at \in {"status", "answered"} => TotalsShown
        /\ request.at = "answered" => EndShown

\* Stop s is at one of the positions P and works on the file p.
On(s, P, p) == stopping[s].at \in P /\ stopping[s].path = p

\* Once a file was opened it can be read, or was mixed, or is being written.
Touched(p) ==
    files[p].whole \/ files[p].mixed \/ TestIsWriting(p) \/ StopIsWriting(Stops, p)

\* The row's path leads to a file that has been opened, or will be.
PathInv ==
    /\ request.at \in PathSaved => row.path \in Paths
    /\ request.at \in {"fill"} \cup ReportWritten => Touched("single")
    /\ request.at \in PathSaved /\ row.path = "batch" =>
          \/ \E s \in Stops : On(s, {"count", "totals", "read", "write"}, "batch")
          \/ Touched("batch")

\* The test's own report is written by those only who have the result.
SingleInv ==
    /\ row # None /\ row.path = "single" => request.at \in PathSaved
    /\ \A s \in Stops :
          /\ stopping[s].at # "idle" /\ stopping[s].path = "single" => request.at \in PathSaved
          /\ On(s, {"write", "fill"}, "single") => stopping[s].read = recipient
    /\ files["single"].whole => request.at \in PathSaved /\ files["single"].shows = recipient

\* When stops do not overlap, the one that makes the row lead to its own report
\* after the test has saved its path reads the result for it.
BatchInv ==
    ~overlapped =>
        /\ \A s, t \in Stops : s = t \/ stopping[s].at = "idle" \/ stopping[t].at = "idle"
        /\ request.at \in PathSaved /\ row.path = "batch" =>
              \/ \E s \in Stops : On(s, {"count", "totals", "read"}, "batch")
              \/ /\ \A s \in Stops : On(s, {"write", "fill"}, "batch") =>
                                         stopping[s].read = recipient
                 /\ \/ files["batch"].shows = recipient
                    \/ \E s \in Stops : On(s, {"write", "fill"}, "batch")

DownloadInv == (faults = 0 /\ ~overwritten) => PathInv /\ SingleInv /\ BatchInv

Shown == Inv /\ ResultInv /\ CloseInv /\ DownloadInv

\* Every step keeps ResultInv.
LEMMA ResultKept ==
    ASSUME Inv, ResultInv, [Next]_vars
    PROVE  ResultInv'
<1> USE FieldsOf DEF Inv, ResultInv, Step, others, rest, history, Saved, PathSaved
<1>1. CASE CreateBatch \/ CreateRecipient \/ SendMessage \/ SaveRecipient \/ SavePath
  BY <1>1 DEF CreateBatch, CreateRecipient, SendMessage, SaveRecipient, SavePath
<1>2. CASE ReadForReport \/ Count \/ SaveTotals \/ Close \/ RequestDies
  BY <1>2 DEF ReadForReport, Count, SaveTotals, Close, RequestDies
<1>3. CASE WriteReport
  <2>1. \A p \in Paths : files'[p].shows = files[p].shows
    BY <1>3, FileSteps DEF FileWritten
  <2> QED BY <1>3, <2>1 DEF WriteReport
<1>4. CASE FillReport
  <2>1. \A p \in Paths : files'[p].shows \in {files[p].shows, request.read}
    BY <1>4, FileSteps DEF FileWritten
  <2> QED BY <1>4, <2>1 DEF FillReport
<1>5. ASSUME NEW s \in Stops, Stop(s) PROVE ResultInv'
  <2>1. request' = request /\ recipient' = recipient /\ (stopped => stopped')
    BY <1>5 DEF Stop, StopRead, StopSave, StopCount, StopTotals, StopReport, StopWrite,
       StopFill, StopDies
  <2>2. \A p \in Paths : files'[p].shows \in {None, "pending", recipient}
    <3>1. CASE StopWrite(s)
      BY <3>1, FileSteps DEF FileWritten
    <3>2. CASE StopFill(s)
      BY <3>2, FileSteps DEF FileWritten, StopFill
    <3>3. CASE ~(StopWrite(s) \/ StopFill(s))
      BY <1>5, <3>3 DEF Stop, StopRead, StopSave, StopCount, StopTotals, StopReport, StopDies
    <3> QED BY <3>1, <3>2, <3>3
  <2>3. /\ stopping'[s].at \in {"count", "totals", "read", "write", "fill"} => stopped'
        /\ stopping'[s].at \in {"totals", "write", "fill"} =>
              stopping'[s].read \in {None, "pending", recipient}
        /\ \A t \in Stops : t # s => stopping'[t] = stopping[t]
    <3>1. CASE StopRead(s)
      <4>1. PICK p \in Paths : Moved(s, [at |-> "save", read |-> None, path |-> p])
        BY <3>1, StopMoves
      <4> QED BY <4>1 DEF Moved
    <3>2. CASE StopSave(s)
      <4>1. StepsTo(s, "save", "count", None) BY <3>2, StopMoves
      <4> QED BY <3>2, <4>1 DEF StepsTo, Moved, StopSave
    <3>3. CASE StopCount(s) \/ StopTotals(s) \/ StopReport(s) \/ StopWrite(s)
      <4>1. \/ StepsTo(s, "count", "totals", recipient)
            \/ StepsTo(s, "totals", "read", None)
            \/ StepsTo(s, "read", "write", recipient)
            \/ StepsTo(s, "write", "fill", stopping[s].read)
        BY <3>3, StopMoves
      <4> QED BY <2>1, <4>1 DEF StepsTo, Moved
    <3>4. CASE StopFill(s) \/ StopDies(s)
      BY <3>4, StopMoves DEF Moved, NoStop
    <3> QED BY <1>5, <3>1, <3>2, <3>3, <3>4 DEF Stop
  <2> QED BY <2>1, <2>2, <2>3
<1>6. CASE AdminOpen \/ AdminSave \/ UNCHANGED vars
  BY <1>6 DEF AdminOpen, AdminSave, vars
<1> QED BY <1>1, <1>2, <1>3, <1>4, <1>5, <1>6 DEF Next, Request

\* Every step keeps CloseInv.
LEMMA CloseKept ==
    ASSUME Inv, ResultInv, CloseInv, [Next]_vars
    PROVE  CloseInv'
<1> USE FieldsOf DEF Inv, Progress, CloseInv, TotalsShown, EndShown, Step, others, rest, history
<1>1. CASE \/ CreateBatch \/ CreateRecipient \/ SendMessage \/ SaveRecipient \/ SavePath
           \/ ReadForReport \/ WriteReport \/ FillReport \/ Count \/ RequestDies
  BY <1>1 DEF CreateBatch, CreateRecipient, SendMessage, SaveRecipient, SavePath,
     ReadForReport, WriteReport, FillReport, Count, RequestDies
<1>2. CASE SaveTotals
  BY <1>2 DEF SaveTotals, ResultInv, Row
<1>3. CASE Close
  BY <1>3 DEF Close, Row
<1>4. ASSUME NEW s \in Stops, Stop(s) PROVE CloseInv'
  <2>1. CASE StopSave(s)
    BY <2>1 DEF StopSave, Row
  <2>2. CASE StopTotals(s)
    <3>1. /\ stopping[s].read \in {None, "pending", recipient} /\ stopped
          /\ row' = [row EXCEPT !.totals = stopping[s].read]
      BY <2>2, StopMoves DEF StopTotals, StepsTo, ResultInv
    <3> QED BY <2>2, <3>1 DEF StopTotals, Row
  <2>3. CASE ~(StopSave(s) \/ StopTotals(s))
    BY <1>4, <2>3 DEF Stop, StopRead, StopCount, StopReport, StopWrite, StopFill, StopDies
  <2> QED BY <2>1, <2>2, <2>3
<1>5. CASE AdminOpen \/ AdminSave \/ UNCHANGED vars
  BY <1>5 DEF AdminOpen, AdminSave, vars
<1> QED BY <1>1, <1>2, <1>3, <1>4, <1>5 DEF Next, Request

-----------------------------------------------------------------------------
\* Who has a file open keeps it open until it is filled.
LEMMA TouchedStays ==
    ASSUME Inv, [Next]_vars, faults' = faults, NEW p \in Paths, Touched(p)
    PROVE  Touched(p)'
<1> USE DEF Inv, Touched, TestIsWriting, StopIsWriting
<1>1. CASE WriteReport
  BY <1>1, FileSteps DEF FileWritten, WriteReport, Step, others
<1>2. CASE FillReport
  BY <1>2, FileSteps DEF FileWritten, FillReport, Step, others
<1>3. ASSUME NEW s \in Stops, StopWrite(s) PROVE Touched(p)'
  <2>1. StepsTo(s, "write", "fill", stopping[s].read) /\ request' = request
    BY <1>3, StopMoves DEF StopWrite, rest
  <2>2. /\ stopping[s].at = "write"
        /\ stopping'[s].at = "fill" /\ stopping'[s].path = stopping[s].path
        /\ \A t \in Stops : t # s => stopping'[t] = stopping[t]
    BY <2>1 DEF StepsTo, Moved
  <2>3. CASE p = stopping[s].path
    BY <2>2, <2>3
  <2>4. CASE p # stopping[s].path
    <3>1. files'[p] = files[p]
      BY <1>3, <2>4, FileSteps DEF FileWritten
    <3> QED BY <2>1, <2>2, <3>1
  <2> QED BY <2>3, <2>4
<1>4. ASSUME NEW s \in Stops, StopFill(s) PROVE Touched(p)'
  <2>1. Moved(s, NoStop) /\ request' = request
    BY <1>4, StopMoves DEF StopFill, rest
  <2>2. \A t \in Stops : t # s => stopping'[t] = stopping[t]
    BY <2>1 DEF Moved
  <2>3. FileWritten(stopping[s].path, FALSE, stopping[s].read)
    BY <1>4, FileSteps
  <2>4. CASE p = stopping[s].path
    BY <2>3, <2>4 DEF FileWritten
  <2>5. CASE p # stopping[s].path
    <3>1. files'[p] = files[p]
      BY <2>3, <2>5 DEF FileWritten
    <3> QED BY <2>1, <2>2, <2>5, <3>1
  <2> QED BY <2>4, <2>5
<1>5. CASE RequestDies \/ \E s \in Stops : StopDies(s)
  BY <1>5, MaxFaultsAssumption DEF RequestDies, StopDies, TypeOK
<1>6. CASE \/ CreateBatch \/ CreateRecipient \/ SendMessage \/ SaveRecipient \/ SavePath
           \/ ReadForReport \/ Count \/ SaveTotals \/ Close
  BY <1>6 DEF CreateBatch, CreateRecipient, SendMessage, SaveRecipient, SavePath,
     ReadForReport, Count, SaveTotals, Close, Step, others
<1>7. ASSUME NEW s \in Stops,
             \/ StopRead(s) \/ StopSave(s) \/ StopCount(s) \/ StopTotals(s) \/ StopReport(s)
      PROVE  Touched(p)'
  <2>1. /\ files' = files /\ request' = request /\ stopping[s].at # "fill"
        /\ \A t \in Stops : t # s => stopping'[t] = stopping[t]
    BY <1>7, StopMoves DEF StopRead, StopSave, StopCount, StopTotals, StopReport,
       StepsTo, Moved, rest
  <2> QED BY <2>1
<1>8. CASE AdminOpen \/ AdminSave \/ UNCHANGED vars
  BY <1>8 DEF AdminOpen, AdminSave, vars
<1> QED BY <1>1, <1>2, <1>3, <1>4, <1>5, <1>6, <1>7, <1>8 DEF Next, Request, Stop

\* A step without a failure and without an overwriting form.
Plain == faults' = 0 /\ ~overwritten' /\ faults = 0 /\ ~overwritten

LEMMA PlainSteps ==
    ASSUME Inv, [Next]_vars, faults' = 0, ~overwritten'
    PROVE  Plain /\ (~overlapped' => ~overlapped) /\ (AdminSave => row' = row)
<1> USE DEF Inv, TypeOK, Plain, Step, others, rest, history
<1>1. CASE Request
  BY <1>1, MaxFaultsAssumption DEF Request, CreateBatch, CreateRecipient, SendMessage,
     SaveRecipient, SavePath, ReadForReport, WriteReport, FillReport, Count, SaveTotals,
     Close, RequestDies, AdminSave
<1>2. ASSUME NEW s \in Stops, Stop(s)
      PROVE  Plain /\ (~overlapped' => ~overlapped) /\ (AdminSave => row' = row)
  BY <1>2, MaxFaultsAssumption DEF Stop, StopRead, StopSave, StopCount, StopTotals,
     StopReport, StopWrite, StopFill, StopDies, AdminSave
<1>3. CASE AdminOpen \/ AdminSave \/ UNCHANGED vars
  BY <1>3 DEF AdminOpen, AdminSave, vars
<1> QED BY <1>1, <1>2, <1>3 DEF Next

\* Every step keeps PathInv.
LEMMA PathKept ==
    ASSUME Inv, PathInv, Plain, [Next]_vars
    PROVE  PathInv'
<1> USE DEF Inv, PathInv, PathSaved, ReportWritten
<1>0. /\ (Touched("single") => Touched("single")') /\ (Touched("batch") => Touched("batch")')
      /\ request.at \in PathSaved => row # None /\ row \in Row
      /\ request = [at |-> request.at, read |-> request.read]
  BY TouchedStays, FieldsOf DEF Plain, Paths, Progress
<1>1. CASE CreateBatch \/ CreateRecipient \/ SendMessage \/ SaveRecipient
  BY <1>1 DEF CreateBatch, CreateRecipient, SendMessage, SaveRecipient, Step
<1>2. CASE SavePath
  <2>1. row \in Row /\ row'.path = "single" /\ request'.at = "read"
    BY <1>2, FieldsOf DEF SavePath, Step, Progress, Row
  <2> QED BY <2>1 DEF Paths
<1>3. CASE WriteReport
  <2>1. Touched("single")' BY <1>3 DEF WriteReport, Step, Touched, TestIsWriting
  <2> QED BY <1>0, <1>3, <2>1 DEF WriteReport, Step, others, On
<1>4. CASE ReadForReport \/ FillReport \/ Count
  BY <1>0, <1>4 DEF ReadForReport, FillReport, Count, Step, others, On
<1>5. CASE SaveTotals \/ Close
  <2>1. /\ row'.path = row.path /\ stopping' = stopping
        /\ request.at \in ReportWritten /\ request'.at \in ReportWritten
    <3>1. row \in Row /\ request.at \in PathSaved
      BY <1>0, <1>5 DEF SaveTotals, Close, Step
    <3>2. row'.path = row.path
      BY <1>5, <3>1 DEF SaveTotals, Close, Row
    <3> QED BY <1>5, <3>2 DEF SaveTotals, Close, Step, others
  <2> QED BY <1>0, <2>1 DEF On
<1>6. ASSUME NEW s \in Stops, Stop(s) PROVE PathInv'
  <2>1. request' = request
    BY <1>6 DEF Stop, StopRead, StopSave, StopCount, StopTotals, StopReport, StopWrite,
       StopFill, StopDies, rest
  <2>2. CASE StopRead(s)
    <3>1. row' = row /\ \A t \in Stops : On(t, {"count", "totals", "read", "write"}, "batch")
                           => stopping'[t] = stopping[t]
      BY <2>2, StopMoves DEF StopRead, Moved, On
    <3> QED BY <1>0, <2>1, <3>1 DEF On
  <2>3. CASE StopSave(s)
    <3>1. StepsTo(s, "save", "count", None) /\ stopping[s].path \in Paths
      BY <2>3, StopMoves DEF Progress, StepsTo
    <3>2. request.at \in PathSaved => row'.path = stopping[s].path
      BY <1>0, <2>3 DEF StopSave, Row
    <3>3. stopping'[s].path = "batch" => On(s, {"count", "totals", "read", "write"}, "batch")'
      BY <3>1 DEF StepsTo, Moved, On
    <3>4. stopping'[s].path = stopping[s].path
      BY <3>1 DEF StepsTo, Moved
    <3> QED BY <1>0, <2>1, <3>1, <3>2, <3>3, <3>4
  <2>4. CASE StopCount(s) \/ StopTotals(s) \/ StopReport(s)
    <3>1. \/ StepsTo(s, "count", "totals", recipient)
          \/ StepsTo(s, "totals", "read", None)
          \/ StepsTo(s, "read", "write", recipient)
      BY <2>4, StopMoves
    <3>2. \A t \in Stops : On(t, {"count", "totals", "read", "write"}, "batch")
                             => On(t, {"count", "totals", "read", "write"}, "batch")'
      BY <3>1 DEF StepsTo, Moved, On
    <3>3. request.at \in PathSaved => row'.path = row.path
      BY <1>0, <2>4 DEF StopCount, StopTotals, StopReport, Row
    <3> QED BY <1>0, <2>1, <3>2, <3>3
  <2>5. CASE StopWrite(s)
    <3>1. StepsTo(s, "write", "fill", stopping[s].read) /\ row' = row
      BY <2>5, StopMoves DEF StopWrite
    <3>2. stopping[s].path = "batch" => Touched("batch")'
      BY <3>1 DEF StepsTo, Moved, Touched, StopIsWriting
    <3>3. \A t \in Stops : On(t, {"count", "totals", "read", "write"}, "batch") =>
                               \/ On(t, {"count", "totals", "read", "write"}, "batch")'
                               \/ Touched("batch")'
      BY <3>1, <3>2 DEF StepsTo, Moved, On
    <3> QED BY <1>0, <2>1, <3>1, <3>3
  <2>6. CASE StopFill(s) \/ StopDies(s)
    <3>1. StopFill(s) /\ row' = row
      BY <2>6, MaxFaultsAssumption DEF Plain, StopDies, StopFill
    <3>2. \A t \in Stops : On(t, {"count", "totals", "read", "write"}, "batch")
                           => stopping'[t] = stopping[t]
      BY <3>1, StopMoves DEF Moved, On
    <3> QED BY <1>0, <2>1, <3>1, <3>2 DEF On
  <2> QED BY <1>6, <2>2, <2>3, <2>4, <2>5, <2>6 DEF Stop
<1>7. CASE RequestDies
  BY <1>7 DEF RequestDies
<1>8. CASE AdminOpen \/ AdminSave \/ UNCHANGED vars
  <2>1. row' = row /\ request' = request /\ stopping' = stopping
    BY <1>8, PlainSteps DEF Plain, AdminOpen, AdminSave, vars
  <2> QED BY <1>0, <2>1 DEF On
<1> QED BY <1>1, <1>2, <1>3, <1>4, <1>5, <1>6, <1>7, <1>8 DEF Next, Request

\* Every step keeps SingleInv.
LEMMA SingleKept ==
    ASSUME Inv, ResultInv, SingleInv, Plain, [Next]_vars
    PROVE  SingleInv'
<1> USE DEF Inv, SingleInv, PathSaved, On
<1>0. row # None => row \in Row
  BY FieldsOf
<1>1. CASE CreateBatch
  BY <1>1, NoneAssumption DEF CreateBatch, Started, Step, others, Progress, Paths
<1>2. CASE CreateRecipient \/ SendMessage \/ SaveRecipient
  BY <1>2 DEF CreateRecipient, SendMessage, SaveRecipient, Step, others
<1>3. CASE SavePath
  BY <1>3 DEF SavePath, Step, others
<1>4. CASE ReadForReport \/ Count
  BY <1>4 DEF ReadForReport, Count, Step, others
<1>5. CASE WriteReport
  <2>1. ~files'["single"].whole BY <1>5, FileSteps DEF FileWritten
  <2> QED BY <1>5, <2>1 DEF WriteReport, Step, others
<1>6. CASE FillReport
  <2>1. files'["single"].shows = recipient /\ request.at = "fill"
    BY <1>6, FileSteps DEF FileWritten, FillReport, Step, ResultInv
  <2> QED BY <1>6, <2>1 DEF FillReport, Step, others
<1>7. CASE SaveTotals \/ Close
  <2>1. row # None /\ row \in Row /\ row'.path = row.path
    <3>1. row # None /\ row \in Row
      BY <1>0, <1>7 DEF SaveTotals, Close, Step, Progress
    <3> QED BY <1>7, <3>1 DEF SaveTotals, Close, Row
  <2> QED BY <1>7, <2>1 DEF SaveTotals, Close, Step, others
<1>8. ASSUME NEW s \in Stops, Stop(s) PROVE SingleInv'
  <2>1. request' = request /\ recipient' = recipient
    BY <1>8 DEF Stop, StopRead, StopSave, StopCount, StopTotals, StopReport, StopWrite,
       StopFill, StopDies, rest
  \* What has to be shown of the stop that moves, and of the row and the file.
  <2>2. ASSUME NEW v, Moved(s, v),
               v.at # "idle" /\ v.path = "single" => request.at \in PathSaved,
               v.at \in {"write", "fill"} /\ v.path = "single" => v.read = recipient
        PROVE  \A t \in Stops :
                  /\ stopping'[t].at # "idle" /\ stopping'[t].path = "single"
                       => request.at \in PathSaved
                  /\ On(t, {"write", "fill"}, "single")' => stopping'[t].read = recipient
    BY <2>2 DEF Moved
  <2>3. CASE StopRead(s)
    <3>1. PICK p \in Paths :
             /\ p = row.path \/ (row.path = None /\ p = "batch")
             /\ Moved(s, [at |-> "save", read |-> None, path |-> p])
      BY <2>3, StopMoves
    <3>2. row # None /\ row' = row /\ files' = files
      BY <2>3 DEF StopRead
    <3>3. p = "single" => request.at \in PathSaved
      BY <3>1, <3>2
    <3> QED BY <2>1, <2>2, <3>1, <3>2, <3>3
  <2>4. CASE StopSave(s)
    <3>1. StepsTo(s, "save", "count", None) /\ files' = files
      BY <2>4, StopMoves DEF StopSave
    <3>2. row \in Row BY <1>0, <1>8, StopKeepsStops
    <3>3. row'.path = stopping[s].path BY <2>4, <3>2 DEF StopSave, Row
    <3> QED BY <2>1, <2>2, <3>1, <3>3 DEF StepsTo
  <2>5. CASE StopCount(s) \/ StopTotals(s) \/ StopReport(s)
    <3>1. \/ StepsTo(s, "count", "totals", recipient)
          \/ StepsTo(s, "totals", "read", None)
          \/ StepsTo(s, "read", "write", recipient)
      BY <2>5, StopMoves
    <3>2. row # None /\ row \in Row BY <1>0, <1>8, StopKeepsStops
    <3>3. row'.path = row.path /\ files' = files
      BY <2>5, <3>2 DEF StopCount, StopTotals, StopReport, Row
    <3> QED BY <2>1, <2>2, <3>1, <3>2, <3>3 DEF StepsTo
  <2>6. CASE StopWrite(s)
    <3>1. StepsTo(s, "write", "fill", stopping[s].read) /\ row' = row
      BY <2>6, StopMoves DEF StopWrite
    <3>2. files'["single"].whole => files'["single"] = files["single"]
      BY <2>6, FileSteps DEF FileWritten, Paths
    <3> QED BY <2>1, <2>2, <3>1, <3>2 DEF StepsTo
  <2>7. CASE StopFill(s)
    <3>1. /\ stopping[s].at = "fill" /\ Moved(s, NoStop) /\ row' = row
          /\ FileWritten(stopping[s].path, FALSE, stopping[s].read)
      BY <2>7, StopMoves, FileSteps DEF StopFill
    <3>2. \/ files'["single"] = files["single"]
          \/ stopping[s].path = "single" /\ files'["single"].shows = stopping[s].read
      BY <3>1 DEF FileWritten, Paths
    <3> QED BY <2>1, <2>2, <3>1, <3>2 DEF NoStop
  <2>8. ~StopDies(s)
    BY MaxFaultsAssumption DEF Plain, StopDies
  <2> QED BY <1>8, <2>3, <2>4, <2>5, <2>6, <2>7, <2>8 DEF Stop
<1>9. ~RequestDies
  BY DEF Plain, RequestDies
<1>10. CASE AdminOpen \/ AdminSave \/ UNCHANGED vars
  <2>1. row' = row /\ request' = request /\ stopping' = stopping /\ files' = files
        /\ recipient' = recipient
    BY <1>10, PlainSteps DEF Plain, AdminOpen, AdminSave, vars
  <2> QED BY <2>1
<1> QED BY <1>1, <1>2, <1>3, <1>4, <1>5, <1>6, <1>7, <1>8, <1>9, <1>10 DEF Next, Request

\* Every step keeps BatchInv: of stops that do not overlap only one can be
\* behind the row's path, and it has the result or will read it.
LEMMA BatchKept ==
    ASSUME Inv, ResultInv, BatchInv, Plain, [Next]_vars
    PROVE  BatchInv'
<1> SUFFICES ASSUME ~overlapped' PROVE BatchInv'
  BY DEF BatchInv
<1> DEFINE Given == request.at \in PathSaved /\ row.path = "batch"
           Coming == \E s \in Stops : On(s, {"count", "totals", "read"}, "batch")
           Right == \A s \in Stops : On(s, {"write", "fill"}, "batch") =>
                                        stopping[s].read = recipient
           There == \/ files["batch"].shows = recipient
                    \/ \E s \in Stops : On(s, {"write", "fill"}, "batch")
           Alone == \A s, t \in Stops :
                       s = t \/ stopping[s].at = "idle" \/ stopping[t].at = "idle"
<1>0. Alone /\ (Given => Coming \/ (Right /\ There))
  BY PlainSteps DEF BatchInv, Plain
<1>1. SUFFICES Alone' /\ (Given' => (Coming \/ (Right /\ There))')
  BY DEF BatchInv
<1>2. ASSUME stopping' = stopping, Given' => Given /\ recipient' = recipient,
             files'["batch"].shows = files["batch"].shows
      PROVE  Alone' /\ (Given' => (Coming \/ (Right /\ There))')
  BY <1>0, <1>2 DEF On
<1>3. CASE Request
  <2>1. stopping' = stopping BY <1>3 DEF Request, CreateBatch, CreateRecipient, SendMessage,
     SaveRecipient, SavePath, ReadForReport, WriteReport, FillReport, Count, SaveTotals,
     Close, RequestDies, others
  <2>2. files'["batch"].shows = files["batch"].shows
    <3>1. CASE WriteReport \/ FillReport
      BY <3>1, FileSteps DEF Inv, FileWritten, Paths
    <3>2. CASE ~(WriteReport \/ FillReport)
      BY <1>3, <3>2 DEF Request, CreateBatch, CreateRecipient, SendMessage,
         SaveRecipient, SavePath, ReadForReport, Count, SaveTotals, Close, RequestDies
    <3> QED BY <3>1, <3>2
  <2>3. Given' => Given /\ recipient' = recipient
    <3>1. CASE SavePath
      <4>1. row \in Row BY <3>1, FieldsOf DEF Inv, Progress, SavePath, Step
      <4>2. row'.path = "single" BY <3>1, <4>1 DEF SavePath, Row
      <4> QED BY <4>2
    <3>2. CASE CreateBatch \/ CreateRecipient \/ SendMessage \/ SaveRecipient \/ RequestDies
      BY <3>2 DEF CreateBatch, CreateRecipient, SendMessage, SaveRecipient, RequestDies,
         Step, PathSaved
    <3>3. CASE ReadForReport \/ WriteReport \/ FillReport \/ Count
      BY <3>3 DEF ReadForReport, WriteReport, FillReport, Count, Step, PathSaved
    <3>4. CASE SaveTotals \/ Close
      <4>1. row \in Row /\ request.at \in PathSaved
        BY <3>4, FieldsOf DEF Inv, Progress, SaveTotals, Close, Step, PathSaved
      <4>2. row'.path = row.path BY <3>4, <4>1 DEF SaveTotals, Close, Row
      <4> QED BY <3>4, <4>1, <4>2 DEF SaveTotals, Close
    <3> QED BY <1>3, <3>1, <3>2, <3>3, <3>4 DEF Request
  <2> QED BY <1>2, <2>1, <2>2, <2>3
<1>4. CASE AdminOpen \/ AdminSave \/ UNCHANGED vars
  <2>1. /\ row' = row /\ request' = request /\ stopping' = stopping /\ files' = files
        /\ recipient' = recipient
    BY <1>4, PlainSteps DEF Plain, AdminOpen, AdminSave, vars
  <2> QED BY <1>2, <2>1
<1>5. ASSUME NEW s \in Stops, Stop(s)
      PROVE  Alone' /\ (Given' => (Coming \/ (Right /\ There))')
  <2>1. request' = request /\ recipient' = recipient
    BY <1>5 DEF Stop, StopRead, StopSave, StopCount, StopTotals, StopReport, StopWrite,
       StopFill, StopDies, rest
  \* The other stops are idle, before and after.
  <2>2. \A t \in Stops : t # s => stopping[t].at = "idle" /\ stopping'[t].at = "idle"
    <3>1. \A t \in Stops : t # s => stopping[t].at = "idle"
      <4>1. CASE StopRead(s)
        BY <4>1 DEF StopRead
      <4>2. CASE ~StopRead(s)
        <5>1. stopping[s].at # "idle"
          BY <1>5, <4>2, StopMoves DEF Inv, Stop, StepsTo
        <5> QED BY <1>0, <5>1
      <4> QED BY <4>1, <4>2
    <3>2. \A t \in Stops : t # s => stopping'[t] = stopping[t]
      BY <1>5, StopMoves DEF Inv, Stop, StepsTo, Moved
    <3> QED BY <3>1, <3>2
  <2>3. Alone' BY <2>2
  \* So it depends on this one.
  <2>4. /\ Coming <=> On(s, {"count", "totals", "read"}, "batch")
        /\ On(s, {"write", "fill"}, "batch") <=>
              \E t \in Stops : On(t, {"write", "fill"}, "batch")
        /\ Right <=> (On(s, {"write", "fill"}, "batch") => stopping[s].read = recipient)
    BY <2>2 DEF On
  <2>5. /\ Coming' <=> On(s, {"count", "totals", "read"}, "batch")'
        /\ On(s, {"write", "fill"}, "batch")' <=>
              (\E t \in Stops : On(t, {"write", "fill"}, "batch"))'
        /\ Right' <=> (On(s, {"write", "fill"}, "batch")' => stopping'[s].read = recipient')
    BY <2>2 DEF On
  <2>6. row # None /\ row \in Row BY <1>5, StopKeepsStops, FieldsOf DEF Inv
  <2> HIDE DEF Coming, Right
  <2>7. CASE StopRead(s)
    <3>1. stopping[s].at = "idle" /\ stopping'[s].at = "save" /\ row' = row /\ files' = files
      BY <2>7, StopMoves DEF Inv, StopRead, Moved
    <3> QED BY <1>0, <2>1, <2>3, <2>4, <2>5, <3>1 DEF On
  <2>8. CASE StopSave(s)
    <3>1. StepsTo(s, "save", "count", None) BY <2>8, StopMoves DEF Inv
    <3>2. row'.path = stopping[s].path BY <2>6, <2>8 DEF StopSave, Row
    <3> QED BY <2>3, <2>5, <3>1, <3>2 DEF StepsTo, Moved, On
  <2>9. CASE StopCount(s) \/ StopTotals(s) \/ StopReport(s)
    <3>1. \/ StepsTo(s, "count", "totals", recipient)
          \/ StepsTo(s, "totals", "read", None)
          \/ StepsTo(s, "read", "write", recipient)
      BY <2>9, StopMoves DEF Inv
    <3>2. row'.path = row.path /\ files' = files
      BY <2>6, <2>9 DEF StopCount, StopTotals, StopReport, Row
    <3> QED BY <1>0, <2>1, <2>3, <2>4, <2>5, <3>1, <3>2 DEF StepsTo, Moved, On
  <2>10. CASE StopWrite(s)
    <3>1. StepsTo(s, "write", "fill", stopping[s].read) /\ row' = row
      BY <2>10, StopMoves DEF Inv, StopWrite
    <3>2. files'["batch"].shows = files["batch"].shows
      BY <2>10, FileSteps DEF Inv, FileWritten, Paths
    <3> QED BY <1>0, <2>1, <2>3, <2>4, <2>5, <3>1, <3>2 DEF StepsTo, Moved, On
  <2>11. CASE StopFill(s)
    <3>1. /\ stopping[s].at = "fill" /\ stopping'[s].at = "idle" /\ row' = row
          /\ FileWritten(stopping[s].path, FALSE, stopping[s].read)
      BY <2>11, StopMoves, FileSteps DEF Inv, StopFill, Moved, NoStop
    <3>2. files'["batch"].shows = IF stopping[s].path = "batch" THEN stopping[s].read
                                  ELSE files["batch"].shows
      BY <3>1 DEF FileWritten, Paths
    <3> QED BY <1>0, <2>1, <2>3, <2>4, <2>5, <3>1, <3>2 DEF On
  <2>12. ~StopDies(s)
    BY MaxFaultsAssumption DEF Plain, StopDies
  <2> QED BY <1>5, <2>7, <2>8, <2>9, <2>10, <2>11, <2>12 DEF Stop
<1> QED BY <1>3, <1>4, <1>5 DEF Next

LEMMA DownloadKept ==
    ASSUME Inv, ResultInv, DownloadInv, [Next]_vars
    PROVE  DownloadInv'
<1> SUFFICES ASSUME faults' = 0, ~overwritten' PROVE (PathInv /\ SingleInv /\ BatchInv)'
  BY DEF DownloadInv
<1>1. Plain BY PlainSteps
<1>2. PathInv /\ SingleInv /\ BatchInv BY <1>1 DEF Plain, DownloadInv
<1> QED BY <1>1, <1>2, PathKept, SingleKept, BatchKept

LEMMA InitShown == Init => Shown
<1> SUFFICES ASSUME Init PROVE Shown
  OBVIOUS
<1>1. /\ row = None /\ recipient = None /\ request.at = "create"
      /\ \A s \in Stops : stopping[s].at = "idle"
      /\ \A p \in Paths : files[p].shows = None /\ ~files[p].whole
  BY DEF Init, NoStop, NoReport
<1>2. ResultInv BY <1>1 DEF ResultInv, Saved, PathSaved
<1>3. CloseInv BY <1>1 DEF CloseInv
<1>4. PathInv /\ SingleInv /\ BatchInv
  BY <1>1 DEF PathInv, SingleInv, BatchInv, PathSaved, ReportWritten, On, Paths
<1> QED BY <1>2, <1>3, <1>4, InitInv DEF Shown, DownloadInv

LEMMA NextShown == Shown /\ [Next]_vars => Shown'
BY NextInv, ResultKept, CloseKept, DownloadKept DEF Shown

\* A test that was answered tells its result, or that it was stopped, with the
\* totals that go with it; only a stale admin form undoes that.
THEOREM AnsweredTestTellsItsResult == Spec => []ClosedTestTellsItsResult
<1>1. Shown => ClosedTestTellsItsResult
  BY DEF Shown, CloseInv, TotalsShown, EndShown, ClosedTestTellsItsResult
<1> QED BY InitShown, NextShown, <1>1, PTL DEF Spec

\* The report offered for an answered test can be read unless saves of it
\* overlapped, and shows the result, although a stop may have changed which
\* file is offered; only of stops that overlapped the last to write may have
\* read the recipient too early.
THEOREM OfferedReportShowsTheResult == Spec => []DownloadShowsTheResult
<1>1. ASSUME Shown PROVE DownloadShowsTheResult
  <2> SUFFICES ASSUME request.at = "answered", \A s \in Stops : stopping[s].at = "idle",
                      faults = 0, ~overwritten
               PROVE  LET f == files[row.path] IN
                      /\ f.whole \/ f.mixed
                      /\ f.whole => f.shows \in {recipient} \cup
                                   (IF overlapped THEN {None, "pending"} ELSE {})
    BY DEF DownloadShowsTheResult
  <2>1. PathInv /\ SingleInv /\ BatchInv /\ ResultInv
    BY <1>1 DEF Shown, DownloadInv
  <2>2. row.path \in Paths /\ Touched(row.path)
    BY <2>1 DEF PathInv, PathSaved, ReportWritten, Paths, On
  <2>3. files[row.path].whole \/ files[row.path].mixed
    BY <2>2 DEF Touched, TestIsWriting, StopIsWriting
  <2>4. files[row.path].shows \in {None, "pending", recipient}
    BY <2>1, <2>2 DEF ResultInv
  <2>5. CASE row.path = "single"
    BY <2>1, <2>3, <2>5 DEF SingleInv
  <2>6. CASE row.path = "batch"
    <3>1. ~overlapped => files["batch"].shows = recipient
      BY <2>1, <2>6 DEF BatchInv, PathSaved, On
    <3> QED BY <2>3, <2>4, <2>6, <3>1
  <2> QED BY <2>2, <2>5, <2>6 DEF Paths
<1> QED BY InitShown, NextShown, <1>1, PTL DEF Spec
=============================================================================
