----------------------------- MODULE ReportFile -----------------------------
(***************************************************************************)
(* A report file on disk (core.py write_report).  workbook.save opens the  *)
(* path, which cuts it to nothing, and then fills it; whoever else saves   *)
(* the same path meanwhile does so through a handle of its own, and the    *)
(* bytes of both end up in one file.                                       *)
(*                                                                         *)
(*   shows   what the last save to finish meant the file to show           *)
(*   whole   it can be read, and shows that                                *)
(*   mixed   the last saves overlapped                                     *)
(*                                                                         *)
(* Who has the file open is known by their positions.  A save given up in  *)
(* between leaves the file as it is: cut, not filled.                      *)
(***************************************************************************)

NoReport(nothing) == [shows |-> nothing, whole |-> FALSE, mixed |-> FALSE]

\* busy: another save has the file open.
Opened(file, busy) == [file EXCEPT !.whole = FALSE, !.mixed = busy]

\* What the file may be after a save has written its last byte.  The last of
\* saves that overlapped may have covered what the others wrote, or not.
Filled(file, content, busy) ==
    {[file EXCEPT !.shows = content, !.whole = w] :
        w \in {x \in BOOLEAN : IF x THEN file.mixed => ~busy ELSE file.mixed}}
=============================================================================
