----------------------------- MODULE CSVParser -----------------------------
(***************************************************************************)
(* Parse of pkg/telemetry/parser.go.  A file is the number of columns of   *)
(* its header and its lines; a line is told apart by its number of         *)
(* columns, by the GPU UUID that is left of it after trimming, which may   *)
(* be empty, and by what else it says.  Whether the header names the       *)
(* columns the parser takes them for is not looked at.                     *)
(***************************************************************************)
EXTENDS Integers, Sequences

CONSTANTS
    Columns,   \* columns of a telemetry file (12)
    Empty      \* what is left of a UUID of blanks

\* csv.Reader skips a line with nothing in it.
IsBlank(line) == line.columns = 0

\* csv.Reader wants as many columns in each line as there are in the first.
HasColumns(line) == line.columns = Columns

RecordOf(line) == [gpu |-> line.uuid, says |-> line.says]

Nothing == [ok |-> TRUE, records |-> <<>>]
Failure == [ok |-> FALSE, records |-> <<>>]

\* One turn of the loop over the rows: an error ends it, and what was read
\* before goes with it.
IsRecord(line) == HasColumns(line) /\ line.uuid # Empty

ReadSkippingBad(result, line) ==
    IF IsRecord(line)
      THEN [result EXCEPT !.records = Append(@, RecordOf(line))] ELSE result
Read(result, line) ==
    IF ~result.ok \/ IsBlank(line) THEN result
    ELSE IF IsRecord(line)
      THEN [result EXCEPT !.records = Append(@, RecordOf(line))] ELSE Failure

\* What has been read after each of the lines.
ReadUpTo(lines) ==
    LET result[n \in 0..Len(lines)] ==
          IF n = 0 THEN Nothing ELSE Read(result[n - 1], lines[n])
    IN  result

Parse(file) ==
    IF file.header = Columns THEN ReadUpTo(file.lines)[Len(file.lines)] ELSE Failure
=============================================================================
