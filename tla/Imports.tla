------------------------------ MODULE Imports -------------------------------
(***************************************************************************)
(* The two ways in for a CSV file of plays: the manual import, which       *)
(* parses the file and answers, and the backfill of a broadcast date,      *)
(* which stores the accepted rows and a review item in one transaction.    *)
(* A file is known by its layout and its rows, a row by its song and its   *)
(* form, which decide what becomes of it.                                  *)
(***************************************************************************)
EXTENDS Integers, Sequences, FiniteSets

CONSTANTS
  Uploads,    \* requests that bring a file
  CsvSongs,   \* songs of the rows, by fingerprint
  NoName,     \* an empty artist or title
  MaxRows,    \* bound on the rows of a file
  ReasonCap   \* most rejection reasons an answer lists, 50 in the code

ASSUME ImportAssumption ==
  /\ MaxRows \in Nat
  /\ ReasonCap \in Nat \ {0}

\* The forms of a row by its time: HH:MM:SS; a date and a time with a T
\* between them, without and with an offset; with a space between them;
\* anything else.  A short row lacks its last field, the time; a long one has
\* fields too many, and a time as in "stamp".
Forms == {"clock", "stamp", "offset", "spaced", "bad", "short", "long"}
CsvRow == [song : CsvSongs \cup {NoName}, form : Forms]

\* The header has the three columns, or has them in other letters or with
\* blanks around; "binary": the file has it, but is not in UTF-8.
Layouts == {"exact", "cased", "binary"}

\* Files whose rows are not looked at: refused before they are read ("large"
\* stands for all of these: too long, and for the manual import also empty or
\* not a CSV file by name or type, its 400), without a header, or with one
\* that lacks a column.
Unread == {"large", "none", "lacking"}
CsvFile == [layout : Layouts, rows : UNION {[1..n -> CsvRow] : n \in 0..MaxRows}]
           \cup [layout : Unread, rows : {<<>>}]

\* The collector runs of the table; none is recorded for a backfill.
RunIds == {<<"job", 1>>}

VARIABLES
  upload,   \* what each request is at
  csvPlays, \* plays of the station in the table, as <<upload, song, zone>>
  filed     \* uploads whose review item is in the queue

importVars == <<upload, csvPlays, filed>>

NotSent == [pc |-> "unsent"]

Answer(status, accepted, rejected, reasons) ==
  [pc |-> "answered", status |-> status, accepted |-> accepted,
   rejected |-> rejected, reasons |-> reasons]

Smaller(a, b) == IF a < b THEN a ELSE b

ImportInit ==
  /\ upload = [u \in Uploads |-> NotSent]
  /\ csvPlays = {}
  /\ filed = {}

-----------------------------------------------------------------------------
(* The manual import.                                                      *)

\* A time without an offset is one of Sydney, whatever the station.
SydneyForms == {"stamp", "spaced"}

RowImported(row) ==
  /\ row.song # NoName
  /\ row.form \in SydneyForms

ImportedRows(file) == {n \in DOMAIN file.rows : RowImported(file.rows[n])}

BatchStatus(imported, errors) ==
  IF imported = 0 /\ errors > 0 THEN "failed"
  ELSE IF errors > 0 THEN "partial"
  ELSE "completed"

\* POST /manual-imports: 413 for a file that is too large, 422 for one that
\* failed as a whole, 500 for one with a row that is too long; nothing is
\* stored.  The answer's errors are those of the file, not of its rows.
ManualImport(u, file) ==
  /\ upload[u] = NotSent
  /\ upload' = [upload EXCEPT ![u] =
       LET imported == Cardinality(ImportedRows(file))
           errors == Len(file.rows) - imported
           status == BatchStatus(imported, errors)
       IN  IF file.layout = "large" THEN Answer("413", 0, 0, 0)
           ELSE IF file.layout \in Unread THEN Answer("422", 0, 0, 1)
           ELSE IF \E n \in DOMAIN file.rows : file.rows[n].form = "long"
           THEN Answer("500", 0, 0, 0)
           ELSE IF status = "failed" THEN Answer("422", 0, errors, 0)
           ELSE Answer(status, imported, errors, 0)]
  /\ UNCHANGED <<csvPlays, filed>>

-----------------------------------------------------------------------------
(* The backfill.                                                           *)

\* The header may be in any letters, the rows are read by the exact names.
Readable(file, row) == file.layout = "exact" /\ row.form # "short"

ZoneOf(form) ==
  CASE form \in {"clock", "stamp", "long"} -> "utc"
    [] form = "offset" -> "own"
    [] OTHER -> "none"

RowValid(file, row) ==
  /\ Readable(file, row)
  /\ row.song # NoName
  /\ ZoneOf(row.form) # "none"

\* Mutation: a row is a duplicate of any row before it, valid or not.
RepeatsAny(file, n) == \E k \in 1..n - 1 : file.rows[k].song = file.rows[n].song

Repeats(file, n) ==
  \E k \in 1..n - 1 : RowValid(file, file.rows[k]) /\ file.rows[k].song = file.rows[n].song

AcceptedRows(file) ==
  {n \in DOMAIN file.rows : RowValid(file, file.rows[n]) /\ ~Repeats(file, n)}

\* POST /backfill: the file is refused as a whole, or read to its end.
Backfill(u, file) ==
  /\ upload[u] = NotSent
  /\ upload' = [upload EXCEPT ![u] =
       IF file.layout = "large" THEN Answer("413", 0, 0, 0)
       ELSE IF file.layout \in Unread \cup {"binary"} THEN Answer("422", 0, 0, 0)
       ELSE [pc |-> "read", file |-> file, left |-> AcceptedRows(file), flushed |-> {}]]
  /\ UNCHANGED <<csvPlays, filed>>

\* A session is opened for the accepted rows, unless all were rejected.
OpenBackfill(u) ==
  /\ upload[u].pc = "read"
  /\ LET rows == upload[u].file.rows
     IN  upload' = [upload EXCEPT ![u] =
           IF upload[u].left = {} /\ rows # <<>> THEN Answer("422", 0, Len(rows), 0)
           ELSE [@ EXCEPT !.pc = "saving"]]
  /\ UNCHANGED <<csvPlays, filed>>

\* Every row carries a collector run of its own that nobody has recorded.
RunOf(u, n) == <<u, n>>

\* The session is left for a row that was refused or for the database:
\* nothing of it remains, and the answer is 503, "Database unavailable".
Unavailable(u, why) ==
  upload' = [upload EXCEPT ![u] =
    [pc |-> "answered", status |-> "503", accepted |-> 0, rejected |-> 0,
     reasons |-> 0, why |-> why]]

\* A row is flushed; the table asks for the run it names.
SaveRow(u) ==
  /\ upload[u].pc = "saving"
  /\ upload[u].left # {}
  /\ LET n == CHOOSE k \in upload[u].left : \A j \in upload[u].left : k <= j
         row == upload[u].file.rows[n]
     IN  IF RunOf(u, n) \in RunIds
         THEN upload' = [upload EXCEPT ![u].left = @ \ {n},
                           ![u].flushed = @ \cup {<<u, row.song, ZoneOf(row.form)>>}]
         ELSE Unavailable(u, "row")
  /\ UNCHANGED <<csvPlays, filed>>

\* Mutation: the item does not wait for the plays.
SavedOrNot(u) == upload[u].pc = "saving"

AllSaved(u) == upload[u].pc = "saving" /\ upload[u].left = {}

\* The review item is flushed with the plays and all is committed.
CommitBackfill(u) ==
  /\ AllSaved(u)
  /\ LET file == upload[u].file
         accepted == Cardinality(AcceptedRows(file))
         rejected == Len(file.rows) - accepted
     IN  upload' = [upload EXCEPT ![u] =
           Answer("200", accepted, rejected, Smaller(rejected, ReasonCap))]
  /\ csvPlays' = csvPlays \cup upload[u].flushed
  /\ filed' = filed \cup {u}

BackfillFails(u) ==
  /\ upload[u].pc = "saving"
  /\ Unavailable(u, "database")
  /\ UNCHANGED <<csvPlays, filed>>

\* Every upload was answered.
ImportsDone ==
  /\ \A u \in Uploads : upload[u].pc = "answered"
  /\ UNCHANGED importVars

ImportNext ==
  \/ \E u \in Uploads :
       \/ \E file \in CsvFile : ManualImport(u, file) \/ Backfill(u, file)
       \/ OpenBackfill(u)
       \/ SaveRow(u)
       \/ CommitBackfill(u)
       \/ BackfillFails(u)
  \/ ImportsDone

ImportSpec == ImportInit /\ [][ImportNext]_importVars

-----------------------------------------------------------------------------
ImportsTypeOK ==
  /\ \A u \in Uploads :
       /\ upload[u].pc \in {"unsent", "read", "saving", "answered"}
       /\ upload[u].pc \in {"read", "saving"} => upload[u].left \subseteq 1..MaxRows
       /\ upload[u].pc = "answered" =>
            /\ upload[u].accepted + upload[u].rejected <= MaxRows
            /\ upload[u].reasons <= ReasonCap
  /\ csvPlays \subseteq Uploads \X CsvSongs \X {"utc", "own"}
  /\ filed \subseteq Uploads

PlaysOf(u) == {p \in csvPlays : p[1] = u}

\* A backfill stores all it accepted and files its item, or it stores nothing
\* and files none: no operator is told of rows that are not in the table,
\* and no play comes from a file that was refused or has failed.
BackfillAllOrNothing ==
  \A u \in Uploads :
    IF upload[u].pc = "answered" /\ upload[u].status = "200"
    THEN u \in filed /\ Cardinality(PlaysOf(u)) = upload[u].accepted
    ELSE u \notin filed /\ PlaysOf(u) = {}

\* Rows are not dropped for a row that was itself rejected: of every song
\* with a valid row exactly one row is on its way into the table.
EverySongOnce ==
  \A u \in Uploads : upload[u].pc \in {"read", "saving"} =>
    LET file == upload[u].file
        valid == {n \in DOMAIN file.rows : RowValid(file, file.rows[n])}
    IN  \A n \in valid :
          Cardinality({k \in upload[u].left : file.rows[k].song = file.rows[n].song})
            + Cardinality({p \in upload[u].flushed : p[2] = file.rows[n].song}) = 1

\* The backfill is there to "bulk-import historical play events for a station
\* from a CSV file": rows that it has accepted are stored, unless the database
\* cannot be reached, as its 503 says.
BackfillStores ==
  \A u \in Uploads :
    upload[u].pc = "answered" /\ upload[u].status = "503" => upload[u].why = "database"
=============================================================================
