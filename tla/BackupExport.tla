---------------------------- MODULE BackupExport ----------------------------
(***************************************************************************)
(* The logical export of the database while everything else goes on writing  *)
(* to it: tables are read one after the other, outside a transaction; the    *)
(* file is stored, fetched back, compared, restored into temporary tables,   *)
(* and only then recorded as verified.                                       *)
(***************************************************************************)
EXTENDS Naturals

CONSTANTS
    ExportRows, \* rows of the exported tables
    Tables,     \* how many EXPORT_TABLES there are
    TableOf,    \* the position of a row's table among them
    Parents,    \* the rows a row references, itself or through others, on delete cascade
    MayName,    \* the rows it may reference on delete set null
    Exports,    \* attempts of the job
    MaxErrors   \* errors, timeouts and ends of the process in a behaviour

ASSUME BackupAssumption ==
    /\ Tables \in Nat \ {0} /\ MaxErrors \in Nat
    /\ TableOf \in [ExportRows -> 1..Tables]
    /\ Parents \in [ExportRows -> SUBSET ExportRows]
    /\ \A r \in ExportRows : \A p \in Parents[r] :
          TableOf[p] < TableOf[r] /\ Parents[p] \subseteq Parents[r]
    /\ MayName \in [ExportRows -> SUBSET ExportRows]
    /\ \A r \in ExportRows : \A p \in MayName[r] : TableOf[p] < TableOf[r]

VARIABLES
    live,     \* rows in the database
    deleted,  \* rows that were in it
    named,    \* the rows each row references on delete set null
    export,   \* what each attempt is doing
    stored,   \* the object at an attempt's storage URL, if any: its rows, and whether it is intact
    artifact, \* attempts with a row in backup_artifacts
    verified, \* attempts with a row in backup_verifications
    errors

backupVars == <<live, deleted, named, export, stored, artifact, verified, errors>>

\* table: the next one to read; file: the lines of the export, rows as they were read; before, kept:
\* history, the rows at the start and those of them that were there until the last table was read.
Unstarted == [at |-> "absent", table |-> 1, file |-> {}, before |-> {}, kept |-> {}]

\* What a row's columns can hold; a row that is not there holds nothing.
MayHold(r, N) == N \subseteq MayName[r] \cap live /\ (r \notin live => N = {})

BackupInit ==
    /\ live \in {R \in SUBSET ExportRows : \A r \in R : Parents[r] \subseteq R}
    /\ named \in [ExportRows -> SUBSET live] /\ \A r \in ExportRows : MayHold(r, named[r])
    /\ deleted = {} /\ errors = 0
    /\ export = [e \in Exports |-> Unstarted]
    /\ stored = [e \in Exports |-> {}]
    /\ artifact = {} /\ verified = {}

ExportAt(e, step) == export[e].at = step
Go(e, step) == export' = [export EXCEPT ![e].at = step]

-----------------------------------------------------------------------------
(* Everything else: foreign keys hold at every moment.                       *)

Insert(r) ==
    /\ r \notin live \cup deleted /\ Parents[r] \subseteq live
    /\ live' = live \cup {r}
    /\ \E N \in SUBSET (MayName[r] \cap live) : named' = [named EXCEPT ![r] = N]
    /\ UNCHANGED <<deleted, export, stored, artifact, verified, errors>>

\* An update of a row that is there: a won lead, an invoice, is given its customer.
Link(r) ==
    /\ r \in live
    /\ \E N \in SUBSET (MayName[r] \cap live) : named' = [named EXCEPT ![r] = N]
    /\ UNCHANGED <<live, deleted, export, stored, artifact, verified, errors>>

\* on delete cascade, on delete set null
Delete(r) ==
    /\ r \in live
    /\ LET lost == {r} \cup {s \in live : r \in Parents[s]}
       IN  /\ live' = live \ lost /\ deleted' = deleted \cup lost
           /\ named' = [s \in ExportRows |-> IF s \in lost THEN {} ELSE named[s] \ lost]
           /\ export' = [e \in Exports |->
                 IF export[e].at = "reading" THEN [export[e] EXCEPT !.kept = @ \ lost] ELSE export[e]]
    /\ UNCHANGED <<stored, artifact, verified, errors>>

-----------------------------------------------------------------------------
(* The job.                                                                  *)

\* The queue runs one attempt after the other.
StartExport(e) ==
    /\ ExportAt(e, "absent") /\ \A f \in Exports : export[f].at \in {"absent", "done", "failed"}
    /\ export' = [export EXCEPT ![e] = [at |-> "reading", table |-> 1, file |-> {},
                                         before |-> live, kept |-> live]]
    /\ UNCHANGED <<live, deleted, named, stored, artifact, verified, errors>>

LinesOf(table) == {[row |-> r, named |-> named[r]] : r \in {r \in live : TableOf[r] = table}}
RowsOf(lines) == {line.row : line \in lines}

\* Mutant: tables are read in the opposite order.
NextTableReversed(e) == Tables + 1 - export[e].table

NextTable(e) == export[e].table

\* exportJsonl: each table by a query of its own; then the file is compressed and read back.
ReadTable(e) ==
    /\ ExportAt(e, "reading")
    /\ export' = [export EXCEPT ![e].file = @ \cup LinesOf(NextTable(e)), ![e].table = @ + 1,
                     ![e].at = IF export[e].table = Tables THEN "store" ELSE "reading"]
    /\ UNCHANGED <<live, deleted, named, stored, artifact, verified, errors>>

\* What is stored need not be what was sent.
Store(e) ==
    /\ ExportAt(e, "store") /\ Go(e, "compare")
    /\ \E sound \in BOOLEAN : stored' = [stored EXCEPT ![e] = {[lines |-> export[e].file, intact |-> sound]}]
    /\ UNCHANGED <<live, deleted, named, artifact, verified, errors>>

ChecksumMatches(e) == \A object \in stored[e] : object.intact

\* Downloads the object; the digests are compared, and another one than the file's is an error.
Compare(e) ==
    /\ ExportAt(e, "compare") /\ Go(e, IF ChecksumMatches(e) THEN "drill" ELSE "failed")
    /\ UNCHANGED <<live, deleted, named, stored, artifact, verified, errors>>

\* Every line goes into a temporary table without foreign keys: an orphan is no error.
Drill(e) ==
    /\ ExportAt(e, "drill") /\ Go(e, "artifact")
    /\ UNCHANGED <<live, deleted, named, stored, artifact, verified, errors>>

InsertArtifact(e) ==
    /\ ExportAt(e, "artifact") /\ Go(e, "verification") /\ artifact' = artifact \cup {e}
    /\ UNCHANGED <<live, deleted, named, stored, verified, errors>>

InsertVerification(e) ==
    /\ ExportAt(e, "verification") /\ Go(e, "done") /\ verified' = verified \cup {e}
    /\ UNCHANGED <<live, deleted, named, stored, artifact, errors>>

\* An error, a timeout or the end of the process; the finally block removes the local files.
FailExport(e) ==
    /\ export[e].at \notin {"absent", "done", "failed"} /\ errors < MaxErrors
    /\ Go(e, "failed") /\ errors' = errors + 1
    /\ UNCHANGED <<live, deleted, named, stored, artifact, verified>>

ExportStep(e) ==
    \/ ReadTable(e) \/ Store(e) \/ Compare(e) \/ Drill(e) \/ InsertArtifact(e)
    \/ InsertVerification(e)

BackupNext ==
    \/ \E r \in ExportRows : Insert(r) \/ Link(r) \/ Delete(r)
    \/ \E e \in Exports : StartExport(e) \/ ExportStep(e) \/ FailExport(e)

BackupSpec == BackupInit /\ [][BackupNext]_backupVars

-----------------------------------------------------------------------------
(* Properties                                                                *)

\* Rows, attempts and records are what the code can write, and a verified artifact has its row.
BackupTypeOK ==
    /\ live \subseteq ExportRows /\ deleted \subseteq ExportRows /\ live \cap deleted = {}
    /\ named \in [ExportRows -> SUBSET live]
    /\ \A e \in Exports : /\ export[e].file \subseteq [row : ExportRows, named : SUBSET ExportRows]
                          /\ export[e].table \in 1..Tables + 1
                          /\ export[e].kept \subseteq export[e].before
    /\ verified \subseteq artifact /\ artifact \subseteq Exports /\ errors \in 0..MaxErrors

\* A backup marked verified can be fetched, and holds every row that was in the database when the
\* export began and was not deleted before its last table was read.
HoldsWhatWasThere ==
    \A e \in verified : \E object \in stored[e] :
        object.intact /\ export[e].kept \subseteq RowsOf(object.lines)

\* A referenced table is read before the one that references it: what a row of the file references
\* is missing there only if it was inserted after the export began.  A row that was there at the
\* start can miss it only where it was linked to it since.
OnlyNewRowsAreMissing ==
    \A e \in verified : \A line \in export[e].file :
        \A p \in (Parents[line.row] \cup line.named) \ RowsOf(export[e].file) :
            /\ p \notin export[e].before
            /\ line.row \in export[e].before => p \notin Parents[line.row]

\* What "verified" is worth while other jobs write, storage fails and attempts break off.
VerifiedIsComplete == BackupTypeOK /\ HoldsWhatWasThere /\ OnlyNewRowsAreMissing
=============================================================================
