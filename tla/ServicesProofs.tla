--------------------------- MODULE ServicesProofs ---------------------------
(***************************************************************************)
(* The services around the widget: what a verified backup holds, when odds   *)
(* are checked and stored, how many links, sessions and failed logins there  *)
(* can be, for any rows, matches, requests, keys and bounds; and so for the   *)
(* site of MCServices, in which one of them moves while the others rest.      *)
(***************************************************************************)
EXTENDS MCServices, FiniteSetTheorems, SequenceTheorems, TLAPS

-----------------------------------------------------------------------------
(* BackupExport                                                              *)

ExportSteps == {"absent", "reading", "store", "compare", "drill", "artifact", "verification", "done",
          "failed"}
AfterReading == {"store", "compare", "drill", "artifact", "verification", "done"}

\* Rows come and go by the rules of foreign keys, and a deleted row does not come back.
RowsOK ==
    /\ live \subseteq ExportRows /\ deleted \subseteq ExportRows /\ live \cap deleted = {}
    /\ \A r \in live : Parents[r] \subseteq live
    /\ named \in [ExportRows -> SUBSET live]
    /\ \A r \in ExportRows : named[r] \subseteq MayName[r]

Lines == [row : ExportRows, named : SUBSET ExportRows]
References(line) == Parents[line.row] \cup line.named

\* The variables' types: attempts are records, stored objects are sets of files.
ExportsOK ==
    /\ export \in [Exports -> [at : ExportSteps, table : 1..Tables + 1, file : SUBSET Lines,
                               before : SUBSET ExportRows, kept : SUBSET ExportRows]]
    /\ stored \in [Exports -> SUBSET [lines : SUBSET Lines, intact : BOOLEAN]]
    /\ artifact \subseteq Exports /\ errors \in 0..MaxErrors

\* What an attempt's history means: the rows of its start are still there or were deleted, and
\* with a row of the start goes what it references on delete cascade.
StartIsKnown(e) ==
    /\ export[e].kept \subseteq export[e].before
    /\ export[e].before \subseteq live \cup deleted
    /\ \A r \in export[e].before : Parents[r] \subseteq export[e].before

\* While it reads, kept is what is left of the start, and copied from every table it has read.
ReadingCopies(e) ==
    export[e].at = "reading" =>
        /\ export[e].table \in 1..Tables
        /\ export[e].kept = export[e].before \cap live
        /\ \A r \in export[e].kept : TableOf[r] < export[e].table => r \in RowsOf(export[e].file)

FileIsComplete(e) ==
    /\ export[e].at \in AfterReading => export[e].kept \subseteq RowsOf(export[e].file)
    /\ \A line \in export[e].file :
          References(line) \cap export[e].before \subseteq RowsOf(export[e].file)

\* The stored object is the file; past the comparison it is intact.
StoredIsFile(e) ==
    /\ export[e].at = "compare" =>
          \E object \in stored[e] : object.lines = export[e].file
    /\ export[e].at \in {"drill", "artifact", "verification", "done"} =>
          \E object \in stored[e] : object.intact /\ object.lines = export[e].file

RecordsFollow ==
    /\ \A e \in Exports : export[e].at \in {"verification", "done"} => e \in artifact
    /\ verified \subseteq {e \in artifact : export[e].at = "done"}

AttemptOK(e) == StartIsKnown(e) /\ ReadingCopies(e) /\ FileIsComplete(e) /\ StoredIsFile(e)

BackupInv ==
    /\ RowsOK /\ ExportsOK /\ RecordsFollow
    /\ \A e \in Exports : AttemptOK(e)

-----------------------------------------------------------------------------
LEMMA BackupComplete == BackupInv => VerifiedIsComplete
<1> SUFFICES ASSUME BackupInv PROVE VerifiedIsComplete
    OBVIOUS
<1>1. BackupTypeOK
    BY DEF BackupInv, BackupTypeOK, RowsOK, ExportsOK, RecordsFollow, AttemptOK, StartIsKnown, Lines
<1>2. HoldsWhatWasThere
  <2> SUFFICES ASSUME NEW e \in verified
               PROVE \E object \in stored[e] :
                        object.intact /\ export[e].kept \subseteq RowsOf(object.lines)
      BY DEF HoldsWhatWasThere
  <2>1. e \in Exports /\ export[e].at = "done"
      BY DEF BackupInv, RecordsFollow, ExportsOK
  <2> QED
      BY <2>1 DEF BackupInv, AttemptOK, StoredIsFile, FileIsComplete, AfterReading
<1>3. OnlyNewRowsAreMissing
  <2> SUFFICES ASSUME NEW e \in verified, NEW line \in export[e].file,
                      NEW p \in (Parents[line.row] \cup line.named) \ RowsOf(export[e].file)
               PROVE  /\ p \notin export[e].before
                      /\ line.row \in export[e].before => p \notin Parents[line.row]
      BY DEF OnlyNewRowsAreMissing
  <2>1. e \in Exports
      BY DEF BackupInv, RecordsFollow, ExportsOK
  <2>2. References(line) \cap export[e].before \subseteq RowsOf(export[e].file)
      BY <2>1 DEF BackupInv, AttemptOK, FileIsComplete
  <2>3. \A r \in export[e].before : Parents[r] \subseteq export[e].before
      BY <2>1 DEF BackupInv, AttemptOK, StartIsKnown
  <2> QED
      BY <2>2, <2>3 DEF References
<1> QED
    BY <1>1, <1>2, <1>3 DEF VerifiedIsComplete

LEMMA BackupInitially == BackupInit => BackupInv
<1> SUFFICES ASSUME BackupInit PROVE BackupInv
    OBVIOUS
<1>1. RowsOK
    BY BackupAssumption DEF BackupInit, RowsOK, MayHold
<1>2. ExportsOK
    BY BackupAssumption DEF BackupInit, ExportsOK, Unstarted, ExportSteps
<1>3. RecordsFollow
    BY DEF BackupInit, RecordsFollow, Unstarted
<1>4. ASSUME NEW e \in Exports PROVE AttemptOK(e)
    BY DEF BackupInit, AttemptOK, StartIsKnown, ReadingCopies, FileIsComplete, StoredIsFile,
           Unstarted, AfterReading
<1> QED
    BY <1>1, <1>2, <1>3, <1>4 DEF BackupInv

-----------------------------------------------------------------------------
\* A step that moves an attempt on, without copying and without touching rows, keeps what the
\* attempt knows of rows and files.
LEMMA MovingOn ==
    ASSUME BackupInv, NEW e \in Exports, NEW step \in ExportSteps \ {"absent", "reading"},
           export[e].at # "absent", Go(e, step), UNCHANGED <<live, deleted, named>>,
           step \in AfterReading => export[e].at \in AfterReading
    PROVE  /\ export' \in [Exports -> [at : ExportSteps, table : 1..Tables + 1, file : SUBSET Lines,
                                       before : SUBSET ExportRows, kept : SUBSET ExportRows]]
           /\ \A f \in Exports : StartIsKnown(f)' /\ ReadingCopies(f)' /\ FileIsComplete(f)'
           /\ RowsOK'
<1>1. export \in [Exports -> [at : ExportSteps, table : 1..Tables + 1, file : SUBSET Lines,
                              before : SUBSET ExportRows, kept : SUBSET ExportRows]]
    BY DEF BackupInv, ExportsOK
<1>2. export' \in [Exports -> [at : ExportSteps, table : 1..Tables + 1, file : SUBSET Lines,
                               before : SUBSET ExportRows, kept : SUBSET ExportRows]]
    BY <1>1 DEF Go
<1>3. /\ export'[e].at = step
      /\ \A f \in Exports : f # e => export'[f].at = export[f].at
      /\ \A f \in Exports : /\ export'[f].table = export[f].table
                            /\ export'[f].file = export[f].file
                            /\ export'[f].before = export[f].before
                            /\ export'[f].kept = export[f].kept
    BY <1>1 DEF Go
<1>4. ASSUME NEW f \in Exports PROVE StartIsKnown(f)' /\ ReadingCopies(f)' /\ FileIsComplete(f)'
  <2>1. StartIsKnown(f) /\ ReadingCopies(f) /\ FileIsComplete(f)
      BY DEF BackupInv, AttemptOK
  <2>2. StartIsKnown(f)'
      BY <1>3, <2>1 DEF StartIsKnown
  <2>3. ReadingCopies(f)'
      BY <1>3, <2>1 DEF ReadingCopies
  <2>4. FileIsComplete(f)'
      BY <1>3, <2>1 DEF FileIsComplete
  <2> QED
      BY <2>2, <2>3, <2>4
<1> QED
    BY <1>2, <1>4 DEF BackupInv, RowsOK

-----------------------------------------------------------------------------
\* Other writers leave the attempts alone; what they insert is newer than any start.
LEMMA WriteKeeps ==
    ASSUME BackupInv, RowsOK', UNCHANGED <<deleted, export, stored, artifact, verified, errors>>,
           NEW new \in SUBSET ExportRows, new \cap (live \cup deleted) = {}, live' = live \cup new
    PROVE  BackupInv'
<1>1. ExportsOK' /\ RecordsFollow'
    BY DEF BackupInv, ExportsOK, RecordsFollow
<1>2. ASSUME NEW e \in Exports PROVE AttemptOK(e)'
  <2>1. AttemptOK(e)
      BY DEF BackupInv
  <2>2. new \cap export[e].before = {}
      BY <2>1 DEF AttemptOK, StartIsKnown
  <2>3. StartIsKnown(e)' /\ ReadingCopies(e)'
      BY <2>1, <2>2 DEF AttemptOK, StartIsKnown, ReadingCopies
  <2> QED
      BY <2>1, <2>3 DEF AttemptOK, FileIsComplete, StoredIsFile
<1> QED
    BY <1>1, <1>2 DEF BackupInv

LEMMA InsertKeeps == ASSUME BackupInv, NEW r \in ExportRows, Insert(r) PROVE BackupInv'
<1>1. /\ live' = live \cup {r} /\ r \notin live \cup deleted /\ Parents[r] \subseteq live
      /\ UNCHANGED <<deleted, export, stored, artifact, verified, errors>>
    BY DEF Insert
<1>2. PICK N \in SUBSET (MayName[r] \cap live) : named' = [named EXCEPT ![r] = N]
    BY DEF Insert
<1>3. RowsOK'
    BY <1>1, <1>2 DEF BackupInv, RowsOK
<1>4. {r} \in SUBSET ExportRows /\ {r} \cap (live \cup deleted) = {}
    BY <1>1
<1> QED
    BY <1>1, <1>3, <1>4, WriteKeeps

LEMMA LinkKeeps == ASSUME BackupInv, NEW r \in ExportRows, Link(r) PROVE BackupInv'
<1>1. UNCHANGED <<live, deleted, export, stored, artifact, verified, errors>>
    BY DEF Link
<1>2. PICK N \in SUBSET (MayName[r] \cap live) : named' = [named EXCEPT ![r] = N]
    BY DEF Link
<1>3. RowsOK'
    BY <1>1, <1>2 DEF BackupInv, RowsOK
<1>4. {} \in SUBSET ExportRows /\ {} \cap (live \cup deleted) = {} /\ live' = live \cup {}
    BY <1>1
<1> QED
    BY <1>1, <1>3, <1>4, WriteKeeps

LEMMA DeleteKeeps == ASSUME BackupInv, NEW r \in ExportRows, Delete(r) PROVE BackupInv'
<1> DEFINE lost == {r} \cup {s \in live : r \in Parents[s]}
<1>1. /\ r \in live /\ live' = live \ lost /\ deleted' = deleted \cup lost
      /\ named' = [s \in ExportRows |-> IF s \in lost THEN {} ELSE named[s] \ lost]
      /\ export' = [e \in Exports |->
            IF export[e].at = "reading" THEN [export[e] EXCEPT !.kept = @ \ lost] ELSE export[e]]
      /\ UNCHANGED <<stored, artifact, verified, errors>>
    BY DEF Delete
<1>2. RowsOK
    BY DEF BackupInv
<1>3. lost \subseteq live
    BY <1>1
<1>4. RowsOK'
  <2>1. ASSUME NEW s \in live', NEW p \in Parents[s] PROVE p \in live'
    <3>1. s \in live /\ s \notin lost /\ p \in live /\ s \in ExportRows /\ p \in ExportRows
        BY <1>1, <1>2, <2>1 DEF RowsOK
    <3>2. r \notin Parents[s]
        BY <3>1
    <3>3. Parents[p] \subseteq Parents[s]
        BY <2>1, <3>1, BackupAssumption
    <3> QED
        BY <1>1, <2>1, <3>1, <3>2, <3>3
  <2>2. named' \in [ExportRows -> SUBSET live'] /\ \A s \in ExportRows : named'[s] \subseteq MayName[s]
      BY <1>1, <1>2 DEF RowsOK
  <2> QED
      BY <1>1, <1>2, <1>3, <2>1, <2>2 DEF RowsOK
<1> HIDE DEF lost
<1>5. export \in [Exports -> [at : ExportSteps, table : 1..Tables + 1, file : SUBSET Lines,
                              before : SUBSET ExportRows, kept : SUBSET ExportRows]]
    BY DEF BackupInv, ExportsOK
<1>6. \A e \in Exports :
          /\ export'[e].at = export[e].at /\ export'[e].table = export[e].table
          /\ export'[e].file = export[e].file /\ export'[e].before = export[e].before
          /\ export'[e].kept = IF export[e].at = "reading" THEN export[e].kept \ lost
                               ELSE export[e].kept
    BY <1>1, <1>5
<1>7. export' \in [Exports -> [at : ExportSteps, table : 1..Tables + 1, file : SUBSET Lines,
                               before : SUBSET ExportRows, kept : SUBSET ExportRows]]
    BY <1>1, <1>5
<1>8. ExportsOK'
    BY <1>1, <1>7 DEF BackupInv, ExportsOK
<1>9. RecordsFollow'
    BY <1>1, <1>6 DEF BackupInv, RecordsFollow, ExportsOK
<1>10. ASSUME NEW e \in Exports PROVE AttemptOK(e)'
  <2>1. AttemptOK(e)
      BY DEF BackupInv
  <2>2. StartIsKnown(e)'
      BY <1>1, <1>3, <1>6, <2>1 DEF AttemptOK, StartIsKnown
  <2>3. ReadingCopies(e)'
      BY <1>1, <1>6, <2>1 DEF AttemptOK, ReadingCopies
  <2>4. FileIsComplete(e)'
      BY <1>6, <2>1 DEF AttemptOK, FileIsComplete, AfterReading
  <2>5. StoredIsFile(e)'
      BY <1>1, <1>6, <2>1 DEF AttemptOK, StoredIsFile
  <2> QED
      BY <2>2, <2>3, <2>4, <2>5 DEF AttemptOK
<1> QED
    BY <1>4, <1>8, <1>9, <1>10 DEF BackupInv

LEMMA StartKeeps == ASSUME BackupInv, NEW e \in Exports, StartExport(e) PROVE BackupInv'
<1>1. /\ export[e].at = "absent"
      /\ export' = [export EXCEPT ![e] = [at |-> "reading", table |-> 1, file |-> {},
                                          before |-> live, kept |-> live]]
      /\ UNCHANGED <<live, deleted, named, stored, artifact, verified, errors>>
    BY DEF StartExport, ExportAt
<1>2. RowsOK /\ RowsOK'
    BY <1>1 DEF BackupInv, RowsOK
<1>3. export \in [Exports -> [at : ExportSteps, table : 1..Tables + 1, file : SUBSET Lines,
                              before : SUBSET ExportRows, kept : SUBSET ExportRows]]
    BY DEF BackupInv, ExportsOK
<1>4. [at |-> "reading", table |-> 1, file |-> {}, before |-> live, kept |-> live]
        \in [at : ExportSteps, table : 1..Tables + 1, file : SUBSET Lines,
             before : SUBSET ExportRows, kept : SUBSET ExportRows]
    BY <1>2, BackupAssumption DEF RowsOK, ExportSteps
<1>5. ExportsOK'
    BY <1>1, <1>3, <1>4 DEF BackupInv, ExportsOK
<1>6. RecordsFollow'
    BY <1>1, <1>3 DEF BackupInv, RecordsFollow, ExportsOK
<1>7. ASSUME NEW f \in Exports PROVE AttemptOK(f)'
  <2>1. CASE f = e
    <3>1. /\ export'[f].at = "reading" /\ export'[f].table = 1 /\ export'[f].file = {}
          /\ export'[f].before = live /\ export'[f].kept = live
        BY <1>1, <1>3, <2>1
    <3>2. StartIsKnown(f)'
        BY <1>1, <1>2, <3>1 DEF StartIsKnown, RowsOK
    <3>3. ReadingCopies(f)'
        BY <1>1, <1>2, <3>1, BackupAssumption DEF ReadingCopies, RowsOK
    <3>4. FileIsComplete(f)' /\ StoredIsFile(f)'
        BY <3>1 DEF FileIsComplete, StoredIsFile, AfterReading
    <3> QED
        BY <3>2, <3>3, <3>4 DEF AttemptOK
  <2>2. CASE f # e
    <3>1. export'[f] = export[f] /\ AttemptOK(f)
        BY <1>1, <1>3, <2>2 DEF BackupInv
    <3> QED
        BY <1>1, <3>1 DEF AttemptOK, StartIsKnown, ReadingCopies, FileIsComplete, StoredIsFile
  <2> QED
      BY <2>1, <2>2
<1> QED
    BY <1>2, <1>5, <1>6, <1>7 DEF BackupInv

-----------------------------------------------------------------------------
\* Reading a table copies what is left of the start in it, after what it references.
LEMMA ReadKeeps == ASSUME BackupInv, NEW e \in Exports, ReadTable(e) PROVE BackupInv'
<1> DEFINE read == export[e].file \cup LinesOf(export[e].table)
           next == IF export[e].table = Tables THEN "store" ELSE "reading"
<1>1. /\ export[e].at = "reading"
      /\ export' = [export EXCEPT ![e].file = read, ![e].table = export[e].table + 1,
                                  ![e].at = next]
      /\ UNCHANGED <<live, deleted, named, stored, artifact, verified, errors>>
    BY DEF ReadTable, ExportAt, NextTable
<1>2. export \in [Exports -> [at : ExportSteps, table : 1..Tables + 1, file : SUBSET Lines,
                              before : SUBSET ExportRows, kept : SUBSET ExportRows]]
    BY DEF BackupInv, ExportsOK
<1>3. RowsOK /\ RowsOK'
    BY <1>1 DEF BackupInv, RowsOK
<1>4. AttemptOK(e)
    BY DEF BackupInv
<1>5. read \subseteq Lines
    BY <1>2, <1>3 DEF RowsOK, Lines, LinesOf
<1>50. /\ RowsOf(read) = RowsOf(export[e].file) \cup {r \in live : TableOf[r] = export[e].table}
       /\ \A line \in LinesOf(export[e].table) :
             line.row \in live /\ TableOf[line.row] = export[e].table /\ line.named = named[line.row]
  <2>1. RowsOf(LinesOf(export[e].table)) = {r \in live : TableOf[r] = export[e].table}
    <3>1. ASSUME NEW r \in live, TableOf[r] = export[e].table PROVE r \in RowsOf(LinesOf(export[e].table))
      <4>1. [row |-> r, named |-> named[r]] \in LinesOf(export[e].table)
          BY <3>1 DEF LinesOf
      <4>2. [row |-> r, named |-> named[r]].row = r
          OBVIOUS
      <4> QED
          BY <4>1, <4>2 DEF RowsOf
    <3>2. ASSUME NEW line \in LinesOf(export[e].table)
          PROVE  line.row \in {r \in live : TableOf[r] = export[e].table}
        BY DEF LinesOf
    <3> QED
        BY <3>1, <3>2 DEF RowsOf
  <2>2. RowsOf(read) = RowsOf(export[e].file) \cup RowsOf(LinesOf(export[e].table))
      BY DEF RowsOf, read
  <2>3. \A line \in LinesOf(export[e].table) :
            line.row \in live /\ TableOf[line.row] = export[e].table /\ line.named = named[line.row]
      BY DEF LinesOf
  <2> QED
      BY <2>1, <2>2, <2>3
<1>6. next \in ExportSteps
    BY DEF ExportSteps
<1>7. export[e].table \in 1..Tables /\ export[e].table + 1 \in 1..Tables + 1
  <2>1. export[e].table \in 1..Tables
      BY <1>1, <1>4 DEF AttemptOK, ReadingCopies
  <2> QED
      BY <2>1, BackupAssumption
<1> HIDE DEF read
<1>8. /\ export'[e].at = next /\ export'[e].file = read
      /\ export'[e].table = export[e].table + 1
      /\ export'[e].before = export[e].before /\ export'[e].kept = export[e].kept
      /\ \A f \in Exports : f # e => export'[f] = export[f]
    BY <1>1, <1>2
<1>9. export' \in [Exports -> [at : ExportSteps, table : 1..Tables + 1, file : SUBSET Lines,
                               before : SUBSET ExportRows, kept : SUBSET ExportRows]]
    BY <1>1, <1>2, <1>5, <1>6, <1>7
<1>10. ExportsOK'
    BY <1>1, <1>9 DEF BackupInv, ExportsOK
<1>11. RecordsFollow'
    BY <1>1, <1>8 DEF BackupInv, RecordsFollow, ExportsOK
<1>12. \A r \in export[e].kept : TableOf[r] <= export[e].table => r \in RowsOf(read)
  <2> SUFFICES ASSUME NEW r \in export[e].kept, TableOf[r] <= export[e].table
               PROVE r \in RowsOf(read)
      OBVIOUS
  <2>1. r \in live /\ r \in ExportRows /\ TableOf[r] \in 1..Tables
      BY <1>1, <1>3, <1>4, BackupAssumption DEF AttemptOK, ReadingCopies, RowsOK
  <2>2. CASE TableOf[r] = export[e].table
      BY <1>50, <2>1, <2>2
  <2>3. CASE TableOf[r] < export[e].table
      BY <1>1, <1>4, <1>50, <2>3 DEF AttemptOK, ReadingCopies
  <2> QED
      BY <1>7, <2>1, <2>2, <2>3
<1>13. \A line \in read : References(line) \cap export[e].before \subseteq RowsOf(read)
  <2> SUFFICES ASSUME NEW line \in read, NEW p \in References(line), p \in export[e].before
               PROVE p \in RowsOf(read)
      OBVIOUS
  <2>1. CASE line \in export[e].file
      BY <1>4, <1>50, <2>1 DEF AttemptOK, FileIsComplete
  <2>2. CASE line \in LinesOf(export[e].table)
    <3>1. /\ line.row \in live /\ line.row \in ExportRows /\ TableOf[line.row] = export[e].table
          /\ line.named = named[line.row]
        BY <1>3, <1>50, <2>2 DEF RowsOK
    <3>2. p \in live /\ p \in ExportRows /\ p \in Parents[line.row] \cup MayName[line.row]
        BY <1>3, <3>1 DEF RowsOK, References
    <3>3. TableOf[p] < TableOf[line.row] /\ TableOf[p] \in 1..Tables
        BY <3>1, <3>2, BackupAssumption
    <3>4. p \in export[e].kept
        BY <1>1, <1>4, <3>2 DEF AttemptOK, ReadingCopies
    <3> QED
        BY <1>7, <1>12, <3>1, <3>3, <3>4
  <2> QED
      BY <2>1, <2>2 DEF read
<1>14. AttemptOK(e)'
  <2>1. StartIsKnown(e)'
      BY <1>1, <1>4, <1>8 DEF AttemptOK, StartIsKnown
  <2>2. ReadingCopies(e)'
    <3> SUFFICES ASSUME next = "reading" PROVE ReadingCopies(e)'
        BY <1>8 DEF ReadingCopies
    <3>1. export[e].table + 1 \in 1..Tables
        BY <1>7, BackupAssumption
    <3>2. export'[e].kept = export'[e].before \cap live'
        BY <1>1, <1>4, <1>8 DEF AttemptOK, ReadingCopies
    <3>3. ASSUME NEW r \in export[e].kept, TableOf[r] < export[e].table + 1
          PROVE r \in RowsOf(read)
      <4>1. TableOf[r] \in 1..Tables
          BY <1>2, <3>3, BackupAssumption
      <4> QED
          BY <1>7, <1>12, <3>3, <4>1
    <3> QED
        BY <1>8, <3>1, <3>2, <3>3 DEF ReadingCopies
  <2>3. next \in AfterReading => export[e].kept \subseteq RowsOf(read)
    <3> SUFFICES ASSUME next \in AfterReading, NEW r \in export[e].kept PROVE r \in RowsOf(read)
        OBVIOUS
    <3>1. export[e].table = Tables
        BY DEF AfterReading
    <3>2. TableOf[r] \in 1..Tables
        BY <1>2, BackupAssumption
    <3> QED
        BY <1>7, <1>12, <3>1, <3>2, BackupAssumption
  <2>4. FileIsComplete(e)'
      BY <1>8, <1>13, <2>3 DEF FileIsComplete
  <2>5. StoredIsFile(e)'
      BY <1>8 DEF StoredIsFile
  <2> QED
      BY <2>1, <2>2, <2>4, <2>5 DEF AttemptOK
<1>15. ASSUME NEW f \in Exports, f # e PROVE AttemptOK(f)'
  <2>1. export'[f] = export[f] /\ AttemptOK(f)
      BY <1>8, <1>15 DEF BackupInv
  <2> QED
      BY <1>1, <2>1 DEF AttemptOK, StartIsKnown, ReadingCopies, FileIsComplete, StoredIsFile
<1> QED
    BY <1>3, <1>10, <1>11, <1>14, <1>15 DEF BackupInv

-----------------------------------------------------------------------------
LEMMA StoreKeeps == ASSUME BackupInv, NEW e \in Exports, Store(e) PROVE BackupInv'
<1>1. PICK sound \in BOOLEAN :
          stored' = [stored EXCEPT ![e] = {[lines |-> export[e].file, intact |-> sound]}]
    BY DEF Store
<1>2. /\ export[e].at = "store" /\ Go(e, "compare")
      /\ UNCHANGED <<live, deleted, named, artifact, verified, errors>>
    BY DEF Store, ExportAt
<1>3. /\ export' \in [Exports -> [at : ExportSteps, table : 1..Tables + 1, file : SUBSET Lines,
                                  before : SUBSET ExportRows, kept : SUBSET ExportRows]]
      /\ \A f \in Exports : StartIsKnown(f)' /\ ReadingCopies(f)' /\ FileIsComplete(f)'
      /\ RowsOK'
    BY <1>2, MovingOn DEF ExportSteps, AfterReading
<1>4. /\ export'[e].at = "compare" /\ export'[e].file = export[e].file
      /\ \A f \in Exports : f # e => export'[f] = export[f]
    BY <1>2 DEF Go, BackupInv, ExportsOK
<1>5. /\ stored'[e] = {[lines |-> export[e].file, intact |-> sound]}
      /\ \A f \in Exports : f # e => stored'[f] = stored[f]
    BY <1>1 DEF BackupInv, ExportsOK
<1>6. ExportsOK'
  <2>1. [lines |-> export[e].file, intact |-> sound] \in [lines : SUBSET Lines, intact : BOOLEAN]
      BY DEF BackupInv, ExportsOK
  <2> QED
      BY <1>1, <1>2, <1>3, <2>1 DEF BackupInv, ExportsOK
<1>7. RecordsFollow'
    BY <1>2, <1>4 DEF BackupInv, RecordsFollow, ExportsOK
<1>8. ASSUME NEW f \in Exports PROVE StoredIsFile(f)'
  <2>1. CASE f = e
    <3>1. [lines |-> export[e].file, intact |-> sound].lines = export[e].file
        OBVIOUS
    <3> QED
        BY <1>4, <1>5, <2>1, <3>1 DEF StoredIsFile
  <2>2. CASE f # e
      BY <1>4, <1>5, <2>2 DEF BackupInv, AttemptOK, StoredIsFile
  <2> QED
      BY <2>1, <2>2
<1> QED
    BY <1>3, <1>6, <1>7, <1>8 DEF BackupInv, AttemptOK

\* The other steps of an attempt, which leave the stored objects alone.
LEMMA LaterStepKeeps ==
    ASSUME BackupInv, NEW e \in Exports,
           \/ Compare(e) \/ Drill(e) \/ InsertArtifact(e) \/ InsertVerification(e) \/ FailExport(e)
    PROVE  BackupInv'
<1>1. PICK step \in ExportSteps \ {"absent", "reading"} :
        /\ Go(e, step)
        /\ step \in AfterReading => export[e].at \in AfterReading
        /\ step # "compare"
        /\ step = "drill" => export[e].at = "compare" /\ ChecksumMatches(e)
        /\ step \in {"artifact", "verification", "done"} =>
              export[e].at \in {"drill", "artifact", "verification"}
        /\ step \in {"verification", "done"} => e \in artifact'
        /\ export[e].at \notin {"absent", "done"}
        /\ verified' \subseteq verified \cup (IF step = "done" THEN {e} ELSE {})
  <2>1. CASE Compare(e)
      BY <2>1 DEF Compare, ExportAt, ExportSteps, AfterReading
  <2>2. CASE Drill(e)
      BY <2>2 DEF Drill, ExportAt, ExportSteps, AfterReading
  <2>3. CASE InsertArtifact(e)
      BY <2>3 DEF InsertArtifact, ExportAt, ExportSteps, AfterReading
  <2>4. CASE InsertVerification(e)
      BY <2>4 DEF InsertVerification, ExportAt, ExportSteps, AfterReading, BackupInv, RecordsFollow
  <2>5. CASE FailExport(e)
      BY <2>5 DEF FailExport, ExportSteps, AfterReading
  <2> QED
      BY <2>1, <2>2, <2>3, <2>4, <2>5
<1>2. /\ UNCHANGED <<live, deleted, named, stored>> /\ artifact \subseteq artifact'
      /\ artifact' \subseteq Exports /\ errors' \in 0..MaxErrors
    BY BackupAssumption DEF Compare, Drill, InsertArtifact, InsertVerification, FailExport, BackupInv,
                            ExportsOK
<1>3. /\ export' \in [Exports -> [at : ExportSteps, table : 1..Tables + 1, file : SUBSET Lines,
                                  before : SUBSET ExportRows, kept : SUBSET ExportRows]]
      /\ \A f \in Exports : StartIsKnown(f)' /\ ReadingCopies(f)' /\ FileIsComplete(f)'
      /\ RowsOK'
    BY <1>1, <1>2, MovingOn
<1>4. /\ export'[e].at = step /\ export'[e].file = export[e].file
      /\ \A f \in Exports : f # e => export'[f] = export[f]
    BY <1>1 DEF Go, BackupInv, ExportsOK
<1>5. ExportsOK'
    BY <1>2, <1>3 DEF BackupInv, ExportsOK
<1>6. RecordsFollow'
  <2>1. \A f \in Exports : export'[f].at \in {"verification", "done"} => f \in artifact'
      BY <1>1, <1>2, <1>4 DEF BackupInv, RecordsFollow
  <2>2. ASSUME NEW f \in verified' PROVE f \in artifact' /\ export'[f].at = "done"
    <3>1. CASE f \in verified
      <4>1. f \in artifact /\ export[f].at = "done" /\ f \in Exports
          BY <3>1 DEF BackupInv, RecordsFollow, ExportsOK
      <4> QED
          BY <1>1, <1>2, <1>4, <4>1
    <3>2. CASE f \notin verified
        BY <1>1, <1>4, <2>2, <3>2
    <3> QED
        BY <3>1, <3>2
  <2> QED
      BY <2>1, <2>2 DEF RecordsFollow
<1>7. ASSUME NEW f \in Exports PROVE StoredIsFile(f)'
  <2>1. StoredIsFile(f)
      BY DEF BackupInv, AttemptOK
  <2>2. CASE f # e
      BY <1>2, <1>4, <2>1, <2>2 DEF StoredIsFile
  <2>3. CASE f = e /\ step = "drill"
      BY <1>1, <1>2, <1>4, <2>1, <2>3 DEF StoredIsFile, ChecksumMatches
  <2>4. CASE f = e /\ step # "drill"
      BY <1>1, <1>2, <1>4, <2>1, <2>4 DEF StoredIsFile
  <2> QED
      BY <2>2, <2>3, <2>4
<1> QED
    BY <1>3, <1>5, <1>6, <1>7 DEF BackupInv, AttemptOK

LEMMA BackupInductive == BackupInv /\ [BackupNext]_backupVars => BackupInv'
<1> SUFFICES ASSUME BackupInv, [BackupNext]_backupVars PROVE BackupInv'
    OBVIOUS
<1>1. CASE UNCHANGED backupVars
    BY <1>1 DEF backupVars, BackupInv, RowsOK, ExportsOK, RecordsFollow, AttemptOK, StartIsKnown,
                ReadingCopies, FileIsComplete, StoredIsFile
<1>2. CASE BackupNext
    BY <1>2, InsertKeeps, LinkKeeps, DeleteKeeps, StartKeeps, ReadKeeps, StoreKeeps, LaterStepKeeps
       DEF BackupNext, ExportStep
<1> QED
    BY <1>1, <1>2

\* A verified backup is there, and holds every row that was in the database when it began and was
\* not deleted while it was made; what a row in it references and the file lacks was inserted since,
\* and a row that was there before can only have been linked to it since.
THEOREM VerifiedBackupIsComplete == BackupSpec => []VerifiedIsComplete
BY BackupInitially, BackupInductive, BackupComplete, PTL DEF BackupSpec

-----------------------------------------------------------------------------
(* OddsRefresh                                                               *)

USE DEF oddsVars

\* The inductive invariant.

RefreshAt == {"idle", "fixtures", "catalogue", "events", "next", "odds", "snapshot", "check"}
Fixture == [match : Matches, when : 0..Horizon]
Candidate == [match : Matches, when : 1..Horizon, reason : {"pre_match", "initial", "daily"}]
Execution == [at : RefreshAt, fixtures : SUBSET Fixture, listed : SUBSET Candidate,
              catalogue : SUBSET SUBSET OddsKeys, failed : SUBSET OddsKeys,
              offered : SUBSET Candidate, current : SUBSET Candidate, checkedAt : 0..Horizon]
Snapshot == [match : Matches, at : 0..Horizon]
CheckRow == [match : Matches, when : 1..Horizon, reason : {"pre_match", "initial", "daily"},
             status : {"available", "unavailable", "error", "unsupported"}, at : 0..Horizon]

OddsTyped ==
    /\ now \in 0..Horizon /\ mishaps \in 0..MaxMishaps /\ overlapped \in BOOLEAN
    /\ planned \in [Matches -> 0..Horizon] /\ kickoff \in [Matches -> 0..Horizon]
    /\ storing \in [Refreshers -> SUBSET Fixture] /\ odds \in [Matches -> 0..Horizon]
    /\ snapshot \subseteq Snapshot /\ check \subseteq CheckRow
    /\ refresh \in [Refreshers -> Execution] /\ quota \in {"left", "spent"}

\* An execution lists at most MatchLimit matches, each once, and takes up one at a time; before it
\* records that odds are available it has stored their snapshot.
ExecutionOK(j) ==
    /\ IsFiniteSet(refresh[j].listed) /\ Cardinality(refresh[j].listed) <= MatchLimit
    /\ \A c, d \in refresh[j].listed : c.match = d.match => c = d
    /\ \A c, d \in refresh[j].current : c = d
    /\ refresh[j].at \notin {"odds", "snapshot", "check"} => refresh[j].current = {}
    /\ \A c \in refresh[j].current, d \in refresh[j].listed : c.match # d.match
    /\ refresh[j].checkedAt <= now
    /\ refresh[j].at = "check" =>
          \A c \in refresh[j].current \cap refresh[j].offered :
              [match |-> c.match, at |-> refresh[j].checkedAt] \in snapshot

\* A candidate that may be checked at a time: whatever was checked before is far enough away.
Spaced(c, t) ==
    /\ c.reason = "pre_match" => c.when <= t + PreMatch
    /\ \A d \in check : d.match = c.match =>
          \/ c.reason = "daily" /\ d.at + Daily <= t
          \/ c.reason = "pre_match" /\ d.at + PreMatch < c.when

\* Executions that never overlap work alone: nothing is newer than what they are about to write.
AloneOK(j) ==
    refresh[j].at # "idle" =>
        /\ \A i \in Refreshers : refresh[i].at # "idle" => i = j
        /\ \A c \in refresh[j].listed : Spaced(c, now)
        /\ refresh[j].at \in {"odds", "snapshot", "check"} =>
              /\ \A m \in Matches : odds[m] <= refresh[j].checkedAt
              /\ \A d \in check : d.at <= refresh[j].checkedAt
              /\ \A c \in refresh[j].current : Spaced(c, refresh[j].checkedAt)
        /\ refresh[j].at \in {"snapshot", "check"} =>
              \A c \in refresh[j].current \cap refresh[j].offered :
                  odds[c.match] = refresh[j].checkedAt

\* What the tables hold is not from the future.
PastOK == (\A m \in Matches : odds[m] <= now) /\ \A c \in check : c.at <= now

OddsInv ==
    /\ OddsTyped /\ PastOK
    /\ \A j \in Refreshers : ExecutionOK(j) /\ (~overlapped => AloneOK(j))
    /\ AvailableIsBacked /\ ChecksAreSpaced

-----------------------------------------------------------------------------

LEMMA RestingIsExecution == Resting \in Execution
BY OddsAssumption DEF Resting, Execution, RefreshAt

LEMMA OddsInitially == OddsInit => OddsInv
  <1>. SUFFICES ASSUME OddsInit PROVE OddsInv
    OBVIOUS
  <1>1. \A j \in Refreshers : refresh[j] = Resting
    BY DEF OddsInit
  <1>2. OddsTyped
    <2>1. 0 \in 0..Horizon /\ 0 \in 0..MaxMishaps
      BY OddsAssumption
    <2>2. refresh \in [Refreshers -> Execution]
      BY RestingIsExecution DEF OddsInit
    <2>3. planned \in [Matches -> 0..Horizon]
      BY OddsAssumption DEF OddsInit
    <2>. QED BY <2>1, <2>2, <2>3 DEF OddsInit, OddsTyped
  <1>3. PastOK /\ AvailableIsBacked /\ ChecksAreSpaced
    BY DEF OddsInit, PastOK, AvailableIsBacked, ChecksAreSpaced
  <1>4. ASSUME NEW j \in Refreshers PROVE ExecutionOK(j) /\ AloneOK(j)
    <2>1. /\ refresh[j].at = "idle" /\ refresh[j].listed = {} /\ refresh[j].current = {}
          /\ refresh[j].checkedAt = 0 /\ now = 0
      BY <1>1 DEF OddsInit, Resting
    <2>2. IsFiniteSet({}) /\ Cardinality({}) = 0
      BY FS_EmptySet
    <2>. QED BY <2>1, <2>2, OddsAssumption DEF ExecutionOK, AloneOK
  <1>. QED BY <1>2, <1>3, <1>4 DEF OddsInv

LEMMA OddsInvImplies == OddsInv => OddsAreAccounted
  <1>. SUFFICES ASSUME OddsInv PROVE OddsTypeOK
    BY DEF OddsInv, OddsAreAccounted
  <1>1. ASSUME NEW j \in Refreshers
        PROVE  /\ Cardinality(refresh[j].current) <= 1
               /\ Cardinality(refresh[j].listed) <= MatchLimit
               /\ refresh[j].failed \subseteq OddsKeys
    <2>1. refresh[j].current = {} \/ \E c : refresh[j].current = {c}
      <3>1. ASSUME NEW c \in refresh[j].current PROVE refresh[j].current = {c}
        BY DEF OddsInv, ExecutionOK
      <3>. QED BY <3>1
    <2>2. Cardinality(refresh[j].current) <= 1
      <3>1. CASE refresh[j].current = {}
        BY <3>1, FS_EmptySet
      <3>2. CASE \E c : refresh[j].current = {c}
        BY <3>2, FS_Singleton
      <3>. QED BY <2>1, <3>1, <3>2
    <2>. QED BY <2>2 DEF OddsInv, OddsTyped, ExecutionOK, Execution
  <1>. QED BY <1>1 DEF OddsInv, OddsTyped, OddsTypeOK, Snapshot, CheckRow

LEMMA Times ==
    ASSUME OddsInv
    PROVE  /\ now \in Nat /\ Daily \in Nat /\ Daily > 0 /\ PreMatch \in Nat
           /\ \A j \in Refreshers : refresh[j] \in Execution /\ refresh[j].checkedAt \in Nat
           /\ \A m \in Matches : odds[m] \in Nat /\ kickoff[m] \in Nat
           /\ \A c \in check : c.at \in Nat
           /\ \A c \in Candidate : c.when \in Nat /\ c.match \in Matches
BY OddsAssumption DEF OddsInv, OddsTyped, Execution, CheckRow, Candidate

LEMMA NothingListed ==
    ASSUME OddsInv, NEW j \in Refreshers, now' = now, refresh'[j].at \in {"idle", "fixtures"},
           refresh'[j].listed = {}, refresh'[j].current = {}, refresh'[j].checkedAt = 0
    PROVE  ExecutionOK(j)'
  <1>1. IsFiniteSet({}) /\ Cardinality({}) = 0
    BY FS_EmptySet
  <1>. QED BY <1>1, Times, OddsAssumption DEF ExecutionOK

LEMMA StaysSpaced ==
    ASSUME OddsInv, NEW c \in Candidate, NEW s \in Nat, NEW t \in Nat, s <= t, Spaced(c, s), check' = check
    PROVE  Spaced(c, t)'
BY Times DEF Spaced

-----------------------------------------------------------------------------
(* Frames                                                                    *)

\* A step of the world.
LEMMA WorldStep ==
    ASSUME OddsInv, OddsTyped', now <= now', UNCHANGED <<odds, snapshot, check, refresh, overlapped>>
    PROVE  OddsInv'
  <1>1. now' \in Nat
    BY OddsAssumption DEF OddsTyped
  <1>2. PastOK'
    BY <1>1, Times DEF OddsInv, PastOK
  <1>3. AvailableIsBacked' /\ ChecksAreSpaced'
    BY DEF OddsInv, AvailableIsBacked, ChecksAreSpaced, ChecksOf
  <1>4. ASSUME NEW j \in Refreshers PROVE ExecutionOK(j)'
    BY <1>1, Times DEF OddsInv, ExecutionOK
  <1>5. ASSUME NEW j \in Refreshers, ~overlapped PROVE AloneOK(j)'
    <2>1. \A c \in refresh[j].listed : Spaced(c, now) => Spaced(c, now)'
      BY <1>1, Times, StaysSpaced DEF Execution
    <2>2. \A c \in refresh[j].current : Spaced(c, refresh[j].checkedAt) => Spaced(c, refresh[j].checkedAt)'
      BY DEF Spaced
    <2>. QED BY <1>5, <2>1, <2>2 DEF OddsInv, AloneOK
  <1>. QED BY <1>2, <1>3, <1>4, <1>5 DEF OddsInv

\* A step of one execution that writes no odds, snapshot or check.
LEMMA ExecutionStep ==
    ASSUME OddsInv, NEW j \in Refreshers, OddsTyped',
           UNCHANGED <<now, odds, snapshot, check, overlapped>>,
           \A i \in Refreshers \ {j} : refresh'[i] = refresh[i],
           refresh'[j].at # "idle" => refresh[j].at # "idle",
           ExecutionOK(j)', ~overlapped => AloneOK(j)'
    PROVE  OddsInv'
  <1>1. PastOK' /\ AvailableIsBacked' /\ ChecksAreSpaced'
    BY DEF OddsInv, PastOK, AvailableIsBacked, ChecksAreSpaced
  <1>2. ASSUME NEW i \in Refreshers \ {j} PROVE ExecutionOK(i)'
    BY DEF OddsInv, ExecutionOK
  <1>3. ASSUME NEW i \in Refreshers \ {j}, ~overlapped PROVE AloneOK(i)'
    <2>1. refresh[i].at # "idle" => refresh[j].at = "idle"
      BY <1>3 DEF OddsInv, AloneOK
    <2>. QED BY <1>3, <2>1 DEF OddsInv, AloneOK, Spaced
  <1>. QED BY <1>1, <1>2, <1>3 DEF OddsInv

LEMMA RestStep ==
    ASSUME OddsInv, NEW j \in Refreshers, Rest(j), UNCHANGED <<now, planned, odds, snapshot, check, overlapped>>,
           mishaps' \in 0..MaxMishaps, kickoff' \in [Matches -> 0..Horizon],
           storing' \in [Refreshers -> SUBSET Fixture], quota' \in {"left", "spent"}
    PROVE  OddsInv'
  <1>1. /\ refresh' \in [Refreshers -> Execution] /\ refresh'[j] = Resting
        /\ \A i \in Refreshers \ {j} : refresh'[i] = refresh[i]
    BY RestingIsExecution DEF Rest, OddsInv, OddsTyped
  <1>2. OddsTyped'
    BY <1>1 DEF OddsInv, OddsTyped
  <1>3. ExecutionOK(j)' /\ AloneOK(j)'
    BY <1>1, NothingListed DEF AloneOK, Resting
  <1>. QED BY <1>1, <1>2, <1>3, ExecutionStep DEF Resting

-----------------------------------------------------------------------------
(* The steps                                                                 *)

LEMMA MishapCounted ==
    ASSUME OddsInv, Mishap
    PROVE  mishaps' \in 0..MaxMishaps
BY OddsAssumption DEF Mishap, OddsInv, OddsTyped

LEMMA WorldSteps ==
    ASSUME OddsInv, Tick \/ SpendQuota \/ ResetQuota \/ \E m \in Matches : Postpone(m)
    PROVE  OddsInv'
  <1>1. CASE Tick
    BY <1>1, Times, WorldStep, OddsAssumption DEF Tick, OddsInv, OddsTyped
  <1>2. CASE SpendQuota \/ ResetQuota
    BY <1>2, Times, WorldStep, MishapCounted DEF SpendQuota, ResetQuota, OddsInv, OddsTyped
  <1>3. ASSUME NEW m \in Matches, Postpone(m) PROVE OddsInv'
    <2>1. planned' \in [Matches -> 0..Horizon]
      BY <1>3, OddsAssumption DEF Postpone, OddsInv, OddsTyped
    <2>2. OddsTyped'
      BY <1>3, <2>1, MishapCounted DEF Postpone, OddsInv, OddsTyped
    <2>. QED BY <1>3, <2>2, Times, WorldStep DEF Postpone
  <1>. QED BY <1>1, <1>2, <1>3

LEMMA BeginStep ==
    ASSUME OddsInv, NEW j \in Refreshers, Begin(j)
    PROVE  OddsInv'
  <1>. DEFINE fixtures == {[match |-> m, when |-> planned[m]] : m \in {n \in Matches : planned[n] > now}}
  <1>1. fixtures \in SUBSET Fixture
    BY DEF Fixture, OddsInv, OddsTyped
  <1>. HIDE DEF fixtures
  <1>2. /\ refresh' = [refresh EXCEPT ![j] = [Resting EXCEPT !.at = "fixtures", !.fixtures = fixtures]]
        /\ storing' = [storing EXCEPT ![j] = @ \cup fixtures]
        /\ UNCHANGED <<now, planned, kickoff, odds, snapshot, check, quota>>
        /\ refresh[j].at = "idle"
    BY DEF Begin, fixtures, Refreshing
  <1>3. /\ refresh' \in [Refreshers -> Execution]
        /\ refresh'[j].at = "fixtures" /\ refresh'[j].listed = {} /\ refresh'[j].current = {}
        /\ refresh'[j].checkedAt = 0
        /\ \A i \in Refreshers \ {j} : refresh'[i] = refresh[i]
    BY <1>1, <1>2, RestingIsExecution DEF OddsInv, OddsTyped, Execution, RefreshAt, Resting
  <1>4. mishaps' \in 0..MaxMishaps /\ overlapped' \in BOOLEAN
    BY MishapCounted DEF Begin, OddsInv, OddsTyped
  <1>5. ~overlapped' => ~overlapped /\ \A i \in Refreshers : refresh[i].at = "idle"
    BY DEF Begin, Refreshing
  <1>6. OddsTyped'
    BY <1>1, <1>2, <1>3, <1>4 DEF OddsInv, OddsTyped
  <1>7. PastOK' /\ AvailableIsBacked' /\ ChecksAreSpaced'
    BY <1>2, <1>5 DEF OddsInv, PastOK, AvailableIsBacked, ChecksAreSpaced
  <1>8. ASSUME NEW i \in Refreshers PROVE ExecutionOK(i)'
    <2>1. CASE i = j
      BY <1>2, <1>3, <2>1, NothingListed
    <2>2. CASE i # j
      BY <1>2, <1>3, <2>2 DEF OddsInv, ExecutionOK
    <2>. QED BY <2>1, <2>2
  <1>9. ASSUME NEW i \in Refreshers, ~overlapped' PROVE AloneOK(i)'
    BY <1>3, <1>5, <1>9 DEF AloneOK
  <1>. QED BY <1>6, <1>7, <1>8, <1>9 DEF OddsInv

LEMMA StoreFixtureStep ==
    ASSUME OddsInv, NEW j \in Refreshers, NEW f \in storing[j], StoreFixture(j, f)
    PROVE  OddsInv'
  <1>1. storing' \in [Refreshers -> SUBSET Fixture] /\ f \in Fixture
    BY DEF StoreFixture, OddsInv, OddsTyped
  <1>2. CASE kickoff' = [kickoff EXCEPT ![f.match] = f.when] /\ UNCHANGED <<refresh, mishaps>>
    <2>1. kickoff' \in [Matches -> 0..Horizon]
      BY <1>1, <1>2 DEF Fixture, OddsInv, OddsTyped
    <2>2. OddsTyped'
      BY <1>1, <1>2, <2>1 DEF StoreFixture, OddsInv, OddsTyped
    <2>. QED BY <1>2, <2>2, Times, WorldStep DEF StoreFixture
  <1>3. CASE Mishap /\ Rest(j) /\ UNCHANGED kickoff
    BY <1>1, <1>3, MishapCounted, RestStep DEF StoreFixture, OddsInv, OddsTyped
  <1>. QED BY <1>2, <1>3 DEF StoreFixture

LEMMA BreakStep ==
    ASSUME OddsInv, NEW j \in Refreshers, Break(j)
    PROVE  OddsInv'
  <1>1. storing' \in [Refreshers -> SUBSET Fixture]
    BY DEF Break, OddsInv, OddsTyped
  <1>. QED BY <1>1, MishapCounted, RestStep DEF Break, OddsInv, OddsTyped

LEMMA ListDueStep ==
    ASSUME OddsInv, NEW j \in Refreshers, ListDue(j)
    PROVE  OddsInv'
  <1>1. /\ refresh[j].at = "fixtures"
        /\ UNCHANGED <<now, planned, kickoff, storing, odds, snapshot, check, quota, overlapped, mishaps>>
    BY DEF ListDue, Refreshing
  <1>2. PICK L \in Candidates :
           IF L = {} THEN Rest(j)
           ELSE refresh' = [refresh EXCEPT ![j].at = "catalogue", ![j].fixtures = {},
                  ![j].listed = {[match |-> m, when |-> kickoff[m], reason |-> Reason(m)] : m \in L}]
    BY DEF ListDue
  <1>3. CASE L = {}
    BY <1>1, <1>2, <1>3, RestStep DEF OddsInv, OddsTyped
  <1>4. CASE L # {}
    <2>. DEFINE entry == [m \in L |-> [match |-> m, when |-> kickoff[m], reason |-> Reason(m)]]
                listed == {entry[m] : m \in L}
    <2>1. /\ L \subseteq Matches /\ IsFiniteSet(L) /\ Cardinality(L) <= MatchLimit
          /\ \A m \in L : IsDue(m)
      <3>. DEFINE due == {m \in Matches : IsDue(m)}
      <3>1. /\ L \subseteq due
            /\ Cardinality(L) = IF Cardinality(due) < MatchLimit THEN Cardinality(due) ELSE MatchLimit
        BY DEF Candidates
      <3>2. IsFiniteSet(L) /\ IsFiniteSet(due) /\ Cardinality(due) \in Nat
        BY <3>1, OddsAssumption, FS_Subset, FS_CardinalityType
      <3>. QED BY <3>1, <3>2, OddsAssumption
    <2>2. /\ IsFiniteSet(listed) /\ Cardinality(listed) <= MatchLimit
      <3>1. entry \in Surjection(L, listed)
        BY DEF Surjection
      <3>2. IsFiniteSet(listed) /\ Cardinality(listed) <= Cardinality(L)
        BY <2>1, <3>1, FS_Surjection
      <3>. QED BY <2>1, <3>2, FS_CardinalityType, OddsAssumption
    <2>3. /\ listed \in SUBSET Candidate
          /\ \A c, d \in listed : c.match = d.match => c = d
      BY <2>1, Times DEF IsDue, Candidate, Reason, OddsInv, OddsTyped
    <2>4. ~overlapped => \A c \in listed : Spaced(c, now)
      <3>. SUFFICES ASSUME NEW m \in L PROVE Spaced(entry[m], now)
        OBVIOUS
      <3>1. IsDue(m) /\ \A d \in check : d.at <= now
        BY <2>1 DEF OddsInv, PastOK
      <3>2. entry[m].match = m /\ entry[m].when = kickoff[m] /\ entry[m].reason = Reason(m)
        OBVIOUS
      <3>. HIDE DEF entry
      <3>3. CASE Nearby(m)
        <4>1. Reason(m) = "pre_match" /\ kickoff[m] <= now + PreMatch /\ ~CheckedBeforeMatch(m)
          BY <3>3 DEF Reason, Nearby
        <4>2. \A d \in check : d.match = m => d.at + PreMatch < kickoff[m]
          BY <2>1, <3>1, <4>1, Times DEF CheckedBeforeMatch, ChecksOf
        <4>. QED BY <3>2, <4>1, <4>2 DEF Spaced
      <3>4. CASE ~Nearby(m)
        <4>1. \A d \in ChecksOf(m) : d.at + Daily <= now
          BY <3>1, <3>4 DEF IsDue, Overdue
        <4>2. Reason(m) = IF ChecksOf(m) = {} THEN "initial" ELSE "daily"
          BY <3>4 DEF Reason
        <4>3. \A d \in check : d.match = m => Reason(m) = "daily" /\ d.at + Daily <= now
          BY <4>1, <4>2 DEF ChecksOf
        <4>4. Reason(m) # "pre_match"
          BY <4>2
        <4>. QED BY <3>2, <4>3, <4>4 DEF Spaced
      <3>. QED BY <3>3, <3>4
    <2>5. refresh' = [refresh EXCEPT ![j].at = "catalogue", ![j].fixtures = {}, ![j].listed = listed]
      BY <1>2, <1>4
    <2>. HIDE DEF listed
    <2>6. /\ refresh' \in [Refreshers -> Execution] /\ refresh'[j].at = "catalogue"
          /\ refresh'[j].listed = listed /\ refresh'[j].current = refresh[j].current
          /\ refresh'[j].checkedAt = refresh[j].checkedAt
          /\ \A i \in Refreshers \ {j} : refresh'[i] = refresh[i]
      <3>1. refresh \in [Refreshers -> Execution] /\ refresh[j] \in Execution
        BY DEF OddsInv, OddsTyped
      <3>2. [refresh[j] EXCEPT !.at = "catalogue", !.fixtures = {}, !.listed = listed] \in Execution
        BY <2>3, <3>1 DEF Execution, RefreshAt
      <3>. QED BY <2>5, <3>1, <3>2 DEF Execution
    <2>7. OddsTyped'
      BY <1>1, <2>6 DEF OddsInv, OddsTyped
    <2>8. ExecutionOK(j)'
      BY <1>1, <2>2, <2>3, <2>6 DEF OddsInv, ExecutionOK
    <2>9. ~overlapped => AloneOK(j)'
      BY <1>1, <2>4, <2>6 DEF OddsInv, AloneOK, Spaced
    <2>. QED BY <1>1, <2>6, <2>7, <2>8, <2>9, ExecutionStep
  <1>. QED BY <1>3, <1>4

LEMMA AskStep ==
    ASSUME OddsInv, NEW j \in Refreshers, ReadCatalogue(j) \/ FetchEvents(j)
    PROVE  OddsInv'
  <1>1. /\ refresh[j].at \in {"catalogue", "events"}
        /\ UNCHANGED <<now, planned, kickoff, storing, odds, snapshot, check, quota, overlapped>>
    BY DEF ReadCatalogue, FetchEvents, Refreshing
  <1>2. mishaps' \in 0..MaxMishaps
    BY MishapCounted DEF ReadCatalogue, FetchEvents, OddsInv, OddsTyped
  <1>3. CASE Rest(j)
    BY <1>1, <1>2, <1>3, RestStep DEF OddsInv, OddsTyped
  <1>4. CASE ~Rest(j)
    <2>1. refresh \in [Refreshers -> Execution] /\ refresh[j] \in Execution
      BY DEF OddsInv, OddsTyped
    <2>2. PICK e \in Execution :
             /\ refresh' = [refresh EXCEPT ![j] = e] /\ e.at \in {"events", "next"}
             /\ e.listed = refresh[j].listed /\ e.current = refresh[j].current
             /\ e.checkedAt = refresh[j].checkedAt
      <3>1. CASE ReadCatalogue(j)
        <4>1. PICK catalogue \in {refresh[j].catalogue} \cup {{}} \cup {{active} : active \in SUBSET OddsKeys} :
                 refresh' = [refresh EXCEPT ![j] = [@ EXCEPT !.at = "events", !.catalogue = catalogue]]
          <5>1. CASE refresh' = [refresh EXCEPT ![j].at = "events"]
            BY <2>1, <5>1 DEF Execution
          <5>. QED BY <1>4, <3>1, <5>1 DEF ReadCatalogue
        <4>2. catalogue \in SUBSET SUBSET OddsKeys
          BY <2>1, <4>1 DEF Execution
        <4>. DEFINE e == [refresh[j] EXCEPT !.at = "events", !.catalogue = catalogue]
        <4>3. /\ e \in Execution /\ e.at = "events" /\ e.listed = refresh[j].listed
              /\ e.current = refresh[j].current /\ e.checkedAt = refresh[j].checkedAt
          BY <2>1, <4>2 DEF Execution, RefreshAt
        <4>4. refresh' = [refresh EXCEPT ![j] = e]
          BY <4>1
        <4>. QED BY <4>3, <4>4
      <3>2. CASE FetchEvents(j)
        <4>1. PICK flops \in SUBSET UNION {KeysOf(c.match, refresh[j].catalogue) : c \in refresh[j].listed} :
                 \E offered \in SUBSET refresh[j].listed :
                    refresh' = [refresh EXCEPT ![j].at = "next", ![j].failed = flops, ![j].offered = offered]
          BY <3>2 DEF FetchEvents
        <4>2. PICK offered \in SUBSET refresh[j].listed :
                 refresh' = [refresh EXCEPT ![j].at = "next", ![j].failed = flops, ![j].offered = offered]
          BY <4>1
        <4>3. flops \in SUBSET OddsKeys
          <5>1. \A m \in Matches : KeysOf(m, refresh[j].catalogue) \subseteq OddsKeys
            BY OddsAssumption DEF KeysOf
          <5>2. \A c \in refresh[j].listed : c.match \in Matches
            BY <2>1 DEF Execution, Candidate
          <5>. QED BY <5>1, <5>2
        <4>4. offered \in SUBSET Candidate
          BY <2>1 DEF Execution
        <4>. DEFINE e == [refresh[j] EXCEPT !.at = "next", !.failed = flops, !.offered = offered]
        <4>5. /\ e \in Execution /\ e.at = "next" /\ e.listed = refresh[j].listed
              /\ e.current = refresh[j].current /\ e.checkedAt = refresh[j].checkedAt
          BY <2>1, <4>3, <4>4 DEF Execution, RefreshAt
        <4>6. refresh' = [refresh EXCEPT ![j] = e]
          BY <4>2
        <4>. QED BY <4>5, <4>6
      <3>. QED BY <3>1, <3>2
    <2>3. /\ refresh' \in [Refreshers -> Execution] /\ refresh'[j] = e
          /\ \A i \in Refreshers \ {j} : refresh'[i] = refresh[i]
      BY <2>1, <2>2
    <2>4. OddsTyped'
      BY <1>1, <1>2, <2>3 DEF OddsInv, OddsTyped
    <2>5. ExecutionOK(j)'
      BY <1>1, <2>2, <2>3 DEF OddsInv, ExecutionOK
    <2>6. ~overlapped => AloneOK(j)'
      BY <1>1, <2>2, <2>3 DEF OddsInv, AloneOK, Spaced
    <2>. QED BY <1>1, <2>2, <2>3, <2>4, <2>5, <2>6, ExecutionStep
  <1>. QED BY <1>3, <1>4

LEMMA TakeUpStep ==
    ASSUME OddsInv, NEW j \in Refreshers, TakeUp(j)
    PROVE  OddsInv'
  <1>1. /\ refresh[j].at = "next" /\ refresh[j].current = {}
        /\ UNCHANGED <<now, planned, kickoff, storing, odds, snapshot, check, quota, overlapped, mishaps>>
    BY DEF TakeUp, Refreshing, OddsInv, ExecutionOK
  <1>2. refresh \in [Refreshers -> Execution] /\ refresh[j] \in Execution
    BY DEF OddsInv, OddsTyped
  <1>3. PICK c \in refresh[j].listed :
           refresh' = [refresh EXCEPT ![j].at = IF c \in refresh[j].offered THEN "odds" ELSE "check",
                            ![j].listed = @ \ {c}, ![j].current = {c}, ![j].checkedAt = now]
    BY DEF TakeUp
  <1>4. /\ refresh' \in [Refreshers -> Execution]
        /\ refresh'[j].at \in {"odds", "check"}
        /\ refresh'[j].at = "check" => c \notin refresh'[j].offered
        /\ refresh'[j].listed = refresh[j].listed \ {c} /\ refresh'[j].current = {c}
        /\ refresh'[j].checkedAt = now
        /\ \A i \in Refreshers \ {j} : refresh'[i] = refresh[i]
    <2>. DEFINE step == IF c \in refresh[j].offered THEN "odds" ELSE "check"
    <2>1. step \in RefreshAt /\ {c} \in SUBSET Candidate /\ refresh[j].listed \ {c} \in SUBSET Candidate
          /\ now \in 0..Horizon
      BY <1>2 DEF Execution, RefreshAt, OddsInv, OddsTyped
    <2>2. step \in {"odds", "check"} /\ (step = "check" => c \notin refresh[j].offered)
      OBVIOUS
    <2>3. refresh' = [refresh EXCEPT ![j].at = step, ![j].listed = @ \ {c}, ![j].current = {c}, ![j].checkedAt = now]
      BY <1>3
    <2>. HIDE DEF step
    <2>. QED BY <1>2, <2>1, <2>2, <2>3 DEF Execution
  <1>5. OddsTyped'
    BY <1>1, <1>4 DEF OddsInv, OddsTyped
  <1>6. ExecutionOK(j)'
    <2>1. IsFiniteSet(refresh'[j].listed) /\ Cardinality(refresh'[j].listed) <= MatchLimit
      <3>1. /\ IsFiniteSet(refresh[j].listed) /\ Cardinality(refresh[j].listed) <= MatchLimit
            /\ Cardinality(refresh[j].listed) \in Nat
        BY FS_CardinalityType DEF OddsInv, ExecutionOK
      <3>2. /\ IsFiniteSet(refresh[j].listed \ {c})
            /\ Cardinality(refresh[j].listed \ {c}) <= Cardinality(refresh[j].listed)
            /\ Cardinality(refresh[j].listed \ {c}) \in Nat
        BY <3>1, FS_Subset, FS_CardinalityType
      <3>. QED BY <1>4, <3>1, <3>2, OddsAssumption
    <2>. QED BY <1>1, <1>4, <2>1, Times DEF OddsInv, ExecutionOK
  <1>7. ~overlapped => AloneOK(j)'
    BY <1>1, <1>3, <1>4 DEF OddsInv, AloneOK, Spaced, PastOK
  <1>. QED BY <1>1, <1>4, <1>5, <1>6, <1>7, ExecutionStep

\* What a step of one execution changes of its own.
Moves(j, at) ==
    /\ refresh' \in [Refreshers -> Execution]
    /\ refresh'[j].at = at /\ refresh'[j].listed = refresh[j].listed
    /\ refresh'[j].offered = refresh[j].offered /\ refresh'[j].current = refresh[j].current
    /\ refresh'[j].checkedAt = refresh[j].checkedAt
    /\ \A i \in Refreshers \ {j} : refresh'[i] = refresh[i]

LEMMA ExecutionMoves ==
    ASSUME OddsInv, NEW j \in Refreshers, NEW at \in RefreshAt, refresh' = [refresh EXCEPT ![j].at = at]
    PROVE  Moves(j, at)
BY DEF OddsInv, OddsTyped, Execution, Moves

LEMMA WriteOddsStep ==
    ASSUME OddsInv, NEW j \in Refreshers, WriteOdds(j)
    PROVE  OddsInv'
  <1>1. /\ refresh[j].at = "odds" /\ Moves(j, "snapshot")
        /\ UNCHANGED <<now, planned, kickoff, storing, snapshot, check, quota, overlapped, mishaps>>
    BY ExecutionMoves DEF WriteOdds, Refreshing, RefreshAt
  <1>2. PICK c \in refresh[j].current : odds' = [odds EXCEPT ![c.match] = refresh[j].checkedAt]
    BY DEF WriteOdds
  <1>3. c.match \in Matches /\ refresh[j].current = {c} /\ refresh[j].checkedAt \in 0..Horizon
        /\ refresh[j].checkedAt <= now
    BY DEF OddsInv, OddsTyped, ExecutionOK, Execution, Candidate
  <1>4. /\ odds' \in [Matches -> 0..Horizon] /\ odds'[c.match] = refresh[j].checkedAt
        /\ \A m \in Matches : odds'[m] \in {odds[m], refresh[j].checkedAt}
    BY <1>2, <1>3 DEF OddsInv, OddsTyped
  <1>5. OddsTyped'
    BY <1>1, <1>4 DEF Moves, OddsInv, OddsTyped
  <1>6. PastOK' /\ ChecksAreSpaced'
    BY <1>1, <1>3, <1>4 DEF OddsInv, PastOK, ChecksAreSpaced
  <1>7. AvailableIsBacked'
    <2>1. ASSUME ~overlapped, NEW m \in Matches PROVE odds'[m] >= odds[m]
      BY <1>1, <1>4, <2>1, Times DEF OddsInv, AloneOK
    <2>2. ASSUME NEW d \in check, ~overlapped, odds[d.match] >= d.at PROVE odds'[d.match] >= d.at
      BY <1>4, <2>1, <2>2, Times, OddsAssumption DEF OddsInv, OddsTyped, CheckRow
    <2>. QED BY <1>1, <2>2 DEF OddsInv, AvailableIsBacked
  <1>8. ASSUME NEW i \in Refreshers PROVE ExecutionOK(i)'
    <2>1. CASE i = j
      BY <1>1, <2>1 DEF Moves, OddsInv, ExecutionOK
    <2>2. CASE i # j
      BY <1>1, <2>2 DEF Moves, OddsInv, ExecutionOK
    <2>. QED BY <2>1, <2>2
  <1>9. ASSUME NEW i \in Refreshers, ~overlapped PROVE AloneOK(i)'
    <2>1. CASE i = j
      BY <1>1, <1>3, <1>4, <1>9, <2>1, Times DEF Moves, OddsInv, AloneOK, Spaced
    <2>2. CASE i # j
      BY <1>1, <1>9, <2>2 DEF Moves, OddsInv, AloneOK
    <2>. QED BY <2>1, <2>2
  <1>. QED BY <1>1, <1>5, <1>6, <1>7, <1>8, <1>9 DEF OddsInv

LEMMA WriteSnapshotStep ==
    ASSUME OddsInv, NEW j \in Refreshers, WriteSnapshot(j)
    PROVE  OddsInv'
  <1>1. /\ refresh[j].at = "snapshot" /\ Moves(j, "check")
        /\ UNCHANGED <<now, planned, kickoff, storing, odds, check, quota, overlapped, mishaps>>
    BY ExecutionMoves DEF WriteSnapshot, Refreshing, RefreshAt
  <1>2. PICK c \in refresh[j].current :
           snapshot' = snapshot \cup {[match |-> c.match, at |-> refresh[j].checkedAt]}
    BY DEF WriteSnapshot
  <1>3. c.match \in Matches /\ refresh[j].current = {c} /\ refresh[j].checkedAt \in 0..Horizon
    BY DEF OddsInv, OddsTyped, ExecutionOK, Execution, Candidate
  <1>4. OddsTyped'
    BY <1>1, <1>2, <1>3 DEF Moves, OddsInv, OddsTyped, Snapshot
  <1>5. PastOK' /\ ChecksAreSpaced' /\ AvailableIsBacked'
    BY <1>1, <1>2 DEF OddsInv, PastOK, ChecksAreSpaced, AvailableIsBacked
  <1>6. ASSUME NEW i \in Refreshers PROVE ExecutionOK(i)'
    <2>1. CASE i = j
      BY <1>1, <1>2, <1>3, <2>1 DEF Moves, OddsInv, ExecutionOK
    <2>2. CASE i # j
      BY <1>1, <1>2, <2>2 DEF Moves, OddsInv, ExecutionOK
    <2>. QED BY <2>1, <2>2
  <1>7. ASSUME NEW i \in Refreshers, ~overlapped PROVE AloneOK(i)'
    <2>1. CASE i = j
      BY <1>1, <1>7, <2>1 DEF Moves, OddsInv, AloneOK, Spaced
    <2>2. CASE i # j
      BY <1>1, <1>7, <2>2 DEF Moves, OddsInv, AloneOK
    <2>. QED BY <2>1, <2>2
  <1>. QED BY <1>1, <1>4, <1>5, <1>6, <1>7 DEF OddsInv

LEMMA WriteCheckStep ==
    ASSUME OddsInv, NEW j \in Refreshers, WriteCheck(j)
    PROVE  OddsInv'
  <1>. DEFINE t == refresh[j].checkedAt
              written(c) == [match |-> c.match, when |-> c.when, reason |-> c.reason,
                             status |-> Outcome(j, c), at |-> t]
  <1>1. /\ refresh[j].at = "check"
        /\ UNCHANGED <<now, planned, kickoff, storing, odds, snapshot, quota, overlapped, mishaps>>
        /\ check' = check \cup {written(c) : c \in refresh[j].current}
    BY DEF WriteCheck, Refreshing, Recorded
  <1>2. /\ refresh \in [Refreshers -> Execution] /\ refresh[j] \in Execution
        /\ t \in Nat /\ t \in 0..Horizon /\ t <= now
    BY Times DEF OddsInv, OddsTyped, ExecutionOK, Execution
  <1>3. /\ refresh' \in [Refreshers -> Execution]
        /\ refresh'[j].at \in {"idle", "next"} /\ refresh'[j].current = {}
        /\ refresh'[j].listed \in {{}, refresh[j].listed} /\ refresh'[j].checkedAt \in {0, t}
        /\ \A i \in Refreshers \ {j} : refresh'[i] = refresh[i]
    <2>1. CASE Rest(j)
      BY <1>2, <2>1, RestingIsExecution DEF Rest, Resting
    <2>2. CASE refresh' = [refresh EXCEPT ![j].at = "next", ![j].current = {}]
      BY <1>2, <2>2 DEF Execution, RefreshAt
    <2>. QED BY <2>1, <2>2 DEF WriteCheck
  <1>4. ASSUME NEW c \in refresh[j].current
        PROVE  /\ written(c) \in CheckRow /\ c \in Candidate
               /\ written(c).status = "available" => c \in refresh[j].offered
    <2>1. c \in Candidate
      BY <1>2 DEF Execution
    <2>2. Outcome(j, c) \in {"available", "unavailable", "error", "unsupported"}
      BY DEF Outcome
    <2>3. Outcome(j, c) = "available" => c \in refresh[j].offered
      BY DEF Outcome
    <2>. QED BY <1>2, <2>1, <2>2, <2>3 DEF Candidate, CheckRow
  <1>5. OddsTyped'
    BY <1>1, <1>3, <1>4 DEF OddsInv, OddsTyped
  <1>6. PastOK'
    BY <1>1, <1>2 DEF OddsInv, PastOK
  <1>7. AvailableIsBacked'
    <2>1. ASSUME NEW c \in refresh[j].current, written(c).status = "available"
          PROVE  /\ [match |-> c.match, at |-> t] \in snapshot
                 /\ ~overlapped => odds[c.match] >= t
      <3>1. c \in refresh[j].current \cap refresh[j].offered
        BY <1>4, <2>1
      <3>2. [match |-> c.match, at |-> t] \in snapshot
        BY <1>1, <3>1 DEF OddsInv, ExecutionOK
      <3>3. ~overlapped => odds[c.match] = t
        BY <1>1, <3>1 DEF OddsInv, AloneOK
      <3>. QED BY <1>2, <3>2, <3>3
    <2>. QED BY <1>1, <2>1 DEF OddsInv, AvailableIsBacked
  <1>8. ChecksAreSpaced'
    <2>. SUFFICES ASSUME ~overlapped, NEW c \in check', NEW d \in check',
                         c.match = d.match, c # d, c.at <= d.at
         PROVE  \/ d.reason = "daily" /\ c.at + Daily <= d.at
                \/ d.reason = "pre_match" /\ c.at + PreMatch < d.when
      BY <1>1 DEF ChecksAreSpaced
    <2>1. ASSUME NEW e \in refresh[j].current, NEW b \in check, b.match = e.match
          PROVE  /\ b.at < t
                 /\ \/ e.reason = "daily" /\ b.at + Daily <= t
                    \/ e.reason = "pre_match" /\ b.at + PreMatch < e.when
      <3>1. Spaced(e, t)
        BY <1>1 DEF OddsInv, AloneOK
      <3>2. \/ e.reason = "daily" /\ b.at + Daily <= t
            \/ e.reason = "pre_match" /\ b.at + PreMatch < e.when /\ e.when <= t + PreMatch
        BY <2>1, <3>1 DEF Spaced
      <3>3. e.when \in Nat /\ b.at \in Nat /\ t \in Nat /\ Daily \in Nat /\ Daily > 0 /\ PreMatch \in Nat
        BY <1>2, <1>4, Times
      <3>4. b.at + Daily <= t => b.at < t
        BY <3>3
      <3>5. b.at + PreMatch < e.when /\ e.when <= t + PreMatch => b.at < t
        BY <3>3
      <3>. QED BY <3>2, <3>4, <3>5
    <2>2. CASE c \in check /\ d \in check
      BY <2>2 DEF OddsInv, ChecksAreSpaced
    <2>3. CASE c \in check /\ d \notin check
      BY <1>1, <2>1, <2>3
    <2>4. CASE c \notin check /\ d \in check
      <3>1. d.at < t /\ c.at = t
        BY <1>1, <2>1, <2>4
      <3>. QED BY <1>2, <2>4, <3>1, Times
    <2>5. CASE c \notin check /\ d \notin check
      BY <1>1, <2>5 DEF OddsInv, ExecutionOK
    <2>. QED BY <2>2, <2>3, <2>4, <2>5
  <1>9. ASSUME NEW i \in Refreshers PROVE ExecutionOK(i)'
    <2>1. CASE i = j
      <3>1. IsFiniteSet({}) /\ Cardinality({}) = 0
        BY FS_EmptySet
      <3>2. IsFiniteSet(refresh'[j].listed) /\ Cardinality(refresh'[j].listed) <= MatchLimit
        <4>1. CASE refresh'[j].listed = {}
          BY <3>1, <4>1, OddsAssumption
        <4>2. CASE refresh'[j].listed = refresh[j].listed
          BY <4>2 DEF OddsInv, ExecutionOK
        <4>. QED BY <1>3, <4>1, <4>2
      <3>3. refresh'[j].checkedAt <= now
        BY <1>2, <1>3, Times
      <3>4. refresh'[j].listed \subseteq refresh[j].listed
        BY <1>3
      <3>. QED BY <1>1, <1>3, <2>1, <3>2, <3>3, <3>4 DEF OddsInv, ExecutionOK
    <2>2. CASE i # j
      BY <1>1, <1>3, <2>2 DEF OddsInv, ExecutionOK
    <2>. QED BY <2>1, <2>2
  <1>10. ASSUME NEW i \in Refreshers, ~overlapped PROVE AloneOK(i)'
    <2>1. CASE i = j
      <3>1. ASSUME NEW c \in refresh'[j].listed PROVE Spaced(c, now)'
        <4>1. c \in refresh[j].listed /\ Spaced(c, now)
          BY <1>1, <1>3, <1>10 DEF OddsInv, AloneOK
        <4>2. \A e \in refresh[j].current : e.match # c.match
          BY <4>1 DEF OddsInv, ExecutionOK
        <4>3. \A d \in check' : d.match = c.match => d \in check
          BY <1>1, <4>2
        <4>. QED BY <1>1, <4>1, <4>3 DEF Spaced
      <3>. QED BY <1>1, <1>3, <1>10, <2>1, <3>1 DEF OddsInv, AloneOK
    <2>2. CASE i # j
      BY <1>1, <1>3, <1>10, <2>2 DEF OddsInv, AloneOK
    <2>. QED BY <2>1, <2>2
  <1>. QED BY <1>1, <1>5, <1>6, <1>7, <1>8, <1>9, <1>10 DEF OddsInv

LEMMA OddsStep == OddsInv /\ [OddsNext]_oddsVars => OddsInv'
  <1>. SUFFICES ASSUME OddsInv, [OddsNext]_oddsVars PROVE OddsInv'
    OBVIOUS
  <1>1. CASE UNCHANGED oddsVars
    BY <1>1, Times, WorldStep DEF OddsInv, OddsTyped
  <1>2. CASE Tick \/ SpendQuota \/ ResetQuota \/ \E m \in Matches : Postpone(m)
    BY <1>2, WorldSteps
  <1>3. ASSUME NEW j \in Refreshers, Begin(j) \/ RefreshStep(j) \/ Break(j) PROVE OddsInv'
    BY <1>3, BeginStep, StoreFixtureStep, ListDueStep, AskStep, TakeUpStep, WriteOddsStep,
       WriteSnapshotStep, WriteCheckStep, BreakStep DEF RefreshStep
  <1>. QED BY <1>1, <1>2, <1>3 DEF OddsNext

\* However executions fail, overlap and are started again, a check that says odds are available is
\* backed by odds and a snapshot, and executions that do not overlap space their checks.
THEOREM OddsStayAccounted == OddsSpec => []OddsAreAccounted
BY OddsInitially, OddsStep, OddsInvImplies, PTL DEF OddsSpec

-----------------------------------------------------------------------------
(* CustomerSignIn                                                            *)

USE DEF signInVars

\* The inductive invariant.

LinkRow == [created : Nat, expires : Nat, used : SUBSET Nat]
AskingRow == [at : {"idle", "count", "insert", "mail"}, with : SUBSET Links]
Session == [link : Links, from : Nat]

SignInTyped ==
    /\ link \in [Links -> SUBSET LinkRow] /\ asking \in [SignIns -> AskingRow]
    /\ mailed \subseteq Links /\ session \subseteq Session

\* A link is stored once, and not in the future.
LinkOK(l) ==
    /\ \A a, b \in link[l] : a = b
    /\ \A row \in link[l] : row.created <= time

\* A session's link says that it was used.
SessionOK(s) ==
    \E row \in link[s.link] : s.from \in row.created..row.expires - 1 /\ row.used # {}

Bound == MaxRecent + Cardinality(SignIns) - 1

\* The links created between two moments, and the requests that counted and have yet to insert.
CreatedIn(times) == {l \in Stored : \E row \in link[l] : row.created \in times}
Inserting == {r \in SignIns : AskingAt(r, "insert")}

\* Of all windows, the one that ends now leaves room for the requests that may insert now.
RoomOK == Cardinality(RecentLinks) + Cardinality(Inserting) <= Bound

SignInInv ==
    /\ SignInTypeOK /\ SignInTyped
    /\ \A l \in Links : LinkOK(l)
    /\ \A s \in session : SessionOK(s)
    /\ \A s, u \in session : u.link = s.link => u = s
    /\ RoomOK /\ LinksAreLimited

-----------------------------------------------------------------------------
LEMMA SignInLimits ==
    /\ Bound \in Nat /\ Cardinality(SignIns) \in Nat /\ MaxRecent \in Nat /\ Recent \in Nat
    /\ Recent > 0 /\ MaxRecent > 0
    /\ \A S \in SUBSET Links : IsFiniteSet(S) /\ Cardinality(S) \in Nat
    /\ \A S \in SUBSET SignIns : IsFiniteSet(S) /\ Cardinality(S) \in Nat
                                 /\ Cardinality(S) <= Cardinality(SignIns)
BY SignInAssumption, FS_Subset, FS_CardinalityType DEF Bound

LEMMA SmallerSet ==
    ASSUME NEW S \in SUBSET Links, NEW T \in SUBSET S
    PROVE  Cardinality(T) <= Cardinality(S)
BY SignInAssumption, FS_Subset

LEMMA SignInInitially == SignInInit => SignInInv
  <1>. SUFFICES ASSUME SignInInit PROVE SignInInv
    OBVIOUS
  <1>1. Stored = {} /\ RecentLinks = {} /\ Inserting = {}
    BY DEF SignInInit, Stored, RecentLinks, Inserting, AskingAt
  <1>2. Cardinality({}) = 0
    BY FS_EmptySet
  <1>3. SignInTypeOK /\ SignInTyped
    BY SignInAssumption DEF SignInInit, SignInTypeOK, SignInTyped, Served, AskingRow
  <1>4. RoomOK
    BY <1>1, <1>2, SignInLimits DEF RoomOK
  <1>5. LinksAreLimited
    <2>1. \A t : {l \in Stored : \E row \in link[l] : row.created \in t..t + Recent - 1} = {}
      BY <1>1
    <2>2. 0 <= MaxRecent + Cardinality(SignIns) - 1
      BY SignInLimits
    <2>3. ASSUME NEW t \in 0..EndOfTime
          PROVE  Cardinality({l \in Stored : \E row \in link[l] : row.created \in t..t + Recent - 1})
                    <= MaxRecent + Cardinality(SignIns) - 1
      <3>1. Cardinality({l \in Stored : \E row \in link[l] : row.created \in t..t + Recent - 1}) = 0
        BY <1>2, <2>1
      <3>. QED BY <2>2, <3>1
    <2>. QED BY <2>3 DEF LinksAreLimited
  <1>6. \A l \in Links : LinkOK(l)
    BY DEF SignInInit, LinkOK
  <1>7. session = {}
    BY DEF SignInInit
  <1>. QED BY <1>3, <1>4, <1>5, <1>6, <1>7 DEF SignInInv

LEMMA SignInRows ==
    ASSUME SignInInv
    PROVE  /\ time \in Nat /\ time \in 0..EndOfTime
           /\ link \in [Links -> SUBSET LinkRow] /\ asking \in [SignIns -> AskingRow]
           /\ mailed \subseteq Links /\ session \subseteq Session
           /\ \A l \in Links : \A row \in link[l] : row.created \in Nat /\ row.created <= time
BY SignInAssumption DEF SignInInv, SignInTypeOK, SignInTyped, LinkOK, LinkRow

\* Steps that create no link keep the windows, and the room while no request comes to insert.
LEMMA WindowsKept ==
    ASSUME SignInInv, time <= time', time' \in Nat, Inserting' \subseteq Inserting,
           \A l \in Links : \A new \in link'[l] : \E row \in link[l] : new.created = row.created,
           Stored' = Stored
    PROVE  LinksAreLimited' /\ RoomOK'
  <1>1. RecentLinks' \subseteq RecentLinks /\ RecentLinks \subseteq Links
    BY SignInRows, SignInLimits DEF RecentLinks, Young, Stored
  <1>2. Cardinality(RecentLinks') <= Cardinality(RecentLinks)
    BY <1>1, SmallerSet
  <1>3. Inserting \subseteq SignIns /\ IsFiniteSet(Inserting)
    BY SignInLimits DEF Inserting
  <1>4. Cardinality(Inserting') <= Cardinality(Inserting)
    BY <1>3, FS_Subset
  <1>5. RoomOK'
    BY <1>1, <1>2, <1>3, <1>4, SignInLimits DEF SignInInv, RoomOK, Bound
  <1>6. ASSUME NEW t \in 0..EndOfTime
        PROVE  Cardinality(CreatedIn(t..t + Recent - 1)') <= Bound
    <2>1. CreatedIn(t..t + Recent - 1)' \subseteq CreatedIn(t..t + Recent - 1)
          /\ CreatedIn(t..t + Recent - 1) \subseteq Links
      BY DEF CreatedIn, Stored
    <2>2. Cardinality(CreatedIn(t..t + Recent - 1)) <= Bound
      BY DEF SignInInv, LinksAreLimited, CreatedIn, Bound
    <2>. QED BY <2>1, <2>2, SmallerSet, SignInLimits
  <1>. QED BY <1>5, <1>6 DEF LinksAreLimited, CreatedIn, Bound

\* Steps that store no link and open none.
LEMMA LinksKept ==
    ASSUME SignInInv, UNCHANGED <<link, session>>, time <= time', time' \in Nat,
           SignInTypeOK', mailed' \subseteq Links, asking' \in [SignIns -> AskingRow],
           RoomOK', LinksAreLimited'
    PROVE  SignInInv'
  <1>1. SignInTyped'
    BY SignInRows DEF SignInTyped
  <1>2. \A l \in Links : LinkOK(l)'
    BY SignInRows DEF SignInInv, LinkOK
  <1>3. \A s \in session : SessionOK(s)'
    BY DEF SignInInv, SessionOK
  <1>. QED BY <1>1, <1>2, <1>3 DEF SignInInv

\* What is stored, as the type invariant sees it.
LEMMA SignInTypes ==
    ASSUME SignInInv, link' = link, time <= time', time' \in 0..EndOfTime,
           status' \in Served \cup {"deactivated"}, erred' \in 0..MaxMailErrors,
           \A r \in SignIns : asking'[r].with \subseteq Stored, mailed' \subseteq Stored
    PROVE  SignInTypeOK'
  <1>1. Stored' = Stored
    BY DEF Stored
  <1>2. time \in Nat /\ time' \in Nat /\ 0..time \subseteq 0..time'
    BY SignInRows, SignInAssumption
  <1>. QED BY <1>1, <1>2 DEF SignInInv, SignInTypeOK

LEMMA AskMoves ==
    ASSUME SignInInv, NEW r \in SignIns, NEW step \in {"idle", "count", "insert", "mail"},
           NEW with \in SUBSET Links, Ask(r, step, with)
    PROVE  /\ asking' \in [SignIns -> AskingRow]
           /\ asking'[r].at = step /\ asking'[r].with = with
           /\ \A p \in SignIns \ {r} : asking'[p] = asking[p]
BY SignInRows DEF Ask, AskingRow

LEMMA WorldOfSignIns ==
    ASSUME SignInInv, TimePasses \/ \E s \in Served \cup {"deactivated"} : ChangeStatus(s)
    PROVE  SignInInv'
  <1>1. /\ UNCHANGED <<link, asking, mailed, session, erred>>
        /\ time' \in 0..EndOfTime /\ time' \in Nat /\ time <= time'
        /\ status' \in Served \cup {"deactivated"}
    BY SignInRows, SignInAssumption DEF TimePasses, ChangeStatus, SignInInv, SignInTypeOK
  <1>2. SignInTypeOK'
    BY <1>1, SignInTypes DEF SignInInv, SignInTypeOK
  <1>3. Stored' = Stored /\ Inserting' = Inserting
    BY <1>1 DEF Stored, Inserting, AskingAt
  <1>4. LinksAreLimited' /\ RoomOK'
    BY <1>1, <1>3, WindowsKept
  <1>. QED BY <1>1, <1>2, <1>4, SignInRows, LinksKept

\* A request moves on, other than to insert a link.
LEMMA AskMovesOn ==
    ASSUME SignInInv, NEW r \in SignIns, NEW step \in {"idle", "count"}, Ask(r, step, {}),
           UNCHANGED <<time, status, link, session>>, erred' \in 0..MaxMailErrors,
           mailed' \in {mailed, mailed \cup asking[r].with}
    PROVE  SignInInv'
  <1>1. /\ asking' \in [SignIns -> AskingRow]
        /\ asking'[r].at = step /\ asking'[r].with = {}
        /\ \A p \in SignIns \ {r} : asking'[p] = asking[p]
    BY AskMoves
  <1>2. \A p \in SignIns : asking[p].with \subseteq Stored
    BY DEF SignInInv, SignInTypeOK
  <1>3. SignInTypeOK'
    BY <1>1, <1>2, SignInRows, SignInTypes DEF SignInInv, SignInTypeOK
  <1>4. Stored' = Stored /\ Inserting' \subseteq Inserting /\ Stored \subseteq Links
    BY <1>1 DEF Stored, Inserting, AskingAt
  <1>5. LinksAreLimited' /\ RoomOK'
    BY <1>4, SignInRows, WindowsKept
  <1>. QED BY <1>1, <1>2, <1>3, <1>4, <1>5, SignInRows, LinksKept

LEMMA CountStep ==
    ASSUME SignInInv, NEW r \in SignIns, CountLinks(r)
    PROVE  SignInInv'
  <1>1. CASE Cardinality(RecentLinks) >= MaxRecent
    <2>1. Ask(r, "idle", {})
      BY <1>1 DEF CountLinks
    <2>. QED BY <2>1, AskMovesOn DEF CountLinks, SignInInv, SignInTypeOK
  <1>2. CASE ~(Cardinality(RecentLinks) >= MaxRecent)
    <2>1. Ask(r, "insert", {}) /\ UNCHANGED <<time, status, link, mailed, session, erred>>
      BY <1>2 DEF CountLinks
    <2>2. /\ asking' \in [SignIns -> AskingRow] /\ asking'[r].with = {}
          /\ \A p \in SignIns \ {r} : asking'[p] = asking[p]
      BY <2>1, AskMoves
    <2>3. SignInTypeOK'
      BY <2>1, <2>2, SignInRows, SignInTypes DEF SignInInv, SignInTypeOK
    <2>4. RecentLinks' = RecentLinks /\ RecentLinks \subseteq Links /\ Inserting' \subseteq SignIns
      BY <2>1 DEF RecentLinks, Young, Stored, Inserting
    <2>5. Cardinality(RecentLinks) <= MaxRecent - 1
      BY <1>2, <2>4, SignInLimits
    <2>6. Cardinality(Inserting') \in Nat /\ Cardinality(Inserting') <= Cardinality(SignIns)
      BY <2>4, SignInLimits
    <2>7. RoomOK'
      <3>1. Cardinality(RecentLinks) \in Nat
        BY <2>4, SignInLimits
      <3>. QED BY <2>4, <2>5, <2>6, <3>1, SignInLimits DEF RoomOK, Bound
    <2>8. LinksAreLimited'
      BY <2>1 DEF SignInInv, LinksAreLimited, Stored
    <2>. QED BY <2>1, <2>2, <2>3, <2>7, <2>8, SignInRows, LinksKept
  <1>. QED BY <1>1, <1>2

LEMMA InsertStep ==
    ASSUME SignInInv, NEW r \in SignIns, InsertLink(r)
    PROVE  SignInInv'
  <1>. DEFINE row0 == [created |-> time, expires |-> time + Lifetime, used |-> {}]
  <1>1. PICK l \in Links : /\ link[l] = {} /\ link' = [link EXCEPT ![l] = {row0}]
                           /\ Ask(r, "mail", {l})
    BY DEF InsertLink, Stored
  <1>2. AskingAt(r, "insert") /\ UNCHANGED <<time, status, mailed, session, erred>>
    BY DEF InsertLink
  <1>3. row0 \in LinkRow
    BY SignInRows, SignInAssumption DEF LinkRow
  <1>4. /\ link' \in [Links -> SUBSET LinkRow] /\ link'[l] = {row0}
        /\ \A k \in Links \ {l} : link'[k] = link[k]
    BY <1>1, <1>3, SignInRows
  <1>5. /\ asking' \in [SignIns -> AskingRow] /\ asking'[r].at = "mail" /\ asking'[r].with = {l}
        /\ \A p \in SignIns \ {r} : asking'[p] = asking[p]
    BY <1>1, AskMoves
  <1>6. Stored' = Stored \cup {l} /\ l \notin Stored /\ Stored \subseteq Links
    BY <1>1, <1>4 DEF Stored
  <1>7. SignInTypeOK'
    <2>1. ASSUME NEW k \in Links, NEW row \in link'[k]
          PROVE  row.created + Lifetime = row.expires /\ row.used \subseteq 0..time
      BY <1>4 DEF SignInInv, SignInTypeOK
    <2>2. \A p \in SignIns : asking'[p].with \subseteq Stored'
      BY <1>5, <1>6 DEF SignInInv, SignInTypeOK
    <2>3. mailed' \subseteq Stored'
      BY <1>2, <1>6 DEF SignInInv, SignInTypeOK
    <2>. QED BY <1>2, <2>1, <2>2, <2>3 DEF SignInInv, SignInTypeOK
  <1>8. SignInTyped'
    BY <1>2, <1>4, <1>5, SignInRows DEF SignInTyped
  <1>9. ASSUME NEW k \in Links PROVE LinkOK(k)'
    <2>1. CASE k = l
      <3>1. link'[k] = {row0} /\ row0.created = time
        BY <1>4, <2>1
      <3>2. row0.created <= time
        BY <3>1, SignInRows
      <3>. HIDE DEF row0
      <3>. QED BY <1>2, <3>1, <3>2 DEF LinkOK
    <2>2. CASE k # l
      BY <1>2, <1>4, <2>2 DEF SignInInv, LinkOK
    <2>. QED BY <2>1, <2>2
  <1>10. ASSUME NEW s \in session PROVE SessionOK(s)'
    <2>1. s.link \in Links /\ SessionOK(s)
      BY SignInRows DEF SignInInv, Session
    <2>. QED BY <1>1, <1>4, <2>1 DEF SessionOK
  <1>11. RoomOK'
    <2>1. RecentLinks' = RecentLinks \cup {l} /\ l \notin RecentLinks /\ RecentLinks \subseteq Links
      <3>1. Young(l)'
        BY <1>2, <1>4, SignInRows, SignInLimits DEF Young
      <3>2. \A k \in Links \ {l} : Young(k)' <=> Young(k)
        BY <1>2, <1>4 DEF Young
      <3>. QED BY <1>6, <3>1, <3>2 DEF RecentLinks
    <2>2. Inserting' = Inserting \ {r} /\ r \in Inserting /\ Inserting \subseteq SignIns
      BY <1>2, <1>5 DEF Inserting, AskingAt
    <2>3. Cardinality(RecentLinks') = Cardinality(RecentLinks) + 1
      BY <2>1, SignInLimits, FS_AddElement
    <2>4. Cardinality(Inserting') = Cardinality(Inserting) - 1
      BY <2>2, SignInLimits, FS_RemoveElement
    <2>5. Cardinality(RecentLinks) \in Nat /\ Cardinality(Inserting) \in Nat
      BY <2>1, <2>2, SignInLimits
    <2>. QED BY <2>3, <2>4, <2>5 DEF SignInInv, RoomOK, Bound
  <1>12. ASSUME NEW t \in 0..EndOfTime
         PROVE  Cardinality(CreatedIn(t..t + Recent - 1)') <= Bound
    <2>1. CASE time \in t..t + Recent - 1
      <3>1. CreatedIn(t..t + Recent - 1)' \subseteq RecentLinks'
        <4>1. ASSUME NEW k \in Links, NEW row \in link'[k], row.created \in t..t + Recent - 1
              PROVE  row.created + Recent > time
          BY <1>4, <2>1, <4>1, SignInRows, SignInLimits
        <4>. QED BY <1>2, <4>1 DEF CreatedIn, RecentLinks, Young, Stored
      <3>2. RecentLinks' \in SUBSET Links /\ Inserting' \in SUBSET SignIns
        BY DEF RecentLinks, Stored, Inserting
      <3>3. /\ Cardinality(RecentLinks') \in Nat /\ Cardinality(Inserting') \in Nat
            /\ Cardinality(CreatedIn(t..t + Recent - 1)') <= Cardinality(RecentLinks')
            /\ Cardinality(CreatedIn(t..t + Recent - 1)') \in Nat
        <4>1. CreatedIn(t..t + Recent - 1)' \in SUBSET Links
          BY <3>1, <3>2
        <4>. QED BY <3>1, <3>2, <4>1, SignInLimits, SmallerSet
      <3>. QED BY <1>11, <3>3, SignInLimits DEF RoomOK, Bound
    <2>2. CASE time \notin t..t + Recent - 1
      <3>1. CreatedIn(t..t + Recent - 1)' = CreatedIn(t..t + Recent - 1)
        BY <1>1, <1>4, <1>6, <2>2 DEF CreatedIn
      <3>. QED BY <3>1 DEF SignInInv, LinksAreLimited, CreatedIn, Bound
    <2>. QED BY <2>1, <2>2
  <1>13. LinksAreLimited'
    BY <1>12 DEF LinksAreLimited, CreatedIn, Bound
  <1>. QED BY <1>2, <1>7, <1>8, <1>9, <1>10, <1>11, <1>13 DEF SignInInv

LEMMA OpenStep ==
    ASSUME SignInInv, NEW l \in Links, OpenLink(l)
    PROVE  SignInInv'
  <1>1. PICK row \in link[l] : /\ row.used = {} /\ row.expires > time
                               /\ link' = [link EXCEPT ![l] = {[row EXCEPT !.used = @ \cup {time}]}]
    BY DEF OpenLink, Unspent
  <1>. DEFINE new == [row EXCEPT !.used = @ \cup {time}]
  <1>2. /\ UNCHANGED <<time, status, asking, mailed, erred>>
        /\ session' = session \cup {[link |-> l, from |-> time]}
    BY DEF OpenLink
  <1>3. /\ row \in LinkRow /\ new \in LinkRow /\ new.created = row.created /\ new.expires = row.expires
        /\ new.used = {time} /\ row.created <= time /\ link[l] = {row}
    BY <1>1, SignInRows DEF LinkRow, SignInInv, LinkOK
  <1>. HIDE DEF new
  <1>4. /\ link' \in [Links -> SUBSET LinkRow] /\ link'[l] = {new}
        /\ \A k \in Links \ {l} : link'[k] = link[k]
    BY <1>1, <1>3, SignInRows DEF new
  <1>5. Stored' = Stored /\ Inserting' = Inserting
    BY <1>2, <1>3, <1>4 DEF Stored, Inserting, AskingAt
  <1>6. SignInTypeOK'
    <2>1. ASSUME NEW k \in Links, NEW any \in link'[k]
          PROVE  any.created + Lifetime = any.expires /\ any.used \subseteq 0..time
      BY <1>1, <1>3, <1>4, SignInRows DEF SignInInv, SignInTypeOK
    <2>. QED BY <1>2, <1>5, <2>1 DEF SignInInv, SignInTypeOK
  <1>7. SignInTyped'
    BY <1>2, <1>4, SignInRows DEF SignInTyped, Session
  <1>8. ASSUME NEW k \in Links PROVE LinkOK(k)'
    BY <1>2, <1>3, <1>4, SignInRows DEF SignInInv, LinkOK
  <1>9. \A s \in session : s.link # l
    <2>. SUFFICES ASSUME NEW s \in session, s.link = l PROVE FALSE
      OBVIOUS
    <2>. QED BY <1>1, <1>3 DEF SignInInv, SessionOK
  <1>10. ASSUME NEW s \in session' PROVE SessionOK(s)'
    <2>1. CASE s \in session
      <3>1. s.link \in Links /\ s.link # l /\ SessionOK(s)
        BY <1>9, <2>1, SignInRows DEF SignInInv, Session
      <3>. QED BY <1>4, <3>1 DEF SessionOK
    <2>2. CASE s = [link |-> l, from |-> time]
      <3>1. time \in new.created..new.expires - 1
        BY <1>1, <1>3, SignInRows DEF LinkRow
      <3>. QED BY <1>3, <1>4, <2>2, <3>1 DEF SessionOK
    <2>. QED BY <1>2, <2>1, <2>2
  <1>11. \A s, u \in session' : u.link = s.link => u = s
    BY <1>2, <1>9 DEF SignInInv
  <1>12. LinksAreLimited' /\ RoomOK'
    <2>1. \A k \in Links : \A any \in link'[k] : \E old \in link[k] : any.created = old.created
      BY <1>1, <1>3, <1>4
    <2>. QED BY <1>2, <1>5, <2>1, SignInRows, WindowsKept
  <1>. QED BY <1>6, <1>7, <1>8, <1>10, <1>11, <1>12 DEF SignInInv

LEMMA SignInInductive == SignInInv /\ [SignInNext]_signInVars => SignInInv'
  <1>. SUFFICES ASSUME SignInInv, [SignInNext]_signInVars PROVE SignInInv'
    OBVIOUS
  <1>1. CASE UNCHANGED signInVars
    <2>1. Stored' = Stored /\ Inserting' = Inserting
      BY <1>1 DEF Stored, Inserting, AskingAt
    <2>2. LinksAreLimited' /\ RoomOK'
      BY <1>1, <2>1, SignInRows, WindowsKept
    <2>3. SignInTypeOK'
      BY <1>1, <2>1 DEF SignInInv, SignInTypeOK
    <2>. QED BY <1>1, <2>2, <2>3, SignInRows, LinksKept
  <1>2. CASE TimePasses \/ \E s \in Served \cup {"deactivated"} : ChangeStatus(s)
    BY <1>2, WorldOfSignIns
  <1>3. ASSUME NEW r \in SignIns, FindCustomer(r) \/ MailLink(r) \/ AskingFails(r) PROVE SignInInv'
    BY <1>3, AskMovesOn, SignInAssumption DEF FindCustomer, MailLink, AskingFails, SignInInv, SignInTypeOK
  <1>4. ASSUME NEW r \in SignIns, CountLinks(r) \/ InsertLink(r) PROVE SignInInv'
    BY <1>4, CountStep, InsertStep
  <1>5. ASSUME NEW l \in Links, OpenLink(l) PROVE SignInInv'
    BY <1>5, OpenStep
  <1>. QED BY <1>1, <1>2, <1>3, <1>4, <1>5 DEF SignInNext

LEMMA SignInsHold == SignInInv => SignInTypeOK /\ LinksAreLimited /\ OneSessionPerLink
BY DEF SignInInv, OneSessionPerLink, SessionOK

\* In every window of the length the code counts over, the links stored stay within the limit and
\* the requests that overlap; and a session goes back to one link, opened once and in time.
THEOREM LinksAndSessionsAreLimited == SignInSpec => [](SignInTypeOK /\ LinksAreLimited /\ OneSessionPerLink)
BY SignInsHold, SignInInitially, SignInInductive, PTL DEF SignInSpec

-----------------------------------------------------------------------------
(* AdminLogin                                                                *)

USE DEF loginVars

\* The inductive invariant.

Counter == [failures : 1..MaxFailures, resetAt : Nat]

LoginTyped ==
    /\ moment \in 0..LastMoment /\ restarts \in 0..MaxRestarts
    /\ limit \in [LimitKeys -> SUBSET Counter] /\ failed \in [LimitKeys -> Seq(Nat)]

\* A key has one counter, whose window has begun; its failures are in the past.
CounterOK(k) ==
    /\ \A c, d \in limit[k] : c = d
    /\ \A c \in limit[k] : c.resetAt \in Window..moment + Window
    /\ \A i \in DOMAIN failed[k] : failed[k][i] <= moment

FailuresIn(k, t) == {i \in DOMAIN failed[k] : failed[k][i] \in t..t + Window - 1}
Failures(k, t) == Cardinality(FailuresIn(k, t))
Forgotten == restarts * MaxFailures

\* While the window from t lasts, a counter that began in it stands for one round of failures at
\* most before its own, and one that began earlier counts a failure that is not in it.
CountOK(k, t) ==
    /\ Failures(k, t) <= Forgotten + 2 * MaxFailures - 1
    /\ t <= moment /\ moment < t + Window =>
          /\ Running(k) = {} => Failures(k, t) <= Forgotten + MaxFailures - 1
          /\ \A c \in Running(k) :
                Failures(k, t) <= Forgotten + c.failures - 1
                                  + (IF c.resetAt - Window >= t THEN MaxFailures ELSE 0)

LoginInv ==
    /\ LoginTyped
    /\ \A k \in LimitKeys : CounterOK(k)
    /\ \A k \in LimitKeys, t \in 0..LastMoment : CountOK(k, t)

-----------------------------------------------------------------------------
LEMMA LoginConstants ==
    /\ MaxFailures \in Nat /\ MaxFailures >= 1 /\ Window \in Nat /\ Window >= 1
    /\ LastMoment \in Nat /\ MaxRestarts \in Nat
BY LoginAssumption

LEMMA OncePerRestart ==
    ASSUME NEW e \in Nat, NEW m \in Nat
    PROVE  e * m \in Nat /\ (e + 1) * m = e * m + m /\ (e + 2) * m = e * m + 2 * m
OBVIOUS

LEMMA LoginRows ==
    ASSUME LoginInv
    PROVE  /\ moment \in Nat /\ moment <= LastMoment /\ restarts \in Nat /\ Forgotten \in Nat
           /\ limit \in [LimitKeys -> SUBSET Counter] /\ failed \in [LimitKeys -> Seq(Nat)]
           /\ \A k \in LimitKeys : \A c \in limit[k] :
                 /\ c \in Counter /\ c.failures \in Nat /\ c.failures >= 1 /\ c.failures <= MaxFailures
                 /\ c.resetAt \in Nat /\ c.resetAt >= Window /\ c.resetAt <= moment + Window
  <1>1. /\ moment \in Nat /\ moment <= LastMoment /\ restarts \in Nat
        /\ limit \in [LimitKeys -> SUBSET Counter] /\ failed \in [LimitKeys -> Seq(Nat)]
    BY LoginConstants DEF LoginInv, LoginTyped
  <1>2. Forgotten \in Nat
    BY <1>1, LoginConstants, OncePerRestart DEF Forgotten
  <1>3. ASSUME NEW k \in LimitKeys, NEW c \in limit[k]
        PROVE  /\ c \in Counter /\ c.failures \in Nat /\ c.failures >= 1 /\ c.failures <= MaxFailures
               /\ c.resetAt \in Nat /\ c.resetAt >= Window /\ c.resetAt <= moment + Window
    <2>1. c \in Counter /\ c.resetAt \in Window..moment + Window
      BY <1>1 DEF LoginInv, CounterOK
    <2>. QED BY <1>1, <2>1, LoginConstants DEF Counter
  <1>. QED BY <1>1, <1>2, <1>3

LEMMA FailuresCounted ==
    ASSUME LoginInv, NEW k \in LimitKeys, NEW t \in Nat
    PROVE  /\ IsFiniteSet(FailuresIn(k, t)) /\ Failures(k, t) \in Nat
           /\ moment < t => Failures(k, t) = 0
           /\ failed[k] \in Seq(Nat) /\ DOMAIN failed[k] = 1..Len(failed[k])
  <1>1. failed[k] \in Seq(Nat)
    BY LoginRows
  <1>2. DOMAIN failed[k] = 1..Len(failed[k]) /\ Len(failed[k]) \in Nat
    BY <1>1
  <1>3. IsFiniteSet(1..Len(failed[k])) /\ FailuresIn(k, t) \subseteq 1..Len(failed[k])
    BY <1>2, FS_Interval DEF FailuresIn
  <1>4. IsFiniteSet(FailuresIn(k, t)) /\ Failures(k, t) \in Nat
    BY <1>3, FS_Subset, FS_CardinalityType DEF Failures
  <1>5. ASSUME moment < t PROVE Failures(k, t) = 0
    <2>1. \A i \in DOMAIN failed[k] : failed[k][i] \in Nat /\ failed[k][i] <= moment
      BY <1>1, <1>2 DEF LoginInv, CounterOK
    <2>2. FailuresIn(k, t) = {}
      BY <1>5, <2>1, LoginRows, LoginConstants DEF FailuresIn
    <2>. QED BY <2>2, FS_EmptySet DEF Failures
  <1>. QED BY <1>1, <1>2, <1>4, <1>5

LEMMA LoginInitially == LoginInit => LoginInv
  <1>. SUFFICES ASSUME LoginInit PROVE LoginInv
    OBVIOUS
  <1>1. LoginTyped /\ moment = 0 /\ restarts = 0
    BY LoginConstants DEF LoginInit, LoginTyped
  <1>2. \A k \in LimitKeys : limit[k] = {} /\ failed[k] = <<>> /\ Running(k) = {}
    BY DEF LoginInit, Running
  <1>3. \A k \in LimitKeys : CounterOK(k)
    BY <1>2 DEF CounterOK
  <1>4. Forgotten = 0
    BY <1>1, LoginConstants DEF Forgotten
  <1>5. ASSUME NEW k \in LimitKeys, NEW t \in 0..LastMoment PROVE CountOK(k, t)
    <2>1. FailuresIn(k, t) = {}
      BY <1>2 DEF FailuresIn
    <2>2. Failures(k, t) = 0
      BY <2>1, FS_EmptySet DEF Failures
    <2>. QED BY <1>2, <1>4, <2>2, LoginConstants DEF CountOK
  <1>. QED BY <1>1, <1>3, <1>5 DEF LoginInv

\* A key whose failures a step leaves alone.
LEMMA SameFailures ==
    ASSUME NEW k \in LimitKeys, NEW t, failed'[k] = failed[k]
    PROVE  Failures(k, t)' = Failures(k, t)
BY DEF Failures, FailuresIn

\* A key whose counters and failures a step leaves alone, but for counters that expired.
LEMMA RestingKey ==
    ASSUME LoginInv, UNCHANGED <<moment, restarts>>, NEW k \in LimitKeys, failed'[k] = failed[k],
           limit'[k] \in {limit[k], Running(k)}
    PROVE  CounterOK(k)' /\ \A t \in 0..LastMoment : CountOK(k, t)'
  <1>1. limit'[k] \subseteq limit[k] /\ Running(k)' = Running(k)
    BY DEF Running
  <1>2. CounterOK(k)'
    BY <1>1 DEF LoginInv, CounterOK
  <1>3. ASSUME NEW t \in 0..LastMoment PROVE CountOK(k, t)'
    BY <1>1, SameFailures DEF LoginInv, CountOK, Forgotten
  <1>. QED BY <1>2, <1>3

LEMMA AdvanceKeeps == ASSUME LoginInv, Advance PROVE LoginInv'
  <1>1. moment' = moment + 1 /\ UNCHANGED <<limit, failed, restarts>> /\ moment' \in 0..LastMoment
    BY LoginRows, LoginConstants DEF Advance
  <1>2. LoginTyped'
    BY <1>1 DEF LoginInv, LoginTyped
  <1>3. ASSUME NEW k \in LimitKeys PROVE CounterOK(k)'
    <2>1. \A i \in DOMAIN failed[k] : failed[k][i] \in Nat
      <3>1. failed[k] \in Seq(Nat)
        BY LoginRows
      <3>. QED BY <3>1
    <2>. QED BY <1>1, <2>1, LoginRows, LoginConstants DEF LoginInv, CounterOK
  <1>4. ASSUME NEW k \in LimitKeys, NEW t \in 0..LastMoment PROVE CountOK(k, t)'
    <2>1. Failures(k, t)' = Failures(k, t) /\ Forgotten' = Forgotten /\ Failures(k, t) \in Nat /\ t \in Nat
      BY <1>1, SameFailures, FailuresCounted, LoginConstants DEF Forgotten
    <2>2. CountOK(k, t)
      BY DEF LoginInv
    <2>3. Running(k)' \subseteq Running(k) /\ Running(k) \subseteq limit[k]
      BY <1>1, LoginRows DEF Running
    <2>4. ASSUME t <= moment', moment' < t + Window
          PROVE  /\ Running(k)' = {} => Failures(k, t) <= Forgotten + MaxFailures - 1
                 /\ \A c \in Running(k)' :
                       Failures(k, t) <= Forgotten + c.failures - 1
                                         + (IF c.resetAt - Window >= t THEN MaxFailures ELSE 0)
      <3>1. CASE t = moment'
        <4>1. Failures(k, t) = 0
          BY <1>1, <2>1, <3>1, FailuresCounted, LoginRows
        <4>. QED BY <2>3, <4>1, LoginRows, LoginConstants
      <3>2. CASE t # moment'
        <4>1. t <= moment /\ moment < t + Window
          BY <1>1, <2>1, <2>4, <3>2, LoginRows, LoginConstants
        <4>2. ASSUME Running(k)' = {}, NEW c \in Running(k)
              PROVE  Failures(k, t) <= Forgotten + MaxFailures - 1
          <5>1. c.resetAt <= moment + 1 /\ c \in limit[k]
            BY <1>1, <2>3, <4>2, LoginRows DEF Running
          <5>2. c.resetAt - Window < t
            BY <1>1, <2>1, <2>4, <5>1, LoginRows, LoginConstants
          <5>3. Failures(k, t) <= Forgotten + c.failures - 1
            <6>1. ~(c.resetAt - Window >= t) /\ c.failures \in Nat /\ Forgotten \in Nat
              BY <2>1, <5>1, <5>2, LoginRows, LoginConstants
            <6>. QED BY <2>2, <4>1, <4>2, <6>1 DEF CountOK
          <5>. QED BY <2>1, <5>1, <5>3, LoginRows, LoginConstants
        <4>. QED BY <2>2, <2>3, <4>1, <4>2 DEF CountOK
      <3>. QED BY <3>1, <3>2
    <2>. QED BY <2>1, <2>2, <2>4 DEF CountOK
  <1>. QED BY <1>2, <1>3, <1>4 DEF LoginInv

LEMMA RestartKeeps == ASSUME LoginInv, Restart PROVE LoginInv'
  <1>1. /\ restarts' = restarts + 1 /\ UNCHANGED <<moment, failed>> /\ restarts' \in 0..MaxRestarts
        /\ limit' = [k \in LimitKeys |-> {}]
    BY LoginRows, LoginConstants DEF Restart
  <1>2. LoginTyped'
    BY <1>1 DEF LoginInv, LoginTyped
  <1>3. Forgotten' = Forgotten + MaxFailures
    BY <1>1, OncePerRestart, LoginRows, LoginConstants DEF Forgotten
  <1>4. ASSUME NEW k \in LimitKeys PROVE CounterOK(k)' /\ Running(k)' = {}
    BY <1>1 DEF LoginInv, CounterOK, Running
  <1>5. ASSUME NEW k \in LimitKeys, NEW t \in 0..LastMoment PROVE CountOK(k, t)'
    <2>1. Failures(k, t)' = Failures(k, t) /\ Failures(k, t) \in Nat /\ Forgotten \in Nat
      <3>1. t \in Nat
        BY LoginConstants
      <3>2. Failures(k, t) \in Nat /\ Forgotten \in Nat
        BY <3>1, FailuresCounted, LoginRows
      <3>. QED BY <1>1, <3>2, SameFailures
    <2>2. Failures(k, t) <= Forgotten + 2 * MaxFailures - 1
      BY DEF LoginInv, CountOK
    <2>. QED BY <1>3, <1>4, <2>1, <2>2, LoginConstants DEF CountOK
  <1>. QED BY <1>2, <1>4, <1>5 DEF LoginInv

LEMMA DenyKeeps ==
    ASSUME LoginInv, NEW email \in Admins, NEW address \in SUBSET Addresses, Deny(email, address)
    PROVE  LoginInv'
  <1>1. UNCHANGED <<moment, failed, restarts>> /\ limit' = Checked(KeysOfLogin(email, address))
    BY DEF Deny
  <1>2. \A k \in LimitKeys : limit'[k] \in {limit[k], Running(k)} /\ limit'[k] \subseteq limit[k]
    BY <1>1 DEF Checked, Running
  <1>3. LoginTyped'
    <2>1. limit' \in [LimitKeys -> SUBSET Counter]
      BY <1>1, <1>2, LoginRows DEF Checked
    <2>. QED BY <1>1, <2>1 DEF LoginInv, LoginTyped
  <1>. QED BY <1>1, <1>2, <1>3, RestingKey DEF LoginInv

\* A failure is counted once, in the window that runs or in a new one.
LEMMA CountedKey ==
    ASSUME LoginInv, UNCHANGED <<moment, restarts>>, NEW k \in LimitKeys, ~Blocks(k),
           failed'[k] = Append(failed[k], moment), limit'[k] = Counted(k)
    PROVE  limit'[k] \subseteq Counter /\ CounterOK(k)' /\ \A t \in 0..LastMoment : CountOK(k, t)'
  <1>1. failed[k] \in Seq(Nat) /\ moment \in Nat
    BY LoginRows
  <1>2. /\ failed'[k] \in Seq(Nat) /\ Len(failed'[k]) = Len(failed[k]) + 1 /\ Len(failed[k]) \in Nat
        /\ \A i \in 1..Len(failed[k]) : failed'[k][i] = failed[k][i]
        /\ failed'[k][Len(failed[k]) + 1] = moment
        /\ DOMAIN failed'[k] = 1..Len(failed[k]) + 1 /\ DOMAIN failed[k] = 1..Len(failed[k])
    BY <1>1, AppendProperties
  <1>3. \A c \in Running(k) : c \in limit[k] /\ c.failures < MaxFailures /\ c.resetAt > moment
    BY LoginRows, LoginConstants DEF Blocks, Running
  <1>0. \A t \in 0..LastMoment : t \in Nat
    BY LoginConstants
  <1>5. \A t \in Nat : Failures(k, t)' = Failures(k, t) + (IF moment \in t..t + Window - 1 THEN 1 ELSE 0)
    <2>. SUFFICES ASSUME NEW t \in Nat
                  PROVE  Failures(k, t)' = Failures(k, t) + (IF moment \in t..t + Window - 1 THEN 1 ELSE 0)
      OBVIOUS
    <2>. DEFINE last == Len(failed[k]) + 1
    <2>1. last \notin FailuresIn(k, t) /\ IsFiniteSet(FailuresIn(k, t)) /\ Failures(k, t) \in Nat
      <3>1. FailuresIn(k, t) \subseteq 1..Len(failed[k]) /\ last \notin 1..Len(failed[k])
        BY <1>2 DEF FailuresIn
      <3>. QED BY <3>1, FailuresCounted
    <2>2. FailuresIn(k, t)' = FailuresIn(k, t) \cup (IF moment \in t..t + Window - 1 THEN {last} ELSE {})
      BY <1>1, <1>2 DEF FailuresIn
    <2>. HIDE DEF last
    <2>3. Cardinality(FailuresIn(k, t) \cup {last}) = Failures(k, t) + 1
      BY <2>1, FS_AddElement DEF Failures
    <2>4. CASE moment \in t..t + Window - 1
      <3>1. Failures(k, t)' = Failures(k, t) + 1
        BY <2>2, <2>3, <2>4 DEF Failures
      <3>. QED BY <2>4, <3>1
    <2>5. CASE ~(moment \in t..t + Window - 1)
      <3>1. Failures(k, t)' = Failures(k, t)
        BY <2>2, <2>5 DEF Failures
      <3>. QED BY <2>1, <2>5, <3>1
    <2>. QED BY <2>4, <2>5
  <1>4. CASE Running(k) = {}
    <2>. DEFINE new == [failures |-> 1, resetAt |-> moment + Window]
    <2>1. limit'[k] = {new} /\ new \in Counter /\ new.failures = 1 /\ new.resetAt = moment + Window
      BY <1>1, <1>4, LoginConstants DEF Counted, Counter
    <2>. HIDE DEF new
    <2>2. Running(k)' = {new}
      BY <1>1, <2>1, LoginConstants DEF Running
    <2>3. CounterOK(k)'
      BY <1>1, <1>2, <2>1, LoginConstants DEF LoginInv, CounterOK
    <2>4. ASSUME NEW t \in 0..LastMoment PROVE CountOK(k, t)'
      <3>1. t \in Nat /\ Failures(k, t) \in Nat /\ CountOK(k, t) /\ Forgotten' = Forgotten /\ Forgotten \in Nat
        BY <1>0, FailuresCounted, LoginRows DEF LoginInv, Forgotten
      <3>2. CASE moment \in t..t + Window - 1
        <4>1. Failures(k, t)' = Failures(k, t) + 1
          BY <1>0, <3>2, <1>5
        <4>2. Failures(k, t) <= Forgotten + MaxFailures - 1
          BY <1>4, <3>1, <3>2, LoginConstants DEF CountOK
        <4>3. \A c \in Running(k)' : c.failures = 1 /\ c.resetAt - Window >= t
          BY <1>1, <2>1, <2>2, <3>1, <3>2, LoginConstants
        <4>4. Running(k)' # {}
          BY <2>2
        <4>. QED BY <3>1, <4>1, <4>2, <4>3, <4>4, LoginConstants DEF CountOK
      <3>3. CASE ~(moment \in t..t + Window - 1)
        BY <1>0, <1>1, <1>5, <3>1, <3>3, LoginConstants DEF CountOK
      <3>. QED BY <3>2, <3>3
    <2>. QED BY <2>1, <2>3, <2>4
  <1>6. CASE Running(k) # {}
    <2>1. PICK c \in Running(k) : TRUE
      BY <1>6
    <2>. DEFINE new == [c EXCEPT !.failures = @ + 1]
    <2>2. c \in limit[k] /\ c \in Counter /\ c.failures < MaxFailures /\ c.failures \in Nat
             /\ c.resetAt \in Window..moment + Window /\ c.resetAt > moment
      BY <1>3, <2>1, LoginRows DEF LoginInv, CounterOK
    <2>3. Running(k) = {c}
      BY <2>1, <2>2 DEF LoginInv, CounterOK, Running
    <2>4. new \in Counter /\ new.failures = c.failures + 1 /\ new.resetAt = c.resetAt
      BY <2>2, LoginConstants DEF Counter
    <2>5. limit'[k] = {new}
      BY <2>3 DEF Counted
    <2>. HIDE DEF new
    <2>6. Running(k)' = {new}
      BY <1>1, <2>2, <2>4, <2>5 DEF Running
    <2>7. CounterOK(k)'
      BY <1>1, <1>2, <2>2, <2>4, <2>5, LoginConstants DEF LoginInv, CounterOK
    <2>8. ASSUME NEW t \in 0..LastMoment PROVE CountOK(k, t)'
      <3>1. t \in Nat /\ Failures(k, t) \in Nat /\ CountOK(k, t) /\ Forgotten' = Forgotten /\ Forgotten \in Nat
        BY <1>0, FailuresCounted, LoginRows DEF LoginInv, Forgotten
      <3>2. CASE moment \in t..t + Window - 1
        <4>1. Failures(k, t)' = Failures(k, t) + 1
          BY <1>0, <3>2, <1>5
        <4>2. Failures(k, t) <= Forgotten + c.failures - 1
                                + (IF c.resetAt - Window >= t THEN MaxFailures ELSE 0)
          BY <2>3, <3>1, <3>2, LoginConstants DEF CountOK
        <4>3. Failures(k, t)' <= Forgotten + new.failures - 1
                                 + (IF new.resetAt - Window >= t THEN MaxFailures ELSE 0)
          BY <2>2, <2>4, <3>1, <4>1, <4>2, LoginConstants
        <4>4. Failures(k, t)' <= Forgotten + 2 * MaxFailures - 1
          BY <2>2, <2>4, <3>1, <4>1, <4>2, LoginConstants
        <4>. QED BY <2>6, <3>1, <4>3, <4>4 DEF CountOK
      <3>3. CASE ~(moment \in t..t + Window - 1)
        BY <1>0, <1>1, <1>5, <3>1, <3>3, LoginConstants DEF CountOK
      <3>. QED BY <3>2, <3>3
    <2>. QED BY <2>4, <2>5, <2>7, <2>8
  <1>. QED BY <1>4, <1>6

LEMMA AttemptKeeps ==
    ASSUME LoginInv, NEW email \in Admins, NEW address \in SUBSET Addresses,
           Refuse(email, address) \/ Admit(email, address)
    PROVE  LoginInv'
  <1>. DEFINE keys == KeysOfLogin(email, address)
  <1>1. UNCHANGED <<moment, restarts>> /\ Allowed(email, address)
    BY DEF Refuse, Admit
  <1>2. \A k \in keys : ~Blocks(k)
    BY <1>1 DEF Allowed
  <1>3. /\ limit' = [k \in LimitKeys |-> limit'[k]] /\ failed' = [k \in LimitKeys |-> failed'[k]]
        /\ \A k \in LimitKeys :
              \/ k \in keys /\ limit'[k] = Counted(k) /\ failed'[k] = Append(failed[k], moment)
              \/ k \in keys /\ limit'[k] = {} /\ failed'[k] = <<>>
              \/ limit'[k] = limit[k] /\ failed'[k] = failed[k]
    BY DEF Refuse, Admit
  <1>. HIDE DEF keys
  <1>4. ASSUME NEW k \in LimitKeys
        PROVE  /\ limit'[k] \subseteq Counter /\ failed'[k] \in Seq(Nat)
               /\ CounterOK(k)' /\ \A t \in 0..LastMoment : CountOK(k, t)'
    <2>0. failed[k] \in Seq(Nat) /\ limit[k] \subseteq Counter /\ moment \in Nat
      BY LoginRows
    <2>1. CASE k \in keys /\ limit'[k] = Counted(k) /\ failed'[k] = Append(failed[k], moment)
      <3>1. failed'[k] \in Seq(Nat)
        BY <2>0, <2>1, AppendProperties
      <3>. QED BY <1>1, <1>2, <2>1, <3>1, CountedKey
    <2>2. CASE k \in keys /\ limit'[k] = {} /\ failed'[k] = <<>>
      <3>1. CounterOK(k)' /\ Running(k)' = {} /\ failed'[k] \in Seq(Nat)
        BY <2>2 DEF CounterOK, Running
      <3>2. \A t : FailuresIn(k, t)' = {}
        BY <2>2 DEF FailuresIn
      <3>3. \A t : Failures(k, t)' = 0
        BY <3>2, FS_EmptySet DEF Failures
      <3>4. Forgotten' = Forgotten /\ Forgotten \in Nat
        BY <1>1, LoginRows DEF Forgotten
      <3>. QED BY <2>2, <3>1, <3>3, <3>4, LoginConstants DEF CountOK
    <2>3. CASE limit'[k] = limit[k] /\ failed'[k] = failed[k]
      BY <1>1, <2>0, <2>3, RestingKey
    <2>. QED BY <1>3, <2>1, <2>2, <2>3
  <1>5. LoginTyped'
    <2>1. limit' \in [LimitKeys -> SUBSET Counter] /\ failed' \in [LimitKeys -> Seq(Nat)]
      BY <1>3, <1>4
    <2>. QED BY <1>1, <2>1 DEF LoginInv, LoginTyped
  <1>. QED BY <1>4, <1>5 DEF LoginInv

LEMMA LoginInductive == LoginInv /\ [LoginNext]_loginVars => LoginInv'
  <1>. SUFFICES ASSUME LoginInv, [LoginNext]_loginVars PROVE LoginInv'
    OBVIOUS
  <1>1. CASE UNCHANGED loginVars
    <2>1. \A k \in LimitKeys : CounterOK(k)' /\ \A t \in 0..LastMoment : CountOK(k, t)'
      BY <1>1, RestingKey
    <2>2. LoginTyped'
      BY <1>1 DEF LoginInv, LoginTyped
    <2>. QED BY <2>1, <2>2 DEF LoginInv
  <1>2. CASE Advance \/ Restart
    BY <1>2, AdvanceKeeps, RestartKeeps
  <1>3. ASSUME NEW email \in Admins, NEW address \in {{}} \cup {{a} : a \in Addresses},
               Deny(email, address) \/ Refuse(email, address) \/ Admit(email, address)
        PROVE  LoginInv'
    <2>1. address \in SUBSET Addresses
      OBVIOUS
    <2>. QED BY <1>3, <2>1, DenyKeeps, AttemptKeeps
  <1>. QED BY <1>1, <1>2, <1>3 DEF LoginNext

LEMMA LoginLimits == LoginInv => LoginTypeOK /\ FailuresAreBounded
  <1>. SUFFICES ASSUME LoginInv PROVE LoginTypeOK /\ FailuresAreBounded
    OBVIOUS
  <1>1. ASSUME NEW k \in LimitKeys PROVE Cardinality(limit[k]) <= 1
    <2>1. CASE limit[k] = {}
      BY <2>1, FS_EmptySet
    <2>2. CASE limit[k] # {}
      <3>1. \E c \in limit[k] : limit[k] = {c}
        BY <2>2 DEF LoginInv, CounterOK
      <3>. QED BY <3>1, FS_Singleton
    <2>. QED BY <2>1, <2>2
  <1>2. LoginTypeOK
    BY <1>1, LoginRows DEF LoginInv, LoginTyped, CounterOK, LoginTypeOK
  <1>3. ASSUME NEW k \in LimitKeys, NEW t \in 0..LastMoment
        PROVE  Failures(k, t) <= (restarts + 2) * MaxFailures - 1
    <2>1. Failures(k, t) <= Forgotten + 2 * MaxFailures - 1
      BY DEF LoginInv, CountOK
    <2>2. (restarts + 2) * MaxFailures = Forgotten + 2 * MaxFailures
      BY OncePerRestart, LoginRows, LoginConstants DEF Forgotten
    <2>3. t \in Nat /\ Forgotten \in Nat /\ MaxFailures \in Nat /\ restarts \in Nat
      BY LoginRows, LoginConstants
    <2>4. Failures(k, t) \in Nat
      BY <2>3, FailuresCounted
    <2>. QED BY <2>1, <2>2, <2>3, <2>4
  <1>. QED BY <1>2, <1>3 DEF FailuresAreBounded, Failures, FailuresIn

\* Whatever logins meet, of however many administrators and addresses, within the length of a window
\* none fails twice as often as the limit allows, and once more for each restart.
THEOREM FailedLoginsAreLimited == LoginSpec => [](LoginTypeOK /\ FailuresAreBounded)
BY LoginInitially, LoginInductive, LoginLimits, PTL DEF LoginSpec

-----------------------------------------------------------------------------
(* The site                                                                  *)

\* The limits hold on the site, where a login or a sign-in is one scene of several.
THEOREM SiteIsLimited == SiteSpec => []SignInsAreLimited
  <1>1. SiteInit => SignInInv /\ LoginInv
    BY SignInInitially, LoginInitially DEF SiteInit
  <1>2. SignInInv /\ [SiteNext]_siteVars => SignInInv'
    <2>1. [SiteNext]_siteVars => [SignInNext]_signInVars
      BY DEF SiteNext, Billing, Refreshment, Backup, SignIn, Login, siteVars
    <2>. QED BY <2>1, SignInInductive
  <1>3. LoginInv /\ [SiteNext]_siteVars => LoginInv'
    <2>1. [SiteNext]_siteVars => [LoginNext]_loginVars
      BY DEF SiteNext, Billing, Refreshment, Backup, SignIn, Login, LoginStory, siteVars
    <2>. QED BY <2>1, LoginInductive
  <1>4. SignInInv /\ LoginInv => SignInsAreLimited
    BY SignInsHold, LoginLimits DEF SignInsAreLimited
  <1>. QED BY <1>1, <1>2, <1>3, <1>4, PTL DEF SiteSpec
=============================================================================
