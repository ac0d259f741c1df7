----------------------- MODULE PredictionArchiveProofs -----------------------
(***************************************************************************)
(* PredictionArchive: the types of its tables and processes; one row per     *)
(* profile, completeness of the archive, and the refinement of               *)
(* PredictionBook.                                                           *)
(***************************************************************************)
EXTENDS PredictionArchive, TLAPS

USE DEF matchVars, archiveVars, writeVars

-----------------------------------------------------------------------------
(* Types                                                                     *)

\* A process that is past a fixture's first statement knows the fixture.
RunOK(q) == q.at \in {"snapshot", "check", "ask"} => q.match \in Matches
ListOK(j) == j.at \in {"result", "snapshot"} => j.match \in Matches

\* A write belongs to an answer that was asked for.
CallOK == \A a \in Answers, p \in Profiles : write[a][p].at # "none" => call[a] # NoCall

\* The inductive strengthening of TypeOK.
Typed == /\ TypeOK
         /\ \A r \in Runs : RunOK(run[r])
         /\ \A s \in Scorers : ListOK(scorer[s])
         /\ \A s \in Syncers : ListOK(syncer[s])
         /\ CallOK

\* Records that hold nothing are well typed.
LEMMA IdleTypes == /\ IdleRun \in RunType /\ RunOK(IdleRun)
                   /\ IdleJob \in JobType /\ ListOK(IdleJob)
                   /\ NoWrite \in WriteType
BY DEF IdleRun, RunType, RunOK, IdleJob, JobType, ListOK, NoWrite, WriteType

\* A list makes a well typed job.
LEMMA NextJobType ==
    ASSUME NEW list \in SUBSET Matches
    PROVE  NextJob(list) \in JobType /\ ListOK(NextJob(list))
BY DEF NextJob, IdleJob, JobType, ListOK

\* So does what is left of a run after a fixture.
LEMMA LoopType ==
    ASSUME TypeOK, NEW r \in Runs, NEW n \in Nat
    PROVE  Loop(r, n) \in RunType /\ RunOK(Loop(r, n))
BY DEF Loop, IdleRun, TypeOK, RunType, RunOK

\* Spending a fault keeps the counters natural numbers.
LEMMA SpentType ==
    ASSUME faults \in [Faults -> Nat], NEW f \in Faults, Spend(f)
    PROVE  faults' \in [Faults -> Nat]
BY DEF Spend

\* A fetched list is one of fixtures and leaves the fault counters well typed.
LEMMA FetchedType ==
    ASSUME faults \in [Faults -> Nat], NEW all \in SUBSET Matches, NEW list, Fetched(list, all)
    PROVE  list \in SUBSET Matches /\ faults' \in [Faults -> Nat]
BY SpentType DEF Fetched, Faults

\* One run's record changes.
LEMMA RunChange ==
    ASSUME Typed, NEW r \in Runs, NEW q \in RunType, RunOK(q), run' = [run EXCEPT ![r] = q]
    PROVE  /\ run' \in [Runs -> RunType]
           /\ \A s \in Runs : RunOK(run'[s])
BY DEF Typed, TypeOK

\* One write's record changes, for an answer that was asked for.
LEMMA WriteChange ==
    ASSUME Typed, NEW a \in Answers, NEW p \in Profiles, NEW w \in WriteType, call[a] # NoCall,
           WriteStep(a, p, w), UNCHANGED call
    PROVE  /\ write' \in [Answers -> [Profiles -> WriteType]]
           /\ CallOK'
           /\ write'[a][p] = w
           /\ \A b \in Answers, o \in Profiles : <<b, o>> # <<a, p>> => write'[b][o] = write[b][o]
BY DEF Typed, TypeOK, WriteStep, CallOK

\* The steps of a run that store nothing in the archive preserve the types.
LEMMA TypedRun ==
    ASSUME Typed, NEW r \in Runs,
           \/ StartRun(r) \/ StoreMatch(r) \/ StoreSnapshot(r) \/ CheckProfile(r)
           \/ FinishFixture(r) \/ FinishRun(r) \/ AskFails(r) \/ FailRun(r)
    PROVE  Typed'
  <1> USE DEF Typed, TypeOK
  <1>0. run[r] \in RunType /\ RunOK(run[r])
    OBVIOUS
  <1>1. CASE StartRun(r)
    <2>1. PICK list \in SUBSET Matches :
             /\ Fetched(list, Listed("scheduled"))
             /\ run' = [run EXCEPT ![r] = [IdleRun EXCEPT !.at = "next", !.todo = list]]
      BY <1>1 DEF StartRun
    <2>2. Listed("scheduled") \in SUBSET Matches
      BY DEF Listed
    <2>3. faults' \in [Faults -> Nat]
      BY <2>1, <2>2, FetchedType
    <2>4. /\ [IdleRun EXCEPT !.at = "next", !.todo = list] \in RunType
          /\ RunOK([IdleRun EXCEPT !.at = "next", !.todo = list])
      BY DEF IdleRun, RunType, RunOK
    <2> QED BY <1>1, <2>1, <2>3, <2>4, RunChange DEF StartRun, RunUnchanged, CallOK
  <1>2. CASE StoreMatch(r)
    <2>1. PICK m \in run[r].todo :
             /\ StoreStatus(m, "scheduled")
             /\ run' = [run EXCEPT ![r].at = "snapshot", ![r].match = m,
                                   ![r].todo = run[r].todo \ {m}]
      BY <1>2 DEF StoreMatch
    <2> DEFINE q == [run[r] EXCEPT !.at = "snapshot", !.match = m, !.todo = run[r].todo \ {m}]
    <2>2. m \in Matches
      BY <1>0 DEF RunType
    <2>3. q \in RunType /\ RunOK(q)
      BY <1>0, <2>2 DEF RunType, RunOK
    <2>4. run' = [run EXCEPT ![r] = q]
      BY <2>1
    <2>5. status' \in [Matches -> Status \cup {"none"}]
      BY <2>1, <2>2 DEF StoreStatus, Status
    <2> QED BY <1>2, <2>3, <2>4, <2>5, RunChange DEF StoreMatch, RunUnchanged, CallOK
  <1>3. CASE StoreSnapshot(r)
    <2> DEFINE q == [run[r] EXCEPT !.at = "check", !.unchecked = Profiles, !.missing = {}]
    <2>1. run[r].match \in Matches
      BY <1>0, <1>3 DEF StoreSnapshot, RunOK
    <2>2. q \in RunType /\ RunOK(q)
      BY <1>0, <2>1 DEF RunType, RunOK
    <2>3. run' = [run EXCEPT ![r] = q]
      BY <1>3 DEF StoreSnapshot
    <2>4. snapshots' \subseteq Matches \X Status
      BY <1>3, <2>1 DEF StoreSnapshot, Status
    <2> QED BY <1>3, <2>2, <2>3, <2>4, RunChange DEF StoreSnapshot, RunUnchanged, CallOK
  <1>4. CASE CheckProfile(r)
    <2>1. PICK p \in run[r].unchecked :
             LET left == run[r].unchecked \ {p}
                 missing == IF Predicted(run[r].match, p) THEN run[r].missing
                            ELSE run[r].missing \cup {p}
                 q == [run[r] EXCEPT !.unchecked = left, !.missing = missing]
             IN  run' = [run EXCEPT ![r] =
                    IF left # {} THEN q
                    ELSE IF missing = {} THEN Loop(r, Attempts(r, missing))
                    ELSE [q EXCEPT !.at = "ask", !.attempted = Attempts(r, missing)]]
      BY <1>4 DEF CheckProfile
    <2> DEFINE left == run[r].unchecked \ {p}
               missing == IF Predicted(run[r].match, p) THEN run[r].missing
                          ELSE run[r].missing \cup {p}
               q == [run[r] EXCEPT !.unchecked = left, !.missing = missing]
               n == Attempts(r, missing)
    <2>2. p \in Profiles /\ missing \in SUBSET Profiles /\ left \in SUBSET Profiles
      BY <1>0 DEF RunType
    <2>3. n \in Nat
      <3>1. run[r].attempted \in Nat
        BY <1>0 DEF RunType
      <3>2. \A set : Attempts(r, set) \in Nat
        BY <3>1 DEF Attempts
      <3> QED BY <3>2
    <2>4. q \in RunType /\ RunOK(q)
      BY <1>0, <2>2 DEF RunType, RunOK
    <2>5. [q EXCEPT !.at = "ask", !.attempted = n] \in RunType
      BY <2>3, <2>4 DEF RunType
    <2>6. RunOK([q EXCEPT !.at = "ask", !.attempted = n])
      BY <1>0, <1>4 DEF CheckProfile, RunType, RunOK
    <2>7. Loop(r, n) \in RunType /\ RunOK(Loop(r, n))
      BY <2>3, LoopType
    <2> HIDE DEF q, n, left, missing
    <2>8. \E t \in RunType : RunOK(t) /\ run' = [run EXCEPT ![r] = t]
      BY <2>1, <2>4, <2>5, <2>6, <2>7 DEF q, n, left, missing
    <2> QED BY <1>4, <2>8, RunChange DEF CheckProfile, RunUnchanged, CallOK
  <1>5. CASE FinishFixture(r) \/ AskFails(r)
    <2>1. run[r].attempted \in Nat
      BY <1>0 DEF RunType
    <2>2. run' = [run EXCEPT ![r] = Loop(r, run[r].attempted)]
      BY <1>5 DEF FinishFixture, AskFails, NextFixture
    <2>3. faults' \in [Faults -> Nat]
      BY <1>5, SpentType DEF FinishFixture, AskFails, Faults
    <2> QED BY <1>5, <2>1, <2>2, <2>3, LoopType, RunChange
            DEF FinishFixture, AskFails, RunUnchanged, CallOK
  <1>6. CASE FinishRun(r) \/ FailRun(r)
    <2>1. faults' \in [Faults -> Nat]
      BY <1>6, SpentType DEF FinishRun, FailRun, Faults
    <2> QED BY <1>6, <2>1, IdleTypes, RunChange DEF FinishRun, FailRun, RunUnchanged, CallOK
  <1> QED BY <1>1, <1>2, <1>3, <1>4, <1>5, <1>6

\* Asking the model starts a write for each missing profile.
LEMMA TypedAsk ==
    ASSUME Typed, NEW r \in Runs, AskModel(r)
    PROVE  Typed'
  <1> USE DEF Typed, TypeOK
  <1> DEFINE a == NewAnswer
             w == [p \in Profiles |-> IF p \in run[r].missing THEN [NoWrite EXCEPT !.at = "lock"]
                                      ELSE NoWrite]
             c == [run |-> r, match |-> run[r].match]
             q == [run[r] EXCEPT !.at = "await", !.answer = a]
  <1>1. a \in Answers /\ call[a] = NoCall
    BY DEF AskModel, AnswersLeft, NewAnswer
  <1>2. c \in Calls /\ c # NoCall
    BY NullsAssumption DEF AskModel, RunOK, Calls
  <1>3. w \in [Profiles -> WriteType]
    BY DEF NoWrite, WriteType
  <1>4. q \in RunType /\ RunOK(q)
    <2>1. run[r] \in RunType
      OBVIOUS
    <2>2. q \in RunType
      BY <1>1, <2>1 DEF RunType
    <2>3. q.at = "await"
      BY <2>1 DEF RunType
    <2> QED BY <2>2, <2>3 DEF RunOK
  <1> HIDE DEF a, w, c, q
  <1>5. /\ call' = [call EXCEPT ![a] = c]
        /\ write' = [write EXCEPT ![a] = w]
        /\ run' = [run EXCEPT ![r] = q]
        /\ RunUnchanged /\ UNCHANGED <<matchVars, archiveVars, faults>>
    BY DEF AskModel, a, w, c, q
  <1>6. call' \in [Answers -> Calls \cup {NoCall}] /\ write' \in [Answers -> [Profiles -> WriteType]]
    BY <1>1, <1>2, <1>3, <1>5
  <1>7. CallOK'
    BY <1>1, <1>2, <1>5 DEF CallOK
  <1> QED BY <1>4, <1>5, <1>6, <1>7, RunChange DEF RunUnchanged

\* What a commit writes is a row and a revision of the answer.
LEMMA StoredType ==
    ASSUME Typed, NEW a \in Answers, NEW p \in Profiles, call[a] # NoCall
    PROVE  Stored(a, p) \in Rows /\ RowId(a, p) \in Answers /\ call[a] \in Calls
  <1>1. call[a] \in Calls /\ write[a][p] \in WriteType
    BY DEF Typed, TypeOK
  <1>2. call[a].match \in Matches /\ write[a][p].first \in Answers \cup {NoAnswer}
    BY <1>1 DEF Calls, WriteType
  <1> QED BY <1>1, <1>2 DEF Stored, RowId, Rows

\* The steps of a transaction preserve the types.
LEMMA TypedWrite ==
    ASSUME Typed, NEW a \in Answers, NEW p \in Profiles,
           ProperWriteStep(a, p) \/ Rollback(a, p) \/ CommitUnconfirmed(a, p)
    PROVE  Typed'
  <1>1. call[a] # NoCall /\ UNCHANGED call
    BY DEF Typed, CallOK, ProperWriteStep, TakeLock, FindRow, Commit, Rollback,
           CommitUnconfirmed, Writing, WriteUnchanged
  <1>2. write[a][p] \in WriteType
    BY DEF Typed, TypeOK
  <1>3. \E w \in WriteType : WriteStep(a, p, w)
    <2>1. CASE TakeLock(a, p)
      <3>1. [write[a][p] EXCEPT !.at = "find"] \in WriteType
        BY <1>2 DEF WriteType
      <3> QED BY <2>1, <3>1 DEF TakeLock
    <2>2. CASE FindRow(a, p)
      <3>1. \A f \in Answers \cup {NoAnswer} : [at |-> "commit", first |-> f] \in WriteType
        BY DEF WriteType
      <3>2. \A x \in predictions : x.first \in Answers
        BY DEF Typed, TypeOK, Rows
      <3> QED BY <2>2, <3>1, <3>2 DEF FindRow
    <2>3. CASE Commit(a, p) \/ CommitUnconfirmed(a, p) \/ Rollback(a, p)
      <3>1. \A at \in {"done", "failed"} : [NoWrite EXCEPT !.at = at] \in WriteType
        BY DEF NoWrite, WriteType
      <3> QED BY <2>3, <3>1 DEF Commit, CommitUnconfirmed, Rollback, RolledBack
    <2> QED BY <2>1, <2>2, <2>3 DEF ProperWriteStep
  <1>4. predictions' \subseteq Rows /\ revisions' \subseteq Revisions
    <2>1. Stored(a, p) \in Rows /\ Rows = Revisions
      BY <1>1, StoredType DEF Rows, Revisions
    <2> QED BY <2>1 DEF Typed, TypeOK, ProperWriteStep, TakeLock, FindRow, Commit, Rollback,
                        CommitUnconfirmed, Effects
  <1>5. faults' \in [Faults -> Nat]
    BY SpentType DEF Typed, TypeOK, ProperWriteStep, TakeLock, FindRow, Commit, Rollback,
                     CommitUnconfirmed, Faults
  <1>6. UNCHANGED <<provider, matchVars, run, call, scorer, syncer>>
    BY DEF ProperWriteStep, TakeLock, FindRow, Commit, Rollback, CommitUnconfirmed, WriteUnchanged
  <1>7. write' \in [Answers -> [Profiles -> WriteType]] /\ CallOK'
    BY <1>1, <1>3, WriteChange
  <1> QED BY <1>4, <1>5, <1>6, <1>7 DEF Typed, TypeOK

\* A crash fails the open writes of its run and no others.
LEMMA TypedCrash ==
    ASSUME Typed, NEW r \in Runs, Crash(r)
    PROVE  Typed'
  <1>1. [NoWrite EXCEPT !.at = "failed"] \in WriteType
    BY DEF NoWrite, WriteType
  <1>2. write' \in [Answers -> [Profiles -> WriteType]]
    BY <1>1 DEF Crash, Typed, TypeOK
  <1>3. CallOK'
    BY DEF Crash, Typed, CallOK, OpenWrite
  <1>4. faults' \in [Faults -> Nat]
    BY SpentType DEF Crash, Typed, TypeOK, Faults
  <1>5. run' \in [Runs -> RunType] /\ \A s \in Runs : RunOK(run'[s])
    BY IdleTypes, RunChange DEF Crash
  <1> QED BY <1>2, <1>3, <1>4, <1>5 DEF Crash, RunUnchanged, Typed, TypeOK

\* The score job preserves the types.
LEMMA TypedScorer ==
    ASSUME Typed, NEW s \in Scorers, StartScores(s) \/ ScorerStep(s) \/ FailScores(s)
    PROVE  Typed'
  <1> USE DEF Typed, TypeOK
  <1>1. scorer[s] \in JobType /\ ListOK(scorer[s]) /\ scorer[s].todo \in SUBSET Matches
    BY DEF JobType
  <1>2. \E j \in JobType : ListOK(j) /\ scorer' = [scorer EXCEPT ![s] = j]
    <2>1. CASE StartScores(s)
      BY <2>1, NextJobType DEF StartScores
    <2>2. CASE StoreFinalMatch(s)
      <3>1. \A m \in scorer[s].todo :
               LET j == [at |-> "result", match |-> m, todo |-> scorer[s].todo \ {m}]
               IN  j \in JobType /\ ListOK(j)
        BY <1>1 DEF JobType, ListOK
      <3> QED BY <2>2, <3>1 DEF StoreFinalMatch
    <2>3. CASE StoreResult(s)
      <3>1. [scorer[s] EXCEPT !.at = "snapshot"] \in JobType
        BY <1>1 DEF JobType
      <3>2. ListOK([scorer[s] EXCEPT !.at = "snapshot"])
        BY <1>1, <2>3 DEF StoreResult, JobType, ListOK
      <3> QED BY <2>3, <3>1, <3>2 DEF StoreResult
    <2>4. CASE StoreFinalSnapshot(s)
      BY <1>1, <2>4, NextJobType DEF StoreFinalSnapshot
    <2>5. CASE FailScores(s)
      BY <2>5, IdleTypes DEF FailScores
    <2> QED BY <2>1, <2>2, <2>3, <2>4, <2>5 DEF ScorerStep
  <1>3. scorer' \in [Scorers -> JobType] /\ \A t \in Scorers : ListOK(scorer'[t])
    BY <1>2
  <1>4. /\ status' \in [Matches -> Status \cup {"none"}]
        /\ scored' \in [Matches -> BOOLEAN]
        /\ snapshots' \subseteq Matches \X Status
    <2>1. \A m \in Matches : StoreStatus(m, "final") => status' \in [Matches -> Status \cup {"none"}]
      BY DEF StoreStatus, Status
    <2>2. CASE StartScores(s) \/ FailScores(s)
      BY <2>2 DEF StartScores, FailScores
    <2>3. CASE StoreFinalMatch(s)
      BY <1>1, <2>1, <2>3 DEF StoreFinalMatch
    <2>4. CASE StoreResult(s)
      <3>1. scorer[s].match \in Matches
        BY <1>1, <2>4 DEF StoreResult, ListOK
      <3> QED BY <2>1, <2>4, <3>1 DEF StoreResult
    <2>5. CASE StoreFinalSnapshot(s)
      <3>1. scorer[s].match \in Matches
        BY <1>1, <2>5 DEF StoreFinalSnapshot, ListOK
      <3> QED BY <2>5, <3>1 DEF StoreFinalSnapshot, Status
    <2> QED BY <2>2, <2>3, <2>4, <2>5 DEF ScorerStep
  <1>5. FinalResults \in SUBSET Matches
    BY DEF FinalResults, Listed
  <1>6. faults' \in [Faults -> Nat]
    BY <1>5, FetchedType, SpentType
    DEF StartScores, ScorerStep, StoreFinalMatch, StoreResult, StoreFinalSnapshot, FailScores, Faults
  <1> QED BY <1>3, <1>4, <1>6
    DEF StartScores, ScorerStep, StoreFinalMatch, StoreResult, StoreFinalSnapshot, FailScores,
        ScorerUnchanged, CallOK

\* The fixture job preserves the types.
LEMMA TypedSyncer ==
    ASSUME Typed, NEW s \in Syncers, StartSync(s) \/ SyncerStep(s) \/ FailSync(s)
    PROVE  Typed'
  <1> USE DEF Typed, TypeOK
  <1>1. syncer[s] \in JobType /\ ListOK(syncer[s]) /\ syncer[s].todo \in SUBSET Matches
    BY DEF JobType
  <1>2. \E j \in JobType : ListOK(j) /\ syncer' = [syncer EXCEPT ![s] = j]
    <2>1. CASE StartSync(s)
      BY <2>1, NextJobType DEF StartSync
    <2>2. CASE SyncMatch(s)
      <3>1. \A m \in syncer[s].todo :
               LET j == [at |-> "snapshot", match |-> m, todo |-> syncer[s].todo \ {m}]
               IN  j \in JobType /\ ListOK(j)
        BY <1>1 DEF JobType, ListOK
      <3> QED BY <2>2, <3>1 DEF SyncMatch
    <2>3. CASE SyncSnapshot(s)
      BY <1>1, <2>3, NextJobType DEF SyncSnapshot
    <2>4. CASE FailSync(s)
      BY <2>4, IdleTypes DEF FailSync
    <2> QED BY <2>1, <2>2, <2>3, <2>4 DEF SyncerStep
  <1>3. syncer' \in [Syncers -> JobType] /\ \A t \in Syncers : ListOK(syncer'[t])
    BY <1>2
  <1>4. /\ status' \in [Matches -> Status \cup {"none"}]
        /\ UNCHANGED scored
        /\ snapshots' \subseteq Matches \X Status
    BY <1>1 DEF StartSync, SyncerStep, SyncMatch, SyncSnapshot, FailSync, StoreStatus, Status, ListOK
  <1>5. Listed("scheduled") \in SUBSET Matches
    BY DEF Listed
  <1>6. faults' \in [Faults -> Nat]
    BY <1>5, FetchedType, SpentType
    DEF StartSync, SyncerStep, SyncMatch, SyncSnapshot, FailSync, Faults
  <1> QED BY <1>3, <1>4, <1>6
    DEF StartSync, SyncerStep, SyncMatch, SyncSnapshot, FailSync, SyncerUnchanged, CallOK

\* Typed holds initially.
LEMMA TypedInit == Init => Typed
BY IdleTypes DEF Init, Typed, TypeOK, CallOK, Status, NoWrite, WriteType

\* Typed is inductive.
LEMMA TypedNext == Typed /\ [Next]_vars => Typed'
  <1> SUFFICES ASSUME Typed, [Next]_vars PROVE Typed'
    OBVIOUS
  <1>1. ASSUME NEW m \in Matches, PlayMatch(m) \/ ListResult(m) PROVE Typed'
    BY <1>1 DEF PlayMatch, ListResult, ProviderStep, Typed, TypeOK, CallOK
  <1>2. ASSUME NEW r \in Runs, StartRun(r) \/ RunStep(r) PROVE Typed'
    BY <1>2, TypedRun, TypedAsk DEF RunStep
  <1>3. ASSUME NEW a \in Answers, NEW p \in Profiles, ProperWriteStep(a, p) PROVE Typed'
    BY <1>3, TypedWrite
  <1>4. ASSUME NEW s \in Scorers, StartScores(s) \/ ScorerStep(s) PROVE Typed'
    BY <1>4, TypedScorer
  <1>5. ASSUME NEW s \in Syncers, StartSync(s) \/ SyncerStep(s) PROVE Typed'
    BY <1>5, TypedSyncer
  <1>6. CASE FaultStep
    BY <1>6, TypedRun, TypedCrash, TypedWrite, TypedScorer, TypedSyncer DEF FaultStep
  <1>7. CASE UNCHANGED vars
    BY <1>7 DEF vars, Typed, TypeOK, CallOK
  <1> QED BY <1>1, <1>2, <1>3, <1>4, <1>5, <1>6, <1>7 DEF Next

\* Every table and process of the prediction jobs holds what the code can write there.
THEOREM ArchiveTypeCorrect == Spec => []TypeOK
  <1>1. Typed => TypeOK
    BY DEF Typed
  <1> QED BY <1>1, TypedInit, TypedNext, PTL DEF Spec

-----------------------------------------------------------------------------
(* The inductive invariant                                                   *)

\* The advisory lock has at most one holder.
LockExclusive ==
    \A a, b \in Answers, p \in Profiles :
        Holds(a, p) /\ Holds(b, p) /\ call[a].match = call[b].match => a = b

\* What a transaction found is still so when it commits.
FoundRow(a, p) ==
    IF write[a][p].first = NoAnswer
    THEN ~Predicted(call[a].match, p)
    ELSE \E x \in predictions : /\ x.match = call[a].match /\ x.profile = p
                                /\ x.first = write[a][p].first
FoundIsCurrent ==
    \A a \in Answers, p \in Profiles : write[a][p].at = "commit" => FoundRow(a, p)

\* An answer that is not stored yet is in no table.
Unstored(a, p) == \A x \in predictions \cup revisions :
                     x.profile = p => x.first # a /\ x.answer # a
AnswersAreFresh ==
    \A a \in Answers, p \in Profiles : Writing(a, p) \/ call[a] = NoCall => Unstored(a, p)

\* A row keeps the match of the answer that created it.
RowsKnown == \A x \in predictions \cup revisions :
                call[x.first] # NoCall /\ x.match = call[x.first].match

Safe == /\ LockExclusive /\ FoundIsCurrent /\ AnswersAreFresh /\ RowsKnown
        /\ OneRowPerProfile /\ AcknowledgedIsArchived

IInv == Typed /\ Safe

-----------------------------------------------------------------------------
(* Steps that store nothing                                                  *)

\* Writes go on unchanged, or fail.
GivenUp == \A a \in Answers, p \in Profiles :
              write'[a][p] = write[a][p] \/ write'[a][p].at = "failed"

\* Abandoning writes, or doing something else altogether, keeps the archive safe.
LEMMA SafeQuiet ==
    ASSUME IInv, UNCHANGED archiveVars, UNCHANGED call, GivenUp
    PROVE  Safe'
  <1> USE DEF IInv, Safe
  <1>1. \A a \in Answers, p \in Profiles :
           /\ Holds(a, p)' => Holds(a, p)
           /\ Writing(a, p)' => Writing(a, p)
           /\ write'[a][p].at \in {"commit", "done"} => write'[a][p] = write[a][p]
    BY DEF GivenUp, Holds, Writing
  <1>2. LockExclusive'
    BY <1>1 DEF LockExclusive
  <1>3. FoundIsCurrent'
    BY <1>1 DEF FoundIsCurrent, FoundRow, Predicted
  <1>4. AnswersAreFresh'
    BY <1>1 DEF AnswersAreFresh, Unstored
  <1>5. RowsKnown' /\ OneRowPerProfile'
    BY DEF RowsKnown, OneRowPerProfile
  <1>6. AcknowledgedIsArchived'
    BY <1>1 DEF AcknowledgedIsArchived
  <1> QED BY <1>2, <1>3, <1>4, <1>5, <1>6

\* A new answer's writes start without the lock and with nothing stored.
LEMMA SafeAsk ==
    ASSUME IInv, NEW r \in Runs, AskModel(r)
    PROVE  Safe'
  <1> USE DEF IInv, Safe
  <1> DEFINE n == NewAnswer
  <1>1. n \in Answers /\ call[n] = NoCall
    BY DEF AskModel, AnswersLeft, NewAnswer
  <1>2. UNCHANGED archiveVars
    BY DEF AskModel
  <1>3. write \in [Answers -> [Profiles -> WriteType]] /\ call \in [Answers -> Calls \cup {NoCall}]
    BY DEF Typed, TypeOK
  <1>4. /\ \A p \in Profiles : write'[n][p].at \in {"none", "lock"}
        /\ \A a \in Answers \ {n} : write'[a] = write[a] /\ call'[a] = call[a]
    BY <1>1, <1>3 DEF AskModel, NoWrite
  <1> HIDE DEF n
  <1>5. \A a \in Answers, p \in Profiles :
           /\ Holds(a, p)' => a # n /\ Holds(a, p)
           /\ Writing(a, p)' \/ call'[a] = NoCall => Writing(a, p) \/ call[a] = NoCall
           /\ write'[a][p].at \in {"commit", "done"} => a # n
    BY <1>1, <1>4 DEF Holds, Writing
  <1>6. LockExclusive'
    BY <1>4, <1>5 DEF LockExclusive
  <1>7. FoundIsCurrent'
    BY <1>2, <1>4, <1>5 DEF FoundIsCurrent, FoundRow, Predicted
  <1>8. AnswersAreFresh'
    BY <1>2, <1>5 DEF AnswersAreFresh, Unstored
  <1>9. RowsKnown'
    <2>1. \A x \in predictions \cup revisions : x.first \in Answers
      BY DEF Typed, TypeOK, Rows, Revisions
    <2> QED BY <1>1, <1>2, <1>4, <2>1 DEF RowsKnown
  <1>10. OneRowPerProfile'
    BY <1>2 DEF OneRowPerProfile
  <1>11. AcknowledgedIsArchived'
    BY <1>2, <1>4, <1>5 DEF AcknowledgedIsArchived
  <1> QED BY <1>6, <1>7, <1>8, <1>9, <1>10, <1>11

\* A lock is only taken when nobody holds it.
LEMMA SafeLock ==
    ASSUME IInv, NEW a \in Answers, NEW p \in Profiles, TakeLock(a, p)
    PROVE  Safe'
  <1> USE DEF IInv, Safe
  <1>1. UNCHANGED <<archiveVars, call>> /\ call[a] # NoCall
    BY DEF TakeLock, WriteUnchanged, Typed, CallOK
  <1>2. /\ write'[a][p].at = "find" /\ write[a][p].at = "lock"
        /\ \A b \in Answers, o \in Profiles : <<b, o>> # <<a, p>> => write'[b][o] = write[b][o]
    BY DEF TakeLock, WriteStep, Typed, TypeOK, WriteType
  <1>3. \A b \in Answers, o \in Profiles :
           /\ Writing(b, o)' => Writing(b, o)
           /\ Holds(b, o)' /\ <<b, o>> # <<a, p>> => Holds(b, o)
           /\ write'[b][o].at \in {"commit", "done"} => write'[b][o] = write[b][o]
    BY <1>2 DEF Writing, Holds
  <1>4. LockExclusive'
    <2>1. \A b \in Answers : Holds(b, p) => call[b] # NoCall
      BY DEF Typed, CallOK, Holds
    <2>2. \A b \in Answers : Holds(b, p) => call[b].match # call[a].match
      BY <2>1 DEF TakeLock, Locked
    <2> QED BY <1>1, <1>3, <2>2 DEF LockExclusive
  <1>5. FoundIsCurrent'
    BY <1>1, <1>3 DEF FoundIsCurrent, FoundRow, Predicted
  <1>6. AnswersAreFresh'
    BY <1>1, <1>3 DEF AnswersAreFresh, Unstored
  <1>7. RowsKnown' /\ OneRowPerProfile'
    BY <1>1 DEF RowsKnown, OneRowPerProfile
  <1>8. AcknowledgedIsArchived'
    BY <1>1, <1>3 DEF AcknowledgedIsArchived
  <1> QED BY <1>4, <1>5, <1>6, <1>7, <1>8

\* Looking finds what there is.
LEMMA SafeFind ==
    ASSUME IInv, NEW a \in Answers, NEW p \in Profiles, FindRow(a, p)
    PROVE  Safe'
  <1> USE DEF IInv, Safe
  <1>1. UNCHANGED <<archiveVars, call>>
    BY DEF FindRow, WriteUnchanged
  <1>2. /\ write'[a][p].at = "commit" /\ write[a][p].at = "find"
        /\ \A b \in Answers, o \in Profiles : <<b, o>> # <<a, p>> => write'[b][o] = write[b][o]
    BY DEF FindRow, WriteStep, Typed, TypeOK
  <1>3. \A b \in Answers, o \in Profiles :
           /\ Writing(b, o)' => Writing(b, o)
           /\ Holds(b, o)' => Holds(b, o)
           /\ write'[b][o].at = "done" => write'[b][o] = write[b][o]
           /\ write'[b][o].at = "commit" => <<b, o>> = <<a, p>> \/ write'[b][o] = write[b][o]
    BY <1>2 DEF Writing, Holds
  <1>4. LockExclusive'
    BY <1>1, <1>3 DEF LockExclusive
  <1>5. FoundIsCurrent'
    <2>1. FoundRow(a, p)'
      <3>1. CASE ~Predicted(call[a].match, p) /\ write'[a][p].first = NoAnswer
        BY <1>1, <3>1 DEF FoundRow, Predicted
      <3>2. CASE \E x \in predictions : /\ x.match = call[a].match /\ x.profile = p
                                        /\ write'[a][p].first = x.first
        <4>1. \A x \in predictions : x.first # NoAnswer
          BY NullsAssumption DEF Typed, TypeOK, Rows
        <4> QED BY <1>1, <3>2, <4>1 DEF FoundRow
      <3> QED BY <3>1, <3>2 DEF FindRow, WriteStep, Typed, TypeOK
    <2> QED BY <1>1, <1>3, <2>1 DEF FoundIsCurrent, FoundRow, Predicted
  <1>6. AnswersAreFresh'
    BY <1>1, <1>3 DEF AnswersAreFresh, Unstored
  <1>7. RowsKnown' /\ OneRowPerProfile'
    BY <1>1 DEF RowsKnown, OneRowPerProfile
  <1>8. AcknowledgedIsArchived'
    BY <1>1, <1>3 DEF AcknowledgedIsArchived
  <1> QED BY <1>4, <1>5, <1>6, <1>7, <1>8

-----------------------------------------------------------------------------
(* Committing                                                                *)

\* A commit takes place, whether or not its process learns of it.
Committing(a, p) ==
    /\ write[a][p].at = "commit" /\ Effects(a, p) /\ UNCHANGED call
    /\ \E at \in {"done", "failed"} : WriteStep(a, p, [NoWrite EXCEPT !.at = at])

\* What is known of the row and the answer when a transaction commits.
LEMMA CommitFacts ==
    ASSUME IInv, NEW a \in Answers, NEW p \in Profiles, write[a][p].at = "commit"
    PROVE  /\ call[a] # NoCall /\ call[a].match \in Matches
           /\ RowId(a, p) \in Answers
           /\ call[RowId(a, p)] # NoCall /\ call[RowId(a, p)].match = call[a].match
           /\ Unstored(a, p)
           /\ ~Archived(a, p)
           /\ \A x \in predictions : x.match = call[a].match /\ x.profile = p => IsRow(x, a, p)
           /\ \A x \in predictions : IsRow(x, a, p) => x.match = call[a].match
           /\ \A b \in Answers : b # a /\ Unstored(b, p) => RowId(a, p) # b
  <1> USE DEF IInv, Safe
  <1>1. call[a] # NoCall
    BY DEF Typed, CallOK
  <1>2. RowId(a, p) \in Answers /\ call[a].match \in Matches
    BY <1>1, StoredType DEF Calls
  <1>3. Unstored(a, p)
    BY DEF AnswersAreFresh, Writing
  <1>4. ~Archived(a, p)
    BY <1>3 DEF Archived, IsRow, Unstored
  <1>5. FoundRow(a, p)
    BY DEF FoundIsCurrent
  <1>6. CASE write[a][p].first = NoAnswer
    <2>1. RowId(a, p) = a /\ ~Predicted(call[a].match, p)
      BY <1>5, <1>6 DEF FoundRow, RowId
    <2> QED BY <1>1, <1>2, <1>3, <1>4, <2>1 DEF Predicted, Unstored, IsRow
  <1>7. CASE write[a][p].first # NoAnswer
    <2>1. PICK y \in predictions : /\ y.match = call[a].match /\ y.profile = p
                                   /\ y.first = write[a][p].first
      BY <1>5, <1>7 DEF FoundRow
    <2>2. RowId(a, p) = y.first
      BY <1>7, <2>1 DEF RowId
    <2>3. call[y.first] # NoCall /\ call[y.first].match = call[a].match
      BY <2>1 DEF RowsKnown
    <2>4. \A x \in predictions : x.match = call[a].match /\ x.profile = p => IsRow(x, a, p)
      BY <2>1, <2>2 DEF OneRowPerProfile, IsRow
    <2>5. \A x \in predictions : IsRow(x, a, p) => x.match = call[a].match
      BY <2>2, <2>3 DEF IsRow, RowsKnown
    <2>6. \A b \in Answers : b # a /\ Unstored(b, p) => RowId(a, p) # b
      BY <2>1, <2>2 DEF Unstored
    <2> QED BY <1>1, <1>2, <1>3, <1>4, <2>2, <2>3, <2>4, <2>5, <2>6
  <1> QED BY <1>6, <1>7

\* The tables after a commit, and the writes that are left.
LEMMA CommitTables ==
    ASSUME IInv, NEW a \in Answers, NEW p \in Profiles, Committing(a, p)
    PROVE  /\ predictions' = {x \in predictions : ~IsRow(x, a, p)} \cup {Stored(a, p)}
           /\ revisions' = revisions \cup {Stored(a, p)}
           /\ call' = call
           /\ write'[a][p].at \in {"done", "failed"}
           /\ \A b \in Answers, o \in Profiles : <<b, o>> # <<a, p>> => write'[b][o] = write[b][o]
           /\ Stored(a, p).match = call[a].match /\ Stored(a, p).profile = p
           /\ Stored(a, p).first = RowId(a, p) /\ Stored(a, p).answer = a
  <1>1. ~Archived(a, p)
    BY CommitFacts DEF Committing
  <1>2. PICK at \in {"done", "failed"} : WriteStep(a, p, [NoWrite EXCEPT !.at = at])
    BY DEF Committing
  <1>3. /\ write'[a][p].at = at
        /\ \A b \in Answers, o \in Profiles : <<b, o>> # <<a, p>> => write'[b][o] = write[b][o]
    BY <1>2 DEF IInv, Typed, TypeOK, WriteStep, NoWrite
  <1> QED BY <1>1, <1>3 DEF Committing, Effects, Stored

\* A commit keeps the archive safe.
LEMMA SafeCommit ==
    ASSUME IInv, NEW a \in Answers, NEW p \in Profiles, Committing(a, p)
    PROVE  Safe'
  <1> DEFINE new == Stored(a, p)
             id == RowId(a, p)
             m == call[a].match
  <1>1. /\ predictions' = {x \in predictions : ~IsRow(x, a, p)} \cup {new}
        /\ revisions' = revisions \cup {new}
        /\ call' = call
        /\ write'[a][p].at \in {"done", "failed"}
        /\ \A b \in Answers, o \in Profiles : <<b, o>> # <<a, p>> => write'[b][o] = write[b][o]
        /\ new.match = m /\ new.profile = p /\ new.first = id /\ new.answer = a
    BY CommitTables
  <1>2. /\ call[a] # NoCall /\ id \in Answers
        /\ call[id] # NoCall /\ call[id].match = m
        /\ Unstored(a, p)
        /\ \A x \in predictions : x.match = m /\ x.profile = p => IsRow(x, a, p)
        /\ \A x \in predictions : IsRow(x, a, p) => x.match = m
        /\ \A b \in Answers : b # a /\ Unstored(b, p) => id # b
    BY CommitFacts DEF Committing
  <1>3. write[a][p].at = "commit"
    BY DEF Committing
  <1> HIDE DEF new, id, m
  <1>4. \A b \in Answers, o \in Profiles :
           /\ Holds(b, o)' => <<b, o>> # <<a, p>> /\ Holds(b, o)
           /\ Writing(b, o)' => <<b, o>> # <<a, p>> /\ Writing(b, o)
           /\ write'[b][o].at = "commit" => <<b, o>> # <<a, p>> /\ write[b][o].at = "commit"
    BY <1>1 DEF Holds, Writing
  <1>5. LockExclusive'
    BY <1>1, <1>4 DEF IInv, Safe, LockExclusive
  <1>6. FoundIsCurrent'
    <2> SUFFICES ASSUME NEW b \in Answers, NEW o \in Profiles, write'[b][o].at = "commit"
                 PROVE  FoundRow(b, o)'
      BY DEF FoundIsCurrent
    <2>1. /\ <<b, o>> # <<a, p>> /\ write[b][o].at = "commit"
          /\ write'[b][o] = write[b][o] /\ FoundRow(b, o)
      BY <1>1, <1>4 DEF IInv, Safe, FoundIsCurrent
    <2>2. o # p \/ call[b].match # m
      BY <1>3, <2>1 DEF IInv, Safe, LockExclusive, Holds, m
    <2>3. \A x : x.match = call[b].match /\ x.profile = o =>
                    (x \in predictions' <=> x \in predictions)
      BY <1>1, <1>2, <2>2 DEF IsRow
    <2> QED BY <1>1, <2>1, <2>3 DEF FoundRow, Predicted
  <1>7. AnswersAreFresh'
    <2> SUFFICES ASSUME NEW b \in Answers, NEW o \in Profiles, Writing(b, o)' \/ call'[b] = NoCall
                 PROVE  Unstored(b, o)'
      BY DEF AnswersAreFresh
    <2>1. <<b, o>> # <<a, p>> /\ Unstored(b, o)
      BY <1>1, <1>2, <1>4 DEF IInv, Safe, AnswersAreFresh
    <2>2. new.profile = o => new.first # b /\ new.answer # b
      BY <1>1, <1>2, <2>1
    <2> QED BY <1>1, <2>1, <2>2 DEF Unstored
  <1>8. RowsKnown'
    BY <1>1, <1>2 DEF IInv, Safe, RowsKnown
  <1>9. OneRowPerProfile'
    BY <1>1, <1>2 DEF IInv, Safe, OneRowPerProfile
  <1>10. AcknowledgedIsArchived'
    <2> SUFFICES ASSUME NEW b \in Answers, NEW o \in Profiles, write'[b][o].at = "done"
                 PROVE  \E x \in predictions', v \in revisions' :
                           /\ x.match = call'[b].match /\ x.profile = o
                           /\ v.profile = o /\ v.first = x.first /\ v.answer = b
      BY DEF AcknowledgedIsArchived
    <2>1. CASE <<b, o>> = <<a, p>>
      BY <1>1, <2>1 DEF m
    <2>2. CASE <<b, o>> # <<a, p>>
      <3>1. PICK x \in predictions, v \in revisions :
               /\ x.match = call[b].match /\ x.profile = o
               /\ v.profile = o /\ v.first = x.first /\ v.answer = b
        BY <1>1, <2>2 DEF IInv, Safe, AcknowledgedIsArchived
      <3>2. CASE IsRow(x, a, p)
        <4>1. new.match = call[b].match /\ new.profile = o /\ v.first = new.first
          BY <1>1, <1>2, <3>1, <3>2 DEF IsRow, id
        <4> QED BY <1>1, <3>1, <4>1
      <3>3. CASE ~IsRow(x, a, p)
        BY <1>1, <3>1, <3>3
      <3> QED BY <3>2, <3>3
    <2> QED BY <2>1, <2>2
  <1> QED BY <1>5, <1>6, <1>7, <1>8, <1>9, <1>10 DEF Safe

-----------------------------------------------------------------------------
(* Every step                                                                *)

\* Every step is one of these, for the tables of the archive and the writes to them.
ArchiveStep ==
    \/ UNCHANGED archiveVars /\ UNCHANGED call /\ GivenUp
    \/ \E r \in Runs : AskModel(r)
    \/ \E a \in Answers, p \in Profiles : TakeLock(a, p) \/ FindRow(a, p) \/ Committing(a, p)

LEMMA EveryStep == IInv /\ [Next]_vars => ArchiveStep
  <1> SUFFICES ASSUME IInv, [Next]_vars PROVE ArchiveStep
    OBVIOUS
  <1>1. UNCHANGED write => GivenUp
    BY DEF GivenUp
  <1>2. ASSUME NEW r \in Runs, StartRun(r) \/ RunStep(r) PROVE ArchiveStep
    BY <1>1, <1>2 DEF ArchiveStep, RunStep, StartRun, StoreMatch, StoreSnapshot, CheckProfile,
                      FinishFixture, FinishRun
  <1>3. ASSUME NEW a \in Answers, NEW p \in Profiles,
               ProperWriteStep(a, p) \/ CommitUnconfirmed(a, p)
        PROVE  ArchiveStep
    <2>1. Commit(a, p) \/ CommitUnconfirmed(a, p) => Committing(a, p)
      BY DEF Commit, CommitUnconfirmed, Committing, WriteUnchanged
    <2> QED BY <1>3, <2>1 DEF ArchiveStep, ProperWriteStep
  <1>4. ASSUME NEW a \in Answers, NEW p \in Profiles, Rollback(a, p) PROVE ArchiveStep
    <2>1. \A b \in Answers, o \in Profiles :
             write'[b][o] = write[b][o] \/ write'[b][o].at = "failed"
      BY <1>4 DEF Rollback, RolledBack, WriteStep, NoWrite, IInv, Typed, TypeOK
    <2> QED BY <1>4, <2>1 DEF ArchiveStep, Rollback, WriteUnchanged, GivenUp
  <1>5. ASSUME NEW r \in Runs, Crash(r) PROVE ArchiveStep
    <2>1. [NoWrite EXCEPT !.at = "failed"].at = "failed"
      BY DEF NoWrite
    <2> QED BY <1>5, <2>1 DEF ArchiveStep, Crash, GivenUp
  <1>6. ASSUME NEW r \in Runs, AskFails(r) \/ FailRun(r) PROVE ArchiveStep
    BY <1>1, <1>6 DEF ArchiveStep, AskFails, FailRun
  <1>7. ASSUME NEW s \in Scorers, StartScores(s) \/ ScorerStep(s) \/ FailScores(s) PROVE ArchiveStep
    BY <1>1, <1>7 DEF ArchiveStep, ScorerStep, StartScores, StoreFinalMatch, StoreResult,
                      StoreFinalSnapshot, FailScores, ScorerUnchanged
  <1>8. ASSUME NEW s \in Syncers, StartSync(s) \/ SyncerStep(s) \/ FailSync(s) PROVE ArchiveStep
    BY <1>1, <1>8 DEF ArchiveStep, SyncerStep, StartSync, SyncMatch, SyncSnapshot, FailSync,
                      SyncerUnchanged
  <1>9. ASSUME NEW m \in Matches, PlayMatch(m) \/ ListResult(m) PROVE ArchiveStep
    BY <1>1, <1>9 DEF ArchiveStep, PlayMatch, ListResult, ProviderStep
  <1>10. CASE UNCHANGED vars
    BY <1>1, <1>10 DEF ArchiveStep, vars
  <1> QED BY <1>2, <1>3, <1>4, <1>5, <1>6, <1>7, <1>8, <1>9, <1>10 DEF Next, FaultStep

\* The invariant holds initially.
LEMMA IInvInit == Init => IInv
  <1> SUFFICES ASSUME Init PROVE Safe
    BY TypedInit DEF IInv
  <1>1. \A a \in Answers, p \in Profiles : write[a][p].at = "none"
    BY DEF Init, NoWrite
  <1> QED BY <1>1 DEF Init, Safe, LockExclusive, FoundIsCurrent, AnswersAreFresh, Unstored,
                      RowsKnown, OneRowPerProfile, AcknowledgedIsArchived, Holds

\* The invariant is inductive.
LEMMA IInvNext == IInv /\ [Next]_vars => IInv'
  <1>1. IInv /\ [Next]_vars => Typed'
    BY TypedNext DEF IInv
  <1>2. IInv /\ ArchiveStep => Safe'
    BY SafeQuiet, SafeAsk, SafeLock, SafeFind, SafeCommit DEF ArchiveStep
  <1> QED BY <1>1, <1>2, EveryStep DEF IInv

\* IInv holds throughout every behaviour.
LEMMA Invariant == Spec => []IInv
BY IInvInit, IInvNext, PTL DEF Spec

\* A match never gets two rows for one profile, whichever runs look for it at once.
THEOREM OneRow == Spec => []OneRowPerProfile
  <1>1. IInv => OneRowPerProfile
    BY DEF IInv, Safe
  <1> QED BY <1>1, Invariant, PTL

\* A write that was reported to its run is in the archive for good, under the row it updated.
THEOREM Acknowledged == Spec => []AcknowledgedIsArchived
  <1>1. IInv => AcknowledgedIsArchived
    BY DEF IInv, Safe
  <1> QED BY <1>1, Invariant, PTL

-----------------------------------------------------------------------------
(* The refinement of PredictionBook                                          *)

\* The current prediction is the answer of the one row there is.
RowsAreCurrent == \A x \in predictions : Current(x.match, x.profile) = x.answer

LEMMA CurrentIs == OneRowPerProfile => RowsAreCurrent
  <1> SUFFICES ASSUME OneRowPerProfile, NEW x \in predictions
               PROVE  Current(x.match, x.profile) = x.answer
    BY DEF RowsAreCurrent
  <1>1. Predicted(x.match, x.profile)
    BY DEF Predicted
  <1>2. \A y \in predictions : y.match = x.match /\ y.profile = x.profile => y = x
    BY DEF OneRowPerProfile
  <1> DEFINE c == CHOOSE y \in predictions : y.match = x.match /\ y.profile = x.profile
  <1>3. c \in predictions /\ c.match = x.match /\ c.profile = x.profile
    OBVIOUS
  <1>4. c = x
    BY <1>2, <1>3
  <1> QED BY <1>1, <1>4 DEF Current

\* A commit stores its answer in the book.
LEMMA CommitStores ==
    ASSUME RowsAreCurrent, RowsAreCurrent', IInv,
           NEW a \in Answers, NEW p \in Profiles, Committing(a, p)
    PROVE  Book!Store(call[a].match, p, a)
  <1> DEFINE new == Stored(a, p)
             m == call[a].match
  <1>1. /\ predictions' = {x \in predictions : ~IsRow(x, a, p)} \cup {new}
        /\ revisions' = revisions \cup {new}
        /\ new.match = m /\ new.profile = p /\ new.answer = a
    BY CommitTables
  <1>2. /\ m \in Matches
        /\ Unstored(a, p)
        /\ \A x \in predictions : IsRow(x, a, p) => x.match = m
    BY CommitFacts DEF Committing
  <1> HIDE DEF new, m
  <1>3. <<m, p, a>> \notin {<<v.match, v.profile, v.answer>> : v \in revisions}
    BY <1>2 DEF Unstored
  <1>4. {<<v.match, v.profile, v.answer>> : v \in revisions'}
        = {<<v.match, v.profile, v.answer>> : v \in revisions} \cup {<<m, p, a>>}
    BY <1>1
  <1>5. ASSUME NEW n \in Matches, n = m PROVE Current(n, p)' = a
    <2>1. PICK x \in predictions' : x.match = n /\ x.profile = p /\ x.answer = a
      BY <1>1, <1>5
    <2>2. Current(x.match, x.profile)' = x.answer
      BY <2>1 DEF RowsAreCurrent
    <2> QED BY <2>1, <2>2
  <1>6. ASSUME NEW n \in Matches, NEW o \in Profiles, <<n, o>> # <<m, p>>
        PROVE  Current(n, o)' = Current(n, o)
    <2>1. \A x : x.match = n /\ x.profile = o => (x \in predictions' <=> x \in predictions)
      BY <1>1, <1>2, <1>6 DEF IsRow
    <2>2. CASE \E x \in predictions : x.match = n /\ x.profile = o
      <3>1. PICK x \in predictions : x.match = n /\ x.profile = o
        BY <2>2
      <3>2. x \in predictions'
        BY <2>1, <3>1
      <3>3. Current(n, o) = x.answer
        BY <3>1 DEF RowsAreCurrent
      <3>4. Current(x.match, x.profile)' = x.answer
        BY <3>2 DEF RowsAreCurrent
      <3> QED BY <3>1, <3>3, <3>4
    <2>3. CASE ~\E x \in predictions : x.match = n /\ x.profile = o
      BY <2>1, <2>3 DEF Current, Predicted
    <2> QED BY <2>2, <2>3
  <1> HIDE DEF m
  <1>7. [n \in Matches |-> [o \in Profiles |-> Current(n, o)']]
        = [[n \in Matches |-> [o \in Profiles |-> Current(n, o)]] EXCEPT ![m][p] = a]
    <2>1. ASSUME NEW n \in Matches
          PROVE  [o \in Profiles |-> Current(n, o)']
                 = [[k \in Matches |-> [o \in Profiles |-> Current(k, o)]] EXCEPT ![m][p] = a][n]
      <3>1. CASE n = m
        <4>1. \A o \in Profiles : Current(n, o)' = IF o = p THEN a ELSE Current(n, o)
          BY <1>5, <1>6, <3>1
        <4> QED BY <1>2, <3>1, <4>1
      <3>2. CASE n # m
        <4>1. \A o \in Profiles : Current(n, o)' = Current(n, o)
          BY <1>6, <3>2
        <4> QED BY <1>2, <3>2, <4>1
      <3> QED BY <3>1, <3>2
    <2> QED BY <2>1
  <1> QED BY <1>3, <1>4, <1>7 DEF Book!Store, m

\* Steps that change no table of the archive leave the book alone.
LEMMA BookUnchanged ==
    ASSUME UNCHANGED archiveVars
    PROVE  UNCHANGED Book!book
BY DEF Book!book, Current, Predicted

\* The archive starts as an empty book.
LEMMA BookInit == Init => Book!Init
BY DEF Init, Book!Init, Current, Predicted

\* Every step stores one answer in the book, or leaves the book alone.
LEMMA BookNext ==
    IInv /\ RowsAreCurrent /\ RowsAreCurrent' /\ [Next]_vars => [Book!Next]_(Book!book)
  <1> SUFFICES ASSUME IInv, RowsAreCurrent, RowsAreCurrent', ArchiveStep PROVE [Book!Next]_(Book!book)
    BY EveryStep
  <1>1. CASE UNCHANGED archiveVars
    BY <1>1, BookUnchanged
  <1>2. CASE \E a \in Answers, p \in Profiles : Committing(a, p)
    <2>1. PICK a \in Answers, p \in Profiles : Committing(a, p)
      BY <1>2
    <2>2. call[a].match \in Matches
      BY <2>1, CommitFacts DEF Committing
    <2>3. Book!Store(call[a].match, p, a)
      BY <2>1, CommitStores
    <2> QED BY <2>2, <2>3 DEF Book!Next
  <1> QED BY <1>1, <1>2 DEF ArchiveStep, AskModel, TakeLock, FindRow

\* The current prediction and the archive change together, one answer at a time, and the
\* archive never shrinks, whatever overlaps, fails or is cut off.
THEOREM ArchiveImplementsBook == Spec => ImplementsBook
  <1>1. IInv => RowsAreCurrent
    BY CurrentIs DEF IInv, Safe
  <1> QED BY <1>1, Invariant, BookInit, BookNext, PTL DEF Spec, ImplementsBook, Book!Spec
=============================================================================
