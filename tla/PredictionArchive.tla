-------------------------- MODULE PredictionArchive --------------------------
(***************************************************************************)
(* The worker jobs that write matches and predictions: the prediction job   *)
(* (generate-upcoming-sport-api-predictions.ts), the live-score job, the    *)
(* fixture job, and the transaction that stores a prediction together with  *)
(* its revision (upsertStoredPrediction in packages/db/src/postgres.ts).    *)
(*                                                                          *)
(* The jobs sit in different queues and worker processes overlap while a    *)
(* deployment rolls, so all of them run at the same time.  Each statement   *)
(* and each call to the provider or the model is a step.  The statements    *)
(* inside the transaction are seen by nobody before its commit, so a write  *)
(* is three steps: taking the lock, looking for the row, committing.  The   *)
(* configured language model does not change; the order in which a run      *)
(* takes the fixtures is left open.                                         *)
(***************************************************************************)
EXTENDS Naturals, FiniteSets

CONSTANTS
    Matches,      \* fixtures of the supported competitions
    Profiles,     \* PUBLIC_PREDICTION_PROFILES
    Answers,      \* completed calls to the language model, named by response id
    Runs,         \* executions of the prediction job that can overlap
    Scorers,      \* executions of the live-score job that can overlap
    Syncers,      \* executions of the fixture job that can overlap
    FixtureLimit, \* PREDICTION_AUTOMATION_MAX_FIXTURES_PER_RUN
    NoMatch, NoAnswer, NoCall,
    MaxFaults     \* how many faults of each kind a behaviour may contain

Status == {"scheduled", "final"}
\* A result in the provider's list of recent games, and one it does not list, or lists
\* without its scores.
Results == {"final", "withheld"}
Faults == {"error", "outage", "uncertain"}

Calls == [run : Runs, match : Matches]

\* first, the answer that created the row, stands for the row's random id.
Rows == [match : Matches, profile : Profiles, first : Answers, answer : Answers]
Revisions == [match : Matches, profile : Profiles, first : Answers, answer : Answers]

ASSUME LimitAssumption == FixtureLimit \in Nat \ {0}
ASSUME ProfilesAssumption == Profiles # {}
ASSUME NullsAssumption == /\ NoMatch \notin Matches
                          /\ NoAnswer \notin Answers
                          /\ NoCall \notin Calls
ASSUME FaultsAssumption == MaxFaults \in [Faults -> Nat]

VARIABLES
    provider,     \* status of each fixture in the lists of the sports data provider
    \* Postgres
    status,       \* matches.status, or "none" without a row
    scored,       \* whether matches.home_score and away_score are set
    snapshots,    \* match_data_snapshots: <<match, status>> of a stored payload
    predictions,  \* committed rows of predictions
    revisions,    \* committed rows of prediction_revisions
    \* the worker processes
    run,          \* executions of the prediction job
    call,         \* for each answer the run and the match it was asked for
    write,        \* the transaction that stores an answer's profile
    scorer, syncer,
    faults

matchVars == <<status, scored, snapshots>>
archiveVars == <<predictions, revisions>>
writeVars == <<call, write>>
vars == <<provider, matchVars, archiveVars, run, writeVars, scorer, syncer, faults>>

IdleRun == [at |-> "idle", todo |-> {}, attempted |-> 0, match |-> NoMatch,
            unchecked |-> {}, missing |-> {}, answer |-> NoAnswer]
IdleJob == [at |-> "idle", todo |-> {}, match |-> NoMatch]
NextJob(todo) == IF todo = {} THEN IdleJob ELSE [IdleJob EXCEPT !.at = "next", !.todo = todo]
NoWrite == [at |-> "none", first |-> NoAnswer]

RunType == [at : {"idle", "next", "snapshot", "check", "ask", "await"},
            todo : SUBSET Matches, attempted : Nat, match : Matches \cup {NoMatch},
            unchecked : SUBSET Profiles, missing : SUBSET Profiles,
            answer : Answers \cup {NoAnswer}]
JobType == [at : {"idle", "next", "result", "snapshot"}, todo : SUBSET Matches,
            match : Matches \cup {NoMatch}]
WriteType == [at : {"none", "lock", "find", "commit", "done", "failed"},
              first : Answers \cup {NoAnswer}]

Spend(f) == /\ faults[f] < MaxFaults[f]
            /\ faults' = [faults EXCEPT ![f] = @ + 1]

Init ==
    /\ provider = [m \in Matches |-> "scheduled"]
    /\ status = [m \in Matches |-> "none"]
    /\ scored = [m \in Matches |-> FALSE]
    /\ snapshots = {} /\ predictions = {} /\ revisions = {}
    /\ run = [r \in Runs |-> IdleRun]
    /\ call = [a \in Answers |-> NoCall]
    /\ write = [a \in Answers |-> [p \in Profiles |-> NoWrite]]
    /\ scorer = [s \in Scorers |-> IdleJob]
    /\ syncer = [s \in Syncers |-> IdleJob]
    /\ faults = [f \in Faults |-> 0]

-----------------------------------------------------------------------------
(* The provider: a fixture is played, and its result comes and goes.         *)

ProviderStep(m, s) ==
    /\ provider' = [provider EXCEPT ![m] = s]
    /\ UNCHANGED <<matchVars, archiveVars, run, writeVars, scorer, syncer, faults>>

PlayMatch(m) == provider[m] = "scheduled" /\ \E s \in Results : ProviderStep(m, s)

ListResult(m) == provider[m] \in Results /\ \E s \in Results \ {provider[m]} : ProviderStep(m, s)

Listed(s) == {m \in Matches : provider[m] = s}

\* What a job gets to work on: a failed request to the provider loses fixtures, and a
\* job without any changes nothing.
Fetched(list, all) == /\ list # {}
                      /\ \/ list = all /\ UNCHANGED faults
                         \/ list \subseteq all /\ list # all /\ Spend("outage")

-----------------------------------------------------------------------------
(* The prediction job                                                        *)

\* The loop's variables end with each fixture.
Loop(r, attempted) == [IdleRun EXCEPT !.at = "next", !.todo = run[r].todo, !.attempted = attempted]
NextFixture(r) == run' = [run EXCEPT ![r] = Loop(r, run[r].attempted)]
RunUnchanged == UNCHANGED <<provider, scorer, syncer>>

\* Statuses are fetched once, before the first fixture is worked on.
StartRun(r) ==
    /\ run[r].at = "idle"
    /\ \E list \in SUBSET Matches :
          /\ Fetched(list, Listed("scheduled"))
          /\ run' = [run EXCEPT ![r] = [IdleRun EXCEPT !.at = "next", !.todo = list]]
    /\ RunUnchanged /\ UNCHANGED <<matchVars, archiveVars, writeVars>>

\* upsertPredictionMatch with a status from the provider's list.
StoreStatus(m, s) == status' = [status EXCEPT ![m] = s]

LimitReached(r) == run[r].attempted >= FixtureLimit

StoreMatch(r) ==
    /\ run[r].at = "next"
    /\ ~LimitReached(r)
    /\ \E m \in run[r].todo :
          /\ StoreStatus(m, "scheduled")
          /\ run' = [run EXCEPT ![r].at = "snapshot", ![r].match = m,
                                ![r].todo = run[r].todo \ {m}]
    /\ RunUnchanged /\ UNCHANGED <<scored, snapshots, archiveVars, writeVars, faults>>

StoreSnapshot(r) ==
    /\ run[r].at = "snapshot"
    /\ snapshots' = snapshots \cup {<<run[r].match, "scheduled">>}
    /\ run' = [run EXCEPT ![r].at = "check", ![r].unchecked = Profiles, ![r].missing = {}]
    /\ RunUnchanged /\ UNCHANGED <<status, scored, archiveVars, writeVars, faults>>

\* predictionProfileExists
Predicted(m, p) == \E x \in predictions : x.match = m /\ x.profile = p

\* Mutant: a fixture counts towards the limit before it is known to need a call.
AttemptsAll(r, missing) == run[r].attempted + 1
Attempts(r, missing) == run[r].attempted + (IF missing = {} THEN 0 ELSE 1)

CheckProfile(r) ==
    /\ run[r].at = "check"
    /\ \E p \in run[r].unchecked :
          LET left == run[r].unchecked \ {p}
              missing == IF Predicted(run[r].match, p) THEN run[r].missing
                         ELSE run[r].missing \cup {p}
              q == [run[r] EXCEPT !.unchecked = left, !.missing = missing]
          IN  run' = [run EXCEPT ![r] =
                 IF left # {} THEN q
                 ELSE IF missing = {} THEN Loop(r, Attempts(r, missing))
                 ELSE [q EXCEPT !.at = "ask", !.attempted = Attempts(r, missing)]]
    /\ RunUnchanged /\ UNCHANGED <<matchVars, archiveVars, writeVars, faults>>

AnswersLeft == \E a \in Answers : call[a] = NoCall
NewAnswer == CHOOSE a \in Answers : call[a] = NoCall

\* One call answers for every profile; only the missing ones are stored.
AskModel(r) ==
    /\ run[r].at = "ask"
    /\ AnswersLeft
    /\ call' = [call EXCEPT ![NewAnswer] = [run |-> r, match |-> run[r].match]]
    /\ write' = [write EXCEPT ![NewAnswer] =
                    [p \in Profiles |-> IF p \in run[r].missing
                                        THEN [NoWrite EXCEPT !.at = "lock"]
                                        ELSE NoWrite]]
    /\ run' = [run EXCEPT ![r].at = "await", ![r].answer = NewAnswer]
    /\ RunUnchanged /\ UNCHANGED <<matchVars, archiveVars, faults>>

\* Every retry failed: the fixture is left to a later run.
AskFails(r) ==
    /\ run[r].at = "ask"
    /\ Spend("error")
    /\ NextFixture(r)
    /\ RunUnchanged /\ UNCHANGED <<matchVars, archiveVars, writeVars>>

\* Promise.all: all writes are done, or one has failed and the others go on alone.
Awaited(r) == LET w == write[run[r].answer]
              IN  \/ \A p \in run[r].missing : w[p].at = "done"
                  \/ \E p \in run[r].missing : w[p].at = "failed"

FinishFixture(r) ==
    /\ run[r].at = "await"
    /\ Awaited(r)
    /\ NextFixture(r)
    /\ RunUnchanged /\ UNCHANGED <<matchVars, archiveVars, writeVars, faults>>

FinishRun(r) ==
    /\ run[r].at = "next"
    /\ run[r].todo = {} \/ LimitReached(r)
    /\ run' = [run EXCEPT ![r] = IdleRun]
    /\ RunUnchanged /\ UNCHANGED <<matchVars, archiveVars, writeVars, faults>>

\* A failed statement outside the try block ends the run.
FailRun(r) ==
    /\ run[r].at \in {"next", "snapshot", "check"}
    /\ Spend("error")
    /\ run' = [run EXCEPT ![r] = IdleRun]
    /\ RunUnchanged /\ UNCHANGED <<matchVars, archiveVars, writeVars>>

-----------------------------------------------------------------------------
(* upsertStoredPrediction                                                    *)

Writing(a, p) == write[a][p].at \in {"lock", "find", "commit"}
Holds(a, p) == write[a][p].at \in {"find", "commit"}
WriteStep(a, p, w) == write' = [write EXCEPT ![a][p] = w]
WriteUnchanged == UNCHANGED <<provider, matchVars, run, call, scorer, syncer>>

\* pg_advisory_xact_lock of the match and the profile's model id.
NeverLocked(m, p) == FALSE  \* mutant
Locked(m, p) == \E a \in Answers : call[a] # NoCall /\ call[a].match = m /\ Holds(a, p)

TakeLock(a, p) ==
    /\ write[a][p].at = "lock"
    /\ ~Locked(call[a].match, p)
    /\ WriteStep(a, p, [write[a][p] EXCEPT !.at = "find"])
    /\ WriteUnchanged /\ UNCHANGED <<archiveVars, faults>>

FindRow(a, p) ==
    /\ write[a][p].at = "find"
    /\ \/ /\ ~Predicted(call[a].match, p)
          /\ WriteStep(a, p, [at |-> "commit", first |-> NoAnswer])
       \/ \E x \in predictions :
             /\ x.match = call[a].match /\ x.profile = p
             /\ WriteStep(a, p, [at |-> "commit", first |-> x.first])
    /\ WriteUnchanged /\ UNCHANGED <<archiveVars, faults>>

\* The id of the row that is written: the one that was found, or a new one.
FoundId(a, p) == write[a][p].first  \* mutant
RowId(a, p) == IF write[a][p].first = NoAnswer THEN a ELSE write[a][p].first

Stored(a, p) == [match |-> call[a].match, profile |-> p, first |-> RowId(a, p), answer |-> a]

IsRow(x, a, p) == x.profile = p /\ x.first = RowId(a, p)

\* Mutant: any revision of the row counts as this answer's revision.
RowArchived(a, p) == \E v \in revisions : IsRow(v, a, p)
Archived(a, p) == \E v \in revisions : IsRow(v, a, p) /\ v.answer = a

\* The update or insert of the row, and the revision unless it is there already.
Effects(a, p) ==
    /\ predictions' = {x \in predictions : ~IsRow(x, a, p)} \cup {Stored(a, p)}
    /\ revisions' = IF Archived(a, p) THEN revisions ELSE revisions \cup {Stored(a, p)}

Commit(a, p) ==
    /\ write[a][p].at = "commit"
    /\ Effects(a, p)
    /\ WriteStep(a, p, [NoWrite EXCEPT !.at = "done"])
    /\ WriteUnchanged /\ UNCHANGED faults

\* Mutant: the error is not thrown again after the rollback.
Swallowed == "done"
RolledBack == "failed"

Rollback(a, p) ==
    /\ Writing(a, p)
    /\ Spend("error")
    /\ WriteStep(a, p, [NoWrite EXCEPT !.at = RolledBack])
    /\ WriteUnchanged /\ UNCHANGED archiveVars

\* The commit took place, but the connection was lost before its answer.
CommitUnconfirmed(a, p) ==
    /\ write[a][p].at = "commit"
    /\ Spend("uncertain")
    /\ Effects(a, p)
    /\ WriteStep(a, p, [NoWrite EXCEPT !.at = "failed"])
    /\ WriteUnchanged

OpenWrite(r, a, p) == call[a] # NoCall /\ call[a].run = r /\ Writing(a, p)

\* The process of a run ends, and its open transactions with it.
Crash(r) ==
    /\ run[r].at # "idle" \/ \E a \in Answers, p \in Profiles : OpenWrite(r, a, p)
    /\ Spend("error")
    /\ run' = [run EXCEPT ![r] = IdleRun]
    /\ write' = [a \in Answers |-> [p \in Profiles |->
                    IF OpenWrite(r, a, p) THEN [NoWrite EXCEPT !.at = "failed"]
                    ELSE write[a][p]]]
    /\ RunUnchanged /\ UNCHANGED <<matchVars, archiveVars, call>>

-----------------------------------------------------------------------------
(* syncLiveSportScores                                                       *)

ScorerUnchanged == UNCHANGED <<provider, archiveVars, run, writeVars, syncer>>

\* Mutant: a result that is stored already is not written again.
UnscoredResults == {m \in Listed("final") : ~scored[m]}
FinalResults == Listed("final")

StartScores(s) ==
    /\ scorer[s].at = "idle"
    /\ \E list \in SUBSET Matches :
          /\ Fetched(list, FinalResults)
          /\ scorer' = [scorer EXCEPT ![s] = NextJob(list)]
    /\ ScorerUnchanged /\ UNCHANGED matchVars

StoreFinalMatch(s) ==
    /\ scorer[s].at = "next"
    /\ \E m \in scorer[s].todo :
          /\ StoreStatus(m, "final")
          /\ scorer' = [scorer EXCEPT ![s] = [at |-> "result", match |-> m,
                                              todo |-> scorer[s].todo \ {m}]]
    /\ ScorerUnchanged /\ UNCHANGED <<scored, snapshots, faults>>

\* updatePredictionMatchFinalResult
StoreResult(s) ==
    /\ scorer[s].at = "result"
    /\ StoreStatus(scorer[s].match, "final")
    /\ scored' = [scored EXCEPT ![scorer[s].match] = TRUE]
    /\ scorer' = [scorer EXCEPT ![s].at = "snapshot"]
    /\ ScorerUnchanged /\ UNCHANGED <<snapshots, faults>>

StoreFinalSnapshot(s) ==
    /\ scorer[s].at = "snapshot"
    /\ snapshots' = snapshots \cup {<<scorer[s].match, "final">>}
    /\ scorer' = [scorer EXCEPT ![s] = NextJob(scorer[s].todo)]
    /\ ScorerUnchanged /\ UNCHANGED <<status, scored, faults>>

\* A failed statement, or the end of the process: the job is not retried.
FailScores(s) ==
    /\ scorer[s].at # "idle"
    /\ Spend("error")
    /\ scorer' = [scorer EXCEPT ![s] = IdleJob]
    /\ ScorerUnchanged /\ UNCHANGED matchVars

-----------------------------------------------------------------------------
(* syncUpcomingSportFixtures                                                 *)

SyncerUnchanged == UNCHANGED <<provider, archiveVars, run, writeVars, scorer>>

StartSync(s) ==
    /\ syncer[s].at = "idle"
    /\ \E list \in SUBSET Matches :
          /\ Fetched(list, Listed("scheduled"))
          /\ syncer' = [syncer EXCEPT ![s] = NextJob(list)]
    /\ SyncerUnchanged /\ UNCHANGED matchVars

SyncMatch(s) ==
    /\ syncer[s].at = "next"
    /\ \E m \in syncer[s].todo :
          /\ StoreStatus(m, "scheduled")
          /\ syncer' = [syncer EXCEPT ![s] = [at |-> "snapshot", match |-> m,
                                              todo |-> syncer[s].todo \ {m}]]
    /\ SyncerUnchanged /\ UNCHANGED <<scored, snapshots, faults>>

SyncSnapshot(s) ==
    /\ syncer[s].at = "snapshot"
    /\ snapshots' = snapshots \cup {<<syncer[s].match, "scheduled">>}
    /\ syncer' = [syncer EXCEPT ![s] = NextJob(syncer[s].todo)]
    /\ SyncerUnchanged /\ UNCHANGED <<status, scored, faults>>

FailSync(s) ==
    /\ syncer[s].at # "idle"
    /\ Spend("error")
    /\ syncer' = [syncer EXCEPT ![s] = IdleJob]
    /\ SyncerUnchanged /\ UNCHANGED matchVars

-----------------------------------------------------------------------------
RunStep(r) == \/ StoreMatch(r) \/ StoreSnapshot(r) \/ CheckProfile(r) \/ AskModel(r)
              \/ FinishFixture(r) \/ FinishRun(r)

ProperWriteStep(a, p) == TakeLock(a, p) \/ FindRow(a, p) \/ Commit(a, p)

ScorerStep(s) == StoreFinalMatch(s) \/ StoreResult(s) \/ StoreFinalSnapshot(s)
SyncerStep(s) == SyncMatch(s) \/ SyncSnapshot(s)

FaultStep == \/ \E r \in Runs : AskFails(r) \/ FailRun(r) \/ Crash(r)
             \/ \E a \in Answers, p \in Profiles : Rollback(a, p) \/ CommitUnconfirmed(a, p)
             \/ \E s \in Scorers : FailScores(s)
             \/ \E s \in Syncers : FailSync(s)

Next == \/ \E m \in Matches : PlayMatch(m) \/ ListResult(m)
        \/ \E r \in Runs : StartRun(r) \/ RunStep(r)
        \/ \E a \in Answers, p \in Profiles : ProperWriteStep(a, p)
        \/ \E s \in Scorers : StartScores(s) \/ ScorerStep(s)
        \/ \E s \in Syncers : StartSync(s) \/ SyncerStep(s)
        \/ FaultStep

Spec == Init /\ [][Next]_vars

\* The queue repeats the jobs, and what runs goes on; a waiting transaction gets
\* the lock when its holder ends.  Nothing makes a fixture be played, a result be listed, or
\* anything fail.
Fairness ==
    /\ \A r \in Runs : WF_vars(StartRun(r)) /\ WF_vars(RunStep(r))
    /\ \A a \in Answers, p \in Profiles : WF_vars(ProperWriteStep(a, p))
    /\ \A s \in Scorers : WF_vars(StartScores(s)) /\ WF_vars(ScorerStep(s))
    /\ \A s \in Syncers : WF_vars(SyncerStep(s))

FairSpec == Spec /\ Fairness

-----------------------------------------------------------------------------
(* Properties                                                                *)

\* Every table and process holds what the code can write there.
TypeOK ==
    /\ provider \in [Matches -> {"scheduled"} \cup Results]
    /\ status \in [Matches -> Status \cup {"none"}]
    /\ scored \in [Matches -> BOOLEAN]
    /\ snapshots \subseteq Matches \X Status
    /\ predictions \subseteq Rows
    /\ revisions \subseteq Revisions
    /\ run \in [Runs -> RunType]
    /\ call \in [Answers -> Calls \cup {NoCall}]
    /\ write \in [Answers -> [Profiles -> WriteType]]
    /\ scorer \in [Scorers -> JobType]
    /\ syncer \in [Syncers -> JobType]
    /\ faults \in [Faults -> Nat]

\* Whatever runs overlap, and without help from a unique index, a match has one row per
\* profile: the advisory lock makes "look, then insert" one step.
OneRowPerProfile ==
    \A x, y \in predictions : x.match = y.match /\ x.profile = y.profile => x = y

\* What a run counts as created is in the archive, under the row readers see.
AcknowledgedIsArchived ==
    \A a \in Answers, p \in Profiles : write[a][p].at = "done" =>
        \E x \in predictions, v \in revisions :
            /\ x.match = call[a].match /\ x.profile = p
            /\ v.profile = p /\ v.first = x.first /\ v.answer = a

Current(m, p) == IF Predicted(m, p)
                 THEN (CHOOSE x \in predictions : x.match = m /\ x.profile = p).answer
                 ELSE NoAnswer

\* The current prediction changes only together with the archive, which never shrinks.
Book == INSTANCE PredictionBook WITH
            current <- [m \in Matches |-> [p \in Profiles |-> Current(m, p)]],
            archive <- {<<v.match, v.profile, v.answer>> : v \in revisions}
ImplementsBook == Book!Spec

\* Runs that fail, or that reach their limit, only delay it: every fixture is predicted by
\* every profile, unless it is played first.
EveryFixtureIsPredicted ==
    \A m \in Matches : <>(provider[m] \in Results \/ \A p \in Profiles : Predicted(m, p))

\* A job that fetched the fixture before it was played may overwrite a stored result's status.
\* As long as the provider lists the result with its scores, the next pass repairs that: a
\* result it goes on listing is stored in the end, for good.
ResultSettles ==
    \A m \in Matches : <>[](provider[m] = "final") => <>[](status[m] = "final" /\ scored[m])
=============================================================================
