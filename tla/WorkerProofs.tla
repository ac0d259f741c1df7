---------------------------- MODULE WorkerProofs ----------------------------
(***************************************************************************)
(* The worker's jobs and the administration's requests: what is delivered,   *)
(* attempted, connected and mailed, for any rows, runs, tasks, people and     *)
(* bounds; and, with the proofs about predictions, outreach and marketing,    *)
(* the types of the whole worker of MCWorkerJobs.                            *)
(***************************************************************************)
EXTENDS MCWorkerJobs, PredictionArchiveProofs, EditorialOutreachProofs, MarketingStudioProofs,
        FiniteSetTheorems, TLAPS

-----------------------------------------------------------------------------
(* RevenueOutbox                                                             *)

USE DEF outboxVars, worldVars, leadVars, mailVars

\* The inductive invariant.

SaleOrMail == Sales \cup MailKeys
SaleRow == [status : SaleStatus \cup {"none"}, attempts : Nat, consent : BOOLEAN, received : Nat]
JobRow == [at : Steps, todo : SUBSET SaleOrMail, now : SUBSET SaleOrMail, outcome : SaleStatus \cup {"none"}]

\* A run has rows in hand while it delivers them, one of them at a time; only the job delivers mails.
DeliveryJobOK(d) ==
    /\ job[d].at \in {"sale", "reported"} => job[d].todo \cup job[d].now \subseteq Sales
    /\ job[d].at \in {"mail", "mailed"} => job[d].todo \cup job[d].now \subseteq MailKeys
    /\ job[d].at \notin {"sale", "reported", "mail", "mailed"} => job[d].todo = {}
    /\ job[d].at \notin {"reported", "mailed"} => job[d].now = {}
    /\ job[d].at \notin {"idle", "sale", "reported"} => d \in Jobs
    /\ \A x, y \in job[d].now : x = y
    /\ job[d].now \cap job[d].todo = {}
    /\ job[d].at = "reported" => job[d].outcome \in SaleStatus
    /\ job[d].at = "mailed" => job[d].outcome \in {"sent", "pending"}

\* Deliveries of a purchase that are to be counted as attempts.
Telling(s) == {d \in Deliverers : s \in job[d].now /\ job[d].outcome \in {"sent", "failed"}}
SaleOK(s) ==
    /\ sale[s].status = "none" => sale[s].attempts = 0 /\ sale[s].received = 0 /\ Holding(s) = {}
    /\ sale[s].attempts + Cardinality(Holding(s)) < MaxAttempts + Cardinality(Deliverers) + mishaps
    /\ sale[s].received <= sale[s].attempts + mishaps + Cardinality(Telling(s))
    /\ ~sale[s].consent => sale[s].received = 0
    /\ sale[s].status = "sent" => sale[s].received > 0
    /\ \A d \in Deliverers : s \in job[d].now /\ job[d].outcome = "sent" => sale[s].received > 0

\* How often a mail has gone out, and can go out yet: once for each run that has selected it or
\* can select it now, and once for each run whenever one turns it back to pending.
Chosen(k) == {d \in Jobs : k \in job[d].todo}
Unsure(k) == {d \in Jobs : k \in job[d].now /\ job[d].outcome # "sent"}
Free(k) == {d \in Jobs : k \notin job[d].todo \cup job[d].now}
Selectable(k) == IF mail[k] = "pending" THEN Cardinality(Free(k)) ELSE 0
Copies(k) ==
    mailed[k] + Cardinality(Chosen(k)) + Cardinality(Jobs) * Cardinality(Unsure(k)) + Selectable(k)
MailOK(k) ==
    /\ mail[k] = "none" => mailed[k] = 0 /\ \A d \in Jobs : k \notin job[d].todo \cup job[d].now
    /\ Copies(k) <= Cardinality(Jobs) * (1 + mishaps)
    /\ \A d \in Jobs : k \in job[d].now /\ job[d].outcome = "sent" => mailed[k] > 0

Reminders == \A l \in Buyers : reminded[l] => mailed[Key("abandoned_checkout", l, 0)] > 0

OutboxInv ==
    /\ OutboxTypeOK
    /\ \A d \in Deliverers : DeliveryJobOK(d)
    /\ \A s \in Sales : SaleOK(s)
    /\ \A k \in MailKeys : MailOK(k)
    /\ Reminders

-----------------------------------------------------------------------------

LEMMA OutboxRows ==
    ASSUME OutboxInv
    PROVE  /\ today \in Days /\ mishaps \in 0..MaxMishaps /\ mishaps \in Nat
           /\ sale \in [Sales -> SaleRow] /\ mail \in [MailKeys -> {"none", "pending", "sent"}]
           /\ mailed \in [MailKeys -> Nat] /\ job \in [Deliverers -> JobRow]
BY MishapsAssumption DEF OutboxInv, OutboxTypeOK, SaleRow, JobRow, SaleOrMail

LEMMA Crews ==
    /\ Jobs \subseteq Deliverers /\ Cardinality(Jobs) \in Nat /\ Cardinality(Deliverers) \in Nat
    /\ \A S \in SUBSET Deliverers : IsFiniteSet(S) /\ Cardinality(S) \in Nat
                                    /\ Cardinality(S) <= Cardinality(Deliverers)
    /\ \A S \in SUBSET Jobs : IsFiniteSet(S) /\ Cardinality(S) \in Nat
                              /\ Cardinality(S) <= Cardinality(Jobs)
  <1>1. IsFiniteSet(Deliverers)
    BY JobsAssumption, FS_Union DEF Deliverers
  <1>. QED BY <1>1, JobsAssumption, FS_Subset, FS_CardinalityType DEF Deliverers

LEMMA Smaller ==
    ASSUME NEW S \in SUBSET Deliverers, NEW T \in SUBSET S
    PROVE  Cardinality(T) <= Cardinality(S)
BY Crews, FS_Subset

LEMMA Grown ==
    ASSUME NEW S \in SUBSET Deliverers, NEW d, NEW T, T \subseteq S \cup {d}
    PROVE  IsFiniteSet(T) /\ Cardinality(T) \in Nat /\ Cardinality(T) <= Cardinality(S) + 1
  <1>1. /\ IsFiniteSet(S) /\ Cardinality(S) \in Nat
    BY Crews
  <1>2. IsFiniteSet(S \cup {d}) /\ Cardinality(S \cup {d}) <= Cardinality(S) + 1
    BY <1>1, FS_AddElement
  <1>. QED BY <1>1, <1>2, FS_Subset, FS_CardinalityType

LEMMA OneLess ==
    ASSUME NEW S \in SUBSET Deliverers, NEW d \in S, NEW T, T \subseteq S \ {d}
    PROVE  IsFiniteSet(T) /\ Cardinality(T) \in Nat /\ Cardinality(T) <= Cardinality(S) - 1
  <1>1. /\ IsFiniteSet(S) /\ Cardinality(S) \in Nat
    BY Crews
  <1>2. IsFiniteSet(S \ {d}) /\ Cardinality(S \ {d}) = Cardinality(S) - 1
    BY <1>1, FS_RemoveElement
  <1>. QED BY <1>1, <1>2, FS_Subset, FS_CardinalityType

LEMMA Products ==
    ASSUME NEW n \in Nat, NEW a \in Nat, NEW b \in Nat
    PROVE  /\ n * a \in Nat /\ n * (a + 1) = n * a + n
           /\ a <= b => n * a <= n * b
           /\ a + 1 <= b => n * a + n <= n * b
OBVIOUS

LEMMA MishapCounted ==
    ASSUME OutboxInv, Mishap
    PROVE  mishaps' \in 0..MaxMishaps /\ mishaps' = mishaps + 1
BY MishapsAssumption, OutboxRows DEF Mishap

LEMMA OutboxInitially == OutboxInit => OutboxInv
  <1>. SUFFICES ASSUME OutboxInit PROVE OutboxInv
    OBVIOUS
  <1>1. \A d \in Deliverers : job[d] = OffDuty
    BY DEF OutboxInit
  <1>2. OutboxTypeOK
    BY MishapsAssumption, DaysAssumption
       DEF OutboxInit, OutboxTypeOK, Days, NewSale, OffDuty, SaleStatus, Steps
  <1>3. ASSUME NEW d \in Deliverers PROVE DeliveryJobOK(d)
    BY <1>1 DEF DeliveryJobOK, OffDuty
  <1>4. Cardinality({}) = 0
    BY FS_EmptySet
  <1>5. ASSUME NEW s \in Sales PROVE SaleOK(s)
    <2>1. Holding(s) = {} /\ Telling(s) = {}
      BY <1>1 DEF Holding, Telling, OffDuty
    <2>2. sale[s] = NewSale /\ mishaps = 0
      BY DEF OutboxInit
    <2>. QED BY <1>1, <1>4, <2>1, <2>2, AttemptsAssumption, Crews DEF SaleOK, NewSale, OffDuty
  <1>6. ASSUME NEW k \in MailKeys PROVE MailOK(k)
    <2>1. Chosen(k) = {} /\ Unsure(k) = {} /\ mail[k] = "none" /\ mailed[k] = 0 /\ mishaps = 0
      BY <1>1, Crews DEF OutboxInit, Chosen, Unsure, OffDuty
    <2>2. Copies(k) = 0
      BY <1>4, <2>1, Crews DEF Copies, Selectable
    <2>. QED BY <1>1, <2>1, <2>2, Crews DEF MailOK, OffDuty
  <1>7. Reminders
    BY DEF OutboxInit, Reminders
  <1>. QED BY <1>2, <1>3, <1>5, <1>6, <1>7 DEF OutboxInv

LEMMA OutboxInvImplies == OutboxInv => OutboxIsAccounted
  <1>. SUFFICES ASSUME OutboxInv PROVE OutboxIsAccounted
    OBVIOUS
  <1>1. AttemptsBounded
    BY DEF OutboxInv, SaleOK, AttemptsBounded
  <1>2. ReportsAreAccounted
    <2>1. ASSUME NEW s \in Sales
          PROVE  sale[s].received <= sale[s].attempts + mishaps + Cardinality(Holding(s))
      <3>1. Telling(s) \subseteq Holding(s) /\ Holding(s) \subseteq Deliverers
        BY DEF Telling, Holding
      <3>2. /\ Cardinality(Telling(s)) <= Cardinality(Holding(s))
            /\ Cardinality(Telling(s)) \in Nat /\ Cardinality(Holding(s)) \in Nat
        BY <3>1, Crews, Smaller
      <3>3. sale[s].attempts \in Nat /\ sale[s].received \in Nat /\ mishaps \in Nat
        BY OutboxRows DEF SaleRow
      <3>. QED BY <3>2, <3>3 DEF OutboxInv, SaleOK
    <2>. QED BY <2>1 DEF OutboxInv, SaleOK, ReportsAreAccounted
  <1>3. MailsAreAccounted
    <2>1. ASSUME NEW k \in MailKeys PROVE mailed[k] <= Cardinality(Jobs) * (1 + mishaps)
      <3>1. /\ Cardinality(Chosen(k)) \in Nat /\ Cardinality(Unsure(k)) \in Nat /\ Cardinality(Free(k)) \in Nat
        BY Crews DEF Chosen, Unsure, Free
      <3>2. Selectable(k) \in Nat /\ Cardinality(Jobs) * Cardinality(Unsure(k)) \in Nat
        BY <3>1, Crews, Products DEF Selectable
      <3>3. mailed[k] \in Nat /\ Cardinality(Jobs) * (1 + mishaps) \in Nat
        BY OutboxRows, Crews, Products
      <3>4. Copies(k) <= Cardinality(Jobs) * (1 + mishaps)
        BY DEF OutboxInv, MailOK
      <3>. QED BY <3>1, <3>2, <3>3, <3>4 DEF Copies
    <2>. QED BY <2>1 DEF OutboxInv, Reminders, MailsAreAccounted
  <1>. QED BY <1>1, <1>2, <1>3 DEF OutboxIsAccounted

-----------------------------------------------------------------------------
(* Frames                                                                    *)

JobBecomes(d, at, todo, now, outcome) ==
    /\ job' \in [Deliverers -> JobRow]
    /\ job'[d].at = at /\ job'[d].todo = todo /\ job'[d].now = now /\ job'[d].outcome = outcome
    /\ \A e \in Deliverers \ {d} : job'[e] = job[e]

LEMMA JobGets ==
    ASSUME OutboxInv, NEW d \in Deliverers, NEW at \in Steps, NEW todo \in SUBSET SaleOrMail,
           NEW now \in SUBSET SaleOrMail, NEW outcome \in SaleStatus \cup {"none"},
           job' = [job EXCEPT ![d] = [at |-> at, todo |-> todo, now |-> now, outcome |-> outcome]]
    PROVE  JobBecomes(d, at, todo, now, outcome)
BY OutboxRows DEF JobBecomes, JobRow

LEMMA JobMoves ==
    ASSUME OutboxInv, NEW d \in Deliverers
    PROVE  /\ \A step \in Steps : Turn(d, step) =>
                 JobBecomes(d, step, job[d].todo, job[d].now, job[d].outcome)
           /\ \A step \in Steps, rows \in SUBSET SaleOrMail : Take(d, step, rows) =>
                 JobBecomes(d, step, rows, job[d].now, job[d].outcome)
           /\ \A step \in Steps : RowDone(d, step) =>
                 JobBecomes(d, step, job[d].todo, {}, job[d].outcome)
           /\ Abort(d) => JobBecomes(d, "idle", {}, {}, "none")
           /\ \A outcome \in SaleStatus : job' = [job EXCEPT ![d].outcome = outcome] =>
                 JobBecomes(d, job[d].at, job[d].todo, job[d].now, outcome)
  <1>1. job \in [Deliverers -> JobRow]
    BY OutboxRows
  <1>2. ASSUME NEW step \in Steps, Turn(d, step)
        PROVE  JobBecomes(d, step, job[d].todo, job[d].now, job[d].outcome)
    BY <1>1, <1>2 DEF Turn, JobBecomes, JobRow
  <1>3. ASSUME NEW step \in Steps, NEW rows \in SUBSET SaleOrMail, Take(d, step, rows)
        PROVE  JobBecomes(d, step, rows, job[d].now, job[d].outcome)
    BY <1>1, <1>3 DEF Take, JobBecomes, JobRow
  <1>4. ASSUME NEW step \in Steps, RowDone(d, step)
        PROVE  JobBecomes(d, step, job[d].todo, {}, job[d].outcome)
    BY <1>1, <1>4 DEF RowDone, JobBecomes, JobRow
  <1>5. ASSUME Abort(d) PROVE JobBecomes(d, "idle", {}, {}, "none")
    BY <1>5, JobGets DEF Abort, OffDuty, Steps
  <1>6. ASSUME NEW outcome \in SaleStatus, job' = [job EXCEPT ![d].outcome = outcome]
        PROVE  JobBecomes(d, job[d].at, job[d].todo, job[d].now, outcome)
    BY <1>1, <1>6 DEF JobBecomes, JobRow
  <1>. QED BY <1>2, <1>3, <1>4, <1>5, <1>6

OthersStay(d) == job' \in [Deliverers -> JobRow] /\ \A e \in Deliverers \ {d} : job'[e] = job[e]

\* A purchase that a step leaves alone, or lets go of.
LEMMA SaleKept ==
    ASSUME OutboxInv, NEW d \in Deliverers, NEW s \in Sales, OthersStay(d), sale'[s] = sale[s],
           mishaps' \in {mishaps, mishaps + 1},
           s \in job'[d].todo \cup job'[d].now => s \in job[d].todo \cup job[d].now,
           (mishaps' = mishaps /\ d \in Telling(s)) => s \in job'[d].now /\ job'[d].outcome \in {"sent", "failed"},
           s \in job'[d].now /\ job'[d].outcome = "sent" => s \in job[d].now /\ job[d].outcome = "sent"
    PROVE  SaleOK(s)'
  <1>1. /\ SaleOK(s) /\ mishaps \in Nat /\ sale[s].attempts \in Nat /\ sale[s].received \in Nat
        /\ MaxAttempts \in Nat
    BY OutboxRows, AttemptsAssumption DEF OutboxInv, SaleRow
  <1>2. Holding(s)' \subseteq Holding(s) /\ Holding(s) \subseteq Deliverers
    BY DEF Holding, OthersStay
  <1>3. /\ Cardinality(Holding(s)') <= Cardinality(Holding(s)) /\ Cardinality(Holding(s)') \in Nat
        /\ Cardinality(Holding(s)) \in Nat
    BY <1>2, Smaller, Crews
  <1>4. Cardinality(Telling(s)) + mishaps <= Cardinality(Telling(s)') + mishaps'
    <2>1. Telling(s)' \subseteq Deliverers /\ Telling(s) \subseteq Telling(s)' \cup {d}
      BY DEF Telling, OthersStay
    <2>2. Cardinality(Telling(s)) <= Cardinality(Telling(s)') + 1
      BY <2>1, Grown
    <2>3. CASE mishaps' = mishaps
      <3>1. Telling(s) \subseteq Telling(s)'
        BY <2>1, <2>3 DEF Telling
      <3>2. Cardinality(Telling(s)) <= Cardinality(Telling(s)')
        BY <2>1, <3>1, Smaller
      <3>3. Cardinality(Telling(s)) \in Nat /\ Cardinality(Telling(s)') \in Nat
        BY <2>1, Crews DEF Telling
      <3>. QED BY <1>1, <2>3, <3>2, <3>3
    <2>4. CASE mishaps' = mishaps + 1
      <3>1. Cardinality(Telling(s)') \in Nat /\ Cardinality(Telling(s)) \in Nat
        BY <2>1, Crews DEF Telling
      <3>. QED BY <1>1, <2>2, <2>4, <3>1
    <2>. QED BY <2>3, <2>4
  <1>5. Cardinality(Telling(s)) \in Nat /\ Cardinality(Telling(s)') \in Nat /\ Cardinality(Deliverers) \in Nat
    BY Crews DEF Telling
  <1>6. \A e \in Deliverers : s \in job'[e].now /\ job'[e].outcome = "sent" => sale[s].received > 0
    BY <1>1 DEF SaleOK, OthersStay
  <1>7. sale[s].attempts + Cardinality(Holding(s)') < MaxAttempts + Cardinality(Deliverers) + mishaps'
    BY <1>1, <1>3, <1>5 DEF SaleOK
  <1>8. sale[s].received <= sale[s].attempts + mishaps' + Cardinality(Telling(s)')
    BY <1>1, <1>4, <1>5 DEF SaleOK
  <1>9. sale[s].status = "none" => Holding(s)' = {}
    BY <1>1, <1>2 DEF SaleOK
  <1>. QED BY <1>1, <1>6, <1>7, <1>8, <1>9 DEF SaleOK

\* The runs of the job hold a mail as before.
HoldsAlike(k) ==
    \A e \in Jobs : /\ k \in job'[e].todo <=> k \in job[e].todo
                    /\ k \in job'[e].now <=> k \in job[e].now
                    /\ k \in job[e].now => job'[e].outcome = job[e].outcome

LEMMA CopiesAddUp ==
    ASSUME OutboxInv, NEW k \in MailKeys
    PROVE  /\ Cardinality(Chosen(k)) \in Nat /\ Cardinality(Unsure(k)) \in Nat
           /\ Cardinality(Free(k)) \in Nat /\ Cardinality(Free(k)) <= Cardinality(Jobs)
           /\ mailed[k] \in Nat /\ mishaps \in Nat /\ Cardinality(Jobs) \in Nat
           /\ Chosen(k) \subseteq Jobs /\ Unsure(k) \subseteq Jobs /\ Free(k) \subseteq Jobs
  <1>1. Chosen(k) \subseteq Jobs /\ Unsure(k) \subseteq Jobs /\ Free(k) \subseteq Jobs
    BY DEF Chosen, Unsure, Free
  <1>. QED BY <1>1, Crews, OutboxRows

\* A mail whose row and holders stay as they are.
LEMMA MailSame ==
    ASSUME OutboxInv, NEW k \in MailKeys, HoldsAlike(k), mail'[k] = mail[k], mailed'[k] = mailed[k],
           mishaps' \in {mishaps, mishaps + 1}
    PROVE  MailOK(k)'
  <1>1. MailOK(k)
    BY DEF OutboxInv
  <1>2. Chosen(k)' = Chosen(k) /\ Unsure(k)' = Unsure(k) /\ Free(k)' = Free(k)
    BY DEF HoldsAlike, Chosen, Unsure, Free
  <1>3. Copies(k)' = Copies(k)
    BY <1>2 DEF Copies, Selectable
  <1>4. Copies(k) \in Nat
    BY CopiesAddUp, Products DEF Copies, Selectable
  <1>5. Cardinality(Jobs) * (1 + mishaps) <= Cardinality(Jobs) * (1 + mishaps')
    BY CopiesAddUp, Products
  <1>6. /\ Cardinality(Jobs) * (1 + mishaps) \in Nat /\ Cardinality(Jobs) * (1 + mishaps') \in Nat
    BY CopiesAddUp, Products
  <1>7. Copies(k)' <= Cardinality(Jobs) * (1 + mishaps')
    BY <1>1, <1>3, <1>4, <1>5, <1>6 DEF MailOK
  <1>8. mail'[k] = "none" => mailed'[k] = 0 /\ \A e \in Jobs : k \notin job'[e].todo \cup job'[e].now
    BY <1>1 DEF MailOK, HoldsAlike
  <1>9. \A e \in Jobs : k \in job'[e].now /\ job'[e].outcome = "sent" => mailed'[k] > 0
    BY <1>1 DEF MailOK, HoldsAlike
  <1>. QED BY <1>7, <1>8, <1>9 DEF MailOK

\* A row that is inserted: no run has it yet.
LEMMA MailQueued ==
    ASSUME OutboxInv, NEW k \in MailKeys, HoldsAlike(k), mail[k] = "none", mail'[k] = "pending",
           mailed'[k] = mailed[k], mishaps' \in {mishaps, mishaps + 1}
    PROVE  MailOK(k)'
  <1>1. mailed[k] = 0 /\ \A e \in Jobs : k \notin job'[e].todo \cup job'[e].now
    BY DEF OutboxInv, MailOK, HoldsAlike
  <1>2. Chosen(k)' = {} /\ Unsure(k)' = {} /\ Free(k)' \subseteq Jobs
    BY <1>1 DEF Chosen, Unsure, Free
  <1>3. Cardinality({}) = 0
    BY FS_EmptySet
  <1>4. Cardinality(Jobs) * Cardinality({}) = 0
    BY <1>3, Crews
  <1>5. Cardinality(Free(k)') \in Nat /\ Cardinality(Free(k)') <= Cardinality(Jobs)
    BY <1>2, Crews
  <1>6. Copies(k)' = Cardinality(Free(k)')
    BY <1>1, <1>2, <1>3, <1>4, <1>5 DEF Copies, Selectable
  <1>7. Cardinality(Jobs) \in Nat /\ mishaps' \in Nat
    BY CopiesAddUp
  <1>8. Cardinality(Jobs) * (1 + mishaps') = Cardinality(Jobs) * mishaps' + Cardinality(Jobs)
           /\ Cardinality(Jobs) * mishaps' \in Nat
    BY <1>7, Products
  <1>9. Copies(k)' <= Cardinality(Jobs) * (1 + mishaps')
    BY <1>5, <1>6, <1>7, <1>8
  <1>. QED BY <1>1, <1>9 DEF MailOK

\* The potential of a mail grows by no more than a mishap allows.
LEMMA MailMishap ==
    ASSUME OutboxInv, NEW k \in MailKeys, mishaps' = mishaps + 1,
           Copies(k)' <= Copies(k) + Cardinality(Jobs), Copies(k)' \in Nat
    PROVE  Copies(k)' <= Cardinality(Jobs) * (1 + mishaps')
  <1>1. Copies(k) <= Cardinality(Jobs) * (1 + mishaps)
    BY DEF OutboxInv, MailOK
  <1>2. Cardinality(Jobs) * ((1 + mishaps) + 1) = Cardinality(Jobs) * (1 + mishaps) + Cardinality(Jobs)
    BY CopiesAddUp, Products
  <1>3. 1 + mishaps' = (1 + mishaps) + 1
    BY CopiesAddUp
  <1>4. Copies(k) \in Nat /\ Cardinality(Jobs) * (1 + mishaps) \in Nat
    BY CopiesAddUp, Products DEF Copies, Selectable
  <1>. QED BY <1>1, <1>2, <1>3, <1>4, CopiesAddUp

\* A run loses a mail, or doubts that it went out.
LEMMA MailLost ==
    ASSUME OutboxInv, NEW k \in MailKeys, NEW d \in Deliverers, OthersStay(d),
           mail'[k] = mail[k], mailed'[k] = mailed[k], mishaps' = mishaps + 1,
           \/ k \notin job'[d].todo \cup job'[d].now
           \/ /\ k \in job'[d].todo <=> k \in job[d].todo
              /\ k \in job'[d].now <=> k \in job[d].now
              /\ job'[d].outcome # "sent"
    PROVE  MailOK(k)'
  <1>1. CASE d \notin Jobs
    <2>1. HoldsAlike(k)
      BY <1>1, Crews DEF HoldsAlike, OthersStay
    <2>. QED BY <2>1, MailSame
  <1>2. CASE d \in Jobs
    <2>1. Chosen(k)' \subseteq Chosen(k) /\ Unsure(k)' \subseteq Unsure(k) \cup {d}
             /\ Free(k)' \subseteq Free(k) \cup {d} /\ Free(k)' \subseteq Jobs
             /\ (d \in Unsure(k)' => Free(k)' \subseteq Free(k))
      BY Crews DEF Chosen, Unsure, Free, OthersStay
    <2>2. Cardinality(Chosen(k)') <= Cardinality(Chosen(k)) /\ Cardinality(Chosen(k)') \in Nat
      BY <2>1, Smaller, Crews, CopiesAddUp
    <2>3. /\ Cardinality(Unsure(k)') <= Cardinality(Unsure(k)) + 1 /\ Cardinality(Unsure(k)') \in Nat
          /\ Cardinality(Free(k)') <= Cardinality(Free(k)) + 1 /\ Cardinality(Free(k)') \in Nat
      BY <2>1, Grown, Crews, CopiesAddUp
    <2>4. Cardinality(Jobs) >= 1
      <3>1. Cardinality({d}) = 1 /\ {d} \subseteq Jobs
        BY <1>2, FS_Singleton
      <3>. QED BY <3>1, Crews
    <2>. DEFINE n == Cardinality(Jobs)
                u == Cardinality(Unsure(k))
                up == Cardinality(Unsure(k)')
                f == Selectable(k)
                fp == Selectable(k)'
    <2>5. n * up + fp <= n * u + f + n /\ n * up \in Nat /\ n * u \in Nat /\ f \in Nat /\ fp \in Nat
      <3>1. n \in Nat /\ u \in Nat /\ up \in Nat /\ f \in Nat /\ fp \in Nat
        BY <2>3, CopiesAddUp DEF Selectable
      <3>2. CASE d \in Unsure(k)'
        <4>1. Cardinality(Free(k)') <= Cardinality(Free(k))
          BY <2>1, <3>2, Smaller, Crews, CopiesAddUp
        <4>2. fp <= f
          BY <4>1 DEF Selectable
        <4>3. n * up <= n * (u + 1)
          BY <2>3, <3>1, Products
        <4>4. n * (u + 1) = n * u + n /\ n * up \in Nat /\ n * u \in Nat
          BY <3>1, Products
        <4>. HIDE DEF n, u, up, f, fp
        <4>. QED BY <3>1, <4>2, <4>3, <4>4
      <3>3. CASE d \notin Unsure(k)'
        <4>1. up <= u
          BY <2>1, <3>3, Smaller, Crews, CopiesAddUp
        <4>2. fp <= f + n
          BY <2>3, <2>4, CopiesAddUp DEF Selectable
        <4>3. n * up <= n * u /\ n * up \in Nat /\ n * u \in Nat
          BY <3>1, <4>1, Products
        <4>. HIDE DEF n, u, up, f, fp
        <4>. QED BY <3>1, <4>2, <4>3
      <3>. QED BY <3>2, <3>3
    <2>6. Copies(k)' <= Copies(k) + n /\ Copies(k)' \in Nat
      <3>1. /\ Copies(k) = mailed[k] + Cardinality(Chosen(k)) + n * u + f
            /\ Copies(k)' = mailed[k] + Cardinality(Chosen(k)') + n * up + fp
        BY DEF Copies
      <3>. HIDE DEF n, u, up, f, fp
      <3>2. n \in Nat
        BY CopiesAddUp DEF n
      <3>. QED BY <2>2, <2>5, <3>1, <3>2, CopiesAddUp
    <2>7. Copies(k)' <= Cardinality(Jobs) * (1 + mishaps')
      BY <2>6, MailMishap
    <2>8. mail'[k] = "none" => mailed'[k] = 0 /\ \A e \in Jobs : k \notin job'[e].todo \cup job'[e].now
      BY <1>2, Crews DEF OutboxInv, MailOK, OthersStay
    <2>9. \A e \in Jobs : k \in job'[e].now /\ job'[e].outcome = "sent" => mailed'[k] > 0
      BY <1>2, Crews DEF OutboxInv, MailOK, OthersStay
    <2>. QED BY <2>7, <2>8, <2>9 DEF MailOK
  <1>. QED BY <1>1, <1>2

-----------------------------------------------------------------------------
(* What a step of one run needs to show                                      *)

Rested(d) ==
    /\ OthersStay(d) /\ DeliveryJobOK(d)'
    /\ mishaps' \in {mishaps, mishaps + 1} /\ mishaps' \in 0..MaxMishaps

LEMMA JobsRest ==
    ASSUME OutboxInv, NEW d \in Deliverers, OthersStay(d), DeliveryJobOK(d)'
    PROVE  \A e \in Deliverers : DeliveryJobOK(e)'
  <1>1. ASSUME NEW e \in Deliverers, e # d PROVE DeliveryJobOK(e)'
    <2>1. DeliveryJobOK(e) /\ job'[e] = job[e]
      BY <1>1 DEF OutboxInv, OthersStay
    <2>. QED BY <2>1 DEF DeliveryJobOK
  <1>. QED BY <1>1

LEMMA TypesRest ==
    ASSUME OutboxInv, UNCHANGED worldVars, mishaps' \in 0..MaxMishaps,
           followUp' \in [Buyers \cup Enterprises -> Days \cup {NoDay}], reminded' \in [Buyers -> BOOLEAN],
           sale' \in [Sales -> SaleRow], mail' \in [MailKeys -> {"none", "pending", "sent"}],
           mailed' \in [MailKeys -> Nat], job' \in [Deliverers -> JobRow]
    PROVE  OutboxTypeOK'
BY DEF OutboxInv, OutboxTypeOK, SaleRow, JobRow, SaleOrMail

LEMMA LeadsRest ==
    ASSUME OutboxInv
    PROVE  /\ followUp \in [Buyers \cup Enterprises -> Days \cup {NoDay}]
           /\ reminded \in [Buyers -> BOOLEAN] /\ Reminders
BY DEF OutboxInv, OutboxTypeOK

LEMMA Holders ==
    ASSUME OutboxInv, NEW d \in Deliverers
    PROVE  /\ DeliveryJobOK(d) /\ job[d] \in JobRow
           /\ \A s \in Sales : s \in job[d].todo \cup job[d].now => job[d].at \in {"sale", "reported"}
           /\ \A k \in MailKeys : k \in job[d].todo \cup job[d].now => job[d].at \in {"mail", "mailed"} /\ d \in Jobs
  <1>1. DeliveryJobOK(d) /\ job[d] \in JobRow
    BY OutboxRows DEF OutboxInv
  <1>. QED BY <1>1, RowsAssumption DEF DeliveryJobOK

\* A delivery of purchases holds no mail.
LEMMA MailsRest ==
    ASSUME OutboxInv, NEW d \in Deliverers, Rested(d), UNCHANGED mailVars,
           job[d].at \notin {"mail", "mailed"}, job'[d].at \notin {"mail", "mailed"}
    PROVE  (\A k \in MailKeys : MailOK(k)') /\ Reminders'
  <1>1. ASSUME NEW k \in MailKeys PROVE MailOK(k)'
    <2>1. k \notin job[d].todo \cup job[d].now
      BY Holders
    <2>2. k \notin job'[d].todo \cup job'[d].now
      BY RowsAssumption DEF Rested, DeliveryJobOK
    <2>3. HoldsAlike(k)
      BY <2>1, <2>2, Crews DEF HoldsAlike, Rested, OthersStay
    <2>. QED BY <2>3, MailSame DEF Rested
  <1>2. Reminders'
    BY LeadsRest DEF Reminders
  <1>. QED BY <1>1, <1>2

\* A delivery of mails holds no purchase.
LEMMA SalesRest ==
    ASSUME OutboxInv, NEW d \in Deliverers, Rested(d), UNCHANGED sale,
           job[d].at \notin {"sale", "reported"}, job'[d].at \notin {"sale", "reported"}
    PROVE  \A s \in Sales : SaleOK(s)'
  <1>1. ASSUME NEW s \in Sales PROVE SaleOK(s)'
    <2>1. s \notin job[d].todo \cup job[d].now
      BY Holders
    <2>2. s \notin job'[d].todo \cup job'[d].now
      BY RowsAssumption DEF Rested, DeliveryJobOK
    <2>3. d \notin Telling(s)
      BY <2>1 DEF Telling
    <2>. QED BY <2>1, <2>2, <2>3, SaleKept DEF Rested
  <1>. QED BY <1>1

\* What all the delivery's steps share: rows of one table change, and one run.
SaleMove(d) ==
    Rested(d) /\ UNCHANGED <<worldVars, mailVars>> /\ sale' \in [Sales -> SaleRow]
    /\ job[d].at \notin {"mail", "mailed"} /\ job'[d].at \notin {"mail", "mailed"}

LEMMA SaleMoveKeeps ==
    ASSUME OutboxInv, NEW d \in Deliverers, SaleMove(d), \A s \in Sales : SaleOK(s)'
    PROVE  OutboxInv'
  <1>1. OutboxTypeOK'
    BY TypesRest, LeadsRest, OutboxRows DEF SaleMove, Rested, OthersStay
  <1>2. \A e \in Deliverers : DeliveryJobOK(e)'
    BY JobsRest DEF SaleMove, Rested
  <1>3. (\A k \in MailKeys : MailOK(k)') /\ Reminders'
    BY MailsRest DEF SaleMove
  <1>. QED BY <1>1, <1>2, <1>3 DEF OutboxInv

MailMove(d) ==
    Rested(d) /\ UNCHANGED <<worldVars, sale>>
    /\ mail' \in [MailKeys -> {"none", "pending", "sent"}] /\ mailed' \in [MailKeys -> Nat]
    /\ followUp' \in [Buyers \cup Enterprises -> Days \cup {NoDay}] /\ reminded' \in [Buyers -> BOOLEAN]
    /\ job[d].at \notin {"sale", "reported"} /\ job'[d].at \notin {"sale", "reported"}

LEMMA MailMoveKeeps ==
    ASSUME OutboxInv, NEW d \in Deliverers, MailMove(d), \A k \in MailKeys : MailOK(k)', Reminders'
    PROVE  OutboxInv'
  <1>1. OutboxTypeOK'
    BY TypesRest, OutboxRows DEF MailMove, Rested, OthersStay
  <1>2. \A e \in Deliverers : DeliveryJobOK(e)'
    BY JobsRest DEF MailMove, Rested
  <1>3. \A s \in Sales : SaleOK(s)'
    BY SalesRest DEF MailMove
  <1>. QED BY <1>1, <1>2, <1>3 DEF OutboxInv

LEMMA JobTurns ==
    ASSUME OutboxInv, NEW d \in Deliverers, NEW at, NEW todo, NEW now, NEW outcome,
           JobBecomes(d, at, todo, now, outcome),
           mishaps' = mishaps \/ Mishap,
           at \in {"sale", "reported"} => todo \cup now \subseteq Sales,
           at \in {"mail", "mailed"} => todo \cup now \subseteq MailKeys,
           at \notin {"sale", "reported", "mail", "mailed"} => todo = {},
           at \notin {"reported", "mailed"} => now = {},
           at \notin {"idle", "sale", "reported"} => d \in Jobs,
           \A x, y \in now : x = y,
           now \cap todo = {},
           at = "reported" => outcome \in SaleStatus,
           at = "mailed" => outcome \in {"sent", "pending"}
    PROVE  Rested(d)
  <1>1. OthersStay(d)
    BY DEF JobBecomes, OthersStay
  <1>2. DeliveryJobOK(d)'
    BY DEF JobBecomes, DeliveryJobOK
  <1>3. mishaps' \in {mishaps, mishaps + 1} /\ mishaps' \in 0..MaxMishaps
    BY MishapCounted, OutboxRows
  <1>. QED BY <1>1, <1>2, <1>3 DEF Rested

-----------------------------------------------------------------------------
(* The steps                                                                 *)

LEMMA OutboxStutters ==
    ASSUME OutboxInv, UNCHANGED <<sale, mail, mailed, job, mishaps, reminded>>, OutboxTypeOK'
    PROVE  OutboxInv'
  <1>1. \A d \in Deliverers : DeliveryJobOK(d)'
    BY DEF OutboxInv, DeliveryJobOK
  <1>2. ASSUME NEW s \in Sales PROVE SaleOK(s)'
    <2>1. Holding(s)' = Holding(s) /\ Telling(s)' = Telling(s)
      BY DEF Holding, Telling
    <2>. QED BY <2>1 DEF OutboxInv, SaleOK
  <1>3. ASSUME NEW k \in MailKeys PROVE MailOK(k)'
    <2>1. HoldsAlike(k)
      BY DEF HoldsAlike
    <2>. QED BY <2>1, MailSame
  <1>4. Reminders'
    BY DEF OutboxInv, Reminders
  <1>. QED BY <1>1, <1>2, <1>3, <1>4 DEF OutboxInv

LEMMA WorldKeeps ==
    ASSUME OutboxInv,
           \/ \E l \in Buyers \cup Enterprises : InsertLead(l) \/ LeaveStage(l)
           \/ \E l \in Buyers : LinkCheckout(l)
           \/ NextDay
           \/ \E c \in Customers : (\E percent \in {1, 70, 90} : UseWidget(c, percent)) \/ FailDomain(c)
    PROVE  OutboxInv'
  <1>0. OutboxTypeOK /\ LastDay \in Nat
    BY DaysAssumption DEF OutboxInv
  <1>1. ASSUME NEW l \in Buyers \cup Enterprises, InsertLead(l) PROVE OutboxInv'
    <2>1. OutboxTypeOK'
      BY <1>0, <1>1 DEF InsertLead, OutboxTypeOK
    <2>. QED BY <1>1, <2>1, OutboxStutters DEF InsertLead
  <1>2. ASSUME NEW l \in Buyers \cup Enterprises, LeaveStage(l) PROVE OutboxInv'
    <2>1. OutboxTypeOK'
      BY <1>0, <1>2 DEF LeaveStage, OutboxTypeOK
    <2>. QED BY <1>2, <2>1, OutboxStutters DEF LeaveStage
  <1>3. ASSUME NEW l \in Buyers, LinkCheckout(l) PROVE OutboxInv'
    <2>1. OutboxTypeOK'
      BY <1>0, <1>3 DEF LinkCheckout, OutboxTypeOK
    <2>. QED BY <1>3, <2>1, OutboxStutters DEF LinkCheckout
  <1>4. ASSUME NextDay PROVE OutboxInv'
    <2>1. today' \in Days /\ usage' \in [Customers -> {0, 1, 70, 90}]
      BY <1>0, <1>4 DEF NextDay, OutboxTypeOK, Days
    <2>2. OutboxTypeOK'
      BY <1>0, <1>4, <2>1 DEF NextDay, OutboxTypeOK
    <2>. QED BY <1>4, <2>2, OutboxStutters DEF NextDay
  <1>5. ASSUME NEW c \in Customers, NEW percent \in {1, 70, 90}, UseWidget(c, percent) PROVE OutboxInv'
    <2>1. OutboxTypeOK'
      BY <1>0, <1>5 DEF UseWidget, OutboxTypeOK
    <2>. QED BY <1>5, <2>1, OutboxStutters DEF UseWidget
  <1>6. ASSUME NEW c \in Customers, FailDomain(c) PROVE OutboxInv'
    <2>1. OutboxTypeOK'
      BY <1>0, <1>6 DEF FailDomain, OutboxTypeOK
    <2>. QED BY <1>6, <2>1, OutboxStutters DEF FailDomain
  <1>. QED BY <1>1, <1>2, <1>3, <1>4, <1>5, <1>6

LEMMA BookingKeeps ==
    ASSUME OutboxInv, NEW d \in Checkouts, NEW s \in Sales, NEW consent \in BOOLEAN, BookSale(d, s, consent)
    PROVE  OutboxInv'
  <1>1. d \in Deliverers /\ job[d].at = "idle" /\ sale[s].status = "none" /\ UNCHANGED <<worldVars, mailVars, mishaps>>
    BY DEF BookSale, JobAt, Deliverers
  <1>2. job[d].todo = {} /\ job[d].now = {} /\ job[d] \in JobRow
    BY <1>1, Holders DEF DeliveryJobOK
  <1>3. JobBecomes(d, "sale", {s}, {}, job[d].outcome)
    BY <1>1, <1>2, JobMoves DEF BookSale, Steps, SaleOrMail
  <1>4. Rested(d)
    BY <1>1, <1>3, JobTurns
  <1>5. sale' \in [Sales -> SaleRow] /\ sale'[s] = [sale[s] EXCEPT !.status = "pending", !.consent = consent]
           /\ \A t \in Sales \ {s} : sale'[t] = sale[t]
    BY OutboxRows DEF BookSale, SaleRow, SaleStatus
  <1>6. SaleMove(d)
    BY <1>1, <1>3, <1>4, <1>5 DEF SaleMove, JobBecomes
  <1>7. SaleOK(s)'
    <2>1. sale[s] \in SaleRow /\ SaleOK(s) /\ mishaps \in Nat
      BY OutboxRows DEF OutboxInv
    <2>2. /\ sale'[s].status = "pending" /\ sale'[s].attempts = 0 /\ sale'[s].received = 0
      BY <1>1, <1>5, <2>1 DEF SaleOK, SaleRow
    <2>3. Holding(s) = {} /\ Holding(s)' \subseteq {d} /\ Telling(s)' \subseteq Deliverers
      BY <1>1, <1>3, <2>1 DEF SaleOK, Holding, Telling, JobBecomes
    <2>4. \A e \in Deliverers : s \notin job'[e].now
      BY <1>3, <2>3 DEF Holding, JobBecomes
    <2>5. Cardinality(Holding(s)') <= 1 /\ Cardinality(Holding(s)') \in Nat /\ Cardinality({d}) = 1
      BY <1>1, <2>3, Smaller, Crews, FS_Singleton
    <2>6. Cardinality(Deliverers) >= 1 /\ Cardinality(Deliverers) \in Nat
      BY <1>1, <2>5, Crews
    <2>7. Cardinality(Telling(s)') \in Nat
      BY <2>3, Crews
    <2>. QED BY <1>1, <2>1, <2>2, <2>4, <2>5, <2>6, <2>7, AttemptsAssumption DEF SaleOK
  <1>8. ASSUME NEW t \in Sales, t # s PROVE SaleOK(t)'
    <2>1. d \notin Telling(t) /\ t \notin job'[d].todo \cup job'[d].now
      BY <1>2, <1>3, <1>8 DEF Telling, JobBecomes
    <2>. QED BY <1>1, <1>4, <1>5, <1>8, <2>1, SaleKept DEF Rested
  <1>. QED BY <1>1, <1>6, <1>7, <1>8, SaleMoveKeeps

LEMMA SelectionKeeps ==
    ASSUME OutboxInv, NEW d \in Jobs, SelectSales(d)
    PROVE  OutboxInv'
  <1>1. d \in Deliverers /\ job[d].at = "idle" /\ UNCHANGED <<worldVars, mailVars, sale, mishaps>>
    BY DEF SelectSales, JobAt, Deliverers
  <1>2. job[d].todo = {} /\ job[d].now = {} /\ job[d] \in JobRow
    BY <1>1, Holders DEF DeliveryJobOK
  <1>3. JobBecomes(d, "sale", DueSales, {}, job[d].outcome) /\ DueSales \subseteq Sales
    <2>1. DueSales \in SUBSET SaleOrMail /\ DueSales \subseteq Sales /\ Take(d, "sale", DueSales)
      BY DEF DueSales, SaleOrMail, SelectSales
    <2>. QED BY <1>1, <1>2, <2>1, JobMoves DEF Steps
  <1>4. Rested(d)
    BY <1>1, <1>3, JobTurns
  <1>5. SaleMove(d)
    BY <1>1, <1>3, <1>4, OutboxRows DEF SaleMove, JobBecomes
  <1>6. ASSUME NEW s \in DueSales PROVE SaleOK(s)'
    <2>1. sale[s] \in SaleRow /\ SaleOK(s) /\ mishaps \in Nat /\ MaxAttempts \in Nat
      BY OutboxRows, AttemptsAssumption DEF OutboxInv, DueSales
    <2>2. sale[s].status \in {"pending", "failed"} /\ sale[s].attempts < MaxAttempts
      BY DEF DueSales
    <2>3. Holding(s)' \subseteq Deliverers /\ Telling(s)' = Telling(s) /\ Telling(s) \subseteq Deliverers
      BY <1>2, <1>3 DEF Holding, Telling, JobBecomes
    <2>4. Cardinality(Holding(s)') <= Cardinality(Deliverers) /\ Cardinality(Holding(s)') \in Nat
             /\ Cardinality(Deliverers) \in Nat
      BY <2>3, Crews
    <2>5. sale[s].attempts + Cardinality(Holding(s)') < MaxAttempts + Cardinality(Deliverers) + mishaps
      BY <2>1, <2>2, <2>4 DEF SaleRow
    <2>6. \A e \in Deliverers : s \in job'[e].now /\ job'[e].outcome = "sent" => sale[s].received > 0
      BY <1>3, <2>1 DEF SaleOK, JobBecomes
    <2>. QED BY <1>1, <2>1, <2>2, <2>3, <2>5, <2>6 DEF SaleOK
  <1>7. ASSUME NEW t \in Sales \ DueSales PROVE SaleOK(t)'
    <2>1. d \notin Telling(t) /\ t \notin job'[d].todo \cup job'[d].now
      BY <1>2, <1>3, <1>7 DEF Telling, JobBecomes
    <2>. QED BY <1>1, <1>4, <2>1, SaleKept DEF Rested
  <1>. QED BY <1>1, <1>5, <1>6, <1>7, SaleMoveKeeps

LEMMA ReportKeeps ==
    ASSUME OutboxInv, NEW d \in Deliverers, NEW s \in Sales, ReportSale(d, s)
    PROVE  OutboxInv'
  <1>1. PICK outcome \in SaleStatus, received \in {0, 1} :
           /\ Reported(s, outcome, received)
           /\ sale' = [sale EXCEPT ![s].received = @ + received]
           /\ job' = [job EXCEPT ![d] = [at |-> "reported", todo |-> @.todo \ {s},
                                         now |-> {s}, outcome |-> outcome]]
           /\ IF outcome \in {"pending", "failed"} THEN Mishap ELSE UNCHANGED mishaps
    BY DEF ReportSale
  <1>2. job[d].at = "sale" /\ s \in job[d].todo /\ UNCHANGED <<worldVars, mailVars>>
    BY DEF ReportSale, JobAt
  <1>3. job[d].now = {} /\ job[d].todo \subseteq Sales /\ job[d] \in JobRow
    BY <1>2, Holders DEF DeliveryJobOK
  <1>4. JobBecomes(d, "reported", job[d].todo \ {s}, {s}, outcome)
    <2>1. job' = [job EXCEPT ![d] = [at |-> "reported", todo |-> job[d].todo \ {s},
                                     now |-> {s}, outcome |-> outcome]]
      BY <1>1, OutboxRows
    <2>2. "reported" \in Steps /\ job[d].todo \ {s} \in SUBSET SaleOrMail /\ {s} \in SUBSET SaleOrMail
             /\ outcome \in SaleStatus \cup {"none"}
      BY <1>3 DEF Steps, SaleOrMail
    <2>. QED BY <2>1, <2>2, JobGets
  <1>5. Rested(d)
    BY <1>1, <1>3, <1>4, JobTurns
  <1>6. sale' \in [Sales -> SaleRow] /\ sale'[s] = [sale[s] EXCEPT !.received = @ + received]
           /\ \A t \in Sales \ {s} : sale'[t] = sale[t]
    BY <1>1, OutboxRows DEF SaleRow
  <1>7. SaleMove(d)
    BY <1>2, <1>4, <1>5, <1>6 DEF SaleMove, JobBecomes
  <1>8. SaleOK(s)'
    <2>1. sale[s] \in SaleRow /\ SaleOK(s) /\ mishaps \in Nat /\ MaxAttempts \in Nat
      BY OutboxRows, AttemptsAssumption DEF OutboxInv
    <2>2. /\ sale'[s].status = sale[s].status /\ sale'[s].attempts = sale[s].attempts
          /\ sale'[s].consent = sale[s].consent /\ sale'[s].received = sale[s].received + received
          /\ sale[s].received \in Nat /\ sale[s].attempts \in Nat
      BY <1>6, <2>1 DEF SaleRow
    <2>3. Holding(s)' = Holding(s) /\ d \in Holding(s)
      BY <1>2, <1>4 DEF Holding, JobBecomes
    <2>4. Cardinality(Holding(s)) \in Nat /\ Cardinality(Deliverers) \in Nat
             /\ Telling(s) \subseteq Deliverers /\ Telling(s)' \subseteq Deliverers
      BY Crews DEF Holding, Telling
    <2>5. Cardinality(Telling(s)) + received <= Cardinality(Telling(s)')
      <3>1. Telling(s) \subseteq Telling(s)' /\ d \notin Telling(s)
        BY <1>3, <1>4 DEF Telling, JobBecomes
      <3>2. CASE received = 0
        BY <2>4, <3>1, <3>2, Smaller, Crews
      <3>3. CASE received = 1
        <4>1. outcome \in {"sent", "failed"}
          BY <1>1, <3>3 DEF Reported, SaleStatus
        <4>2. d \in Telling(s)' /\ Telling(s) \subseteq Telling(s)' \ {d}
          BY <1>4, <3>1, <4>1 DEF Telling, JobBecomes
        <4>3. Cardinality(Telling(s)) <= Cardinality(Telling(s)') - 1
          BY <2>4, <4>2, OneLess
        <4>. QED BY <2>4, <3>3, <4>3, Crews
      <3>. QED BY <3>2, <3>3
    <2>6. mishaps' >= mishaps /\ mishaps' \in Nat
      BY <1>5, <2>1 DEF Rested
    <2>7. sale'[s].status # "none"
      BY <2>1, <2>2, <2>3 DEF SaleOK
    <2>8. sale[s].attempts + Cardinality(Holding(s)) < MaxAttempts + Cardinality(Deliverers) + mishaps'
      BY <2>1, <2>2, <2>4, <2>6 DEF SaleOK
    <2>9. sale'[s].received <= sale'[s].attempts + mishaps' + Cardinality(Telling(s)')
      <3>1. Cardinality(Telling(s)) \in Nat /\ Cardinality(Telling(s)') \in Nat
        BY <2>4, Crews
      <3>. QED BY <2>1, <2>2, <2>5, <2>6, <3>1 DEF SaleOK
    <2>10. ~sale[s].consent => received = 0
      BY <1>1 DEF Reported
    <2>11. outcome = "sent" => received = 1
      BY <1>1 DEF Reported
    <2>12. \A e \in Deliverers : s \in job'[e].now /\ job'[e].outcome = "sent" => sale'[s].received > 0
      BY <1>4, <2>1, <2>2, <2>11 DEF SaleOK, JobBecomes
    <2>13. /\ ~sale'[s].consent => sale'[s].received = 0
           /\ sale'[s].status = "sent" => sale'[s].received > 0
      BY <2>1, <2>2, <2>10 DEF SaleOK
    <2>. QED BY <2>2, <2>3, <2>7, <2>8, <2>9, <2>12, <2>13 DEF SaleOK
  <1>9. ASSUME NEW t \in Sales, t # s PROVE SaleOK(t)'
    <2>1. /\ d \notin Telling(t) /\ t \notin job'[d].now
          /\ t \in job'[d].todo => t \in job[d].todo
      BY <1>3, <1>4, <1>9 DEF Telling, JobBecomes
    <2>. QED BY <1>5, <1>6, <1>9, <2>1, SaleKept DEF Rested
  <1>. QED BY <1>7, <1>8, <1>9, SaleMoveKeeps

\* The row that updateAnalyticsDelivery writes.
LEMMA Delivered ==
    ASSUME OutboxInv, NEW s \in Sales, NEW outcome \in SaleStatus, Delivery(s, outcome)
    PROVE  /\ sale' \in [Sales -> SaleRow] /\ \A t \in Sales \ {s} : sale'[t] = sale[t]
           /\ sale'[s].status = outcome /\ sale'[s].consent = sale[s].consent
           /\ sale'[s].received = sale[s].received
           /\ sale'[s].attempts = sale[s].attempts + (IF outcome \in {"sent", "failed"} THEN 1 ELSE 0)
  <1>. DEFINE count == IF outcome \in {"sent", "failed"} THEN 1 ELSE 0
              written == [sale[s] EXCEPT !.status = outcome, !.attempts = @ + count]
  <1>1. sale[s] \in SaleRow /\ count \in Nat
    BY OutboxRows
  <1>2. ASSUME NEW r \in SaleRow, NEW n \in Nat
        PROVE  LET q == [r EXCEPT !.status = outcome, !.attempts = @ + n]
               IN  /\ q \in SaleRow /\ q.status = outcome /\ q.attempts = r.attempts + n
                   /\ q.consent = r.consent /\ q.received = r.received
    <2>. DEFINE p == [r EXCEPT !.attempts = @ + n]
                q == [r EXCEPT !.status = outcome, !.attempts = @ + n]
    <2>1. p \in SaleRow
      BY DEF SaleRow
    <2>2. q = [p EXCEPT !.status = outcome]
      BY DEF SaleRow
    <2>3. q \in SaleRow
      <3>. HIDE DEF p, q
      <3>. QED BY <2>1, <2>2 DEF SaleRow
    <2>4. /\ q.status = outcome /\ q.attempts = r.attempts + n
          /\ q.consent = r.consent /\ q.received = r.received
      BY DEF SaleRow
    <2>. QED BY <2>3, <2>4
  <1>3. /\ written \in SaleRow /\ written.status = outcome /\ written.attempts = sale[s].attempts + count
        /\ written.consent = sale[s].consent /\ written.received = sale[s].received
    <2>. HIDE DEF count
    <2>. QED BY <1>1, <1>2
  <1>4. sale' = [sale EXCEPT ![s] = written]
    BY OutboxRows DEF Delivery
  <1>. HIDE DEF written
  <1>. QED BY <1>3, <1>4, OutboxRows

\* The purchase of a delivery that ends, or is retried after an error.
LEMMA RecordedSale ==
    ASSUME OutboxInv, NEW d \in Deliverers, NEW s \in Sales, s \in job[d].now, Rested(d),
           job[d].outcome \in SaleStatus,
           Delivery(s, job[d].outcome) \/ (sale' = sale /\ mishaps' = mishaps + 1),
           s \notin job'[d].todo,
           s \in job'[d].now => mishaps' = mishaps + 1 /\ job'[d].outcome # "sent"
    PROVE  SaleOK(s)'
  <1>. DEFINE count == IF Delivery(s, job[d].outcome) /\ job[d].outcome \in {"sent", "failed"} THEN 1 ELSE 0
  <1>1. /\ SaleOK(s) /\ mishaps \in Nat /\ MaxAttempts \in Nat /\ sale[s].status # "none"
    BY OutboxRows, AttemptsAssumption DEF OutboxInv, SaleOK, Holding
  <1>2. /\ sale[s].attempts \in Nat /\ sale[s].received \in Nat /\ sale'[s].received = sale[s].received
        /\ sale'[s].consent = sale[s].consent /\ sale'[s].status \in {sale[s].status, job[d].outcome}
        /\ sale'[s].attempts = sale[s].attempts \/ sale'[s].attempts = sale[s].attempts + 1
        /\ (sale'[s].attempts = sale[s].attempts /\ mishaps' = mishaps => job[d].outcome \notin {"sent", "failed"})
    BY Delivered, OutboxRows DEF SaleRow
  <1>3. /\ Holding(s)' \subseteq Holding(s) /\ d \in Holding(s) /\ Holding(s) \subseteq Deliverers
        /\ Telling(s) \subseteq Telling(s)' \cup {d} /\ Telling(s) \subseteq Deliverers
        /\ Telling(s)' \subseteq Deliverers
    BY DEF Holding, Telling, Rested, OthersStay
  <1>4. /\ Cardinality(Holding(s)) \in Nat /\ Cardinality(Holding(s)') \in Nat
        /\ Cardinality(Telling(s)) \in Nat /\ Cardinality(Telling(s)') \in Nat
        /\ Cardinality(Deliverers) \in Nat
    BY <1>3, Crews
  <1>5. mishaps' \in {mishaps, mishaps + 1}
    BY DEF Rested
  <1>6. sale'[s].attempts + Cardinality(Holding(s)') < MaxAttempts + Cardinality(Deliverers) + mishaps'
    <2>1. CASE mishaps' = mishaps
      <3>1. Holding(s)' \subseteq Holding(s) \ {d}
        BY <1>1, <1>3, <2>1 DEF Holding
      <3>2. Cardinality(Holding(s)') <= Cardinality(Holding(s)) - 1
        BY <1>3, <3>1, OneLess
      <3>. QED BY <1>1, <1>2, <1>4, <2>1, <3>2 DEF SaleOK
    <2>2. CASE mishaps' = mishaps + 1
      <3>1. Cardinality(Holding(s)') <= Cardinality(Holding(s))
        BY <1>3, Smaller
      <3>. QED BY <1>1, <1>2, <1>4, <2>2, <3>1 DEF SaleOK
    <2>. QED BY <1>5, <2>1, <2>2
  <1>7. sale'[s].received <= sale'[s].attempts + mishaps' + Cardinality(Telling(s)')
    <2>1. CASE sale'[s].attempts = sale[s].attempts /\ mishaps' = mishaps
      <3>1. Telling(s) \subseteq Telling(s)'
        BY <1>2, <1>3, <2>1 DEF Telling
      <3>2. Cardinality(Telling(s)) <= Cardinality(Telling(s)')
        BY <1>3, <3>1, Smaller
      <3>. QED BY <1>1, <1>2, <1>4, <2>1, <3>2 DEF SaleOK
    <2>2. CASE ~(sale'[s].attempts = sale[s].attempts /\ mishaps' = mishaps)
      <3>1. Cardinality(Telling(s)) <= Cardinality(Telling(s)') + 1
        BY <1>3, Grown
      <3>. QED BY <1>1, <1>2, <1>4, <1>5, <2>2, <3>1 DEF SaleOK
    <2>. QED BY <2>1, <2>2
  <1>8. sale'[s].status # "none"
    BY <1>1, <1>2 DEF SaleStatus
  <1>9. /\ ~sale'[s].consent => sale'[s].received = 0
        /\ sale'[s].status = "sent" => sale'[s].received > 0
    BY <1>1, <1>2 DEF SaleOK
  <1>10. \A e \in Deliverers : s \in job'[e].now /\ job'[e].outcome = "sent" => sale'[s].received > 0
    BY <1>1, <1>2 DEF SaleOK, Rested, OthersStay
  <1>. QED BY <1>6, <1>7, <1>8, <1>9, <1>10 DEF SaleOK

LEMMA RecordingKeeps ==
    ASSUME OutboxInv, NEW d \in Deliverers, NEW s \in Sales, RecordSale(d, s) \/ RecordSaleThrows(d, s)
    PROVE  OutboxInv'
  <1>1. job[d].at = "reported" /\ s \in job[d].now /\ UNCHANGED <<worldVars, mailVars>>
    BY DEF RecordSale, RecordSaleThrows, JobAt
  <1>2. job[d].now = {s} /\ job[d].outcome \in SaleStatus /\ job[d].todo \subseteq Sales /\ s \notin job[d].todo
    BY <1>1, Holders DEF DeliveryJobOK
  <1>3. Delivery(s, job[d].outcome) \/ (sale' = sale /\ Mishap)
    BY DEF RecordSale, RecordSaleThrows
  <1>4. sale' \in [Sales -> SaleRow] /\ \A t \in Sales \ {s} : sale'[t] = sale[t]
    BY <1>2, <1>3, Delivered, OutboxRows
  <1>5. \/ mishaps' = mishaps /\ JobBecomes(d, "sale", job[d].todo, {}, job[d].outcome)
        \/ Mishap /\ JobBecomes(d, "idle", {}, {}, "none")
        \/ Mishap /\ JobBecomes(d, "reported", job[d].todo, {s}, "failed")
    BY <1>1, <1>2, JobMoves DEF RecordSale, RecordSaleThrows, Steps, SaleStatus
  <1>6. Rested(d)
    <2>1. CASE mishaps' = mishaps /\ JobBecomes(d, "sale", job[d].todo, {}, job[d].outcome)
      BY <1>2, <2>1, JobTurns
    <2>2. CASE Mishap /\ JobBecomes(d, "idle", {}, {}, "none")
      BY <2>2, JobTurns
    <2>3. CASE Mishap /\ JobBecomes(d, "reported", job[d].todo, {s}, "failed")
      BY <1>2, <2>3, JobTurns DEF SaleStatus
    <2>. QED BY <1>5, <2>1, <2>2, <2>3
  <1>7. SaleMove(d)
    BY <1>1, <1>4, <1>5, <1>6 DEF SaleMove, JobBecomes
  <1>8. SaleOK(s)'
    <2>1. s \notin job'[d].todo /\ (s \in job'[d].now => mishaps' = mishaps + 1 /\ job'[d].outcome # "sent")
      BY <1>2, <1>5, MishapCounted DEF JobBecomes
    <2>2. Delivery(s, job[d].outcome) \/ (sale' = sale /\ mishaps' = mishaps + 1)
      BY <1>3, MishapCounted
    <2>. QED BY <1>1, <1>2, <1>6, <2>1, <2>2, RecordedSale
  <1>9. ASSUME NEW t \in Sales, t # s PROVE SaleOK(t)'
    <2>1. /\ d \notin Telling(t) /\ t \notin job'[d].now
          /\ t \in job'[d].todo => t \in job[d].todo
      BY <1>2, <1>5, <1>9 DEF Telling, JobBecomes
    <2>. QED BY <1>4, <1>6, <1>9, <2>1, SaleKept DEF Rested
  <1>. QED BY <1>7, <1>8, <1>9, SaleMoveKeeps

LEMMA SalesDoneKeeps ==
    ASSUME OutboxInv, NEW d \in Deliverers, SalesDone(d)
    PROVE  OutboxInv'
  <1>. DEFINE next == IF d \in Jobs THEN "abandoned" ELSE "idle"
  <1>1. /\ job[d].at = "sale" /\ job[d].todo = {} /\ job[d].now = {}
        /\ UNCHANGED <<worldVars, mailVars, sale, mishaps>>
    BY Holders DEF SalesDone, JobAt, DeliveryJobOK
  <1>2. JobBecomes(d, next, {}, {}, job[d].outcome)
    BY <1>1, JobMoves DEF SalesDone, Steps
  <1>3. Rested(d)
    BY <1>1, <1>2, JobTurns
  <1>4. SaleMove(d)
    BY <1>1, <1>2, <1>3, OutboxRows DEF SaleMove, JobBecomes
  <1>5. ASSUME NEW t \in Sales PROVE SaleOK(t)'
    <2>1. d \notin Telling(t) /\ t \notin job'[d].todo \cup job'[d].now
      BY <1>1, <1>2 DEF Telling, JobBecomes
    <2>. QED BY <1>1, <1>3, <2>1, SaleKept DEF Rested
  <1>. QED BY <1>4, <1>5, SaleMoveKeeps

\* The rows that a queue function's inserts leave.
LEMMA QueueRows ==
    ASSUME OutboxInv, NEW keys, Queue(keys)
    PROVE  /\ mail' \in [MailKeys -> {"none", "pending", "sent"}]
           /\ \A k \in MailKeys : mail'[k] = mail[k] \/ (mail[k] = "none" /\ mail'[k] = "pending")
  <1>1. ASSUME NEW k \in MailKeys PROVE mail'[k] = mail[k] \/ (mail[k] = "none" /\ mail'[k] = "pending")
    BY DEF Queue
  <1>2. ASSUME NEW k \in MailKeys PROVE mail'[k] \in {"none", "pending", "sent"}
    BY <1>1, OutboxRows
  <1>3. mail' = [k \in MailKeys |-> mail'[k]]
    BY DEF Queue
  <1>. QED BY <1>1, <1>2, <1>3

LEMMA QueueKeeps ==
    ASSUME OutboxInv, NEW d \in Deliverers, NEW step \in Steps, NEW next \in Steps, NEW keys,
           step \notin {"idle", "sale", "reported", "mail", "mailed"},
           next \notin {"idle", "sale", "reported", "mail", "mailed"},
           QueueStep(d, step, keys, next)
    PROVE  OutboxInv'
  <1>1. /\ job[d].at = step /\ UNCHANGED <<worldVars, leadVars, mailed, sale>>
        /\ \/ (\E some : Queue(some)) /\ Turn(d, next) /\ UNCHANGED mishaps
           \/ (\E some : Queue(some)) /\ Abort(d) /\ Mishap
    BY DEF QueueStep, JobAt
  <1>2. job[d].todo = {} /\ job[d].now = {} /\ d \in Jobs
    BY <1>1, Holders DEF DeliveryJobOK
  <1>3. \/ mishaps' = mishaps /\ JobBecomes(d, next, {}, {}, job[d].outcome)
        \/ Mishap /\ JobBecomes(d, "idle", {}, {}, "none")
    BY <1>1, <1>2, JobMoves
  <1>4. Rested(d)
    BY <1>2, <1>3, JobTurns
  <1>5. /\ mail' \in [MailKeys -> {"none", "pending", "sent"}]
        /\ \A k \in MailKeys : mail'[k] = mail[k] \/ (mail[k] = "none" /\ mail'[k] = "pending")
    BY <1>1, QueueRows
  <1>6. MailMove(d)
    BY <1>1, <1>3, <1>4, <1>5, OutboxRows, LeadsRest DEF MailMove, JobBecomes
  <1>7. ASSUME NEW k \in MailKeys PROVE MailOK(k)'
    <2>1. HoldsAlike(k)
      BY <1>2, <1>3, Crews DEF HoldsAlike, JobBecomes
    <2>2. mishaps' \in {mishaps, mishaps + 1} /\ mailed'[k] = mailed[k]
      BY <1>1, <1>4 DEF Rested
    <2>. QED BY <1>5, <2>1, <2>2, MailSame, MailQueued
  <1>8. Reminders'
    BY <1>1, LeadsRest DEF Reminders
  <1>. QED BY <1>6, <1>7, <1>8, MailMoveKeeps

LEMMA PaymentQueueKeeps ==
    ASSUME OutboxInv, NEW c \in Customers, QueuePaymentFailed(c)
    PROVE  OutboxInv'
  <1>1. UNCHANGED <<worldVars, leadVars, mailed, sale, job, mishaps>>
    BY DEF QueuePaymentFailed
  <1>2. /\ mail' \in [MailKeys -> {"none", "pending", "sent"}]
        /\ \A k \in MailKeys : mail'[k] = mail[k] \/ (mail[k] = "none" /\ mail'[k] = "pending")
    BY QueueRows DEF QueuePaymentFailed
  <1>3. OutboxTypeOK'
    BY <1>1, <1>2, TypesRest, LeadsRest, OutboxRows
  <1>4. \A d \in Deliverers : DeliveryJobOK(d)'
    BY <1>1 DEF OutboxInv, DeliveryJobOK
  <1>5. ASSUME NEW s \in Sales PROVE SaleOK(s)'
    <2>1. Holding(s)' = Holding(s) /\ Telling(s)' = Telling(s)
      BY <1>1 DEF Holding, Telling
    <2>. QED BY <1>1, <2>1 DEF OutboxInv, SaleOK
  <1>6. ASSUME NEW k \in MailKeys PROVE MailOK(k)'
    <2>1. HoldsAlike(k)
      BY <1>1 DEF HoldsAlike
    <2>. QED BY <1>1, <1>2, <2>1, MailSame, MailQueued
  <1>7. Reminders'
    BY <1>1, LeadsRest DEF Reminders
  <1>. QED BY <1>3, <1>4, <1>5, <1>6, <1>7 DEF OutboxInv

LEMMA SelectMailsKeeps ==
    ASSUME OutboxInv, NEW d \in Deliverers, SelectMails(d)
    PROVE  OutboxInv'
  <1>. DEFINE due == {k \in MailKeys : mail[k] = "pending"}
  <1>1. job[d].at = "select" /\ UNCHANGED <<worldVars, mailVars, sale, mishaps>> /\ Take(d, "mail", due)
    BY DEF SelectMails, JobAt
  <1>2. job[d].todo = {} /\ job[d].now = {} /\ d \in Jobs
    BY <1>1, Holders DEF DeliveryJobOK
  <1>3. JobBecomes(d, "mail", due, {}, job[d].outcome)
    <2>1. due \in SUBSET SaleOrMail /\ "mail" \in Steps
      BY DEF SaleOrMail, Steps
    <2>. QED BY <1>1, <1>2, <2>1, JobMoves
  <1>4. Rested(d)
    BY <1>1, <1>2, <1>3, JobTurns
  <1>5. MailMove(d)
    BY <1>1, <1>3, <1>4, OutboxRows, LeadsRest DEF MailMove, JobBecomes
  <1>6. ASSUME NEW k \in MailKeys, mail[k] # "pending" PROVE MailOK(k)'
    <2>1. HoldsAlike(k)
      BY <1>2, <1>3, <1>6, Crews DEF HoldsAlike, JobBecomes
    <2>. QED BY <1>1, <2>1, MailSame
  <1>7. ASSUME NEW k \in MailKeys, mail[k] = "pending" PROVE MailOK(k)'
    <2>1. /\ Chosen(k)' \subseteq Chosen(k) \cup {d} /\ Unsure(k)' = Unsure(k)
          /\ Free(k)' \subseteq Free(k) \ {d} /\ d \in Free(k)
      BY <1>2, <1>3, <1>7, Crews DEF Chosen, Unsure, Free, JobBecomes
    <2>2. /\ Cardinality(Chosen(k)') <= Cardinality(Chosen(k)) + 1 /\ Cardinality(Chosen(k)') \in Nat
          /\ Cardinality(Free(k)') <= Cardinality(Free(k)) - 1 /\ Cardinality(Free(k)') \in Nat
      BY <2>1, Grown, OneLess, Crews, CopiesAddUp
    <2>3. Copies(k)' <= Copies(k)
      <3>1. Cardinality(Jobs) * Cardinality(Unsure(k)) \in Nat
        BY CopiesAddUp, Products
      <3>. QED BY <1>1, <1>7, <2>1, <2>2, <3>1, CopiesAddUp DEF Copies, Selectable
    <2>4. Copies(k) \in Nat /\ Copies(k)' \in Nat /\ Cardinality(Jobs) * (1 + mishaps) \in Nat
      <3>1. Cardinality(Jobs) * Cardinality(Unsure(k)) \in Nat /\ Cardinality(Jobs) * (1 + mishaps) \in Nat
        BY CopiesAddUp, Products
      <3>. QED BY <1>1, <2>1, <2>2, <3>1, CopiesAddUp DEF Copies, Selectable
    <2>5. Copies(k)' <= Cardinality(Jobs) * (1 + mishaps')
      BY <1>1, <2>3, <2>4 DEF OutboxInv, MailOK
    <2>6. \A e \in Jobs : k \in job'[e].now /\ job'[e].outcome = "sent" => mailed'[k] > 0
      BY <1>1, <1>3, Crews DEF OutboxInv, MailOK, JobBecomes
    <2>. QED BY <1>1, <1>7, <2>5, <2>6 DEF MailOK
  <1>8. Reminders'
    BY <1>1, LeadsRest DEF Reminders
  <1>. QED BY <1>5, <1>6, <1>7, <1>8, MailMoveKeeps

LEMMA MailsDoneKeeps ==
    ASSUME OutboxInv, NEW d \in Deliverers, MailsDone(d)
    PROVE  OutboxInv'
  <1>1. /\ job[d].at = "mail" /\ job[d].todo = {} /\ job[d].now = {}
        /\ UNCHANGED <<worldVars, mailVars, sale, mishaps>>
    BY Holders DEF MailsDone, JobAt, DeliveryJobOK
  <1>2. JobBecomes(d, "idle", {}, {}, job[d].outcome)
    BY <1>1, JobMoves DEF MailsDone, Steps
  <1>3. Rested(d)
    BY <1>1, <1>2, JobTurns
  <1>4. MailMove(d)
    BY <1>1, <1>2, <1>3, OutboxRows, LeadsRest DEF MailMove, JobBecomes
  <1>5. ASSUME NEW k \in MailKeys PROVE MailOK(k)'
    <2>1. HoldsAlike(k)
      BY <1>1, <1>2, Crews DEF HoldsAlike, JobBecomes
    <2>. QED BY <1>1, <2>1, MailSame
  <1>6. Reminders'
    BY <1>1, LeadsRest DEF Reminders
  <1>. QED BY <1>4, <1>5, <1>6, MailMoveKeeps

LEMMA SendingMailKeeps ==
    ASSUME OutboxInv, NEW d \in Deliverers, NEW k \in MailKeys, SendMail(d, k)
    PROVE  OutboxInv'
  <1>1. PICK taken \in {0, 1}, answered \in BOOLEAN :
           /\ answered => taken = 1
           /\ mailed' = [mailed EXCEPT ![k] = @ + taken]
           /\ job' = [job EXCEPT ![d] = [at |-> "mailed", todo |-> @.todo \ {k}, now |-> {k},
                                         outcome |-> IF answered THEN "sent" ELSE "pending"]]
           /\ IF answered THEN UNCHANGED mishaps ELSE Mishap
    BY DEF SendMail
  <1>. DEFINE outcome == IF answered THEN "sent" ELSE "pending"
  <1>2. job[d].at = "mail" /\ k \in job[d].todo /\ UNCHANGED <<worldVars, leadVars, mail, sale>>
    BY DEF SendMail, JobAt
  <1>3. job[d].now = {} /\ job[d].todo \subseteq MailKeys /\ job[d] \in JobRow /\ d \in Jobs
    BY <1>2, Holders DEF DeliveryJobOK
  <1>4. JobBecomes(d, "mailed", job[d].todo \ {k}, {k}, outcome)
    <2>1. job' = [job EXCEPT ![d] = [at |-> "mailed", todo |-> job[d].todo \ {k},
                                     now |-> {k}, outcome |-> outcome]]
      BY <1>1, OutboxRows
    <2>2. "mailed" \in Steps /\ job[d].todo \ {k} \in SUBSET SaleOrMail /\ {k} \in SUBSET SaleOrMail
             /\ outcome \in SaleStatus \cup {"none"}
      BY <1>3 DEF Steps, SaleOrMail, SaleStatus
    <2>. QED BY <2>1, <2>2, JobGets
  <1>5. Rested(d)
    BY <1>1, <1>3, <1>4, JobTurns
  <1>6. mailed' \in [MailKeys -> Nat] /\ mailed'[k] = mailed[k] + taken
           /\ \A m \in MailKeys \ {k} : mailed'[m] = mailed[m]
    BY <1>1, OutboxRows
  <1>7. MailMove(d)
    BY <1>2, <1>4, <1>5, <1>6, OutboxRows, LeadsRest DEF MailMove, JobBecomes
  <1>8. ASSUME NEW m \in MailKeys, m # k PROVE MailOK(m)'
    <2>1. HoldsAlike(m)
      BY <1>3, <1>4, <1>8, Crews DEF HoldsAlike, JobBecomes
    <2>. QED BY <1>2, <1>5, <1>6, <1>8, <2>1, MailSame DEF Rested
  <1>9. MailOK(k)'
    <2>1. /\ d \in Chosen(k) /\ Chosen(k)' \subseteq Chosen(k) \ {d} /\ Free(k)' \subseteq Free(k)
          /\ Unsure(k)' \subseteq Unsure(k) \cup {d} /\ (answered => Unsure(k)' \subseteq Unsure(k))
      BY <1>2, <1>3, <1>4, Crews DEF Chosen, Unsure, Free, JobBecomes
    <2>2. /\ Cardinality(Chosen(k)') <= Cardinality(Chosen(k)) - 1 /\ Cardinality(Chosen(k)') \in Nat
          /\ Cardinality(Free(k)') <= Cardinality(Free(k)) /\ Cardinality(Free(k)') \in Nat
          /\ Cardinality(Unsure(k)') <= Cardinality(Unsure(k)) + 1 /\ Cardinality(Unsure(k)') \in Nat
          /\ (answered => Cardinality(Unsure(k)') <= Cardinality(Unsure(k)))
      BY <2>1, Smaller, Grown, OneLess, Crews, CopiesAddUp
    <2>. DEFINE n == Cardinality(Jobs)
                u == Cardinality(Unsure(k))
                up == Cardinality(Unsure(k)')
                f == Selectable(k)
                fp == Selectable(k)'
    <2>3. fp <= f /\ fp \in Nat /\ f \in Nat
      BY <1>2, <2>2, CopiesAddUp DEF Selectable
    <2>4. /\ n \in Nat /\ n * up \in Nat /\ n * u \in Nat
          /\ n * up <= n * u + n /\ (answered => n * up <= n * u)
      <3>1. n \in Nat /\ u \in Nat /\ up \in Nat /\ up <= u + 1 /\ (answered => up <= u)
        BY <2>2, CopiesAddUp
      <3>. HIDE DEF n, u, up
      <3>2. n * (u + 1) = n * u + n /\ n * up \in Nat /\ n * u \in Nat /\ n * up <= n * (u + 1)
               /\ (up <= u => n * up <= n * u)
        BY <3>1, Products
      <3>. QED BY <3>1, <3>2
    <2>5. /\ Copies(k)' \in Nat /\ Copies(k) \in Nat /\ Copies(k)' <= Copies(k) + n
          /\ (answered => Copies(k)' <= Copies(k))
      <3>1. /\ Copies(k) = mailed[k] + Cardinality(Chosen(k)) + n * u + f
            /\ Copies(k)' = mailed[k] + taken + Cardinality(Chosen(k)') + n * up + fp
        BY <1>6 DEF Copies
      <3>. HIDE DEF n, u, up, f, fp
      <3>. QED BY <2>2, <2>3, <2>4, <3>1, CopiesAddUp
    <2>6. Copies(k)' <= Cardinality(Jobs) * (1 + mishaps')
      <3>1. CASE answered
        <4>1. Copies(k) <= Cardinality(Jobs) * (1 + mishaps) /\ mishaps' = mishaps
          BY <1>1, <3>1 DEF OutboxInv, MailOK
        <4>2. Cardinality(Jobs) * (1 + mishaps) \in Nat
          BY CopiesAddUp, Products
        <4>. QED BY <2>5, <3>1, <4>1, <4>2
      <3>2. CASE ~answered
        BY <1>1, <2>5, <3>2, MailMishap, MishapCounted
      <3>. QED BY <3>1, <3>2
    <2>7. mail'[k] # "none"
      BY <1>2, <1>3 DEF OutboxInv, MailOK
    <2>8. \A e \in Jobs : k \in job'[e].now /\ job'[e].outcome = "sent" => mailed'[k] > 0
      BY <1>1, <1>4, <1>6, Crews, CopiesAddUp DEF OutboxInv, MailOK, JobBecomes
    <2>. QED BY <2>6, <2>7, <2>8 DEF MailOK
  <1>10. Reminders'
    <2>1. ASSUME NEW l \in Buyers, reminded'[l] PROVE mailed'[Key("abandoned_checkout", l, 0)] > 0
      <3>1. Key("abandoned_checkout", l, 0) \in MailKeys
        BY DEF MailKeys
      <3>2. mailed[Key("abandoned_checkout", l, 0)] > 0
        BY <1>2, <2>1, LeadsRest DEF Reminders
      <3>. QED BY <1>6, <3>1, <3>2, CopiesAddUp
    <2>. QED BY <2>1 DEF Reminders
  <1>. QED BY <1>7, <1>8, <1>9, <1>10, MailMoveKeeps

\* The lead's row after its mail: it counts as reminded only of a mail that went out.
LEMMA LeadsFollow ==
    ASSUME OutboxInv, NEW k \in MailKeys, FollowedUp(k) \/ UNCHANGED leadVars, mailed[k] > 0,
           UNCHANGED mailed
    PROVE  /\ followUp' \in [Buyers \cup Enterprises -> Days \cup {NoDay}]
           /\ reminded' \in [Buyers -> BOOLEAN] /\ Reminders'
  <1>1. /\ followUp \in [Buyers \cup Enterprises -> Days \cup {NoDay}]
        /\ reminded \in [Buyers -> BOOLEAN] /\ Reminders
    BY LeadsRest
  <1>2. CASE UNCHANGED leadVars
    BY <1>1, <1>2 DEF Reminders
  <1>3. CASE FollowedUp(k) /\ k.type = "enterprise_follow_up"
    <2>1. followUp' = [followUp EXCEPT ![k.of] = today + 1] /\ reminded' = reminded
      BY <1>3 DEF FollowedUp
    <2>2. today + 1 \in Days \cup {NoDay}
      BY OutboxRows, DaysAssumption DEF Days, NoDay
    <2>. QED BY <1>1, <2>1, <2>2 DEF Reminders
  <1>4. CASE FollowedUp(k) /\ k.type = "abandoned_checkout"
    <2>1. reminded' = [reminded EXCEPT ![k.of] = TRUE] /\ followUp' = followUp
      BY <1>4 DEF FollowedUp
    <2>2. k = Key("abandoned_checkout", k.of, 0)
      BY <1>4 DEF MailKeys, Key
    <2>3. ASSUME NEW l \in Buyers, reminded'[l] PROVE mailed'[Key("abandoned_checkout", l, 0)] > 0
      BY <1>1, <2>1, <2>2, <2>3 DEF Reminders
    <2>. QED BY <1>1, <2>1, <2>3 DEF Reminders
  <1>5. CASE FollowedUp(k) /\ k.type \notin {"enterprise_follow_up", "abandoned_checkout"}
    <2>1. UNCHANGED leadVars
      BY <1>5 DEF FollowedUp
    <2>. QED BY <1>2, <2>1
  <1>. QED BY <1>2, <1>3, <1>4, <1>5

LEMMA RecordMailKeeps ==
    ASSUME OutboxInv, NEW d \in Deliverers, NEW k \in MailKeys, RecordMail(d, k)
    PROVE  OutboxInv'
  <1>1. /\ job[d].at = "mailed" /\ k \in job[d].now /\ UNCHANGED <<worldVars, mailed, sale, mishaps>>
        /\ MarkMail(k, job[d].outcome) /\ RowDone(d, "mail")
    BY DEF RecordMail, JobAt
  <1>2. /\ job[d].now = {k} /\ job[d].todo \subseteq MailKeys /\ d \in Jobs /\ k \notin job[d].todo
        /\ job[d].outcome \in {"sent", "pending"}
    BY <1>1, Holders DEF DeliveryJobOK
  <1>3. JobBecomes(d, "mail", job[d].todo, {}, job[d].outcome)
    BY <1>1, JobMoves DEF Steps
  <1>4. Rested(d)
    BY <1>1, <1>2, <1>3, JobTurns
  <1>5. /\ mail' \in [MailKeys -> {"none", "pending", "sent"}] /\ mail'[k] = job[d].outcome
        /\ \A m \in MailKeys \ {k} : mail'[m] = mail[m]
    BY <1>1, <1>2, OutboxRows DEF MarkMail
  <1>6. /\ followUp' \in [Buyers \cup Enterprises -> Days \cup {NoDay}]
        /\ reminded' \in [Buyers -> BOOLEAN] /\ Reminders'
    <2>1. CASE job[d].outcome = "sent"
      <3>1. mailed[k] > 0 /\ FollowedUp(k)
        BY <1>1, <1>2, <2>1 DEF OutboxInv, MailOK, RecordMail
      <3>. QED BY <1>1, <3>1, LeadsFollow
    <2>2. CASE job[d].outcome # "sent"
      <3>1. UNCHANGED leadVars
        BY <2>2 DEF RecordMail
      <3>. QED BY <1>1, <3>1, LeadsRest DEF Reminders
    <2>. QED BY <2>1, <2>2
  <1>7. MailMove(d)
    BY <1>1, <1>3, <1>4, <1>5, <1>6, OutboxRows DEF MailMove, JobBecomes
  <1>8. ASSUME NEW m \in MailKeys, m # k PROVE MailOK(m)'
    <2>1. HoldsAlike(m)
      BY <1>2, <1>3, <1>8, Crews DEF HoldsAlike, JobBecomes
    <2>. QED BY <1>1, <1>5, <1>8, <2>1, MailSame
  <1>9. MailOK(k)'
    <2>1. /\ Chosen(k)' = Chosen(k) /\ Unsure(k)' \subseteq Unsure(k) /\ Free(k)' \subseteq Jobs
          /\ (job[d].outcome = "pending" => d \in Unsure(k) /\ Unsure(k)' \subseteq Unsure(k) \ {d})
      BY <1>2, <1>3, Crews DEF Chosen, Unsure, Free, JobBecomes
    <2>2. /\ Cardinality(Free(k)') <= Cardinality(Jobs) /\ Cardinality(Free(k)') \in Nat
          /\ Cardinality(Unsure(k)') <= Cardinality(Unsure(k)) /\ Cardinality(Unsure(k)') \in Nat
          /\ (job[d].outcome = "pending" => Cardinality(Unsure(k)') <= Cardinality(Unsure(k)) - 1)
      BY <2>1, Smaller, OneLess, Crews, CopiesAddUp
    <2>. DEFINE n == Cardinality(Jobs)
                u == Cardinality(Unsure(k))
                up == Cardinality(Unsure(k)')
                f == Selectable(k)
                fp == Selectable(k)'
    <2>3. n * up + fp <= n * u + f /\ n * up \in Nat /\ n * u \in Nat /\ fp \in Nat /\ f \in Nat
      <3>1. n \in Nat /\ u \in Nat /\ up \in Nat /\ up <= u /\ f \in Nat /\ fp \in Nat
        BY <2>2, CopiesAddUp DEF Selectable
      <3>2. /\ job[d].outcome = "pending" => fp <= n
            /\ job[d].outcome = "sent" => fp = 0
        BY <1>5, <2>2 DEF Selectable
      <3>3. job[d].outcome = "pending" => up + 1 <= u
        BY <2>2, <3>1
      <3>. HIDE DEF n, u, up, f, fp
      <3>4. /\ n * up \in Nat /\ n * u \in Nat /\ n * up <= n * u
            /\ (up + 1 <= u => n * up + n <= n * u)
        BY <3>1, Products
      <3>. QED BY <1>2, <3>1, <3>2, <3>3, <3>4
    <2>4. Copies(k)' <= Copies(k) /\ Copies(k)' \in Nat /\ Copies(k) \in Nat
      <3>1. /\ Copies(k) = mailed[k] + Cardinality(Chosen(k)) + n * u + f
            /\ Copies(k)' = mailed[k] + Cardinality(Chosen(k)) + n * up + fp
        BY <1>1, <2>1 DEF Copies
      <3>. HIDE DEF n, u, up, f, fp
      <3>. QED BY <2>3, <3>1, CopiesAddUp
    <2>5. Copies(k)' <= Cardinality(Jobs) * (1 + mishaps')
      <3>1. Copies(k) <= Cardinality(Jobs) * (1 + mishaps) /\ mishaps' = mishaps
        BY <1>1 DEF OutboxInv, MailOK
      <3>2. Cardinality(Jobs) * (1 + mishaps) \in Nat
        BY CopiesAddUp, Products
      <3>. QED BY <2>4, <3>1, <3>2
    <2>6. \A e \in Jobs : k \in job'[e].now /\ job'[e].outcome = "sent" => mailed'[k] > 0
      BY <1>1, <1>3, Crews DEF OutboxInv, MailOK, JobBecomes
    <2>. QED BY <1>2, <1>5, <2>5, <2>6 DEF MailOK
  <1>. QED BY <1>6, <1>7, <1>8, <1>9, MailMoveKeeps

LEMMA RecordMailThrowsKeeps ==
    ASSUME OutboxInv, NEW d \in Deliverers, NEW k \in MailKeys, RecordMailThrows(d, k)
    PROVE  OutboxInv'
  <1>1. /\ job[d].at = "mailed" /\ k \in job[d].now /\ UNCHANGED <<worldVars, mail, mailed, sale>>
        /\ Mishap
    BY DEF RecordMailThrows, JobAt
  <1>2. /\ job[d].now = {k} /\ job[d].todo \subseteq MailKeys /\ d \in Jobs /\ k \notin job[d].todo
        /\ job[d].outcome \in {"sent", "pending"}
    BY <1>1, Holders DEF DeliveryJobOK
  <1>3. \/ JobBecomes(d, "mailed", job[d].todo, {k}, "pending")
        \/ JobBecomes(d, "idle", {}, {}, "none")
    BY <1>1, <1>2, JobMoves DEF RecordMailThrows, SaleStatus
  <1>4. Rested(d)
    <2>1. CASE JobBecomes(d, "mailed", job[d].todo, {k}, "pending")
      BY <1>1, <1>2, <2>1, JobTurns
    <2>2. CASE JobBecomes(d, "idle", {}, {}, "none")
      BY <1>1, <2>2, JobTurns
    <2>. QED BY <1>3, <2>1, <2>2
  <1>5. /\ followUp' \in [Buyers \cup Enterprises -> Days \cup {NoDay}]
        /\ reminded' \in [Buyers -> BOOLEAN] /\ Reminders'
    <2>1. CASE job[d].outcome = "sent"
      <3>1. mailed[k] > 0 /\ (FollowedUp(k) \/ UNCHANGED leadVars)
        BY <1>1, <1>2, <2>1 DEF OutboxInv, MailOK, RecordMailThrows
      <3>. QED BY <1>1, <3>1, LeadsFollow
    <2>2. CASE job[d].outcome # "sent"
      <3>1. UNCHANGED leadVars
        BY <2>2 DEF RecordMailThrows
      <3>. QED BY <1>1, <3>1, LeadsRest DEF Reminders
    <2>. QED BY <2>1, <2>2
  <1>6. MailMove(d)
    BY <1>1, <1>3, <1>4, <1>5, OutboxRows DEF MailMove, JobBecomes
  <1>7. ASSUME NEW m \in MailKeys PROVE MailOK(m)'
    <2>1. OthersStay(d) /\ mishaps' = mishaps + 1
      BY <1>1, <1>4, MishapCounted DEF Rested
    <2>2. \/ m \notin job'[d].todo \cup job'[d].now
          \/ /\ m \in job'[d].todo <=> m \in job[d].todo
             /\ m \in job'[d].now <=> m \in job[d].now
             /\ job'[d].outcome # "sent"
      BY <1>2, <1>3 DEF JobBecomes
    <2>. QED BY <1>1, <2>1, <2>2, MailLost
  <1>. QED BY <1>5, <1>6, <1>7, MailMoveKeeps

LEMMA StopKeeps ==
    ASSUME OutboxInv, NEW d \in Deliverers, Stop(d)
    PROVE  OutboxInv'
  <1>1. Mishap /\ Abort(d) /\ UNCHANGED <<worldVars, mailVars, sale>>
    BY DEF Stop
  <1>2. JobBecomes(d, "idle", {}, {}, "none")
    BY <1>1, JobMoves
  <1>3. Rested(d) /\ mishaps' = mishaps + 1
    BY <1>1, <1>2, JobTurns, MishapCounted
  <1>4. OutboxTypeOK'
    BY <1>1, <1>3, TypesRest, LeadsRest, OutboxRows DEF Rested, OthersStay
  <1>5. \A e \in Deliverers : DeliveryJobOK(e)'
    BY <1>3, JobsRest DEF Rested
  <1>6. ASSUME NEW s \in Sales PROVE SaleOK(s)'
    BY <1>1, <1>2, <1>3, MishapCounted, OutboxRows, SaleKept DEF Rested, JobBecomes
  <1>7. ASSUME NEW k \in MailKeys PROVE MailOK(k)'
    BY <1>1, <1>2, <1>3, MailLost DEF Rested, JobBecomes
  <1>8. Reminders'
    BY <1>1, LeadsRest DEF Reminders
  <1>. QED BY <1>4, <1>5, <1>6, <1>7, <1>8 DEF OutboxInv

LEMMA OutboxInductive == OutboxInv /\ [OutboxNext]_outboxVars => OutboxInv'
  <1>. SUFFICES ASSUME OutboxInv, [OutboxNext]_outboxVars PROVE OutboxInv'
    OBVIOUS
  <1>1. CASE WorldStep
    BY <1>1, WorldKeeps, PaymentQueueKeeps, BookingKeeps DEF WorldStep
  <1>2. ASSUME NEW d \in Deliverers, JobStep(d) PROVE OutboxInv'
    <2>1. CASE QueueSignals(d)
      <3>1. /\ {"abandoned", "enterprise", "onboarding", "usage", "domains", "select"} \subseteq Steps
        BY DEF Steps
      <3>2. \E step, next \in {"abandoned", "enterprise", "onboarding", "usage", "domains", "select"} : \E keys :
               QueueStep(d, step, keys, next)
        BY <2>1 DEF QueueSignals
      <3>. QED BY <3>1, <3>2, QueueKeeps
    <2>. QED BY <1>2, <2>1, ReportKeeps, RecordingKeeps, SalesDoneKeeps, SelectMailsKeeps,
                SendingMailKeeps, RecordMailKeeps, RecordMailThrowsKeeps, MailsDoneKeeps DEF JobStep
  <1>3. CASE UNCHANGED outboxVars
    <2>1. OutboxTypeOK'
      BY <1>3 DEF OutboxInv, OutboxTypeOK
    <2>. QED BY <1>3, <2>1, OutboxStutters
  <1>. QED BY <1>1, <1>2, <1>3, SelectionKeeps, StopKeeps DEF OutboxNext

LEMMA OutboxInvariant == OutboxSpec => []OutboxInv
  <1>. QED BY OutboxInitially, OutboxInductive, PTL DEF OutboxSpec

\* However runs of the job, webhook requests, errors and crashes interleave: a purchase is attempted
\* at most ten times plus once per overlapping delivery and mishap, and told only with the buyer's
\* consent; a mail goes out once per run and mishap; and a lead counts as reminded only if it was.
THEOREM OutboxStaysAccounted == OutboxSpec => []OutboxIsAccounted
BY OutboxInvariant, OutboxInvImplies, PTL

\* Leads, purchases, mails and the runs that deliver them are well formed, however runs overlap,
\* fail and end.
THEOREM OutboxTypeCorrect == OutboxSpec => []OutboxTypeOK
  <1>1. OutboxInv => OutboxTypeOK
    BY DEF OutboxInv
  <1>. QED BY <1>1, OutboxInvariant, PTL

-----------------------------------------------------------------------------
(* JobAttempts                                                               *)

USE DEF jobVars

\* The inductive invariant.

Open == {"absent", "waiting", "active"}
HandSteps == {"free", "start", "work", "finish", "report", "return", "throw"}
QueueRow == [state : Open \cup Ended, made : Nat, stalls : 0..MaxStalls + 1, lock : SUBSET Hands]
HandRow == [at : HandSteps, task : SUBSET Tasks, number : Nat]
AttemptStatus == {"none", "running", "succeeded", "failed"}

\* Attempts are left while a job is not ended, and exactly an active one is locked, by one hand.
QueueOK(j) ==
    /\ queued[j].state = "absent" => queued[j].made = 0
    /\ queued[j].state \in Open => queued[j].made < AttemptsOf[j] /\ queued[j].stalls <= MaxStalls
    /\ queued[j].state = "active" => \E h \in Hands : queued[j].lock = {h}
    /\ queued[j].state # "active" => queued[j].lock = {}
    /\ queued[j].state = "completed" => queued[j].made > 0

\* A hand is at work on one job.  Its attempt is the next the queue counts, or its lock was lost.
AtWork(h, j) ==
    /\ hand[h].number \in Numbers(j)
    /\ h \in queued[j].lock \/ queued[j].stalls > 0
    /\ h \in queued[j].lock => hand[h].number = queued[j].made + 1
    /\ hand[h].at \in {"finish", "report", "return"} => worked[j] > 0
    /\ (hand[h].at = "return" /\ queued[j].stalls = 0) => attempt[j][hand[h].number] = "succeeded"
    /\ (hand[h].at = "throw" /\ queued[j].stalls = 0) =>
          attempt[j][hand[h].number] = "failed" \/ <<j, hand[h].number>> \in unwritten
HandOK(h) ==
    /\ hand[h].at = "free" <=> hand[h].task = {}
    /\ hand[h].at # "free" => \E j \in Tasks : hand[h].task = {j}
    /\ \A j \in hand[h].task : AtWork(h, j)

\* A hand that has not begun the work will do so at most once.
Pending(j) == {h \in Hands : j \in hand[h].task /\ hand[h].at \in {"start", "work"}}
Counted(j) ==
    worked[j] + Cardinality(Pending(j)) <= queued[j].made + queued[j].stalls + Cardinality(queued[j].lock)

\* What the attempts that were counted leave behind.
Recorded(j, n) ==
    \/ attempt[j][n] = Ending(j, n)
    \/ Ending(j, n) = "failed" /\ <<j, n>> \in unwritten
Documented(j) ==
    /\ queued[j].state = "completed" => worked[j] > 0
    /\ queued[j].stalls = 0 => \A n \in 1..queued[j].made : Recorded(j, n)

\* Without errors the first attempt succeeds.
AtOnce(j) ==
    /\ queued[j].stalls = 0 /\ queued[j].made = IF queued[j].state \in Ended THEN 1 ELSE 0
    /\ \A h \in queued[j].lock : j \in hand[h].task
NoErrors == errors = 0 => /\ \A j \in Tasks : AtOnce(j)
                          /\ \A h \in Hands : hand[h].at \notin {"report", "throw"}

JobsTyped == JobsTypeOK /\ attempt = [j \in Tasks |-> attempt[j]]

JobsInv ==
    /\ JobsTyped /\ NoErrors
    /\ \A j \in Tasks : QueueOK(j) /\ Counted(j) /\ Documented(j)
    /\ \A h \in Hands : HandOK(h)

-----------------------------------------------------------------------------
LEMMA JobsInitially == JobsInit => JobsInv
  <1>. SUFFICES ASSUME JobsInit PROVE JobsInv
    OBVIOUS
  <1>1. \A j \in Tasks : Pending(j) = {}
    BY DEF JobsInit, Pending, FreeHand
  <1>2. JobsTyped
    BY TasksAssumption DEF JobsInit, JobsTyped, JobsTypeOK, FreeHand, MaxStalls, Ended, Numbers
  <1>3. \A h \in Hands : HandOK(h)
    BY DEF JobsInit, HandOK, FreeHand
  <1>4. NoErrors
    BY DEF JobsInit, NoErrors, AtOnce, FreeHand, Ended
  <1>5. \A j \in Tasks : QueueOK(j) /\ Documented(j)
    <2>1. ASSUME NEW j \in Tasks PROVE \A n \in 1..queued[j].made : FALSE
      BY DEF JobsInit
    <2>. QED BY <2>1, TasksAssumption DEF JobsInit, QueueOK, Documented, MaxStalls, Open
  <1>6. \A j \in Tasks : Counted(j)
    <2>1. ASSUME NEW j \in Tasks
          PROVE  worked[j] = 0 /\ queued[j].made = 0 /\ queued[j].stalls = 0 /\ queued[j].lock = {}
      BY DEF JobsInit
    <2>. QED BY <1>1, <2>1, FS_EmptySet DEF Counted
  <1>. QED BY <1>2, <1>3, <1>4, <1>5, <1>6 DEF JobsInv

LEMMA PendingIsFinite ==
    ASSUME NEW j \in Tasks
    PROVE  IsFiniteSet(Pending(j)) /\ Cardinality(Pending(j)) \in Nat
BY HandsAssumption, FS_Subset, FS_CardinalityType DEF Pending

LEMMA JobsInvImplies == JobsInv => RetriesAreAudited
  <1>. SUFFICES ASSUME JobsInv, NEW j \in Tasks
       PROVE  /\ worked[j] <= queued[j].made + queued[j].stalls + Cardinality(queued[j].lock)
              /\ Documented(j)
              /\ (errors = 0 /\ queued[j].state \in Ended) => queued[j].made = 1
    BY DEF RetriesAreAudited, Documented, Recorded
  <1>1. Cardinality(queued[j].lock) \in Nat
    BY HandsAssumption, FS_Subset, FS_CardinalityType DEF JobsInv, JobsTyped, JobsTypeOK
  <1>. QED BY <1>1, PendingIsFinite DEF JobsInv, JobsTyped, JobsTypeOK, Counted, NoErrors, AtOnce

-----------------------------------------------------------------------------
(* What a step does to a job, a hand and a row                               *)

LEMMA JobRows ==
    ASSUME JobsInv
    PROVE  /\ queued \in [Tasks -> QueueRow] /\ hand \in [Hands -> HandRow]
           /\ worked \in [Tasks -> Nat] /\ errors \in 0..MaxErrors /\ unwritten \subseteq Tasks \X Nat
           /\ \A j \in Tasks : attempt[j] \in [Numbers(j) -> AttemptStatus]
BY DEF JobsInv, JobsTyped, JobsTypeOK, QueueRow, HandRow, HandSteps, AttemptStatus, Open

QueueBecomes(j, state, made, stalls, by) ==
    /\ queued' \in [Tasks -> QueueRow]
    /\ queued'[j] = [state |-> state, made |-> made, stalls |-> stalls, lock |-> by]
    /\ \A k \in Tasks \ {j} : queued'[k] = queued[k]

HandBecomes(h, at, task, number) ==
    /\ hand' \in [Hands -> HandRow]
    /\ hand'[h] = [at |-> at, task |-> task, number |-> number]
    /\ \A g \in Hands \ {h} : hand'[g] = hand[g]

LEMMA HandMoves ==
    ASSUME JobsInv, NEW h \in Hands, NEW step \in HandSteps, Move(h, step)
    PROVE  HandBecomes(h, step, hand[h].task, hand[h].number)
BY JobRows DEF Move, HandBecomes, HandRow

LEMMA HandIsFree ==
    ASSUME JobsInv, NEW h \in Hands, hand' = [hand EXCEPT ![h] = FreeHand]
    PROVE  HandBecomes(h, "free", {}, 0)
BY JobRows DEF FreeHand, HandBecomes, HandRow, HandSteps

LEMMA RowWritten ==
    ASSUME JobsInv, NEW h \in Hands, NEW j \in Tasks, NEW outcome \in AttemptStatus,
           hand[h].number \in Numbers(j), attempt' = Upsert(h, j, outcome)
    PROVE  /\ attempt' = [k \in Tasks |-> attempt'[k]]
           /\ attempt'[j] \in [Numbers(j) -> AttemptStatus]
           /\ attempt'[j][hand[h].number] = outcome
           /\ \A n \in Numbers(j) : n # hand[h].number => attempt'[j][n] = attempt[j][n]
           /\ \A k \in Tasks \ {j} : attempt'[k] = attempt[k]
  <1>1. attempt = [k \in Tasks |-> attempt[k]]
    BY DEF JobsInv, JobsTyped
  <1>2. attempt' = [k \in Tasks |-> IF k = j THEN [attempt[j] EXCEPT ![hand[h].number] = outcome]
                                    ELSE attempt[k]]
    BY <1>1 DEF Upsert
  <1>3. attempt[j] \in [Numbers(j) -> AttemptStatus]
    BY JobRows
  <1>. QED BY <1>2, <1>3

LEMMA ErrorCounted ==
    ASSUME JobsInv, Fault
    PROVE  errors' \in 0..MaxErrors /\ errors' > 0
BY TasksAssumption, JobRows DEF Fault

\* A step about one job, by one hand or by the queue.
About(j, by) ==
    /\ queued' \in [Tasks -> QueueRow] /\ hand' \in [Hands -> HandRow]
    /\ worked' \in [Tasks -> Nat] /\ errors' \in 0..MaxErrors
    /\ unwritten \subseteq unwritten' /\ unwritten' \subseteq Tasks \X Nat
    /\ attempt' = [k \in Tasks |-> attempt'[k]] /\ attempt'[j] \in [Numbers(j) -> AttemptStatus]
    /\ \A k \in Tasks \ {j} :
          queued'[k] = queued[k] /\ worked'[k] = worked[k] /\ attempt'[k] = attempt[k]
    /\ \A g \in Hands \ by : hand'[g] = hand[g]
    /\ \A g \in by : /\ hand[g].task \subseteq {j} /\ hand'[g].task \in {{}, {j}}
                     /\ hand'[g].at = "free" <=> hand'[g].task = {}

LEMMA StepAbout ==
    ASSUME JobsInv, NEW j \in Tasks, NEW by \in SUBSET Hands, About(j, by),
           queued'[j].made <= AttemptsOf[j], QueueOK(j)', Counted(j)', Documented(j)', NoErrors',
           \A h \in Hands : j \in hand'[h].task => AtWork(h, j)'
    PROVE  JobsInv'
  <1>1. JobsTyped'
    <2>1. \A k \in Tasks : attempt'[k] \in [Numbers(k) -> AttemptStatus]
      BY JobRows DEF About
    <2>2. \A k \in Tasks : queued'[k].made <= AttemptsOf[k]
      BY DEF About, JobsInv, JobsTyped, JobsTypeOK
    <2>. QED BY <2>1, <2>2 DEF About, JobsTyped, JobsTypeOK, QueueRow, HandRow, HandSteps, AttemptStatus, Open
  <1>2. ASSUME NEW k \in Tasks \ {j}
        PROVE  QueueOK(k)' /\ Counted(k)' /\ Documented(k)'
    <2>1. Pending(k)' = Pending(k)
      BY DEF About, Pending
    <2>2. \A n \in Nat : Ending(k, n)' = Ending(k, n)
      BY DEF About, Ending
    <2>3. QueueOK(k)' /\ Counted(k)'
      BY <2>1 DEF About, JobsInv, QueueOK, Counted
    <2>4. queued[k].made \in Nat
      BY JobRows DEF QueueRow
    <2>5. Documented(k)'
      BY <2>2, <2>4 DEF About, JobsInv, Documented, Recorded
    <2>. QED BY <2>3, <2>5
  <1>3. ASSUME NEW h \in Hands
        PROVE  HandOK(h)'
    <2>1. ASSUME NEW k \in hand'[h].task
          PROVE  AtWork(h, k)'
      <3>1. CASE k = j
        BY <3>1
      <3>2. CASE k # j
        BY <3>2 DEF About, JobsInv, HandOK, AtWork
      <3>. QED BY <3>1, <3>2
    <2>. QED BY <2>1 DEF About, JobsInv, HandOK
  <1>. QED BY <1>1, <1>2, <1>3 DEF JobsInv

-----------------------------------------------------------------------------
(* The steps                                                                 *)

LEMMA LockSizes ==
    /\ Cardinality({}) = 0
    /\ \A h \in Hands : Cardinality({h}) = 1
BY FS_EmptySet, FS_Singleton

\* A step that counts no attempt of a job leaves the rows of the counted ones alone.
LEMMA RecordsKept ==
    ASSUME JobsInv, NEW j \in Tasks,
           queued'[j].made = queued[j].made, queued'[j].stalls = 0 => queued[j].stalls = 0,
           queued'[j].state = "completed" <=> queued[j].state = "completed",
           worked[j] > 0 => worked'[j] > 0, unwritten \subseteq unwritten',
           queued[j].stalls = 0 => \A n \in 1..queued[j].made : attempt'[j][n] = attempt[j][n]
    PROVE  Documented(j)'
  <1>1. ASSUME NEW n \in 1..queued[j].made
        PROVE  Ending(j, n)' = Ending(j, n)
    BY DEF Ending
  <1>2. Documented(j)
    BY DEF JobsInv
  <1>. QED BY <1>1, <1>2 DEF Documented, Recorded

LEMMA EnqueueStep ==
    ASSUME JobsInv, NEW j \in Tasks, Enqueue(j)
    PROVE  JobsInv'
  <1>1. /\ QueueBecomes(j, "waiting", queued[j].made, queued[j].stalls, queued[j].lock)
        /\ queued[j].state = "absent" /\ UNCHANGED <<attempt, hand, worked, unwritten, errors>>
    BY JobRows DEF Enqueue, QueueBecomes, QueueRow, Open
  <1>2. /\ queued'[j].made = queued[j].made /\ queued'[j].stalls = queued[j].stalls
        /\ queued'[j].lock = queued[j].lock /\ queued'[j].state = "waiting"
    BY <1>1 DEF QueueBecomes
  <1>3. About(j, {})
    BY <1>1, JobRows DEF QueueBecomes, About, JobsInv, JobsTyped
  <1>4. QueueOK(j)' /\ queued'[j].made <= AttemptsOf[j]
    BY <1>1, <1>2, TasksAssumption, JobRows DEF JobsInv, QueueOK, QueueRow, Open
  <1>5. Counted(j)'
    <2>1. Pending(j)' = Pending(j) BY <1>1 DEF Pending
    <2>. QED BY <1>1, <1>2, <2>1 DEF JobsInv, Counted
  <1>6. Documented(j)' BY <1>1, <1>2, RecordsKept
  <1>7. NoErrors'
    BY <1>1, <1>2 DEF QueueBecomes, JobsInv, NoErrors, AtOnce, Ended
  <1>8. ASSUME NEW h \in Hands, j \in hand'[h].task
        PROVE  AtWork(h, j)'
    BY <1>1, <1>2, <1>8 DEF JobsInv, HandOK, AtWork
  <1>. QED BY <1>3, <1>4, <1>5, <1>6, <1>7, <1>8, StepAbout

LEMMA FetchStep ==
    ASSUME JobsInv, NEW h \in Hands, NEW j \in Tasks, Fetch(h, j)
    PROVE  JobsInv'
  <1>1. /\ queued[j].state = "waiting" /\ queued[j].lock = {} /\ hand[h].at = "free" /\ hand[h].task = {}
        /\ queued[j].made \in Nat /\ queued[j].made < AttemptsOf[j] /\ queued[j].stalls <= MaxStalls
        /\ queued[j].stalls \in Nat
        /\ UNCHANGED <<attempt, worked, unwritten, errors>>
    BY JobRows DEF Fetch, JobsInv, QueueOK, HandOK, QueueRow, Open
  <1>2. QueueBecomes(j, "active", queued[j].made, queued[j].stalls, {h})
    BY JobRows DEF Fetch, QueueBecomes, QueueRow, Open
  <1>3. HandBecomes(h, "start", {j}, queued[j].made + 1)
    BY <1>1, JobRows DEF Fetch, HandBecomes, HandRow, HandSteps
  <1>4. /\ queued'[j].made = queued[j].made /\ queued'[j].stalls = queued[j].stalls
        /\ queued'[j].lock = {h} /\ queued'[j].state = "active"
        /\ hand'[h].at = "start" /\ hand'[h].task = {j} /\ hand'[h].number = queued[j].made + 1
    BY <1>2, <1>3 DEF QueueBecomes, HandBecomes
  <1>5. About(j, {h})
    BY <1>1, <1>2, <1>3, <1>4, JobRows DEF QueueBecomes, HandBecomes, About, JobsInv, JobsTyped
  <1>6. QueueOK(j)' /\ queued'[j].made <= AttemptsOf[j]
    BY <1>1, <1>4, TasksAssumption DEF QueueOK
  <1>7. Counted(j)'
    <2>1. Pending(j)' = Pending(j) \cup {h} /\ h \notin Pending(j)
      BY <1>1, <1>3, <1>4 DEF HandBecomes, Pending
    <2>2. Cardinality(Pending(j)') = Cardinality(Pending(j)) + 1
      BY <2>1, PendingIsFinite, FS_AddElement
    <2>3. worked[j] + Cardinality(Pending(j)) <= queued[j].made + queued[j].stalls + 0
      BY <1>1, LockSizes DEF JobsInv, Counted
    <2>. QED BY <1>1, <1>4, <2>2, <2>3, PendingIsFinite, LockSizes, JobRows DEF Counted
  <1>8. Documented(j)' BY <1>1, <1>4, RecordsKept
  <1>9. NoErrors'
    <2>. SUFFICES ASSUME errors = 0
         PROVE  /\ \A k \in Tasks : AtOnce(k)'
                /\ \A g \in Hands : hand'[g].at \notin {"report", "throw"}
      BY <1>1 DEF NoErrors
    <2>1. AtOnce(j)'
      BY <1>1, <1>4 DEF JobsInv, NoErrors, AtOnce, Ended
    <2>2. ASSUME NEW k \in Tasks \ {j}
          PROVE  AtOnce(k)'
      <3>1. \A g \in queued[k].lock : g \in Hands /\ g # h
        BY <1>1, JobRows DEF QueueRow, JobsInv, NoErrors, AtOnce
      <3>. QED BY <1>2, <1>3, <3>1 DEF QueueBecomes, HandBecomes, JobsInv, NoErrors, AtOnce
    <2>3. ASSUME NEW g \in Hands
          PROVE  hand'[g].at \notin {"report", "throw"}
      BY <1>3, <1>4 DEF HandBecomes, JobsInv, NoErrors
    <2>. QED BY <2>1, <2>2, <2>3
  <1>10. ASSUME NEW g \in Hands, j \in hand'[g].task
         PROVE  AtWork(g, j)'
    <2>1. CASE g = h
      BY <1>1, <1>4, <2>1, TasksAssumption DEF AtWork, Numbers
    <2>2. CASE g # h
      BY <1>1, <1>3, <1>4, <1>10, <2>2 DEF HandBecomes, JobsInv, HandOK, AtWork
    <2>. QED BY <2>1, <2>2
  <1>. QED BY <1>5, <1>6, <1>7, <1>8, <1>9, <1>10, StepAbout

LEMMA LockStep ==
    ASSUME JobsInv, NEW j \in Tasks, LoseLock(j) \/ Recover(j)
    PROVE  JobsInv'
  <1>. DEFINE next == IF queued[j].stalls < MaxStalls THEN "waiting" ELSE "failed"
  <1>1. /\ queued[j].state = "active" /\ queued[j].made \in Nat /\ queued[j].made < AttemptsOf[j]
        /\ queued[j].stalls \in Nat /\ queued[j].stalls <= MaxStalls
        /\ \E h \in Hands : queued[j].lock = {h}
        /\ UNCHANGED <<attempt, hand, worked, unwritten>>
    BY JobRows DEF LoseLock, Recover, LockRunsOut, JobsInv, QueueOK, QueueRow, Open
  <1>2. QueueBecomes(j, next, queued[j].made, queued[j].stalls + 1, {})
    <2>1. queued[j].stalls + 1 \in 0..MaxStalls + 1
      BY <1>1 DEF MaxStalls
    <2>. QED BY <2>1, JobRows DEF LoseLock, Recover, LockRunsOut, QueueBecomes, QueueRow, Open, Ended
  <1>3. /\ queued'[j].made = queued[j].made /\ queued'[j].stalls = queued[j].stalls + 1
        /\ queued'[j].lock = {} /\ queued'[j].state = next
    BY <1>2 DEF QueueBecomes
  <1>4. errors' \in 0..MaxErrors /\ errors' > 0
    <2>1. CASE LoseLock(j)
      BY <2>1, ErrorCounted DEF LoseLock
    <2>2. CASE Recover(j)
      <3>1. errors # 0
        BY <1>1, <2>2 DEF Recover, JobsInv, NoErrors, AtOnce
      <3>. QED BY <2>2, <3>1, JobRows, TasksAssumption DEF Recover
    <2>. QED BY <2>1, <2>2
  <1>5. About(j, {})
    BY <1>1, <1>2, <1>4, JobRows DEF QueueBecomes, About, JobsInv, JobsTyped
  <1>6. QueueOK(j)' /\ queued'[j].made <= AttemptsOf[j]
    BY <1>1, <1>3, TasksAssumption DEF QueueOK, MaxStalls, Open
  <1>7. Counted(j)'
    <2>1. Pending(j)' = Pending(j) BY <1>1 DEF Pending
    <2>2. worked[j] + Cardinality(Pending(j)) <= queued[j].made + queued[j].stalls + 1
      BY <1>1, LockSizes DEF JobsInv, Counted
    <2>. QED BY <1>1, <1>3, <2>1, <2>2, PendingIsFinite, LockSizes, JobRows DEF Counted
  <1>8. Documented(j)'
    <2>1. queued'[j].state # "completed" /\ queued[j].state # "completed" /\ queued'[j].stalls # 0
      BY <1>1, <1>3
    <2>. QED BY <1>1, <1>3, <2>1, RecordsKept
  <1>9. NoErrors' BY <1>4 DEF NoErrors
  <1>10. ASSUME NEW h \in Hands, j \in hand'[h].task
         PROVE  AtWork(h, j)'
    BY <1>1, <1>3, <1>10 DEF JobsInv, HandOK, AtWork
  <1>. QED BY <1>5, <1>6, <1>7, <1>8, <1>9, <1>10, StepAbout

\* A hand that is at a step for a job.
LEMMA HandKnown ==
    ASSUME JobsInv, NEW h \in Hands, NEW j \in Tasks, j \in hand[h].task
    PROVE  hand[h].task = {j} /\ hand[h].at # "free" /\ AtWork(h, j)
BY DEF JobsInv, HandOK

LEMMA SettleStep ==
    ASSUME JobsInv, NEW h \in Hands, NEW j \in Tasks, Return(h, j) \/ Throw(h, j)
    PROVE  JobsInv'
  <1>1. /\ j \in hand[h].task /\ hand[h].task = {j} /\ AtWork(h, j) /\ hand[h].at \in {"return", "throw"}
        /\ UNCHANGED <<attempt, worked, unwritten, errors>>
    BY HandKnown DEF Return, Throw, Settle, HandAt
  <1>2. HandBecomes(h, "free", {}, 0)
    BY HandIsFree DEF Return, Throw, Settle
  <1>3. hand'[h].at = "free" /\ hand'[h].task = {}
    BY <1>2 DEF HandBecomes
  <1>4. Pending(j)' = Pending(j)
    BY <1>1, <1>2, <1>3 DEF HandBecomes, Pending
  <1>5. CASE h \notin queued[j].lock
    <2>1. queued' = queued /\ errors # 0
      BY <1>1, <1>5 DEF Return, Throw, Settle, AtWork, JobsInv, NoErrors, AtOnce
    <2>2. About(j, {h})
      BY <1>1, <1>2, <1>3, <2>1, JobRows DEF HandBecomes, About, JobsInv, JobsTyped
    <2>3. QueueOK(j)' /\ queued'[j].made <= AttemptsOf[j] /\ Documented(j)' /\ NoErrors'
      BY <1>1, <2>1, RecordsKept DEF JobsInv, JobsTyped, JobsTypeOK, QueueOK, NoErrors
    <2>4. Counted(j)'
      BY <1>1, <1>4, <2>1 DEF JobsInv, Counted
    <2>5. ASSUME NEW g \in Hands, j \in hand'[g].task
          PROVE  AtWork(g, j)'
      BY <1>1, <1>2, <1>3, <2>1, <2>5 DEF HandBecomes, JobsInv, HandOK, AtWork
    <2>. QED BY <2>2, <2>3, <2>4, <2>5, StepAbout
  <1>6. CASE h \in queued[j].lock
    <2>1. /\ queued[j].state = "active" /\ queued[j].lock = {h} /\ queued[j].made \in Nat
          /\ queued[j].made < AttemptsOf[j] /\ queued[j].stalls \in Nat /\ queued[j].stalls <= MaxStalls
          /\ hand[h].number = queued[j].made + 1
      BY <1>1, <1>6, JobRows DEF JobsInv, QueueOK, QueueRow, Open, AtWork
    <2>2. PICK outcome \in {"waiting", "completed", "failed"} :
             /\ queued' = [queued EXCEPT ![j].made = @ + 1, ![j].state = outcome, ![j].lock = {}]
             /\ outcome = "completed" => hand[h].at = "return"
             /\ outcome = "waiting" => queued[j].made + 1 < AttemptsOf[j]
             /\ hand[h].at = "return" => outcome = "completed"
      <3>1. CASE Return(h, j)
        BY <1>6, <3>1 DEF Return, Settle, HandAt
      <3>2. CASE Throw(h, j)
        <4>. DEFINE next == IF queued[j].made + 1 < AttemptsOf[j] THEN "waiting" ELSE "failed"
        <4>1. /\ queued' = [queued EXCEPT ![j].made = @ + 1, ![j].state = next, ![j].lock = {}]
              /\ hand[h].at = "throw"
          BY <1>6, <3>2 DEF Throw, Settle, HandAt
        <4>2. next = "waiting" => queued[j].made + 1 < AttemptsOf[j]
          OBVIOUS
        <4>3. next \in {"waiting", "failed"}
          OBVIOUS
        <4>. HIDE DEF next
        <4>. QED BY <4>1, <4>2, <4>3
      <3>. QED BY <3>1, <3>2
    <2>3. QueueBecomes(j, outcome, queued[j].made + 1, queued[j].stalls, {})
      BY <2>1, <2>2, JobRows DEF QueueBecomes, QueueRow, Open, Ended
    <2>4. /\ queued'[j].made = queued[j].made + 1 /\ queued'[j].stalls = queued[j].stalls
          /\ queued'[j].lock = {} /\ queued'[j].state = outcome
      BY <2>3 DEF QueueBecomes
    <2>5. About(j, {h})
      BY <1>1, <1>2, <1>3, <2>3, JobRows DEF HandBecomes, QueueBecomes, About, JobsInv, JobsTyped
    <2>6. QueueOK(j)' /\ queued'[j].made <= AttemptsOf[j]
      <3>1. AttemptsOf[j] \in Nat
        BY TasksAssumption
      <3>2. queued'[j].made <= AttemptsOf[j] /\ queued'[j].made > 0
        BY <2>1, <2>4, <3>1
      <3>3. outcome = "waiting" => queued'[j].made < AttemptsOf[j]
        BY <2>2, <2>4
      <3>. QED BY <2>1, <2>2, <2>4, <3>2, <3>3 DEF QueueOK, Open
    <2>7. Counted(j)'
      <3>1. worked[j] + Cardinality(Pending(j)) <= queued[j].made + queued[j].stalls + 1
        BY <2>1, LockSizes DEF JobsInv, Counted
      <3>. QED BY <1>1, <1>4, <2>1, <2>4, <3>1, PendingIsFinite, LockSizes, JobRows DEF Counted
    <2>8. Documented(j)'
      <3>1. queued'[j].state = "completed" => worked'[j] > 0
        BY <1>1, <2>2, <2>4 DEF AtWork
      <3>2. ASSUME queued'[j].stalls = 0, NEW n \in 1..queued[j].made
            PROVE  Recorded(j, n)'
        <4>1. Ending(j, n)' = "failed" /\ Ending(j, n) = "failed"
          BY <2>1, <2>4 DEF Ending
        <4>. QED BY <1>1, <2>4, <3>2, <4>1 DEF JobsInv, Documented, Recorded
      <3>3. ASSUME queued'[j].stalls = 0, NEW n \in Nat, n = queued[j].made + 1
            PROVE  Recorded(j, n)'
        <4>1. CASE hand[h].at = "return"
          <5>1. attempt[j][n] = "succeeded"
            BY <1>1, <2>1, <2>4, <3>3, <4>1 DEF AtWork
          <5>2. Ending(j, n)' = "succeeded"
            BY <2>2, <2>4, <3>3, <4>1 DEF Ending
          <5>. QED BY <1>1, <5>1, <5>2 DEF Recorded
        <4>2. CASE hand[h].at = "throw"
          <5>1. attempt[j][n] = "failed" \/ <<j, n>> \in unwritten
            BY <1>1, <2>1, <2>4, <3>3, <4>2 DEF AtWork
          <5>2. Ending(j, n)' = "failed"
            BY <2>2, <2>4, <3>3, <4>2 DEF Ending
          <5>. QED BY <1>1, <5>1, <5>2 DEF Recorded
        <4>. QED BY <1>1, <4>1, <4>2
      <3>4. ASSUME NEW n \in 1..queued'[j].made
            PROVE  n \in 1..queued[j].made \/ (n \in Nat /\ n = queued[j].made + 1)
        BY <2>1, <2>4
      <3>. QED BY <3>1, <3>2, <3>3, <3>4 DEF Documented
    <2>9. NoErrors'
      <3>. SUFFICES ASSUME errors = 0
           PROVE  /\ \A k \in Tasks : AtOnce(k)'
                  /\ \A g \in Hands : hand'[g].at \notin {"report", "throw"}
        BY <1>1 DEF NoErrors
      <3>1. hand[h].at = "return" /\ outcome = "completed"
        BY <1>1, <2>2 DEF JobsInv, NoErrors
      <3>2. AtOnce(j)'
        BY <2>1, <2>4, <3>1 DEF JobsInv, NoErrors, AtOnce, Ended
      <3>3. ASSUME NEW k \in Tasks \ {j}
            PROVE  AtOnce(k)'
        <4>1. h \notin queued[k].lock
          BY <1>1 DEF JobsInv, NoErrors, AtOnce
        <4>2. \A g \in queued[k].lock : hand'[g] = hand[g]
          BY <1>2, <4>1, JobRows DEF HandBecomes, QueueRow
        <4>. QED BY <2>3, <4>2 DEF QueueBecomes, JobsInv, NoErrors, AtOnce
      <3>4. ASSUME NEW g \in Hands
            PROVE  hand'[g].at \notin {"report", "throw"}
        BY <1>2, <1>3 DEF HandBecomes, JobsInv, NoErrors
      <3>. QED BY <3>2, <3>3, <3>4
    <2>10. ASSUME NEW g \in Hands, j \in hand'[g].task
           PROVE  AtWork(g, j)'
      BY <1>1, <1>2, <1>3, <2>1, <2>4, <2>10 DEF HandBecomes, JobsInv, HandOK, AtWork
    <2>. QED BY <2>5, <2>6, <2>7, <2>8, <2>9, <2>10, StepAbout
  <1>. QED BY <1>5, <1>6

\* A hand writes its attempt's row, or fails to, and goes on.
LEMMA UpsertStep ==
    ASSUME JobsInv, NEW h \in Hands, NEW j \in Tasks, Announce(h, j) \/ Finish(h, j) \/ Report(h, j)
    PROVE  JobsInv'
  <1>1. /\ j \in hand[h].task /\ hand[h].task = {j} /\ AtWork(h, j)
        /\ UNCHANGED <<queued, worked>>
    BY HandKnown DEF Announce, Finish, Report, Write, HandAt
  <1>2. PICK outcome \in AttemptStatus, step \in {"work", "return", "report", "throw"} :
           /\ attempt' \in {attempt, Upsert(h, j, outcome)}
           /\ Move(h, step)
           /\ step = "work" => hand[h].at = "start"
           /\ hand[h].at = "start" => step \in {"work", "throw"}
           /\ step \in {"return", "report"} => hand[h].at = "finish"
           /\ step = "return" => attempt' = Upsert(h, j, outcome) /\ outcome = "succeeded"
           /\ errors' \in 0..MaxErrors /\ (errors' = 0 => errors = 0)
           /\ step \in {"report", "throw"} => errors' # 0
           /\ unwritten' \in {unwritten, unwritten \cup {<<j, hand[h].number>>}}
           /\ step = "throw" => \/ attempt' = Upsert(h, j, outcome) /\ outcome = "failed"
                                \/ <<j, hand[h].number>> \in unwritten'
    <2>1. CASE Announce(h, j)
      BY <2>1, ErrorCounted, JobRows DEF Announce, Write, HandAt, AttemptStatus
    <2>2. CASE Finish(h, j)
      BY <2>2, ErrorCounted, JobRows DEF Finish, Write, HandAt, AttemptStatus
    <2>3. CASE Report(h, j)
      <3>1. errors # 0 /\ hand[h].at = "report"
        BY <2>3 DEF Report, HandAt, JobsInv, NoErrors
      <3>. QED BY <2>3, <3>1, ErrorCounted, JobRows DEF Report, Write, AttemptStatus
    <2>. QED BY <2>1, <2>2, <2>3
  <1>3. HandBecomes(h, step, {j}, hand[h].number)
    BY <1>1, <1>2, HandMoves DEF HandSteps
  <1>4. hand'[h].at = step /\ hand'[h].task = {j} /\ hand'[h].number = hand[h].number
    BY <1>3 DEF HandBecomes
  <1>5. hand[h].number \in Numbers(j)
    BY <1>1 DEF AtWork
  <1>6. /\ attempt' = [k \in Tasks |-> attempt'[k]]
        /\ attempt'[j] \in [Numbers(j) -> AttemptStatus]
        /\ \A n \in Numbers(j) : n # hand[h].number => attempt'[j][n] = attempt[j][n]
        /\ \A k \in Tasks \ {j} : attempt'[k] = attempt[k]
    <2>1. CASE attempt' = attempt
      BY <2>1, JobRows DEF JobsInv, JobsTyped
    <2>2. CASE attempt' = Upsert(h, j, outcome)
      BY <1>5, <2>2, RowWritten
    <2>. QED BY <1>2, <2>1, <2>2
  <1>7. /\ step = "return" => attempt'[j][hand[h].number] = "succeeded"
        /\ step = "throw" => attempt'[j][hand[h].number] = "failed" \/ <<j, hand[h].number>> \in unwritten'
    BY <1>2, <1>5, RowWritten
  <1>8. About(j, {h})
    <2>1. <<j, hand[h].number>> \in Tasks \X Nat
      BY <1>5 DEF Numbers
    <2>2. unwritten \subseteq unwritten' /\ unwritten' \subseteq Tasks \X Nat
      BY <1>2, <2>1, JobRows
    <2>. QED BY <1>1, <1>2, <1>3, <1>4, <1>6, <2>2, JobRows DEF HandBecomes, About
  <1>9. QueueOK(j)' /\ queued'[j].made <= AttemptsOf[j]
    BY <1>1 DEF JobsInv, JobsTyped, JobsTypeOK, QueueOK
  <1>10. Counted(j)'
    <2>1. Pending(j)' \subseteq Pending(j)
      BY <1>1, <1>2, <1>3, <1>4 DEF HandBecomes, Pending
    <2>2. Cardinality(Pending(j)') <= Cardinality(Pending(j)) /\ Cardinality(Pending(j)') \in Nat
      BY <2>1, PendingIsFinite, FS_Subset, FS_CardinalityType
    <2>3. Cardinality(queued[j].lock) \in Nat
      BY HandsAssumption, JobRows, FS_Subset, FS_CardinalityType DEF QueueRow
    <2>4. queued[j].made + queued[j].stalls \in Nat /\ worked[j] \in Nat
      BY JobRows DEF QueueRow
    <2>5. worked[j] + Cardinality(Pending(j)) <= queued[j].made + queued[j].stalls + Cardinality(queued[j].lock)
      BY DEF JobsInv, Counted
    <2>. QED BY <1>1, <2>2, <2>3, <2>4, <2>5, PendingIsFinite DEF Counted
  <1>11. queued[j].state = "completed" /\ queued[j].stalls = 0 => FALSE
    BY <1>1 DEF AtWork, JobsInv, QueueOK
  <1>12. Documented(j)'
    <2>1. CASE queued[j].stalls = 0
      <3>1. hand[h].number = queued[j].made + 1 /\ queued[j].made \in Nat
        BY <1>1, <2>1, JobRows DEF AtWork, QueueRow
      <3>2. queued[j].made + 1 <= AttemptsOf[j]
        BY <1>5, <3>1 DEF Numbers
      <3>3. \A n \in 1..queued[j].made : attempt'[j][n] = attempt[j][n]
        BY <1>6, <3>1, <3>2, TasksAssumption DEF Numbers
      <3>. QED BY <1>1, <1>2, <3>3, RecordsKept
    <2>2. CASE queued[j].stalls # 0
      BY <1>1, <1>2, <2>2, RecordsKept
    <2>. QED BY <2>1, <2>2
  <1>13. NoErrors'
    <2>. SUFFICES ASSUME errors' = 0
         PROVE  /\ \A k \in Tasks : AtOnce(k)'
                /\ \A g \in Hands : hand'[g].at \notin {"report", "throw"}
      BY DEF NoErrors
    <2>1. \A g \in Hands : hand'[g].task = hand[g].task
      BY <1>1, <1>3, <1>4 DEF HandBecomes
    <2>2. \A k \in Tasks : AtOnce(k)'
      BY <1>1, <1>2, <2>1, JobRows DEF JobsInv, NoErrors, AtOnce, QueueRow
    <2>. QED BY <1>2, <1>3, <1>4, <2>2 DEF HandBecomes, JobsInv, NoErrors
  <1>14. ASSUME NEW g \in Hands, j \in hand'[g].task
         PROVE  AtWork(g, j)'
    <2>1. CASE g = h
      BY <1>1, <1>2, <1>4, <1>7, <2>1 DEF AtWork
    <2>2. CASE g # h
      <3>1. hand'[g] = hand[g] /\ AtWork(g, j)
        BY <1>3, <1>14, <2>2 DEF HandBecomes, JobsInv, HandOK
      <3>2. queued[j].stalls # 0 \/ h \notin queued[j].lock \/ g \notin queued[j].lock
        BY <2>2 DEF JobsInv, QueueOK
      <3>3. queued[j].stalls \in Nat
        BY JobRows DEF QueueRow
      <3>4. queued[j].stalls # 0
        BY <1>1, <3>1, <3>2, <3>3 DEF AtWork
      <3>. QED BY <1>1, <3>1, <3>4 DEF AtWork
    <2>. QED BY <2>1, <2>2
  <1>. QED BY <1>8, <1>9, <1>10, <1>12, <1>13, <1>14, StepAbout

LEMMA WorkStep ==
    ASSUME JobsInv, NEW h \in Hands, NEW j \in Tasks, Work(h, j)
    PROVE  JobsInv'
  <1>1. /\ j \in hand[h].task /\ hand[h].task = {j} /\ AtWork(h, j) /\ hand[h].at = "work"
        /\ UNCHANGED <<queued, attempt, unwritten>>
    BY HandKnown DEF Work, HandAt
  <1>2. PICK step \in {"finish", "report"} :
           /\ Move(h, step)
           /\ errors' \in 0..MaxErrors /\ (errors' = 0 => errors = 0)
           /\ step = "report" => errors' # 0
    BY ErrorCounted, JobRows DEF Work
  <1>3. HandBecomes(h, step, {j}, hand[h].number)
    BY <1>1, <1>2, HandMoves DEF HandSteps
  <1>4. hand'[h].at = step /\ hand'[h].task = {j} /\ hand'[h].number = hand[h].number
    BY <1>3 DEF HandBecomes
  <1>5. /\ worked' \in [Tasks -> Nat] /\ worked'[j] = worked[j] + 1
        /\ \A k \in Tasks \ {j} : worked'[k] = worked[k]
    BY JobRows DEF Work
  <1>6. About(j, {h})
    BY <1>1, <1>2, <1>3, <1>4, <1>5, JobRows DEF HandBecomes, About, JobsInv, JobsTyped
  <1>7. QueueOK(j)' /\ queued'[j].made <= AttemptsOf[j]
    BY <1>1 DEF JobsInv, JobsTyped, JobsTypeOK, QueueOK
  <1>8. Counted(j)'
    <2>1. Pending(j)' = Pending(j) \ {h} /\ h \in Pending(j)
      BY <1>1, <1>2, <1>3, <1>4 DEF HandBecomes, Pending
    <2>2. Cardinality(Pending(j)') = Cardinality(Pending(j)) - 1
      BY <2>1, PendingIsFinite, FS_RemoveElement
    <2>3. worked'[j] + Cardinality(Pending(j)') = worked[j] + Cardinality(Pending(j))
      BY <1>5, <2>2, PendingIsFinite, JobRows
    <2>. QED BY <1>1, <2>3 DEF JobsInv, Counted
  <1>9. worked[j] \in Nat /\ worked'[j] > 0
    BY <1>5, JobRows
  <1>10. Documented(j)'
    BY <1>1, <1>9, RecordsKept
  <1>11. NoErrors'
    <2>. SUFFICES ASSUME errors' = 0
         PROVE  /\ \A k \in Tasks : AtOnce(k)'
                /\ \A g \in Hands : hand'[g].at \notin {"report", "throw"}
      BY DEF NoErrors
    <2>1. \A g \in Hands : hand'[g].task = hand[g].task
      BY <1>1, <1>3, <1>4 DEF HandBecomes
    <2>2. \A k \in Tasks : AtOnce(k)'
      BY <1>1, <1>2, <2>1, JobRows DEF JobsInv, NoErrors, AtOnce, QueueRow
    <2>. QED BY <1>2, <1>3, <1>4, <2>2 DEF HandBecomes, JobsInv, NoErrors
  <1>12. ASSUME NEW g \in Hands, j \in hand'[g].task
         PROVE  AtWork(g, j)'
    <2>1. CASE g = h
      BY <1>1, <1>2, <1>4, <1>9, <2>1 DEF AtWork
    <2>2. CASE g # h
      BY <1>1, <1>3, <1>9, <1>12, <2>2 DEF HandBecomes, JobsInv, HandOK, AtWork
    <2>. QED BY <2>1, <2>2
  <1>. QED BY <1>6, <1>7, <1>8, <1>10, <1>11, <1>12, StepAbout

LEMMA HandStopsStep ==
    ASSUME JobsInv, NEW h \in Hands, HandStops(h)
    PROVE  JobsInv'
  <1>1. PICK j \in Tasks : hand[h].task = {j}
    BY DEF HandStops, JobsInv, HandOK
  <1>2. UNCHANGED <<queued, attempt, worked, unwritten>> /\ errors' \in 0..MaxErrors /\ errors' > 0
    BY ErrorCounted DEF HandStops
  <1>3. HandBecomes(h, "free", {}, 0)
    BY HandIsFree DEF HandStops
  <1>4. hand'[h].at = "free" /\ hand'[h].task = {}
    BY <1>3 DEF HandBecomes
  <1>5. About(j, {h})
    BY <1>1, <1>2, <1>3, <1>4, JobRows DEF HandBecomes, About, JobsInv, JobsTyped
  <1>6. QueueOK(j)' /\ queued'[j].made <= AttemptsOf[j] /\ Documented(j)'
    BY <1>2, RecordsKept DEF JobsInv, JobsTyped, JobsTypeOK, QueueOK
  <1>7. NoErrors'
    BY <1>2 DEF NoErrors
  <1>8. Counted(j)'
    <2>1. Pending(j)' \subseteq Pending(j)
      BY <1>3, <1>4 DEF HandBecomes, Pending
    <2>2. Cardinality(Pending(j)') <= Cardinality(Pending(j)) /\ Cardinality(Pending(j)') \in Nat
      BY <2>1, PendingIsFinite, FS_Subset, FS_CardinalityType
    <2>3. Cardinality(queued[j].lock) \in Nat
      BY HandsAssumption, JobRows, FS_Subset, FS_CardinalityType DEF QueueRow
    <2>4. queued[j].made + queued[j].stalls \in Nat /\ worked[j] \in Nat
      BY JobRows DEF QueueRow
    <2>5. worked[j] + Cardinality(Pending(j)) <= queued[j].made + queued[j].stalls + Cardinality(queued[j].lock)
      BY DEF JobsInv, Counted
    <2>. QED BY <1>2, <2>2, <2>3, <2>4, <2>5, PendingIsFinite DEF Counted
  <1>9. ASSUME NEW g \in Hands, j \in hand'[g].task
        PROVE  AtWork(g, j)'
    BY <1>2, <1>3, <1>4, <1>9 DEF HandBecomes, JobsInv, HandOK, AtWork
  <1>. QED BY <1>5, <1>6, <1>7, <1>8, <1>9, StepAbout

LEMMA JobsInductive == JobsInv /\ [JobsNext]_jobVars => JobsInv'
  <1>. SUFFICES ASSUME JobsInv, [JobsNext]_jobVars PROVE JobsInv'
    OBVIOUS
  <1>1. CASE UNCHANGED jobVars
    <2>1. JobsTyped' /\ NoErrors'
      BY <1>1 DEF JobsInv, JobsTyped, JobsTypeOK, NoErrors, AtOnce
    <2>2. \A j \in Tasks : QueueOK(j)' /\ Counted(j)' /\ Documented(j)'
      <3>1. \A j \in Tasks : Documented(j)'
        BY <1>1, RecordsKept
      <3>. QED BY <1>1, <3>1 DEF JobsInv, QueueOK, Counted, Pending
    <2>3. \A h \in Hands : HandOK(h)'
      BY <1>1 DEF JobsInv, HandOK, AtWork
    <2>. QED BY <2>1, <2>2, <2>3 DEF JobsInv
  <1>2. ASSUME NEW j \in Tasks, Enqueue(j) \/ LoseLock(j) \/ Recover(j) PROVE JobsInv'
    BY <1>2, EnqueueStep, LockStep
  <1>3. ASSUME NEW h \in Hands, HandStops(h) PROVE JobsInv'
    BY <1>3, HandStopsStep
  <1>4. ASSUME NEW h \in Hands, NEW j \in Tasks, Fetch(h, j) \/ HandStep(h, j) PROVE JobsInv'
    BY <1>4, FetchStep, UpsertStep, WorkStep, SettleStep DEF HandStep
  <1>. QED BY <1>1, <1>2, <1>3, <1>4 DEF JobsNext

\* Jobs, rows and handlers are well formed in every behaviour of the queue and its handlers.
THEOREM JobsTypeCorrect == JobsSpec => []JobsTypeOK
  <1>1. JobsInv => JobsTypeOK
    BY DEF JobsInv, JobsTyped
  <1>. QED BY <1>1, JobsInitially, JobsInductive, PTL DEF JobsSpec

\* However attempts fail, stall and are taken over, a job's work is begun at most once per counted
\* attempt and lost lock, and the rows say how the attempts of a completed job have ended.
THEOREM AttemptsAreAudited == JobsSpec => []RetriesAreAudited
BY JobsInitially, JobsInductive, JobsInvImplies, PTL DEF JobsSpec

-----------------------------------------------------------------------------
(* SocialConnections                                                         *)

USE DEF socialVars

\* The inductive invariant.

RequestAt == {"rest", "save", "wait", "refresh", "store", "mark", "revoke", "forget"}
ConnectionRow == [status : Active \cup {"none", "disconnected"}, token : 0..MaxTokens, due : BOOLEAN]
RequestRow == [at : RequestAt, account : SUBSET Accounts, token : 0..MaxTokens]

\* A request is about one account.  A token to save is known to no row and no other request;
\* and a request is given up, or finds its account gone, for a reason.
RequestOK(q) ==
    /\ \A a, b \in request[q].account : a = b
    /\ request[q].token <= issued
    /\ request[q].at = "save" =>
          /\ request[q].token > 0
          /\ \A p \in Requests \ {q} : request[p].token # request[q].token
          /\ \A a \in Accounts : row[a].token # request[q].token
    /\ request[q].at = "forget" => "disconnected" \in events
    /\ (request[q].at = "mark" /\ losses = 0) => events # {}
    /\ (request[q].at = "wait" /\ losses = 0 /\ events = {}) =>
          \A a \in request[q].account : row[a].status = "connected"

\* A row is locked by the one request that refreshes its token, and nothing else changes it then.
LockOK(a) ==
    /\ valid[a] \subseteq 1..issued /\ row[a].token <= issued
    /\ \A q \in Requests : q \in lock[a] <=> /\ request[q].at \in {"refresh", "store"}
                                             /\ a \in request[q].account
    /\ \A p, q \in lock[a] : p = q
    /\ lock[a] # {} => row[a].status = "connected"

\* The tokens in use are valid.
Sound == losses = 0 /\ "disconnected" \notin events
TokensOK(a) ==
    Sound =>
        /\ (row[a].status = "connected" /\ lock[a] = {}) => row[a].token \in valid[a]
        /\ \A q \in Requests : a \in request[q].account =>
              /\ request[q].at \in {"save", "store"} => request[q].token \in valid[a]
              /\ request[q].at = "refresh" => /\ request[q].token \in valid[a]
                                              /\ request[q].token = row[a].token

Explained(a) == (losses = 0 /\ row[a].status = "refresh_failed") => events # {}

SocialInv ==
    /\ SocialTypeOK
    /\ \A q \in Requests : RequestOK(q)
    /\ \A a \in Accounts : LockOK(a) /\ TokensOK(a) /\ Explained(a)

-----------------------------------------------------------------------------

LEMMA SocialInitially == SocialInit => SocialInv
  <1>. SUFFICES ASSUME SocialInit PROVE SocialInv
    OBVIOUS
  <1>1. SocialTypeOK
    BY SocialAssumption DEF SocialInit, SocialTypeOK, NoRequest, Active, Tokens
  <1>2. \A q \in Requests : RequestOK(q)
    BY DEF SocialInit, RequestOK, NoRequest
  <1>3. \A a \in Accounts : LockOK(a) /\ TokensOK(a) /\ Explained(a)
    BY DEF SocialInit, LockOK, TokensOK, Explained, NoRequest
  <1>. QED BY <1>1, <1>2, <1>3 DEF SocialInv

LEMMA SocialInvImplies == SocialInv => ConnectionIsUsable
BY DEF SocialInv, ConnectionIsUsable, TokensOK, Explained, Sound

LEMMA SocialRows ==
    ASSUME SocialInv
    PROVE  /\ valid \in [Accounts -> SUBSET Tokens] /\ issued \in 0..MaxTokens
           /\ row \in [Accounts -> ConnectionRow] /\ lock \in [Accounts -> SUBSET Requests]
           /\ request \in [Requests -> RequestRow]
           /\ events \subseteq {"replaced", "missed", "disconnected"} /\ losses \in 0..MaxLosses
BY DEF SocialInv, SocialTypeOK, ConnectionRow, RequestRow, RequestAt

LEMMA SocialTyped ==
    ASSUME valid' \in [Accounts -> SUBSET Tokens], issued' \in 0..MaxTokens,
           row' \in [Accounts -> ConnectionRow], lock' \in [Accounts -> SUBSET Requests],
           request' \in [Requests -> RequestRow],
           events' \subseteq {"replaced", "missed", "disconnected"}, losses' \in 0..MaxLosses
    PROVE  SocialTypeOK'
BY DEF SocialTypeOK, ConnectionRow, RequestRow, RequestAt

-----------------------------------------------------------------------------
(* What a step does                                                          *)

RequestBecomes(q, at, account, token) ==
    /\ request' \in [Requests -> RequestRow]
    /\ request'[q].at = at /\ request'[q].account = account /\ request'[q].token = token
    /\ \A p \in Requests \ {q} : request'[p] = request[p]

RowBecomes(a, state, token, due) ==
    /\ row' \in [Accounts -> ConnectionRow]
    /\ row'[a].status = state /\ row'[a].token = token /\ row'[a].due = due
    /\ \A b \in Accounts \ {a} : row'[b] = row[b]

LEMMA RequestDone ==
    ASSUME SocialInv, NEW q \in Requests, Done(q)
    PROVE  RequestBecomes(q, "rest", {}, 0)
BY SocialRows, SocialAssumption DEF Done, RequestBecomes, RequestRow, RequestAt, NoRequest

LEMMA RequestProceeds ==
    ASSUME SocialInv, NEW q \in Requests, NEW step \in RequestAt, Proceed(q, step)
    PROVE  RequestBecomes(q, step, request[q].account, request[q].token)
BY SocialRows DEF Proceed, RequestBecomes, RequestRow

LEMMA LossCounted ==
    ASSUME SocialInv, Loss
    PROVE  losses' \in 0..MaxLosses /\ losses' # 0
BY SocialRows, SocialAssumption DEF Loss

LEMMA RowReleased ==
    ASSUME SocialInv, NEW q \in Requests, Release(q)
    PROVE  /\ lock' \in [Accounts -> SUBSET Requests]
           /\ \A a \in Accounts : lock'[a] = lock[a] \ {q}
BY SocialRows DEF Release

LEMMA RequestAsks ==
    ASSUME SocialInv, NEW q \in Requests, NEW a \in Accounts, Asks(q, request[q].at, a)
    PROVE  request[q].account = {a}
BY SocialRows DEF Asks, SocialInv, RequestOK, RequestRow

\* A step of a request that leaves rows, locks and tokens alone.
LEMMA RequestStep ==
    ASSUME SocialInv, NEW q \in Requests, NEW at \in RequestAt, NEW account \in SUBSET Accounts,
           NEW token \in 0..MaxTokens, RequestBecomes(q, at, account, token),
           UNCHANGED <<valid, issued, row, lock>>,
           losses' \in 0..MaxLosses, losses' = 0 => losses = 0,
           events' \subseteq {"replaced", "missed", "disconnected"}, events \subseteq events',
           RequestOK(q)', token \in {0, request[q].token} \cup {row[a].token : a \in Accounts},
           request[q].at \notin {"refresh", "store"}, at \notin {"refresh", "store", "save"}
    PROVE  SocialInv'
  <1>1. SocialTypeOK'
    BY SocialRows, SocialTyped DEF RequestBecomes
  <1>2. ASSUME NEW p \in Requests \ {q} PROVE RequestOK(p)'
    <2>1. request'[p] = request[p] /\ request'[q].token = token /\ RequestOK(p)
      BY DEF RequestBecomes, SocialInv
    <2>2. request[p].at = "save" => request'[q].token # request[p].token
      BY <2>1 DEF RequestOK
    <2>. QED BY <2>1, <2>2 DEF RequestOK, RequestBecomes
  <1>3. ASSUME NEW a \in Accounts PROVE LockOK(a)'
    BY DEF RequestBecomes, SocialInv, LockOK
  <1>4. ASSUME NEW a \in Accounts PROVE TokensOK(a)' /\ Explained(a)'
    <2>1. Sound' => Sound
      BY DEF Sound
    <2>2. ASSUME Sound', NEW p \in Requests, a \in request'[p].account
          PROVE  /\ request'[p].at \in {"save", "store"} => request'[p].token \in valid[a]
                 /\ request'[p].at = "refresh" => /\ request'[p].token \in valid[a]
                                                 /\ request'[p].token = row[a].token
      BY <2>1, <2>2 DEF RequestBecomes, SocialInv, TokensOK
    <2>3. Explained(a)'
      BY DEF SocialInv, Explained
    <2>. QED BY <2>1, <2>2, <2>3 DEF SocialInv, TokensOK
  <1>. QED BY <1>1, <1>2, <1>3, <1>4 DEF SocialInv

-----------------------------------------------------------------------------
(* The steps                                                                 *)

LEMMA DueStep ==
    ASSUME SocialInv, NEW a \in Accounts, AccessTokenDue(a)
    PROVE  SocialInv'
  <1>1. /\ RowBecomes(a, row[a].status, row[a].token, TRUE)
        /\ UNCHANGED <<network, valid, issued, lock, request, events, losses>>
    BY SocialRows DEF AccessTokenDue, RowBecomes, ConnectionRow
  <1>2. \A b \in Accounts : row'[b].status = row[b].status /\ row'[b].token = row[b].token
    BY <1>1 DEF RowBecomes
  <1>3. SocialTypeOK'
    BY <1>1, SocialRows, SocialTyped DEF RowBecomes
  <1>4. \A q \in Requests : RequestOK(q)'
    BY <1>1, <1>2, SocialRows DEF SocialInv, RequestOK, RequestRow
  <1>5. \A b \in Accounts : LockOK(b)' /\ TokensOK(b)' /\ Explained(b)'
    BY <1>1, <1>2 DEF SocialInv, LockOK, TokensOK, Explained, Sound
  <1>. QED BY <1>3, <1>4, <1>5 DEF SocialInv

LEMMA SelectStep ==
    ASSUME SocialInv, NEW q \in Requests, Select(q)
    PROVE  SocialInv'
  <1>1. /\ request[q].at = "rest" /\ UNCHANGED <<valid, issued, row, lock, losses>>
        /\ events \subseteq events' /\ events' \subseteq {"replaced", "missed", "disconnected"}
        /\ losses' \in 0..MaxLosses /\ request[q].account \in SUBSET Accounts
        /\ request[q].token \in 0..MaxTokens
    BY SocialRows DEF Select, RequestRow
  <1>2. CASE Connected # {}
    <2>1. PICK a \in Connected :
             request' = [request EXCEPT ![q] = [at |-> "wait", account |-> {a}, token |-> 0]]
      BY <1>2 DEF Select
    <2>2. RequestBecomes(q, "wait", {a}, 0)
      BY <2>1, SocialRows, SocialAssumption DEF RequestBecomes, RequestRow, RequestAt, Connected
    <2>3. RequestOK(q)'
      BY <1>1, <2>1, <2>2, SocialRows DEF RequestBecomes, RequestOK, Connected
    <2>4. {a} \in SUBSET Accounts /\ 0 \in 0..MaxTokens
      BY SocialAssumption DEF Connected
    <2>. QED BY <1>1, <2>2, <2>3, <2>4, RequestStep DEF RequestAt
  <1>3. CASE Connected = {}
    <2>1. Proceed(q, "mark") /\ "missed" \in events'
      BY <1>3 DEF Select
    <2>2. RequestBecomes(q, "mark", request[q].account, request[q].token)
      BY <2>1, RequestProceeds DEF RequestAt
    <2>3. RequestOK(q)'
      BY <1>1, <2>1, <2>2, SocialRows DEF RequestBecomes, SocialInv, RequestOK
    <2>. QED BY <1>1, <2>2, <2>3, RequestStep DEF RequestAt
  <1>. QED BY <1>2, <1>3

LEMMA ReadActiveStep ==
    ASSUME SocialInv, NEW q \in Requests, NEW a \in Accounts, ReadActive(q, a)
    PROVE  SocialInv'
  <1>1. /\ request[q].at = "rest" /\ UNCHANGED <<valid, issued, row, lock, events, losses>>
        /\ row[a].token \in 0..MaxTokens /\ {a} \in SUBSET Accounts
    BY SocialRows DEF ReadActive, ConnectionRow
  <1>2. RequestBecomes(q, "revoke", {a}, row[a].token)
    BY SocialRows DEF ReadActive, RequestBecomes, RequestRow, RequestAt, ConnectionRow
  <1>3. RequestOK(q)'
    BY <1>1, <1>2 DEF RequestBecomes, SocialInv, RequestOK, LockOK
  <1>. QED BY <1>1, <1>2, <1>3, SocialRows, RequestStep DEF RequestAt

LEMMA RevokeStep ==
    ASSUME SocialInv, NEW q \in Requests, NEW a \in Accounts, Revoke(q, a)
    PROVE  SocialInv'
  <1>1. /\ request[q].at = "revoke" /\ UNCHANGED <<issued, row, lock>> /\ "disconnected" \in events'
        /\ events' \subseteq {"replaced", "missed", "disconnected"} /\ events \subseteq events'
    BY SocialRows DEF Revoke, Asks
  <1>2. RequestBecomes(q, "forget", request[q].account, request[q].token)
    BY RequestProceeds DEF Revoke, RequestAt
  <1>3. losses' \in 0..MaxLosses
    BY LossCounted, SocialRows DEF Revoke, NoLoss
  <1>4. valid' \in [Accounts -> SUBSET Tokens] /\ \A b \in Accounts : valid'[b] \subseteq valid[b]
    BY SocialRows DEF Revoke
  <1>5. SocialTypeOK'
    BY <1>1, <1>2, <1>3, <1>4, SocialRows, SocialTyped DEF RequestBecomes
  <1>6. ASSUME NEW p \in Requests PROVE RequestOK(p)'
    BY <1>1, <1>2 DEF RequestBecomes, SocialInv, RequestOK
  <1>7. ASSUME NEW b \in Accounts PROVE LockOK(b)'
    BY <1>1, <1>2, <1>4 DEF RequestBecomes, SocialInv, LockOK
  <1>8. ASSUME NEW b \in Accounts PROVE TokensOK(b)' /\ Explained(b)'
    BY <1>1 DEF TokensOK, Explained, Sound
  <1>. QED BY <1>5, <1>6, <1>7, <1>8 DEF SocialInv

LEMMA AuthorizeStep ==
    ASSUME SocialInv, NEW q \in Requests, NEW a \in Accounts, Authorize(q, a)
    PROVE  SocialInv'
  <1>1. /\ request[q].at = "rest" /\ UNCHANGED <<row, lock, events, losses>>
        /\ issued' = issued + 1 /\ issued' \in 0..MaxTokens /\ issued \in Nat /\ issued' \in Tokens
    BY SocialRows, SocialAssumption DEF Authorize, Issue, Tokens
  <1>2. RequestBecomes(q, "save", {a}, issued + 1)
    BY <1>1, SocialRows DEF Authorize, RequestBecomes, RequestRow, RequestAt
  <1>3. /\ valid' \in [Accounts -> SUBSET Tokens] /\ valid'[a] = valid[a] \cup {issued + 1}
        /\ \A b \in Accounts \ {a} : valid'[b] = valid[b]
    BY <1>1, SocialRows DEF Authorize, Issue
  <1>4. SocialTypeOK'
    BY <1>1, <1>2, <1>3, SocialRows, SocialTyped DEF RequestBecomes
  <1>5. /\ \A p \in Requests : request[p].token \in Nat /\ request[p].token < issued + 1
        /\ \A b \in Accounts : row[b].token \in Nat /\ row[b].token < issued + 1
    BY <1>1, SocialRows DEF SocialInv, RequestOK, LockOK, RequestRow, ConnectionRow
  <1>6. RequestOK(q)'
    BY <1>1, <1>2, <1>5 DEF RequestBecomes, RequestOK
  <1>7. ASSUME NEW p \in Requests \ {q} PROVE RequestOK(p)'
    <2>1. request'[p] = request[p] /\ RequestOK(p) /\ request'[q].token # request[p].token
      BY <1>2, <1>5 DEF RequestBecomes, SocialInv
    <2>. QED BY <1>1, <1>2, <1>5, <2>1 DEF RequestBecomes, RequestOK
  <1>8. ASSUME NEW b \in Accounts PROVE LockOK(b)'
    <2>1. valid'[b] \subseteq 1..issued + 1 /\ row[b].token <= issued + 1
      BY <1>1, <1>3, <1>5 DEF SocialInv, LockOK
    <2>. QED BY <1>1, <1>2, <2>1 DEF RequestBecomes, SocialInv, LockOK
  <1>9. ASSUME NEW b \in Accounts PROVE TokensOK(b)' /\ Explained(b)'
    BY <1>1, <1>2, <1>3 DEF RequestBecomes, SocialInv, TokensOK, Explained, Sound
  <1>. QED BY <1>4, <1>6, <1>7, <1>8, <1>9 DEF SocialInv

LEMMA LookAgainStep ==
    ASSUME SocialInv, NEW q \in Requests, NEW a \in Accounts, LookAgain(q, a)
    PROVE  SocialInv'
  <1>1. /\ request[q].at = "wait" /\ request[q].account = {a} /\ lock[a] = {}
        /\ UNCHANGED <<valid, issued, row, events, losses>>
    BY RequestAsks DEF LookAgain, Asks, Unlocked
  <1>2. /\ request[q].account \in SUBSET Accounts /\ request[q].token \in 0..MaxTokens
        /\ row[a].token \in 0..MaxTokens /\ {} \in SUBSET Accounts /\ 0 \in 0..MaxTokens
    BY SocialRows, SocialAssumption DEF RequestRow, ConnectionRow
  <1>3. CASE row[a].status # "connected"
    <2>1. UNCHANGED lock /\ RequestBecomes(q, "mark", request[q].account, request[q].token)
      BY <1>3, RequestProceeds DEF LookAgain, RequestAt
    <2>2. RequestOK(q)'
      BY <1>1, <1>3, <2>1 DEF RequestBecomes, SocialInv, RequestOK
    <2>. QED BY <1>1, <1>2, <2>1, <2>2, SocialRows, RequestStep DEF RequestAt
  <1>4. CASE row[a].status = "connected" /\ ~row[a].due
    <2>1. UNCHANGED lock /\ RequestBecomes(q, "rest", {}, 0)
      BY <1>4, RequestDone DEF LookAgain
    <2>2. RequestOK(q)'
      BY <1>1, <2>1, SocialRows DEF RequestBecomes, RequestOK
    <2>. QED BY <1>1, <1>2, <2>1, <2>2, SocialRows, RequestStep DEF RequestAt
  <1>5. CASE row[a].status = "connected" /\ row[a].due
    <2>1. RequestBecomes(q, "refresh", {a}, row[a].token)
      BY <1>1, <1>2, <1>5, SocialRows DEF LookAgain, RequestBecomes, RequestRow, RequestAt
    <2>2. /\ lock' \in [Accounts -> SUBSET Requests] /\ lock'[a] = {q}
          /\ \A b \in Accounts \ {a} : lock'[b] = lock[b]
      BY <1>5, SocialRows DEF LookAgain, TakeRow
    <2>3. SocialTypeOK'
      BY <1>1, <2>1, <2>2, SocialRows, SocialTyped DEF RequestBecomes
    <2>4. RequestOK(q)'
      BY <1>1, <2>1 DEF RequestBecomes, SocialInv, RequestOK, LockOK
    <2>5. ASSUME NEW p \in Requests \ {q} PROVE RequestOK(p)'
      BY <1>1, <2>1 DEF RequestBecomes, SocialInv, RequestOK
    <2>6. LockOK(a)'
      BY <1>1, <1>5, <2>1, <2>2 DEF RequestBecomes, SocialInv, LockOK
    <2>7. ASSUME NEW b \in Accounts \ {a} PROVE LockOK(b)'
      BY <1>1, <2>1, <2>2 DEF RequestBecomes, SocialInv, LockOK
    <2>8. ASSUME NEW b \in Accounts PROVE TokensOK(b)' /\ Explained(b)'
      BY <1>1, <1>5, <2>1, <2>2 DEF RequestBecomes, SocialInv, TokensOK, Explained, Sound
    <2>. QED BY <2>3, <2>4, <2>5, <2>6, <2>7, <2>8 DEF SocialInv
  <1>. QED BY <1>3, <1>4, <1>5

LEMMA SaveStep ==
    ASSUME SocialInv, NEW q \in Requests, NEW a \in Accounts, Save(q, a)
    PROVE  SocialInv'
  <1>. DEFINE others == {b \in Accounts \ {a} : row[b].status \in Active}
              kept(b) == row'[b].token = row[b].token
                         /\ row'[b].status = IF b \in others THEN "disconnected" ELSE row[b].status
  <1>1. /\ request[q].at = "save" /\ request[q].account = {a} /\ request[q].token \in 0..MaxTokens
        /\ UNCHANGED <<valid, issued, lock>>
    BY RequestAsks, SocialRows DEF Save, Asks, RequestRow
  <1>2. RequestBecomes(q, "rest", {}, 0)
    BY RequestDone DEF Save
  <1>3. losses' \in 0..MaxLosses /\ (losses' = 0 => losses = 0)
    BY LossCounted, SocialRows DEF Save, NoLoss
  <1>4. CASE UNCHANGED <<row, events>>
    <2>1. RequestOK(q)'
      BY <1>1, <1>2, SocialRows DEF RequestBecomes, RequestOK
    <2>2. {} \in SUBSET Accounts /\ 0 \in 0..MaxTokens
      BY SocialAssumption
    <2>. QED BY <1>1, <1>2, <1>3, <1>4, <2>1, <2>2, SocialRows, RequestStep DEF RequestAt
  <1>5. CASE /\ Unlocked(others \cup {a})
             /\ row' = [b \in Accounts |->
                          IF b = a THEN [status |-> "connected", token |-> request[q].token, due |-> FALSE]
                          ELSE IF b \in others THEN [row[b] EXCEPT !.status = "disconnected"]
                          ELSE row[b]]
             /\ events' = IF others = {} THEN events ELSE events \cup {"replaced"}
    <2>1. /\ row' \in [Accounts -> ConnectionRow]
          /\ row'[a].status = "connected" /\ row'[a].token = request[q].token
          /\ \A b \in Accounts \ {a} : kept(b)
      <3>1. ASSUME NEW b \in Accounts \ {a}
            PROVE  row'[b] \in ConnectionRow /\ kept(b)
        <4>1. row[b] \in ConnectionRow
          BY SocialRows
        <4>2. CASE b \in others
          <5>1. row'[b] = [row[b] EXCEPT !.status = "disconnected"]
            BY <1>5, <4>2
          <5>. QED BY <4>1, <4>2, <5>1 DEF ConnectionRow
        <4>3. CASE b \notin others
          <5>1. row'[b] = row[b]
            BY <1>5, <4>3
          <5>. QED BY <4>1, <4>3, <5>1
        <4>. QED BY <4>2, <4>3
      <3>2. row'[a] = [status |-> "connected", token |-> request[q].token, due |-> FALSE]
        BY <1>5
      <3>3. row'[a] \in ConnectionRow
        BY <1>1, <3>2 DEF ConnectionRow, Active
      <3>4. row' = [b \in Accounts |-> row'[b]]
        BY <1>5
      <3>5. row' \in [Accounts -> ConnectionRow]
        BY <3>1, <3>3, <3>4
      <3>. QED BY <3>1, <3>2, <3>5
    <2>2. /\ events \subseteq events' /\ events' \subseteq {"replaced", "missed", "disconnected"}
          /\ events' = {} => others = {}
          /\ \A b \in others \cup {a} : lock[b] = {}
      BY <1>5, SocialRows DEF Unlocked
    <2>. HIDE DEF others
    <2>3. SocialTypeOK'
      BY <1>1, <1>2, <1>3, <2>1, <2>2, SocialRows, SocialTyped DEF RequestBecomes
    <2>4. RequestOK(q)'
      BY <1>1, <1>2, SocialRows, SocialAssumption DEF RequestBecomes, RequestOK
    <2>5. ASSUME NEW p \in Requests \ {q} PROVE RequestOK(p)'
      <3>1. request'[p] = request[p] /\ RequestOK(p) /\ request'[q].token = 0
        BY <1>2 DEF RequestBecomes, SocialInv
      <3>2. request[p].at = "save" =>
               /\ request[p].token > 0
               /\ \A r \in Requests \ {p} : request'[r].token # request[p].token
               /\ \A b \in Accounts : row'[b].token # request[p].token
        BY <1>1, <1>2, <2>1, <3>1 DEF RequestBecomes, RequestOK
      <3>3. (request[p].at = "wait" /\ losses' = 0 /\ events' = {}) =>
               \A b \in request[p].account : row'[b].status = "connected"
        BY <1>3, <2>1, <2>2, <3>1, SocialRows DEF RequestOK, RequestRow
      <3>. QED BY <1>1, <1>3, <2>2, <3>1, <3>2, <3>3 DEF RequestOK
    <2>6. ASSUME NEW b \in Accounts PROVE LockOK(b)'
      <3>1. row'[b].token <= issued
        BY <1>1, <2>1 DEF SocialInv, LockOK, RequestOK
      <3>2. lock[b] # {} => row'[b].status = "connected"
        BY <2>1, <2>2 DEF SocialInv, LockOK
      <3>. QED BY <1>1, <1>2, <3>1, <3>2 DEF RequestBecomes, SocialInv, LockOK
    <2>7. ASSUME NEW b \in Accounts, Sound' PROVE TokensOK(b)'
      <3>1. Sound /\ TokensOK(b)
        BY <1>3, <2>2, <2>7 DEF Sound, SocialInv
      <3>2. (row'[b].status = "connected" /\ lock[b] = {}) => row'[b].token \in valid[b]
        <4>1. CASE b = a
          BY <1>1, <2>1, <3>1, <4>1 DEF TokensOK
        <4>2. CASE b # a
          BY <2>1, <3>1, <4>2 DEF TokensOK
        <4>. QED BY <4>1, <4>2
      <3>3. ASSUME NEW p \in Requests, b \in request'[p].account, request'[p].at = "refresh"
            PROVE  request'[p].token = row'[b].token
        <4>1. p # q /\ request'[p] = request[p] /\ p \in lock[b]
          BY <1>2, <3>3 DEF RequestBecomes, SocialInv, LockOK
        <4>2. b # a
          BY <2>2, <4>1
        <4>. QED BY <2>1, <3>1, <3>3, <4>1, <4>2 DEF TokensOK
      <3>. QED BY <1>1, <1>2, <3>1, <3>2, <3>3 DEF RequestBecomes, TokensOK
    <2>8. ASSUME NEW b \in Accounts PROVE Explained(b)'
      BY <1>3, <2>1, <2>2 DEF SocialInv, Explained
    <2>. QED BY <2>3, <2>4, <2>5, <2>6, <2>7, <2>8 DEF SocialInv, TokensOK
  <1>. QED BY <1>4, <1>5 DEF Save

LEMMA ForgetStep ==
    ASSUME SocialInv, NEW q \in Requests, NEW a \in Accounts, Forget(q, a)
    PROVE  SocialInv'
  <1>1. /\ request[q].at = "forget" /\ lock[a] = {} /\ "disconnected" \in events
        /\ UNCHANGED <<valid, issued, lock, events, losses>>
    BY DEF Forget, Asks, Unlocked, SocialInv, RequestOK
  <1>2. RequestBecomes(q, "rest", {}, 0)
    BY RequestDone DEF Forget
  <1>3. RowBecomes(a, "disconnected", row[a].token, row[a].due)
    BY SocialRows DEF Forget, RowBecomes, ConnectionRow
  <1>4. SocialTypeOK'
    BY <1>1, <1>2, <1>3, SocialRows, SocialTyped DEF RequestBecomes, RowBecomes
  <1>5. \A b \in Accounts : row'[b].token = row[b].token
    BY <1>3 DEF RowBecomes
  <1>6. ASSUME NEW p \in Requests PROVE RequestOK(p)'
    <2>1. CASE p = q
      BY <1>1, <1>2, <2>1, SocialRows DEF RequestBecomes, RequestOK
    <2>2. CASE p # q
      BY <1>1, <1>2, <1>5, <2>2 DEF RequestBecomes, SocialInv, RequestOK
    <2>. QED BY <2>1, <2>2
  <1>7. ASSUME NEW b \in Accounts PROVE LockOK(b)'
    BY <1>1, <1>2, <1>3, <1>5 DEF RequestBecomes, RowBecomes, SocialInv, LockOK
  <1>8. ASSUME NEW b \in Accounts PROVE TokensOK(b)' /\ Explained(b)'
    BY <1>1 DEF TokensOK, Explained, Sound
  <1>. QED BY <1>4, <1>6, <1>7, <1>8 DEF SocialInv

LEMMA MarkStep ==
    ASSUME SocialInv, NEW q \in Requests, Mark(q)
    PROVE  SocialInv'
  <1>1. /\ request[q].at = "mark" /\ UNCHANGED <<valid, issued, lock, events>>
        /\ losses = 0 => events # {}
    BY DEF Mark, SocialInv, RequestOK
  <1>2. RequestBecomes(q, "rest", {}, 0)
    BY RequestDone DEF Mark
  <1>3. losses' \in 0..MaxLosses /\ (losses' = 0 => losses = 0)
    BY LossCounted, SocialRows DEF Mark, NoLoss
  <1>4. /\ row' \in [Accounts -> ConnectionRow]
        /\ \A b \in Accounts : /\ row'[b].token = row[b].token
                               /\ row'[b].status \in {row[b].status, "refresh_failed"}
                               /\ lock[b] # {} => row'[b].status = row[b].status
    <2>1. CASE UNCHANGED row
      BY <2>1, SocialRows
    <2>2. CASE /\ Unlocked(Connected)
               /\ row' = [a \in Accounts |-> IF a \in Connected THEN [row[a] EXCEPT !.status = "refresh_failed"]
                                             ELSE row[a]]
      BY <2>2, SocialRows DEF ConnectionRow, Unlocked, Connected, Active
    <2>. QED BY <2>1, <2>2 DEF Mark
  <1>5. SocialTypeOK'
    BY <1>1, <1>2, <1>3, <1>4, SocialRows, SocialTyped DEF RequestBecomes
  <1>6. ASSUME NEW p \in Requests PROVE RequestOK(p)'
    <2>1. CASE p = q
      BY <1>1, <1>2, <2>1, SocialRows DEF RequestBecomes, RequestOK
    <2>2. CASE p # q
      BY <1>1, <1>2, <1>3, <1>4, <2>2 DEF RequestBecomes, SocialInv, RequestOK
    <2>. QED BY <2>1, <2>2
  <1>7. ASSUME NEW b \in Accounts PROVE LockOK(b)'
    BY <1>1, <1>2, <1>4 DEF RequestBecomes, SocialInv, LockOK
  <1>8. ASSUME NEW b \in Accounts PROVE TokensOK(b)' /\ Explained(b)'
    BY <1>1, <1>2, <1>3, <1>4 DEF RequestBecomes, SocialInv, TokensOK, Explained, Sound
  <1>. QED BY <1>5, <1>6, <1>7, <1>8 DEF SocialInv

LEMMA RequestEndsStep ==
    ASSUME SocialInv, NEW q \in Requests, RequestEnds(q)
    PROVE  SocialInv'
  <1>1. /\ UNCHANGED <<valid, issued, row, events>> /\ losses' \in 0..MaxLosses /\ losses' # 0
    BY LossCounted DEF RequestEnds
  <1>2. RequestBecomes(q, "rest", {}, 0)
    BY RequestDone DEF RequestEnds
  <1>3. /\ lock' \in [Accounts -> SUBSET Requests]
        /\ \A b \in Accounts : lock'[b] = lock[b] \ {q}
    BY RowReleased DEF RequestEnds
  <1>4. SocialTypeOK'
    BY <1>1, <1>2, <1>3, SocialRows, SocialTyped DEF RequestBecomes
  <1>5. ASSUME NEW p \in Requests PROVE RequestOK(p)'
    <2>1. CASE p = q
      BY <1>1, <1>2, <2>1, SocialRows DEF RequestBecomes, RequestOK
    <2>2. CASE p # q
      BY <1>1, <1>2, <2>2 DEF RequestBecomes, SocialInv, RequestOK
    <2>. QED BY <2>1, <2>2
  <1>6. ASSUME NEW b \in Accounts PROVE LockOK(b)'
    BY <1>1, <1>2, <1>3 DEF RequestBecomes, SocialInv, LockOK
  <1>7. ASSUME NEW b \in Accounts PROVE TokensOK(b)' /\ Explained(b)'
    BY <1>1 DEF TokensOK, Explained, Sound
  <1>. QED BY <1>4, <1>5, <1>6, <1>7 DEF SocialInv

\* A refresh that failed, or whose answer was lost, releases the row.
LEMMA RefreshFailsStep ==
    ASSUME SocialInv, NEW q \in Requests, NEW a \in Accounts,
           request[q].at \in {"refresh", "store"}, request[q].account = {a},
           Proceed(q, "mark"), Release(q), UNCHANGED <<row, events>>,
           losses' \in 0..MaxLosses, (losses' = 0 => losses = 0), losses' = 0 => events # {},
           valid' \in [Accounts -> SUBSET Tokens], issued' \in 0..MaxTokens, issued <= issued',
           \A b \in Accounts : valid'[b] \subseteq 1..issued',
           Sound' => FALSE
    PROVE  SocialInv'
  <1>1. RequestBecomes(q, "mark", {a}, request[q].token)
    BY RequestProceeds DEF RequestAt
  <1>2. /\ lock' \in [Accounts -> SUBSET Requests]
        /\ \A b \in Accounts : lock'[b] = lock[b] \ {q}
    BY RowReleased
  <1>3. SocialTypeOK'
    BY <1>1, <1>2, SocialRows, SocialTyped DEF RequestBecomes
  <1>4. issued \in Nat /\ issued' \in Nat
    BY SocialRows, SocialAssumption
  <1>5. ASSUME NEW p \in Requests PROVE RequestOK(p)'
    <2>1. request'[p].token = request[p].token /\ request'[p].token <= issued'
      BY <1>1, <1>4, SocialRows DEF RequestBecomes, SocialInv, RequestOK, RequestRow
    <2>2. CASE p = q
      BY <1>1, <2>1, <2>2 DEF RequestBecomes, RequestOK
    <2>3. CASE p # q
      BY <1>1, <2>1, <2>3 DEF RequestBecomes, SocialInv, RequestOK
    <2>. QED BY <2>2, <2>3
  <1>6. ASSUME NEW b \in Accounts PROVE LockOK(b)'
    <2>1. row[b].token <= issued'
      BY <1>4, SocialRows DEF SocialInv, LockOK, ConnectionRow
    <2>. QED BY <1>1, <1>2, <2>1 DEF RequestBecomes, SocialInv, LockOK
  <1>7. ASSUME NEW b \in Accounts PROVE TokensOK(b)' /\ Explained(b)'
    BY DEF SocialInv, TokensOK, Explained
  <1>. QED BY <1>3, <1>5, <1>6, <1>7 DEF SocialInv

LEMMA RefreshStep ==
    ASSUME SocialInv, NEW q \in Requests, NEW a \in Accounts, Refresh(q, a)
    PROVE  SocialInv'
  <1>. DEFINE t == request[q].token
  <1>1. /\ request[q].at = "refresh" /\ request[q].account = {a} /\ UNCHANGED <<row, events>>
        /\ t \in Nat /\ issued \in Nat
    BY RequestAsks, SocialRows, SocialAssumption DEF Refresh, Asks, RequestRow
  <1>2. Sound => t \in valid[a] /\ t = row[a].token
    BY <1>1 DEF SocialInv, TokensOK
  <1>3. q \in lock[a] /\ \A b \in Accounts : q \in lock[b] => b = a
    BY <1>1 DEF SocialInv, LockOK
  <1>4. \A b \in Accounts : valid[b] \subseteq 1..issued
    BY DEF SocialInv, LockOK
  <1>5. CASE t \notin valid[a]
    <2>1. UNCHANGED <<valid, issued>> /\ Proceed(q, "mark") /\ Release(q) /\ UNCHANGED losses
      BY <1>5 DEF Refresh, NoLoss
    <2>2. ~Sound
      BY <1>2, <1>5
    <2>3. ~Sound' /\ (losses' = 0 => events # {})
      BY <1>1, <2>1, <2>2 DEF Sound
    <2>. QED BY <1>1, <1>4, <2>1, <2>3, SocialRows, RefreshFailsStep
  <1>6. CASE t \in valid[a]
    <2>1. /\ valid' \in [Accounts -> SUBSET Tokens] /\ issued' \in 0..MaxTokens /\ issued <= issued'
          /\ \A b \in Accounts : valid'[b] \subseteq 1..issued'
          /\ \A b \in Accounts \ {a} : valid'[b] = valid[b]
          /\ \A u \in valid[a] : u # t => u \in valid'[a]
      <3>1. CASE UNCHANGED <<valid, issued>>
        BY <1>4, <3>1, SocialRows, SocialAssumption
      <3>2. CASE Issue(a, {t})
        <4>1. issued' = issued + 1 /\ issued' \in 0..MaxTokens /\ issued' \in Tokens
          BY <1>1, <3>2, SocialRows, SocialAssumption DEF Issue, Tokens
        <4>2. valid' = [valid EXCEPT ![a] = (@ \ {t}) \cup {issued + 1}]
          BY <3>2 DEF Issue
        <4>3. 1..issued \subseteq 1..issued' /\ issued + 1 \in 1..issued'
          BY <1>1, <4>1
        <4>. QED BY <1>1, <1>4, <4>1, <4>2, <4>3, SocialRows
      <3>. QED BY <1>6, <3>1, <3>2 DEF Refresh
    <2>2. CASE Proceed(q, "mark") /\ Release(q) /\ Loss
      BY <1>1, <2>1, <2>2, LossCounted, RefreshFailsStep DEF Sound
    <2>3. CASE /\ request' = [request EXCEPT ![q].at = "store",
                                  ![q].token = IF network = "tiktok" THEN issued + 1 ELSE @]
               /\ UNCHANGED <<lock, losses>>
               /\ IF network = "tiktok" THEN Issue(a, {t}) ELSE UNCHANGED <<valid, issued>>
      <3>1. PICK u \in 0..MaxTokens :
               /\ RequestBecomes(q, "store", {a}, u)
               /\ u \in valid'[a] /\ u <= issued'
               /\ u = t \/ (u = issued + 1)
        <4>1. CASE network = "tiktok"
          <5>1. issued + 1 \in 0..MaxTokens /\ issued' = issued + 1 /\ issued + 1 \in valid'[a]
            BY <1>1, <2>3, <4>1, SocialRows, SocialAssumption DEF Issue
          <5>2. RequestBecomes(q, "store", {a}, issued + 1)
            BY <1>1, <2>3, <4>1, <5>1, SocialRows DEF RequestBecomes, RequestRow, RequestAt
          <5>. QED BY <1>1, <5>1, <5>2
        <4>2. CASE network # "tiktok"
          <5>1. RequestBecomes(q, "store", {a}, t) /\ t \in 0..MaxTokens
            BY <1>1, <2>3, <4>2, SocialRows DEF RequestBecomes, RequestRow, RequestAt
          <5>2. t \in valid'[a] /\ t <= issued'
            BY <1>1, <1>6, <2>3, <4>2 DEF SocialInv, RequestOK
          <5>. QED BY <5>1, <5>2
        <4>. QED BY <4>1, <4>2
      <3>2. SocialTypeOK'
        BY <1>1, <2>1, <2>3, <3>1, SocialRows, SocialTyped DEF RequestBecomes
      <3>3. /\ \A p \in Requests : request[p].token \in Nat /\ request[p].token <= issued
            /\ \A b \in Accounts : row[b].token \in Nat /\ row[b].token <= issued
            /\ issued' \in Nat
        BY <2>1, SocialRows, SocialAssumption DEF SocialInv, RequestOK, LockOK, RequestRow, ConnectionRow
      <3>4. RequestOK(q)'
        BY <1>1, <3>1 DEF RequestBecomes, RequestOK
      <3>5. ASSUME NEW p \in Requests \ {q} PROVE RequestOK(p)'
        <4>1. request'[p] = request[p] /\ RequestOK(p) /\ request[p].token <= issued'
          BY <1>1, <2>1, <3>1, <3>3 DEF RequestBecomes, SocialInv
        <4>2. request[p].at = "save" => request'[q].token # request[p].token
          <5>1. request[p].at = "save" => t # request[p].token
            BY DEF SocialInv, RequestOK
          <5>2. request[p].token # issued + 1
            BY <1>1, <3>3
          <5>. QED BY <3>1, <5>1, <5>2 DEF RequestBecomes
        <4>. QED BY <1>1, <2>3, <3>1, <4>1, <4>2 DEF RequestBecomes, RequestOK
      <3>6. ASSUME NEW b \in Accounts PROVE LockOK(b)'
        <4>1. row[b].token <= issued'
          BY <1>1, <2>1, <3>3
        <4>. QED BY <1>1, <2>1, <2>3, <3>1, <4>1 DEF RequestBecomes, SocialInv, LockOK
      <3>7. ASSUME NEW b \in Accounts, Sound' PROVE TokensOK(b)'
        <4>1. Sound /\ TokensOK(b)
          BY <1>1, <2>3, <3>7 DEF Sound, SocialInv
        <4>2. CASE b # a
          BY <1>1, <2>1, <2>3, <3>1, <4>1, <4>2 DEF RequestBecomes, TokensOK
        <4>3. CASE b = a
          <5>1. lock'[b] # {}
            BY <1>3, <2>3, <4>3
          <5>2. ASSUME NEW p \in Requests \ {q}, a \in request'[p].account
                PROVE  /\ request'[p].at \in {"save", "store"} => request'[p].token \in valid'[a]
                       /\ request'[p].at # "refresh"
            <6>1. request'[p] = request[p]
              BY <3>1 DEF RequestBecomes
            <6>2. request[p].at \notin {"refresh", "store"}
              BY <1>3, <5>2, <6>1 DEF SocialInv, LockOK
            <6>3. request[p].at = "save" => request[p].token \in valid[a] /\ request[p].token # t
              BY <4>1, <4>3, <5>2, <6>1 DEF SocialInv, RequestOK, TokensOK
            <6>. QED BY <2>1, <6>1, <6>2, <6>3
          <5>. QED BY <1>1, <3>1, <4>3, <5>1, <5>2 DEF RequestBecomes, TokensOK
        <4>. QED BY <4>2, <4>3
      <3>8. ASSUME NEW b \in Accounts PROVE Explained(b)'
        BY <1>1, <2>3 DEF SocialInv, Explained
      <3>. QED BY <3>2, <3>4, <3>5, <3>6, <3>7, <3>8 DEF SocialInv, TokensOK
    <2>4. CASE UNCHANGED <<valid, issued>> /\ Proceed(q, "mark") /\ Release(q) /\ Loss
      BY <2>2, <2>4
    <2>. QED BY <1>6, <2>2, <2>3, <2>4 DEF Refresh, NoLoss
  <1>. QED BY <1>5, <1>6

LEMMA StoreStep ==
    ASSUME SocialInv, NEW q \in Requests, NEW a \in Accounts, Store(q, a)
    PROVE  SocialInv'
  <1>. DEFINE t == request[q].token
  <1>1. /\ request[q].at = "store" /\ request[q].account = {a} /\ UNCHANGED <<valid, issued, events>>
        /\ Release(q) /\ t \in 0..MaxTokens
    BY RequestAsks, SocialRows DEF Store, Asks, RequestRow
  <1>2. CASE UNCHANGED row /\ Proceed(q, "mark") /\ Loss
    <2>1. \A b \in Accounts : valid[b] \subseteq 1..issued
      BY DEF SocialInv, LockOK
    <2>2. losses' \in 0..MaxLosses /\ losses' # 0 /\ issued <= issued' /\ ~Sound'
      BY <1>1, <1>2, LossCounted, SocialRows, SocialAssumption DEF Sound
    <2>. QED BY <1>1, <1>2, <2>1, <2>2, SocialRows, RefreshFailsStep
  <1>3. CASE /\ row' = [row EXCEPT ![a] = [status |-> "connected", token |-> t, due |-> FALSE]]
             /\ Done(q) /\ NoLoss
    <2>1. RequestBecomes(q, "rest", {}, 0)
      BY <1>3, RequestDone
    <2>2. RowBecomes(a, "connected", t, FALSE)
      BY <1>1, <1>3, SocialRows DEF RowBecomes, ConnectionRow, Active
    <2>3. /\ lock' \in [Accounts -> SUBSET Requests]
          /\ \A b \in Accounts : lock'[b] = lock[b] \ {q}
      BY <1>1, RowReleased
    <2>4. SocialTypeOK'
      BY <1>1, <1>3, <2>1, <2>2, <2>3, SocialRows, SocialTyped DEF RequestBecomes, RowBecomes, NoLoss
    <2>5. RequestOK(q)'
      BY <1>1, <2>1, SocialRows DEF RequestBecomes, RequestOK
    <2>6. ASSUME NEW p \in Requests \ {q} PROVE RequestOK(p)'
      <3>1. request'[p] = request[p] /\ RequestOK(p)
        BY <2>1 DEF RequestBecomes, SocialInv
      <3>2. \A b \in Accounts : row'[b].token \in {row[b].token, t}
                                /\ (row[b].status = "connected" => row'[b].status = "connected")
        BY <2>2 DEF RowBecomes
      <3>. QED BY <1>1, <1>3, <2>1, <3>1, <3>2, SocialRows DEF RequestBecomes, RequestOK, NoLoss, RequestRow
    <2>7. ASSUME NEW b \in Accounts PROVE LockOK(b)'
      <3>1. row'[b].token <= issued
        BY <1>1, <2>2 DEF RowBecomes, SocialInv, LockOK, RequestOK
      <3>2. row[b].status = "connected" => row'[b].status = "connected"
        BY <2>2 DEF RowBecomes
      <3>. QED BY <1>1, <2>1, <2>3, <3>1, <3>2 DEF RequestBecomes, SocialInv, LockOK
    <2>8. ASSUME NEW b \in Accounts, Sound' PROVE TokensOK(b)'
      <3>1. Sound /\ TokensOK(b)
        BY <1>1, <1>3, <2>8 DEF Sound, SocialInv, NoLoss
      <3>2. CASE b = a
        <4>1. \A p \in Requests : b \in request'[p].account => request'[p].at # "refresh"
          BY <1>1, <2>1, <3>2 DEF RequestBecomes, SocialInv, LockOK
        <4>2. row'[b].token \in valid[b]
          BY <1>1, <2>2, <3>1, <3>2 DEF RowBecomes, TokensOK
        <4>. QED BY <1>1, <2>1, <3>1, <4>1, <4>2 DEF RequestBecomes, TokensOK
      <3>3. CASE b # a
        <4>1. lock'[b] = lock[b] /\ row'[b] = row[b]
          <5>1. q \notin lock[b]
            BY <1>1, <3>3 DEF SocialInv, LockOK
          <5>2. lock'[b] = lock[b]
            BY <2>3, <5>1
          <5>3. row'[b] = row[b]
            BY <2>2, <3>3 DEF RowBecomes
          <5>. QED BY <5>2, <5>3
        <4>. QED BY <1>1, <2>1, <3>1, <4>1 DEF RequestBecomes, TokensOK
      <3>. QED BY <3>2, <3>3
    <2>9. ASSUME NEW b \in Accounts PROVE Explained(b)'
      BY <1>1, <1>3, <2>2 DEF RowBecomes, SocialInv, Explained, NoLoss
    <2>. QED BY <2>4, <2>5, <2>6, <2>7, <2>8, <2>9 DEF SocialInv, TokensOK
  <1>. QED BY <1>2, <1>3 DEF Store

LEMMA SocialInductive == SocialInv /\ [SocialNext]_socialVars => SocialInv'
  <1>. SUFFICES ASSUME SocialInv, [SocialNext]_socialVars PROVE SocialInv'
    OBVIOUS
  <1>1. CASE UNCHANGED socialVars
    <2>1. SocialTypeOK' /\ \A q \in Requests : RequestOK(q)'
      BY <1>1 DEF SocialInv, SocialTypeOK, RequestOK
    <2>2. \A a \in Accounts : LockOK(a)' /\ TokensOK(a)' /\ Explained(a)'
      BY <1>1 DEF SocialInv, LockOK, TokensOK, Explained, Sound
    <2>. QED BY <2>1, <2>2 DEF SocialInv
  <1>2. ASSUME NEW a \in Accounts, AccessTokenDue(a) PROVE SocialInv'
    BY <1>2, DueStep
  <1>3. ASSUME NEW q \in Requests, Select(q) \/ Mark(q) \/ RequestEnds(q) PROVE SocialInv'
    BY <1>3, SelectStep, MarkStep, RequestEndsStep
  <1>4. ASSUME NEW q \in Requests, NEW a \in Accounts,
               \/ Authorize(q, a) \/ Save(q, a) \/ LookAgain(q, a) \/ Refresh(q, a)
               \/ Store(q, a) \/ ReadActive(q, a) \/ Revoke(q, a) \/ Forget(q, a)
        PROVE  SocialInv'
    BY <1>4, AuthorizeStep, SaveStep, LookAgainStep, RefreshStep, StoreStep, ReadActiveStep, RevokeStep, ForgetStep
  <1>. QED BY <1>1, <1>2, <1>3, <1>4 DEF SocialNext

\* However authorizations, refreshes and disconnections overlap, a connected account that nothing
\* was lost for keeps a token the network accepts, and is marked as failed only for a reason.
THEOREM ConnectionsStayUsable == SocialSpec => []ConnectionIsUsable
BY SocialInitially, SocialInductive, SocialInvImplies, PTL DEF SocialSpec

\* Rows, locks, requests and tokens are well formed in every behaviour of the social connections.
THEOREM SocialTypeCorrect == SocialSpec => []SocialTypeOK
  <1>1. SocialInv => SocialTypeOK
    BY DEF SocialInv
  <1>. QED BY <1>1, SocialInitially, SocialInductive, PTL DEF SocialSpec

-----------------------------------------------------------------------------
(* NewsletterIssue                                                           *)

USE DEF newsVars

DeskRow == [at : {"done", "queue", "select", "sending", "loop", "mark"},
            todo : SUBSET People, now : SUBSET People,
            outcome : {"none", "sent", "failed"}, failed : BOOLEAN]
LetterStatus == {"none", "queued", "sent", "failed"}
IssueStatus == {"none", "queued", "sending", "sent", "failed"}

-----------------------------------------------------------------------------
(* The inductive invariant                                                   *)

\* Nothing has happened to an issue that was not created.
Unwritten(i) ==
    /\ desk[i] = NoDesk
    /\ \A p \in People : recipient[i][p] = "none" /\ letters[i][p] = 0

\* Its status while its request is at work, and what an interrupted one has cost.
InStep(i) ==
    /\ issue[i] = "none" => Unwritten(i)
    /\ DeskAt(i, "queue") => issue[i] = "queued" /\ \A p \in People : recipient[i][p] = "none"
    /\ desk[i].at \in {"queue", "select", "sending"} =>
          issue[i] = "queued" /\ \A p \in People : letters[i][p] = 0
    /\ desk[i].at \in {"select", "sending"} => \A p \in People : recipient[i][p] \in {"none", "queued"}
    /\ desk[i].at \in {"loop", "mark"} => issue[i] = "sending"
    /\ issue[i] = "sending" => ~DeskAt(i, "done") \/ lost > 0

\* What the loop still has to do, has in hand, and has done.
ToDo(i) ==
    /\ desk[i].todo # {} => desk[i].at \in {"sending", "loop", "mark"}
    /\ desk[i].now # {} => DeskAt(i, "mark")
    /\ DeskAt(i, "mark") => \E p \in People : desk[i].now = {p}
    /\ desk[i].now \cap desk[i].todo = {}
    /\ \A p \in desk[i].todo : recipient[i][p] = "queued" /\ letters[i][p] = 0
    /\ \A p \in desk[i].now : /\ recipient[i][p] \in {"queued", "sent"}
                              /\ desk[i].outcome \in {"sent", "failed"}
                              /\ desk[i].outcome = "sent" => letters[i][p] = 1
    /\ desk[i].failed => desk[i].at \in {"loop", "mark"}

\* Whoever is left queued or failed is known to the request.
Remaining(i) ==
    desk[i].at \in {"sending", "loop", "mark"} =>
        \A p \in People :
            /\ recipient[i][p] = "queued" => p \in desk[i].todo \cup desk[i].now
            /\ recipient[i][p] = "failed" => desk[i].failed

\* Recipients were subscribed, and got at most one letter.
Reached(i) ==
    \A p \in People :
        /\ recipient[i][p] # "none" => p \in askedFor[i]
        /\ letters[i][p] \in {0, 1}
        /\ letters[i][p] = 1 => recipient[i][p] # "none"
        /\ recipient[i][p] = "sent" => letters[i][p] = 1
        /\ issue[i] = "sent" => recipient[i][p] \in {"none", "sent"}

IssueOK(i) == InStep(i) /\ ToDo(i) /\ Remaining(i) /\ Reached(i)

\* Who is subscribed has been so at some time since the issue was created.
Noticed == \A i \in Issues : issue[i] # "none" => Subscribed \subseteq askedFor[i]

NewsInv == NewsTypeOK /\ Noticed /\ \A i \in Issues : IssueOK(i)

-----------------------------------------------------------------------------
LEMMA NewsInitially == NewsInit => NewsInv
BY NewsAssumption DEF NewsInit, NewsInv, IssueOK, NewsTypeOK, Noticed, InStep, ToDo, Remaining, Reached, Unwritten, NoDesk,
   DeskAt

LEMMA NewsInvImplies == NewsInv => NewsletterIsAccounted
BY DEF NewsInv, IssueOK, NewsTypeOK, NewsletterIsAccounted, InStep, Reached, DeskAt

\* A step that leaves an issue alone, or lets more people ask for it, keeps what is known of it.
LEMMA IssueUntouched ==
    ASSUME NewsInv, NEW j \in Issues, issue'[j] = issue[j], desk'[j] = desk[j],
           recipient'[j] = recipient[j], letters'[j] = letters[j],
           askedFor[j] \subseteq askedFor'[j], lost' \in Nat, lost' >= lost
    PROVE  IssueOK(j)'
BY NewsAssumption DEF NewsInv, NewsTypeOK, IssueOK, InStep, ToDo, Remaining, Reached, Unwritten, DeskAt


-----------------------------------------------------------------------------
(* What a step does to a request, and to an issue's rows                     *)

Elsewhere(i) == \A j \in Issues \ {i} : desk'[j] = desk[j]

DeskBecomes(i, at, todo, now, outcome, failed) ==
    /\ desk' \in [Issues -> DeskRow] /\ Elsewhere(i)
    /\ desk'[i] = [at |-> at, todo |-> todo, now |-> now, outcome |-> outcome, failed |-> failed]

LEMMA DeskTyped == NewsInv => desk \in [Issues -> DeskRow]
BY DEF NewsInv, NewsTypeOK, DeskRow

LEMMA DeskMoves ==
    ASSUME NewsInv, NEW i \in Issues, NEW step \in {"queue", "select", "sending", "loop", "mark"},
           NextAt(i, step)
    PROVE  DeskBecomes(i, step, desk[i].todo, desk[i].now, desk[i].outcome, desk[i].failed)
BY DeskTyped DEF NextAt, DeskBecomes, Elsewhere, DeskRow

LEMMA DeskLeft ==
    ASSUME NewsInv, NEW i \in Issues, Leave(i)
    PROVE  DeskBecomes(i, "done", {}, {}, "none", FALSE)
BY DeskTyped DEF Leave, NoDesk, DeskBecomes, Elsewhere, DeskRow

LEMMA DeskSelects ==
    ASSUME NewsInv, NEW i \in Issues, NEW S \in SUBSET People,
           desk' = [desk EXCEPT ![i].at = "sending", ![i].todo = S]
    PROVE  DeskBecomes(i, "sending", S, desk[i].now, desk[i].outcome, desk[i].failed)
BY DeskTyped DEF DeskBecomes, Elsewhere, DeskRow

LEMMA DeskSends ==
    ASSUME NewsInv, NEW i \in Issues, NEW p \in People, NEW o \in {"sent", "failed"},
           desk' = [desk EXCEPT ![i].at = "mark", ![i].todo = @ \ {p}, ![i].now = {p}, ![i].outcome = o]
    PROVE  DeskBecomes(i, "mark", desk[i].todo \ {p}, {p}, o, desk[i].failed)
  <1>1. desk[i].todo \ {p} \in SUBSET People /\ {p} \in SUBSET People
    BY DeskTyped DEF DeskRow
  <1>. QED BY <1>1, DeskTyped DEF DeskBecomes, Elsewhere, DeskRow

LEMMA DeskRecords ==
    ASSUME NewsInv, NEW i \in Issues,
           desk' = [desk EXCEPT ![i].at = "loop", ![i].now = {},
                                ![i].failed = @ \/ desk[i].outcome = "failed"]
    PROVE  DeskBecomes(i, "loop", desk[i].todo, {}, desk[i].outcome,
                       desk[i].failed \/ desk[i].outcome = "failed")
  <1>1. (desk[i].failed \/ desk[i].outcome = "failed") \in BOOLEAN
    OBVIOUS
  <1>. QED BY <1>1, DeskTyped DEF DeskBecomes, Elsewhere, DeskRow

LEMMA DeskFails ==
    ASSUME NewsInv, NEW i \in Issues, desk' = [desk EXCEPT ![i].outcome = "failed"]
    PROVE  DeskBecomes(i, desk[i].at, desk[i].todo, desk[i].now, "failed", desk[i].failed)
BY DeskTyped DEF DeskBecomes, Elsewhere, DeskRow

\* One recipient's row, or the count of its letters, changes.
LetterBecomes(i, p, written) ==
    /\ recipient' \in [Issues -> [People -> LetterStatus]]
    /\ recipient'[i][p] = written
    /\ \A j \in Issues, q \in People : j # i \/ q # p => recipient'[j][q] = recipient[j][q]

LEMMA RowSet ==
    ASSUME NewsInv, NEW i \in Issues, NEW p \in People, NEW written \in LetterStatus,
           recipient' = [recipient EXCEPT ![i][p] = written]
    PROVE  LetterBecomes(i, p, written)
BY DEF NewsInv, NewsTypeOK, LetterBecomes, LetterStatus

LEMMA LetterTaken ==
    ASSUME NewsInv, NEW i \in Issues, NEW p \in People, NEW taken \in {0, 1},
           letters' = [letters EXCEPT ![i][p] = @ + taken]
    PROVE  /\ letters' \in [Issues -> [People -> Nat]]
           /\ letters'[i][p] = letters[i][p] + taken
           /\ \A j \in Issues, q \in People : j # i \/ q # p => letters'[j][q] = letters[j][q]
BY DEF NewsInv, NewsTypeOK

LEMMA IssueStatusSet ==
    ASSUME NewsInv, NEW i \in Issues, NEW written \in IssueStatus,
           issue' = [issue EXCEPT ![i] = written]
    PROVE  /\ issue' \in [Issues -> IssueStatus] /\ issue'[i] = written
           /\ \A j \in Issues \ {i} : issue'[j] = issue[j]
BY DEF NewsInv, NewsTypeOK, IssueStatus

LEMMA LostCounted ==
    ASSUME NewsInv, Lose
    PROVE  lost' \in 0..MaxLost /\ lost' > 0 /\ lost' >= lost
BY NewsAssumption DEF NewsInv, NewsTypeOK, Lose


-----------------------------------------------------------------------------
(* The steps                                                                 *)

\* A request's step changes its own issue only.
OnlyIssue(i) ==
    /\ NewsTypeOK' /\ lost' >= lost
    /\ \A j \in Issues \ {i} :
          /\ issue'[j] = issue[j] /\ desk'[j] = desk[j] /\ recipient'[j] = recipient[j]
          /\ letters'[j] = letters[j] /\ askedFor'[j] = askedFor[j]

LEMMA CreateStep ==
    ASSUME NewsInv, NEW i \in Issues, CreateIssue(i)
    PROVE  OnlyIssue(i) /\ IssueOK(i)'
  <1>1. DeskBecomes(i, "queue", {}, {}, "none", FALSE)
    <2>1. desk[i] = NoDesk
      BY DEF CreateIssue, NewsInv, IssueOK, InStep, Unwritten
    <2>2. DeskBecomes(i, "queue", desk[i].todo, desk[i].now, desk[i].outcome, desk[i].failed)
      BY DeskMoves DEF CreateIssue
    <2>3. /\ desk[i].todo = {} /\ desk[i].now = {} /\ desk[i].outcome = "none"
          /\ desk[i].failed = FALSE
      BY <2>1 DEF NoDesk
    <2>. QED BY <2>2, <2>3 DEF DeskBecomes
  <1>2. Subscribed \in SUBSET People
    BY DEF Subscribed
  <1>3. OnlyIssue(i)
    <2>1. issue' \in [Issues -> IssueStatus] /\ \A j \in Issues \ {i} : issue'[j] = issue[j]
      BY IssueStatusSet DEF CreateIssue, IssueStatus
    <2>2. /\ askedFor' \in [Issues -> SUBSET People]
          /\ \A j \in Issues \ {i} : askedFor'[j] = askedFor[j]
      BY <1>2 DEF CreateIssue, NewsInv, NewsTypeOK
    <2>. QED BY <1>1, <2>1, <2>2 DEF CreateIssue, OnlyIssue, NewsInv, NewsTypeOK, DeskBecomes, DeskRow, Elsewhere,
                IssueStatus
  <1>4. /\ \A p \in People : recipient'[i][p] = "none" /\ letters'[i][p] = 0
        /\ issue'[i] = "queued"
    BY DEF CreateIssue, NewsInv, NewsTypeOK, IssueOK, InStep, Unwritten
  <1>. QED BY <1>1, <1>3, <1>4 DEF DeskBecomes, IssueOK, InStep, ToDo, Remaining, Reached, DeskAt

LEMMA QueueIssueStep ==
    ASSUME NewsInv, NEW i \in Issues, QueueRecipients(i)
    PROVE  OnlyIssue(i) /\ IssueOK(i)'
  <1>1. DeskBecomes(i, "select", desk[i].todo, desk[i].now, desk[i].outcome, desk[i].failed)
    BY DeskMoves DEF QueueRecipients
  <1>2. /\ recipient' \in [Issues -> [People -> LetterStatus]]
        /\ \A j \in Issues \ {i} : recipient'[j] = recipient[j]
        /\ \A p \in People : recipient'[i][p] = IF p \in Addressees THEN "queued" ELSE recipient[i][p]
    BY DEF QueueRecipients, NewsInv, NewsTypeOK, LetterStatus
  <1>3. OnlyIssue(i)
    BY <1>1, <1>2 DEF QueueRecipients, OnlyIssue, NewsInv, NewsTypeOK, DeskBecomes, DeskRow, Elsewhere, LetterStatus
  <1>4. /\ DeskAt(i, "queue") /\ issue[i] = "queued" /\ desk[i].todo = {} /\ desk[i].now = {} /\ ~desk[i].failed
        /\ \A p \in People : recipient[i][p] = "none" /\ letters[i][p] = 0
        /\ UNCHANGED <<issue, letters, askedFor, lost>>
    BY DEF QueueRecipients, NewsInv, NewsTypeOK, IssueOK, InStep, ToDo, DeskAt
  <1>5. \A p \in People : recipient'[i][p] # "none" => p \in askedFor[i] /\ recipient'[i][p] = "queued"
    BY <1>2, <1>4 DEF Addressees, NewsInv, Noticed
  <1>6. InStep(i)' BY <1>1, <1>4, <1>5 DEF InStep, DeskBecomes, DeskAt
  <1>7. ToDo(i)' BY <1>1, <1>4 DEF ToDo, DeskBecomes, DeskAt
  <1>8. Remaining(i)' BY <1>1 DEF Remaining, DeskBecomes
  <1>9. Reached(i)' BY <1>4, <1>5 DEF Reached
  <1>. QED BY <1>3, <1>6, <1>7, <1>8, <1>9 DEF IssueOK

LEMMA SelectPeopleStep ==
    ASSUME NewsInv, NEW i \in Issues, SelectRecipients(i)
    PROVE  OnlyIssue(i) /\ IssueOK(i)'
  <1>. DEFINE waiting == {p \in People : recipient[i][p] = "queued"}
  <1>1. \/ DeskBecomes(i, "sending", waiting, desk[i].now, desk[i].outcome, desk[i].failed)
        \/ DeskBecomes(i, "done", {}, {}, "none", FALSE)
    BY DeskSelects, DeskLeft DEF SelectRecipients
  <1>2. OnlyIssue(i)
    BY <1>1 DEF SelectRecipients, OnlyIssue, NewsInv, NewsTypeOK, DeskBecomes, DeskRow, Elsewhere
  <1>. QED BY <1>1, <1>2 DEF SelectRecipients, NewsInv, NewsTypeOK, DeskBecomes, IssueOK, InStep, ToDo, Remaining, Reached,
              DeskAt, Unwritten, NoDesk

LEMMA MarkIssueStep ==
    ASSUME NewsInv, NEW i \in Issues, MarkSending(i)
    PROVE  OnlyIssue(i) /\ IssueOK(i)'
  <1>1. DeskBecomes(i, "loop", desk[i].todo, desk[i].now, desk[i].outcome, desk[i].failed)
    BY DeskMoves DEF MarkSending
  <1>2. OnlyIssue(i)
    <2>1. issue' \in [Issues -> IssueStatus] /\ \A j \in Issues \ {i} : issue'[j] = issue[j]
      BY IssueStatusSet DEF MarkSending, IssueStatus
    <2>. QED BY <1>1, <2>1 DEF MarkSending, OnlyIssue, NewsInv, NewsTypeOK, DeskBecomes, DeskRow, Elsewhere, IssueStatus
  <1>. QED BY <1>1, <1>2 DEF MarkSending, NewsInv, NewsTypeOK, DeskBecomes, IssueOK, InStep, ToDo, Remaining, Reached, DeskAt

LEMMA CloseStep ==
    ASSUME NewsInv, NEW i \in Issues, CloseIssue(i)
    PROVE  OnlyIssue(i) /\ IssueOK(i)'
  <1>1. DeskBecomes(i, "done", {}, {}, "none", FALSE)
    BY DeskLeft DEF CloseIssue
  <1>2. OnlyIssue(i)
    <2>1. issue' \in [Issues -> IssueStatus] /\ \A j \in Issues \ {i} : issue'[j] = issue[j]
      BY IssueStatusSet DEF CloseIssue, IssueStatus
    <2>. QED BY <1>1, <2>1 DEF CloseIssue, OnlyIssue, NewsInv, NewsTypeOK, DeskBecomes, DeskRow, Elsewhere, IssueStatus
  <1>3. desk[i].now = {} /\ desk[i].todo = {} /\ issue'[i] = IF desk[i].failed THEN "failed" ELSE "sent"
    BY DEF CloseIssue, NewsInv, NewsTypeOK, IssueOK, ToDo, DeskAt
  <1>4. \A p \in People : recipient'[i][p] # "queued" /\ (recipient'[i][p] = "failed" => desk[i].failed)
    BY <1>3 DEF CloseIssue, NewsInv, IssueOK, Remaining, DeskAt
  <1>. QED BY <1>1, <1>2, <1>3, <1>4 DEF CloseIssue, NewsInv, NewsTypeOK, DeskBecomes, IssueOK, InStep, ToDo, Remaining,
              Reached, DeskAt

LEMMA EndStep ==
    ASSUME NewsInv, NEW i \in Issues, DeskEnds(i)
    PROVE  OnlyIssue(i) /\ IssueOK(i)'
  <1>1. DeskBecomes(i, "done", {}, {}, "none", FALSE)
    BY DeskLeft DEF DeskEnds
  <1>2. OnlyIssue(i)
    BY <1>1, LostCounted DEF DeskEnds, OnlyIssue, NewsInv, NewsTypeOK, DeskBecomes, DeskRow, Elsewhere
  <1>3. lost' > 0 BY LostCounted DEF DeskEnds
  <1>. QED BY <1>1, <1>2, <1>3 DEF DeskEnds, NewsInv, NewsTypeOK, DeskBecomes, IssueOK, InStep, ToDo, Remaining, Reached,
              DeskAt, Unwritten, NoDesk

LEMMA LetterStep ==
    ASSUME NewsInv, NEW i \in Issues, NEW p \in People, SendLetter(i, p)
    PROVE  OnlyIssue(i) /\ IssueOK(i)'
  <1>1. PICK taken \in {0, 1}, answered \in BOOLEAN :
           /\ answered => taken = 1
           /\ letters' = [letters EXCEPT ![i][p] = @ + taken]
           /\ desk' = [desk EXCEPT ![i].at = "mark", ![i].todo = @ \ {p}, ![i].now = {p},
                                   ![i].outcome = IF answered THEN "sent" ELSE "failed"]
           /\ IF answered THEN UNCHANGED lost ELSE Lose
    BY DEF SendLetter
  <1>. DEFINE o == IF answered THEN "sent" ELSE "failed"
  <1>2. DeskBecomes(i, "mark", desk[i].todo \ {p}, {p}, o, desk[i].failed)
    BY <1>1, DeskSends
  <1>3. /\ letters' \in [Issues -> [People -> Nat]]
        /\ letters'[i][p] = letters[i][p] + taken
        /\ \A j \in Issues, q \in People : j # i \/ q # p => letters'[j][q] = letters[j][q]
    BY <1>1, LetterTaken
  <1>4. \A j \in Issues \ {i} : letters'[j] = letters[j]
    BY <1>1 DEF NewsInv, NewsTypeOK
  <1>5. lost' \in 0..MaxLost /\ lost' >= lost
    BY <1>1, LostCounted, NewsAssumption DEF NewsInv, NewsTypeOK
  <1>6. OnlyIssue(i)
    BY <1>2, <1>3, <1>4, <1>5 DEF SendLetter, OnlyIssue, NewsInv, NewsTypeOK, DeskBecomes, DeskRow, Elsewhere
  <1>7. /\ p \in desk[i].todo /\ letters[i][p] = 0 /\ recipient[i][p] = "queued"
        /\ DeskAt(i, "loop") /\ desk[i].now = {} /\ issue[i] = "sending" /\ UNCHANGED <<issue, recipient, askedFor>>
    BY DEF SendLetter, NewsInv, IssueOK, ToDo, InStep, DeskAt
  <1>8. InStep(i)' BY <1>2, <1>6, <1>7 DEF InStep, DeskBecomes, DeskAt
  <1>9. ToDo(i)'
    BY <1>1, <1>2, <1>3, <1>6, <1>7 DEF NewsInv, IssueOK, ToDo, DeskBecomes, DeskAt
  <1>10. Remaining(i)'
    BY <1>2, <1>7 DEF NewsInv, IssueOK, Remaining, DeskBecomes, DeskAt
  <1>11. Reached(i)'
    BY <1>3, <1>7 DEF NewsInv, IssueOK, Reached
  <1>. QED BY <1>6, <1>8, <1>9, <1>10, <1>11 DEF IssueOK

LEMMA RecordStep ==
    ASSUME NewsInv, NEW i \in Issues, NEW p \in People, RecordLetter(i, p)
    PROVE  OnlyIssue(i) /\ IssueOK(i)'
  <1>1. DeskBecomes(i, "loop", desk[i].todo, {}, desk[i].outcome, desk[i].failed \/ desk[i].outcome = "failed")
    BY DeskRecords DEF RecordLetter
  <1>2. /\ p \in desk[i].now /\ desk[i].now = {p} /\ desk[i].outcome \in {"sent", "failed"} /\ DeskAt(i, "mark")
        /\ recipient[i][p] \in {"queued", "sent"} /\ issue[i] = "sending"
        /\ UNCHANGED <<issue, letters, askedFor, lost>>
    BY DEF RecordLetter, NewsInv, IssueOK, ToDo, InStep, DeskAt
  <1>3. LetterBecomes(i, p, desk[i].outcome)
    BY <1>2, RowSet DEF RecordLetter, LetterStatus
  <1>4. \A j \in Issues \ {i} : recipient'[j] = recipient[j]
    BY DEF RecordLetter, NewsInv, NewsTypeOK
  <1>5. OnlyIssue(i)
    BY <1>1, <1>3, <1>4, NewsAssumption DEF RecordLetter, OnlyIssue, NewsInv, NewsTypeOK, DeskBecomes, DeskRow, Elsewhere,
       LetterBecomes, LetterStatus
  <1>6. InStep(i)' BY <1>1, <1>2 DEF InStep, DeskBecomes, DeskAt
  <1>. DEFINE w == [at |-> "loop", todo |-> desk[i].todo, now |-> {}, outcome |-> desk[i].outcome,
                    failed |-> desk[i].failed \/ desk[i].outcome = "failed"]
  <1>10. desk'[i] = w /\ w.at = "loop" /\ w.todo = desk[i].todo /\ w.now = {}
         /\ (w.failed <=> desk[i].failed \/ desk[i].outcome = "failed")
    BY <1>1 DEF DeskBecomes
  <1>11. \A q \in People \ {p} : recipient'[i][q] = recipient[i][q]
    BY <1>3 DEF LetterBecomes
  <1>12. desk[i].todo \subseteq People \ {p} /\ recipient'[i][p] = desk[i].outcome
    BY <1>2, <1>3, DeskTyped DEF NewsInv, IssueOK, ToDo, LetterBecomes, DeskRow
  <1>7. ToDo(i)'
    BY <1>2, <1>10, <1>11, <1>12 DEF NewsInv, IssueOK, ToDo, DeskAt
  <1>8. Remaining(i)'
    BY <1>2, <1>10, <1>11, <1>12 DEF NewsInv, IssueOK, Remaining, DeskAt
  <1>9. Reached(i)'
    BY <1>2, <1>3 DEF NewsInv, IssueOK, Reached, ToDo, LetterBecomes
  <1>. QED BY <1>5, <1>6, <1>7, <1>8, <1>9 DEF IssueOK

LEMMA ThrowStep ==
    ASSUME NewsInv, NEW i \in Issues, NEW p \in People, RecordLetterThrows(i, p)
    PROVE  OnlyIssue(i) /\ IssueOK(i)'
  <1>1. DeskBecomes(i, desk[i].at, desk[i].todo, desk[i].now, "failed", desk[i].failed)
    BY DeskFails DEF RecordLetterThrows
  <1>2. /\ p \in desk[i].now /\ desk[i].now = {p} /\ desk[i].outcome = "sent" /\ DeskAt(i, "mark")
        /\ recipient[i][p] \in {"queued", "sent"} /\ issue[i] = "sending" /\ letters[i][p] = 1
        /\ UNCHANGED <<issue, letters, askedFor>>
    BY DEF RecordLetterThrows, NewsInv, IssueOK, ToDo, InStep, DeskAt
  <1>3. recipient' = recipient \/ LetterBecomes(i, p, "sent")
    BY RowSet DEF RecordLetterThrows, LetterStatus
  <1>4. \A j \in Issues \ {i} : recipient'[j] = recipient[j]
    BY DEF RecordLetterThrows, NewsInv, NewsTypeOK
  <1>5. lost' \in 0..MaxLost /\ lost' >= lost
    BY LostCounted DEF RecordLetterThrows
  <1>6. OnlyIssue(i)
    BY <1>1, <1>3, <1>4, <1>5 DEF RecordLetterThrows, OnlyIssue, NewsInv, NewsTypeOK, DeskBecomes, DeskRow, Elsewhere,
       LetterBecomes, LetterStatus
  <1>7. InStep(i)' BY <1>1, <1>2 DEF InStep, DeskBecomes, DeskAt
  <1>11. desk'[i].at = "mark" /\ desk'[i].todo = desk[i].todo /\ desk'[i].now = {p}
         /\ desk'[i].outcome = "failed" /\ desk'[i].failed = desk[i].failed
    BY <1>1, <1>2 DEF DeskBecomes, DeskAt
  <1>12. desk[i].todo \subseteq People \ {p}
    BY <1>2, DeskTyped DEF NewsInv, IssueOK, ToDo, DeskRow
  <1>13. /\ recipient'[i][p] \in {"queued", "sent"}
         /\ \A q \in People \ {p} : recipient'[i][q] = recipient[i][q]
    BY <1>2, <1>3 DEF LetterBecomes
  <1>8. ToDo(i)'
    BY <1>2, <1>11, <1>12, <1>13 DEF NewsInv, IssueOK, ToDo, DeskAt
  <1>9. Remaining(i)'
    BY <1>1, <1>2, <1>3 DEF NewsInv, IssueOK, Remaining, DeskBecomes, DeskAt, LetterBecomes
  <1>10. Reached(i)'
    BY <1>2, <1>3 DEF NewsInv, IssueOK, Reached, ToDo, LetterBecomes
  <1>. QED BY <1>6, <1>7, <1>8, <1>9, <1>10 DEF IssueOK

\* Somebody subscribes or unsubscribes, which an issue not yet created does not see.
LEMMA SubscriberStep ==
    ASSUME NewsInv, NEW p \in People, Subscribe(p) \/ Unsubscribe(p)
    PROVE  NewsTypeOK' /\ \A j \in Issues : IssueOK(j)'
  <1>1. NewsTypeOK'
    <2>1. \A i \in Issues : askedFor'[i] \in SUBSET People
      <3>1. ASSUME NEW i \in Issues PROVE askedFor'[i] \in {{}, askedFor[i], askedFor[i] \cup {p}}
        BY DEF Subscribe, Unsubscribe, NewsInv, NewsTypeOK
      <3>2. \A i \in Issues : askedFor[i] \in SUBSET People
        BY DEF NewsInv, NewsTypeOK
      <3>. QED BY <3>1, <3>2
    <2>2. askedFor' \in [Issues -> SUBSET People]
      BY <2>1 DEF Subscribe, Unsubscribe, NewsInv, NewsTypeOK
    <2>3. subscriber' \in [People -> {"none", "subscribed", "unsubscribed"}]
      BY DEF Subscribe, Unsubscribe, NewsInv, NewsTypeOK
    <2>. QED BY <2>2, <2>3 DEF Subscribe, Unsubscribe, NewsInv, NewsTypeOK
  <1>2. ASSUME NEW j \in Issues PROVE IssueOK(j)'
    <2>1. issue[j] = "none" \/ askedFor[j] \subseteq askedFor'[j]
      BY DEF Subscribe, Unsubscribe, NewsInv, NewsTypeOK
    <2>2. /\ issue'[j] = issue[j] /\ desk'[j] = desk[j] /\ recipient'[j] = recipient[j]
          /\ letters'[j] = letters[j] /\ lost' = lost
      BY DEF Subscribe, Unsubscribe
    <2>3. CASE issue[j] = "none"
      BY <2>2, <2>3 DEF NewsInv, IssueOK, InStep, ToDo, Remaining, Reached, Unwritten, DeskAt, NoDesk
    <2>4. CASE askedFor[j] \subseteq askedFor'[j]
      BY <2>2, <2>4, IssueUntouched, NewsAssumption DEF NewsInv, NewsTypeOK
    <2>. QED BY <2>1, <2>3, <2>4
  <1>. QED BY <1>1, <1>2

LEMMA EverybodyNoticed == NewsInv /\ NewsNext => Noticed'
  <1>. SUFFICES ASSUME NewsInv, NewsNext, NEW j \in Issues, issue'[j] # "none"
                PROVE  Subscribed' \subseteq askedFor'[j]
    BY DEF Noticed
  <1>. USE DEF NewsInv, NewsTypeOK, Noticed
  <1>1. ASSUME NEW p \in People, Subscribe(p)
        PROVE  Subscribed' \subseteq askedFor'[j]
    <2>1. Subscribed' \subseteq Subscribed \cup {p}
      BY <1>1 DEF Subscribe, Subscribed
    <2>2. askedFor'[j] = askedFor[j] \cup {p} /\ issue[j] # "none"
      BY <1>1 DEF Subscribe
    <2>. QED BY <2>1, <2>2
  <1>2. ASSUME NEW p \in People, Unsubscribe(p)
        PROVE  Subscribed' \subseteq askedFor'[j]
    BY <1>2 DEF Unsubscribe, Subscribed
  <1>3. ASSUME NEW i \in Issues, CreateIssue(i)
        PROVE  Subscribed' \subseteq askedFor'[j]
    <2>1. Subscribed' = Subscribed
      BY <1>3 DEF CreateIssue, Subscribed
    <2>. QED BY <1>3, <2>1 DEF CreateIssue
  <1>4. ASSUME NEW i \in Issues, MarkSending(i) \/ CloseIssue(i)
        PROVE  Subscribed' \subseteq askedFor'[j]
    <2>1. issue[i] # "none"
      BY <1>4 DEF MarkSending, CloseIssue, IssueOK, InStep, Unwritten, NoDesk, DeskAt
    <2>. QED BY <1>4, <2>1 DEF MarkSending, CloseIssue, Subscribed
  <1>5. ASSUME UNCHANGED <<subscriber, issue, askedFor>>
        PROVE  Subscribed' \subseteq askedFor'[j]
    BY <1>5 DEF Subscribed
  <1>6. ASSUME NEW i \in Issues,
               \/ QueueRecipients(i) \/ SelectRecipients(i) \/ DeskEnds(i)
               \/ \E p \in People : SendLetter(i, p) \/ RecordLetter(i, p) \/ RecordLetterThrows(i, p)
        PROVE  UNCHANGED <<subscriber, issue, askedFor>>
    BY <1>6 DEF QueueRecipients, SelectRecipients, DeskEnds, SendLetter, RecordLetter, RecordLetterThrows
  <1>. QED BY <1>1, <1>2, <1>3, <1>4, <1>5, <1>6 DEF NewsNext

LEMMA NewsInductive == NewsInv /\ [NewsNext]_newsVars => NewsInv'
  <1>. SUFFICES ASSUME NewsInv, [NewsNext]_newsVars PROVE NewsInv'
    OBVIOUS
  <1>1. CASE UNCHANGED newsVars
    BY <1>1 DEF NewsInv, NewsTypeOK, Noticed, Subscribed, IssueOK, InStep, ToDo, Remaining, Reached, Unwritten, DeskAt
  <1>2. ASSUME NEW i \in Issues, OnlyIssue(i), IssueOK(i)', Noticed' PROVE NewsInv'
    <2>1. ASSUME NEW j \in Issues \ {i} PROVE IssueOK(j)'
      BY <1>2, IssueUntouched, NewsAssumption DEF OnlyIssue, NewsTypeOK
    <2>. QED BY <1>2, <2>1 DEF NewsInv, OnlyIssue
  <1>3. CASE NewsNext
    BY <1>2, <1>3, EverybodyNoticed, SubscriberStep, CreateStep, QueueIssueStep, SelectPeopleStep, MarkIssueStep, CloseStep, EndStep, LetterStep,
       RecordStep, ThrowStep DEF NewsNext, NewsInv
  <1>. QED BY <1>1, <1>3

\* No issue reaches anybody twice, or somebody who never asked for it.
THEOREM IssuesAreAccounted == NewsSpec => []NewsletterIsAccounted
  <1>. QED BY NewsInitially, NewsInductive, NewsInvImplies, PTL DEF NewsSpec

-----------------------------------------------------------------------------
(* The worker                                                                *)

\* Each focus is a behaviour of its component, while the others rest.
LEMMA WorkerStep ==
    [WorkerNext]_allVars =>
        /\ [Next]_vars /\ [OutboxNext]_outboxVars /\ [StudioNext]_studioVars
        /\ [OutreachNext]_outreachVars /\ [JobsNext]_jobVars /\ [SocialNext]_socialVars
        /\ [NewsNext]_newsVars
BY DEF WorkerNext, allVars, Archive, Outbox, Studio, Outreach, Queueing, Social, News,
       ArchiveStory, OutboxStory, StudioStory

WorkerInv ==
    /\ Typed /\ OutboxInv /\ StudioInv /\ OutreachInv /\ JobsInv /\ SocialInv /\ NewsInv

\* Whichever of the worker's parts is at work, every table and process of all of them holds what
\* the code can write there.
THEOREM WorkerTypeCorrect == WorkerSpec => []WorkerTypeOK
  <1>1. WorkerInit => WorkerInv
    BY TypedInit, OutboxInitially, StudioInitial, OutreachInitial, JobsInitially, SocialInitially,
       NewsInitially DEF WorkerInit, WorkerInv
  <1>2. WorkerInv /\ [WorkerNext]_allVars => WorkerInv'
    BY WorkerStep, TypedNext, OutboxInductive, StudioSteps, OutreachSteps, JobsInductive,
       SocialInductive, NewsInductive DEF WorkerInv
  <1>3. WorkerInv => WorkerTypeOK
    BY DEF WorkerInv, WorkerTypeOK, Typed, OutboxInv, StudioInv, OutreachInv, JobsInv, JobsTyped, SocialInv,
           NewsInv
  <1>. QED BY <1>1, <1>2, <1>3, PTL DEF WorkerSpec
=============================================================================
