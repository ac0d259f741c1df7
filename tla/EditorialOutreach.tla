------------------------- MODULE EditorialOutreach -------------------------
(***************************************************************************)
(* Outreach to sports publishers: research stores prospects and drafts, the  *)
(* cockpit and the command line review and send them, and a trigger guards   *)
(* the sending.  Reading what exists and inserting a draft are two steps,    *)
(* because two jobs can look before either inserts; the other transactions   *)
(* hold the draft's row and are one step each.  A prospect has one contact.  *)
(***************************************************************************)
EXTENDS Naturals, FiniteSets

CONSTANTS
    Prospects,
    Drafts,       \* ids of rows of editorial_outreach_drafts
    Researchers,  \* research jobs and backfill commands that can overlap
    Senders,      \* requests and jobs that send
    NoProspect,
    MaxLapses,    \* requests to the mail provider that fail or whose answer is lost
    MaxBreaks     \* errors in an error handler, and processes that end

ASSUME NoProspectAssumption == NoProspect \notin Prospects
ASSUME LapsesAssumption == MaxLapses \in Nat /\ MaxBreaks \in Nat

VARIABLES
    prospect,   \* editorial_prospects: status, consent, suppression
    draft,      \* editorial_outreach_drafts: prospect, status, approval
    delivered,  \* whether the mail provider has taken the draft, by its idempotency key
    researcher, sender,
    lapses, breaks

outreachVars == <<prospect, draft, delivered, researcher, sender, lapses, breaks>>
mailStates == {"pending_review", "approved", "sending", "sent"}

NoDraftRow == [of |-> NoProspect, status |-> "none", approved |-> FALSE]
Unemployed == [at |-> "idle", of |-> NoProspect]

OutreachInit ==
    /\ prospect = [p \in Prospects |-> [status |-> "none", consent |-> "unknown",
                                        suppressed |-> FALSE]]
    /\ draft = [d \in Drafts |-> NoDraftRow]
    /\ delivered = [d \in Drafts |-> FALSE]
    /\ researcher = [r \in Researchers |-> Unemployed]
    /\ sender = [q \in Senders |-> [at |-> "idle", draft |-> {}]]
    /\ lapses = 0 /\ breaks = 0

DraftsOf(p) == {d \in Drafts : draft[d].of = p}
Covered(p) == \E d \in DraftsOf(p) : draft[d].status \in mailStates
Undisturbed == UNCHANGED <<lapses, breaks>>

-----------------------------------------------------------------------------
(* Research.                                                                 *)

\* storePublisher: an existing prospect keeps its status, its consent and its suppression.
StorePublisher(r, p) ==
    /\ researcher[r].at = "idle"
    /\ prospect' = [prospect EXCEPT ![p].status = IF @ = "none" THEN "pending_review" ELSE @]
    /\ researcher' = [researcher EXCEPT ![r] = [at |-> "look", of |-> p]]
    /\ UNCHANGED <<draft, delivered, sender>> /\ Undisturbed

\* storeDraft's "not exists", after the text was written.
LookForDraft(r) ==
    /\ researcher[r].at = "look"
    /\ researcher' = [researcher EXCEPT ![r] =
                        IF Covered(@.of) THEN Unemployed ELSE [@ EXCEPT !.at = "insert"]]
    /\ UNCHANGED <<prospect, draft, delivered, sender>> /\ Undisturbed

\* The backfill command takes unreviewed prospects that are not suppressed.
SelectForBackfill(r, p) ==
    /\ researcher[r].at = "idle"
    /\ prospect[p].status = "pending_review" /\ ~prospect[p].suppressed /\ ~Covered(p)
    /\ researcher' = [researcher EXCEPT ![r] = [at |-> "insert", of |-> p]]
    /\ UNCHANGED <<prospect, draft, delivered, sender>> /\ Undisturbed

\* A research job may end without a draft.
InsertDraft(r, d) ==
    /\ researcher[r].at = "insert" /\ draft[d].status = "none"
    /\ draft' = [draft EXCEPT ![d] = [of |-> researcher[r].of, status |-> "pending_review",
                                      approved |-> FALSE]]
    /\ researcher' = [researcher EXCEPT ![r] = Unemployed]
    /\ UNCHANGED <<prospect, delivered, sender>> /\ Undisturbed

StopResearch(r) ==
    /\ researcher[r].at # "idle"
    /\ researcher' = [researcher EXCEPT ![r] = Unemployed]
    /\ UNCHANGED <<prospect, draft, delivered, sender>> /\ Undisturbed

-----------------------------------------------------------------------------
(* Review.                                                                   *)

\* Mutant: a new text keeps the approval.
EditedKeepsApproval(d) == [draft[d] EXCEPT !.status = "approved"]

Edited(d) == [of |-> draft[d].of, status |-> "pending_review", approved |-> FALSE]

UpdateDraft(d) ==
    /\ draft[d].status \in {"pending_review", "approved", "failed"}
    /\ draft' = [draft EXCEPT ![d] = Edited(d)]
    /\ UNCHANGED <<prospect, delivered, researcher, sender>> /\ Undisturbed

\* Mutant: a suppressed prospect can be approved.
AnyProspect(p) == prospect[p].status # "none"

Contactable(p) == ~prospect[p].suppressed

ApproveDraft(d) ==
    /\ draft[d].status = "pending_review"
    /\ LET p == draft[d].of
       IN /\ Contactable(p)
          /\ prospect' = [prospect EXCEPT ![p].consent = "given", ![p].status = "qualified"]
    /\ draft' = [draft EXCEPT ![d].status = "approved", ![d].approved = TRUE]
    /\ UNCHANGED <<delivered, researcher, sender>> /\ Undisturbed

\* Mutant: only the drafts under review are rejected.
RejectPending(p) ==
    draft' = [d \in Drafts |-> IF draft[d].of = p /\ draft[d].status = "pending_review"
                               THEN [draft[d] EXCEPT !.status = "rejected"] ELSE draft[d]]

RejectDrafts(p) ==
    draft' = [d \in Drafts |-> IF draft[d].of = p /\ draft[d].status \notin {"sent", "sending"}
                               THEN [draft[d] EXCEPT !.status = "rejected"] ELSE draft[d]]

RejectProspect(p) ==
    /\ prospect[p].status # "none"
    /\ prospect' = [prospect EXCEPT ![p].status = "rejected"]
    /\ RejectDrafts(p)
    /\ UNCHANGED <<delivered, researcher, sender>> /\ Undisturbed

SuppressProspect(p) ==
    /\ prospect[p].status # "none"
    /\ prospect' = [prospect EXCEPT ![p] = [status |-> "rejected", consent |-> "declined",
                                            suppressed |-> TRUE]]
    /\ RejectDrafts(p)
    /\ UNCHANGED <<delivered, researcher, sender>> /\ Undisturbed

-----------------------------------------------------------------------------
(* Sending one draft.                                                        *)

\* Mutant: a draft that failed is sent again without review.
ClaimableFailed(d) == draft[d].status \in {"approved", "failed", "sending"}

Claimable(d) == draft[d].status = "approved"

\* claimOutreachDraftForSend; the trigger looks at the same conditions again.
Claim(q, d) ==
    /\ sender[q].at = "idle"
    /\ Claimable(d) /\ draft[d].approved
    /\ prospect[draft[d].of].consent = "given" /\ ~prospect[draft[d].of].suppressed
    /\ draft' = [draft EXCEPT ![d].status = "sending"]
    /\ sender' = [sender EXCEPT ![q] = [at |-> "send", draft |-> {d}]]
    /\ UNCHANGED <<prospect, delivered, researcher>> /\ Undisturbed

\* The provider accepts a repeated key without sending the mail again.
Deliver(q, d) ==
    /\ sender[q].at = "send" /\ sender[q].draft = {d}
    /\ \/ /\ delivered' = [delivered EXCEPT ![d] = TRUE]
          /\ sender' = [sender EXCEPT ![q].at = "sent"]
          /\ Undisturbed
       \/ /\ lapses < MaxLapses /\ lapses' = lapses + 1
          /\ UNCHANGED breaks
          /\ delivered' = [delivered EXCEPT ![d] = TRUE] \/ UNCHANGED delivered
          /\ sender' = [sender EXCEPT ![q].at = "failed"]
    /\ UNCHANGED <<prospect, draft, researcher>>

RecordOutcome(q, d) ==
    /\ sender[q].at \in {"sent", "failed"} /\ sender[q].draft = {d}
    /\ draft' = [draft EXCEPT ![d].status = IF @ = "sending" THEN sender[q].at ELSE @]
    /\ sender' = [sender EXCEPT ![q] = [at |-> "idle", draft |-> {}]]
    /\ UNCHANGED <<prospect, delivered, researcher>> /\ Undisturbed

\* Setting the row to 'sent' throws: the catch block records a failure.
RecordingThrows(q) ==
    /\ sender[q].at = "sent"
    /\ lapses < MaxLapses /\ lapses' = lapses + 1
    /\ sender' = [sender EXCEPT ![q].at = "failed"]
    /\ UNCHANGED <<prospect, draft, delivered, researcher, breaks>>

\* The catch block throws, or the process ends.
SenderBreaks(q) ==
    /\ sender[q].at # "idle"
    /\ breaks < MaxBreaks /\ breaks' = breaks + 1
    /\ sender' = [sender EXCEPT ![q] = [at |-> "idle", draft |-> {}]]
    /\ UNCHANGED <<prospect, draft, delivered, researcher, lapses>>

OutreachNext ==
    \/ \E r \in Researchers : \/ \E p \in Prospects : StorePublisher(r, p) \/ SelectForBackfill(r, p)
                              \/ LookForDraft(r) \/ StopResearch(r)
                              \/ \E d \in Drafts : InsertDraft(r, d)
    \/ \E d \in Drafts : UpdateDraft(d) \/ ApproveDraft(d)
    \/ \E p \in Prospects : RejectProspect(p) \/ SuppressProspect(p)
    \/ \E q \in Senders : \/ \E d \in Drafts : Claim(q, d) \/ Deliver(q, d) \/ RecordOutcome(q, d)
                          \/ RecordingThrows(q) \/ SenderBreaks(q)

OutreachSpec == OutreachInit /\ [][OutreachNext]_outreachVars

-----------------------------------------------------------------------------
(* Properties                                                                *)

\* Every row and process holds what the code can write there.
OutreachTypeOK ==
    /\ prospect \in [Prospects -> [status : {"none", "pending_review", "qualified", "rejected"},
                                   consent : {"unknown", "given", "declined"},
                                   suppressed : BOOLEAN]]
    /\ draft \in [Drafts -> [of : Prospects \cup {NoProspect},
                             status : mailStates \cup {"none", "failed", "rejected"},
                             approved : BOOLEAN]]
    /\ delivered \in [Drafts -> BOOLEAN]
    /\ researcher \in [Researchers -> [at : {"idle", "look", "insert"},
                                       of : Prospects \cup {NoProspect}]]
    /\ sender \in [Senders -> [at : {"idle", "send", "sent", "failed"}, draft : SUBSET Drafts]]
    /\ lapses \in 0..MaxLapses /\ breaks \in 0..MaxBreaks

\* However research, review, suppression and sending interleave, an approved draft belongs to
\* a prospect that has given consent and is not suppressed, and only a suppression after the
\* claim lets a draft be on its way without.
ApprovedIsAllowed ==
    \A d \in Drafts :
        /\ draft[d].status = "approved" =>
              /\ draft[d].approved /\ prospect[draft[d].of].consent = "given"
              /\ ~prospect[draft[d].of].suppressed
        /\ draft[d].status = "sending" =>
              /\ draft[d].approved
              /\ prospect[draft[d].of].consent = "given" \/ prospect[draft[d].of].suppressed

\* No two senders work on a draft, and one that is 'sending' without a sender was left there
\* by a process that ended.
SendingIsHeld ==
    /\ \A q1, q2 \in Senders : q1 # q2 => sender[q1].draft \cap sender[q2].draft = {}
    /\ breaks = 0 => \A d \in Drafts :
                        draft[d].status = "sending" <=> \E q \in Senders : d \in sender[q].draft
=============================================================================
