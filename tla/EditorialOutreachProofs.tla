----------------------- MODULE EditorialOutreachProofs -----------------------
(***************************************************************************)
(* EditorialOutreach: types, consent, and who works on a draft, for any      *)
(* number of prospects, drafts, research jobs and senders.                   *)
(***************************************************************************)
EXTENDS EditorialOutreach, TLAPS

USE DEF outreachVars

-----------------------------------------------------------------------------
(* The inductive invariant                                                   *)

\* A draft and a researcher at work know a prospect.
OutreachRows ==
    /\ \A d \in Drafts : draft[d].status # "none" => draft[d].of \in Prospects
    /\ \A r \in Researchers : researcher[r].at # "idle" => researcher[r].of \in Prospects

\* A sender that is not idle holds one draft, which is 'sending' and nobody else's.
Held ==
    /\ \A q \in Senders : sender[q].at = "idle" <=> sender[q].draft = {}
    /\ \A q \in Senders, d \in Drafts :
          d \in sender[q].draft => sender[q].draft = {d} /\ draft[d].status = "sending"
    /\ \A q1, q2 \in Senders : q1 # q2 => sender[q1].draft \cap sender[q2].draft = {}

\* A draft that is 'sending' without a sender: its sender ended.
Orphaned ==
    breaks = 0 => \A d \in Drafts :
                     draft[d].status = "sending" => \E q \in Senders : d \in sender[q].draft

OutreachInv == OutreachTypeOK /\ OutreachRows /\ Held /\ Orphaned /\ ApprovedIsAllowed

LEMMA OutreachInitial == OutreachInit => OutreachInv
BY NoProspectAssumption, LapsesAssumption
DEF OutreachInit, OutreachInv, OutreachTypeOK, OutreachRows, Held, Orphaned, ApprovedIsAllowed,
    NoDraftRow, Unemployed, mailStates

-----------------------------------------------------------------------------
(* Steps                                                                     *)

DraftRow == [of : Prospects \cup {NoProspect}, status : mailStates \cup {"none", "failed", "rejected"},
             approved : BOOLEAN]

\* Updating one column of a row.
LEMMA RowUpdates ==
    ASSUME NEW row \in DraftRow
    PROVE  /\ row = [of |-> row.of, status |-> row.status, approved |-> row.approved]
           /\ \A s \in mailStates \cup {"none", "failed", "rejected"} :
                 /\ [row EXCEPT !.status = s] \in DraftRow
                 /\ [row EXCEPT !.status = s].of = row.of
                 /\ [row EXCEPT !.status = s].status = s
                 /\ [row EXCEPT !.status = s].approved = row.approved
  <1>1. row = [of |-> row.of, status |-> row.status, approved |-> row.approved]
    BY DEF DraftRow
  <1>2. ASSUME NEW s \in mailStates \cup {"none", "failed", "rejected"}
        PROVE  [row EXCEPT !.status = s] = [of |-> row.of, status |-> s, approved |-> row.approved]
    BY <1>1
  <1>3. row.of \in Prospects \cup {NoProspect} /\ row.approved \in BOOLEAN
    BY DEF DraftRow
  <1>. QED BY <1>1, <1>2, <1>3 DEF DraftRow

\* Research touches no draft but a new one, and neither consent nor suppression.
LEMMA ResearchKeeps ==
    ASSUME OutreachInv, NEW r \in Researchers,
           \/ \E p \in Prospects : StorePublisher(r, p) \/ SelectForBackfill(r, p)
           \/ LookForDraft(r) \/ StopResearch(r)
           \/ \E d \in Drafts : InsertDraft(r, d)
    PROVE  OutreachInv'
  <1>. USE DEF OutreachInv, OutreachTypeOK, OutreachRows, Held, Orphaned, ApprovedIsAllowed,
               Undisturbed, Unemployed
  <1>1. ASSUME NEW p \in Prospects, StorePublisher(r, p)
        PROVE  OutreachInv'
    BY <1>1 DEF StorePublisher
  <1>2. ASSUME NEW p \in Prospects, SelectForBackfill(r, p)
        PROVE  OutreachInv'
    BY <1>2 DEF SelectForBackfill
  <1>3. CASE LookForDraft(r)
    BY <1>3 DEF LookForDraft
  <1>4. CASE StopResearch(r)
    BY <1>4 DEF StopResearch
  <1>5. ASSUME NEW d \in Drafts, InsertDraft(r, d)
        PROVE  OutreachInv'
    BY <1>5 DEF InsertDraft, mailStates
  <1>. QED BY <1>1, <1>2, <1>3, <1>4, <1>5

\* Review leaves a draft that is 'sending' alone, and approves only with consent.
LEMMA ReviewKeeps ==
    ASSUME OutreachInv,
           \/ \E d \in Drafts : UpdateDraft(d) \/ ApproveDraft(d)
           \/ \E p \in Prospects : RejectProspect(p) \/ SuppressProspect(p)
    PROVE  OutreachInv'
  <1>. USE DEF OutreachInv, OutreachTypeOK, OutreachRows, Held, Orphaned, ApprovedIsAllowed,
               Undisturbed, mailStates
  <1>1. ASSUME NEW d \in Drafts, UpdateDraft(d)
        PROVE  OutreachInv'
    <2>1. draft[d] \in DraftRow
      BY DEF DraftRow
    <2>2. draft' = [draft EXCEPT ![d] = [of |-> draft[d].of, status |-> "pending_review",
                                         approved |-> FALSE]]
      BY <1>1 DEF UpdateDraft, Edited
    <2>3. UNCHANGED <<prospect, delivered, researcher, sender, lapses, breaks>>
          /\ draft[d].status \in {"pending_review", "approved", "failed"}
      BY <1>1 DEF UpdateDraft
    <2>4. OutreachTypeOK' /\ OutreachRows'
      BY <2>1, <2>2, <2>3 DEF DraftRow
    <2>5. Held' /\ Orphaned'
      BY <2>1, <2>2, <2>3 DEF DraftRow
    <2>. QED BY <2>2, <2>3, <2>4, <2>5
  <1>2. ASSUME NEW d \in Drafts, ApproveDraft(d)
        PROVE  OutreachInv'
    BY <1>2 DEF ApproveDraft, Contactable
  <1>3. ASSUME NEW p \in Prospects, RejectProspect(p)
        PROVE  OutreachInv'
    <2>1. OutreachTypeOK'
      <3>1. \A d \in Drafts : draft'[d] \in DraftRow
        BY <1>3, RowUpdates DEF RejectProspect, RejectDrafts, DraftRow
      <3>2. draft' \in [Drafts -> DraftRow]
        BY <1>3, <3>1 DEF RejectProspect, RejectDrafts
      <3>. QED BY <1>3, <3>2 DEF RejectProspect, DraftRow
    <2>2. OutreachRows'
      BY <1>3 DEF RejectProspect, RejectDrafts
    <2>3. Held'
      BY <1>3 DEF RejectProspect, RejectDrafts
    <2>4. Orphaned'
      BY <1>3 DEF RejectProspect, RejectDrafts
    <2>5. ApprovedIsAllowed'
      BY <1>3 DEF RejectProspect, RejectDrafts
    <2>. QED BY <2>1, <2>2, <2>3, <2>4, <2>5 DEF OutreachInv
  <1>4. ASSUME NEW p \in Prospects, SuppressProspect(p)
        PROVE  OutreachInv'
    BY <1>4 DEF SuppressProspect, RejectDrafts
  <1>. QED BY <1>1, <1>2, <1>3, <1>4

\* A claim finds the draft approved, hence in no sender's hands; the other steps concern the
\* draft in the sender's own.
LEMMA SendingKeeps ==
    ASSUME OutreachInv, NEW q \in Senders,
           \/ \E d \in Drafts : Claim(q, d) \/ Deliver(q, d) \/ RecordOutcome(q, d)
           \/ RecordingThrows(q) \/ SenderBreaks(q)
    PROVE  OutreachInv'
  <1>. USE DEF OutreachInv, OutreachTypeOK, OutreachRows, Held, Orphaned, ApprovedIsAllowed,
               Undisturbed, mailStates
  <1>1. ASSUME NEW d \in Drafts, Claim(q, d)
        PROVE  OutreachInv'
    <2>1. OutreachTypeOK'
      <3>1. draft[d] \in DraftRow
        BY DEF DraftRow
      <3>2. draft' \in [Drafts -> DraftRow]
        BY <1>1, <3>1, RowUpdates DEF Claim, DraftRow
      <3>3. sender' \in [Senders -> [at : {"idle", "send", "sent", "failed"}, draft : SUBSET Drafts]]
        BY <1>1 DEF Claim
      <3>. QED BY <1>1, <3>2, <3>3 DEF Claim, DraftRow
    <2>2. OutreachRows'
      BY <1>1 DEF Claim, Claimable
    <2>3. Held'
      BY <1>1 DEF Claim, Claimable
    <2>4. Orphaned'
      BY <1>1 DEF Claim, Claimable
    <2>5. ApprovedIsAllowed'
      BY <1>1 DEF Claim, Claimable
    <2>. QED BY <2>1, <2>2, <2>3, <2>4, <2>5 DEF OutreachInv
  <1>2. ASSUME NEW d \in Drafts, Deliver(q, d)
        PROVE  OutreachInv'
    <2>1. \E step \in {"sent", "failed"} : sender' = [sender EXCEPT ![q].at = step]
      BY <1>2 DEF Deliver
    <2>2. /\ sender' \in [Senders -> [at : {"idle", "send", "sent", "failed"}, draft : SUBSET Drafts]]
          /\ \A other \in Senders : sender'[other].draft = sender[other].draft
          /\ \A other \in Senders : sender'[other].at = "idle" <=> sender[other].at = "idle"
      BY <1>2, <2>1 DEF Deliver
    <2>3. UNCHANGED <<prospect, draft, researcher, breaks>> /\ lapses' \in 0..MaxLapses
      BY <1>2, LapsesAssumption DEF Deliver
    <2>4. delivered' \in [Drafts -> BOOLEAN]
      BY <1>2 DEF Deliver
    <2>5. OutreachTypeOK' /\ OutreachRows' /\ ApprovedIsAllowed'
      BY <2>2, <2>3, <2>4
    <2>6. Held'
      BY <2>2, <2>3
    <2>7. Orphaned'
      BY <2>2, <2>3
    <2>. QED BY <2>5, <2>6, <2>7
  <1>3. ASSUME NEW d \in Drafts, RecordOutcome(q, d)
        PROVE  OutreachInv'
    BY <1>3 DEF RecordOutcome
  <1>4. CASE RecordingThrows(q)
    BY <1>4, LapsesAssumption DEF RecordingThrows
  <1>5. CASE SenderBreaks(q)
    BY <1>5, LapsesAssumption DEF SenderBreaks
  <1>. QED BY <1>1, <1>2, <1>3, <1>4, <1>5

LEMMA OutreachSteps == OutreachInv /\ [OutreachNext]_outreachVars => OutreachInv'
  <1>. SUFFICES ASSUME OutreachInv, [OutreachNext]_outreachVars PROVE OutreachInv'
    OBVIOUS
  <1>1. CASE UNCHANGED outreachVars
    BY <1>1 DEF OutreachInv, OutreachTypeOK, OutreachRows, Held, Orphaned, ApprovedIsAllowed
  <1>2. CASE OutreachNext
    BY <1>2, ResearchKeeps, ReviewKeeps, SendingKeeps DEF OutreachNext
  <1>. QED BY <1>1, <1>2

LEMMA OutreachInvariant == OutreachSpec => []OutreachInv
  <1>. QED BY OutreachInitial, OutreachSteps, PTL DEF OutreachSpec

-----------------------------------------------------------------------------
(* What it implies                                                           *)

\* Every row and process of the outreach holds what the code can write there.
THEOREM OutreachTypes == OutreachSpec => []OutreachTypeOK
  <1>1. OutreachInv => OutreachTypeOK BY DEF OutreachInv
  <1>. QED BY <1>1, OutreachInvariant, PTL

\* claimOutreachDraftForSend, the review routes and the trigger: an approved draft's prospect has
\* consented and is not suppressed, and a draft on its way was approved.
THEOREM ApprovalNeedsConsent == OutreachSpec => []ApprovedIsAllowed
  <1>1. OutreachInv => ApprovedIsAllowed BY DEF OutreachInv
  <1>. QED BY <1>1, OutreachInvariant, PTL

\* The claim's status guard makes the sender of a draft unique, and nothing but the end of a
\* process leaves a draft 'sending' without one.
THEOREM ClaimsAreExclusive == OutreachSpec => []SendingIsHeld
  <1>1. OutreachInv => SendingIsHeld
    BY DEF OutreachInv, Held, Orphaned, SendingIsHeld
  <1>. QED BY <1>1, OutreachInvariant, PTL
=============================================================================
