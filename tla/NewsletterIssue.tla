-------------------------- MODULE NewsletterIssue --------------------------
(***************************************************************************)
(* Newsletter campaigns: a request creates a campaign, queues its           *)
(* recipients, and sends to one after the other, while people subscribe     *)
(* and unsubscribe.  A campaign is the work of the request that created it. *)
(***************************************************************************)
EXTENDS Naturals, FiniteSets

CONSTANTS
    Issues,  \* newsletter_campaigns, one per request
    People,  \* addresses
    MaxLost  \* failing calls and statements, lost answers and ends of processes

ASSUME NewsAssumption == MaxLost \in Nat

VARIABLES
    subscriber, \* newsletter_subscribers.status
    issue,      \* newsletter_campaigns.status
    recipient,  \* newsletter_campaign_recipients.status
    letters,    \* how often the mail provider took the issue for a person
    desk,       \* what the issue's request is doing
    askedFor,   \* who was subscribed at some time since the issue was created
    lost

newsVars == <<subscriber, issue, recipient, letters, desk, askedFor, lost>>

NoDesk == [at |-> "done", todo |-> {}, now |-> {}, outcome |-> "none", failed |-> FALSE]

NewsInit ==
    /\ subscriber = [p \in People |-> "none"]
    /\ issue = [i \in Issues |-> "none"]
    /\ recipient = [i \in Issues |-> [p \in People |-> "none"]]
    /\ letters = [i \in Issues |-> [p \in People |-> 0]]
    /\ desk = [i \in Issues |-> NoDesk]
    /\ askedFor = [i \in Issues |-> {}]
    /\ lost = 0

Lose == lost < MaxLost /\ lost' = lost + 1
DeskAt(i, step) == desk[i].at = step
NextAt(i, step) == desk' = [desk EXCEPT ![i].at = step]
Leave(i) == desk' = [desk EXCEPT ![i] = NoDesk]
Subscribed == {p \in People : subscriber[p] = "subscribed"}

-----------------------------------------------------------------------------

\* upsertNewsletterSubscriber
Subscribe(p) ==
    /\ subscriber' = [subscriber EXCEPT ![p] = "subscribed"]
    /\ askedFor' = [i \in Issues |-> IF issue[i] = "none" THEN {} ELSE askedFor[i] \cup {p}]
    /\ UNCHANGED <<issue, recipient, letters, desk, lost>>

Unsubscribe(p) ==
    /\ subscriber[p] # "none"
    /\ subscriber' = [subscriber EXCEPT ![p] = "unsubscribed"]
    /\ UNCHANGED <<issue, recipient, letters, desk, askedFor, lost>>

CreateIssue(i) ==
    /\ issue[i] = "none"
    /\ issue' = [issue EXCEPT ![i] = "queued"]
    /\ NextAt(i, "queue")
    /\ askedFor' = [askedFor EXCEPT ![i] = Subscribed]
    /\ UNCHANGED <<subscriber, recipient, letters, lost>>

\* Mutant: whoever has unsubscribed is kept on the list.
Everyone == {p \in People : subscriber[p] # "none"}

Addressees == Subscribed

QueueRecipients(i) ==
    /\ DeskAt(i, "queue")
    /\ recipient' = [recipient EXCEPT ![i] = [p \in People |-> IF p \in Addressees THEN "queued" ELSE @[p]]]
    /\ NextAt(i, "select")
    /\ UNCHANGED <<subscriber, issue, letters, askedFor, lost>>

\* A dry run, or a server without a mail provider, ends here.
SelectRecipients(i) ==
    /\ DeskAt(i, "select")
    /\ \/ desk' = [desk EXCEPT ![i].at = "sending", ![i].todo = {p \in People : recipient[i][p] = "queued"}]
       \/ Leave(i)
    /\ UNCHANGED <<subscriber, issue, recipient, letters, askedFor, lost>>

MarkSending(i) ==
    /\ DeskAt(i, "sending")
    /\ issue' = [issue EXCEPT ![i] = "sending"]
    /\ NextAt(i, "loop")
    /\ UNCHANGED <<subscriber, recipient, letters, askedFor, lost>>

\* The provider takes the letter and answers, or the call throws.
SendLetter(i, p) ==
    /\ DeskAt(i, "loop") /\ p \in desk[i].todo
    /\ \E taken \in {0, 1}, answered \in BOOLEAN :
          /\ answered => taken = 1
          /\ letters' = [letters EXCEPT ![i][p] = @ + taken]
          /\ desk' = [desk EXCEPT ![i].at = "mark", ![i].todo = @ \ {p}, ![i].now = {p},
                                  ![i].outcome = IF answered THEN "sent" ELSE "failed"]
          /\ IF answered THEN UNCHANGED lost ELSE Lose
    /\ UNCHANGED <<subscriber, issue, recipient, askedFor>>

\* markNewsletterRecipientSent and markNewsletterRecipientFailed
RecordLetter(i, p) ==
    /\ DeskAt(i, "mark") /\ p \in desk[i].now
    /\ recipient' = [recipient EXCEPT ![i][p] = desk[i].outcome]
    /\ desk' = [desk EXCEPT ![i].at = "loop", ![i].now = {},
                            ![i].failed = @ \/ desk[i].outcome = "failed"]
    /\ UNCHANGED <<subscriber, issue, letters, askedFor, lost>>

\* Marking as sent throws, with or without effect, and the catch block marks as failed.
RecordLetterThrows(i, p) ==
    /\ DeskAt(i, "mark") /\ p \in desk[i].now /\ desk[i].outcome = "sent" /\ Lose
    /\ recipient' \in {recipient, [recipient EXCEPT ![i][p] = "sent"]}
    /\ desk' = [desk EXCEPT ![i].outcome = "failed"]
    /\ UNCHANGED <<subscriber, issue, letters, askedFor>>

CloseIssue(i) ==
    /\ DeskAt(i, "loop") /\ desk[i].todo = {}
    /\ issue' = [issue EXCEPT ![i] = IF desk[i].failed THEN "failed" ELSE "sent"]
    /\ Leave(i)
    /\ UNCHANGED <<subscriber, recipient, letters, askedFor, lost>>

\* The process ends, or a statement outside the try block throws.
DeskEnds(i) ==
    /\ ~DeskAt(i, "done") /\ Lose /\ Leave(i)
    /\ UNCHANGED <<subscriber, issue, recipient, letters, askedFor>>

NewsNext ==
    \/ \E p \in People : Subscribe(p) \/ Unsubscribe(p)
    \/ \E i \in Issues :
          \/ CreateIssue(i) \/ QueueRecipients(i) \/ SelectRecipients(i) \/ MarkSending(i)
          \/ CloseIssue(i) \/ DeskEnds(i)
          \/ \E p \in People : SendLetter(i, p) \/ RecordLetter(i, p) \/ RecordLetterThrows(i, p)

NewsSpec == NewsInit /\ [][NewsNext]_newsVars

-----------------------------------------------------------------------------
(* Properties                                                                *)

\* Every row and request holds what the code can write there.
NewsTypeOK ==
    /\ subscriber \in [People -> {"none", "subscribed", "unsubscribed"}]
    /\ issue \in [Issues -> {"none", "queued", "sending", "sent", "failed"}]
    /\ recipient \in [Issues -> [People -> {"none", "queued", "sent", "failed"}]]
    /\ letters \in [Issues -> [People -> Nat]]
    /\ desk \in [Issues -> [at : {"done", "queue", "select", "sending", "loop", "mark"},
                            todo : SUBSET People, now : SUBSET People,
                            outcome : {"none", "sent", "failed"}, failed : BOOLEAN]]
    /\ askedFor \in [Issues -> SUBSET People] /\ lost \in 0..MaxLost

\* Whatever fails, nobody gets an issue twice, or without having been subscribed since it was
\* created; an issue shown as sent has reached all its recipients; and only a request that ended
\* early leaves one 'sending'.
NewsletterIsAccounted ==
    \A i \in Issues :
        /\ \A p \in People :
              /\ letters[i][p] <= IF p \in askedFor[i] THEN 1 ELSE 0
              /\ recipient[i][p] = "sent" => letters[i][p] = 1
              /\ issue[i] = "sent" => recipient[i][p] \in {"none", "sent"}
        /\ issue[i] = "sending" => ~DeskAt(i, "done") \/ lost > 0
=============================================================================
