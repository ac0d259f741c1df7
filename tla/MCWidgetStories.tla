-------------------------- MODULE MCWidgetStories --------------------------
(***************************************************************************)
(* Four stories of WidgetBilling in one instance.                            *)
(***************************************************************************)
EXTENDS MCWidgetBilling

CONSTANTS l4, i4

\* Four stories of the same database, told one at a time: "payment", a payment reported by two
\* event objects with every fault of the webhook, or beside a pause without faults; "life", the
\* checkout and recovery of a subscription, with a finalization and a debit that may fail,
\* beside the cockpit; "shared", a buyer of two plans, who ends the first subscription, and a colleague
\* who orders for the first domain; "manual", a subscription without a direct plan.

FourLeads == {l1, l2, l3, l4}
FourInvoices == {i1, i2, i3, i4}
FourEmails == [l \in FourLeads |-> CASE l = l3 -> "colleague" [] l = l4 -> "publisher" [] OTHER -> "buyer"]
FourDomains == [l \in FourLeads |-> CASE l = l2 -> "othersite" [] l = l4 -> "paper" [] OTHER -> "site"]
FourPlans == [l \in FourLeads |-> CASE l = l2 -> "growth" [] l = l4 -> "enterprise" [] OTHER -> "starter"]
FourInvoiceLead ==
    [i \in FourInvoices |-> CASE i = i1 -> l1 [] i = i2 -> l2 [] i = i3 -> l3 [] OTHER -> l4]

EventsOf == [payment |-> {Paid(i1, l1), PaidAgain(i1, l1), Updated(l1, "paused")},
             life    |-> {Checkout(l1), Unfinalized(i1, l1), Finalized(i1, l1), Unpaid(i1, l1),
                          Paid(i1, l1), Updated(l1, "past_due")},
             shared  |-> {Paid(i1, l1), Paid(i2, l2), Paid(i3, l3), Deleted(l1)},
             manual  |-> {Settled(l4), Paid(i4, l4), Unpaid(i4, l4)}]
FaultsOf == [payment |-> Faults \ {"stage"}, life |-> {"stage"}, shared |-> {"error"},
             manual |-> {"error", "stage"}]
LeadsOf == [payment |-> {l1}, life |-> {l1}, shared |-> {l1, l2, l3}, manual |-> {l4}]
KeysOf == [payment |-> 3, life |-> 3, shared |-> 5, manual |-> 0]

StoryEvents == UNION {EventsOf[s] : s \in DOMAIN EventsOf}
StoryFaults == Only(Faults)

\* A story begins with the faults that do not belong to it spent.
Spent(s) == [f \in Faults |-> IF f \in FaultsOf[s] THEN 0 ELSE 1]

StoryInit == \/ StartWith({l1}, {i1}, Spent("payment"))
             \/ StartWith({}, {}, Spent("life"))
             \/ StartWith({l1, l2, l3}, {i1, i2, i3}, Spent("shared"))
             \/ StartWith({l4}, {i4}, Spent("manual"))
StorySpec == StoryInit /\ [][Next]_vars

\* What a behaviour starts with tells its story, and goes on telling it.
Story == IF subscription[l3] # "none" THEN "shared"
         ELSE IF subscription[l4] # "none" THEN "manual"
         ELSE IF subscription[l1] = "none" \/ Checkout(l1) \in emitted THEN "life" ELSE "payment"

\* The steps that belong to it.
Told ==
    /\ emitted' \subseteq EventsOf[Story]
    /\ \A l \in Leads \ LeadsOf[Story] : leadStatus'[l] = leadStatus[l]
    /\ Updated(l1, "paused") \in emitted' => faults' = Spent("payment")
    /\ Cardinality(issued') <= KeysOf[Story]
=============================================================================
