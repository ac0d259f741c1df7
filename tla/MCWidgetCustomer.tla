-------------------------- MODULE MCWidgetCustomer --------------------------
(***************************************************************************)
(* Instances of WidgetAccount and WidgetContract.  The two describe          *)
(* different columns of a customer's row and share no variable, so a         *)
(* behaviour exercises one of them.                                         *)
(***************************************************************************)
EXTENDS WidgetAccount, MCWidgetContract

CONSTANTS site1, site2

VARIABLE focus

StarterSites == [p \in {"starter"} |-> 2]
StarterItems == [p \in {"starter"} |-> 1]
StarterOrder == {<<"starter", site1>>}

CustomerInit == focus \in {"account", "contract"} /\ AccountInit /\ ContractInit
CustomerNext ==
    \/ focus = "account" /\ AccountNext /\ UNCHANGED <<contractVars, focus>>
    \/ focus = "contract" /\ ContractNext /\ UNCHANGED <<accountVars, focus>>
CustomerSpec == CustomerInit /\ [][CustomerNext]_<<accountVars, contractVars, focus>>

Identities == Permutations(Visits) \cup Permutations(PublisherKeys) \cup ContractIdentities
=============================================================================
