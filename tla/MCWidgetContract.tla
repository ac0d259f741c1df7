-------------------------- MODULE MCWidgetContract --------------------------
(***************************************************************************)
(* Instances of WidgetContract: a yearly and a monthly order of one buyer,   *)
(* of which MaxSubscriptions are completed.                                  *)
(***************************************************************************)
EXTENDS WidgetContract, TLC

CONSTANTS yearly, monthwise

BothOrders == {yearly, monthwise}
OrderInterval == [o \in BothOrders |-> IF o = yearly THEN "annual" ELSE "monthly"]
FormsSentAtOnce == [o \in BothOrders |-> 0]
MonthwiseFirst == [o \in BothOrders |-> IF o = yearly THEN 1 ELSE 0]

ContractIdentities == Permutations(Schedules) \cup Permutations(Webhooks)
=============================================================================
