---------------------------- MODULE RefundLedger ----------------------------
(***************************************************************************)
(* What the system promises about money, with no tickets, tools, locks or  *)
(* retries: a ledger of refunds in which every order is paid back at most  *)
(* once, only if the shop's terms allow a refund of that order, and never  *)
(* for more than the order was worth or than may be paid without a human.  *)
(***************************************************************************)
EXTENDS Integers, Sequences

CONSTANTS
  Orders,           \* the orders of orders.json
  OrderTerms,       \* terms of each order on the simulated date
  OrderAmount,      \* what the customer paid, in cents
  AlreadyRefunded,  \* orders whose refund_status is "refunded" in the data
  Amounts,          \* amounts a refund may be asked for
  HumanLimit,       \* most that is paid without a human
  Slack             \* rounding slack on the amount

VARIABLE ledger     \* sequence of [order, amount]

\* An order still being processed can be cancelled for a full refund; a
\* delivered one is refundable within its window unless non-returnable.
Refundable(o) == o \in Orders /\ OrderTerms[o] \in {"processing", "in_window"}

Payable(o, amount) ==
  /\ amount \in Int
  /\ amount > 0
  /\ amount <= OrderAmount[o] + Slack
  /\ amount <= HumanLimit

Paid(o) == \/ o \in AlreadyRefunded
           \/ \E i \in DOMAIN ledger : ledger[i].order = o

Pay(o, amount) ==
  /\ Refundable(o)
  /\ Payable(o, amount)
  /\ ~ Paid(o)
  /\ ledger' = Append(ledger, [order |-> o, amount |-> amount])

Init == ledger = << >>

Next == \E o \in Orders, amount \in Amounts : Pay(o, amount)

Spec == Init /\ [][Next]_ledger
=============================================================================
