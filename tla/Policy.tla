------------------------------- MODULE Policy -------------------------------
(***************************************************************************)
(* The deterministic policy layer: the six rules of policy/rules.py and    *)
(* PolicyEngine.evaluate (policy/engine.py).  Everything here is a         *)
(* constant operator: a verdict depends only on the proposed call, on what *)
(* the ticket's state knows about the order, and on the triage confidence. *)
(*                                                                         *)
(* Money is counted in cents and confidence in ten-thousandths, so that a  *)
(* confidence may lie between two of the thousandths it is rounded to.  An *)
(* amount is what `_f' makes of the argument: an integer, NotNumber where  *)
(* `_f' returns None, or NaN, which json.loads accepts and float() keeps.  *)
(***************************************************************************)
EXTENDS Integers

CONSTANTS
  OrderIds,               \* order ids a tool call may name, known or not
  NoOrder,                \* a missing or empty order_id argument
  NaN,                    \* float('nan')
  NotNumber,              \* `_f' returns None: missing or unparsable
  NoCheck,                \* eligibility_result returns None
  RefundHitlThreshold,    \* REFUND_HITL_THRESHOLD, in cents
  AmountTolerance,        \* AMOUNT_TOLERANCE, in cents
  LowConfidenceThreshold  \* LOW_CONFIDENCE_THRESHOLD, likewise

Amounts == Int \cup {NaN, NotNumber}
OrderArgs == OrderIds \cup {NoOrder}
Verdicts == {"allow", "deny", "require_human"}

\* What the latest successful eligibility check said about an order.
Eligibility == [eligible: BOOLEAN, amount: Amounts]

ASSUME PolicyAssumption ==
  /\ NoOrder \notin OrderIds
  /\ NaN \notin Int
  /\ NotNumber \notin Int
  /\ NaN # NotNumber
  /\ NoCheck \notin Eligibility
  /\ RefundHitlThreshold \in Nat
  /\ AmountTolerance \in Nat
  /\ LowConfidenceThreshold \in Nat

\* Python's float comparison: every comparison with a NaN is false.
FGreater(x, y) == /\ x \in Int
                  /\ y \in Int
                  /\ x > y

-----------------------------------------------------------------------------
(* The rules.  Each is true when the rule objects to call c; elig is the   *)
(* ticket's eligibility map, conf its classification confidence.           *)

IrreversibleTools == {"issue_refund"}

\* Mutant: only a missing order id is refused, an unchecked order is not.
RefundRequiresOrderId(c, elig) ==
  /\ c.tool = "issue_refund"
  /\ c.order = NoOrder

RefundRequiresEligibility(c, elig) ==
  /\ c.tool = "issue_refund"
  /\ c.order = NoOrder \/ elig[c.order] = NoCheck

RefundMustBeEligible(c, elig) ==
  /\ c.tool = "issue_refund"
  /\ c.order # NoOrder
  /\ elig[c.order] # NoCheck
  /\ ~ elig[c.order].eligible

RefundAmountWithinEligible(c, elig) ==
  /\ c.tool = "issue_refund"
  /\ c.order # NoOrder
  /\ elig[c.order] # NoCheck
  /\ elig[c.order].amount \in Int
  /\ FGreater(c.amount, elig[c.order].amount + AmountTolerance)

RefundAmountPositive(c) ==
  /\ c.tool = "issue_refund"
  /\ c.amount = NotNumber \/ FGreater(1, c.amount)

LargeRefundNeedsHuman(c) ==
  /\ c.tool = "issue_refund"
  /\ FGreater(c.amount, RefundHitlThreshold)

LowConfidenceBlocksIrreversible(c, conf) ==
  /\ c.tool \in IrreversibleTools
  /\ conf < LowConfidenceThreshold

-----------------------------------------------------------------------------
(* PolicyEngine.evaluate: every rule runs and the strongest objection      *)
(* wins, DENY over REQUIRE_HUMAN over ALLOW.                               *)

\* Mutant: the rule on the amount is missing from the list of rules.
DeniedWhateverAmount(c, elig) ==
  \/ RefundRequiresEligibility(c, elig)
  \/ RefundMustBeEligible(c, elig)
  \/ RefundAmountPositive(c)

Denied(c, elig) ==
  \/ RefundRequiresEligibility(c, elig)
  \/ RefundMustBeEligible(c, elig)
  \/ RefundAmountWithinEligible(c, elig)
  \/ RefundAmountPositive(c)

NeedsHuman(c, conf) ==
  \/ LargeRefundNeedsHuman(c)
  \/ LowConfidenceBlocksIrreversible(c, conf)

\* Mutant: the first gate that objects wins, a hard rule only after it.
EvaluateGatesFirst(c, elig, conf) ==
  IF NeedsHuman(c, conf) THEN "require_human"
  ELSE IF Denied(c, elig) THEN "deny"
  ELSE "allow"

Evaluate(c, elig, conf) ==
  IF Denied(c, elig) THEN "deny"
  ELSE IF NeedsHuman(c, conf) THEN "require_human"
  ELSE "allow"

\* What the amount rules amount to together: a number is positive and
\* bounded, a NaN passes every comparison.
AmountCleared(amount, allowed) ==
  /\ amount # NotNumber
  /\ ~ FGreater(1, amount)
  /\ ~ FGreater(amount, allowed + AmountTolerance)
=============================================================================
