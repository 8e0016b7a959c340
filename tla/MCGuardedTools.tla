--------------------------- MODULE MCGuardedTools ---------------------------
(***************************************************************************)
(* Two threads that process one ticket at once and compete for the same    *)
(* orders: a small one that may be refunded automatically, one above the   *)
(* auto-approval limit, and one that the shop's data says was refunded     *)
(* before the run began.                                                   *)
(***************************************************************************)
EXTENDS GuardedTools, TLC

CONSTANTS t1, t2, id, small, large, repaid, unknown

MCTickets == {t1, t2}
MCTicketIds == {id}
MCTicketId == [t \in MCTickets |-> id]
MCOrders == {small, large, repaid}
MCOrderIds == {small, large, repaid, unknown}
MCRepaid == {repaid}
MCTerms == (small :> "processing") @@ (large :> "in_window")
             @@ (repaid :> "in_window")
MCAmount == (small :> 100) @@ (large :> 300) @@ (repaid :> 100)

MCCall(tool, order, amount, args) ==
  [tool |-> tool, order |-> order, amount |-> amount, args |-> args]

MCCalls ==
  { MCCall("check_refund_eligibility", small, NotNumber, "good"),
    MCCall("check_refund_eligibility", large, NotNumber, "good"),
    MCCall("issue_refund", small, 100, "good"),
    MCCall("issue_refund", small, 150, "good"),
    MCCall("issue_refund", large, 300, "good"),
    MCCall("issue_refund", repaid, 100, "good"),
    MCCall("issue_refund", NoOrder, NotNumber, "unusable") }

\* The amount is the token NaN, which json.loads and float() both accept.
MCNaNCalls ==
  { MCCall("check_refund_eligibility", small, NotNumber, "good"),
    MCCall("issue_refund", small, NaN, "good") }
=============================================================================
