----------------------------- MODULE MCRestart -----------------------------
(***************************************************************************)
(* One ticket about one order, and a process that dies once.               *)
(***************************************************************************)
EXTENDS Restart, TLC

CONSTANTS t1, order

MCTickets == {t1}
MCTicketId == [t \in MCTickets |-> t]
MCOrders == {order}
MCTerms == order :> "in_window"
MCAmount == order :> 100

MCCall(tool, o, amount) ==
  [tool |-> tool, order |-> o, amount |-> amount, args |-> "good"]

MCCalls ==
  { MCCall("check_refund_eligibility", order, NotNumber),
    MCCall("issue_refund", order, 100),
    MCCall("send_reply", NoOrder, NotNumber) }
=============================================================================
