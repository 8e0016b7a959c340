----------------------------- MODULE MCResolver -----------------------------
(***************************************************************************)
(* Constants for the resolver's runs: one ticket of any confidence that    *)
(* makes a series of calls about one order.                                *)
(***************************************************************************)
EXTENDS Telemetry, TLC

CONSTANTS t1, order

MCOneTicket == {t1}
MCTicketId == [t \in MCOneTicket |-> t]
MCOrders == {order}
MCTerms == order :> "in_window"
MCAmount == order :> 300

MCCall(tool, o, amount, args) ==
  [tool |-> tool, order |-> o, amount |-> amount, args |-> args]

\* A partial refund may be automatic, the full one is for a human.
MCCheck == MCCall("check_refund_eligibility", order, NotNumber, "good")
MCSmallRefund == MCCall("issue_refund", order, 100, "good")
MCFullRefund == MCCall("issue_refund", order, 300, "good")
MCReply == MCCall("send_reply", NoOrder, NotNumber, "good")
MCEscalate == MCCall("escalate", NoOrder, NotNumber, "good")
MCBadEscalate == MCCall("escalate", NoOrder, NotNumber, "bad")
MCGetOrder == MCCall("get_order", order, NotNumber, "good")

MCManyCalls ==
  { MCCheck, MCSmallRefund, MCFullRefund, MCReply, MCEscalate,
    MCCall("issue_refund", NoOrder, NotNumber, "unusable"),
    MCBadEscalate }

\* Nothing, or a run that looked for the order and then lost the LLM.
MCPastTraces ==
  { << >>,
    << [name |-> "tool.call", tool |-> "get_order", verdict |-> "allow",
        status |-> "ok", by |-> NoTicket],
       [name |-> "agent.resolver.llm", tool |-> "none", verdict |-> "none",
        status |-> "error", by |-> NoTicket] >> }

MCLookupCalls == {MCGetOrder, MCCheck, MCSmallRefund, MCReply}
=============================================================================
