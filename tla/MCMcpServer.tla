---------------------------- MODULE MCMcpServer ----------------------------
(***************************************************************************)
(* One session with a small and a large order and any series of calls.     *)
(***************************************************************************)
EXTENDS McpServer, TLC

CONSTANTS session, small, large, unknown

MCSessions == {session}
MCSessionId == [s \in MCSessions |-> s]
MCOrders == {small, large}
MCOrderIds == {small, large, unknown}
MCTerms == (small :> "processing") @@ (large :> "in_window")
MCAmount == (small :> 100) @@ (large :> 300)

MCCall(tool, order, amount, args) ==
  [tool |-> tool, order |-> order, amount |-> amount, args |-> args]

MCCalls ==
  { MCCall("get_order", unknown, NotNumber, "good"),
    MCCall("get_product", NoOrder, NotNumber, "good"),
    MCCall("check_refund_eligibility", small, NotNumber, "good"),
    MCCall("check_refund_eligibility", large, NotNumber, "good"),
    MCCall("check_refund_eligibility", unknown, NotNumber, "good"),
    MCCall("issue_refund", small, 100, "good"),
    MCCall("issue_refund", small, 150, "good"),
    MCCall("issue_refund", large, 300, "good"),
    MCCall("issue_refund", large, 120, "good"),
    MCCall("issue_refund", unknown, 100, "good"),
    MCCall("send_reply", NoOrder, NotNumber, "bad"),
    MCCall("send_reply", NoOrder, NotNumber, "good"),
    MCCall("escalate", NoOrder, NotNumber, "good") }
=============================================================================
