------------------------------ MODULE MCOffline ------------------------------
(***************************************************************************)
(* Two tickets, of the kinds that take different ways through the script:  *)
(* a small and a large refund, a refund of an expired order under warranty *)
(* and of a free one, a customer whose order is only known from his record *)
(* and one who names an unknown order.                                     *)
(***************************************************************************)
EXTENDS Offline, TLC

CONSTANTS t1, t2, small, large, old, free, unknown

MCTickets == {t1, t2}
MCTicketId == [t \in MCTickets |-> t]
MCOrders == {small, large, old, free}
MCOrderIds == {small, large, old, free, unknown}
MCTerms == (small :> "in_window") @@ (large :> "processing")
             @@ (old :> "expired") @@ (free :> "in_window")
MCAmount == (small :> 100) @@ (large :> 300) @@ (old :> 100) @@ (free :> 0)

MCRequest(category, named, owned) ==
  [category |-> category, named |-> named, owned |-> owned]

MCRequests ==
  { MCRequest("refund", small, NoOrder),
    MCRequest("refund", NoOrder, small),
    MCRequest("refund", large, small),
    MCRequest("refund", free, free),
    MCRequest("return", old, old),
    MCRequest("warranty", NoOrder, NoOrder),
    MCRequest("general_inquiry", unknown, NoOrder) }

MCCall(tool, order, amount) ==
  [tool |-> tool, order |-> order, amount |-> amount, args |-> "good"]

MCCalls ==
  {MCCall(tool, NoOrder, NotNumber) :
     tool \in {"get_customer", "search_knowledge_base", "escalate", "send_reply"}}
  \cup {MCCall(tool, order, NotNumber) :
     tool \in {"get_order", "check_refund_eligibility"}, order \in MCOrderIds}
  \cup {MCCall("issue_refund", order, amount) :
     order \in MCOrders, amount \in {50, 100, 300}}

\* Tickets are alike, and the run checks no liveness property.
MCSymmetry == Permutations(MCTickets)
=============================================================================
