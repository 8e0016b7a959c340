------------------------------- MODULE Offline -------------------------------
(***************************************************************************)
(* The offline pipeline: the resolver with the scripted agent of           *)
(* core/llm_client.py in place of the LLM, and the gate of evals/runner.py *)
(* over what it did.  The script looks at its own messages, which hold the *)
(* calls made so far and their results, and proposes the next call; it     *)
(* never fails and never just talks, so the loop ends with a terminal      *)
(* tool or with an exception.                                              *)
(***************************************************************************)
EXTENDS Resolver

CONSTANTS
  Requests,        \* what tickets may be about
  WarrantyOrders,  \* orders whose product has warranty_months > 0
  FallbackAmount   \* what is asked for an order whose amount is 0

Categories == {"refund", "cancellation", "return", "delivery_status",
               "warranty", "exchange", "general_inquiry"}

\* `named' is the order id the reader found in the body, `owned' the first
\* order of the customer.
Request == [category: Categories, named: OrderArgs, owned: Orders \cup {NoOrder}]

ASSUME OfflineAssumption ==
  /\ Requests \subseteq Request
  /\ WarrantyOrders \subseteq Orders
  /\ FallbackAmount \in Nat

VARIABLE request  \* what each ticket is about

offlineVars == <<vars, request>>

\* The mock classifier is sure of what it found a keyword for.
TriageConfidence(category) == IF category = "general_inquiry" THEN 5500 ELSE 9000

OfflineInit ==
  /\ ResolverInit
  /\ request \in [Tickets -> Requests]
  /\ confidence = [t \in Tickets |-> TriageConfidence(request[t].category)]

-----------------------------------------------------------------------------
(* The script.                                                             *)

\* _scan_history: calls proposed so far, whatever became of them.
Called(t) == {audit[t][i].tool : i \in DOMAIN audit[t]}

OrderOf(t) ==
  IF request[t].named # NoOrder THEN request[t].named
  ELSE IF Did(audit[t], "get_customer") THEN request[t].owned
  ELSE NoOrder

\* What the check said: the message holds what TicketState holds.
FoundEligible(t) ==
  /\ Did(audit[t], "check_refund_eligibility")
  /\ elig[t][OrderOf(t)].eligible

FoundWarranty(t) ==
  /\ Did(audit[t], "check_refund_eligibility")
  /\ OrderOf(t) \in WarrantyOrders \ AlreadyRefunded
  /\ OrderTerms[OrderOf(t)] = "expired"

\* The steps of the script that apply to ticket t by now.
Wanted(t) ==
  {"get_customer", "search_knowledge_base", "send_reply"}
  \cup {tool \in {"get_order"} : OrderOf(t) # NoOrder}
  \cup {tool \in {"check_refund_eligibility"} :
          /\ OrderOf(t) # NoOrder
          /\ request[t].category \in {"refund", "cancellation", "return"}}
  \cup {tool \in {"issue_refund"} : /\ request[t].category = "refund"
                                    /\ OrderOf(t) # NoOrder
                                    /\ FoundEligible(t)}
  \cup {tool \in {"escalate"} : \/ request[t].category = "warranty"
                                \/ FoundWarranty(t)}

\* Mutant: the customer is answered before the refund.
ScriptReplyFirst ==
  <<"get_customer", "get_order", "search_knowledge_base",
    "check_refund_eligibility", "escalate", "send_reply", "issue_refund">>

\* Mutant: a ticket that names its order starts with the order.
ScriptOrderFirst ==
  <<"get_order", "get_customer", "search_knowledge_base",
    "check_refund_eligibility", "issue_refund", "escalate", "send_reply">>

Script == <<"get_customer", "get_order", "search_knowledge_base",
            "check_refund_eligibility", "issue_refund", "escalate",
            "send_reply">>

FirstStep(open) ==
  Script[CHOOSE i \in DOMAIN Script :
           Script[i] \in open /\ \A j \in 1..(i - 1) : Script[j] \notin open]

\* Mutant: only what worked counts as called.
NextToolRetrying(t) == FirstStep({tool \in Wanted(t) : ~ Did(audit[t], tool)})

\* The first step that applies and was not taken; terminal tools always may.
NextTool(t) ==
  FirstStep({tool \in Wanted(t) : tool \in TerminalTools \/ tool \notin Called(t)})

AmountAsked(o) == IF OrderAmount[o] = 0 THEN FallbackAmount ELSE OrderAmount[o]

ScriptedCall(t) ==
  LET tool == NextTool(t) IN
  [tool |-> tool,
   order |-> IF tool \in {"get_order", "check_refund_eligibility", "issue_refund"}
             THEN OrderOf(t) ELSE NoOrder,
   amount |-> IF tool = "issue_refund" THEN AmountAsked(OrderOf(t)) ELSE NotNumber,
   args |-> "good"]

-----------------------------------------------------------------------------

\* One call per message.
MockCalls(t) ==
  /\ AskLlm(t)
  /\ recorded[t] + 1 <= MaxCalls
  /\ left' = [left EXCEPT ![t] = 1]
  /\ phase' = [phase EXCEPT ![t] = "batch"]
  /\ UNCHANGED <<guardVars, tally, audit, actions, report>>

MakeScriptedCall(t) ==
  /\ phase[t] = "batch"
  /\ pc[t] = "idle"
  /\ \E c \in {ScriptedCall(t)} \cap Calls :
       Allow(t, c) \/ Deny(t, c) \/ Defer(t, c)
  /\ UNCHANGED loopVars

OfflineStep(t) ==
  /\ \/ MockCalls(t)
     \/ IterationsExhausted(t)
     \/ MakeScriptedCall(t)
     \/ Continue(t) /\ UNCHANGED loopVars
     \/ AfterCall(t)
     \/ RecordActionFails(t)
     \/ Finish(t)
  /\ UNCHANGED request

OfflineNext == \E t \in Tickets : OfflineStep(t)

OfflineSpec == OfflineInit /\ [][OfflineNext]_offlineVars

-----------------------------------------------------------------------------
(* The gate of the evaluation harness.                                     *)

\* tool_sequence_valid: the customer first, no refund without a check.
ToolSequenceValid(trail) ==
  /\ trail # << >> => trail[1].tool = "get_customer"
  /\ SafetyViolations(trail) = 0

\* build_scorecard's hard gates: at least 80% of the tickets answered, at
\* least 90% of the sequences valid, no safety violation.  Left out is the
\* floor on the classification's F1, which no thread can influence.
GatePasses ==
  /\ 100 * Cardinality({t \in Tickets : report[t].status \in {"resolved", "escalated"}})
       >= 80 * Cardinality(Tickets)
  /\ 100 * Cardinality({t \in Tickets : ToolSequenceValid(audit[t])})
       >= 90 * Cardinality(Tickets)
  /\ \A t \in Tickets : SafetyViolations(audit[t]) = 0

-----------------------------------------------------------------------------
(* What must hold.                                                         *)

\* A ticket the script handled looked the customer up first, took no step
\* twice although steps may have failed, and ended with its one reply or its
\* one escalation, well before the loop's bound.
ScriptEnds ==
  \A t \in Tickets : phase[t] = "finished" =>
    LET trail == audit[t] IN
    /\ trail # << >> /\ trail[1].tool = "get_customer"
    /\ Cardinality(Called(t)) = Len(trail)
    /\ \A i \in DOMAIN trail : trail[i].tool \in TerminalTools <=> i = Len(trail)

\* Who asks for a refund that is owed gets it, from this ticket or from
\* another one about the same order, or it waits for a human; unless a call
\* of the ticket failed.
RefundDelivered ==
  \A t \in Tickets :
    /\ phase[t] = "finished"
    /\ request[t].category = "refund"
    /\ OrderOf(t) \in Orders /\ Ledger!Refundable(OrderOf(t))
    /\ \A i \in DOMAIN audit[t] : ~ HasError(audit[t][i].result)
    => \/ OrderOf(t) \in refunded
       \/ \E i \in DOMAIN hitl : hitl[i].ticket = t /\ hitl[i].order = OrderOf(t)

\* runner.py:29-30 "these must hold regardless of model quality": when every
\* ticket went through and every answer went out, the gate passes, whatever
\* the tickets are about and however they interleave.  GatePasses leaves out
\* the floor for triage (runner.py:134) and the run of no tickets (line 82).
GateHolds ==
  /\ \A t \in Tickets :
       /\ phase[t] = "finished"
       /\ \A i \in DOMAIN audit[t] :
            audit[t][i].tool \in TerminalTools => ~ HasError(audit[t][i].result)
  => GatePasses
=============================================================================
