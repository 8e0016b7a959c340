-------------------------- MODULE McpServerProofs --------------------------
(***************************************************************************)
(* Proofs about McpServer for any orders, any calls and any number of      *)
(* them: a session is a ticket of GuardedTools, hence all that is proved   *)
(* of the guard holds of it.                                               *)
(***************************************************************************)
EXTENDS McpServer, GuardedToolsProofs

\* A read that never meets the engine would have been allowed by it.
LEMMA ReadsAreAllowed ==
  ASSUME NEW c \in Offered, CallRead(c)
  PROVE  Allow(Session, c)
  <1>1. c.tool # "issue_refund"
    BY DEF CallRead, WriteTools
  <1>2. Verdict(Session, c) = "allow"
    BY <1>1, OtherToolsAllowed DEF Verdict
  <1>3. QED
    BY <1>2 DEF CallRead, Allow, Offered

\* Every step of the server is a step of the guarded tools.
LEMMA McpStepIsGuarded ==
  ASSUME McpNext
  PROVE  Next
  <1>1. Session \in Tickets
    BY SessionAssumption
  <1>2. ASSUME NEW c \in Offered, CallRead(c) \/ CallWrite(c)
        PROVE  Step(Session)
    <2>1. c \in Calls
      BY DEF Offered
    <2>2. Guard(Session, c)
      BY <1>2, ReadsAreAllowed DEF CallWrite, Guard
    <2>3. QED
      BY <2>1, <2>2 DEF Step
  <1>3. CASE Continue(Session) \/ TakeResult(Session)
    BY <1>1, <1>3 DEF Step, Next
  <1>4. QED
    BY <1>1, <1>2, <1>3 DEF McpNext, Next

\* The docstring's claim: whichever tools a client calls in whichever order,
\* a session is a behaviour of the guarded tools, reads included.
THEOREM SessionIsATicket == McpSpec => IdenticalGuardrails
<1>1. [McpNext]_guardVars => [Next]_guardVars
  BY McpStepIsGuarded
<1>2. QED
  BY <1>1, PTL DEF McpSpec, IdenticalGuardrails, Spec

\* Hence no order is refunded twice in a session ...
THEOREM SessionNoDoubleRefund == McpSpec => []RefundsMatchOrders
  BY SessionIsATicket, NoDoubleRefund, PTL DEF IdenticalGuardrails

\* ... and each refund was owed, checked in the same session, and small enough
\* to need no human, as long as no amount is NaN.
THEOREM SessionRefundsVetted ==
  ASSUME NumbersOnly
  PROVE  McpSpec => []RefundsAuthorised
<1>1. Spec => []RefundsAuthorised
  BY RefundsVetted
<1>2. QED
  BY <1>1, SessionIsATicket, PTL DEF IdenticalGuardrails
=============================================================================
