------------------------------ MODULE McpServer ------------------------------
(***************************************************************************)
(* The second front end (mcp_server/server.py): the same tools offered     *)
(* over the Model Context Protocol.  One process has one policy engine and *)
(* one TicketState that lasts as long as it runs; the protocol library     *)
(* calls the tools one after another and checks argument types before.     *)
(* Writes go through guard; reads skip it and are recorded afterwards.     *)
(***************************************************************************)
EXTENDS GuardedTools

CONSTANT Session  \* _state, the TicketState every call of the process shares

\* Nobody classified the session: TicketState's default confidence is 1.0.
ASSUME SessionAssumption == Tickets = {Session} /\ Confidences = {10000}

\* Mutant: refunds are taken for reads.
RepliesOnly == {"send_reply", "escalate"}

WriteTools == {"issue_refund", "send_reply", "escalate"}

\* The calls that reach _call: a tool that is offered, arguments of the types
\* its signature names (but perhaps empty or unknown to the tool).
Offered == {c \in Calls : c.tool \in ToolMap /\ c.args # "unusable"}

\* resilient_execute at once; no rule is evaluated.
CallRead(c) ==
  /\ c.tool \notin WriteTools
  /\ Propose(Session, c)
  /\ pc' = [pc EXCEPT ![Session] = "running"]
  /\ UNCHANGED <<confidence, elig, recorded, result, hitlLen, hitl,
                 moneyVars, mailVars>>

CallWrite(c) ==
  /\ c.tool \in WriteTools
  /\ Allow(Session, c) \/ Deny(Session, c) \/ Defer(Session, c)

McpNext ==
  \/ \E c \in Offered : CallRead(c) \/ CallWrite(c)
  \/ Continue(Session)
  \/ TakeResult(Session)

McpSpec == Init /\ [][McpNext]_guardVars

\* server.py:5-7 "any MCP client ... gets the identical guardrails": although
\* reads never meet the engine, the server is one ticket of GuardedTools, so
\* whatever holds of the guard holds of every session.
IdenticalGuardrails == Spec
=============================================================================
