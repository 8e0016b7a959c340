---------------------------- MODULE GuardedTools ----------------------------
(***************************************************************************)
(* PolicyEngine.guard and everything behind it, run by several tickets at  *)
(* once: the verdict (policy/engine.py), the human-in-the-loop queue       *)
(* (policy/hitl.py), the retry loop (tools/resilient.py), the tool bodies  *)
(* with the refund lock (tools/impls.py), and the per-ticket TicketState   *)
(* the rules read (core/schemas.py).                                       *)
(*                                                                         *)
(* `Tickets' are the processings of a ticket, each in a thread of a pool:  *)
(* two overlapping runs process one ticket id in two threads, so TicketId  *)
(* need not be injective.  Steps that touch only the thread's own state    *)
(* are merged with the shared read or write next to them; every access to  *)
(* shared state is a step of its own.                                      *)
(***************************************************************************)
EXTENDS Policy, Sequences, FiniteSets

CONSTANTS
  Tickets,          \* tickets being processed, one thread each
  TicketIds,        \* ids in tickets.json
  TicketId,         \* Ticket.ticket_id, per thread
  NoTicket,         \* nobody holds the refund lock
  Calls,            \* the tool calls the LLM may propose
  NoCall,           \* no call in progress
  Confidences,      \* triage confidences the classifier may report
  Orders,           \* ids in ORDERS
  OrderTerms,       \* what the terms say of each order (see RefundLedger)
  OrderAmount,      \* order["amount"], in cents
  AlreadyRefunded,  \* orders whose data says refund_status = "refunded"
  MaxRetries,       \* settings.tool_max_retries
  MaxCalls          \* bound: calls one ticket may make

ReadTools == {"get_order", "get_customer", "get_product",
              "search_knowledge_base"}

TerminalTools == {"send_reply", "escalate"}

ToolMap == ReadTools \cup TerminalTools
             \cup {"check_refund_eligibility", "issue_refund"}

Terms == {"processing", "shipped", "in_window", "final_sale", "expired"}

\* How the arguments decode.  "good": an object the tool accepts; "bad": an
\* object (or nothing) it answers with a clean error; "unusable": a value
\* the policy or the ticket's record cannot take, so that guard raises.
ArgKinds == {"good", "bad", "unusable"}

Call == [tool: ToolMap \cup {"unknown"}, order: OrderArgs,
         amount: Amounts, args: ArgKinds]

\* "blocked" and "error" results carry an "error" key, the others do not.
Results == {"none", "success", "error", "blocked", "pending"}

\* 0.0 .. 1.0, in the unit of LowConfidenceThreshold.
ConfidenceScale == {c \in Nat : c <= 10000}

ASSUME GuardAssumption ==
  /\ Calls \subseteq Call
  /\ NoCall \notin Call
  /\ NoTicket \notin Tickets
  /\ Orders \subseteq OrderIds
  /\ AlreadyRefunded \subseteq Orders
  /\ OrderTerms \in [Orders -> Terms]
  /\ OrderAmount \in [Orders -> Nat]
  /\ Confidences \subseteq ConfidenceScale
  /\ MaxRetries \in Nat
  /\ MaxCalls \in Nat

ASSUME TicketIdAssumption == TicketId \in [Tickets -> TicketIds]

VARIABLES
  confidence,  \* TicketState.classification_confidence, per ticket
  elig,        \* TicketState: latest successful eligibility check per order
  recorded,    \* TicketState: number of calls recorded
  pc,          \* where each ticket is inside guard
  call,        \* the call each ticket has in progress
  attempt,     \* retries used by that call
  result,      \* what guard returned
  hitlLen,     \* len(self._items) as enqueue read it, outside the lock
  hitl,        \* HITLQueue._items
  refunded,    \* orders whose refund_status is "refunded"
  refundLog,   \* refund_log; `by' is the ticket, kept for the properties
  refundLock,  \* holder of _refund_lock
  replies,     \* replies each ticket's thread has added to reply_log
  escalations  \* the same for escalation_log

ticketVars == <<confidence, elig, recorded, pc, call, attempt, result, hitlLen>>
moneyVars == <<refunded, refundLog, refundLock>>
mailVars == <<replies, escalations>>
guardVars == <<ticketVars, hitl, moneyVars, mailVars>>

PcValues == {"idle", "running", "enqueueing", "locked", "accepted", "marked",
             "returned", "crashed"}

\* `ticket' is the thread that queued the item, kept for the properties.
HitlItem == [id: TicketIds \X Nat, ticket: Tickets, order: OrderArgs,
             amount: Amounts]
RefundEntry == [order: OrderArgs, amount: Amounts, by: Tickets]

TypeOK ==
  /\ confidence \in [Tickets -> Confidences]
  /\ elig \in [Tickets -> [OrderArgs -> Eligibility \cup {NoCheck}]]
  /\ recorded \in [Tickets -> Nat]
  /\ pc \in [Tickets -> PcValues]
  /\ call \in [Tickets -> Calls \cup {NoCall}]
  /\ \A t \in Tickets : pc[t] \notin {"idle", "crashed"} => call[t] \in Calls
  /\ attempt \in [Tickets -> 0..MaxRetries]
  /\ result \in [Tickets -> Results]
  /\ hitlLen \in [Tickets -> Nat]
  /\ hitl \in Seq(HitlItem)
  /\ refunded \in SUBSET OrderArgs
  /\ refundLog \in Seq(RefundEntry)
  /\ refundLock \in Tickets \cup {NoTicket}
  /\ replies \in [Tickets -> Nat]
  /\ escalations \in [Tickets -> Nat]

Init ==
  /\ confidence \in [Tickets -> Confidences]
  /\ elig = [t \in Tickets |-> [o \in OrderArgs |-> NoCheck]]
  /\ recorded = [t \in Tickets |-> 0]
  /\ pc = [t \in Tickets |-> "idle"]
  /\ call = [t \in Tickets |-> NoCall]
  /\ attempt = [t \in Tickets |-> 0]
  /\ result = [t \in Tickets |-> "none"]
  /\ hitlLen = [t \in Tickets |-> 0]
  /\ hitl = << >>
  /\ refunded = AlreadyRefunded
  /\ refundLog = << >>
  /\ refundLock = NoTicket
  /\ replies = [t \in Tickets |-> 0]
  /\ escalations = [t \in Tickets |-> 0]

-----------------------------------------------------------------------------
(* guard: decide on call c and start acting on the verdict.                *)

Verdict(t, c) == Evaluate(c, elig[t], confidence[t])

\* guard returns r to its caller after recording the call in TicketState;
\* checked is the ticket's eligibility map after that record.
Return(t, r, checked) ==
  /\ pc' = [pc EXCEPT ![t] = "returned"]
  /\ result' = [result EXCEPT ![t] = r]
  /\ recorded' = [recorded EXCEPT ![t] = @ + 1]
  /\ elig' = [elig EXCEPT ![t] = checked]

Propose(t, c) ==
  /\ pc[t] = "idle"
  /\ recorded[t] < MaxCalls
  /\ call' = [call EXCEPT ![t] = c]
  /\ attempt' = [attempt EXCEPT ![t] = 0]

\* ALLOW: hand the call to resilient_execute.
Allow(t, c) ==
  /\ Propose(t, c)
  /\ c.args # "unusable"
  /\ Verdict(t, c) = "allow"
  /\ pc' = [pc EXCEPT ![t] = "running"]
  /\ UNCHANGED <<confidence, elig, recorded, result, hitlLen, hitl,
                 moneyVars, mailVars>>

\* DENY: record the policy error and return it without running the tool.
Deny(t, c) ==
  /\ Propose(t, c)
  /\ c.args # "unusable"
  /\ Verdict(t, c) = "deny"
  /\ Return(t, "blocked", elig[t])
  /\ UNCHANGED <<confidence, hitlLen, hitl, moneyVars, mailVars>>

\* REQUIRE_HUMAN: enqueue builds the item first, reading the queue's length
\* outside the queue's lock.
Defer(t, c) ==
  /\ Propose(t, c)
  /\ c.args # "unusable"
  /\ Verdict(t, c) = "require_human"
  /\ pc' = [pc EXCEPT ![t] = "enqueueing"]
  /\ hitlLen' = [hitlLen EXCEPT ![t] = Len(hitl)]
  /\ UNCHANGED <<confidence, elig, recorded, result, hitl,
                 moneyVars, mailVars>>

\* Mutant: the reference names the ticket and nothing else.
EnqueueWithTicketRef(t) ==
  /\ pc[t] = "enqueueing"
  /\ hitl' = Append(hitl, [id |-> <<TicketId[t], 1>>, ticket |-> t,
                           order |-> call[t].order, amount |-> call[t].amount])
  /\ Return(t, "pending", elig[t])
  /\ UNCHANGED <<confidence, call, attempt, hitlLen, moneyVars, mailVars>>

\* ... then appends it under the lock and records the deferral as not ok.
Enqueue(t) ==
  /\ pc[t] = "enqueueing"
  /\ hitl' = Append(hitl, [id |-> <<TicketId[t], hitlLen[t] + 1>>, ticket |-> t,
                           order |-> call[t].order, amount |-> call[t].amount])
  /\ Return(t, "pending", elig[t])
  /\ UNCHANGED <<confidence, call, attempt, hitlLen, moneyVars, mailVars>>

\* Arguments that are no JSON object, or an amount too large for float(): the
\* refund rules raise on a refund, ToolCallRecord on the call of a read tool.
GuardRaises(t, c) ==
  /\ Propose(t, c)
  /\ c.args = "unusable"
  /\ pc' = [pc EXCEPT ![t] = "crashed"]
  /\ UNCHANGED <<confidence, elig, recorded, result, hitlLen, hitl,
                 moneyVars, mailVars>>

-----------------------------------------------------------------------------
(* resilient_execute and execute_tool.                                     *)

\* The body of a tool starts only for a known tool and arguments that bind.
BodyRuns(t) == /\ pc[t] = "running"
               /\ call[t].tool \in ToolMap
               /\ call[t].args = "good"

\* Mutant: the retry loop never looks at its budget.
RetryForEver(t) ==
  /\ BodyRuns(t)
  /\ attempt' = [attempt EXCEPT ![t] = @ + 1]
  /\ UNCHANGED <<confidence, elig, recorded, pc, call, result, hitlLen, hitl,
                 moneyVars, mailVars>>

\* _maybe_fail raises before the body has any effect: the wrapper tries
\* again until the retry budget is spent ...
RetryAfterFailure(t) ==
  /\ BodyRuns(t)
  /\ attempt[t] < MaxRetries
  /\ attempt' = [attempt EXCEPT ![t] = @ + 1]
  /\ UNCHANGED <<confidence, elig, recorded, pc, call, result, hitlLen, hitl,
                 moneyVars, mailVars>>

\* ... and then returns the failure as an error result.
RetriesExhausted(t) ==
  /\ BodyRuns(t)
  /\ attempt[t] = MaxRetries
  /\ Return(t, "error", elig[t])
  /\ UNCHANGED <<confidence, call, attempt, hitlLen, hitl, moneyVars, mailVars>>

\* Unknown tool, or arguments the tool answers with a permanent error.
RejectCall(t) ==
  /\ pc[t] = "running"
  /\ call[t].tool = "unknown" \/ call[t].args = "bad"
  /\ Return(t, "error", elig[t])
  /\ UNCHANGED <<confidence, call, attempt, hitlLen, hitl, moneyVars, mailVars>>

\* get_order finds the orders of ORDERS; the other lookups may miss too.
RunReadTool(t) ==
  /\ BodyRuns(t)
  /\ call[t].tool \in ReadTools
  /\ \E r \in {"success", "error"} :
       /\ call[t].tool = "get_order" =>
            (r = "success" <=> call[t].order \in Orders)
       /\ Return(t, r, elig[t])
  /\ UNCHANGED <<confidence, call, attempt, hitlLen, hitl, moneyVars, mailVars>>

\* What check_refund_eligibility answers about an order id.
EligibilityOf(o) ==
  IF /\ o \in Orders
     /\ o \notin refunded
     /\ OrderTerms[o] \in {"processing", "in_window"}
  THEN [eligible |-> TRUE, amount |-> OrderAmount[o]]
  ELSE [eligible |-> FALSE, amount |-> NotNumber]

\* Reads refund_status without the refund lock.  An "ineligible" answer has
\* no "error" key, so it too replaces what the ticket knew of the order.
RunEligibilityCheck(t) ==
  /\ BodyRuns(t)
  /\ call[t].tool = "check_refund_eligibility"
  /\ Return(t, "success",
            [elig[t] EXCEPT ![call[t].order] = EligibilityOf(call[t].order)])
  /\ UNCHANGED <<confidence, call, attempt, hitlLen, hitl, moneyVars, mailVars>>

SendReply(t) ==
  /\ BodyRuns(t)
  /\ call[t].tool = "send_reply"
  /\ replies' = [replies EXCEPT ![t] = @ + 1]
  /\ Return(t, "success", elig[t])
  /\ UNCHANGED <<confidence, call, attempt, hitlLen, hitl, moneyVars,
                 escalations>>

Escalate(t) ==
  /\ BodyRuns(t)
  /\ call[t].tool = "escalate"
  /\ escalations' = [escalations EXCEPT ![t] = @ + 1]
  /\ Return(t, "success", elig[t])
  /\ UNCHANGED <<confidence, call, attempt, hitlLen, hitl, moneyVars, replies>>

-----------------------------------------------------------------------------
(* issue_refund, statement by statement.                                   *)

\* Mutant: issue_refund runs without the lock.
EnterUnlocked(t) ==
  /\ BodyRuns(t)
  /\ call[t].tool = "issue_refund"
  /\ refundLock' = t
  /\ pc' = [pc EXCEPT ![t] = "locked"]
  /\ UNCHANGED <<confidence, elig, recorded, call, attempt, result, hitlLen,
                 hitl, refunded, refundLog, mailVars>>

AcquireRefundLock(t) ==
  /\ BodyRuns(t)
  /\ call[t].tool = "issue_refund"
  /\ refundLock = NoTicket
  /\ refundLock' = t
  /\ pc' = [pc EXCEPT ![t] = "locked"]
  /\ UNCHANGED <<confidence, elig, recorded, call, attempt, result, hitlLen,
                 hitl, refunded, refundLog, mailVars>>

\* Mutant: refund_status is not looked at again under the lock.
MayRefundKnown(t) == call[t].order \in Orders

MayRefund(t) == call[t].order \in Orders \ refunded

\* Mutant: the early return keeps the lock.
RejectRefundLocked(t) ==
  /\ pc[t] = "locked"
  /\ ~ MayRefund(t)
  /\ Return(t, "error", elig[t])
  /\ UNCHANGED <<confidence, call, attempt, hitlLen, hitl, moneyVars, mailVars>>

\* Unknown or already refunded: an error result, and the lock is released.
RejectRefund(t) ==
  /\ pc[t] = "locked"
  /\ ~ MayRefund(t)
  /\ refundLock' = NoTicket
  /\ Return(t, "error", elig[t])
  /\ UNCHANGED <<confidence, call, attempt, hitlLen, hitl, refunded, refundLog,
                 mailVars>>

AcceptRefund(t) ==
  /\ pc[t] = "locked"
  /\ MayRefund(t)
  /\ pc' = [pc EXCEPT ![t] = "accepted"]
  /\ UNCHANGED <<confidence, elig, recorded, call, attempt, result, hitlLen,
                 hitl, moneyVars, mailVars>>

MarkRefunded(t) ==
  /\ pc[t] = "accepted"
  /\ refunded' = refunded \cup {call[t].order}
  /\ pc' = [pc EXCEPT ![t] = "marked"]
  /\ UNCHANGED <<confidence, elig, recorded, call, attempt, result, hitlLen,
                 hitl, refundLog, refundLock, mailVars>>

\* Mutant: the log entry of a marked order is lost.
LogRefundFails(t) ==
  /\ pc[t] = "marked"
  /\ refundLock' = NoTicket
  /\ Return(t, "error", elig[t])
  /\ UNCHANGED <<confidence, call, attempt, hitlLen, hitl, refunded, refundLog,
                 mailVars>>

\* Mutant: only the early returns release the lock.
LogRefundLocked(t) ==
  /\ pc[t] = "marked"
  /\ refundLog' = Append(refundLog, [order |-> call[t].order,
                                     amount |-> call[t].amount, by |-> t])
  /\ Return(t, "success", elig[t])
  /\ UNCHANGED <<confidence, call, attempt, hitlLen, hitl, refunded, refundLock,
                 mailVars>>

LogRefund(t) ==
  /\ pc[t] = "marked"
  /\ refundLog' = Append(refundLog, [order |-> call[t].order,
                                     amount |-> call[t].amount, by |-> t])
  /\ refundLock' = NoTicket
  /\ Return(t, "success", elig[t])
  /\ UNCHANGED <<confidence, call, attempt, hitlLen, hitl, refunded, mailVars>>

IssueRefund(t) ==
  \/ AcquireRefundLock(t)
  \/ RejectRefund(t)
  \/ AcceptRefund(t)
  \/ MarkRefunded(t)
  \/ LogRefund(t)

-----------------------------------------------------------------------------

\* The call enters guard.
Guard(t, c) ==
  \/ Allow(t, c)
  \/ Deny(t, c)
  \/ Defer(t, c)
  \/ GuardRaises(t, c)

\* A tool fails before it has any effect.
ToolFails(t) == RetryAfterFailure(t) \/ RetriesExhausted(t)

\* The call goes on inside guard.
Proceed(t) ==
  \/ Enqueue(t)
  \/ RejectCall(t)
  \/ RunReadTool(t)
  \/ RunEligibilityCheck(t)
  \/ SendReply(t)
  \/ Escalate(t)
  \/ IssueRefund(t)

Continue(t) == Proceed(t) \/ ToolFails(t)

\* The caller takes the result guard returned and may make another call; the
\* locals of guard, enqueue and resilient_execute are gone.
TakeResult(t) ==
  /\ pc[t] = "returned"
  /\ pc' = [pc EXCEPT ![t] = "idle"]
  /\ call' = [call EXCEPT ![t] = NoCall]
  /\ attempt' = [attempt EXCEPT ![t] = 0]
  /\ result' = [result EXCEPT ![t] = "none"]
  /\ hitlLen' = [hitlLen EXCEPT ![t] = 0]
  /\ UNCHANGED <<confidence, elig, recorded, hitl, moneyVars, mailVars>>

Step(t) ==
  \/ \E c \in Calls : Guard(t, c)
  \/ Continue(t)
  \/ TakeResult(t)

Next == \E t \in Tickets : Step(t)

Spec == Init /\ [][Next]_guardVars

\* A thread inside guard is scheduled again; nothing obliges a tool to fail,
\* least of all one that waits for the refund lock, or the LLM to propose
\* another call.
Fairness == \A t \in Tickets : WF_guardVars(Proceed(t) \/ TakeResult(t))

FairSpec == Spec /\ Fairness

-----------------------------------------------------------------------------
(* What must hold.                                                         *)

\* The ledger a reader of refund_log sees, without who asked.
LedgerView == [i \in DOMAIN refundLog |->
                 [order |-> refundLog[i].order, amount |-> refundLog[i].amount]]

Ledger == INSTANCE RefundLedger
            WITH ledger <- LedgerView,
                 Amounts <- {c.amount : c \in Calls},
                 HumanLimit <- RefundHitlThreshold,
                 Slack <- AmountTolerance

\* Every executed refund was owed: the order's terms allow it, the amount is
\* within what the order cost and within the auto-approval limit, the same
\* ticket had checked the order, and its triage was confident.  The rules
\* only see the ticket's own record, which may be stale, so this relates the
\* money that moved to the shop's data, not to the record.
RefundsAuthorised ==
  \A i \in DOMAIN refundLog :
    LET e == refundLog[i] IN
    /\ Ledger!Refundable(e.order)
    /\ Ledger!Payable(e.order, e.amount)
    /\ elig[e.by][e.order] # NoCheck
    /\ confidence[e.by] >= LowConfidenceThreshold

\* No order is refunded twice, however the threads interleave, and whenever
\* nobody is inside issue_refund the orders marked refunded are exactly those
\* the log (or the shop's data) says were paid back.
RefundsMatchOrders ==
  /\ \A i, j \in DOMAIN refundLog :
       refundLog[i].order = refundLog[j].order => i = j
  /\ refundLock = NoTicket =>
       refunded = AlreadyRefunded
                    \cup {refundLog[i].order : i \in DOMAIN refundLog}

\* Only refunds that break no hard rule wait for a human (DENY wins over
\* REQUIRE_HUMAN), and only those that a gate really stopped.
QueuedRefundsVetted ==
  \A i \in DOMAIN hitl :
    LET q == hitl[i] IN
    /\ Ledger!Refundable(q.order)
    /\ q.amount \in Int
    /\ 0 < q.amount
    /\ q.amount <= OrderAmount[q.order] + AmountTolerance
    /\ \/ q.amount > RefundHitlThreshold
       \/ confidence[q.ticket] < LowConfidenceThreshold

\* enqueue reads the queue's length outside the lock, so an approval reference
\* may name two refunds.  That takes two threads that process one ticket id at
\* once (two runs) and enqueues that overlap: the later item's length was read
\* before the earlier item was queued.  No thread uses a reference twice, and
\* no two ticket ids share one.
SharedReferenceMeansOverlap ==
  \A i, j \in DOMAIN hitl : i < j /\ hitl[i].id = hitl[j].id =>
    /\ hitl[i].ticket # hitl[j].ticket
    /\ TicketId[hitl[i].ticket] = TicketId[hitl[j].ticket]
    /\ hitl[j].id[2] <= i

\* The tools implement the abstract ledger: every step pays one order that
\* may be paid, or leaves the ledger alone.
LedgerSpec == Ledger!Spec

\* A ticket inside guard always comes out: no early return of issue_refund
\* keeps the lock, and the retry loop ends.
CallsReturn == \A t \in Tickets : pc[t] # "idle" ~> pc[t] \in {"idle", "crashed"}

Logged(o) == \E i \in DOMAIN refundLog : refundLog[i].order = o

\* A refund that policy let through is refused under the lock only because
\* somebody has been paid for the order meanwhile: the loser of two tickets
\* that both found it eligible is told so with the money already logged, and
\* nobody is refused for an order that stays unpaid.
RefusedMeansPaid ==
  [][\A t \in Tickets : pc[t] = "locked" /\ pc'[t] = "returned"
                           => Logged(call[t].order)]_guardVars

\* rules.py:80 "Cannot refund more than the eligibility check authorised",
\* said of every amount the arguments can hold.
RefundsWithinEligible ==
  \A i \in DOMAIN refundLog :
    /\ refundLog[i].amount \in Int
    /\ refundLog[i].amount <= OrderAmount[refundLog[i].order] + AmountTolerance

-----------------------------------------------------------------------------
(* Why it holds: the inductive invariant behind the properties above.      *)

Critical(t) == pc[t] \in {"locked", "accepted", "marked"}

\* The refund lock is held exactly by the ticket inside issue_refund.
LockInv ==
  \A t \in Tickets : /\ Critical(t) <=> refundLock = t
                     /\ Critical(t) => call[t].tool = "issue_refund"

\* A refund of order o that no hard rule forbids ticket t.
Owed(t, o, amount) ==
  /\ Ledger!Refundable(o)
  /\ AmountCleared(amount, OrderAmount[o])
  /\ elig[t][o] # NoCheck

Automatic(t, o, amount) ==
  /\ Owed(t, o, amount)
  /\ ~ FGreater(amount, RefundHitlThreshold)
  /\ confidence[t] >= LowConfidenceThreshold

ForHuman(t, o, amount) ==
  /\ Owed(t, o, amount)
  /\ \/ FGreater(amount, RefundHitlThreshold)
     \/ confidence[t] < LowConfidenceThreshold

\* A ticket believes an order eligible only if the terms say so: stale belief
\* is about refund_status, never about the terms or the amount.
EligSound ==
  \A t \in Tickets, o \in OrderArgs :
    elig[t][o] # NoCheck /\ elig[t][o].eligible =>
      Ledger!Refundable(o) /\ elig[t][o].amount = OrderAmount[o]

VettingInv ==
  /\ EligSound
  /\ \A t \in Tickets :
       /\ (pc[t] = "running" /\ call[t].tool = "issue_refund") \/ Critical(t) =>
            Automatic(t, call[t].order, call[t].amount)
       /\ pc[t] = "enqueueing" =>
            ForHuman(t, call[t].order, call[t].amount)
  /\ \A i \in DOMAIN refundLog :
       Automatic(refundLog[i].by, refundLog[i].order, refundLog[i].amount)
  /\ \A i \in DOMAIN hitl :
       ForHuman(hitl[i].ticket, hitl[i].order, hitl[i].amount)

\* An order found eligible had not been repaid before the run began, and policy
\* lets only refunds of such orders go on.
OpenInv ==
  /\ \A t \in Tickets, o \in OrderArgs :
       elig[t][o] # NoCheck /\ elig[t][o].eligible => o \notin AlreadyRefunded
  /\ \A t \in Tickets :
       (pc[t] = "running" /\ call[t].tool = "issue_refund") \/ Critical(t)
         => call[t].order \notin AlreadyRefunded

\* Between marking an order and logging its refund the order is in neither
\* list; the lock keeps everybody else out meanwhile.
LedgerInv ==
  /\ \A i, j \in DOMAIN refundLog :
       refundLog[i].order = refundLog[j].order => i = j
  /\ \A o \in OrderArgs :
       /\ o \in refunded <=>
            \/ o \in AlreadyRefunded
            \/ Logged(o)
            \/ \E t \in Tickets : pc[t] = "marked" /\ call[t].order = o
       /\ ~ (o \in AlreadyRefunded /\ Logged(o))
  /\ \A t \in Tickets :
       /\ pc[t] = "accepted" => call[t].order \in Orders \ refunded
       /\ pc[t] = "marked" =>
            call[t].order \notin AlreadyRefunded /\ ~ Logged(call[t].order)

\* A thread's references grow: while it has read the queue's length and not
\* yet appended, nobody appends for it.
IdsInv ==
  /\ \A i \in DOMAIN hitl : /\ hitl[i].id[1] = TicketId[hitl[i].ticket]
                            /\ hitl[i].id[2] <= i
  /\ \A i, j \in DOMAIN hitl :
       hitl[i].ticket = hitl[j].ticket /\ hitl[i].id[2] = hitl[j].id[2] => i = j
  /\ \A t \in Tickets : pc[t] = "enqueueing" =>
       /\ hitlLen[t] <= Len(hitl)
       /\ \A i \in DOMAIN hitl :
            hitl[i].ticket = t => hitl[i].id[2] <= hitlLen[t]
=============================================================================
