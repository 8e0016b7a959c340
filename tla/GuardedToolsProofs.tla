------------------------- MODULE GuardedToolsProofs -------------------------
(***************************************************************************)
(* Proofs about GuardedTools for any number of tickets, orders, calls and  *)
(* retries: types, the refund lock, refunds and queued refunds that are    *)
(* vetted, what an approval reference names, who is refused under the lock *)
(* and the abstract RefundLedger.                                          *)
(***************************************************************************)
EXTENDS GuardedTools, TLAPS

-----------------------------------------------------------------------------
(* What the policy's verdicts mean, for every call and every ticket state.  *)

\* "allow" for a refund means that every rule was satisfied: the order was
\* checked, it was eligible, the amount is within what the check authorised
\* and within the limit, and the triage was confident.
LEMMA AllowedRefund ==
  ASSUME NEW c, NEW known, NEW conf \in Int,
         c.tool = "issue_refund",
         Evaluate(c, known, conf) = "allow",
         known[c.order] # NoCheck /\ known[c.order].eligible =>
           known[c.order].amount \in Int
  PROVE  /\ c.order # NoOrder
         /\ known[c.order] # NoCheck
         /\ known[c.order].eligible
         /\ AmountCleared(c.amount, known[c.order].amount)
         /\ ~ FGreater(c.amount, RefundHitlThreshold)
         /\ conf >= LowConfidenceThreshold
  <1>1. ~ Denied(c, known) /\ ~ NeedsHuman(c, conf)
    BY DEF Evaluate
  <1>2. QED
    BY <1>1, PolicyAssumption
       DEF Denied, NeedsHuman, RefundRequiresEligibility, RefundMustBeEligible,
           RefundAmountWithinEligible, RefundAmountPositive,
           LargeRefundNeedsHuman, LowConfidenceBlocksIrreversible,
           IrreversibleTools, AmountCleared

\* "require_human" means that no hard rule objected and that a gate did: a
\* call that must be denied is never parked for approval.
LEMMA DeferredRefund ==
  ASSUME NEW c, NEW known, NEW conf \in Int,
         Evaluate(c, known, conf) = "require_human",
         known[c.order] # NoCheck /\ known[c.order].eligible =>
           known[c.order].amount \in Int
  PROVE  /\ c.tool = "issue_refund"
         /\ c.order # NoOrder
         /\ known[c.order] # NoCheck
         /\ known[c.order].eligible
         /\ AmountCleared(c.amount, known[c.order].amount)
         /\ \/ FGreater(c.amount, RefundHitlThreshold)
            \/ conf < LowConfidenceThreshold
  <1>1. ~ Denied(c, known) /\ NeedsHuman(c, conf)
    BY DEF Evaluate
  <1>2. c.tool = "issue_refund"
    BY <1>1 DEF NeedsHuman, LargeRefundNeedsHuman,
                LowConfidenceBlocksIrreversible, IrreversibleTools
  <1>3. QED
    BY <1>1, <1>2
       DEF Denied, NeedsHuman, RefundRequiresEligibility, RefundMustBeEligible,
           RefundAmountWithinEligible, RefundAmountPositive,
           LargeRefundNeedsHuman, LowConfidenceBlocksIrreversible,
           AmountCleared

\* Only refunds are ever stopped: every other tool is allowed, whatever the
\* ticket's state.
LEMMA OtherToolsAllowed ==
  ASSUME NEW c, NEW known, NEW conf, c.tool # "issue_refund"
  PROVE  Evaluate(c, known, conf) = "allow"
  BY DEF Evaluate, Denied, NeedsHuman, RefundRequiresEligibility,
         RefundMustBeEligible, RefundAmountWithinEligible,
         RefundAmountPositive, LargeRefundNeedsHuman,
         LowConfidenceBlocksIrreversible, IrreversibleTools

-----------------------------------------------------------------------------
(* Types.                                                                  *)

EligMaps == [OrderArgs -> Eligibility \cup {NoCheck}]

\* A ticket inside guard has a call in progress.
CallTyped == \A t \in Tickets : pc[t] \notin {"idle", "crashed"} => call[t] \in Calls

\* What a return from guard assigns has its type.
LEMMA ReturnTypes ==
  ASSUME TypeOK, NEW t \in Tickets, NEW r \in Results, NEW checked \in EligMaps,
         Return(t, r, checked), call' \in [Tickets -> Calls \cup {NoCall}],
         call'[t] \in Calls, \A u \in Tickets \ {t} : call'[u] = call[u]
  PROVE  /\ pc' \in [Tickets -> PcValues]
         /\ result' \in [Tickets -> Results]
         /\ recorded' \in [Tickets -> Nat]
         /\ elig' \in [Tickets -> EligMaps]
         /\ CallTyped'
  <1>1. pc' \in [Tickets -> PcValues]
    BY DEF TypeOK, Return, PcValues
  <1>2. result' \in [Tickets -> Results]
    BY DEF TypeOK, Return
  <1>3. recorded' \in [Tickets -> Nat]
    BY DEF TypeOK, Return
  <1>4. elig' \in [Tickets -> EligMaps]
    BY DEF TypeOK, Return, EligMaps
  <1>5. CallTyped'
    BY DEF TypeOK, Return, CallTyped
  <1>6. QED
    BY <1>1, <1>2, <1>3, <1>4, <1>5

\* The types, for every reachable state.
THEOREM TypeCorrect == Spec => []TypeOK
<1>1. Init => TypeOK
  BY GuardAssumption
     DEF Init, TypeOK, PcValues, Results, OrderArgs
<1>2. TypeOK /\ [Next]_guardVars => TypeOK'
  <2> SUFFICES ASSUME TypeOK, [Next]_guardVars
               PROVE  TypeOK'
    OBVIOUS
  <2>n. MaxRetries \in Nat
    BY GuardAssumption
  <2>0. CASE UNCHANGED guardVars
    BY <2>0 DEF TypeOK, guardVars, ticketVars, moneyVars, mailVars
  <2>1. ASSUME NEW t \in Tickets, NEW c \in Calls, Guard(t, c)
        PROVE  TypeOK'
    <3>1. CASE Allow(t, c)
      BY <3>1, <2>n
         DEF TypeOK, Allow, Propose, PcValues, moneyVars, mailVars
    <3>2. CASE Deny(t, c)
      <4>1. /\ call' \in [Tickets -> Calls \cup {NoCall}]
            /\ call'[t] \in Calls
            /\ \A u \in Tickets \ {t} : call'[u] = call[u]
        BY <3>2 DEF TypeOK, Deny, Propose
      <4>2. Return(t, "blocked", elig[t]) /\ "blocked" \in Results
              /\ elig[t] \in EligMaps
        BY <3>2 DEF TypeOK, Deny, Results, EligMaps
      <4>3. attempt' \in [Tickets -> 0..MaxRetries]
        BY <3>2, GuardAssumption DEF TypeOK, Deny, Propose
      <4>4. QED
        BY <3>2, <4>1, <4>2, <4>3, ReturnTypes
           DEF TypeOK, Deny, EligMaps, CallTyped, moneyVars, mailVars
    <3>3. CASE Defer(t, c)
      <4>1. attempt' \in [Tickets -> 0..MaxRetries] /\ hitlLen' \in [Tickets -> Nat]
        BY <3>3, <2>n DEF TypeOK, Defer, Propose
      <4>2. /\ call' \in [Tickets -> Calls \cup {NoCall}]
            /\ pc' \in [Tickets -> PcValues]
            /\ \A u \in Tickets : pc'[u] \notin {"idle", "crashed"} => call'[u] \in Calls
        BY <3>3 DEF TypeOK, Defer, Propose, PcValues
      <4>3. QED
        BY <3>3, <4>1, <4>2 DEF TypeOK, Defer, moneyVars, mailVars
    <3>4. CASE GuardRaises(t, c)
      <4>1. attempt' \in [Tickets -> 0..MaxRetries]
        BY <3>4, <2>n DEF TypeOK, GuardRaises, Propose
      <4>2. /\ call' \in [Tickets -> Calls \cup {NoCall}]
            /\ pc' \in [Tickets -> PcValues]
            /\ \A u \in Tickets : pc'[u] \notin {"idle", "crashed"} => call'[u] \in Calls
        BY <3>4 DEF TypeOK, GuardRaises, Propose, PcValues
      <4>3. QED
        BY <3>4, <4>1, <4>2 DEF TypeOK, GuardRaises, moneyVars, mailVars
    <3>5. QED
      BY <2>1, <3>1, <3>2, <3>3, <3>4 DEF Guard
  <2>2. ASSUME NEW t \in Tickets, Continue(t)
        PROVE  TypeOK'
    <3> DEFINE Returned(r, checked) == Return(t, r, checked) /\ UNCHANGED call
    <3>0. ASSUME NEW r \in Results, NEW checked \in EligMaps,
                 Returned(r, checked), pc[t] \notin {"idle", "crashed"}
          PROVE  /\ pc' \in [Tickets -> PcValues]
                 /\ result' \in [Tickets -> Results]
                 /\ recorded' \in [Tickets -> Nat]
                 /\ elig' \in [Tickets -> EligMaps]
                 /\ CallTyped'
      <4>1. /\ call' \in [Tickets -> Calls \cup {NoCall}]
            /\ call'[t] \in Calls
            /\ \A u \in Tickets \ {t} : call'[u] = call[u]
        BY <3>0 DEF TypeOK
      <4>2. QED
        BY <3>0, <4>1, ReturnTypes
    <3>a. elig[t] \in EligMaps
      BY DEF TypeOK, EligMaps
    <3>1. CASE Enqueue(t)
      <4>1. call[t] \in Call
        BY <3>1, GuardAssumption DEF Enqueue, TypeOK
      <4>2. [id |-> <<TicketId[t], hitlLen[t] + 1>>, ticket |-> t,
             order |-> call[t].order, amount |-> call[t].amount] \in HitlItem
        BY <4>1, TicketIdAssumption DEF HitlItem, Call, TypeOK
      <4>3. hitl' \in Seq(HitlItem)
        BY <3>1, <4>2 DEF Enqueue, TypeOK
      <4>4. Returned("pending", elig[t]) /\ pc[t] \notin {"idle", "crashed"}
              /\ "pending" \in Results
        BY <3>1 DEF Enqueue, Results
      <4>5. QED
        BY <3>1, <4>3, <4>4, <3>0, <3>a
           DEF TypeOK, Enqueue, EligMaps, CallTyped, moneyVars, mailVars
    <3>2. CASE RetryAfterFailure(t)
      <4>1. attempt' \in [Tickets -> 0..MaxRetries]
        BY <3>2, <2>n DEF TypeOK, RetryAfterFailure
      <4>2. QED
        BY <3>2, <4>1 DEF TypeOK, RetryAfterFailure, moneyVars, mailVars
    <3>3. CASE RetriesExhausted(t)
      <4>1. Returned("error", elig[t]) /\ pc[t] \notin {"idle", "crashed"}
              /\ "error" \in Results
        BY <3>3 DEF RetriesExhausted, BodyRuns, Results
      <4>9. QED
        BY <3>3, <4>1, <3>0, <3>a
           DEF TypeOK, RetriesExhausted, EligMaps, CallTyped, moneyVars, mailVars
    <3>4. CASE RejectCall(t)
      <4>1. Returned("error", elig[t]) /\ pc[t] \notin {"idle", "crashed"}
              /\ "error" \in Results
        BY <3>4 DEF RejectCall, BodyRuns, Results
      <4>9. QED
        BY <3>4, <4>1, <3>0, <3>a
           DEF TypeOK, RejectCall, EligMaps, CallTyped, moneyVars, mailVars
    <3>5. CASE RunReadTool(t)
      <4>1. PICK r \in {"success", "error"} : Return(t, r, elig[t])
        BY <3>5 DEF RunReadTool
      <4>2. Returned(r, elig[t]) /\ pc[t] \notin {"idle", "crashed"}
              /\ r \in Results
        BY <3>5, <4>1 DEF RunReadTool, BodyRuns, Results
      <4>9. QED
        BY <3>5, <4>2, <3>0, <3>a
           DEF TypeOK, RunReadTool, EligMaps, CallTyped, moneyVars, mailVars
    <3>6. CASE RunEligibilityCheck(t)
      <4> DEFINE checked ==
            [elig[t] EXCEPT ![call[t].order] = EligibilityOf(call[t].order)]
      <4>1. EligibilityOf(call[t].order) \in Eligibility
        BY GuardAssumption DEF EligibilityOf, Eligibility, Amounts
      <4>2. checked \in EligMaps
        BY <4>1, <3>a DEF EligMaps
      <4>3. Returned("success", checked) /\ pc[t] \notin {"idle", "crashed"}
              /\ "success" \in Results
        BY <3>6 DEF RunEligibilityCheck, BodyRuns, Results
      <4>9. QED
        BY <3>6, <4>2, <4>3, <3>0
           DEF TypeOK, RunEligibilityCheck, EligMaps, CallTyped, moneyVars, mailVars
    <3>7. CASE SendReply(t)
      <4>1. Returned("success", elig[t]) /\ pc[t] \notin {"idle", "crashed"}
              /\ "success" \in Results
        BY <3>7 DEF SendReply, BodyRuns, Results
      <4>2. replies' \in [Tickets -> Nat]
        BY <3>7 DEF TypeOK, SendReply
      <4>9. QED
        BY <3>7, <4>1, <4>2, <3>0, <3>a
           DEF TypeOK, SendReply, EligMaps, CallTyped, moneyVars, mailVars
    <3>8. CASE Escalate(t)
      <4>1. Returned("success", elig[t]) /\ pc[t] \notin {"idle", "crashed"}
              /\ "success" \in Results
        BY <3>8 DEF Escalate, BodyRuns, Results
      <4>2. escalations' \in [Tickets -> Nat]
        BY <3>8 DEF TypeOK, Escalate
      <4>9. QED
        BY <3>8, <4>1, <4>2, <3>0, <3>a
           DEF TypeOK, Escalate, EligMaps, CallTyped, moneyVars, mailVars
    <3>9. CASE IssueRefund(t)
      <4>1. CASE AcquireRefundLock(t)
        BY <4>1 DEF TypeOK, AcquireRefundLock, BodyRuns, PcValues, mailVars
      <4>2. CASE RejectRefund(t)
        <5>1. Returned("error", elig[t]) /\ pc[t] \notin {"idle", "crashed"}
                /\ "error" \in Results
          BY <4>2 DEF RejectRefund, Results
        <5>2. QED
          BY <4>2, <5>1, <3>0, <3>a
             DEF TypeOK, RejectRefund, EligMaps, CallTyped, mailVars
      <4>3. CASE AcceptRefund(t)
        BY <4>3 DEF TypeOK, AcceptRefund, PcValues, moneyVars, mailVars
      <4>4. CASE MarkRefunded(t)
        <5>1. call[t].order \in OrderArgs
          BY <4>4, GuardAssumption DEF TypeOK, MarkRefunded, Call
        <5>2. QED
          BY <4>4, <5>1 DEF TypeOK, MarkRefunded, PcValues, mailVars
      <4>5. CASE LogRefund(t)
        <5>1. Returned("success", elig[t]) /\ pc[t] \notin {"idle", "crashed"}
                /\ "success" \in Results
          BY <4>5 DEF LogRefund, Results
        <5>2. call[t] \in Call
          BY <4>5, GuardAssumption DEF LogRefund, TypeOK
        <5>3. refundLog' \in Seq(RefundEntry)
          BY <4>5, <5>2 DEF LogRefund, TypeOK, RefundEntry, Call
        <5>4. QED
          BY <4>5, <5>1, <5>3, <3>0, <3>a
             DEF TypeOK, LogRefund, EligMaps, CallTyped, mailVars
      <4>6. QED
        BY <3>9, <4>1, <4>2, <4>3, <4>4, <4>5 DEF IssueRefund
    <3>10. QED
      BY <2>2, <3>1, <3>2, <3>3, <3>4, <3>5, <3>6, <3>7, <3>8, <3>9
         DEF Continue, Proceed, ToolFails
  <2>3. ASSUME NEW t \in Tickets, TakeResult(t)
        PROVE  TypeOK'
    BY <2>3, <2>n
       DEF TypeOK, TakeResult, PcValues, Results, moneyVars, mailVars
  <2>4. QED
    BY <2>0, <2>1, <2>2, <2>3 DEF Next, Step
<1>3. QED
  BY <1>1, <1>2, PTL DEF Spec

-----------------------------------------------------------------------------
(* The refund lock.                                                        *)

\* The lock is held exactly by the ticket inside issue_refund, whatever path
\* it takes out.
THEOREM LockExclusion == Spec => []LockInv
<1>1. Init => LockInv
  BY GuardAssumption DEF Init, LockInv, Critical
<1>2. TypeOK /\ LockInv /\ [Next]_guardVars => LockInv'
  <2> SUFFICES ASSUME TypeOK, LockInv, [Next]_guardVars
               PROVE  LockInv'
    OBVIOUS
  <2> USE DEF TypeOK, LockInv, Critical
  <2>0. CASE UNCHANGED guardVars
    BY <2>0 DEF guardVars, ticketVars, moneyVars
  <2>1. ASSUME NEW t \in Tickets, NEW c \in Calls, Guard(t, c)
        PROVE  LockInv'
    BY <2>1 DEF Guard, Allow, Deny, Defer, GuardRaises, Propose, Return,
                moneyVars
  <2>2. ASSUME NEW t \in Tickets, Continue(t)
        PROVE  LockInv'
    <3>1. CASE Enqueue(t)
      BY <3>1 DEF Enqueue, Return, moneyVars
    <3>2. CASE RetryAfterFailure(t)
      BY <3>2 DEF RetryAfterFailure, BodyRuns, moneyVars
    <3>3. CASE RetriesExhausted(t)
      BY <3>3 DEF RetriesExhausted, BodyRuns, Return, moneyVars
    <3>4. CASE RejectCall(t)
      BY <3>4 DEF RejectCall, Return, moneyVars
    <3>5. CASE RunReadTool(t)
      BY <3>5 DEF RunReadTool, BodyRuns, Return, moneyVars
    <3>6. CASE RunEligibilityCheck(t)
      BY <3>6 DEF RunEligibilityCheck, BodyRuns, Return, moneyVars
    <3>7. CASE SendReply(t)
      BY <3>7 DEF SendReply, BodyRuns, Return, moneyVars
    <3>8. CASE Escalate(t)
      BY <3>8 DEF Escalate, BodyRuns, Return, moneyVars
    <3>9. CASE AcquireRefundLock(t)
      BY <3>9, GuardAssumption DEF AcquireRefundLock, BodyRuns
    <3>10. CASE RejectRefund(t)
      BY <3>10, GuardAssumption DEF RejectRefund, Return
    <3>11. CASE AcceptRefund(t)
      BY <3>11 DEF AcceptRefund, moneyVars
    <3>12. CASE MarkRefunded(t)
      BY <3>12 DEF MarkRefunded
    <3>13. CASE LogRefund(t)
      BY <3>13, GuardAssumption DEF LogRefund, Return
    <3>14. QED
      BY <2>2, <3>1, <3>2, <3>3, <3>4, <3>5, <3>6, <3>7, <3>8, <3>9, <3>10,
         <3>11, <3>12, <3>13 DEF Continue, Proceed, ToolFails, IssueRefund
  <2>3. ASSUME NEW t \in Tickets, TakeResult(t)
        PROVE  LockInv'
    BY <2>3 DEF TakeResult, moneyVars
  <2>4. QED
    BY <2>0, <2>1, <2>2, <2>3 DEF Next, Step
<1>3. QED
  BY <1>1, <1>2, TypeCorrect, PTL DEF Spec

-----------------------------------------------------------------------------
(* Vetting.                                                                *)

\* A ticket never forgets that it checked an order, and its confidence is
\* fixed: what cleared a refund when it was proposed still holds later.
LEMMA KnowledgeGrows ==
  ASSUME TypeOK, [Next]_guardVars
  PROVE  /\ confidence' = confidence
         /\ \A t \in Tickets, o \in OrderArgs :
              elig[t][o] # NoCheck => elig'[t][o] # NoCheck
  <1> USE DEF TypeOK
  <1>0. CASE UNCHANGED guardVars
    BY <1>0 DEF guardVars, ticketVars
  <1>1. ASSUME NEW t \in Tickets, NEW c \in Calls, Guard(t, c)
        PROVE  confidence' = confidence /\ elig' = elig
    BY <1>1 DEF Guard, Allow, Deny, Defer, GuardRaises, Return
  <1>2. ASSUME NEW t \in Tickets, RunEligibilityCheck(t)
        PROVE  /\ confidence' = confidence
               /\ \A u \in Tickets, o \in OrderArgs :
                    elig[u][o] # NoCheck => elig'[u][o] # NoCheck
    <2>1. EligibilityOf(call[t].order) \in Eligibility
      BY GuardAssumption DEF EligibilityOf, Eligibility, Amounts
    <2>2. EligibilityOf(call[t].order) # NoCheck
      BY <2>1, PolicyAssumption
    <2>3. QED
      BY <1>2, <2>2 DEF RunEligibilityCheck, Return
  <1>3. ASSUME NEW t \in Tickets, Continue(t), ~ RunEligibilityCheck(t)
        PROVE  confidence' = confidence /\ elig' = elig
    BY <1>3 DEF Continue, Proceed, ToolFails,
                Enqueue, RetryAfterFailure, RetriesExhausted,
                RejectCall, RunReadTool, SendReply, Escalate, IssueRefund,
                AcquireRefundLock, RejectRefund, AcceptRefund, MarkRefunded,
                LogRefund, Return
  <1>4. ASSUME NEW t \in Tickets, TakeResult(t)
        PROVE  confidence' = confidence /\ elig' = elig
    BY <1>4 DEF TakeResult
  <1>5. QED
    BY <1>0, <1>1, <1>2, <1>3, <1>4 DEF Next, Step

\* An answer "eligible" is about the order as the shop's data has it.
LEMMA EligSoundStep ==
  ASSUME TypeOK, EligSound, [Next]_guardVars
  PROVE  EligSound'
  <1> USE DEF TypeOK, EligSound, Ledger!Refundable
  <1>0. CASE UNCHANGED guardVars
    BY <1>0 DEF guardVars, ticketVars
  <1>1. ASSUME NEW t \in Tickets, NEW c \in Calls, Guard(t, c)
        PROVE  EligSound'
    <2>1. elig' = elig
      BY <1>1 DEF Guard, Allow, Deny, Defer, GuardRaises, Return
    <2>2. QED
      BY <2>1
  <1>2. ASSUME NEW t \in Tickets, RunEligibilityCheck(t)
        PROVE  EligSound'
    <2>1. LET e == EligibilityOf(call[t].order)
          IN  e.eligible => /\ Ledger!Refundable(call[t].order)
                            /\ e.amount = OrderAmount[call[t].order]
      BY DEF EligibilityOf
    <2>2. QED
      BY <1>2, <2>1 DEF RunEligibilityCheck, Return
  <1>3. ASSUME NEW t \in Tickets, Continue(t), ~ RunEligibilityCheck(t)
        PROVE  EligSound'
    <2>1. elig' = elig
      BY <1>3 DEF Continue, Proceed, ToolFails,
                  Enqueue, RetryAfterFailure, RetriesExhausted,
                  RejectCall, RunReadTool, SendReply, Escalate, IssueRefund,
                  AcquireRefundLock, RejectRefund, AcceptRefund, MarkRefunded,
                  LogRefund, Return
    <2>2. QED
      BY <2>1
  <1>4. ASSUME NEW t \in Tickets, TakeResult(t)
        PROVE  EligSound'
    <2>1. elig' = elig
      BY <1>4 DEF TakeResult
    <2>2. QED
      BY <2>1
  <1>5. QED
    BY <1>0, <1>1, <1>2, <1>3, <1>4 DEF Next, Step

\* The call ticket t has in progress is cleared for what it is about to do.
CallVetted(t) ==
  /\ (pc[t] = "running" /\ call[t].tool = "issue_refund") \/ Critical(t) =>
       Automatic(t, call[t].order, call[t].amount)
  /\ pc[t] = "enqueueing" =>
       ForHuman(t, call[t].order, call[t].amount)

LogVetted ==
  \A i \in DOMAIN refundLog :
    Automatic(refundLog[i].by, refundLog[i].order, refundLog[i].amount)

HitlVetted ==
  \A i \in DOMAIN hitl :
    ForHuman(hitl[i].ticket, hitl[i].order, hitl[i].amount)

\* VettingInv by parts, one for each place where a refund can be.
LEMMA VettingParts ==
  /\ VettingInv <=> /\ EligSound
                    /\ \A t \in Tickets : CallVetted(t)
                    /\ LogVetted
                    /\ HitlVetted
  /\ VettingInv' <=> /\ EligSound'
                     /\ \A t \in Tickets : CallVetted(t)'
                     /\ LogVetted'
                     /\ HitlVetted'
  BY DEF VettingInv, CallVetted, LogVetted, HitlVetted

\* A ticket whose call stays, at a point where no more is claimed of it than
\* before, is still cleared.
LEMMA CallStaysVetted ==
  ASSUME TypeOK, [Next]_guardVars, NEW t \in Tickets, CallVetted(t),
         call'[t] = call[t], call[t].order \in OrderArgs,
         \/ pc'[t] \in {pc[t], "returned"}
         \/ /\ pc[t] = "running" \/ Critical(t)
            /\ call[t].tool = "issue_refund"
            /\ pc'[t] # "enqueueing"
  PROVE  CallVetted(t)'
  BY KnowledgeGrows, Zenon DEF CallVetted, Critical, Automatic, ForHuman, Owed

\* Every entry of the log and of the queue names a ticket and an order.
LEMMA EntryTypes ==
  ASSUME TypeOK
  PROVE  /\ \A i \in DOMAIN refundLog : /\ refundLog[i].by \in Tickets
                                       /\ refundLog[i].order \in OrderArgs
         /\ \A i \in DOMAIN hitl : /\ hitl[i].ticket \in Tickets
                                  /\ hitl[i].order \in OrderArgs
  <1>1. \A i \in DOMAIN refundLog : refundLog[i] \in RefundEntry
    BY DEF TypeOK
  <1>2. \A i \in DOMAIN hitl : hitl[i] \in HitlItem
    BY DEF TypeOK
  <1>3. QED
    BY <1>1, <1>2 DEF RefundEntry, HitlItem

\* Entries already in the log or in the queue stay cleared.
LEMMA EntriesStayVetted ==
  ASSUME TypeOK, [Next]_guardVars
  PROVE  /\ LogVetted /\ refundLog' = refundLog => LogVetted'
         /\ HitlVetted /\ hitl' = hitl => HitlVetted'
  <1>1. ASSUME LogVetted, refundLog' = refundLog
        PROVE  LogVetted'
    BY <1>1, EntryTypes, KnowledgeGrows, Zenon DEF LogVetted, Automatic, Owed
  <1>2. ASSUME HitlVetted, hitl' = hitl
        PROVE  HitlVetted'
    BY <1>2, EntryTypes, KnowledgeGrows, Zenon DEF HitlVetted, ForHuman, Owed
  <1>3. QED
    BY <1>1, <1>2

\* Appending a cleared refund keeps the log cleared.
LEMMA LogStaysVetted ==
  ASSUME TypeOK, [Next]_guardVars, NEW t \in Tickets, NEW o \in OrderArgs,
         NEW amount, LogVetted, Automatic(t, o, amount),
         refundLog' = Append(refundLog, [order |-> o, amount |-> amount,
                                         by |-> t])
  PROVE  LogVetted'
  <1>k. /\ confidence' = confidence
        /\ \A u \in Tickets, p \in OrderArgs :
             elig[u][p] # NoCheck => elig'[u][p] # NoCheck
    BY KnowledgeGrows
  <1>1. \A i \in DOMAIN refundLog : /\ refundLog[i].by \in Tickets
                                    /\ refundLog[i].order \in OrderArgs
    BY EntryTypes
  <1>2. \A i \in DOMAIN refundLog' :
          \/ i \in DOMAIN refundLog /\ refundLog'[i] = refundLog[i]
          \/ refundLog'[i] = [order |-> o, amount |-> amount, by |-> t]
    BY DEF TypeOK
  <1>3. SUFFICES ASSUME NEW i \in DOMAIN refundLog'
                 PROVE  Automatic(refundLog[i].by, refundLog[i].order,
                                  refundLog[i].amount)'
    BY DEF LogVetted
  <1>4. CASE i \in DOMAIN refundLog /\ refundLog'[i] = refundLog[i]
    BY <1>k, <1>1, <1>4, Zenon DEF LogVetted, Automatic, Owed
  <1>5. CASE refundLog'[i] = [order |-> o, amount |-> amount, by |-> t]
    <2>1. /\ refundLog'[i].order = o
          /\ refundLog'[i].amount = amount
          /\ refundLog'[i].by = t
      BY <1>5
    <2>2. QED
      BY <1>k, <2>1, Zenon DEF Automatic, Owed
  <1>6. QED
    BY <1>2, <1>4, <1>5

\* Appending a cleared request keeps the queue cleared.
LEMMA QueueStaysVetted ==
  ASSUME TypeOK, [Next]_guardVars, NEW t \in Tickets, NEW o \in OrderArgs,
         NEW amount, NEW id, HitlVetted, ForHuman(t, o, amount),
         hitl' = Append(hitl, [id |-> id, ticket |-> t,
                               order |-> o, amount |-> amount])
  PROVE  HitlVetted'
  <1>k. /\ confidence' = confidence
        /\ \A u \in Tickets, p \in OrderArgs :
             elig[u][p] # NoCheck => elig'[u][p] # NoCheck
    BY KnowledgeGrows
  <1>1. \A i \in DOMAIN hitl : /\ hitl[i].ticket \in Tickets
                               /\ hitl[i].order \in OrderArgs
    BY EntryTypes
  <1>2. \A i \in DOMAIN hitl' :
          \/ i \in DOMAIN hitl /\ hitl'[i] = hitl[i]
          \/ hitl'[i] = [id |-> id, ticket |-> t, order |-> o,
                         amount |-> amount]
    BY DEF TypeOK
  <1>3. SUFFICES ASSUME NEW i \in DOMAIN hitl'
                 PROVE  ForHuman(hitl[i].ticket, hitl[i].order,
                                 hitl[i].amount)'
    BY DEF HitlVetted
  <1>4. CASE i \in DOMAIN hitl /\ hitl'[i] = hitl[i]
    BY <1>k, <1>1, <1>4, Zenon DEF HitlVetted, ForHuman, Owed
  <1>5. CASE hitl'[i] = [id |-> id, ticket |-> t, order |-> o,
                         amount |-> amount]
    <2>1. /\ hitl'[i].order = o
          /\ hitl'[i].amount = amount
          /\ hitl'[i].ticket = t
      BY <1>5
    <2>2. QED
      BY <1>k, <2>1, Zenon DEF ForHuman, Owed
  <1>6. QED
    BY <1>2, <1>4, <1>5

\* The rules leave a refund call in progress only if it is cleared, and a
\* deferred one only if a gate stopped it and no hard rule did.
LEMMA GuardVets ==
  ASSUME TypeOK, EligSound, NEW t \in Tickets, NEW c \in Calls
  PROVE  /\ c.tool = "issue_refund" /\ Verdict(t, c) = "allow" =>
              c.order \in OrderArgs /\ Automatic(t, c.order, c.amount)
         /\ Verdict(t, c) = "require_human" =>
              c.order \in OrderArgs /\ ForHuman(t, c.order, c.amount)
  <1>1. c.order \in OrderArgs
    BY GuardAssumption DEF Call
  <1>2. confidence[t] \in Int
    <2>1. confidence[t] \in Confidences
      BY DEF TypeOK
    <2>2. confidence[t] \in ConfidenceScale
      BY <2>1, GuardAssumption, Zenon
    <2>3. QED
      BY <2>2 DEF ConfidenceScale
  <1>3. elig[t][c.order] # NoCheck /\ elig[t][c.order].eligible =>
          /\ Ledger!Refundable(c.order)
          /\ elig[t][c.order].amount = OrderAmount[c.order]
          /\ elig[t][c.order].amount \in Int
    BY <1>1, GuardAssumption DEF EligSound, Ledger!Refundable
  <1>4. ASSUME c.tool = "issue_refund", Verdict(t, c) = "allow"
        PROVE  Automatic(t, c.order, c.amount)
    <2>1. Evaluate(c, elig[t], confidence[t]) = "allow"
      BY <1>4 DEF Verdict
    <2>2. /\ elig[t][c.order] # NoCheck
          /\ elig[t][c.order].eligible
          /\ AmountCleared(c.amount, elig[t][c.order].amount)
          /\ ~ FGreater(c.amount, RefundHitlThreshold)
          /\ confidence[t] >= LowConfidenceThreshold
      BY <1>2, <1>3, <1>4, <2>1, AllowedRefund
    <2>3. QED
      BY <1>3, <2>2 DEF Automatic, Owed
  <1>5. ASSUME Verdict(t, c) = "require_human"
        PROVE  ForHuman(t, c.order, c.amount)
    <2>1. Evaluate(c, elig[t], confidence[t]) = "require_human"
      BY <1>5 DEF Verdict
    <2>2. /\ elig[t][c.order] # NoCheck
          /\ elig[t][c.order].eligible
          /\ AmountCleared(c.amount, elig[t][c.order].amount)
          /\ \/ FGreater(c.amount, RefundHitlThreshold)
             \/ confidence[t] < LowConfidenceThreshold
      BY <1>2, <1>3, <2>1, DeferredRefund
    <2>3. QED
      BY <1>3, <2>2 DEF ForHuman, Owed
  <1>6. QED
    BY <1>1, <1>4, <1>5

\* The vetting invariant is inductive.
LEMMA VettingStep ==
  ASSUME TypeOK, LockInv, VettingInv, [Next]_guardVars
  PROVE  VettingInv'
  <1>v. /\ EligSound
        /\ \A u \in Tickets : CallVetted(u)
        /\ LogVetted
        /\ HitlVetted
    BY VettingParts
  <1>e. EligSound'
    BY <1>v, EligSoundStep
  <1>s. ASSUME NEW u \in Tickets, call'[u] = call[u],
               pc'[u] \in {pc[u], "returned"}
        PROVE  CallVetted(u)'
    <2>1. CASE pc[u] \in {"idle", "crashed"}
      BY <1>s, <2>1, Zenon DEF CallVetted, Critical
    <2>2. CASE pc[u] \notin {"idle", "crashed"}
      <3>1. call[u].order \in OrderArgs
        BY <2>2, GuardAssumption DEF TypeOK, Call
      <3>2. QED
        BY <1>s, <1>v, <3>1, CallStaysVetted
    <2>3. QED
      BY <2>1, <2>2
  <1>0. CASE UNCHANGED guardVars
    <2>1. UNCHANGED <<call, pc, refundLog, hitl>>
      BY <1>0 DEF guardVars, ticketVars, moneyVars
    <2>2. QED
      BY <2>1, <1>e, <1>s, <1>v, EntriesStayVetted, VettingParts
  <1>1. ASSUME NEW t \in Tickets, NEW c \in Calls, Guard(t, c)
        PROVE  VettingInv'
    <2>1. /\ UNCHANGED <<refundLog, hitl>>
          /\ call' = [call EXCEPT ![t] = c]
          /\ pc' = [pc EXCEPT ![t] = pc'[t]]
      BY <1>1 DEF Guard, Allow, Deny, Defer, GuardRaises, Propose, Return,
                  moneyVars, TypeOK
    <2>2. \A u \in Tickets \ {t} : CallVetted(u)'
      BY <1>s, <2>1 DEF TypeOK
    <2>3. call'[t] = c
      BY <2>1 DEF TypeOK
    <2>k. /\ confidence' = confidence
          /\ \A u \in Tickets, o \in OrderArgs :
               elig[u][o] # NoCheck => elig'[u][o] # NoCheck
      BY KnowledgeGrows
    <2>4. CallVetted(t)'
      <3>1. CASE pc'[t] = "running"
        <4>1. Verdict(t, c) = "allow"
          BY <1>1, <3>1 DEF Guard, Allow, Deny, Defer, GuardRaises, Return, TypeOK
        <4>2. c.tool = "issue_refund" =>
                c.order \in OrderArgs /\ Automatic(t, c.order, c.amount)
          BY <4>1, <1>v, GuardVets
        <4>3. QED
          BY <2>3, <2>k, <3>1, <4>2, Zenon
             DEF CallVetted, Critical, Automatic, Owed
      <3>2. CASE pc'[t] = "enqueueing"
        <4>1. Verdict(t, c) = "require_human"
          BY <1>1, <3>2 DEF Guard, Allow, Deny, Defer, GuardRaises, Return, TypeOK
        <4>2. c.order \in OrderArgs /\ ForHuman(t, c.order, c.amount)
          BY <4>1, <1>v, GuardVets
        <4>3. QED
          BY <2>3, <2>k, <3>2, <4>2, Zenon DEF CallVetted, Critical, ForHuman, Owed
      <3>3. CASE pc'[t] \in {"returned", "crashed"}
        BY <3>3, Zenon DEF CallVetted, Critical
      <3>4. QED
        BY <1>1, <3>1, <3>2, <3>3
           DEF Guard, Allow, Deny, Defer, GuardRaises, Return, TypeOK
    <2>5. QED
      BY <1>e, <1>v, <2>1, <2>2, <2>4, EntriesStayVetted, VettingParts
  <1>2. ASSUME NEW t \in Tickets, Continue(t)
        PROVE  VettingInv'
    <2>1. call' = call /\ \A u \in Tickets \ {t} : pc'[u] = pc[u]
      BY <1>2 DEF Continue, Proceed, ToolFails,
                  Enqueue, RetryAfterFailure, RetriesExhausted,
                  RejectCall, RunReadTool, RunEligibilityCheck, SendReply,
                  Escalate, IssueRefund, AcquireRefundLock, RejectRefund,
                  AcceptRefund, MarkRefunded, LogRefund, Return, TypeOK
    <2>2. \A u \in Tickets \ {t} : CallVetted(u)'
      BY <1>s, <2>1
    <2>3. CallVetted(t)'
      <3>1. CASE pc'[t] \in {pc[t], "returned"}
        BY <1>s, <2>1, <3>1
      <3>2. CASE AcquireRefundLock(t) \/ AcceptRefund(t) \/ MarkRefunded(t)
        <4>1. /\ pc[t] = "running" \/ Critical(t)
              /\ call[t].tool = "issue_refund"
              /\ pc'[t] # "enqueueing"
              /\ call[t] \in Calls
          BY <3>2 DEF AcquireRefundLock, AcceptRefund, MarkRefunded, BodyRuns,
                      Critical, LockInv, TypeOK
        <4>2. call[t].order \in OrderArgs
          BY <4>1, GuardAssumption DEF Call
        <4>3. QED
          BY <1>v, <2>1, <4>1, <4>2, CallStaysVetted
      <3>3. QED
        BY <1>2, <3>1, <3>2
           DEF Continue, Proceed, ToolFails,
               Enqueue, RetryAfterFailure, RetriesExhausted,
               RejectCall, RunReadTool, RunEligibilityCheck, SendReply,
               Escalate, IssueRefund, RejectRefund, LogRefund, Return, TypeOK
    <2>4. call[t] \in Calls /\ call[t].order \in OrderArgs
      <3>1. pc[t] \notin {"idle", "crashed"}
        BY <1>2 DEF Continue, Proceed, ToolFails,
                    Enqueue, RetryAfterFailure, RetriesExhausted,
                    RejectCall, RunReadTool, RunEligibilityCheck, SendReply,
                    Escalate, IssueRefund, AcquireRefundLock, RejectRefund,
                    AcceptRefund, MarkRefunded, LogRefund, BodyRuns
      <3>2. QED
        BY <3>1, GuardAssumption DEF TypeOK, Call
    <2>5. LogVetted'
      <3>1. CASE LogRefund(t)
        <4>1. Automatic(t, call[t].order, call[t].amount)
          BY <1>v, <3>1 DEF CallVetted, Critical, LogRefund
        <4>2. QED
          BY <1>v, <2>4, <3>1, <4>1, LogStaysVetted DEF LogRefund
      <3>2. CASE refundLog' = refundLog
        BY <1>v, <3>2, EntriesStayVetted
      <3>3. QED
        BY <1>2, <3>1, <3>2
           DEF Continue, Proceed, ToolFails,
               Enqueue, RetryAfterFailure, RetriesExhausted,
               RejectCall, RunReadTool, RunEligibilityCheck, SendReply,
               Escalate, IssueRefund, AcquireRefundLock, RejectRefund,
               AcceptRefund, MarkRefunded, moneyVars
    <2>6. HitlVetted'
      <3>1. CASE Enqueue(t)
        <4>1. ForHuman(t, call[t].order, call[t].amount)
          BY <1>v, <3>1 DEF CallVetted, Enqueue
        <4>2. QED
          BY <1>v, <2>4, <3>1, <4>1, QueueStaysVetted DEF Enqueue
      <3>2. CASE hitl' = hitl
        BY <1>v, <3>2, EntriesStayVetted
      <3>3. QED
        BY <1>2, <3>1, <3>2
           DEF Continue, Proceed, ToolFails,
               RetryAfterFailure, RetriesExhausted,
               RejectCall, RunReadTool, RunEligibilityCheck, SendReply,
               Escalate, IssueRefund, AcquireRefundLock, RejectRefund,
               AcceptRefund, MarkRefunded, LogRefund
    <2>7. QED
      BY <1>e, <2>2, <2>3, <2>5, <2>6, VettingParts
  <1>3. ASSUME NEW t \in Tickets, TakeResult(t)
        PROVE  VettingInv'
    <2>1. /\ UNCHANGED <<refundLog, hitl>>
          /\ \A u \in Tickets \ {t} : pc'[u] = pc[u] /\ call'[u] = call[u]
          /\ pc'[t] = "idle"
      BY <1>3 DEF TakeResult, moneyVars, TypeOK
    <2>2. \A u \in Tickets \ {t} : CallVetted(u)'
      BY <1>s, <2>1
    <2>3. CallVetted(t)'
      BY <2>1, Zenon DEF CallVetted, Critical
    <2>4. QED
      BY <1>e, <1>v, <2>1, <2>2, <2>3, EntriesStayVetted, VettingParts
  <1>4. QED
    BY <1>0, <1>1, <1>2, <1>3 DEF Next, Step

\* Every refund, in progress, executed or queued, is one the shop's terms
\* allow, with its amount cleared by the amount rules.
THEOREM VettingCorrect == Spec => []VettingInv
<1>1. Init => VettingInv
  BY DEF Init, VettingInv, EligSound, Critical
<1>2. QED
  BY <1>1, VettingStep, TypeCorrect, LockExclusion, PTL DEF Spec

-----------------------------------------------------------------------------
(* The ledger.                                                             *)

\* Steps that leave the orders, the log and the tickets between the check and
\* the log alone keep the ledger invariant.
LEMMA LedgerKept ==
  ASSUME LedgerInv, UNCHANGED <<refunded, refundLog>>,
         \A u \in Tickets :
           pc[u] \in {"accepted", "marked"} \/ pc'[u] \in {"accepted", "marked"}
             => pc'[u] = pc[u] /\ call'[u] = call[u]
  PROVE  LedgerInv'
  BY DEF LedgerInv, Logged

\* Between the test of refund_status and the log entry only the holder of the
\* lock moves, so no order is tested twice before it is logged.
LEMMA LedgerStep ==
  ASSUME TypeOK, LockInv, LedgerInv, [Next]_guardVars
  PROVE  LedgerInv'
  <1>0. CASE UNCHANGED guardVars
    BY <1>0, LedgerKept DEF guardVars, ticketVars, moneyVars
  <1>1. ASSUME NEW t \in Tickets, NEW c \in Calls, Guard(t, c)
        PROVE  LedgerInv'
    <2>1. /\ UNCHANGED <<refunded, refundLog>>
          /\ pc[t] = "idle"
          /\ pc'[t] \notin {"accepted", "marked"}
          /\ \A u \in Tickets \ {t} : pc'[u] = pc[u] /\ call'[u] = call[u]
      BY <1>1 DEF Guard, Allow, Deny, Defer, GuardRaises, Propose, Return,
                  moneyVars, TypeOK
    <2>2. QED
      BY <2>1, LedgerKept
  <1>2. ASSUME NEW t \in Tickets, TakeResult(t)
        PROVE  LedgerInv'
    <2>1. /\ UNCHANGED <<refunded, refundLog>>
          /\ pc[t] = "returned"
          /\ pc'[t] = "idle"
          /\ \A u \in Tickets \ {t} : pc'[u] = pc[u] /\ call'[u] = call[u]
      BY <1>2 DEF TakeResult, moneyVars, TypeOK
    <2>2. QED
      BY <2>1, LedgerKept
  <1>3. ASSUME NEW t \in Tickets, Continue(t), ~ IssueRefund(t)
        PROVE  LedgerInv'
    <2>1. /\ UNCHANGED <<refunded, refundLog, call>>
          /\ pc[t] \in {"running", "enqueueing"}
          /\ pc'[t] \in {"running", "returned"}
          /\ \A u \in Tickets \ {t} : pc'[u] = pc[u]
      BY <1>3 DEF Continue, Proceed, ToolFails,
                  Enqueue, RetryAfterFailure, RetriesExhausted,
                  RejectCall, RunReadTool, RunEligibilityCheck, SendReply,
                  Escalate, BodyRuns, Return, moneyVars, TypeOK
    <2>2. QED
      BY <2>1, LedgerKept
  <1>4. ASSUME NEW t \in Tickets, AcquireRefundLock(t) \/ RejectRefund(t)
        PROVE  LedgerInv'
    <2>1. /\ UNCHANGED <<refunded, refundLog, call>>
          /\ pc[t] \in {"running", "locked"}
          /\ pc'[t] \in {"locked", "returned"}
          /\ \A u \in Tickets \ {t} : pc'[u] = pc[u]
      BY <1>4 DEF AcquireRefundLock, RejectRefund, BodyRuns, Return, TypeOK
    <2>2. QED
      BY <2>1, LedgerKept
  <1>5. ASSUME NEW t \in Tickets, AcceptRefund(t)
        PROVE  LedgerInv'
    <2>1. /\ UNCHANGED <<refunded, refundLog, call>>
          /\ pc[t] = "locked"
          /\ pc'[t] = "accepted"
          /\ call[t].order \in Orders \ refunded
          /\ \A u \in Tickets \ {t} : pc'[u] = pc[u]
      BY <1>5 DEF AcceptRefund, MayRefund, moneyVars, TypeOK
    <2>2. QED
      BY <2>1 DEF LedgerInv, Logged
  <1>6. ASSUME NEW t \in Tickets, MarkRefunded(t)
        PROVE  LedgerInv'
    <2>1. /\ UNCHANGED <<refundLog, call>>
          /\ refunded' = refunded \cup {call[t].order}
          /\ pc[t] = "accepted"
          /\ pc'[t] = "marked"
          /\ \A u \in Tickets \ {t} : pc'[u] = pc[u]
      BY <1>6 DEF MarkRefunded, TypeOK
    <2>2. \A u \in Tickets \ {t} : pc[u] \notin {"accepted", "marked"}
      BY <2>1 DEF LockInv, Critical
    <2>3. call[t].order \in Orders \ refunded
      BY <2>1 DEF LedgerInv
    <2>4. call[t].order \in OrderArgs
      BY <2>3, GuardAssumption DEF OrderArgs
    <2>5. call[t].order \notin AlreadyRefunded /\ ~ Logged(call[t].order)
      BY <2>3, <2>4 DEF LedgerInv
    <2>6. QED
      BY <2>1, <2>2, <2>3, <2>5 DEF LedgerInv, Logged
  <1>7. ASSUME NEW t \in Tickets, LogRefund(t)
        PROVE  LedgerInv'
    <2> DEFINE o == call[t].order
    <2>1. /\ UNCHANGED <<refunded, call>>
          /\ refundLog' = Append(refundLog, [order |-> o,
                                     amount |-> call[t].amount, by |-> t])
          /\ pc[t] = "marked"
          /\ pc'[t] = "returned"
          /\ \A u \in Tickets \ {t} : pc'[u] = pc[u]
      BY <1>7 DEF LogRefund, Return, TypeOK
    <2>2. \A u \in Tickets \ {t} : pc[u] \notin {"accepted", "marked"}
      BY <2>1 DEF LockInv, Critical
    <2>3. o \notin AlreadyRefunded /\ ~ Logged(o)
      BY <2>1 DEF LedgerInv
    <2>4. /\ \A i \in DOMAIN refundLog : /\ i \in DOMAIN refundLog'
                                         /\ refundLog'[i] = refundLog[i]
          /\ \A i \in DOMAIN refundLog' :
               \/ i \in DOMAIN refundLog
               \/ i = Len(refundLog) + 1
          /\ Len(refundLog) + 1 \in DOMAIN refundLog'
          /\ refundLog'[Len(refundLog) + 1].order = o
      BY <2>1 DEF TypeOK
    <2>5. \A p : Logged(p)' <=> Logged(p) \/ p = o
      BY <2>4 DEF Logged
    <2>6. \A i, j \in DOMAIN refundLog' :
            refundLog'[i].order = refundLog'[j].order => i = j
      BY <2>3, <2>4 DEF LedgerInv, Logged
    <2>7. \A p \in OrderArgs :
            /\ p \in refunded' <=> \/ p \in AlreadyRefunded
                                   \/ Logged(p)'
                                   \/ \E u \in Tickets :
                                        pc'[u] = "marked" /\ call'[u].order = p
            /\ ~ (p \in AlreadyRefunded /\ Logged(p)')
      BY <2>1, <2>2, <2>3, <2>5 DEF LedgerInv
    <2>8. \A u \in Tickets : pc'[u] \notin {"accepted", "marked"}
      BY <2>1, <2>2
    <2>9. QED
      BY <2>6, <2>7, <2>8 DEF LedgerInv
  <1>8. QED
    BY <1>0, <1>1, <1>2, <1>3, <1>4, <1>5, <1>6, <1>7
       DEF Next, Step, Continue, Proceed, ToolFails, IssueRefund

\* The orders marked refunded are those in refund_log, those repaid before the
\* run, and the one between its mark and its log entry.
THEOREM LedgerCorrect == Spec => []LedgerInv
<1>1. Init => LedgerInv
  BY GuardAssumption DEF Init, LedgerInv, Logged, OrderArgs
<1>2. QED
  BY <1>1, LedgerStep, TypeCorrect, LockExclusion, PTL DEF Spec

-----------------------------------------------------------------------------
(* Approval references.                                                    *)

\* A thread appends only its own items, so the length it read is not smaller
\* than the number in any of its references when it appends.
LEMMA IdsStep ==
  ASSUME TypeOK, IdsInv, [Next]_guardVars
  PROVE  IdsInv'
  <1>k. ASSUME hitl' = hitl,
               \A u \in Tickets : pc'[u] = "enqueueing" =>
                 pc[u] = "enqueueing" /\ hitlLen'[u] = hitlLen[u]
        PROVE  IdsInv'
    BY <1>k DEF IdsInv
  <1>h. \A i \in DOMAIN hitl : hitl[i].id[2] \in Nat /\ i \in 1..Len(hitl)
    <2>1. \A i \in DOMAIN hitl : hitl[i] \in HitlItem /\ i \in 1..Len(hitl)
      BY DEF TypeOK
    <2>2. QED
      BY <2>1 DEF HitlItem
  <1>0. CASE UNCHANGED guardVars
    BY <1>0, <1>k DEF guardVars, ticketVars
  <1>1. ASSUME NEW t \in Tickets, NEW c \in Calls, Defer(t, c)
        PROVE  IdsInv'
    <2>1. /\ hitl' = hitl
          /\ hitlLen'[t] = Len(hitl)
          /\ \A u \in Tickets \ {t} : pc'[u] = pc[u] /\ hitlLen'[u] = hitlLen[u]
      BY <1>1 DEF Defer, Propose, TypeOK
    <2>2. Len(hitl) \in Nat
      BY DEF TypeOK
    <2>3. \A i \in DOMAIN hitl : hitl[i].id[2] <= Len(hitl)
      BY <1>h, <2>2 DEF IdsInv
    <2>4. QED
      BY <2>1, <2>2, <2>3 DEF IdsInv
  <1>2. ASSUME NEW t \in Tickets, NEW c \in Calls, Guard(t, c), ~ Defer(t, c)
        PROVE  IdsInv'
    <2>1. /\ UNCHANGED <<hitl, hitlLen>>
          /\ pc'[t] # "enqueueing"
          /\ \A u \in Tickets \ {t} : pc'[u] = pc[u]
      BY <1>2 DEF Guard, Allow, Deny, GuardRaises, Propose, Return, TypeOK
    <2>2. QED
      BY <1>k, <2>1
  <1>3. ASSUME NEW t \in Tickets, Enqueue(t)
        PROVE  IdsInv'
    <2> DEFINE n == Len(hitl) + 1
    <2>1. /\ UNCHANGED hitlLen
          /\ pc[t] = "enqueueing"
          /\ pc'[t] = "returned"
          /\ \A u \in Tickets \ {t} : pc'[u] = pc[u]
      BY <1>3 DEF Enqueue, Return, TypeOK
    <2>2. Len(hitl) \in Nat /\ hitlLen[t] \in Nat
      BY DEF TypeOK
    <2>3. /\ Len(hitl') = n
          /\ \A i \in DOMAIN hitl : i \in DOMAIN hitl' /\ hitl'[i] = hitl[i]
          /\ \A i \in DOMAIN hitl' : i \in DOMAIN hitl \/ i = n
          /\ hitl'[n] = [id |-> <<TicketId[t], hitlLen[t] + 1>>, ticket |-> t,
                         order |-> call[t].order, amount |-> call[t].amount]
      BY <1>3 DEF Enqueue, TypeOK
    <2>4. /\ hitl'[n].id[1] = TicketId[t]
          /\ hitl'[n].id[2] = hitlLen[t] + 1
          /\ hitl'[n].ticket = t
      BY <2>3
    <2>5. /\ hitlLen[t] <= Len(hitl)
          /\ \A i \in DOMAIN hitl :
               hitl[i].ticket = t => hitl[i].id[2] <= hitlLen[t]
      BY <2>1 DEF IdsInv
    <2>6. \A i \in DOMAIN hitl' : /\ hitl'[i].id[1] = TicketId[hitl'[i].ticket]
                                  /\ hitl'[i].id[2] <= i
      BY <2>2, <2>3, <2>4, <2>5 DEF IdsInv
    <2>7. \A i, j \in DOMAIN hitl' :
            /\ hitl'[i].ticket = hitl'[j].ticket
            /\ hitl'[i].id[2] = hitl'[j].id[2]
            => i = j
      <3>1. \A i \in DOMAIN hitl :
              hitl[i].ticket = t => hitl[i].id[2] # hitlLen[t] + 1
        BY <1>h, <2>2, <2>5
      <3>2. QED
        BY <2>3, <2>4, <3>1 DEF IdsInv
    <2>8. \A u \in Tickets : pc'[u] = "enqueueing" =>
            /\ hitlLen'[u] <= Len(hitl')
            /\ \A i \in DOMAIN hitl' :
                 hitl'[i].ticket = u => hitl'[i].id[2] <= hitlLen'[u]
      <3>1. \A u \in Tickets : hitlLen[u] \in Nat
        BY DEF TypeOK
      <3>2. QED
        BY <2>1, <2>2, <2>3, <2>4, <3>1 DEF IdsInv
    <2>9. QED
      BY <2>6, <2>7, <2>8 DEF IdsInv
  <1>4. ASSUME NEW t \in Tickets, Continue(t), ~ Enqueue(t)
        PROVE  IdsInv'
    <2>1. /\ UNCHANGED <<hitl, hitlLen>>
          /\ pc'[t] # "enqueueing"
          /\ \A u \in Tickets \ {t} : pc'[u] = pc[u]
      BY <1>4 DEF Continue, Proceed, ToolFails,
                  RetryAfterFailure, RetriesExhausted, RejectCall,
                  RunReadTool, RunEligibilityCheck, SendReply, Escalate,
                  IssueRefund, AcquireRefundLock, RejectRefund, AcceptRefund,
                  MarkRefunded, LogRefund, BodyRuns, Return, TypeOK
    <2>2. QED
      BY <1>k, <2>1
  <1>5. ASSUME NEW t \in Tickets, TakeResult(t)
        PROVE  IdsInv'
    <2>1. /\ hitl' = hitl
          /\ pc'[t] # "enqueueing"
          /\ \A u \in Tickets \ {t} : pc'[u] = pc[u] /\ hitlLen'[u] = hitlLen[u]
      BY <1>5 DEF TakeResult, TypeOK
    <2>2. QED
      BY <1>k, <2>1
  <1>6. QED
    BY <1>0, <1>1, <1>2, <1>3, <1>4, <1>5 DEF Next, Step

\* Two approval requests share a reference only if two threads that process
\* one ticket id queued them and the enqueues overlapped, whichever threads
\* process the same ticket and however many read the queue's length at once.
THEOREM ReferencesTellApart == Spec => []SharedReferenceMeansOverlap
<1>1. Init => IdsInv
  BY DEF Init, IdsInv
<1>2. TypeOK /\ IdsInv => SharedReferenceMeansOverlap
  <2> SUFFICES ASSUME TypeOK, IdsInv,
                      NEW i \in DOMAIN hitl, NEW j \in DOMAIN hitl,
                      i < j, hitl[i].id = hitl[j].id
               PROVE  /\ hitl[i].ticket # hitl[j].ticket
                      /\ TicketId[hitl[i].ticket] = TicketId[hitl[j].ticket]
                      /\ hitl[j].id[2] <= i
    BY DEF SharedReferenceMeansOverlap
  <2>1. hitl[i].ticket # hitl[j].ticket
    <3>1. i # j
      BY DEF TypeOK
    <3>2. QED
      BY <3>1 DEF IdsInv
  <2>2. TicketId[hitl[i].ticket] = TicketId[hitl[j].ticket]
    BY DEF IdsInv
  <2>3. hitl[j].id[2] <= i
    BY DEF IdsInv
  <2>4. QED
    BY <2>1, <2>2, <2>3
<1>3. QED
  BY <1>1, <1>2, IdsStep, TypeCorrect, PTL DEF Spec

-----------------------------------------------------------------------------
(* Refusals.                                                               *)

\* The check looks at refund_status, and the rules let a refund go on only if
\* the ticket's check found the order eligible.
LEMMA OpenStep ==
  ASSUME TypeOK, LockInv, LedgerInv, OpenInv, [Next]_guardVars
  PROVE  OpenInv'
  <1> DEFINE InProgress(u) ==
        (pc[u] = "running" /\ call[u].tool = "issue_refund") \/ Critical(u)
  <1>k. ASSUME elig' = elig,
               \A u \in Tickets : InProgress(u)' =>
                 InProgress(u) /\ call'[u] = call[u]
        PROVE  OpenInv'
    BY <1>k DEF OpenInv
  <1>0. CASE UNCHANGED guardVars
    BY <1>0, <1>k DEF guardVars, ticketVars, Critical
  <1>1. ASSUME NEW t \in Tickets, NEW c \in Calls, Allow(t, c)
        PROVE  OpenInv'
    <2>1. /\ elig' = elig
          /\ call'[t] = c
          /\ pc'[t] = "running"
          /\ \A u \in Tickets \ {t} : pc'[u] = pc[u] /\ call'[u] = call[u]
      BY <1>1 DEF Allow, Propose, TypeOK
    <2>2. c.order \in OrderArgs
      BY GuardAssumption DEF Call
    <2>3. c.tool = "issue_refund" =>
            elig[t][c.order] # NoCheck /\ elig[t][c.order].eligible
      BY <1>1 DEF Allow, Verdict, Evaluate, Denied, RefundRequiresEligibility,
                  RefundMustBeEligible
    <2>4. QED
      BY <2>1, <2>2, <2>3 DEF OpenInv, Critical
  <1>2. ASSUME NEW t \in Tickets, NEW c \in Calls, Guard(t, c), ~ Allow(t, c)
        PROVE  OpenInv'
    <2>1. /\ elig' = elig
          /\ pc'[t] \in {"returned", "enqueueing", "crashed"}
          /\ \A u \in Tickets \ {t} : pc'[u] = pc[u] /\ call'[u] = call[u]
      BY <1>2 DEF Guard, Deny, Defer, GuardRaises, Propose, Return, TypeOK
    <2>2. QED
      BY <1>k, <2>1 DEF Critical
  <1>3. ASSUME NEW t \in Tickets, RunEligibilityCheck(t)
        PROVE  OpenInv'
    <2>1. EligibilityOf(call[t].order).eligible =>
            call[t].order \notin AlreadyRefunded
      <3>1. call[t].order \in OrderArgs
        BY <1>3, GuardAssumption DEF RunEligibilityCheck, BodyRuns, TypeOK, Call
      <3>2. QED
        BY <3>1 DEF EligibilityOf, LedgerInv
    <2>2. /\ elig' = [elig EXCEPT ![t] =
               [elig[t] EXCEPT ![call[t].order] = EligibilityOf(call[t].order)]]
          /\ call' = call
          /\ pc'[t] = "returned"
          /\ \A u \in Tickets \ {t} : pc'[u] = pc[u]
      BY <1>3 DEF RunEligibilityCheck, Return, TypeOK
    <2>3. \A u \in Tickets, o \in OrderArgs :
            elig'[u][o] # NoCheck /\ elig'[u][o].eligible
              => o \notin AlreadyRefunded
      BY <2>1, <2>2 DEF OpenInv, TypeOK
    <2>4. \A u \in Tickets : InProgress(u)' =>
            call'[u].order \notin AlreadyRefunded
      BY <2>2 DEF OpenInv, Critical
    <2>5. QED
      BY <2>3, <2>4 DEF OpenInv
  <1>4. ASSUME NEW t \in Tickets, Continue(t), ~ RunEligibilityCheck(t)
        PROVE  OpenInv'
    <2>1. /\ elig' = elig
          /\ call' = call
          /\ \A u \in Tickets \ {t} : pc'[u] = pc[u]
      BY <1>4 DEF Continue, Proceed, ToolFails,
                  Enqueue, RetryAfterFailure, RetriesExhausted,
                  RejectCall, RunReadTool, SendReply, Escalate, IssueRefund,
                  AcquireRefundLock, RejectRefund, AcceptRefund, MarkRefunded,
                  LogRefund, Return, TypeOK
    <2>2. InProgress(t)' => InProgress(t)
      BY <1>4 DEF Continue, Proceed, ToolFails, BodyRuns, Critical,
                  Enqueue, RetryAfterFailure, RetriesExhausted,
                  RejectCall, RunReadTool, SendReply, Escalate, IssueRefund,
                  AcquireRefundLock, RejectRefund, AcceptRefund, MarkRefunded,
                  LogRefund, Return, TypeOK
    <2>3. QED
      BY <1>k, <2>1, <2>2 DEF Critical
  <1>5. ASSUME NEW t \in Tickets, TakeResult(t)
        PROVE  OpenInv'
    <2>1. /\ elig' = elig
          /\ pc'[t] = "idle"
          /\ \A u \in Tickets \ {t} : pc'[u] = pc[u] /\ call'[u] = call[u]
      BY <1>5 DEF TakeResult, TypeOK
    <2>2. QED
      BY <1>k, <2>1 DEF Critical
  <1>6. QED
    BY <1>0, <1>1, <1>2, <1>3, <1>4, <1>5 DEF Next, Step

\* Nobody is refused a refund of an order that stays unpaid: when the lock's
\* holder finds the order refunded, its payment is in the log.
THEOREM RefusalsHavePayments == Spec => RefusedMeansPaid
<1>1. Init => OpenInv
  BY DEF Init, OpenInv, Critical
<1>2. Spec => []OpenInv
  BY <1>1, OpenStep, TypeCorrect, LockExclusion, LedgerCorrect, PTL DEF Spec
<1>3. TypeOK /\ LockInv /\ VettingInv /\ LedgerInv /\ OpenInv /\ [Next]_guardVars
      => [\A t \in Tickets : pc[t] = "locked" /\ pc'[t] = "returned"
                               => Logged(call[t].order)]_guardVars
  <2> SUFFICES ASSUME TypeOK, LockInv, VettingInv, LedgerInv, OpenInv, Next,
                      NEW t \in Tickets, pc[t] = "locked", pc'[t] = "returned"
               PROVE  Logged(call[t].order)
    OBVIOUS
  <2> DEFINE o == call[t].order
  <2>1. ~ MayRefund(t)
    BY DEF Next, Step, Guard, Allow, Deny, Defer, GuardRaises, Propose, Continue,
           Proceed, ToolFails, Enqueue, RetryAfterFailure, RetriesExhausted,
           RejectCall, RunReadTool, RunEligibilityCheck, SendReply, Escalate,
           IssueRefund, AcquireRefundLock, RejectRefund, AcceptRefund,
           MarkRefunded, LogRefund, TakeResult, BodyRuns, Return, TypeOK
  <2>2. /\ o \in Orders
        /\ o \notin AlreadyRefunded
    BY DEF VettingInv, OpenInv, Critical, Automatic, Owed, Ledger!Refundable
  <2>3. o \in refunded /\ o \in OrderArgs
    BY <2>1, <2>2, GuardAssumption DEF MayRefund, OrderArgs
  <2>4. \A u \in Tickets : pc[u] # "marked"
    BY GuardAssumption DEF LockInv, Critical
  <2>5. QED
    BY <2>2, <2>3, <2>4 DEF LedgerInv
<1>4. QED
  BY <1>2, <1>3, TypeCorrect, LockExclusion, VettingCorrect, LedgerCorrect, PTL
     DEF Spec, RefusedMeansPaid

-----------------------------------------------------------------------------
(* The properties.                                                         *)

\* No order is refunded twice, and the orders marked refunded are the ones
\* the log records whenever nobody is inside issue_refund.
THEOREM NoDoubleRefund == Spec => []RefundsMatchOrders
<1>1. TypeOK /\ LockInv /\ LedgerInv => RefundsMatchOrders
  <2> SUFFICES ASSUME TypeOK, LockInv, LedgerInv
               PROVE  RefundsMatchOrders
    OBVIOUS
  <2>1. \A i, j \in DOMAIN refundLog :
          refundLog[i].order = refundLog[j].order => i = j
    BY DEF LedgerInv
  <2>2. ASSUME refundLock = NoTicket
        PROVE  refunded = AlreadyRefunded
                 \cup {refundLog[i].order : i \in DOMAIN refundLog}
    <3>1. \A t \in Tickets : pc[t] # "marked"
      BY <2>2, GuardAssumption DEF LockInv, Critical
    <3>2. \A o \in OrderArgs :
            o \in refunded <=> o \in AlreadyRefunded \/ Logged(o)
      BY <3>1 DEF LedgerInv
    <3>3. \A i \in DOMAIN refundLog : refundLog[i].order \in OrderArgs
      BY EntryTypes
    <3>4. refunded \subseteq OrderArgs /\ AlreadyRefunded \subseteq OrderArgs
      BY GuardAssumption DEF TypeOK, OrderArgs
    <3>5. QED
      BY <3>2, <3>3, <3>4 DEF Logged
  <2>3. QED
    BY <2>1, <2>2 DEF RefundsMatchOrders
<1>2. QED
  BY <1>1, TypeCorrect, LockExclusion, LedgerCorrect, PTL

\* The calls name numbers: without this the amount rules pass a NaN (see
\* RefundsWithinEligible).
NumbersOnly == \A c \in Calls : c.amount # NaN


\* Amounts are copied from the calls, never made up.
AmountsAsked ==
  /\ \A i \in DOMAIN refundLog :
       \E c \in Calls : refundLog[i].amount = c.amount
  /\ \A i \in DOMAIN hitl : \E c \in Calls : hitl[i].amount = c.amount

\* Every amount paid or queued is the amount of some call.
LEMMA AmountsAskedCorrect == Spec => []AmountsAsked
<1>1. Init => AmountsAsked
  BY DEF Init, AmountsAsked
<1>2. TypeOK /\ AmountsAsked /\ [Next]_guardVars => AmountsAsked'
  <2> SUFFICES ASSUME TypeOK, AmountsAsked, [Next]_guardVars
               PROVE  AmountsAsked'
    OBVIOUS
  <2>1. ASSUME NEW t \in Tickets, LogRefund(t)
        PROVE  AmountsAsked'
    <3>1. call[t] \in Calls
      BY <2>1 DEF LogRefund, TypeOK
    <3>2. \A i \in DOMAIN refundLog' :
            \/ i \in DOMAIN refundLog /\ refundLog'[i] = refundLog[i]
            \/ refundLog'[i].amount = call[t].amount
      BY <2>1 DEF LogRefund, TypeOK
    <3>3. hitl' = hitl
      BY <2>1 DEF LogRefund
    <3>4. QED
      BY <3>1, <3>2, <3>3 DEF AmountsAsked
  <2>2. ASSUME NEW t \in Tickets, Enqueue(t)
        PROVE  AmountsAsked'
    <3>1. call[t] \in Calls
      BY <2>2 DEF Enqueue, TypeOK
    <3>2. \A i \in DOMAIN hitl' :
            \/ i \in DOMAIN hitl /\ hitl'[i] = hitl[i]
            \/ hitl'[i].amount = call[t].amount
      BY <2>2 DEF Enqueue, TypeOK
    <3>3. refundLog' = refundLog
      BY <2>2 DEF Enqueue, moneyVars
    <3>4. QED
      BY <3>1, <3>2, <3>3 DEF AmountsAsked
  <2>3. CASE UNCHANGED <<refundLog, hitl>>
    BY <2>3 DEF AmountsAsked
  <2>4. QED
    BY <2>1, <2>2, <2>3
       DEF Next, Step, Guard, Allow, Deny, Defer, GuardRaises, Continue,
           Proceed, ToolFails,
           RetryAfterFailure, RetriesExhausted, RejectCall, RunReadTool,
           RunEligibilityCheck, SendReply, Escalate, IssueRefund,
           AcquireRefundLock, RejectRefund, AcceptRefund, MarkRefunded,
           TakeResult, guardVars, ticketVars, moneyVars
<1>3. QED
  BY <1>1, <1>2, TypeCorrect, PTL DEF Spec

\* A cleared amount that is a number is positive and bounded.
LEMMA ClearedAmount ==
  ASSUME NEW amount \in Amounts, amount # NaN, NEW allowed \in Nat,
         AmountCleared(amount, allowed)
  PROVE  /\ amount \in Int
         /\ 0 < amount
         /\ amount <= allowed + AmountTolerance
  <1>1. amount \in Int
    BY DEF Amounts, AmountCleared
  <1>2. QED
    BY <1>1, PolicyAssumption DEF AmountCleared, FGreater

\* An amount below a limit that is a number is within it.
LEMMA WithinLimit ==
  ASSUME NEW amount \in Int, ~ FGreater(amount, RefundHitlThreshold)
  PROVE  amount <= RefundHitlThreshold
  BY PolicyAssumption DEF FGreater

\* Every executed refund was owed to the order and within what may be paid
\* automatically, whatever the ticket's record said and however stale it was.
THEOREM RefundsVetted ==
  ASSUME NumbersOnly
  PROVE  Spec => []RefundsAuthorised
<1>1. TypeOK /\ VettingInv /\ AmountsAsked => RefundsAuthorised
  <2> SUFFICES ASSUME TypeOK, VettingInv, AmountsAsked,
                      NEW i \in DOMAIN refundLog
               PROVE  /\ Ledger!Refundable(refundLog[i].order)
                      /\ Ledger!Payable(refundLog[i].order, refundLog[i].amount)
                      /\ elig[refundLog[i].by][refundLog[i].order] # NoCheck
                      /\ confidence[refundLog[i].by] >= LowConfidenceThreshold
    BY DEF RefundsAuthorised
  <2> DEFINE e == refundLog[i]
  <2>1. Automatic(e.by, e.order, e.amount)
    BY DEF VettingInv
  <2>2. /\ Ledger!Refundable(e.order)
        /\ AmountCleared(e.amount, OrderAmount[e.order])
        /\ elig[e.by][e.order] # NoCheck
        /\ ~ FGreater(e.amount, RefundHitlThreshold)
        /\ confidence[e.by] >= LowConfidenceThreshold
    BY <2>1 DEF Automatic, Owed
  <2>3. OrderAmount[e.order] \in Nat
    BY <2>2, GuardAssumption DEF Ledger!Refundable
  <2>4. e.amount \in Amounts /\ e.amount # NaN
    BY NumbersOnly, GuardAssumption DEF AmountsAsked, NumbersOnly, Call
  <2>5. /\ e.amount \in Int
        /\ 0 < e.amount
        /\ e.amount <= OrderAmount[e.order] + AmountTolerance
    BY <2>2, <2>3, <2>4, ClearedAmount
  <2>6. e.amount <= RefundHitlThreshold
    BY <2>2, <2>5, WithinLimit
  <2>7. Ledger!Payable(e.order, e.amount)
    BY <2>5, <2>6 DEF Ledger!Payable
  <2>8. QED
    BY <2>2, <2>7
<1>2. QED
  BY <1>1, TypeCorrect, VettingCorrect, AmountsAskedCorrect, PTL

\* Whatever waits for a human broke no hard rule and was really stopped by a
\* gate.
THEOREM QueueVetted ==
  ASSUME NumbersOnly
  PROVE  Spec => []QueuedRefundsVetted
<1>1. TypeOK /\ VettingInv /\ AmountsAsked => QueuedRefundsVetted
  <2> SUFFICES ASSUME TypeOK, VettingInv, AmountsAsked, NEW i \in DOMAIN hitl
               PROVE  /\ Ledger!Refundable(hitl[i].order)
                      /\ hitl[i].amount \in Int
                      /\ 0 < hitl[i].amount
                      /\ hitl[i].amount
                           <= OrderAmount[hitl[i].order] + AmountTolerance
                      /\ \/ hitl[i].amount > RefundHitlThreshold
                         \/ confidence[hitl[i].ticket] < LowConfidenceThreshold
    BY DEF QueuedRefundsVetted
  <2> DEFINE q == hitl[i]
  <2>1. ForHuman(q.ticket, q.order, q.amount)
    BY DEF VettingInv
  <2>2. /\ Ledger!Refundable(q.order)
        /\ AmountCleared(q.amount, OrderAmount[q.order])
        /\ \/ FGreater(q.amount, RefundHitlThreshold)
           \/ confidence[q.ticket] < LowConfidenceThreshold
    BY <2>1 DEF ForHuman, Owed
  <2>3. OrderAmount[q.order] \in Nat
    BY <2>2, GuardAssumption DEF Ledger!Refundable
  <2>4. q.amount \in Amounts /\ q.amount # NaN
    BY NumbersOnly, GuardAssumption DEF AmountsAsked, NumbersOnly, Call
  <2>5. /\ q.amount \in Int
        /\ 0 < q.amount
        /\ q.amount <= OrderAmount[q.order] + AmountTolerance
    BY <2>2, <2>3, <2>4, ClearedAmount
  <2>6. QED
    BY <2>2, <2>5 DEF FGreater
<1>2. QED
  BY <1>1, TypeCorrect, VettingCorrect, AmountsAskedCorrect, PTL


-----------------------------------------------------------------------------
(* The refinement.                                                         *)

\* Appending an entry to the log appends its anonymous form to the view.
LEMMA ViewOfAppend ==
  ASSUME NEW s \in Seq(RefundEntry), NEW e \in RefundEntry
  PROVE  [i \in DOMAIN Append(s, e) |->
            [order |-> Append(s, e)[i].order, amount |-> Append(s, e)[i].amount]]
         = Append([i \in DOMAIN s |->
                     [order |-> s[i].order, amount |-> s[i].amount]],
                  [order |-> e.order, amount |-> e.amount])
  <1> DEFINE Anon(x) == [order |-> x.order, amount |-> x.amount]
             v == [i \in DOMAIN s |-> Anon(s[i])]
             w == [i \in DOMAIN Append(s, e) |-> Anon(Append(s, e)[i])]
  <1>1. /\ DOMAIN s = 1..Len(s)
        /\ Len(s) \in Nat
        /\ DOMAIN Append(s, e) = 1..(Len(s) + 1)
        /\ \A i \in 1..Len(s) : Append(s, e)[i] = s[i]
        /\ Append(s, e)[Len(s) + 1] = e
    OBVIOUS
  <1> HIDE DEF Anon
  <1>2. v = [i \in 1..Len(s) |-> Anon(s[i])]
    BY <1>1
  <1>3. v \in Seq({Anon(x) : x \in RefundEntry}) /\ Len(v) = Len(s)
    BY <1>1, <1>2
  <1>4. /\ DOMAIN Append(v, Anon(e)) = 1..(Len(s) + 1)
        /\ \A i \in 1..Len(s) : Append(v, Anon(e))[i] = Anon(s[i])
        /\ Append(v, Anon(e))[Len(s) + 1] = Anon(e)
    BY <1>1, <1>2, <1>3
  <1>5. Append(v, Anon(e)) = [i \in 1..(Len(s) + 1) |-> Append(v, Anon(e))[i]]
    BY <1>3, <1>4
  <1>6. w = Append(v, Anon(e))
    BY <1>1, <1>4, <1>5
  <1>7. QED
    BY <1>6 DEF Anon

\* The tools implement the abstract ledger: the only step that changes the
\* log pays an order that was owed and had not been paid.
THEOREM ToolsImplementLedger ==
  ASSUME NumbersOnly
  PROVE  Spec => LedgerSpec
<1>1. Init => Ledger!Init
  BY DEF Init, Ledger!Init, LedgerView
<1>2. /\ TypeOK /\ VettingInv /\ LedgerInv /\ [Next]_guardVars
      => [Ledger!Next]_LedgerView
  <2> SUFFICES ASSUME TypeOK, VettingInv, LedgerInv, [Next]_guardVars
               PROVE  [Ledger!Next]_LedgerView
    OBVIOUS
  <2>1. CASE UNCHANGED refundLog
    BY <2>1 DEF LedgerView
  <2>2. ASSUME NEW t \in Tickets, LogRefund(t)
        PROVE  Ledger!Next
    <3> DEFINE o == call[t].order
               a == call[t].amount
    <3>1. pc[t] = "marked" /\ call[t] \in Calls /\ call[t] \in Call
      BY <2>2, GuardAssumption DEF LogRefund, TypeOK
    <3>2. Automatic(t, o, a)
      BY <3>1 DEF VettingInv, Critical
    <3>3. /\ Ledger!Refundable(o)
          /\ AmountCleared(a, OrderAmount[o])
          /\ ~ FGreater(a, RefundHitlThreshold)
      BY <3>2 DEF Automatic, Owed
    <3>4. o \in Orders /\ OrderAmount[o] \in Nat
      BY <3>3, GuardAssumption DEF Ledger!Refundable
    <3>5. a \in Amounts /\ a # NaN
      BY <3>1 DEF NumbersOnly, Call
    <3>6. /\ a \in Int
          /\ 0 < a
          /\ a <= OrderAmount[o] + AmountTolerance
      BY <3>3, <3>4, <3>5, ClearedAmount
    <3>7. a <= RefundHitlThreshold
      BY <3>3, <3>6, WithinLimit
    <3>8. Ledger!Payable(o, a)
      BY <3>6, <3>7 DEF Ledger!Payable
    <3>9. ~ Ledger!Paid(o)
      <4>1. o \notin AlreadyRefunded /\ ~ Logged(o)
        BY <3>1 DEF LedgerInv
      <4>2. QED
        BY <4>1 DEF Ledger!Paid, LedgerView, Logged
    <3>10. LedgerView' = Append(LedgerView, [order |-> o, amount |-> a])
      <4> DEFINE e == [order |-> o, amount |-> a, by |-> t]
      <4>1. e \in RefundEntry /\ refundLog \in Seq(RefundEntry)
        BY <3>1 DEF RefundEntry, Call, TypeOK
      <4>2. refundLog' = Append(refundLog, e)
        BY <2>2 DEF LogRefund
      <4>3. e.order = o /\ e.amount = a
        OBVIOUS
      <4> HIDE DEF e
      <4> DEFINE l == Append(refundLog, e)
                 view == [i \in DOMAIN l |->
                            [order |-> l[i].order, amount |-> l[i].amount]]
      <4>4. view = Append(LedgerView, [order |-> e.order, amount |-> e.amount])
        BY <4>1, ViewOfAppend, Zenon DEF LedgerView
      <4>5. LedgerView' = view
        BY <4>2, Zenon DEF LedgerView
      <4>6. QED
        BY <4>3, <4>4, <4>5, Zenon
    <3>11. a \in {c.amount : c \in Calls}
      BY <3>1
    <3>12. Ledger!Pay(o, a)
      BY <3>3, <3>8, <3>9, <3>10 DEF Ledger!Pay
    <3>13. QED
      BY <3>4, <3>11, <3>12 DEF Ledger!Next
  <2>3. QED
    BY <2>1, <2>2
       DEF Next, Step, Guard, Allow, Deny, Defer, GuardRaises, Continue,
           Proceed, ToolFails,
           Enqueue, RetryAfterFailure, RetriesExhausted, RejectCall,
           RunReadTool, RunEligibilityCheck, SendReply, Escalate, IssueRefund,
           AcquireRefundLock, RejectRefund, AcceptRefund, MarkRefunded,
           TakeResult, guardVars, ticketVars, moneyVars
<1>3. QED
  BY <1>1, <1>2, TypeCorrect, VettingCorrect, LedgerCorrect, PTL
     DEF Spec, LedgerSpec, Ledger!Spec
=============================================================================
