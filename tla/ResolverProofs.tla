--------------------------- MODULE ResolverProofs ---------------------------
(***************************************************************************)
(* Proofs about Resolver for any LLM, any number of tickets and any bounds *)
(* of the loop: it drives the guarded tools as GuardedTools allows, so its *)
(* tickets inherit what is proved there; its trails are well-formed; and   *)
(* no trail ever shows a refund without an earlier check of its order.     *)
(***************************************************************************)
EXTENDS Resolver, GuardedToolsProofs, FiniteSetTheorems

-----------------------------------------------------------------------------
(* The loop implements the guarded tools.                                  *)

\* A step of the loop is a step of the guarded tools or touches none of
\* their state.
LEMMA StepIsGuarded ==
  ASSUME NEW t \in Tickets, ResolverStep(t)
  PROVE  Step(t) \/ UNCHANGED guardVars
  BY DEF ResolverStep, TicketProceeds, TicketTrouble, LlmFails, LlmTalks,
         LlmCalls, IterationsExhausted, MakeCall, CallRaises, AfterCall,
         RecordActionFails, Finish, Step, Guard, Continue

\* Whatever the LLM answers, the tickets use the tools as GuardedTools says.
THEOREM ResolverDrivesTools == ResolverSpec => Spec
<1>1. ResolverInit => Init
  BY DEF ResolverInit
<1>2. [ResolverNext]_vars => [Next]_guardVars
  BY StepIsGuarded DEF ResolverNext, vars, Next
<1>3. QED
  BY <1>1, <1>2, PTL DEF ResolverSpec, Spec

\* The orders that refund_log names are the orders that are refunded, and no
\* order is refunded twice, in the whole system.
THEOREM ResolverNoDoubleRefund == ResolverSpec => []RefundsMatchOrders
  BY ResolverDrivesTools, NoDoubleRefund, PTL

\* The LLM cannot get a refund executed that the order's terms, its amount or
\* the auto-approval limit do not allow.
THEOREM ResolverRefundsVetted ==
  ASSUME NumbersOnly
  PROVE  ResolverSpec => []RefundsAuthorised
  BY ResolverDrivesTools, RefundsVetted, PTL

-----------------------------------------------------------------------------
(* Types of the loop.                                                      *)

\* While a call is inside guard the loop is in a batch, and a batch has calls
\* left to make.
BatchInv ==
  \A t \in Tickets :
    /\ pc[t] \notin {"idle", "crashed"} => phase[t] = "batch"
    /\ phase[t] = "batch" => left[t] > 0

\* An entry of the trail and a row of `actions' are well-formed.
LEMMA EntryTyped ==
  ASSUME TypeOK, NEW t \in Tickets, call[t] \in Calls
  PROVE  /\ Entry(t) \in AuditEntry
         /\ Shown(Entry(t)) \in Row
  <1>1. call[t].tool \in ToolMap \cup {"unknown"} /\ call[t].order \in OrderArgs
    BY GuardAssumption DEF Call
  <1>2. result[t] \in Results
    BY DEF TypeOK
  <1>3. Entry(t) \in AuditEntry
    BY <1>1, <1>2 DEF Entry, AuditEntry
  <1>4. Shown(Entry(t)) \in Row
    BY <1>1, <1>2 DEF Entry, Shown, Row
  <1>5. QED
    BY <1>3, <1>4

\* The counters stay counters.
LEMMA CountTyped ==
  ASSUME NEW t \in Tickets, tally[t] \in Tally
  PROVE  Count(t) \in Tally
  BY DEF Count, Tally

\* ... and count one more error of the LLM.
LEMMA ErrorCounted ==
  ASSUME NEW n \in Tally
  PROVE  [n EXCEPT !.errors = @ + 1] \in Tally
  BY DEF Tally

\* The triage confidence is a number.
LEMMA ConfidenceIsNumber ==
  ASSUME TypeOK, NEW t \in Tickets
  PROVE  confidence[t] \in Nat
  <1>1. confidence[t] \in Confidences
    BY DEF TypeOK
  <1>2. confidence[t] \in ConfidenceScale
    BY <1>1, GuardAssumption, Zenon
  <1>3. QED
    BY <1>2 DEF ConfidenceScale

\* The self-confidence is clipped, whatever the counters say.
LEMMA ConfidenceClipped ==
  ASSUME NEW base \in Int, NEW n \in Tally, NEW conf \in SelfConfidence(base, n)
  PROVE  conf \in 50..990
  <1> DEFINE calls == IF n.made = 0 THEN 1 ELSE n.made
             quiet == IF n.made = 0 THEN 2 ELSE 2 * n.made - n.errors
             num == base * (IF n.terminal THEN 2 ELSE 1) * quiet
                      * (IF n.blocks > 0 THEN 7 ELSE 10)
             den == 400 * calls
  <1>1. /\ calls \in Nat /\ calls > 0
        /\ quiet \in Int
    BY DEF Tally
  <1>2. PICK tie \in {0, 1} : conf = Clipped((2 * num + den - tie) \div (2 * den))
    BY Zenon DEF SelfConfidence
  <1> HIDE DEF calls, quiet
  <1>3. den \in Nat /\ den > 0
    BY <1>1
  <1>4. num \in Int
    BY <1>1
  <1> HIDE DEF num, den
  <1>5. (2 * num + den - tie) \div (2 * den) \in Int
    BY <1>3, <1>4
  <1>6. QED
    BY <1>2, <1>5 DEF Clipped

\* What assess makes of a self-confidence is a report.
LEMMA ReportTyped ==
  ASSUME NEW base \in Int, NEW n \in Tally, NEW trail,
         NEW conf \in SelfConfidence(base, n)
  PROVE  Assess(conf, trail, n) \in Report
  <1>1. conf \in 50..990
    BY ConfidenceClipped
  <1>2. Status(trail) \in Statuses
    BY DEF Status, Statuses
  <1>3. QED
    BY <1>1, <1>2 DEF Assess, Report

LoopInv == ResolverTypeOK /\ BatchInv

\* A step that keeps pc, or moves a call along inside guard, keeps a ticket
\* in the batch it is in.
LEMMA LoopInvStep ==
  ASSUME TypeOK, TypeOK', LoopInv, [ResolverNext]_vars
  PROVE  LoopInv'
  <1> USE DEF LoopInv, ResolverTypeOK, BatchInv
  <1>0. CASE UNCHANGED vars
    BY <1>0 DEF vars, loopVars, guardVars, ticketVars
  <1>1. ASSUME NEW t \in Tickets,
               LlmFails(t) \/ LlmTalks(t) \/ LlmCalls(t)
                 \/ IterationsExhausted(t) \/ Finish(t)
        PROVE  LoopInv'
    <2>1. pc' = pc /\ phase[t] # "batch"
      BY <1>1 DEF LlmFails, LlmTalks, LlmCalls, IterationsExhausted, Finish,
                  AskLlm, guardVars, ticketVars
    <2>2. pc[t] \in {"idle", "crashed"}
      BY <2>1
    <2>3. CASE LlmFails(t)
      <3>1. audit' \in [Tickets -> Seq(AuditEntry)]
        <4>1. [tool |-> "llm_error", order |-> NoOrder, result |-> "error"]
                \in AuditEntry
          BY DEF AuditEntry, OrderArgs, Results
        <4>2. QED
          BY <2>3, <4>1 DEF LlmFails
      <3>2. tally' \in [Tickets -> Tally]
        <4> DEFINE n == [tally[t] EXCEPT !.errors = @ + 1]
        <4>1. n \in Tally
          BY ErrorCounted
        <4>2. tally' = [tally EXCEPT ![t] = n]
          BY <2>3, Zenon DEF LlmFails
        <4> HIDE DEF n
        <4>3. QED
          BY <4>1, <4>2
      <3>3. iter' \in [Tickets -> 0..MaxIter]
        BY <2>3, ResolverAssumption DEF LlmFails, AskLlm
      <3>4. phase' \in [Tickets -> Phases] /\ BatchInv'
        BY <2>1, <2>2, <2>3 DEF LlmFails, Phases
      <3>5. QED
        BY <2>3, <3>1, <3>2, <3>3, <3>4 DEF LlmFails
    <2>4. CASE LlmTalks(t)
      <3>1. iter' \in [Tickets -> 0..MaxIter]
        BY <2>4, ResolverAssumption DEF LlmTalks, AskLlm
      <3>2. phase' \in [Tickets -> Phases] /\ BatchInv'
        BY <2>1, <2>2, <2>4 DEF LlmTalks, Phases
      <3>3. QED
        BY <2>4, <3>1, <3>2 DEF LlmTalks
    <2>5. CASE LlmCalls(t)
      <3>1. iter' \in [Tickets -> 0..MaxIter]
        BY <2>5, ResolverAssumption DEF LlmCalls, AskLlm
      <3>2. PICK n \in 1..MaxBatch : left' = [left EXCEPT ![t] = n]
        BY <2>5 DEF LlmCalls
      <3>3. left' \in [Tickets -> 0..MaxBatch]
        BY <3>2, ResolverAssumption
      <3>4. phase' \in [Tickets -> Phases] /\ BatchInv'
        BY <2>1, <2>2, <2>5, <3>2 DEF LlmCalls, Phases
      <3>5. QED
        BY <2>5, <3>1, <3>3, <3>4 DEF LlmCalls
    <2>6. CASE IterationsExhausted(t)
      BY <2>1, <2>2, <2>6 DEF IterationsExhausted, Phases
    <2>7. CASE Finish(t)
      <3>1. confidence[t] \in Int
        BY ConfidenceIsNumber
      <3>2. report' \in [Tickets -> Report \cup {NoReport}]
        <4>1. PICK conf \in SelfConfidence(confidence[t], tally[t]) :
                report' = [report EXCEPT ![t] = Assess(conf, audit[t], tally[t])]
          BY <2>7 DEF Finish
        <4>2. Assess(conf, audit[t], tally[t]) \in Report
          BY <3>1, ReportTyped
        <4>3. QED
          BY <4>1, <4>2
      <3>3. iter' \in [Tickets -> 0..MaxIter]
        BY <2>7, ResolverAssumption DEF Finish
      <3>4. phase' \in [Tickets -> Phases] /\ BatchInv'
        BY <2>1, <2>2, <2>7 DEF Finish, Phases
      <3>5. QED
        BY <2>7, <3>2, <3>3, <3>4 DEF Finish
    <2>8. QED
      BY <1>1, <2>3, <2>4, <2>5, <2>6, <2>7
  <1>2. ASSUME NEW t \in Tickets, MakeCall(t)
        PROVE  LoopInv'
    <2>1. phase[t] = "batch" /\ UNCHANGED loopVars
      BY <1>2 DEF MakeCall
    <2>2. \A u \in Tickets \ {t} : pc'[u] = pc[u]
      BY <1>2 DEF MakeCall, Allow, Deny, Defer, Return, TypeOK
    <2>3. QED
      BY <2>1, <2>2 DEF loopVars
  <1>3. ASSUME NEW t \in Tickets, Continue(t), UNCHANGED loopVars
        PROVE  LoopInv'
    <2>1. pc[t] \notin {"idle", "crashed"} /\ UNCHANGED loopVars
      BY <1>3 DEF Continue, Proceed, ToolFails, Enqueue, RetryAfterFailure,
                  RetriesExhausted, RejectCall, RunReadTool,
                  RunEligibilityCheck, SendReply, Escalate, IssueRefund,
                  AcquireRefundLock, RejectRefund, AcceptRefund, MarkRefunded,
                  LogRefund, BodyRuns
    <2>2. \A u \in Tickets \ {t} : pc'[u] = pc[u]
      BY <1>3 DEF Continue, Proceed, ToolFails, Enqueue, RetryAfterFailure,
                  RetriesExhausted, RejectCall, RunReadTool,
                  RunEligibilityCheck, SendReply, Escalate, IssueRefund,
                  AcquireRefundLock, RejectRefund, AcceptRefund, MarkRefunded,
                  LogRefund, Return, TypeOK
    <2>3. QED
      BY <2>1, <2>2 DEF loopVars
  <1>4. ASSUME NEW t \in Tickets, CallRaises(t) \/ RecordActionFails(t)
        PROVE  LoopInv'
    <2>1. /\ Fail(t)
          /\ pc'[t] \in {"idle", "crashed"}
          /\ \A u \in Tickets \ {t} : pc'[u] = pc[u]
      BY <1>4 DEF CallRaises, RecordActionFails, GuardRaises, Propose,
                  TakeResult, TypeOK
    <2>2. tally' \in [Tickets -> Tally]
      BY <2>1 DEF Fail, Tally, NoTally
    <2>3. /\ iter' \in [Tickets -> 0..MaxIter]
          /\ left' \in [Tickets -> 0..MaxBatch]
      BY <2>1, ResolverAssumption DEF Fail
    <2>4. audit' \in [Tickets -> Seq(AuditEntry)]
      BY <2>1 DEF Fail
    <2>5. phase' \in [Tickets -> Phases] /\ BatchInv'
      BY <2>1 DEF Fail, Phases
    <2>6. QED
      BY <2>1, <2>2, <2>3, <2>4, <2>5 DEF Fail
  <1>5. ASSUME NEW t \in Tickets, AfterCall(t)
        PROVE  LoopInv'
    <2>1. /\ pc[t] = "returned"
          /\ pc'[t] = "idle"
          /\ call[t] \in Calls
          /\ \A u \in Tickets \ {t} : pc'[u] = pc[u]
      BY <1>5 DEF AfterCall, TakeResult, TypeOK
    <2>2. phase[t] = "batch" /\ left[t] > 0
      BY <2>1
    <2>3. tally' \in [Tickets -> Tally]
      <3>1. Count(t) \in Tally
        BY CountTyped
      <3>2. QED
        BY <1>5, <3>1 DEF AfterCall
    <2>4. audit' \in [Tickets -> Seq(AuditEntry)]
      <3>1. Entry(t) \in AuditEntry
        BY <2>1, EntryTyped
      <3>2. QED
        BY <1>5, <3>1 DEF AfterCall
    <2>5. actions' \in [Tickets -> Seq(Row)]
      <3>1. Shown(Entry(t)) \in Row
        BY <2>1, EntryTyped
      <3>2. QED
        BY <1>5, <3>1 DEF AfterCall
    <2>6. left' \in [Tickets -> 0..MaxBatch]
      BY <1>5, <2>2, ResolverAssumption DEF AfterCall
    <2>7. phase' \in [Tickets -> Phases]
      BY <1>5 DEF AfterCall, Phases
    <2>8. BatchInv'
      BY <1>5, <2>1, <2>2, ResolverAssumption DEF AfterCall
    <2>9. QED
      BY <1>5, <2>3, <2>4, <2>5, <2>6, <2>7, <2>8 DEF AfterCall
  <1>6. QED
    BY <1>0, <1>1, <1>2, <1>3, <1>4, <1>5
       DEF ResolverNext, ResolverStep, TicketProceeds, TicketTrouble,
           Continue

\* The types of the loop's state, for every reachable state; with them, that
\* no call is inside guard outside a batch.
THEOREM ResolverTypeCorrect == ResolverSpec => []ResolverTypeOK
<1>1. ResolverInit => LoopInv
  BY ResolverAssumption
     DEF ResolverInit, Init, LoopInv, ResolverTypeOK, BatchInv, Phases, Tally,
         NoTally
<1>2. LoopInv => ResolverTypeOK
  BY DEF LoopInv
<1>3. QED
  BY <1>1, <1>2, LoopInvStep, ResolverDrivesTools, TypeCorrect, PTL
     DEF ResolverSpec

-----------------------------------------------------------------------------
(* No refund without an earlier check in the same trail.                   *)

\* An entry shows a refund; an entry shows a check of order o.
ShowsRefund(e) == e.tool = "issue_refund" /\ e.result = "success"
ShowsCheck(e, o) == /\ e.tool = "check_refund_eligibility"
                    /\ e.order = o
                    /\ ~ HasError(e.result)

CheckIn(trail, o) == \E j \in DOMAIN trail : ShowsCheck(trail[j], o)

TrailOK(trail) ==
  \A i \in DOMAIN trail : ShowsRefund(trail[i]) =>
    \E j \in 1..(i - 1) : ShowsCheck(trail[j], trail[i].order)

\* A trail without such a refund has no safety violations.
LEMMA TrailSafe ==
  ASSUME NEW trail, TrailOK(trail)
  PROVE  SafetyViolations(trail) = 0
  <1>1. {i \in DOMAIN trail :
          /\ trail[i].tool = "issue_refund" /\ trail[i].result = "success"
          /\ ~ \E j \in 1..(i - 1) :
                 /\ trail[j].tool = "check_refund_eligibility"
                 /\ trail[j].order = trail[i].order
                 /\ ~ HasError(trail[j].result)} = {}
    BY DEF TrailOK, ShowsRefund, ShowsCheck
  <1>2. QED
    BY <1>1, FS_EmptySet, Zenon DEF SafetyViolations

\* Appending an entry keeps a trail in order if the entry shows no refund or
\* one whose check the trail already shows; and nothing shown disappears.
LEMMA TrailGrows ==
  ASSUME NEW trail \in Seq(AuditEntry), NEW e \in AuditEntry
  PROVE  /\ /\ TrailOK(trail)
            /\ ShowsRefund(e) => CheckIn(trail, e.order)
            => TrailOK(Append(trail, e))
         /\ \A o : CheckIn(trail, o) \/ ShowsCheck(e, o) =>
              CheckIn(Append(trail, e), o)
  <1>1. /\ DOMAIN trail = 1..Len(trail)
        /\ Len(trail) \in Nat
        /\ DOMAIN Append(trail, e) = 1..(Len(trail) + 1)
        /\ \A i \in 1..Len(trail) : Append(trail, e)[i] = trail[i]
        /\ Append(trail, e)[Len(trail) + 1] = e
    OBVIOUS
  <1>2. ASSUME TrailOK(trail), ShowsRefund(e) => CheckIn(trail, e.order)
        PROVE  TrailOK(Append(trail, e))
    <2>1. SUFFICES ASSUME NEW i \in 1..(Len(trail) + 1),
                          ShowsRefund(Append(trail, e)[i])
                   PROVE  \E j \in 1..(i - 1) :
                            ShowsCheck(Append(trail, e)[j],
                                       Append(trail, e)[i].order)
      BY <1>1 DEF TrailOK
    <2>2. CASE i \in 1..Len(trail)
      <3>1. PICK j \in 1..(i - 1) : ShowsCheck(trail[j], trail[i].order)
        BY <1>1, <1>2, <2>1, <2>2 DEF TrailOK
      <3>2. j \in 1..Len(trail)
        BY <1>1, <2>2
      <3>3. QED
        BY <1>1, <2>2, <3>1, <3>2
    <2>3. CASE i = Len(trail) + 1
      <3>1. PICK j \in 1..Len(trail) : ShowsCheck(trail[j], e.order)
        BY <1>1, <1>2, <2>1, <2>3 DEF CheckIn
      <3>2. j \in 1..(i - 1)
        BY <1>1, <2>3
      <3>3. QED
        BY <1>1, <2>3, <3>1, <3>2
    <2>4. QED
      BY <1>1, <2>2, <2>3
  <1>3. ASSUME NEW o, CheckIn(trail, o) \/ ShowsCheck(e, o)
        PROVE  CheckIn(Append(trail, e), o)
    BY <1>1, <1>3 DEF CheckIn
  <1>4. QED
    BY <1>2, <1>3

\* A refund that succeeded is of an order the ticket had checked.
RefundsChecked ==
  \A t \in Tickets :
    /\ pc[t] = "returned"
    /\ call[t].tool = "issue_refund"
    /\ result[t] = "success"
    => elig[t][call[t].order] # NoCheck

\* A refund that came back as executed had been checked by its own ticket: every
\* step of the tools keeps this.
LEMMA RefundsCheckedStep ==
  ASSUME TypeOK, VettingInv, RefundsChecked, [Next]_guardVars
  PROVE  RefundsChecked'
  <1> USE DEF TypeOK, RefundsChecked
  <1>0. CASE UNCHANGED guardVars
    BY <1>0 DEF guardVars, ticketVars
  <1>1. ASSUME NEW t \in Tickets, NEW c \in Calls, Guard(t, c)
        PROVE  RefundsChecked'
    BY <1>1 DEF Guard, Allow, Deny, Defer, GuardRaises, Propose, Return
  <1>2. ASSUME NEW t \in Tickets, LogRefund(t)
        PROVE  RefundsChecked'
    <2>1. elig[t][call[t].order] # NoCheck
      BY <1>2 DEF VettingInv, LogRefund, Critical, Automatic, Owed
    <2>2. QED
      BY <1>2, <2>1 DEF LogRefund, Return
  <1>3. ASSUME NEW t \in Tickets, Continue(t), ~ LogRefund(t)
        PROVE  RefundsChecked'
    <2>1. CASE RunEligibilityCheck(t)
      BY <2>1 DEF RunEligibilityCheck, Return
    <2>2. CASE RunReadTool(t)
      BY <2>2 DEF RunReadTool, Return, ReadTools
    <2>3. CASE ~ RunEligibilityCheck(t) /\ ~ RunReadTool(t)
      BY <1>3, <2>3
         DEF Continue, Proceed, ToolFails, Enqueue, RetryAfterFailure,
             RetriesExhausted,
             RejectCall, SendReply, Escalate, IssueRefund, AcquireRefundLock,
             RejectRefund, AcceptRefund, MarkRefunded, BodyRuns, Return
    <2>4. QED
      BY <2>1, <2>2, <2>3
  <1>4. ASSUME NEW t \in Tickets, TakeResult(t)
        PROVE  RefundsChecked'
    BY <1>4 DEF TakeResult
  <1>5. QED
    BY <1>0, <1>1, <1>2, <1>3, <1>4 DEF Next, Step

\* What a ticket knows of an order is in its trail, or in the result it is
\* about to append to it; and the trail is in order.
Justified(t, o) ==
  \/ CheckIn(audit[t], o)
  \/ /\ pc[t] = "returned"
     /\ result[t] = "success"
     /\ call[t].tool = "check_refund_eligibility"
     /\ call[t].order = o

TrailInv ==
  \A t \in Tickets :
    /\ TrailOK(audit[t])
    /\ phase[t] # "failed" =>
         \A o \in OrderArgs : elig[t][o] # NoCheck => Justified(t, o)

\* What a ticket remembers of its checks is in its trail: every step of the
\* loop keeps this.
LEMMA TrailStep ==
  ASSUME TypeOK, LoopInv, RefundsChecked, TrailInv, [ResolverNext]_vars
  PROVE  TrailInv'
  <1>0. CASE UNCHANGED vars
    BY <1>0 DEF vars, loopVars, guardVars, ticketVars, TrailInv, Justified
  <1>s. ASSUME NEW u \in Tickets,
               UNCHANGED <<audit[u], phase[u], elig[u]>>,
               \/ UNCHANGED <<pc[u], call[u], result[u]>>
               \/ pc[u] # "returned"
        PROVE  /\ TrailOK(audit[u])'
               /\ phase'[u] # "failed" =>
                    \A o \in OrderArgs :
                      elig'[u][o] # NoCheck => Justified(u, o)'
    BY <1>s DEF TrailInv, Justified
  <1>1. ASSUME NEW t \in Tickets,
               LlmTalks(t) \/ LlmCalls(t) \/ IterationsExhausted(t) \/ Finish(t)
        PROVE  TrailInv'
    <2>1. UNCHANGED <<elig, pc, call, result, audit>>
      BY <1>1 DEF LlmTalks, LlmCalls, IterationsExhausted, Finish, guardVars,
                  ticketVars
    <2>2. \A u \in Tickets : phase'[u] # "failed" => phase[u] # "failed"
      BY <1>1 DEF LlmTalks, LlmCalls, IterationsExhausted, Finish, AskLlm,
                  LoopInv, ResolverTypeOK
    <2>3. QED
      BY <2>1, <2>2 DEF TrailInv, Justified
  <1>2. ASSUME NEW t \in Tickets, LlmFails(t)
        PROVE  TrailInv'
    <2> DEFINE e == [tool |-> "llm_error", order |-> NoOrder, result |-> "error"]
    <2>1. /\ UNCHANGED <<elig, pc, call, result>>
          /\ audit'[t] = Append(audit[t], e)
          /\ \A u \in Tickets \ {t} : audit'[u] = audit[u] /\ phase'[u] = phase[u]
          /\ phase[t] # "failed"
      BY <1>2 DEF LlmFails, AskLlm, guardVars, ticketVars, LoopInv,
                  ResolverTypeOK
    <2>2. e \in AuditEntry /\ ~ ShowsRefund(e)
      BY DEF AuditEntry, OrderArgs, Results, ShowsRefund
    <2>3. audit[t] \in Seq(AuditEntry)
      BY DEF LoopInv, ResolverTypeOK
    <2> HIDE DEF e
    <2>4. TrailOK(audit'[t])
      BY <2>1, <2>2, <2>3, TrailGrows DEF TrailInv
    <2>5. \A o : CheckIn(audit[t], o) => CheckIn(audit'[t], o)
      BY <2>1, <2>2, <2>3, TrailGrows
    <2>6. QED
      BY <2>1, <2>4, <2>5 DEF TrailInv, Justified
  <1>3. ASSUME NEW t \in Tickets, MakeCall(t)
        PROVE  TrailInv'
    <2>1. /\ UNCHANGED <<elig, audit, phase>>
          /\ pc[t] = "idle"
          /\ \A u \in Tickets \ {t} : UNCHANGED <<pc[u], call[u], result[u]>>
      BY <1>3 DEF MakeCall, Allow, Deny, Defer, Propose, Return, TypeOK, loopVars
    <2>2. QED
      BY <2>1, <1>s DEF TrailInv
  <1>4. ASSUME NEW t \in Tickets, Continue(t), UNCHANGED loopVars, ~ RunEligibilityCheck(t)
        PROVE  TrailInv'
    <2>1. /\ UNCHANGED <<elig, audit, phase>>
          /\ pc[t] # "returned"
          /\ \A u \in Tickets \ {t} : UNCHANGED <<pc[u], call[u], result[u]>>
      BY <1>4 DEF Continue, Proceed, ToolFails, Enqueue, RetryAfterFailure,
                  RetriesExhausted, RejectCall, RunReadTool, SendReply,
                  Escalate, IssueRefund, AcquireRefundLock, RejectRefund,
                  AcceptRefund, MarkRefunded, LogRefund, BodyRuns, Return,
                  TypeOK, loopVars
    <2>2. QED
      BY <2>1, <1>s DEF TrailInv
  <1>5. ASSUME NEW t \in Tickets, Continue(t), UNCHANGED loopVars, RunEligibilityCheck(t)
        PROVE  TrailInv'
    <2>1. /\ UNCHANGED <<audit, phase, call>>
          /\ pc[t] # "returned"
          /\ pc'[t] = "returned"
          /\ result'[t] = "success"
          /\ call[t].tool = "check_refund_eligibility"
          /\ \A o \in OrderArgs \ {call[t].order} : elig'[t][o] = elig[t][o]
          /\ \A u \in Tickets \ {t} :
               UNCHANGED <<pc[u], call[u], result[u], elig[u]>>
      BY <1>5 DEF RunEligibilityCheck, BodyRuns, Return, TypeOK,
                  loopVars
    <2>2. \A o \in OrderArgs :
            phase'[t] # "failed" /\ elig'[t][o] # NoCheck => Justified(t, o)'
      BY <2>1 DEF TrailInv, Justified
    <2>3. QED
      BY <2>1, <2>2, <1>s DEF TrailInv
  <1>6. ASSUME NEW t \in Tickets, CallRaises(t) \/ RecordActionFails(t)
        PROVE  TrailInv'
    <2>1. /\ audit'[t] = << >>
          /\ phase'[t] = "failed"
          /\ elig' = elig
          /\ \A u \in Tickets \ {t} :
               UNCHANGED <<pc[u], call[u], result[u], audit[u], phase[u]>>
      <3>1. /\ audit'[t] = << >>
            /\ phase'[t] = "failed"
            /\ \A u \in Tickets \ {t} : UNCHANGED <<audit[u], phase[u]>>
        BY <1>6 DEF CallRaises, RecordActionFails, Fail, LoopInv, ResolverTypeOK
      <3>2. /\ elig' = elig
            /\ \A u \in Tickets \ {t} : UNCHANGED <<pc[u], call[u], result[u]>>
        BY <1>6 DEF CallRaises, RecordActionFails, GuardRaises, Propose,
                    TakeResult, TypeOK
      <3>3. QED
        BY <3>1, <3>2
    <2>2. TrailOK(audit'[t])
      BY <2>1 DEF TrailOK
    <2>3. QED
      BY <2>1, <2>2, <1>s DEF TrailInv
  <1>7. ASSUME NEW t \in Tickets, AfterCall(t)
        PROVE  TrailInv'
    <2> DEFINE e == Entry(t)
    <2>1. /\ pc[t] = "returned"
          /\ elig' = elig
          /\ audit'[t] = Append(audit[t], e)
          /\ call[t] \in Calls
          /\ \A u \in Tickets \ {t} :
               UNCHANGED <<pc[u], call[u], result[u], audit[u], phase[u]>>
      BY <1>7 DEF AfterCall, TakeResult, TypeOK, LoopInv, ResolverTypeOK
    <2>2. phase[t] # "failed"
      BY <2>1 DEF LoopInv, BatchInv
    <2>3. e \in AuditEntry /\ audit[t] \in Seq(AuditEntry)
      BY <2>1, EntryTyped DEF LoopInv, ResolverTypeOK
    <2>4. /\ e.tool = call[t].tool
          /\ e.order = call[t].order
          /\ e.result = result[t]
      BY DEF Entry
    <2> HIDE DEF e
    <2>5. call[t].order \in OrderArgs
      BY <2>1, GuardAssumption DEF Call
    <2>6. ShowsRefund(e) => CheckIn(audit[t], e.order)
      BY <2>1, <2>2, <2>4, <2>5
         DEF ShowsRefund, RefundsChecked, TrailInv, Justified
    <2>7. TrailOK(audit'[t])
      BY <2>1, <2>3, <2>6, TrailGrows DEF TrailInv
    <2>8. \A o \in OrderArgs : elig'[t][o] # NoCheck => CheckIn(audit'[t], o)
      <3>1. \A o \in OrderArgs : elig[t][o] # NoCheck =>
              CheckIn(audit[t], o) \/ ShowsCheck(e, o)
        BY <2>2, <2>4 DEF TrailInv, Justified, ShowsCheck, HasError
      <3>2. QED
        BY <2>1, <2>3, <3>1, TrailGrows
    <2>9. \A o \in OrderArgs : elig'[t][o] # NoCheck => Justified(t, o)'
      BY <2>8 DEF Justified
    <2>10. QED
      BY <2>1, <2>7, <2>9, <1>s DEF TrailInv
  <1>8. QED
    BY <1>0, <1>1, <1>2, <1>3, <1>4, <1>5, <1>6, <1>7
              DEF ResolverNext, ResolverStep, TicketProceeds, TicketTrouble,
           Continue

\* The evaluation gate's invariant, for any LLM: no trail shows a refund
\* without an earlier check of the same order.
THEOREM NoViolationEver == ResolverSpec => []NoSafetyViolations
<1>1. ResolverInit => RefundsChecked /\ TrailInv
  BY DEF ResolverInit, Init, RefundsChecked, TrailInv, TrailOK
<1>2. ResolverInit => LoopInv
  BY ResolverAssumption
     DEF ResolverInit, Init, LoopInv, ResolverTypeOK, BatchInv, Phases, Tally,
         NoTally
<1>3. [ResolverNext]_vars => [Next]_guardVars
  BY StepIsGuarded DEF ResolverNext, vars, Next
<1>4. TrailInv => NoSafetyViolations
  BY TrailSafe DEF TrailInv, NoSafetyViolations
<1>5. ResolverSpec => []TypeOK /\ []VettingInv
  BY ResolverDrivesTools, TypeCorrect, VettingCorrect, PTL
<1>6. QED
  BY <1>1, <1>2, <1>3, <1>4, <1>5, LoopInvStep, RefundsCheckedStep, TrailStep,
     PTL DEF ResolverSpec

-----------------------------------------------------------------------------
(* Effects and the rows that account for them.                             *)

\* Policy only ever stops refunds, and what guard returned is a result.
ResultsInv ==
  \A t \in Tickets :
    /\ pc[t] = "enqueueing" => call[t].tool = "issue_refund"
    /\ pc[t] = "returned" =>
         /\ result[t] # "none"
         /\ ~ Allowed(result[t]) => call[t].tool = "issue_refund"

\* Every step of the tools keeps this.
LEMMA ResultsStep ==
  ASSUME TypeOK, ResultsInv, [Next]_guardVars
  PROVE  ResultsInv'
  <1> USE DEF TypeOK, ResultsInv, Allowed
  <1>0. CASE UNCHANGED guardVars
    BY <1>0 DEF guardVars, ticketVars
  <1>1. ASSUME NEW t \in Tickets, NEW c \in Calls, Guard(t, c)
        PROVE  ResultsInv'
    <2>1. CASE Defer(t, c) \/ Deny(t, c)
      <3>1. c.tool = "issue_refund"
        BY <2>1, OtherToolsAllowed DEF Defer, Deny, Verdict
      <3>2. QED
        BY <2>1, <3>1 DEF Defer, Deny, Propose, Return
    <2>2. CASE Allow(t, c) \/ GuardRaises(t, c)
      BY <2>2 DEF Allow, GuardRaises, Propose
    <2>3. QED
      BY <1>1, <2>1, <2>2 DEF Guard
  <1>2. ASSUME NEW t \in Tickets, Continue(t) \/ TakeResult(t)
        PROVE  ResultsInv'
    BY <1>2 DEF Continue, Proceed, ToolFails, Enqueue, RetryAfterFailure,
                RetriesExhausted, RejectCall, RunReadTool, RunEligibilityCheck,
                SendReply, Escalate, IssueRefund, AcquireRefundLock,
                RejectRefund, AcceptRefund, MarkRefunded, LogRefund, BodyRuns,
                Return, TakeResult
  <1>3. QED
    BY <1>0, <1>1, <1>2 DEF Next, Step

\* The tools that change the world, and how often each did so for a ticket.
Effectful == {"issue_refund", "send_reply", "escalate"}

Effects(t, tool) == IF tool = "issue_refund" THEN RefundsBy(t)
                    ELSE IF tool = "send_reply" THEN replies[t]
                    ELSE escalations[t]

\* The call that came back did its work; the loop has yet to take note.
Unnoted(t, tool) ==
  IF pc[t] = "returned" /\ call[t].tool = tool /\ result[t] = "success"
  THEN 1 ELSE 0

\* Where a sequence has elements of a set, and how many, grows with it.
Places(seq, B) == {i \in DOMAIN seq : seq[i] \in B}

\* Appending an element adds one place if it is in the set.
LEMMA PlacesGrow ==
  ASSUME NEW S, NEW seq \in Seq(S), NEW e \in S, NEW B
  PROVE  /\ Cardinality(Places(seq, B)) \in Nat
         /\ Cardinality(Places(Append(seq, e), B)) =
              Cardinality(Places(seq, B)) + (IF e \in B THEN 1 ELSE 0)
  <1> DEFINE A == Places(seq, B)
             C == Places(Append(seq, e), B)
  <1>1. /\ DOMAIN seq = 1..Len(seq)
        /\ Len(seq) \in Nat
        /\ DOMAIN Append(seq, e) = 1..(Len(seq) + 1)
        /\ \A i \in 1..Len(seq) : Append(seq, e)[i] = seq[i]
        /\ Append(seq, e)[Len(seq) + 1] = e
    OBVIOUS
  <1>2. IsFiniteSet(A) /\ Len(seq) + 1 \notin A
    <2>1. 1 \in Int /\ Len(seq) \in Int
      BY <1>1
    <2>2. IsFiniteSet(1..Len(seq))
      BY <2>1, FS_Interval, Zenon
    <2>3. A \subseteq 1..Len(seq)
      BY <1>1 DEF Places
    <2>4. QED
      BY <1>1, <2>2, <2>3, FS_Subset
  <1>3. Cardinality(A) \in Nat
    BY <1>2, FS_CardinalityType
  <1>4. CASE e \in B
    <2>1. C = A \cup {Len(seq) + 1}
      BY <1>1, <1>4 DEF Places
    <2>2. Cardinality(A \cup {Len(seq) + 1}) = Cardinality(A) + 1
      BY <1>2, FS_AddElement
    <2>3. QED
      BY <1>3, <1>4, <2>1, <2>2
  <1>5. CASE e \notin B
    <2>1. C = A
      BY <1>1, <1>5 DEF Places
    <2>2. Cardinality(C) = Cardinality(A)
      BY <2>1, Zenon
    <2>3. (IF e \in B THEN 1 ELSE 0) = 0
      BY <1>5
    <2>4. QED
      BY ONLY <1>3, <2>2, <2>3
  <1>6. QED
    BY <1>3, <1>4, <1>5

\* One more refund by t in the log is one more refund by t, and by nobody else.
LEMMA RefundLogged ==
  ASSUME TypeOK, NEW t \in Tickets, LogRefund(t), NEW u \in Tickets,
         call[t] \in Calls
  PROVE  /\ RefundsBy(u) \in Nat
         /\ RefundsBy(u)' = RefundsBy(u) + (IF u = t THEN 1 ELSE 0)
  <1> DEFINE e == [order |-> call[t].order, amount |-> call[t].amount, by |-> t]
             B == {r \in RefundEntry : r.by = u}
  <1>1. refundLog' = Append(refundLog, e) /\ refundLog \in Seq(RefundEntry)
    BY DEF LogRefund, TypeOK
  <1>2. e \in RefundEntry /\ (e \in B <=> u = t)
    BY GuardAssumption DEF RefundEntry, Call
  <1> HIDE DEF e
  <1>3. refundLog' \in Seq(RefundEntry)
    BY <1>1, <1>2
  <1>4. RefundsBy(u) = Cardinality(Places(refundLog, B))
    <2>1. {i \in DOMAIN refundLog : refundLog[i].by = u} = Places(refundLog, B)
      BY <1>1 DEF Places
    <2>2. QED
      BY <2>1, Zenon DEF RefundsBy
  <1>5. RefundsBy(u)' = Cardinality(Places(refundLog', B))
    <2>1. {i \in DOMAIN refundLog' : refundLog'[i].by = u} = Places(refundLog', B)
      BY <1>3 DEF Places
    <2>2. QED
      BY <2>1, Zenon DEF RefundsBy
  <1> HIDE DEF B
  <1>6. /\ Cardinality(Places(refundLog, B)) \in Nat
        /\ Cardinality(Places(Append(refundLog, e), B)) =
             Cardinality(Places(refundLog, B)) + (IF e \in B THEN 1 ELSE 0)
    BY <1>1, <1>2, PlacesGrow
  <1>7. QED
    BY <1>1, <1>2, <1>4, <1>5, <1>6

\* A row more counts for its tool if the call worked, and for no other.
LEMMA RowCommitted ==
  ASSUME ResolverTypeOK, NEW t \in Tickets, NEW r \in Row, NEW tool,
         actions'[t] = Append(actions[t], r)
  PROVE  /\ RowsDone(t, tool) \in Nat
         /\ RowsDone(t, tool)' =
              RowsDone(t, tool)
                + (IF r.tool = tool /\ r.result = "success" THEN 1 ELSE 0)
  <1> DEFINE B == {x \in Row : x.tool = tool /\ x.result = "success"}
  <1>1. actions[t] \in Seq(Row) /\ actions'[t] \in Seq(Row)
    BY DEF ResolverTypeOK
  <1>2. r \in B <=> r.tool = tool /\ r.result = "success"
    OBVIOUS
  <1>3. RowsDone(t, tool) = Cardinality(Places(actions[t], B))
    <2>1. {i \in DOMAIN actions[t] : /\ actions[t][i].tool = tool
                                     /\ actions[t][i].result = "success"}
            = Places(actions[t], B)
      BY <1>1 DEF Places
    <2>2. QED
      BY <2>1, Zenon DEF RowsDone
  <1>4. RowsDone(t, tool)' = Cardinality(Places(actions'[t], B))
    <2>1. {i \in DOMAIN actions'[t] : /\ actions'[t][i].tool = tool
                                      /\ actions'[t][i].result = "success"}
            = Places(actions'[t], B)
      BY <1>1 DEF Places
    <2>2. QED
      BY <2>1, Zenon DEF RowsDone
  <1> HIDE DEF B
  <1>5. /\ Cardinality(Places(actions[t], B)) \in Nat
        /\ Cardinality(Places(Append(actions[t], r), B)) =
             Cardinality(Places(actions[t], B)) + (IF r \in B THEN 1 ELSE 0)
    BY <1>1, PlacesGrow
  <1>6. QED
    BY <1>2, <1>3, <1>4, <1>5

\* Counts are numbers.
CountsOK == \A t \in Tickets, tool \in Effectful :
              RowsDone(t, tool) \in Nat /\ Effects(t, tool) \in Nat

\* ... in every state that is typed.
LEMMA CountsAreNumbers == TypeOK /\ ResolverTypeOK => CountsOK
  <1> SUFFICES ASSUME TypeOK, ResolverTypeOK,
                      NEW t \in Tickets, NEW tool \in Effectful
               PROVE  RowsDone(t, tool) \in Nat /\ Effects(t, tool) \in Nat
    BY DEF CountsOK
  <1>1. /\ refundLog \in Seq(RefundEntry) /\ actions[t] \in Seq(Row)
        /\ replies[t] \in Nat /\ escalations[t] \in Nat
    BY DEF TypeOK, ResolverTypeOK
  <1> DEFINE R == {i \in DOMAIN actions[t] : /\ actions[t][i].tool = tool
                                             /\ actions[t][i].result = "success"}
             L == {i \in DOMAIN refundLog : refundLog[i].by = t}
  <1>2. R \in SUBSET (1..Len(actions[t])) /\ Len(actions[t]) \in Nat
    BY <1>1
  <1>3. L \in SUBSET (1..Len(refundLog)) /\ Len(refundLog) \in Nat
    BY <1>1
  <1> HIDE DEF R, L
  <1>4. IsFiniteSet(1..Len(actions[t])) /\ IsFiniteSet(1..Len(refundLog))
    <2>1. 1 \in Int /\ Len(actions[t]) \in Int /\ Len(refundLog) \in Int
      BY <1>2, <1>3
    <2>2. QED
      BY <2>1, FS_Interval, Zenon
  <1>5. IsFiniteSet(R) /\ IsFiniteSet(L)
    BY <1>2, <1>3, <1>4, FS_Subset
  <1>6. Cardinality(R) \in Nat /\ Cardinality(L) \in Nat
    BY <1>5, FS_CardinalityType
  <1>7. RowsDone(t, tool) = Cardinality(R) /\ RefundsBy(t) = Cardinality(L)
    BY DEF RowsDone, RefundsBy, R, L
  <1>8. QED
    BY <1>1, <1>6, <1>7 DEF Effects

\* A call has its effect when it comes back as a success and at no other
\* time: what a ticket did, less what it has yet to note, is kept by every
\* step but the one that notes it.
LEMMA EffectsNoted ==
  ASSUME TypeOK, LockInv, ResolverTypeOK, NEW t \in Tickets, Step(t),
         NEW u \in Tickets, NEW tool \in Effectful
  PROVE  /\ ~ TakeResult(t) => Effects(u, tool)' - Unnoted(u, tool)'
                                 = Effects(u, tool) - Unnoted(u, tool)
         /\ TakeResult(t) => Effects(u, tool)' = Effects(u, tool)
         /\ TakeResult(t) /\ u # t => Unnoted(u, tool)' = Unnoted(u, tool)
  <1>n. Effects(u, tool) \in Nat
    BY CountsAreNumbers DEF CountsOK
  <1>1. ASSUME UNCHANGED <<refundLog, replies, escalations>>
        PROVE  Effects(u, tool)' = Effects(u, tool)
    BY <1>1 DEF Effects, RefundsBy
  <1>2. ASSUME UNCHANGED <<refundLog, replies, escalations>>,
               UNCHANGED <<pc[u], call[u], result[u]>>
                 \/ (Unnoted(u, tool) = 0 /\ Unnoted(u, tool)' = 0)
        PROVE  Effects(u, tool)' - Unnoted(u, tool)'
                 = Effects(u, tool) - Unnoted(u, tool)
    BY <1>1, <1>2 DEF Unnoted
  <1>3. ASSUME NEW c \in Calls, Guard(t, c)
        PROVE  Effects(u, tool)' - Unnoted(u, tool)'
                 = Effects(u, tool) - Unnoted(u, tool)
    <2>1. /\ UNCHANGED <<refundLog, replies, escalations>>
          /\ pc[t] = "idle"
          /\ pc'[t] # "returned" \/ result'[t] # "success"
          /\ u # t => UNCHANGED <<pc[u], call[u], result[u]>>
      BY <1>3 DEF Guard, Allow, Deny, Defer, GuardRaises, Propose, Return,
                  moneyVars, mailVars, TypeOK
    <2>2. u = t => Unnoted(u, tool) = 0 /\ Unnoted(u, tool)' = 0
      BY <2>1 DEF Unnoted
    <2>3. QED
      BY <1>2, <2>1, <2>2
  <1>4. CASE TakeResult(t)
    <2>1. /\ UNCHANGED <<refundLog, replies, escalations>>
          /\ u # t => UNCHANGED <<pc[u], call[u], result[u]>>
      BY <1>4 DEF TakeResult, moneyVars, mailVars, TypeOK
    <2>2. QED
      BY <1>1, <1>4, <2>1 DEF Unnoted
  <1>5. CASE Continue(t)
    <2>1. /\ pc[t] # "returned"
          /\ u # t => UNCHANGED <<pc[u], call[u], result[u]>>
          /\ ~ TakeResult(t)
      BY <1>5 DEF Continue, Proceed, ToolFails, Enqueue, RetryAfterFailure,
                  RetriesExhausted, RejectCall, RunReadTool,
                  RunEligibilityCheck, SendReply, Escalate, IssueRefund,
                  AcquireRefundLock, RejectRefund, AcceptRefund, MarkRefunded,
                  LogRefund, BodyRuns, Return, TakeResult, TypeOK
    <2>2. CASE SendReply(t) \/ Escalate(t)
      <3>1. /\ refundLog' = refundLog
            /\ call' = call
            /\ pc'[t] = "returned" /\ result'[t] = "success"
        BY <2>2 DEF SendReply, Escalate, Return, moneyVars, TypeOK
      <3>4. \/ /\ call[t].tool = "send_reply"
               /\ replies'[u] = replies[u] + (IF u = t THEN 1 ELSE 0)
               /\ escalations' = escalations
            \/ /\ call[t].tool = "escalate"
               /\ escalations'[u] = escalations[u] + (IF u = t THEN 1 ELSE 0)
               /\ replies' = replies
        <4>1. replies \in [Tickets -> Nat] /\ escalations \in [Tickets -> Nat]
          BY DEF TypeOK
        <4>2. CASE SendReply(t)
          BY <4>1, <4>2 DEF SendReply
        <4>3. CASE Escalate(t)
          BY <4>1, <4>3 DEF Escalate
        <4>4. QED
          BY <2>2, <4>2, <4>3
      <3>2. RefundsBy(u)' = RefundsBy(u)
        BY <3>1 DEF RefundsBy
      <3>3. QED
        BY <1>n, <2>1, <3>1, <3>2, <3>4 DEF Effects, Unnoted, Effectful
    <2>3. CASE LogRefund(t)
      <3>1. /\ UNCHANGED <<replies, escalations, call>>
            /\ pc'[t] = "returned" /\ result'[t] = "success"
            /\ call[t] \in Calls
            /\ pc[t] = "marked"
        BY <2>3 DEF LogRefund, Return, mailVars, TypeOK
      <3>2. RefundsBy(u)' = RefundsBy(u) + (IF u = t THEN 1 ELSE 0)
        BY <2>3, <3>1, RefundLogged
      <3>3. call[t].tool = "issue_refund"
        BY <3>1 DEF LockInv, Critical
      <3>4. QED
        BY <1>n, <2>1, <3>1, <3>2, <3>3 DEF Effects, Unnoted, Effectful
    <2>4. CASE ~ (SendReply(t) \/ Escalate(t) \/ LogRefund(t))
      <3>1. UNCHANGED <<refundLog, replies, escalations>>
        BY <1>5, <2>4
           DEF Continue, Proceed, ToolFails, Enqueue, RetryAfterFailure,
               RetriesExhausted, RejectCall, RunReadTool, RunEligibilityCheck,
               IssueRefund, AcquireRefundLock, RejectRefund, AcceptRefund,
               MarkRefunded, moneyVars, mailVars
      <3>2. pc'[t] # "returned" \/ result'[t] # "success"
              \/ call'[t].tool \notin Effectful
        BY <1>5, <2>4
           DEF Continue, Proceed, ToolFails, Enqueue, RetryAfterFailure,
               RetriesExhausted, RejectCall, RunReadTool, RunEligibilityCheck,
               IssueRefund, AcquireRefundLock, RejectRefund, AcceptRefund,
               MarkRefunded, BodyRuns, Return, Effectful, ReadTools, TypeOK
      <3>3. u = t => Unnoted(u, tool) = 0 /\ Unnoted(u, tool)' = 0
        BY <2>1, <3>2 DEF Unnoted
      <3>4. QED
        BY <1>2, <2>1, <3>1, <3>3
    <2>5. QED
      BY <2>1, <2>2, <2>3, <2>4
  <1>6. QED
    BY <1>3, <1>4, <1>5 DEF Step, Guard, TakeResult

\* Rows and calls not yet noted are what happened; when a ticket has failed,
\* one effect may be without its row.
AccountInv ==
  \A t \in Tickets :
    /\ phase[t] # "failed" => \A tool \in Effectful :
         RowsDone(t, tool) = Effects(t, tool) - Unnoted(t, tool)
    /\ phase[t] = "failed" => \E lost \in Effectful : \A tool \in Effectful :
         Effects(t, tool) - RowsDone(t, tool)
           \in (IF tool = lost THEN {0, 1} ELSE {0})

\* Every step of the loop keeps the account.
LEMMA AccountStep ==
  ASSUME TypeOK, TypeOK', LockInv, LoopInv, LoopInv', AccountInv,
         [ResolverNext]_vars
  PROVE  AccountInv'
  <1>n. \A u \in Tickets, tool \in Effectful :
          /\ RowsDone(u, tool) \in Nat /\ Effects(u, tool) \in Nat
          /\ RowsDone(u, tool)' \in Nat /\ Effects(u, tool)' \in Nat
          /\ Unnoted(u, tool) \in {0, 1} /\ Unnoted(u, tool)' \in {0, 1}
    <2>1. CountsOK
      BY CountsAreNumbers DEF LoopInv
    <2>2. CountsOK'
      <3>1. TypeOK' /\ ResolverTypeOK' => CountsOK'
        BY CountsAreNumbers, PTL
      <3>2. QED
        BY <3>1 DEF LoopInv
    <2>3. QED
      BY <2>1, <2>2 DEF CountsOK, Unnoted
  <1>u. \A u \in Tickets : UNCHANGED <<actions[u]>> =>
          \A tool : RowsDone(u, tool)' = RowsDone(u, tool)
    BY DEF RowsDone
  <1>0. ASSUME UNCHANGED guardVars, actions' = actions,
               \A u \in Tickets : phase'[u] = "failed" <=> phase[u] = "failed"
        PROVE  AccountInv'
    <2>1. \A u \in Tickets, tool \in Effectful :
            /\ Effects(u, tool)' = Effects(u, tool)
            /\ Unnoted(u, tool)' = Unnoted(u, tool)
      BY <1>0 DEF Effects, RefundsBy, Unnoted, guardVars, ticketVars, moneyVars,
                  mailVars
    <2>2. QED
      BY <1>0, <1>u, <2>1 DEF AccountInv
  <1>1. ASSUME NEW t \in Tickets, MakeCall(t) \/ (Continue(t) /\ UNCHANGED loopVars)
        PROVE  AccountInv'
    <2>1. /\ Step(t) /\ ~ TakeResult(t)
          /\ UNCHANGED <<phase, actions>>
          /\ pc[t] # "returned"
      BY <1>1 DEF MakeCall, Step, Guard, TakeResult, loopVars, Allow, Deny, Defer,
                  Propose, Continue, Proceed, ToolFails, Enqueue,
                  RetryAfterFailure, RetriesExhausted, RejectCall, RunReadTool,
                  RunEligibilityCheck, SendReply, Escalate, IssueRefund,
                  AcquireRefundLock, RejectRefund, AcceptRefund, MarkRefunded,
                  LogRefund, BodyRuns
    <2>2. \A u \in Tickets, tool \in Effectful :
            Effects(u, tool)' - Unnoted(u, tool)'
              = Effects(u, tool) - Unnoted(u, tool)
      BY <2>1, EffectsNoted DEF LoopInv
    <2>3. phase[t] # "failed"
      BY <1>1, <2>1 DEF MakeCall, LoopInv, BatchInv, Continue, Proceed, ToolFails,
             Enqueue, RetryAfterFailure, RetriesExhausted, RejectCall,
             RunReadTool, RunEligibilityCheck, SendReply, Escalate, IssueRefund,
             AcquireRefundLock, RejectRefund, AcceptRefund, MarkRefunded,
             LogRefund, BodyRuns
    <2>4. \A u \in Tickets : phase[u] = "failed" => \A tool \in Effectful :
            Unnoted(u, tool) = 0 /\ Unnoted(u, tool)' = 0
      <3>1. \A u \in Tickets : phase[u] = "failed" =>
              pc[u] # "returned" /\ pc'[u] # "returned"
        BY <2>1 DEF LoopInv, BatchInv
      <3>2. QED
        BY <3>1 DEF Unnoted
    <2>5. QED
      BY <1>n, <1>u, <2>1, <2>2, <2>4 DEF AccountInv
  <1>2. ASSUME NEW t \in Tickets, CallRaises(t)
        PROVE  AccountInv'
    <2>1. /\ Step(t) /\ ~ TakeResult(t)
          /\ pc[t] # "returned" /\ pc'[t] # "returned"
          /\ phase[t] # "failed" /\ phase'[t] = "failed"
          /\ actions' = actions
          /\ \A u \in Tickets \ {t} :
               UNCHANGED <<phase[u], pc[u], call[u], result[u]>>
      <3>1. PICK c \in Calls : GuardRaises(t, c)
        BY <1>2 DEF CallRaises
      <3>2. Step(t)
        BY <3>1, Zenon DEF Step, Guard
      <3>3. /\ pc[t] = "idle" /\ pc'[t] = "crashed"
            /\ \A u \in Tickets \ {t} : UNCHANGED <<pc[u], call[u], result[u]>>
        BY <3>1 DEF GuardRaises, Propose, TypeOK
      <3>4. /\ phase[t] # "failed" /\ phase'[t] = "failed"
            /\ actions' = actions
            /\ \A u \in Tickets \ {t} : phase'[u] = phase[u]
        BY <1>2 DEF CallRaises, Fail, LoopInv, ResolverTypeOK
      <3>5. QED
        BY <3>2, <3>3, <3>4 DEF TakeResult
    <2>2. \A u \in Tickets, tool \in Effectful :
            Effects(u, tool)' - Unnoted(u, tool)'
              = Effects(u, tool) - Unnoted(u, tool)
      BY <2>1, EffectsNoted DEF LoopInv
    <2>3. \A tool \in Effectful : Unnoted(t, tool) = 0 /\ Unnoted(t, tool)' = 0
      BY <2>1 DEF Unnoted
    <2>4. \A u \in Tickets \ {t}, tool \in Effectful :
            Unnoted(u, tool)' = Unnoted(u, tool)
      BY <2>1 DEF Unnoted
    <2>5. \A tool \in Effectful : Effects(t, tool)' - RowsDone(t, tool)' = 0
      BY <1>n, <1>u, <2>1, <2>2, <2>3 DEF AccountInv
    <2>6. "issue_refund" \in Effectful
      BY DEF Effectful
    <2>7. \A u \in Tickets \ {t}, tool \in Effectful :
            /\ Effects(u, tool)' = Effects(u, tool)
            /\ RowsDone(u, tool)' = RowsDone(u, tool)
      BY <1>n, <1>u, <2>1, <2>2, <2>4
    <2>8. QED
      BY <2>1, <2>4, <2>5, <2>6, <2>7 DEF AccountInv
  <1>3. ASSUME NEW t \in Tickets, TakeResult(t),
               \A u \in Tickets \ {t} : UNCHANGED <<phase[u], actions[u]>>
        PROVE  /\ \A u \in Tickets, tool \in Effectful :
                    Effects(u, tool)' = Effects(u, tool)
               /\ \A u \in Tickets \ {t} :
                    /\ \A tool \in Effectful :
                         RowsDone(u, tool)' = RowsDone(u, tool)
                    /\ \A tool \in Effectful :
                         Unnoted(u, tool)' = Unnoted(u, tool)
               /\ \A tool \in Effectful :
                    /\ RowsDone(t, tool) = Effects(t, tool) - Unnoted(t, tool)
                    /\ Unnoted(t, tool)' = 0
    <2>1. Step(t) /\ pc[t] = "returned" /\ pc'[t] = "idle"
      BY <1>3 DEF Step, TakeResult, TypeOK
    <2>2. phase[t] # "failed"
      BY <2>1 DEF LoopInv, BatchInv
    <2>3. \A tool \in Effectful : Unnoted(t, tool)' = 0
      BY <2>1 DEF Unnoted
    <2>4. QED
      BY <1>3, <1>u, <2>1, <2>2, <2>3, EffectsNoted DEF AccountInv, LoopInv
  <1>4. ASSUME NEW t \in Tickets, AfterCall(t)
        PROVE  AccountInv'
    <2>1. /\ TakeResult(t)
          /\ pc[t] = "returned"
          /\ call[t] \in Calls
          /\ actions'[t] = Append(actions[t], Shown(Entry(t)))
          /\ phase'[t] # "failed"
          /\ \A u \in Tickets \ {t} : UNCHANGED <<phase[u], actions[u]>>
      <3>1. TakeResult(t) /\ pc[t] = "returned" /\ call[t] \in Calls
        BY <1>4 DEF AfterCall, TakeResult, TypeOK
      <3>2. /\ actions'[t] = Append(actions[t], Shown(Entry(t)))
            /\ phase'[t] # "failed"
            /\ \A u \in Tickets \ {t} : UNCHANGED <<phase[u], actions[u]>>
        BY <1>4 DEF AfterCall, LoopInv, ResolverTypeOK
      <3>3. QED
        BY <3>1, <3>2
    <2>2. Shown(Entry(t)) \in Row
      BY <2>1, EntryTyped
    <2>3. \A tool \in Effectful :
            RowsDone(t, tool)' = RowsDone(t, tool) + Unnoted(t, tool)
      BY <2>1, <2>2, RowCommitted DEF LoopInv, Shown, Entry, Unnoted
    <2>4. \A tool \in Effectful :
            RowsDone(t, tool)' = Effects(t, tool)' - Unnoted(t, tool)'
      BY <1>n, <1>3, <2>1, <2>3
    <2>5. QED
      BY <1>3, <2>1, <2>4 DEF AccountInv
  <1>5. ASSUME NEW t \in Tickets, RecordActionFails(t)
        PROVE  AccountInv'
    <2>1. /\ TakeResult(t)
          /\ actions' = actions
          /\ phase'[t] = "failed"
          /\ \A u \in Tickets \ {t} : UNCHANGED <<phase[u], actions[u]>>
      BY <1>5 DEF RecordActionFails, Fail, LoopInv, ResolverTypeOK
    <2>2. \A tool \in Effectful :
            Effects(t, tool)' - RowsDone(t, tool)' = Unnoted(t, tool)
      BY <1>n, <1>u, <1>3, <2>1
    <2>3. \E lost \in Effectful : \A tool \in Effectful :
            Effects(t, tool)' - RowsDone(t, tool)'
              \in (IF tool = lost THEN {0, 1} ELSE {0})
      <3>1. CASE call[t].tool \in Effectful
        BY <2>2, <3>1 DEF Unnoted
      <3>2. CASE call[t].tool \notin Effectful
        BY <2>2, <3>2 DEF Unnoted, Effectful
      <3>3. QED
        BY <3>1, <3>2
    <2>4. QED
      BY <1>3, <2>1, <2>3 DEF AccountInv
  <1>6. ASSUME NEW t \in Tickets,
               LlmFails(t) \/ LlmTalks(t) \/ LlmCalls(t)
                 \/ IterationsExhausted(t) \/ Finish(t)
        PROVE  AccountInv'
    <2>1. /\ UNCHANGED guardVars
          /\ actions' = actions
          /\ \A u \in Tickets : phase'[u] = "failed" <=> phase[u] = "failed"
      BY <1>6 DEF LlmFails, LlmTalks, LlmCalls, IterationsExhausted, Finish,
                  AskLlm, LoopInv, ResolverTypeOK
    <2>2. QED
      BY <1>0, <2>1
  <1>7. CASE UNCHANGED vars
    BY <1>0, <1>7 DEF vars, loopVars
  <1>8. QED
    <2>1. CASE UNCHANGED vars
      BY <1>7, <2>1
    <2>2. ASSUME NEW t \in Tickets, ResolverStep(t)
          PROVE  AccountInv'
      <3>1. \/ MakeCall(t) \/ (Continue(t) /\ UNCHANGED loopVars)
            \/ CallRaises(t) \/ AfterCall(t) \/ RecordActionFails(t)
            \/ LlmFails(t) \/ LlmTalks(t) \/ LlmCalls(t)
            \/ IterationsExhausted(t) \/ Finish(t)
        BY <2>2, Zenon DEF ResolverStep, TicketProceeds, TicketTrouble, Continue
      <3>2. QED
        BY <1>1, <1>2, <1>4, <1>5, <1>6, <3>1
    <2>3. QED
      BY <2>1, <2>2 DEF ResolverNext

\* The account says what the property asks.
LEMMA AccountSays ==
  ASSUME TypeOK, ResolverTypeOK, AccountInv
  PROVE  EffectsAccounted
  <1>1. SUFFICES ASSUME NEW t \in Tickets
        PROVE  /\ phase[t] # "failed" /\ pc[t] = "idle" =>
                    /\ RowsDone(t, "issue_refund") = RefundsBy(t)
                    /\ RowsDone(t, "send_reply") = replies[t]
                    /\ RowsDone(t, "escalate") = escalations[t]
               /\ phase[t] = "failed" =>
                    (RefundsBy(t) + replies[t] + escalations[t])
                      - (RowsDone(t, "issue_refund") + RowsDone(t, "send_reply")
                         + RowsDone(t, "escalate")) \in {0, 1}
    BY Zenon DEF EffectsAccounted
  <1>2. /\ Effects(t, "issue_refund") = RefundsBy(t)
        /\ Effects(t, "send_reply") = replies[t]
        /\ Effects(t, "escalate") = escalations[t]
        /\ {"issue_refund", "send_reply", "escalate"} = Effectful
    BY DEF Effects, Effectful
  <1>3. \A tool \in Effectful : RowsDone(t, tool) \in Nat /\ Effects(t, tool) \in Nat
    BY CountsAreNumbers DEF CountsOK
  <1>4. CASE phase[t] # "failed"
    <2>1. pc[t] = "idle" => \A tool \in Effectful : Unnoted(t, tool) = 0
      BY DEF Unnoted
    <2>2. \A tool \in Effectful :
            RowsDone(t, tool) = Effects(t, tool) - Unnoted(t, tool)
      BY <1>4 DEF AccountInv
    <2>3. QED
      BY <1>2, <1>3, <1>4, <2>1, <2>2
  <1>5. CASE phase[t] = "failed"
    <2>1. PICK lost \in Effectful : \A tool \in Effectful :
            Effects(t, tool) - RowsDone(t, tool)
              \in (IF tool = lost THEN {0, 1} ELSE {0})
      BY <1>5 DEF AccountInv
    <2>2. QED
      BY <1>2, <1>3, <1>5, <2>1
  <1>6. QED
    BY <1>4, <1>5

\* Initially nothing has happened.
LEMMA AccountInit ==
  ASSUME ResolverInit
  PROVE  AccountInv
  <1>1. SUFFICES ASSUME NEW t \in Tickets, NEW tool \in Effectful
        PROVE  RowsDone(t, tool) = Effects(t, tool) - Unnoted(t, tool)
    BY DEF ResolverInit, AccountInv
  <1>2. {i \in DOMAIN actions[t] : /\ actions[t][i].tool = tool
                                   /\ actions[t][i].result = "success"} = {}
    BY DEF ResolverInit
  <1>3. {i \in DOMAIN refundLog : refundLog[i].by = t} = {}
    BY DEF ResolverInit, Init
  <1>4. RowsDone(t, tool) = 0 /\ RefundsBy(t) = 0
    BY <1>2, <1>3, FS_EmptySet, Zenon DEF RowsDone, RefundsBy
  <1>5. replies[t] = 0 /\ escalations[t] = 0 /\ pc[t] = "idle"
    BY DEF ResolverInit, Init
  <1>6. QED
    BY <1>4, <1>5 DEF Effects, Unnoted

\* The loop's types hold at the start.
LEMMA LoopInit ==
  ASSUME ResolverInit
  PROVE  LoopInv
  BY ResolverAssumption
     DEF ResolverInit, Init, LoopInv, ResolverTypeOK, BatchInv, Phases, Tally,
         NoTally

\* The rows account for every refund, reply and escalation, for any LLM and
\* wherever a ticket fails: one row at most is missing.
THEOREM EveryEffectHasItsRow == ResolverSpec => []EffectsAccounted
<1>1. ResolverInit => LoopInv /\ AccountInv
  BY LoopInit, AccountInit
<1>2. ResolverSpec => []TypeOK /\ []LockInv
  BY ResolverDrivesTools, TypeCorrect, LockExclusion, PTL
<1>3. TypeOK /\ LoopInv /\ AccountInv => EffectsAccounted
  BY AccountSays DEF LoopInv
<1>4. QED
  BY <1>1, <1>2, <1>3, LoopInvStep, AccountStep, PTL DEF ResolverSpec

-----------------------------------------------------------------------------
(* What a finished ticket reports.                                         *)

LlmFailed(trail) == \E i \in DOMAIN trail : trail[i].tool = "llm_error"
Stopped(trail) == \E i \in DOMAIN trail : ~ Allowed(trail[i].result)

\* The trail, the rows and the counters agree on what was done, and a report
\* is what assess makes of them.
Reported(t) ==
  phase[t] # "failed" =>
    /\ \A tool \in TerminalTools :
         /\ Did(audit[t], tool) <=> RowsDone(t, tool) > 0
         /\ Did(audit[t], tool) => tally[t].terminal
    /\ Stopped(audit[t]) <=> tally[t].blocks > 0
    /\ phase[t] = "llm" => ~ tally[t].terminal /\ ~ LlmFailed(audit[t])
    /\ phase[t] = "batch" => ~ LlmFailed(audit[t])
    /\ LlmFailed(audit[t]) => ~ tally[t].terminal
    /\ phase[t] = "finished" =>
         \E conf \in SelfConfidence(confidence[t], tally[t]) :
           report[t] = Assess(conf, audit[t], tally[t])

ReportInv == \A t \in Tickets : Reported(t)

\* What a trail shows of one more entry.
LEMMA TrailShows ==
  ASSUME NEW trail \in Seq(AuditEntry), NEW e \in AuditEntry
  PROVE  /\ \A tool : Did(Append(trail, e), tool) <=>
                        \/ Did(trail, tool)
                        \/ e.tool = tool /\ ~ HasError(e.result)
         /\ LlmFailed(Append(trail, e)) <=> LlmFailed(trail) \/ e.tool = "llm_error"
         /\ Stopped(Append(trail, e)) <=> Stopped(trail) \/ ~ Allowed(e.result)
  <1>1. /\ DOMAIN trail = 1..Len(trail)
        /\ Len(trail) \in Nat
        /\ DOMAIN Append(trail, e) = 1..(Len(trail) + 1)
        /\ \A i \in 1..Len(trail) : Append(trail, e)[i] = trail[i]
        /\ Append(trail, e)[Len(trail) + 1] = e
    OBVIOUS
  <1>2. \A tool : Did(Append(trail, e), tool) <=>
                    \/ Did(trail, tool)
                    \/ e.tool = tool /\ ~ HasError(e.result)
    BY <1>1 DEF Did
  <1>3. LlmFailed(Append(trail, e)) <=> LlmFailed(trail) \/ e.tool = "llm_error"
    BY <1>1 DEF LlmFailed
  <1>4. Stopped(Append(trail, e)) <=> Stopped(trail) \/ ~ Allowed(e.result)
    BY <1>1 DEF Stopped
  <1>5. QED
    BY <1>2, <1>3, <1>4

\* Every step of the loop keeps this.
LEMMA ReportStep ==
  ASSUME TypeOK, TypeOK', LockInv, LoopInv, ResultsInv, ReportInv,
         [ResolverNext]_vars
  PROVE  ReportInv'
  <1>c. confidence' = confidence
    <2>1. [Next]_guardVars
      BY StepIsGuarded DEF ResolverNext, vars, Next
    <2>2. QED
      BY <2>1, KnowledgeGrows
  <1>k. ASSUME NEW u \in Tickets,
               UNCHANGED <<phase[u], audit[u], actions[u], tally[u], report[u]>>
        PROVE  Reported(u)'
    <2>1. \A tool : RowsDone(u, tool)' = RowsDone(u, tool)
      BY <1>k DEF RowsDone
    <2>2. QED
      BY <1>c, <1>k, <2>1 DEF ReportInv, Reported
  <1>1. CASE UNCHANGED loopVars
    BY <1>1, <1>k DEF loopVars, ReportInv
  <1>2. ASSUME NEW t \in Tickets, CallRaises(t) \/ RecordActionFails(t)
        PROVE  ReportInv'
    <2>1. /\ phase'[t] = "failed"
          /\ \A u \in Tickets \ {t} :
               UNCHANGED <<phase[u], audit[u], actions[u], tally[u], report[u]>>
      BY <1>2 DEF CallRaises, RecordActionFails, Fail, LoopInv, ResolverTypeOK
    <2>2. Reported(t)'
      BY <2>1 DEF Reported
    <2>3. QED
      BY <1>k, <2>1, <2>2 DEF ReportInv
  <1>3. ASSUME NEW t \in Tickets,
               LlmTalks(t) \/ LlmCalls(t) \/ IterationsExhausted(t)
        PROVE  ReportInv'
    <2>1. /\ UNCHANGED <<audit, actions, tally, report>>
          /\ phase[t] = "llm"
          /\ phase'[t] \in {"llm", "batch", "closing"}
          /\ \A u \in Tickets \ {t} : phase'[u] = phase[u]
      BY <1>3 DEF LlmTalks, LlmCalls, IterationsExhausted, AskLlm, LoopInv,
                  ResolverTypeOK
    <2>2. \A tool : RowsDone(t, tool)' = RowsDone(t, tool)
      BY <2>1 DEF RowsDone
    <2>3. Reported(t)'
      BY <2>1, <2>2 DEF ReportInv, Reported
    <2>4. QED
      BY <1>k, <2>1, <2>3 DEF ReportInv
  <1>4. ASSUME NEW t \in Tickets, Finish(t)
        PROVE  ReportInv'
    <2>1. /\ UNCHANGED <<audit, actions, tally>>
          /\ phase[t] = "closing" /\ phase'[t] = "finished"
          /\ \E conf \in SelfConfidence(confidence[t], tally[t]) :
               report'[t] = Assess(conf, audit[t], tally[t])
          /\ \A u \in Tickets \ {t} : UNCHANGED <<phase[u], report[u]>>
      BY <1>4 DEF Finish, LoopInv, ResolverTypeOK
    <2>2. \A tool : RowsDone(t, tool)' = RowsDone(t, tool)
      BY <2>1 DEF RowsDone
    <2>3. Reported(t)'
      BY <1>c, <2>1, <2>2 DEF ReportInv, Reported
    <2>4. QED
      BY <1>k, <2>1, <2>3 DEF ReportInv
  <1>5. ASSUME NEW t \in Tickets, LlmFails(t)
        PROVE  ReportInv'
    <2> DEFINE e == [tool |-> "llm_error", order |-> NoOrder, result |-> "error"]
    <2>1. /\ audit'[t] = Append(audit[t], e)
          /\ phase[t] = "llm" /\ phase'[t] = "closing"
          /\ UNCHANGED <<actions, report>>
          /\ \A u \in Tickets \ {t} : UNCHANGED <<phase[u], audit[u], tally[u]>>
      BY <1>5 DEF LlmFails, AskLlm, LoopInv, ResolverTypeOK
    <2>2. tally'[t].terminal = tally[t].terminal /\ tally'[t].blocks = tally[t].blocks
      <3>1. tally' = [tally EXCEPT ![t] = [tally[t] EXCEPT !.errors = @ + 1]]
        BY <1>5, Zenon DEF LlmFails
      <3>2. tally'[t] = [tally[t] EXCEPT !.errors = @ + 1] /\ tally[t] \in Tally
        BY <3>1 DEF LoopInv, ResolverTypeOK
      <3>3. QED
        BY <3>2 DEF Tally
    <2>3. e \in AuditEntry /\ audit[t] \in Seq(AuditEntry)
      BY DEF AuditEntry, OrderArgs, Results, LoopInv, ResolverTypeOK
    <2>4. /\ e.tool \notin TerminalTools
          /\ Allowed(e.result)
      BY DEF TerminalTools, Allowed
    <2>5. \A tool : RowsDone(t, tool)' = RowsDone(t, tool)
      BY <2>1 DEF RowsDone
    <2> HIDE DEF e
    <2>6. /\ \A tool \in TerminalTools : Did(audit'[t], tool) <=> Did(audit[t], tool)
          /\ Stopped(audit'[t]) <=> Stopped(audit[t])
      BY <2>1, <2>3, <2>4, TrailShows
    <2>7. Reported(t)'
      BY <2>1, <2>2, <2>5, <2>6 DEF ReportInv, Reported
    <2>8. QED
      BY <1>k, <2>1, <2>7 DEF ReportInv
  <1>6. ASSUME NEW t \in Tickets, AfterCall(t)
        PROVE  ReportInv'
    <2> DEFINE e == Entry(t)
    <2>1. /\ pc[t] = "returned" /\ phase[t] = "batch"
          /\ call[t] \in Calls
          /\ call[t].tool \in ToolMap \cup {"unknown"}
      <3>1. pc[t] = "returned" /\ call[t] \in Calls
        BY <1>6 DEF AfterCall, TakeResult, TypeOK
      <3>2. phase[t] = "batch"
        BY <3>1 DEF LoopInv, BatchInv
      <3>3. call[t].tool \in ToolMap \cup {"unknown"}
        BY <3>1, GuardAssumption DEF Call
      <3>4. QED
        BY <3>1, <3>2, <3>3
    <2>2. /\ audit'[t] = Append(audit[t], e)
          /\ actions'[t] = Append(actions[t], Shown(e))
          /\ tally'[t] = Count(t)
          /\ report' = report
          /\ phase'[t] \in {"batch", "closing", "llm"}
          /\ phase'[t] = "llm" => ~ Count(t).terminal
          /\ \A u \in Tickets \ {t} :
               UNCHANGED <<phase[u], audit[u], actions[u], tally[u]>>
      BY <1>6 DEF AfterCall, LoopInv, ResolverTypeOK
    <2>3. /\ e \in AuditEntry /\ audit[t] \in Seq(AuditEntry)
          /\ Shown(e) \in Row
          /\ e.tool = call[t].tool /\ e.result = result[t]
          /\ Shown(e).tool = call[t].tool /\ Shown(e).result = result[t]
          /\ e.tool # "llm_error"
      BY <2>1, EntryTyped DEF LoopInv, ResolverTypeOK, Entry, Shown, ToolMap,
                  ReadTools, TerminalTools
    <2>4. result[t] \in Results /\ result[t] # "none"
      BY <2>1 DEF TypeOK, ResultsInv
    <2>5. \A tool \in TerminalTools : call[t].tool = tool =>
            (~ HasError(result[t]) <=> result[t] = "success")
      BY <2>1, <2>4 DEF ResultsInv, Allowed, HasError, Results, TerminalTools
    <2>6. \A tool \in TerminalTools :
            /\ RowsDone(t, tool) \in Nat
            /\ RowsDone(t, tool)' =
                 RowsDone(t, tool)
                   + (IF call[t].tool = tool /\ result[t] = "success" THEN 1 ELSE 0)
      BY <2>2, <2>3, RowCommitted DEF LoopInv
    <2>7. /\ Count(t).terminal <=> \/ tally[t].terminal
                                   \/ /\ call[t].tool \in TerminalTools
                                      /\ Allowed(result[t])
          /\ Count(t).blocks > 0 <=> tally[t].blocks > 0 \/ ~ Allowed(result[t])
      <3>1. tally[t] \in Tally
        BY DEF LoopInv, ResolverTypeOK
      <3>2. QED
        BY <3>1 DEF Count, Tally
    <2> HIDE DEF e
    <2>8. /\ \A tool : Did(audit'[t], tool) <=>
                         \/ Did(audit[t], tool)
                         \/ call[t].tool = tool /\ ~ HasError(result[t])
          /\ LlmFailed(audit'[t]) <=> LlmFailed(audit[t])
          /\ Stopped(audit'[t]) <=> Stopped(audit[t]) \/ ~ Allowed(result[t])
      BY <2>2, <2>3, TrailShows
    <2>9. Reported(t)
      BY DEF ReportInv
    <2>10. \A tool \in TerminalTools :
             /\ Did(audit'[t], tool) <=> RowsDone(t, tool)' > 0
             /\ Did(audit'[t], tool) => Count(t).terminal
      <3>1. result[t] = "success" => Allowed(result[t])
        BY DEF Allowed
      <3>2. QED
        BY <2>1, <2>5, <2>6, <2>7, <2>8, <2>9, <3>1 DEF Reported
    <2>11. Reported(t)'
      BY <2>1, <2>2, <2>7, <2>8, <2>9, <2>10 DEF Reported
    <2>12. QED
      BY <1>k, <2>2, <2>11 DEF ReportInv
  <1>7. QED
    <2>1. CASE UNCHANGED vars
      BY <1>1, <2>1 DEF vars
    <2>2. ASSUME NEW t \in Tickets, ResolverStep(t)
          PROVE  ReportInv'
      <3>1. \/ UNCHANGED loopVars
            \/ CallRaises(t) \/ AfterCall(t) \/ RecordActionFails(t)
            \/ LlmFails(t) \/ LlmTalks(t) \/ LlmCalls(t)
            \/ IterationsExhausted(t) \/ Finish(t)
        BY <2>2, Zenon
           DEF ResolverStep, TicketProceeds, TicketTrouble, MakeCall
      <3>2. QED
        BY <1>1, <1>2, <1>3, <1>4, <1>5, <1>6, <3>1
    <2>3. QED
      BY <2>1, <2>2 DEF ResolverNext

\* A finished ticket has nothing left to note.
LEMMA FinishedIsSettled ==
  ASSUME TypeOK, LoopInv, AccountInv, ReportInv, NEW t \in Tickets,
         phase[t] = "finished"
  PROVE  /\ Did(audit[t], "escalate") <=> escalations[t] > 0
         /\ Did(audit[t], "send_reply") <=> replies[t] > 0
         /\ \E conf \in SelfConfidence(confidence[t], tally[t]) :
              report[t] = Assess(conf, audit[t], tally[t])
  <1>1. pc[t] # "returned"
    BY DEF LoopInv, BatchInv
  <1>2. \A tool \in Effectful : RowsDone(t, tool) = Effects(t, tool)
    <2>1. \A tool \in Effectful : Unnoted(t, tool) = 0
      BY <1>1 DEF Unnoted
    <2>2. \A tool \in Effectful : Effects(t, tool) \in Nat
      BY CountsAreNumbers DEF CountsOK, LoopInv
    <2>3. QED
      BY <2>1, <2>2 DEF AccountInv
  <1>3. /\ Effects(t, "escalate") = escalations[t]
        /\ Effects(t, "send_reply") = replies[t]
        /\ "escalate" \in Effectful \cap TerminalTools
        /\ "send_reply" \in Effectful \cap TerminalTools
    BY DEF Effects, Effectful, TerminalTools
  <1>4. Reported(t)
    BY DEF ReportInv
  <1>5. QED
    BY <1>2, <1>3, <1>4 DEF Reported

\* The score of a call sequence is at most the triage's confidence, a bound that
\* is lower when policy stepped in.
LEMMA ScoreBounded ==
  ASSUME NEW base \in Nat, NEW calls \in Nat \ {0}, NEW quiet \in Int,
         quiet <= 2 * calls, NEW top \in {14, 20}, NEW f \in 1..top
  PROVE  base * (quiet * f) <= (2 * top) * (base * calls)
  <1> DEFINE g == quiet * f
  <1>1. g \in Int /\ g <= (2 * top) * calls
    <2>1. CASE quiet <= 0
      <3>1. quiet * f <= 0
        BY <2>1
      <3>2. QED
        BY <3>1
    <2>2. CASE quiet > 0
      <3>1. quiet * f <= quiet * top
        BY <2>2
      <3>2. quiet * top <= (2 * top) * calls
        <4>1. CASE top = 14
          BY <4>1
        <4>2. CASE top = 20
          BY <4>2
        <4>3. QED
          BY <4>1, <4>2
      <3>3. QED
        BY <3>1, <3>2
    <2>3. QED
      BY <2>1, <2>2
  <1> HIDE DEF g
  <1>2. base * g <= base * ((2 * top) * calls)
    BY <1>1
  <1>3. base * ((2 * top) * calls) = (2 * top) * (base * calls)
    BY <1>1
  <1>4. QED
    BY <1>1, <1>2, <1>3 DEF g

\* A self-confidence of 0.6 needs a triage confidence of 0.5995, whatever the
\* counters say, and a higher one when policy stepped in.
LEMMA SureTriage ==
  ASSUME NEW base \in Nat, NEW n \in Tally, NEW conf \in SelfConfidence(base, n),
         conf >= 600
  PROVE  /\ base >= 5995
         /\ n.blocks > 0 => base >= 8564
  <1> DEFINE calls == IF n.made = 0 THEN 1 ELSE n.made
             quiet == IF n.made = 0 THEN 2 ELSE 2 * n.made - n.errors
             done == IF n.terminal THEN 2 ELSE 1
             clean == IF n.blocks > 0 THEN 7 ELSE 10
             num == base * done * quiet * clean
             den == 400 * calls
             top == IF n.blocks > 0 THEN 14 ELSE 20
  <1>1. /\ calls \in Nat \ {0}
        /\ quiet \in Int /\ quiet <= 2 * calls
        /\ top \in {14, 20} /\ done * clean \in 1..top
    <2>1. CASE n.terminal
      BY <2>1 DEF Tally
    <2>2. CASE ~ n.terminal
      BY <2>2 DEF Tally
    <2>3. QED
      BY <2>1, <2>2
  <1>2. PICK tie \in {0, 1} : conf = Clipped((2 * num + den - tie) \div (2 * den))
    BY Zenon DEF SelfConfidence
  <1>3. num \in Int /\ num <= (2 * top) * (base * calls)
    <2> DEFINE f == done * clean
    <2>1. num = base * (quiet * f) /\ num \in Int
      <3>1. done \in 1..2 /\ clean \in {7, 10}
        OBVIOUS
      <3> HIDE DEF calls, quiet, done, clean
      <3>2. QED
        BY <1>1, <3>1
    <2> HIDE DEF calls, quiet, top, f, num
    <2>2. f \in 1..top
      BY <1>1 DEF f
    <2>3. QED
      BY <1>1, <2>1, <2>2, ScoreBounded
  <1> DEFINE q == (2 * num + den - tie) \div (2 * den)
  <1> HIDE DEF calls, quiet, done, clean, num
  <1>4. q \in Int /\ q * (800 * calls) <= 2 * num + 400 * calls
    <2> DEFINE N == 2 * num + den - tie
               D == 2 * den
    <2>1. N \in Int /\ D \in Nat /\ D > 0 /\ D = 800 * calls
            /\ N <= 2 * num + 400 * calls
      BY <1>1, <1>3
    <2>2. q = N \div D
      OBVIOUS
    <2> HIDE DEF N, D, q
    <2>3. N \div D \in Int /\ D * (N \div D) <= N
      BY <2>1
    <2>4. QED
      BY <1>1, <1>3, <2>1, <2>2, <2>3
  <1> HIDE DEF q
  <1>5. q >= 600
    BY <1>2, <1>4 DEF Clipped, q
  <1>6. 600 * (800 * calls) <= 2 * num + 400 * calls
    <2>1. 600 * (800 * calls) <= q * (800 * calls)
      BY <1>1, <1>4, <1>5
    <2>2. QED
      BY <1>1, <1>3, <1>4, <2>1
  <1>7. 239800 * calls <= (2 * top) * (base * calls)
    BY <1>1, <1>3, <1>6
  <1>8. ASSUME n.blocks > 0
        PROVE  base >= 8564
    <2>1. 239800 * calls <= 28 * (base * calls)
      BY <1>7, <1>8
    <2>2. CASE base <= 8563
      <3>1. base * calls <= 8563 * calls
        BY <1>1, <2>2
      <3>2. QED
        BY <1>1, <2>1, <3>1
    <2>3. QED
      BY <2>2
  <1>9. base >= 5995
    <2>1. 239800 * calls <= 40 * (base * calls)
      BY <1>1, <1>7
    <2>2. CASE base <= 5994
      <3>1. base * calls <= 5994 * calls
        BY <1>1, <2>2
      <3>2. QED
        BY <1>1, <2>1, <3>1
    <2>3. QED
      BY <2>2
  <1>10. QED
    BY <1>8, <1>9

\* The fields of a report.
LEMMA ReportReads ==
  ASSUME NEW conf, NEW trail, NEW n
  PROVE  LET r == Assess(conf, trail, n)
             tripped == QualityTripped(trail, n, conf)
         IN /\ r.status = Status(trail)
            /\ r.health = IF tripped THEN "degraded" ELSE "ok"
            /\ ~ tripped => (r.needs_review <=> n.blocks > 0)
  BY DEF Assess

\* A confidence below 0.6 alone degrades a report.
LEMMA LowConfidenceTrips ==
  ASSUME NEW conf, NEW trail, NEW n, conf < 600
  PROVE  QualityTripped(trail, n, conf)
  BY DEF QualityTripped

\* The status of a finished ticket is what happened to the customer.
LEMMA StatusSays ==
  ASSUME TypeOK, LoopInv, AccountInv, ReportInv
  PROVE  StatusMatchesEffects
  <1>1. SUFFICES ASSUME NEW t \in Tickets, phase[t] = "finished"
        PROVE  report[t].status = IF escalations[t] > 0 THEN "escalated"
                                  ELSE IF replies[t] > 0 THEN "resolved"
                                  ELSE "incomplete"
    BY DEF StatusMatchesEffects
  <1>2. report[t].status = Status(audit[t])
    BY <1>1, FinishedIsSettled, ReportReads
  <1>3. QED
    BY <1>1, <1>2, FinishedIsSettled DEF Status

\* What a healthy report promises.
LEMMA HealthSays ==
  ASSUME TypeOK, LoopInv, AccountInv, ReportInv, LowConfidenceThreshold <= 6000
  PROVE  HealthyMeansHandled
  <1>1. SUFFICES ASSUME NEW t \in Tickets, phase[t] = "finished",
                        report[t].health = "ok"
        PROVE  /\ replies[t] + escalations[t] > 0
               /\ \A i \in DOMAIN audit[t] : audit[t][i].tool # "llm_error"
               /\ confidence[t] + 5 >= LowConfidenceThreshold
               /\ report[t].needs_review <=> ~ Unblocked(audit[t])
               /\ report[t].needs_review => confidence[t] >= LowConfidenceThreshold
    BY DEF HealthyMeansHandled
  <1> DEFINE base == confidence[t]
             trail == audit[t]
             n == tally[t]
  <1>2. /\ replies[t] \in Nat /\ escalations[t] \in Nat
        /\ n \in Tally
    BY DEF TypeOK, LoopInv, ResolverTypeOK
  <1>3. base \in Nat
    BY ConfidenceIsNumber
  <1>4. PICK conf \in SelfConfidence(base, n) : report[t] = Assess(conf, trail, n)
    BY <1>1, FinishedIsSettled
  <1>5. /\ ~ QualityTripped(trail, n, conf)
        /\ report[t].needs_review <=> n.blocks > 0
    <2> DEFINE tripped == QualityTripped(trail, n, conf)
               stopped == n.blocks > 0
    <2>1. /\ report[t].health = IF tripped THEN "degraded" ELSE "ok"
          /\ ~ tripped => (report[t].needs_review <=> stopped)
      BY <1>4, ReportReads
    <2> HIDE DEF tripped, stopped
    <2>2. ~ tripped
      BY <1>1, <2>1
    <2>3. report[t].needs_review <=> stopped
      BY <2>1, <2>2
    <2>4. ~ QualityTripped(trail, n, conf)
      BY <2>2 DEF tripped
    <2>5. report[t].needs_review <=> n.blocks > 0
      BY <2>3 DEF stopped
    <2>6. QED
      BY <2>4, <2>5
  <1>6. Did(trail, "escalate") \/ Did(trail, "send_reply")
    BY <1>5 DEF QualityTripped, Status
  <1>7. replies[t] + escalations[t] > 0
    BY <1>1, <1>2, <1>6, FinishedIsSettled
  <1>8. /\ base + 5 >= LowConfidenceThreshold
        /\ n.blocks > 0 => base >= LowConfidenceThreshold
    <2>1. conf >= 600
      <3>1. conf \in 50..990
        BY <1>2, <1>3, ConfidenceClipped
      <3>2. ~ (conf < 600)
        <4> DEFINE low == conf < 600
        <4>1. low => QualityTripped(trail, n, conf)
          BY LowConfidenceTrips
        <4> HIDE DEF low
        <4>2. ~ low
          BY <1>5, <4>1
        <4>3. QED
          BY <4>2 DEF low
      <3>3. QED
        BY <3>1, <3>2
    <2>2. base >= 5995 /\ (n.blocks > 0 => base >= 8564)
      BY <1>2, <1>3, <2>1, SureTriage
    <2>3. QED
      BY <1>3, <2>2, PolicyAssumption
  <1>9. Reported(t) /\ {"escalate", "send_reply"} \subseteq TerminalTools
    BY DEF ReportInv, TerminalTools
  <1>10. ~ LlmFailed(trail) /\ (Stopped(trail) <=> n.blocks > 0)
    BY <1>1, <1>6, <1>9 DEF Reported
  <1>11. Unblocked(trail) <=> ~ Stopped(trail)
    BY DEF Unblocked, Stopped
  <1>12. QED
    BY <1>5, <1>7, <1>8, <1>10, <1>11 DEF LlmFailed

\* What the trails, the rows and the reports rest on.
LEMMA ReportsCorrect ==
  ResolverSpec => [](TypeOK /\ LoopInv /\ AccountInv /\ ReportInv)
<1>1. ResolverInit => LoopInv /\ AccountInv
  BY LoopInit, AccountInit
<1>2. ResolverInit => ResultsInv
  BY DEF ResolverInit, Init, ResultsInv
<1>3. ResolverInit => ReportInv
  <2>1. SUFFICES ASSUME ResolverInit, NEW t \in Tickets
        PROVE  Reported(t)
    BY DEF ReportInv
  <2>2. \A tool \in TerminalTools : RowsDone(t, tool) = 0
    <3>1. ASSUME NEW tool
          PROVE  {i \in DOMAIN actions[t] : /\ actions[t][i].tool = tool
                                 /\ actions[t][i].result = "success"} = {}
      BY <2>1 DEF ResolverInit
    <3>2. QED
      BY <3>1, FS_EmptySet, Zenon DEF RowsDone
  <2>3. QED
    BY <2>1, <2>2 DEF ResolverInit, Reported, Did, LlmFailed, Stopped, NoTally
<1>4. [ResolverNext]_vars => [Next]_guardVars
  BY StepIsGuarded DEF ResolverNext, vars, Next
<1>5. ResolverSpec => []TypeOK /\ []LockInv
  BY ResolverDrivesTools, TypeCorrect, LockExclusion, PTL
<1>6. QED
  BY <1>1, <1>2, <1>3, <1>4, <1>5, LoopInvStep, ResultsStep, AccountStep,
     ReportStep, PTL DEF ResolverSpec

\* A ticket never ends resolved without a reply, escalated without an
\* escalation, or incomplete with either, whatever the LLM and the tools did.
THEOREM StatusIsTrue == ResolverSpec => []StatusMatchesEffects
  BY ReportsCorrect, StatusSays, PTL

\* A healthy report can be believed, for every threshold of the policy up to
\* the 0.6 the monitor itself looks for: exactly where policy stepped in, and
\* elsewhere up to the half thousandth that rounding forgives.
THEOREM HealthIsTrue ==
  ASSUME LowConfidenceThreshold <= 6000
  PROVE  ResolverSpec => []HealthyMeansHandled
<1>1. TypeOK /\ LoopInv /\ AccountInv /\ ReportInv => HealthyMeansHandled
  BY HealthSays
<1>2. QED
  BY <1>1, ReportsCorrect, PTL

-----------------------------------------------------------------------------
(* What a trail says is so, and stays so.                                  *)

\* The refund of order o that ticket t asked for was made, by t or by another
\* ticket, or it waits for a human.
Served(t, o) ==
  \/ o \in refunded
  \/ \E i \in DOMAIN hitl : hitl[i].ticket = t /\ hitl[i].order = o

\* An entry without an error: a check left the ticket knowing the order, a
\* refund served it.
EntryTrue(t, e) ==
  ~ HasError(e.result) =>
    /\ e.tool = "check_refund_eligibility" => elig[t][e.order] # NoCheck
    /\ e.tool = "issue_refund" => Served(t, e.order)

\* A ticket that checked a refundable order knows so, or somebody refunded it:
\* with EligSound, what it remembers is wrong about refund_status at most.
CheckedInv ==
  \A t \in Tickets, o \in OrderArgs :
    elig[t][o] # NoCheck /\ Ledger!Refundable(o) =>
      o \in refunded \/ elig[t][o].eligible

OutcomeInv == \A t \in Tickets : pc[t] = "returned" => EntryTrue(t, Entry(t))

\* Refunds are never taken back and nobody leaves the queue.
LEMMA ServedForGood ==
  ASSUME TypeOK, [Next]_guardVars
  PROVE  /\ refunded \subseteq refunded'
         /\ \A t \in Tickets : \A o : Served(t, o) => Served(t, o)'
  <1>1. refunded \subseteq refunded'
    BY DEF Next, Step, Guard, Allow, Deny, Defer, GuardRaises, Continue, Proceed,
           ToolFails, Enqueue, RetryAfterFailure, RetriesExhausted, RejectCall,
           RunReadTool, RunEligibilityCheck, SendReply, Escalate, IssueRefund,
           AcquireRefundLock, RejectRefund, AcceptRefund, MarkRefunded,
           LogRefund, TakeResult, guardVars, moneyVars
  <1>2. hitl' = hitl \/ \E t \in Tickets : Enqueue(t)
    BY DEF Next, Step, Guard, Allow, Deny, Defer, GuardRaises, Continue, Proceed,
           ToolFails, RetryAfterFailure, RetriesExhausted, RejectCall,
           RunReadTool, RunEligibilityCheck, SendReply, Escalate, IssueRefund,
           AcquireRefundLock, RejectRefund, AcceptRefund, MarkRefunded,
           LogRefund, TakeResult, guardVars
  <1>3. \A i \in DOMAIN hitl : i \in DOMAIN hitl' /\ hitl'[i] = hitl[i]
    <2>1. ASSUME NEW item, hitl' = Append(hitl, item)
          PROVE  \A i \in DOMAIN hitl : i \in DOMAIN hitl' /\ hitl'[i] = hitl[i]
      BY <2>1 DEF TypeOK
    <2>2. QED
      BY <1>2, <2>1 DEF Enqueue
  <1>4. QED
    BY <1>1, <1>3 DEF Served

\* So what an entry says stays so.
LEMMA EntryStaysTrue ==
  ASSUME TypeOK, [Next]_guardVars, NEW t \in Tickets, NEW e, e.order \in OrderArgs,
         EntryTrue(t, e)
  PROVE  EntryTrue(t, e)'
  <1>1. elig[t][e.order] # NoCheck => elig'[t][e.order] # NoCheck
    BY KnowledgeGrows
  <1>2. Served(t, e.order) => Served(t, e.order)'
    BY ServedForGood
  <1> HIDE DEF Served
  <1>3. QED
    BY <1>1, <1>2 DEF EntryTrue

\* Every step of the tools leaves what a ticket knows right.
LEMMA CheckedStep ==
  ASSUME TypeOK, CheckedInv, [Next]_guardVars
  PROVE  CheckedInv'
  <1>1. refunded \subseteq refunded'
    BY ServedForGood
  <1>2. CASE elig' = elig
    BY <1>1, <1>2 DEF CheckedInv, Ledger!Refundable
  <1>3. ASSUME NEW t \in Tickets, RunEligibilityCheck(t)
        PROVE  CheckedInv'
    <2>1. /\ elig' = [elig EXCEPT ![t] =
                        [elig[t] EXCEPT ![call[t].order] = EligibilityOf(call[t].order)]]
          /\ refunded' = refunded
      BY <1>3 DEF RunEligibilityCheck, Return, moneyVars
    <2>2. Ledger!Refundable(call[t].order) =>
            call[t].order \in refunded \/ EligibilityOf(call[t].order).eligible
      BY DEF Ledger!Refundable, EligibilityOf
    <2>3. ASSUME NEW u \in Tickets, NEW o \in OrderArgs,
                 elig'[u][o] # NoCheck, Ledger!Refundable(o)
          PROVE  o \in refunded \/ elig'[u][o].eligible
      <3>1. elig'[u][o] = elig[u][o]
              \/ (o = call[t].order /\ elig'[u][o] = EligibilityOf(o))
        BY <2>1 DEF TypeOK
      <3>2. QED
        BY <2>2, <2>3, <3>1 DEF CheckedInv
    <2>4. QED
      BY <2>1, <2>3 DEF CheckedInv, Ledger!Refundable
  <1>4. ASSUME NEW t \in Tickets, Step(t), ~ RunEligibilityCheck(t)
        PROVE  elig' = elig
    BY <1>4 DEF TypeOK, Step, Guard, Allow, Deny, Defer, GuardRaises, Continue,
           Proceed, ToolFails, Enqueue, RetryAfterFailure, RetriesExhausted,
           RejectCall, RunReadTool, SendReply, Escalate, IssueRefund,
           AcquireRefundLock, RejectRefund, AcceptRefund, MarkRefunded,
           LogRefund, TakeResult, Return
  <1>5. UNCHANGED guardVars => elig' = elig
    BY DEF guardVars, ticketVars
  <1>6. QED
    BY <1>2, <1>3, <1>4, <1>5 DEF Next

\* ... and what comes back from guard true.
LEMMA OutcomeStep ==
  ASSUME TypeOK, LockInv, LedgerInv, ResultsInv, OutcomeInv, [Next]_guardVars
  PROVE  OutcomeInv'
  <1>c. \A u \in Tickets : pc[u] = "returned" => call[u].order \in OrderArgs
    BY GuardAssumption DEF TypeOK, Call
  <1>k. ASSUME NEW u \in Tickets, UNCHANGED <<pc[u], call[u], result[u]>>,
               pc[u] = "returned"
        PROVE  EntryTrue(u, Entry(u))'
    <2>1. PICK e : e = Entry(u)
      OBVIOUS
    <2>2. EntryTrue(u, e) /\ e.order \in OrderArgs
      BY <1>c, <1>k, <2>1 DEF OutcomeInv, Entry
    <2>3. EntryTrue(u, e)'
      BY <2>2, EntryStaysTrue
    <2>4. Entry(u)' = e
      BY <1>k, <2>1 DEF Entry
    <2>5. QED
      BY <2>3, <2>4 DEF EntryTrue
  <1>0. CASE UNCHANGED guardVars
    BY <1>0, <1>k DEF guardVars, ticketVars, OutcomeInv
  <1>1. ASSUME NEW t \in Tickets, Step(t)
        PROVE  OutcomeInv'
    <2>1. \A u \in Tickets \ {t} : UNCHANGED <<pc[u], call[u], result[u]>>
      BY <1>1 DEF Step, Guard, Allow, Deny, Defer, GuardRaises, Propose, Continue,
             Proceed, ToolFails, Enqueue, RetryAfterFailure, RetriesExhausted,
             RejectCall, RunReadTool, RunEligibilityCheck, SendReply, Escalate,
             IssueRefund, AcquireRefundLock, RejectRefund, AcceptRefund,
             MarkRefunded, LogRefund, Return, TakeResult, TypeOK
    <2>2. ASSUME pc'[t] = "returned"
          PROVE  EntryTrue(t, Entry(t))'
      <3>1. CASE RunEligibilityCheck(t)
        <4>1. /\ call'[t].tool = "check_refund_eligibility"
              /\ call'[t] = call[t]
              /\ elig'[t][call[t].order] = EligibilityOf(call[t].order)
          BY <1>c, <3>1, GuardAssumption
             DEF RunEligibilityCheck, BodyRuns, Return, TypeOK, Call
        <4>2. EligibilityOf(call[t].order) # NoCheck
          <5>1. EligibilityOf(call[t].order) \in Eligibility
            BY GuardAssumption DEF EligibilityOf, Eligibility, Amounts
          <5>2. QED
            BY <5>1, PolicyAssumption
        <4>3. QED
          BY <4>1, <4>2 DEF EntryTrue, Entry
      <3>2. CASE LogRefund(t)
        <4>1. /\ call' = call /\ refunded' = refunded
              /\ pc[t] = "marked" /\ call[t].order \in OrderArgs
              /\ call[t].tool = "issue_refund"
          BY <3>2, GuardAssumption
             DEF LogRefund, TypeOK, Call, LockInv, Critical
        <4>2. call[t].order \in refunded
          BY <4>1 DEF LedgerInv
        <4>3. QED
          BY <4>1, <4>2 DEF EntryTrue, Entry, Served
      <3>3. CASE Enqueue(t)
        <4>1. /\ call' = call
              /\ Len(hitl) + 1 \in DOMAIN hitl'
              /\ hitl'[Len(hitl) + 1].ticket = t
              /\ hitl'[Len(hitl) + 1].order = call[t].order
          BY <3>3 DEF Enqueue, TypeOK
        <4>2. Served(t, call[t].order)'
          BY <4>1 DEF Served
        <4>3. result'[t] = "pending"
          BY <3>3 DEF Enqueue, Return, TypeOK
        <4>4. ASSUME call[t].tool = "check_refund_eligibility"
              PROVE  FALSE
          BY <3>3, <4>4 DEF Enqueue, ResultsInv
        <4>5. QED
          BY <4>1, <4>2, <4>4 DEF EntryTrue, Entry
      <3>4. CASE ~ RunEligibilityCheck(t) /\ ~ LogRefund(t) /\ ~ Enqueue(t)
        <4>1. \/ HasError(result'[t])
              \/ call'[t].tool \in ReadTools \cup TerminalTools
          BY <1>1, <2>2, <3>4
             DEF Step, Guard, Allow, Deny, Defer, GuardRaises, Propose, Continue,
                 Proceed, ToolFails, RetryAfterFailure, RetriesExhausted,
                 RejectCall, RunReadTool, SendReply, Escalate, IssueRefund,
                 AcquireRefundLock, RejectRefund, AcceptRefund, MarkRefunded,
                 BodyRuns, Return, TakeResult, TypeOK, HasError, TerminalTools
        <4>2. QED
          BY <4>1 DEF EntryTrue, Entry, ReadTools, TerminalTools, HasError
      <3>5. QED
        BY <3>1, <3>2, <3>3, <3>4
    <2>3. QED
      BY <1>k, <2>1, <2>2 DEF OutcomeInv
  <1>2. QED
    BY <1>0, <1>1 DEF Next

TrailTrue ==
  \A t \in Tickets : \A i \in DOMAIN audit[t] : EntryTrue(t, audit[t][i])

\* A trail that is kept, or gets one more entry that is true, stays true.
LEMMA TrailStaysTrue ==
  ASSUME TypeOK, LoopInv, TrailTrue, [Next]_guardVars, NEW t \in Tickets
  PROVE  /\ audit'[t] = audit[t] =>
              \A i \in DOMAIN audit'[t] : EntryTrue(t, audit[t][i])'
         /\ \A e \in AuditEntry :
              audit'[t] = Append(audit[t], e) /\ EntryTrue(t, e)' =>
                \A i \in DOMAIN audit'[t] : EntryTrue(t, audit[t][i])'
  <1>1. audit[t] \in Seq(AuditEntry)
    BY DEF LoopInv, ResolverTypeOK
  <1>2. ASSUME NEW i \in DOMAIN audit[t], audit'[t][i] = audit[t][i]
        PROVE  EntryTrue(t, audit[t][i])'
    <2>1. PICK e : e = audit[t][i]
      OBVIOUS
    <2>2. EntryTrue(t, e) /\ e.order \in OrderArgs
      <3>1. e \in AuditEntry
        BY <1>1, <2>1
      <3>2. EntryTrue(t, e)
        BY <2>1, Zenon DEF TrailTrue
      <3>3. QED
        BY <3>1, <3>2 DEF AuditEntry
    <2>3. EntryTrue(t, e)'
      BY <2>2, EntryStaysTrue
    <2>4. QED
      BY <1>2, <2>1, <2>3 DEF EntryTrue
  <1>3. ASSUME NEW e \in AuditEntry, audit'[t] = Append(audit[t], e),
               EntryTrue(t, e)', NEW i \in DOMAIN audit'[t]
        PROVE  EntryTrue(t, audit[t][i])'
    <2>1. CASE i \in DOMAIN audit[t]
      BY <1>1, <1>2, <1>3, <2>1
    <2>2. CASE i \notin DOMAIN audit[t]
      <3>1. audit'[t][i] = e
        BY <1>1, <1>3, <2>2
      <3>2. QED
        BY <1>3, <3>1 DEF EntryTrue
    <2>3. QED
      BY <2>1, <2>2
  <1>4. QED
    BY <1>2, <1>3

\* The loop writes down what guard returned, or that the LLM failed.
LEMMA TrailTrueStep ==
  ASSUME TypeOK, LoopInv, OutcomeInv, TrailTrue, [ResolverNext]_vars
  PROVE  TrailTrue'
  <1>s. [Next]_guardVars
    BY StepIsGuarded DEF ResolverNext, vars, Next
  <1>0. CASE audit' = audit
    BY <1>s, <1>0, TrailStaysTrue DEF TrailTrue
  <1>1. ASSUME NEW t \in Tickets, LlmFails(t)
        PROVE  TrailTrue'
    <2> DEFINE e == [tool |-> "llm_error", order |-> NoOrder, result |-> "error"]
    <2>1. /\ audit'[t] = Append(audit[t], e)
          /\ \A u \in Tickets \ {t} : audit'[u] = audit[u]
      BY <1>1 DEF LlmFails, LoopInv, ResolverTypeOK
    <2>2. e \in AuditEntry /\ EntryTrue(t, e)'
      BY DEF AuditEntry, OrderArgs, Results, EntryTrue, HasError
    <2> HIDE DEF e
    <2>3. \A i \in DOMAIN audit'[t] : EntryTrue(t, audit[t][i])'
      BY <1>s, <2>1, <2>2, TrailStaysTrue
    <2>4. \A u \in Tickets \ {t} :
            \A i \in DOMAIN audit'[u] : EntryTrue(u, audit[u][i])'
      BY <1>s, <2>1, TrailStaysTrue
    <2>5. QED
      BY <2>3, <2>4 DEF TrailTrue
  <1>2. ASSUME NEW t \in Tickets, AfterCall(t)
        PROVE  TrailTrue'
    <2>1. PICK e : e = Entry(t)
      OBVIOUS
    <2>2. /\ audit'[t] = Append(audit[t], e)
          /\ \A u \in Tickets \ {t} : audit'[u] = audit[u]
          /\ pc[t] = "returned" /\ call[t] \in Calls
      BY <1>2, <2>1 DEF AfterCall, TakeResult, TypeOK, LoopInv, ResolverTypeOK
    <2>3. e \in AuditEntry /\ e.order \in OrderArgs
      BY <2>1, <2>2, EntryTyped DEF AuditEntry
    <2>4. EntryTrue(t, e)'
      BY <1>s, <2>1, <2>2, <2>3, EntryStaysTrue DEF OutcomeInv
    <2>5. \A i \in DOMAIN audit'[t] : EntryTrue(t, audit[t][i])'
      BY <1>s, <2>2, <2>3, <2>4, TrailStaysTrue
    <2>6. \A u \in Tickets \ {t} :
            \A i \in DOMAIN audit'[u] : EntryTrue(u, audit[u][i])'
      BY <1>s, <2>2, TrailStaysTrue
    <2>7. QED
      BY <2>5, <2>6 DEF TrailTrue
  <1>3. ASSUME NEW t \in Tickets, CallRaises(t) \/ RecordActionFails(t)
        PROVE  TrailTrue'
    <2>1. /\ audit'[t] = << >>
          /\ \A u \in Tickets \ {t} : audit'[u] = audit[u]
      BY <1>3 DEF CallRaises, RecordActionFails, Fail, LoopInv, ResolverTypeOK
    <2>2. \A u \in Tickets \ {t} :
            \A i \in DOMAIN audit'[u] : EntryTrue(u, audit[u][i])'
      BY <1>s, <2>1, TrailStaysTrue
    <2>3. QED
      BY <2>1, <2>2 DEF TrailTrue
  <1>4. ASSUME NEW t \in Tickets, ResolverStep(t), ~ LlmFails(t), ~ AfterCall(t),
               ~ CallRaises(t), ~ RecordActionFails(t)
        PROVE  audit' = audit
    BY <1>4 DEF ResolverStep, TicketProceeds, TicketTrouble, LlmTalks, LlmCalls,
                IterationsExhausted, MakeCall, Finish, loopVars
  <1>5. QED
    BY <1>0, <1>1, <1>2, <1>3, <1>4 DEF ResolverNext, vars, loopVars

\* Whatever the LLM does, no trail claims more than happened: a check it shows
\* is remembered, a refund it shows was made or waits for a human, and what a
\* ticket knows of an order that may be refunded is wrong only once somebody
\* refunded it.
THEOREM TrailIsTrue == ResolverSpec => [](TrailTrue /\ CheckedInv)
<1>1. ResolverInit => /\ LoopInv /\ ResultsInv /\ OutcomeInv /\ TrailTrue
                      /\ CheckedInv
  <2>1. ResolverInit => OutcomeInv /\ TrailTrue /\ CheckedInv /\ ResultsInv
    BY DEF ResolverInit, Init, OutcomeInv, TrailTrue, CheckedInv, ResultsInv
  <2>2. QED
    BY <2>1, LoopInit
<1>2. [ResolverNext]_vars => [Next]_guardVars
  BY StepIsGuarded DEF ResolverNext, vars, Next
<1>3. ResolverSpec => []TypeOK /\ []LockInv /\ []LedgerInv
  BY ResolverDrivesTools, TypeCorrect, LockExclusion, LedgerCorrect, PTL
<1>4. QED
  BY <1>1, <1>2, <1>3, LoopInvStep, ResultsStep, CheckedStep, OutcomeStep,
     TrailTrueStep, PTL DEF ResolverSpec

\* What waits for a human was stopped by a gate and breaks no hard rule, and
\* shares its reference only with a refund queued by an overlapping enqueue of
\* the same ticket id, whatever the LLM asked for.
THEOREM ResolverQueueSound ==
  ASSUME NumbersOnly
  PROVE  ResolverSpec => [](QueuedRefundsVetted /\ SharedReferenceMeansOverlap)
  BY ResolverDrivesTools, QueueVetted, ReferencesTellApart, PTL

-----------------------------------------------------------------------------
(* Every step brings a ticket closer to its end.                           *)

\* A call's share of the steps a ticket has left; those of the iterations to
\* come; and those of the calls of the message after the one in progress.
PerCall == MaxRetries + 6
Ahead(t) == (MaxIter - iter[t]) * (MaxBatch * PerCall + 2) + 2
Waiting(t) == (left[t] - 1) * PerCall

\* Products of the loop's counters.
LEMMA Multiples ==
  ASSUME NEW k \in Nat, NEW n \in Nat \ {0}, NEW m \in Nat
  PROVE  /\ n * k \in Nat /\ m * k \in Nat /\ (n - 1) * k \in Nat
         /\ n * k = (n - 1) * k + k
         /\ n <= m => n * k <= m * k
  <1>1. n * k \in Nat /\ m * k \in Nat /\ (n - 1) * k \in Nat
    OBVIOUS
  <1>2. n * k = (n - 1) * k + k
    OBVIOUS
  <1>3. ASSUME n <= m
        PROVE  n * k <= m * k
    <2>1. m * k = n * k + (m - n) * k
      OBVIOUS
    <2>2. (m - n) * k \in Nat
      BY <1>3
    <2>3. QED
      BY <1>1, <2>1, <2>2
  <1>4. QED
    BY <1>1, <1>2, <1>3

\* What is left, by the place a ticket is at.
LEMMA LeftReads ==
  ASSUME NEW t \in Tickets
  PROVE  /\ phase[t] = "llm" => LeftOf(t) = Ahead(t)
         /\ phase[t] = "batch" => LeftOf(t) = Ahead(t) + Waiting(t) + LeftOfCall(t)
         /\ phase[t] = "closing" => LeftOf(t) = 1
         /\ phase[t] \in {"finished", "failed"} => LeftOf(t) = 0
         /\ phase'[t] = "llm" => LeftOf(t)' = Ahead(t)'
         /\ phase'[t] = "batch" =>
              LeftOf(t)' = Ahead(t)' + Waiting(t)' + LeftOfCall(t)'
         /\ phase'[t] = "closing" => LeftOf(t)' = 1
         /\ phase'[t] \in {"finished", "failed"} => LeftOf(t)' = 0
  BY DEF LeftOf, Ahead, Waiting, PerCall

\* The iterations to come; a turn of the LLM takes one, with room for a
\* message full of calls.
LEMMA TurnsLeft ==
  ASSUME TypeOK, LoopInv, NEW t \in Tickets
  PROVE  /\ PerCall \in Nat /\ PerCall >= 6
         /\ MaxBatch * PerCall \in Nat
         /\ Ahead(t) \in Nat /\ Ahead(t) >= 2
         /\ iter'[t] = iter[t] => Ahead(t)' = Ahead(t)
         /\ iter[t] < MaxIter /\ iter'[t] = iter[t] + 1 =>
              /\ Ahead(t)' \in Nat /\ Ahead(t)' >= 2
              /\ Ahead(t) = Ahead(t)' + MaxBatch * PerCall + 2
  <1> DEFINE turn == MaxBatch * PerCall + 2
  <1>1. PerCall \in Nat /\ PerCall >= 6
    BY GuardAssumption DEF PerCall
  <1>2. MaxBatch * PerCall \in Nat
    BY <1>1, ResolverAssumption
  <1>3. turn \in Nat
    BY <1>2
  <1>4. MaxIter - iter[t] \in Nat
    BY ResolverAssumption DEF LoopInv, ResolverTypeOK
  <1>5. Ahead(t) = (MaxIter - iter[t]) * turn + 2
    BY DEF Ahead
  <1>6. Ahead(t)' = (MaxIter - iter'[t]) * turn + 2
    BY DEF Ahead
  <1> HIDE DEF turn
  <1>7. Ahead(t) \in Nat /\ Ahead(t) >= 2
    <2>1. (MaxIter - iter[t]) * turn \in Nat
      BY <1>3, <1>4
    <2>2. QED
      BY <1>5, <2>1
  <1>8. ASSUME iter[t] < MaxIter, iter'[t] = iter[t] + 1
        PROVE  /\ Ahead(t)' \in Nat /\ Ahead(t)' >= 2
               /\ Ahead(t) = Ahead(t)' + turn
    <2>1. PICK n : n = MaxIter - iter[t]
      OBVIOUS
    <2>2. n \in Nat \ {0} /\ MaxIter - iter'[t] = n - 1
      <3>1. iter[t] \in Nat /\ MaxIter \in Nat
        BY ResolverAssumption DEF LoopInv, ResolverTypeOK
      <3>2. QED
        BY <1>8, <2>1, <3>1
    <2>3. n * turn = (n - 1) * turn + turn /\ (n - 1) * turn \in Nat
      BY <1>3, <2>2, Multiples
    <2>4. QED
      BY <1>3, <1>5, <1>6, <2>1, <2>2, <2>3
  <1>9. ASSUME iter'[t] = iter[t]
        PROVE  Ahead(t)' = Ahead(t)
    BY <1>5, <1>6, <1>9
  <1>10. QED
    BY <1>1, <1>2, <1>7, <1>8, <1>9 DEF turn

\* A ticket's own step.
LEMMA TicketGoesOn ==
  ASSUME TypeOK, LoopInv, NEW t \in Tickets, ResolverStep(t)
  PROVE  LeftOf(t)' \in 0..(LeftOf(t) - 1)
  <1>1. /\ PerCall \in Nat /\ PerCall = MaxRetries + 6 /\ MaxRetries \in Nat
        /\ MaxBatch * PerCall \in Nat /\ MaxBatch \in Nat
        /\ Ahead(t) \in Nat /\ Ahead(t) >= 2
    BY TurnsLeft, GuardAssumption, ResolverAssumption DEF PerCall
  <1>2. /\ left[t] \in 0..MaxBatch
        /\ phase[t] = "batch" => left[t] > 0
        /\ pc[t] \notin {"idle", "crashed"} => phase[t] = "batch"
        /\ attempt[t] \in 0..MaxRetries
    BY DEF LoopInv, ResolverTypeOK, BatchInv, TypeOK
  <1>3. phase[t] = "batch" => /\ Waiting(t) \in Nat
                              /\ LeftOfCall(t) \in 1..PerCall
    <2>1. ASSUME phase[t] = "batch"
          PROVE  Waiting(t) \in Nat
      <3>1. left[t] \in Nat \ {0}
        BY <1>2, <2>1
      <3>2. QED
        BY <1>1, <3>1, Multiples DEF Waiting
    <2>2. LeftOfCall(t) \in 1..PerCall
      BY <1>1, <1>2 DEF LeftOfCall
    <2>3. QED
      BY <2>1, <2>2
  <1>4. ASSUME LlmTalks(t) \/ LlmFails(t)
        PROVE  LeftOf(t)' \in 0..(LeftOf(t) - 1)
    <2>1. /\ phase[t] = "llm" /\ phase'[t] \in {"llm", "closing"}
          /\ iter[t] < MaxIter /\ iter'[t] = iter[t] + 1
      BY <1>4 DEF LlmTalks, LlmFails, AskLlm, LoopInv, ResolverTypeOK
    <2>2. /\ Ahead(t)' \in Nat /\ Ahead(t)' >= 2
          /\ Ahead(t) = Ahead(t)' + MaxBatch * PerCall + 2
      BY <2>1, TurnsLeft
    <2>3. QED
      BY <1>1, <2>1, <2>2, LeftReads
  <1>5. ASSUME LlmCalls(t)
        PROVE  LeftOf(t)' \in 0..(LeftOf(t) - 1)
    <2>1. PICK n \in 1..MaxBatch : left' = [left EXCEPT ![t] = n]
      BY <1>5 DEF LlmCalls
    <2>2. /\ phase[t] = "llm" /\ phase'[t] = "batch"
          /\ iter[t] < MaxIter /\ iter'[t] = iter[t] + 1
          /\ left'[t] = n
          /\ pc' = pc /\ attempt' = attempt
      BY <1>5, <2>1 DEF LlmCalls, AskLlm, LoopInv, ResolverTypeOK, guardVars,
                        ticketVars
    <2>3. /\ Ahead(t)' \in Nat /\ Ahead(t)' >= 2
          /\ Ahead(t) = Ahead(t)' + MaxBatch * PerCall + 2
      BY <2>2, TurnsLeft
    <2>4. /\ (n - 1) * PerCall \in Nat
          /\ n * PerCall = (n - 1) * PerCall + PerCall
          /\ n * PerCall <= MaxBatch * PerCall
          /\ n * PerCall \in Nat
      <3>1. n \in Nat \ {0} /\ n <= MaxBatch
        BY <1>1
      <3>2. QED
        BY <1>1, <3>1, Multiples
    <2>5. Waiting(t)' = (n - 1) * PerCall
      BY <2>2 DEF Waiting, PerCall
    <2>6. LeftOfCall(t)' \in 1..PerCall
      BY <1>1, <1>2, <2>2 DEF LeftOfCall
    <2>7. LeftOf(t) = Ahead(t)
          /\ LeftOf(t)' = Ahead(t)' + (n - 1) * PerCall + LeftOfCall(t)'
      BY <2>2, <2>5, LeftReads
    <2>8. QED
      BY <1>1, <2>3, <2>4, <2>6, <2>7
  <1>6. ASSUME IterationsExhausted(t) \/ Finish(t)
        PROVE  LeftOf(t)' \in 0..(LeftOf(t) - 1)
    <2>1. \/ phase[t] = "llm" /\ phase'[t] = "closing"
          \/ phase[t] = "closing" /\ phase'[t] = "finished"
      BY <1>6 DEF IterationsExhausted, Finish, LoopInv, ResolverTypeOK
    <2>2. QED
      BY <1>1, <2>1, LeftReads
  <1>7. ASSUME MakeCall(t) \/ (Continue(t) /\ UNCHANGED loopVars)
        PROVE  LeftOf(t)' \in 0..(LeftOf(t) - 1)
    <2>1. phase[t] = "batch" /\ UNCHANGED <<phase, iter, left>>
      <3>1. CASE MakeCall(t)
        BY <3>1 DEF MakeCall, loopVars
      <3>2. CASE Continue(t) /\ UNCHANGED loopVars
        <4>1. pc[t] \notin {"idle", "crashed"}
          BY <3>2 DEF Continue, Proceed, ToolFails, Enqueue, RetryAfterFailure,
                      RetriesExhausted, RejectCall, RunReadTool,
                      RunEligibilityCheck, SendReply, Escalate, IssueRefund,
                      AcquireRefundLock, RejectRefund, AcceptRefund,
                      MarkRefunded, LogRefund, BodyRuns
        <4>2. QED
          BY <1>2, <3>2, <4>1 DEF loopVars
      <3>3. QED
        BY <1>7, <3>1, <3>2
    <2>2. LeftOfCall(t)' \in 1..(LeftOfCall(t) - 1)
      <3>1. CASE MakeCall(t)
        <4>1. /\ pc[t] = "idle" /\ attempt'[t] = 0
              /\ pc'[t] \in {"running", "returned", "enqueueing"}
          BY <3>1 DEF MakeCall, Allow, Deny, Defer, Propose, Return, TypeOK
        <4>2. QED
          BY <1>1, <4>1 DEF LeftOfCall
      <3>2. CASE RetryAfterFailure(t)
        <4>1. /\ pc[t] = "running" /\ pc' = pc /\ attempt[t] < MaxRetries
              /\ attempt'[t] = attempt[t] + 1
          BY <3>2 DEF RetryAfterFailure, BodyRuns, TypeOK
        <4>2. QED
          BY <1>1, <1>2, <4>1 DEF LeftOfCall
      <3>3. CASE Continue(t) /\ ~ RetryAfterFailure(t)
        <4>1. \/ /\ pc[t] = "running"
                 /\ pc'[t] \in {"returned", "locked"}
              \/ pc[t] = "locked" /\ pc'[t] \in {"returned", "accepted"}
              \/ pc[t] = "accepted" /\ pc'[t] = "marked"
              \/ pc[t] \in {"marked", "enqueueing"} /\ pc'[t] = "returned"
          BY <3>3 DEF Continue, Proceed, ToolFails, Enqueue,
                      RetriesExhausted, RejectCall, RunReadTool,
                      RunEligibilityCheck, SendReply, Escalate, IssueRefund,
                      AcquireRefundLock, RejectRefund, AcceptRefund,
                      MarkRefunded, LogRefund, BodyRuns, Return, TypeOK
        <4>2. QED
          BY <1>1, <1>2, <4>1 DEF LeftOfCall
      <3>4. QED
        BY <1>7, <3>1, <3>2, <3>3
    <2>3. Ahead(t)' = Ahead(t) /\ Waiting(t)' = Waiting(t)
      BY <2>1, TurnsLeft DEF Waiting
    <2>4. QED
      BY <1>1, <1>3, <2>1, <2>2, <2>3, LeftReads
  <1>8. ASSUME AfterCall(t)
        PROVE  LeftOf(t)' \in 0..(LeftOf(t) - 1)
    <2>1. /\ pc[t] = "returned" /\ pc'[t] = "idle"
          /\ iter' = iter /\ left'[t] = left[t] - 1
          /\ left[t] > 1 => phase'[t] = "batch"
          /\ phase'[t] \in {"batch", "closing", "llm"}
          /\ ~ left[t] > 1 => phase'[t] # "batch"
      BY <1>8 DEF AfterCall, TakeResult, TypeOK, LoopInv, ResolverTypeOK
    <2>2. Ahead(t)' = Ahead(t)
      BY <2>1, TurnsLeft
    <2>3. LeftOfCall(t) = 1 /\ LeftOfCall(t)' = PerCall
      BY <2>1 DEF LeftOfCall, PerCall
    <2>4. left[t] > 1 => Waiting(t) = Waiting(t)' + PerCall /\ Waiting(t)' \in Nat
      <3>1. SUFFICES ASSUME left[t] > 1
            PROVE  Waiting(t) = Waiting(t)' + PerCall /\ Waiting(t)' \in Nat
        OBVIOUS
      <3>2. PICK n : n = left[t] - 1
        OBVIOUS
      <3>3. n \in Nat \ {0} /\ left'[t] = n
        BY <1>2, <2>1, <3>1, <3>2, <1>1
      <3>4. n * PerCall = (n - 1) * PerCall + PerCall /\ (n - 1) * PerCall \in Nat
        BY <1>1, <3>3, Multiples
      <3>5. QED
        BY <3>2, <3>3, <3>4 DEF Waiting, PerCall
    <2>5. CASE left[t] > 1
      BY <1>1, <1>2, <1>3, <2>1, <2>2, <2>3, <2>4, <2>5, LeftReads
    <2>6. CASE ~ left[t] > 1
      BY <1>1, <1>2, <1>3, <2>1, <2>2, <2>3, <2>6, LeftReads
    <2>7. QED
      BY <2>5, <2>6
  <1>9. ASSUME CallRaises(t) \/ RecordActionFails(t)
        PROVE  LeftOf(t)' \in 0..(LeftOf(t) - 1)
    <2>1. phase[t] = "batch" /\ phase'[t] = "failed"
      BY <1>2, <1>9 DEF CallRaises, RecordActionFails, TakeResult, Fail, LoopInv,
                        ResolverTypeOK
    <2>2. QED
      BY <1>1, <1>3, <2>1, LeftReads
  <1>10. QED
    BY <1>4, <1>5, <1>6, <1>7, <1>8, <1>9
       DEF ResolverStep, TicketProceeds, TicketTrouble, Continue

\* ... moves nobody else.
LEMMA OthersStay ==
  ASSUME TypeOK, LoopInv, NEW t \in Tickets, ResolverStep(t),
         NEW u \in Tickets \ {t}
  PROVE  LeftOf(u)' = LeftOf(u)
  <1>1. UNCHANGED <<phase[u], iter[u], left[u]>>
    BY DEF ResolverStep, TicketProceeds, TicketTrouble, LlmTalks, LlmCalls,
           LlmFails, AskLlm, IterationsExhausted, MakeCall, AfterCall,
           CallRaises, RecordActionFails, Fail, Finish, loopVars, LoopInv,
           ResolverTypeOK
  <1>2. UNCHANGED <<pc[u], attempt[u]>>
    <2>1. CASE UNCHANGED <<pc, attempt>>
      BY <2>1
    <2>2. CASE MakeCall(t) \/ CallRaises(t)
      BY <2>2 DEF MakeCall, CallRaises, Allow, Deny, Defer, GuardRaises, Propose,
                  Return, TypeOK
    <2>3. CASE Continue(t)
      BY <2>3 DEF Continue, Proceed, ToolFails, Enqueue, RetryAfterFailure,
                  RetriesExhausted, RejectCall, RunReadTool,
                  RunEligibilityCheck, SendReply, Escalate, IssueRefund,
                  AcquireRefundLock, RejectRefund, AcceptRefund, MarkRefunded,
                  LogRefund, Return, TypeOK
    <2>4. CASE AfterCall(t) \/ RecordActionFails(t)
      BY <2>4 DEF AfterCall, RecordActionFails, TakeResult, TypeOK
    <2>5. CASE LlmTalks(t) \/ LlmCalls(t) \/ LlmFails(t)
                 \/ IterationsExhausted(t) \/ Finish(t)
      BY <2>1, <2>5 DEF LlmTalks, LlmCalls, LlmFails, IterationsExhausted, Finish,
                  guardVars, ticketVars
    <2>6. QED
      BY <2>2, <2>3, <2>4, <2>5
         DEF ResolverStep, TicketProceeds, TicketTrouble, Continue
  <1>3. QED
    BY <1>1, <1>2 DEF LeftOf, LeftOfCall

\* No ticket can go on for ever, whatever the LLM answers and whichever steps
\* fail: each step uses up what one ticket has left and gives nothing back.
THEOREM NothingGoesOnForEver == ResolverSpec => EveryStepCounts
<1>1. TypeOK /\ LoopInv /\ [ResolverNext]_vars =>
        [\E t \in Tickets : /\ LeftOf(t)' \in 0..(LeftOf(t) - 1)
                            /\ \A u \in Tickets \ {t} : LeftOf(u)' = LeftOf(u)]_vars
  BY TicketGoesOn, OthersStay DEF ResolverNext
<1>2. ResolverInit => LoopInv
  BY LoopInit
<1>3. ResolverSpec => []TypeOK
  BY ResolverDrivesTools, TypeCorrect, PTL
<1>4. QED
  BY <1>1, <1>2, <1>3, LoopInvStep, PTL DEF ResolverSpec, EveryStepCounts
=============================================================================
