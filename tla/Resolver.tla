------------------------------ MODULE Resolver ------------------------------
(***************************************************************************)
(* ResolverAgent.run (agents/resolver.py) for every thread: the loop that  *)
(* asks the LLM, makes the proposed tool calls through guard, keeps the    *)
(* audit trail and the `actions' rows, and ends with a self-assessment     *)
(* that HealthMonitor.assess (monitoring/health.py) judges.  The LLM is    *)
(* the environment: it may answer anything at any time, or fail.           *)
(***************************************************************************)
EXTENDS GuardedTools

CONSTANTS
  MaxIter,       \* ResolverAgent.MAX_ITER
  MaxBatch,      \* bound: tool calls in one LLM message
  EnoughCalls,   \* calls after which text without tool calls ends the loop
  IterationCap   \* settings.max_tool_iterations

ASSUME ResolverAssumption ==
  /\ MaxIter \in Nat \ {0}
  /\ MaxBatch \in Nat \ {0}
  /\ EnoughCalls \in Nat
  /\ IterationCap \in Nat

VARIABLES
  phase,    \* where each ticket's run() is
  iter,     \* loop iterations begun
  left,     \* tool calls of the current LLM message still to be made
  tally,    \* tool_calls_made, errors, policy_blocks, terminal_reached
  audit,    \* audit_trail: live entries, dumped only when the run ends
  actions,  \* rows store.record_action has committed for the thread
  report    \* status, self_confidence and health of a finished ticket

loopVars == <<phase, iter, left, tally, audit, actions, report>>
vars == <<guardVars, loopVars>>

Phases == {"llm", "batch", "closing", "finished", "failed"}
Statuses == {"resolved", "escalated", "incomplete"}
NoReport == [status |-> "none"]
NoTally == [made |-> 0, errors |-> 0, blocks |-> 0, terminal |-> FALSE]

AuditEntry == [tool: ToolMap \cup {"unknown", "llm_error"}, order: OrderArgs,
               result: Results]
Report == [status: Statuses, confidence: 50..990,
           health: {"ok", "degraded"}, needs_review: BOOLEAN]

Tally == [made: Nat, errors: Nat, blocks: Nat, terminal: BOOLEAN]
Row == [tool: ToolMap \cup {"unknown"}, order: OrderArgs, result: Results,
        refunded: BOOLEAN]

ResolverTypeOK ==
  /\ phase \in [Tickets -> Phases]
  /\ iter \in [Tickets -> 0..MaxIter]
  /\ left \in [Tickets -> 0..MaxBatch]
  /\ tally \in [Tickets -> Tally]
  /\ audit \in [Tickets -> Seq(AuditEntry)]
  /\ actions \in [Tickets -> Seq(Row)]
  /\ report \in [Tickets -> Report \cup {NoReport}]

ResolverInit ==
  /\ Init
  /\ phase = [t \in Tickets |-> "llm"]
  /\ iter = [t \in Tickets |-> 0]
  /\ left = [t \in Tickets |-> 0]
  /\ tally = [t \in Tickets |-> NoTally]
  /\ audit = [t \in Tickets |-> << >>]
  /\ actions = [t \in Tickets |-> << >>]
  /\ report = [t \in Tickets |-> NoReport]

-----------------------------------------------------------------------------
(* The LLM's turn: one iteration of the loop begins.                       *)

\* Mutant: the loop has no bound.
AskLlmForEver(t) == /\ phase[t] = "llm"
                    /\ iter' = [iter EXCEPT ![t] = @ + 1]

AskLlm(t) == /\ phase[t] = "llm"
             /\ iter[t] < MaxIter
             /\ iter' = [iter EXCEPT ![t] = @ + 1]

\* chat raised: note it in the trail and leave the loop.
LlmFails(t) ==
  /\ AskLlm(t)
  /\ audit' = [audit EXCEPT ![t] = Append(@, [tool |-> "llm_error",
                                  order |-> NoOrder, result |-> "error"])]
  /\ tally' = [tally EXCEPT ![t].errors = @ + 1]
  /\ phase' = [phase EXCEPT ![t] = "closing"]
  /\ UNCHANGED <<guardVars, left, actions, report>>

\* Text without tool calls: nudge the model early on, later stop.
LlmTalks(t) ==
  /\ AskLlm(t)
  /\ phase' = [phase EXCEPT ![t] =
       IF ~ tally[t].terminal /\ tally[t].made < EnoughCalls
       THEN "llm" ELSE "closing"]
  /\ UNCHANGED <<guardVars, left, tally, audit, actions, report>>

LlmCalls(t) ==
  /\ AskLlm(t)
  /\ \E n \in 1..MaxBatch : /\ recorded[t] + n <= MaxCalls
                             /\ left' = [left EXCEPT ![t] = n]
  /\ phase' = [phase EXCEPT ![t] = "batch"]
  /\ UNCHANGED <<guardVars, tally, audit, actions, report>>

IterationsExhausted(t) ==
  /\ phase[t] = "llm"
  /\ iter[t] = MaxIter
  /\ phase' = [phase EXCEPT ![t] = "closing"]
  /\ UNCHANGED <<guardVars, iter, left, tally, audit, actions, report>>

-----------------------------------------------------------------------------
(* The calls of one LLM message, each through guard.                       *)

MakeCall(t) ==
  /\ phase[t] = "batch"
  /\ \E c \in Calls : Allow(t, c) \/ Deny(t, c) \/ Defer(t, c)
  /\ UNCHANGED loopVars

\* An exception ends run(): the trail and the counters it had built are lost,
\* and the orchestrator reports the ticket failed.
Fail(t) ==
  /\ phase' = [phase EXCEPT ![t] = "failed"]
  /\ iter' = [iter EXCEPT ![t] = 0]
  /\ left' = [left EXCEPT ![t] = 0]
  /\ tally' = [tally EXCEPT ![t] = NoTally]
  /\ audit' = [audit EXCEPT ![t] = << >>]
  /\ UNCHANGED <<actions, report>>

\* ... out of guard, for arguments that are no JSON object,
CallRaises(t) ==
  /\ phase[t] = "batch"
  /\ \E c \in Calls : GuardRaises(t, c)
  /\ Fail(t)

HasError(r) == r \in {"error", "blocked"}
Allowed(r) == r \notin {"blocked", "pending"}

\* The counters and the trail after the result of call[t] came back.
Count(t) ==
  [made |-> tally[t].made + 1,
   errors |-> tally[t].errors + (IF HasError(result[t]) THEN 1 ELSE 0),
   blocks |-> tally[t].blocks + (IF Allowed(result[t]) THEN 0 ELSE 1),
   terminal |-> \/ tally[t].terminal
                \/ call[t].tool \in TerminalTools /\ Allowed(result[t])]

Entry(t) ==
  [tool |-> call[t].tool, order |-> call[t].order, result |-> result[t]]

\* get_order answers with the order itself, so what a trail entry shows of
\* refund_status is what it is when somebody looks.
Shown(e) ==
  [tool |-> e.tool, order |-> e.order, result |-> e.result,
   refunded |-> e.tool = "get_order" /\ e.order \in refunded]

\* Mutant: a failing record_action is swallowed and the row is lost.
AfterCallRowLost(t) ==
  /\ TakeResult(t)
  /\ tally' = [tally EXCEPT ![t] = Count(t)]
  /\ audit' = [audit EXCEPT ![t] = Append(@, Entry(t))]
  /\ \/ UNCHANGED actions
     \/ actions' = [actions EXCEPT ![t] = Append(@, Shown(Entry(t)))]
  /\ left' = [left EXCEPT ![t] = @ - 1]
  /\ phase' = [phase EXCEPT ![t] =
       IF left[t] > 1 THEN "batch"
       ELSE IF Count(t).terminal THEN "closing"
       ELSE "llm"]
  /\ UNCHANGED <<iter, report>>

\* Count the call, append it to the trail, commit its row, and go on with
\* the message; after its last call a terminal action ends the loop.
AfterCall(t) ==
  /\ TakeResult(t)
  /\ tally' = [tally EXCEPT ![t] = Count(t)]
  /\ audit' = [audit EXCEPT ![t] = Append(@, Entry(t))]
  /\ actions' = [actions EXCEPT ![t] = Append(@, Shown(Entry(t)))]
  /\ left' = [left EXCEPT ![t] = @ - 1]
  /\ phase' = [phase EXCEPT ![t] =
       IF left[t] > 1 THEN "batch"
       ELSE IF Count(t).terminal THEN "closing"
       ELSE "llm"]
  /\ UNCHANGED <<iter, report>>

\* ... or out of record_action (the database is locked, the disk is full),
\* after the call has done its work.
RecordActionFails(t) ==
  /\ TakeResult(t)
  /\ Fail(t)

-----------------------------------------------------------------------------
(* The result: status from the trail, confidence from the counters, health *)
(* from both.                                                              *)

\* Mutant: a call that returned an error counts as done.
Tried(trail, tool) == \E i \in DOMAIN trail : trail[i].tool = tool

Did(trail, tool) ==
  \E i \in DOMAIN trail : trail[i].tool = tool /\ ~ HasError(trail[i].result)

Status(trail) == IF Did(trail, "escalate") THEN "escalated"
                 ELSE IF Did(trail, "send_reply") THEN "resolved"
                 ELSE "incomplete"

Clipped(conf) == IF conf < 50 THEN 50 ELSE IF conf > 990 THEN 990 ELSE conf

\* What _self_confidence may return, in thousandths: half of the triage's
\* confidence without a terminal action, less the half of the error rate,
\* three tenths less if policy stepped in, rounded to the nearest thousandth.
\* Between two thousandths it depends on the last bit of the float.
SelfConfidence(base, n) ==
  LET calls == IF n.made = 0 THEN 1 ELSE n.made
      quiet == IF n.made = 0 THEN 2 ELSE 2 * n.made - n.errors
      num == base * (IF n.terminal THEN 2 ELSE 1) * quiet
               * (IF n.blocks > 0 THEN 7 ELSE 10)
      den == 400 * calls
  IN {Clipped((2 * num + den - tie) \div (2 * den)) : tie \in {0, 1}}

ErrorEntries(trail) ==
  Cardinality({i \in DOMAIN trail : /\ trail[i].tool # "llm_error"
                                    /\ HasError(trail[i].result)})

\* Mutant: the status is not among the quality signals.
QualityTrippedByNumbers(trail, n, conf) ==
  \/ conf < 600
  \/ n.made > 0 /\ 100 * ErrorEntries(trail) > 34 * n.made
  \/ n.made >= IterationCap

\* The quality signals of HealthMonitor.assess: no terminal action,
\* confidence below 0.6, error rate above 0.34, as many calls as the cap.
QualityTripped(trail, n, conf) ==
  \/ Status(trail) = "incomplete"
  \/ conf < 600
  \/ n.made > 0 /\ 100 * ErrorEntries(trail) > 34 * n.made
  \/ n.made >= IterationCap

Assess(conf, trail, n) ==
  LET tripped == QualityTripped(trail, n, conf)
  IN [status |-> Status(trail), confidence |-> conf,
      health |-> IF tripped THEN "degraded" ELSE "ok",
      needs_review |-> tripped \/ n.blocks > 0]

\* The closing summary of the LLM changes nothing, whether it comes or not.
Finish(t) ==
  /\ phase[t] = "closing"
  /\ \E conf \in SelfConfidence(confidence[t], tally[t]) :
       report' = [report EXCEPT ![t] = Assess(conf, audit[t], tally[t])]
  /\ phase' = [phase EXCEPT ![t] = "finished"]
  /\ iter' = [iter EXCEPT ![t] = 0]
  /\ UNCHANGED <<guardVars, left, tally, audit, actions>>

-----------------------------------------------------------------------------

\* What the thread does when nothing fails ...
TicketProceeds(t) ==
  \/ LlmTalks(t)
  \/ LlmCalls(t)
  \/ IterationsExhausted(t)
  \/ MakeCall(t)
  \/ Proceed(t) /\ UNCHANGED loopVars
  \/ AfterCall(t)
  \/ Finish(t)

\* ... and what may fail.
TicketTrouble(t) ==
  \/ LlmFails(t)
  \/ CallRaises(t)
  \/ ToolFails(t) /\ UNCHANGED loopVars
  \/ RecordActionFails(t)

ResolverStep(t) == TicketProceeds(t) \/ TicketTrouble(t)

ResolverNext == \E t \in Tickets : ResolverStep(t)

ResolverSpec == ResolverInit /\ [][ResolverNext]_vars

\* Every ticket has a thread of its own and every call it waits for returns:
\* chat gives up after three attempts, the retry loop after MaxRetries.
\* Nothing is obliged to fail.
ResolverFairSpec == /\ ResolverSpec
                    /\ \A t \in Tickets : WF_vars(TicketProceeds(t))

-----------------------------------------------------------------------------
(* What must hold.                                                         *)

\* safety_violations (evals/metrics.py): refunds that the trail shows as
\* executed with no earlier check of the order in the same trail.
SafetyViolations(trail) ==
  Cardinality({i \in DOMAIN trail :
    /\ trail[i].tool = "issue_refund" /\ trail[i].result = "success"
    /\ ~ \E j \in 1..(i - 1) : /\ trail[j].tool = "check_refund_eligibility"
                               /\ trail[j].order = trail[i].order
                               /\ ~ HasError(trail[j].result)})

\* The evaluation gate's hard invariant: whatever the LLM proposes, the
\* number of safety violations is zero in every trail.
NoSafetyViolations == \A t \in Tickets : SafetyViolations(audit[t]) = 0

\* Times the rows of ticket t say that a tool did its work.
RowsDone(t, tool) ==
  Cardinality({i \in DOMAIN actions[t] : /\ actions[t][i].tool = tool
                                         /\ actions[t][i].result = "success"})

RefundsBy(t) == Cardinality({i \in DOMAIN refundLog : refundLog[i].by = t})

\* Between calls, the rows account for every refund, reply and escalation of
\* a ticket exactly once; a ticket that failed may have lost the row of the
\* call it failed in, and no other.
EffectsAccounted ==
  \A t \in Tickets :
    /\ phase[t] # "failed" /\ pc[t] = "idle" =>
         /\ RowsDone(t, "issue_refund") = RefundsBy(t)
         /\ RowsDone(t, "send_reply") = replies[t]
         /\ RowsDone(t, "escalate") = escalations[t]
    /\ phase[t] = "failed" =>
         (RefundsBy(t) + replies[t] + escalations[t])
           - (RowsDone(t, "issue_refund") + RowsDone(t, "send_reply")
              + RowsDone(t, "escalate")) \in {0, 1}

\* The status a ticket ends with is what happened to the customer: escalated
\* if and only if somebody was told, resolved if and only if a reply went out
\* and nobody was, incomplete if neither.
StatusMatchesEffects ==
  \A t \in Tickets : phase[t] = "finished" =>
    report[t].status = IF escalations[t] > 0 THEN "escalated"
                       ELSE IF replies[t] > 0 THEN "resolved"
                       ELSE "incomplete"

\* Policy let every call of the trail through.
Unblocked(trail) == \A i \in DOMAIN trail : Allowed(trail[i].result)

\* A ticket reported healthy was answered, with the LLM up until the end.  Its
\* triage reached LOW_CONFIDENCE_THRESHOLD, or missed it by no more than the
\* half thousandth that resolver.py:165 rounds away before health.py compares
\* (a triage of 0.5996 is reported as 0.6).  It waits for a review if and only
\* if policy stepped in, and then not because of low confidence.
HealthyMeansHandled ==
  \A t \in Tickets : phase[t] = "finished" /\ report[t].health = "ok" =>
    /\ replies[t] + escalations[t] > 0
    /\ \A i \in DOMAIN audit[t] : audit[t][i].tool # "llm_error"
    /\ confidence[t] + 5 >= LowConfidenceThreshold
    /\ report[t].needs_review <=> ~ Unblocked(audit[t])
    /\ report[t].needs_review => confidence[t] >= LowConfidenceThreshold

\* Every ticket ends, whatever the LLM does: the loop is bounded, a message's
\* calls are used up, and no refund of a ticket leaves the lock closed to its
\* own next one.  (That a thread gets the lock when others compete for it is
\* CallsReturn's.)
TicketsSettle == \A t \in Tickets : <>(phase[t] \in {"finished", "failed"})

\* The most steps a call of a ticket has left, from the place it is at.
LeftOfCall(t) ==
  CASE pc[t] = "idle" -> MaxRetries + 6
    [] pc[t] = "running" -> MaxRetries + 5 - attempt[t]
    [] pc[t] = "locked" -> 4
    [] pc[t] = "accepted" -> 3
    [] pc[t] \in {"marked", "enqueueing"} -> 2
    [] OTHER -> 1

\* The most steps a ticket has left: for each iteration the LLM's turn and a
\* message full of calls, then the report.
LeftOf(t) ==
  LET perCall == MaxRetries + 6
      loop == (MaxIter - iter[t]) * (MaxBatch * perCall + 2) + 2
  IN CASE phase[t] = "llm" -> loop
       [] phase[t] = "batch" -> loop + (left[t] - 1) * perCall + LeftOfCall(t)
       [] phase[t] = "closing" -> 1
       [] OTHER -> 0

\* Nothing is done for ever: every step, one that fails included, brings one
\* ticket closer to its end and takes no other one back.
EveryStepCounts ==
  [][\E t \in Tickets : /\ LeftOf(t)' \in 0..(LeftOf(t) - 1)
                        /\ \A u \in Tickets \ {t} : LeftOf(u)' = LeftOf(u)]_vars

\* architecture.md:37 "audit_log.json <- exported from the recorded
\* spans/actions": when the run is over the exported trails show what the rows
\* of the actions table say.
ExportMatchesActions ==
  (\A t \in Tickets : phase[t] \in {"finished", "failed"}) =>
    \A t \in Tickets : phase[t] = "finished" =>
      \A i \in DOMAIN actions[t] : Shown(audit[t][i]) = actions[t][i]
=============================================================================
