------------------------------ MODULE Telemetry ------------------------------
(***************************************************************************)
(* The trace of each ticket (core/telemetry.py): every unit of the         *)
(* resolver's work runs inside a span, which is recorded when it ends,     *)
(* whether it returned or raised.  Each action below is one of Resolver's  *)
(* together with what it adds to the trace.  A trace is kept by ticket id  *)
(* and nothing empties it: the runs of one process, earlier ones and those *)
(* that overlap, add to the same trace.                                    *)
(***************************************************************************)
EXTENDS Resolver

\* `verdict' is set on a tool.call span once guard has returned; `by' is the
\* thread that made the span, or NoTicket for one of an earlier run, kept for
\* the properties: nothing in a recorded span tells the runs apart.
Span == [name: {"agent.resolver.llm", "tool.call", "tool.retry"},
         tool: ToolMap \cup {"unknown", "none"},
         verdict: {"allow", "not_allow", "none"}, status: {"ok", "error"},
         by: Tickets \cup {NoTicket}]

CONSTANT PastTraces  \* what earlier runs of the process may have left of a ticket

ASSUME TraceAssumption ==
  \A trace \in PastTraces : trace \in Seq({s \in Span : s.by = NoTicket})

VARIABLE spans  \* tracer._traces: per ticket id, the spans in the order they ended

tracedVars == <<vars, spans>>

LlmSpan(t, status) == [name |-> "agent.resolver.llm", tool |-> "none",
                       verdict |-> "none", status |-> status, by |-> t]

ToolSpan(t, name, tool, verdict, status) ==
  [name |-> name, tool |-> tool, verdict |-> verdict, status |-> status, by |-> t]

TracedInit == ResolverInit /\ spans \in [TicketIds -> PastTraces]

\* Mutant: a span that raised is not recorded.
RecordSuccess(t, span) ==
  spans' = IF span.status = "ok"
           THEN [spans EXCEPT ![TicketId[t]] = Append(@, span)]
           ELSE spans

\* The `finally' of Tracer.span.
Record(t, span) == spans' = [spans EXCEPT ![TicketId[t]] = Append(@, span)]

-----------------------------------------------------------------------------

LlmAnswers(t) == /\ LlmTalks(t) \/ LlmCalls(t)
                 /\ Record(t, LlmSpan(t, "ok"))

LlmRaises(t) == /\ LlmFails(t)
                /\ Record(t, LlmSpan(t, "error"))

GuardedCall(t) ==
  ToolSpan(t, "tool.call", call[t].tool,
           IF Allowed(result[t]) THEN "allow" ELSE "not_allow", "ok")

\* Mutant: the span stays open until the row of the call is committed.
ToolCallEndsLate(t) ==
  \/ AfterCall(t) /\ Record(t, GuardedCall(t))
  \/ RecordActionFails(t) /\ UNCHANGED spans

\* The span ends when guard has returned, before the call is counted and its
\* row is written.
ToolCallEnds(t) == /\ AfterCall(t) \/ RecordActionFails(t)
                   /\ Record(t, GuardedCall(t))

ToolCallRaises(t) ==
  /\ CallRaises(t)
  /\ Record(t, ToolSpan(t, "tool.call", call'[t].tool, "none", "error"))

\* The backoff between two attempts has a span of its own.
ToolRetried(t) ==
  /\ RetryAfterFailure(t)
  /\ UNCHANGED loopVars
  /\ Record(t, ToolSpan(t, "tool.retry", call[t].tool, "none", "ok"))

\* Steps inside a span, or outside of all.
Untraced(t) == /\ \/ IterationsExhausted(t)
                  \/ MakeCall(t)
                  \/ Proceed(t) /\ UNCHANGED loopVars
                  \/ RetriesExhausted(t) /\ UNCHANGED loopVars
                  \/ Finish(t)
               /\ UNCHANGED spans

TracedStep(t) ==
  \/ LlmAnswers(t)
  \/ LlmRaises(t)
  \/ ToolCallEnds(t)
  \/ ToolCallRaises(t)
  \/ ToolRetried(t)
  \/ Untraced(t)

TracedNext == \E t \in Tickets : TracedStep(t)

TracedSpec == TracedInit /\ [][TracedNext]_tracedVars

\* The resolver's fairness: its threads go on, nothing is obliged to fail.
TracedFairSpec ==
  TracedSpec /\ \A t \in Tickets : WF_tracedVars(TicketProceeds(t) /\ TracedStep(t))

-----------------------------------------------------------------------------

Trace(t) == spans[TicketId[t]]

\* Spans that stand for an entry of thread t's trail: calls it made, and an
\* LLM that failed it.
IsStep(span, t) ==
  /\ span.by = t
  /\ \/ span.name = "tool.call"
     \/ span.name = "agent.resolver.llm" /\ span.status = "error"

\* How many of the first k spans of a trace do.
Steps(t, trace, k) == Cardinality({j \in 1..k : IsStep(trace[j], t)})

\* The span tells of the same call or failure as the entry, and whether
\* policy let the call through.
Tells(span, entry) ==
  IF entry.tool = "llm_error"
  THEN span.name = "agent.resolver.llm"
  ELSE /\ span.tool = entry.tool
       /\ span.verdict = "allow" <=> Allowed(entry.result)

\* telemetry.py:13 "The recorded spans ARE the audit trail" is true of what one
\* run adds to a trace: while the trail is not lost, the spans of its thread
\* show the same calls in the same order, which of them policy let through,
\* and where the LLM failed, whatever earlier runs left and others add.
TraceShowsTrail ==
  \A t \in Tickets : phase[t] # "failed" =>
    LET trace == Trace(t) IN
    /\ Steps(t, trace, Len(trace)) = Len(audit[t])
    /\ \A k \in DOMAIN trace :
         IsStep(trace[k], t) => Tells(trace[k], audit[t][Steps(t, trace, k)])

Traced(t, tool) ==
  Cardinality({i \in DOMAIN Trace(t) : /\ Trace(t)[i].name = "tool.call"
                                       /\ Trace(t)[i].tool = tool
                                       /\ Trace(t)[i].verdict = "allow"
                                       /\ Trace(t)[i].by = t})

\* The span of a call that raised.
Raised(span, t) ==
  span.by = t /\ span.name = "tool.call" /\ span.status = "error"

\* When a ticket failed its trail is gone and the row of its last call may be
\* missing, yet its run added to the trace a span for every refund, reply and
\* escalation that happened, and one for the call that killed it.
EffectsTraced ==
  \A t \in Tickets : phase[t] = "failed" =>
    /\ RefundsBy(t) <= Traced(t, "issue_refund")
    /\ replies[t] <= Traced(t, "send_reply")
    /\ escalations[t] <= Traced(t, "escalate")
    /\ pc[t] = "crashed" => \E i \in DOMAIN Trace(t) : Raised(Trace(t)[i], t)
=============================================================================
