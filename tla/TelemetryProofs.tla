-------------------------- MODULE TelemetryProofs --------------------------
(***************************************************************************)
(* Proofs about Telemetry for any LLM and any number of tickets: tracing   *)
(* changes nothing the resolver does, the trace tells the same story as    *)
(* the trail while there is one, and it keeps the effects of a ticket      *)
(* whose trail is lost.                                                    *)
(***************************************************************************)
EXTENDS Telemetry, ResolverProofs

-----------------------------------------------------------------------------
(* Tracing is an observer.                                                 *)

\* A traced step is a step of the loop.
LEMMA TracedStepResolves ==
  ASSUME NEW t \in Tickets, TracedStep(t)
  PROVE  ResolverStep(t)
  BY Zenon DEF TracedStep, LlmAnswers, LlmRaises, ToolCallEnds, ToolCallRaises,
         ToolRetried, Untraced, ResolverStep, TicketProceeds, TicketTrouble,
         ToolFails

\* The traced resolver implements the resolver: a span adds nothing to what a
\* ticket may do, so all that is proved of the resolver holds while traced.
THEOREM TracingObserves == TracedSpec => ResolverSpec
<1>1. TracedInit => ResolverInit
  BY DEF TracedInit
<1>2. [TracedNext]_tracedVars => [ResolverNext]_vars
  BY TracedStepResolves DEF TracedNext, ResolverNext, tracedVars
<1>3. QED
  BY <1>1, <1>2, PTL DEF TracedSpec, ResolverSpec

SpansTyped == spans \in [TicketIds -> Seq(Span)]

\* Every thread sees the trace of its ticket id.
LEMMA TraceTyped ==
  ASSUME SpansTyped, NEW t \in Tickets
  PROVE  Trace(t) \in Seq(Span)
  BY TicketIdAssumption DEF SpansTyped, Trace

\* Thread t's span s was added to its trace, which may be another's as well.
Added(t, s) ==
  /\ s \in Span /\ s.by = t
  /\ Trace(t)' = Append(Trace(t), s)
  /\ \A u \in Tickets : Trace(u)' \in {Trace(u), Append(Trace(u), s)}

\* Recording a span adds it.
LEMMA Recorded ==
  ASSUME SpansTyped, NEW t \in Tickets, NEW s \in Span, s.by = t, Record(t, s)
  PROVE  SpansTyped' /\ Added(t, s)
  <1>1. TicketId \in [Tickets -> TicketIds]
    BY TicketIdAssumption
  <1>2. SpansTyped'
    BY <1>1 DEF SpansTyped, Record
  <1>3. Trace(t)' = Append(Trace(t), s)
    BY <1>1 DEF SpansTyped, Record, Trace
  <1>4. \A u \in Tickets : Trace(u)' \in {Trace(u), Append(Trace(u), s)}
    BY <1>1 DEF SpansTyped, Record, Trace
  <1>5. QED
    BY <1>2, <1>3, <1>4 DEF Added

\* The span of a call that guard returned from.
LEMMA CallSpanTyped ==
  ASSUME NEW t \in Tickets, call[t] \in Calls
  PROVE  GuardedCall(t) \in Span /\ GuardedCall(t).by = t
  BY GuardAssumption DEF GuardedCall, ToolSpan, Span, Call

\* What a step adds to the traces, and when.
LEMMA SpanOfStep ==
  ASSUME TypeOK, SpansTyped, NEW t \in Tickets, TracedStep(t)
  PROVE  /\ SpansTyped'
         /\ UNCHANGED spans \/ \E s \in Span : Added(t, s)
         /\ TakeResult(t) => Added(t, GuardedCall(t))
  <1>n. TakeResult(t) => pc[t] = "returned" /\ pc'[t] = "idle" /\ call[t] \in Calls
    BY DEF TakeResult, TypeOK
  <1>1. CASE LlmAnswers(t) \/ LlmRaises(t)
    <2>1. PICK s \in Span : s.by = t /\ Record(t, s)
      BY <1>1 DEF LlmAnswers, LlmRaises, LlmSpan, Span
    <2>2. pc' = pc
      BY <1>1 DEF LlmAnswers, LlmRaises, LlmTalks, LlmCalls, LlmFails, guardVars,
                  ticketVars
    <2>3. ~ TakeResult(t)
      BY <1>n, <2>2
    <2>4. QED
      BY <2>1, <2>3, Recorded
  <1>2. CASE ToolCallEnds(t)
    <2>1. TakeResult(t) /\ Record(t, GuardedCall(t))
      BY <1>2 DEF ToolCallEnds, AfterCall, RecordActionFails
    <2>2. GuardedCall(t) \in Span /\ GuardedCall(t).by = t
      BY <1>n, <2>1, CallSpanTyped
    <2>3. QED
      BY <2>1, <2>2, Recorded
  <1>3. CASE ToolCallRaises(t)
    <2>1. PICK c \in Calls : GuardRaises(t, c)
      BY <1>3 DEF ToolCallRaises, CallRaises
    <2>2. pc[t] = "idle" /\ call'[t] = c
      BY <2>1 DEF GuardRaises, Propose, TypeOK
    <2> DEFINE s == ToolSpan(t, "tool.call", call'[t].tool, "none", "error")
    <2>3. s \in Span /\ s.by = t
      BY <2>2, GuardAssumption DEF ToolSpan, Span, Call
    <2>4. QED
      BY <1>n, <1>3, <2>2, <2>3, Recorded DEF ToolCallRaises
  <1>4. CASE ToolRetried(t)
    <2>1. pc[t] = "running" /\ call[t] \in Calls
      BY <1>4 DEF ToolRetried, RetryAfterFailure, BodyRuns, TypeOK
    <2> DEFINE s == ToolSpan(t, "tool.retry", call[t].tool, "none", "ok")
    <2>2. s \in Span /\ s.by = t
      BY <2>1, GuardAssumption DEF ToolSpan, Span, Call
    <2>3. QED
      BY <1>n, <1>4, <2>1, <2>2, Recorded DEF ToolRetried
  <1>5. CASE Untraced(t)
    <2>1. UNCHANGED spans
      BY <1>5 DEF Untraced
    <2>2. ~ TakeResult(t)
      BY <1>5, <1>n
         DEF Untraced, IterationsExhausted, MakeCall, Finish, Proceed, Allow, Deny,
             Defer, Propose, Enqueue, RetriesExhausted, RejectCall, RunReadTool,
             RunEligibilityCheck, SendReply, Escalate, IssueRefund,
             AcquireRefundLock, RejectRefund, AcceptRefund, MarkRefunded,
             LogRefund, BodyRuns, guardVars, ticketVars
    <2>3. QED
      BY <2>1, <2>2 DEF SpansTyped
  <1>6. QED
    BY <1>1, <1>2, <1>3, <1>4, <1>5 DEF TracedStep

-----------------------------------------------------------------------------
(* The trace tells what the trail tells.                                   *)

\* How many spans of a prefix are steps.
LEMMA StepsCounted ==
  ASSUME NEW t \in Tickets, NEW trace \in Seq(Span), NEW k \in 0..Len(trace)
  PROVE  /\ Steps(t, trace, k) \in Nat
         /\ Steps(t, trace, k) <= Steps(t, trace, Len(trace))
         /\ k \in DOMAIN trace /\ IsStep(trace[k], t) => Steps(t, trace, k) >= 1
  <1> DEFINE A == {j \in 1..k : IsStep(trace[j], t)}
             B == {j \in 1..Len(trace) : IsStep(trace[j], t)}
  <1>1. A \subseteq B /\ B \subseteq 1..Len(trace)
    OBVIOUS
  <1>2. Steps(t, trace, k) = Cardinality(A) /\ Steps(t, trace, Len(trace)) = Cardinality(B)
    BY DEF Steps
  <1>3. k \in DOMAIN trace /\ IsStep(trace[k], t) => k \in A
    OBVIOUS
  <1> HIDE DEF A, B
  <1>4. 1 \in Int /\ Len(trace) \in Int
    OBVIOUS
  <1>5. IsFiniteSet(1..Len(trace))
    BY <1>4, FS_Interval, Zenon
  <1>6. IsFiniteSet(B)
    BY <1>1, <1>5, FS_Subset
  <1>7. /\ IsFiniteSet(A)
        /\ Cardinality(A) <= Cardinality(B)
    BY <1>1, <1>6, FS_Subset
  <1>8. Cardinality(A) \in Nat
    BY <1>7, FS_CardinalityType
  <1>9. k \in A => Cardinality(A) # 0
    BY <1>7, FS_EmptySet
  <1>10. QED
    BY <1>2, <1>3, <1>7, <1>8, <1>9

\* Appending a span leaves the counts of the prefixes alone, and the whole
\* trace counts one more if it is a step.
LEMMA StepsGrow ==
  ASSUME NEW t \in Tickets, NEW trace \in Seq(Span), NEW s \in Span
  PROVE  /\ \A k \in 0..Len(trace) : Steps(t, Append(trace, s), k) = Steps(t, trace, k)
         /\ Steps(t, Append(trace, s), Len(trace) + 1)
              = Steps(t, trace, Len(trace)) + (IF IsStep(s, t) THEN 1 ELSE 0)
  <1> DEFINE longer == Append(trace, s)
             n == Len(trace)
  <1>1. /\ n \in Nat
        /\ longer[n + 1] = s
        /\ \A j \in 1..n : longer[j] = trace[j]
    OBVIOUS
  <1> HIDE DEF longer
  <1>2. ASSUME NEW k \in 0..n
        PROVE  Steps(t, longer, k) = Steps(t, trace, k)
    <2>1. {j \in 1..k : IsStep(longer[j], t)} = {j \in 1..k : IsStep(trace[j], t)}
      BY <1>1
    <2>2. QED
      BY <2>1, Zenon DEF Steps
  <1>3. Steps(t, longer, n + 1) = Steps(t, trace, n) + (IF IsStep(s, t) THEN 1 ELSE 0)
    <2> DEFINE A == {j \in 1..n : IsStep(trace[j], t)}
               C == {j \in 1..(n + 1) : IsStep(longer[j], t)}
    <2>1. /\ A \subseteq 1..n
          /\ n + 1 \notin A
          /\ IsStep(s, t) => C = A \cup {n + 1}
          /\ ~ IsStep(s, t) => C = A
      BY <1>1
    <2>2. Steps(t, longer, n + 1) = Cardinality(C) /\ Steps(t, trace, n) = Cardinality(A)
      BY DEF Steps
    <2> HIDE DEF A, C
    <2>3. 1 \in Int /\ n \in Int
      BY <1>1
    <2>4. IsFiniteSet(A)
      <3>1. IsFiniteSet(1..n)
        BY <2>3, FS_Interval, Zenon
      <3>2. QED
        BY <2>1, <3>1, FS_Subset
    <2>5. /\ Cardinality(A) \in Nat
          /\ Cardinality(A \cup {n + 1}) = Cardinality(A) + 1
      BY <2>1, <2>4, FS_CardinalityType, FS_AddElement
    <2>6. CASE IsStep(s, t)
      BY <2>1, <2>2, <2>5, <2>6
    <2>7. CASE ~ IsStep(s, t)
      <3>1. Cardinality(C) = Cardinality(A)
        BY <2>1, <2>7, Zenon
      <3>2. QED
        BY <2>2, <2>5, <2>7, <3>1
    <2>8. QED
      BY <2>6, <2>7
  <1>4. QED
    BY <1>2, <1>3 DEF longer

Matches(t, trace, trail) ==
  /\ Steps(t, trace, Len(trace)) = Len(trail)
  /\ \A k \in DOMAIN trace :
       IsStep(trace[k], t) => Tells(trace[k], trail[Steps(t, trace, k)])

\* A span that is no step leaves the match alone; one that tells of the entry
\* appended with it extends it.
LEMMA MatchKept ==
  ASSUME NEW t \in Tickets, NEW trace \in Seq(Span),
         NEW trail \in Seq(AuditEntry), NEW s \in Span, NEW e \in AuditEntry,
         Matches(t, trace, trail)
  PROVE  /\ ~ IsStep(s, t) => Matches(t, Append(trace, s), trail)
         /\ IsStep(s, t) /\ Tells(s, e) => Matches(t, Append(trace, s), Append(trail, e))
  <1> DEFINE longer == Append(trace, s)
             n == Len(trace)
  <1>1. /\ n \in Nat /\ DOMAIN trace = 1..n
        /\ Len(longer) = n + 1 /\ DOMAIN longer = 1..(n + 1)
        /\ longer[n + 1] = s
        /\ \A k \in 1..n : longer[k] = trace[k]
    OBVIOUS
  <1>2. /\ \A k \in 1..n : Steps(t, longer, k) = Steps(t, trace, k)
        /\ Steps(t, longer, n + 1) = Steps(t, trace, n) + (IF IsStep(s, t) THEN 1 ELSE 0)
    BY <1>1, StepsGrow
  <1>3. /\ Steps(t, trace, n) = Len(trail)
        /\ \A k \in 1..n : IsStep(trace[k], t) =>
             /\ Tells(trace[k], trail[Steps(t, trace, k)])
             /\ Steps(t, trace, k) \in 1..Len(trail)
    <2>1. Steps(t, trace, n) = Len(trail)
      BY DEF Matches
    <2>2. ASSUME NEW k \in 1..n, IsStep(trace[k], t)
          PROVE  /\ Tells(trace[k], trail[Steps(t, trace, k)])
                 /\ Steps(t, trace, k) \in 1..Len(trail)
      <3>1. k \in 0..Len(trace) /\ k \in DOMAIN trace
        BY <1>1
      <3>2. Steps(t, trace, k) \in Nat /\ Steps(t, trace, k) >= 1
        BY <2>2, <3>1, StepsCounted
      <3>3. Steps(t, trace, k) <= Len(trail)
        BY <2>1, <3>1, StepsCounted
      <3>4. QED
        BY <2>2, <3>1, <3>2, <3>3 DEF Matches
    <2>3. QED
      BY <2>1, <2>2
  <1> HIDE DEF longer
  <1>4. ASSUME ~ IsStep(s, t)
        PROVE  Matches(t, longer, trail)
    BY <1>1, <1>2, <1>3, <1>4 DEF Matches
  <1>5. ASSUME IsStep(s, t), Tells(s, e)
        PROVE  Matches(t, longer, Append(trail, e))
    <2>1. /\ Len(Append(trail, e)) = Len(trail) + 1
          /\ Append(trail, e)[Len(trail) + 1] = e
          /\ \A i \in 1..Len(trail) : Append(trail, e)[i] = trail[i]
          /\ Len(trail) \in Nat
      OBVIOUS
    <2>2. Steps(t, longer, Len(longer)) = Len(Append(trail, e))
      BY <1>1, <1>2, <1>3, <1>5, <2>1
    <2>3. ASSUME NEW k \in 1..(n + 1), IsStep(longer[k], t)
          PROVE  Tells(longer[k], Append(trail, e)[Steps(t, longer, k)])
      <3>1. CASE k \in 1..n
        <4>1. longer[k] = trace[k] /\ Steps(t, longer, k) = Steps(t, trace, k)
          BY <1>1, <1>2, <3>1
        <4>2. /\ Tells(trace[k], trail[Steps(t, trace, k)])
              /\ Steps(t, trace, k) \in 1..Len(trail)
          BY <1>3, <2>3, <3>1, <4>1
        <4>3. Append(trail, e)[Steps(t, longer, k)] = trail[Steps(t, trace, k)]
          BY <2>1, <4>1, <4>2
        <4>4. QED
          BY <4>1, <4>2, <4>3
      <3>2. CASE k = n + 1
        <4>1. longer[k] = s /\ Steps(t, longer, k) = Len(trail) + 1
          BY <1>1, <1>2, <1>3, <1>5, <3>2
        <4>2. Append(trail, e)[Steps(t, longer, k)] = e
          BY <2>1, <4>1
        <4>3. QED
          BY <1>5, <4>1, <4>2
      <3>3. k \in 1..n \/ k = n + 1
        BY <1>1
      <3>4. QED
        BY <3>1, <3>2, <3>3, Zenon
    <2>4. QED
      BY <1>1, <2>2, <2>3 DEF Matches
  <1>6. QED
    BY <1>4, <1>5 DEF longer

\* A span that another thread added to a shared trace is no step of this one.
LEMMA OthersMatch ==
  ASSUME SpansTyped, NEW t \in Tickets, NEW s, Added(t, s),
         NEW u \in Tickets \ {t}, NEW trail \in Seq(AuditEntry),
         Matches(u, Trace(u), trail)
  PROVE  Matches(u, Trace(u)', trail)
  <1> DEFINE trace == Trace(u)
             e == [tool |-> "llm_error", order |-> NoOrder, result |-> "error"]
  <1>1. s \in Span /\ ~ IsStep(s, u)
    BY DEF Added, IsStep
  <1>2. e \in AuditEntry
    BY DEF AuditEntry, OrderArgs, Results
  <1>3. trace \in Seq(Span)
    BY TraceTyped
  <1> HIDE DEF e
  <1>4. Matches(u, Append(Trace(u), s), trail)
    BY <1>1, <1>2, <1>3, MatchKept
  <1>5. QED
    BY <1>4 DEF Added

\* The loop's own part of what its steps do, for the steps that leave a span.
LEMMA TraceStep ==
  ASSUME TypeOK, LoopInv, SpansTyped, TraceShowsTrail, [TracedNext]_tracedVars
  PROVE  TraceShowsTrail'
  <1>m. TraceShowsTrail <=>
          \A u \in Tickets : phase[u] # "failed" => Matches(u, Trace(u), audit[u])
    BY DEF TraceShowsTrail, Matches
  <1>n. TraceShowsTrail' <=>
          \A u \in Tickets : phase'[u] # "failed" => Matches(u, Trace(u)', audit'[u])
    BY DEF TraceShowsTrail, Matches
  <1>q. ASSUME UNCHANGED spans
        PROVE  \A u \in Tickets : Trace(u)' = Trace(u)
    BY <1>q DEF Trace
  <1>0. CASE UNCHANGED tracedVars
    BY <1>0, <1>m, <1>n, <1>q DEF tracedVars, vars, loopVars
  <1>t. ASSUME NEW u \in Tickets
        PROVE  /\ Trace(u) \in Seq(Span)
               /\ audit[u] \in Seq(AuditEntry)
    BY TraceTyped DEF LoopInv, ResolverTypeOK
  <1>o. ASSUME NEW t \in Tickets, NEW s, Added(t, s),
               \A u \in Tickets \ {t} : UNCHANGED <<phase[u], audit[u]>>,
               phase'[t] # "failed" => Matches(t, Append(Trace(t), s), audit'[t])
        PROVE  TraceShowsTrail'
    <2>1. SUFFICES ASSUME NEW u \in Tickets, phase'[u] # "failed"
          PROVE  Matches(u, Trace(u)', audit'[u])
      BY <1>n
    <2>2. CASE u = t
      BY <1>o, <2>1, <2>2 DEF Added
    <2>3. CASE u # t
      <3>1. Matches(u, Trace(u), audit[u]) /\ audit'[u] = audit[u]
        BY <1>m, <1>o, <2>1, <2>3
      <3>2. u \in Tickets \ {t}
        BY <2>3
      <3>3. QED
        BY <1>o, <1>t, <3>1, <3>2, OthersMatch
    <2>4. QED
      BY <2>2, <2>3
  <1>1. ASSUME NEW t \in Tickets, LlmAnswers(t) \/ ToolRetried(t)
        PROVE  TraceShowsTrail'
    <2>1. PICK s \in Span : s.by = t /\ Record(t, s) /\ ~ IsStep(s, t)
      <3>1. CASE LlmAnswers(t)
        <4> DEFINE s == LlmSpan(t, "ok")
        <4>1. s \in Span /\ s.by = t /\ ~ IsStep(s, t)
          BY DEF LlmSpan, Span, IsStep
        <4>2. QED
          BY <3>1, <4>1 DEF LlmAnswers
      <3>2. CASE ToolRetried(t)
        <4> DEFINE s == ToolSpan(t, "tool.retry", call[t].tool, "none", "ok")
        <4>1. call[t] \in Calls
          BY <3>2 DEF ToolRetried, RetryAfterFailure, BodyRuns, TypeOK
        <4>2. s \in Span /\ s.by = t /\ ~ IsStep(s, t)
          BY <4>1, GuardAssumption DEF ToolSpan, Span, Call, IsStep
        <4>3. QED
          BY <3>2, <4>2 DEF ToolRetried
      <3>3. QED
        BY <1>1, <3>1, <3>2
    <2>2. /\ audit' = audit
          /\ \A u \in Tickets : phase'[u] # "failed" => phase[u] # "failed"
          /\ \A u \in Tickets \ {t} : phase'[u] = phase[u]
      BY <1>1 DEF LlmAnswers, LlmTalks, LlmCalls, AskLlm, ToolRetried, loopVars,
                  LoopInv, ResolverTypeOK
    <2>3. Matches(t, Trace(t), audit[t]) => Matches(t, Append(Trace(t), s), audit[t])
      <3>1. NoOrder \in OrderArgs
        BY DEF OrderArgs
      <3>2. [tool |-> "llm_error", order |-> NoOrder, result |-> "error"] \in AuditEntry
        BY <3>1 DEF AuditEntry, Results
      <3>3. QED
        BY <1>t, <2>1, <3>2, MatchKept
    <2>4. Added(t, s)
      BY <2>1, Recorded
    <2>5. phase'[t] # "failed" => Matches(t, Append(Trace(t), s), audit'[t])
      BY <1>m, <2>2, <2>3
    <2>6. QED
      BY <1>o, <2>2, <2>4, <2>5
  <1>2. ASSUME NEW t \in Tickets, LlmRaises(t)
        PROVE  TraceShowsTrail'
    <2> DEFINE e == [tool |-> "llm_error", order |-> NoOrder, result |-> "error"]
               s == LlmSpan(t, "error")
    <2>1. /\ audit'[t] = Append(audit[t], e)
          /\ phase[t] = "llm"
          /\ \A u \in Tickets \ {t} : UNCHANGED <<phase[u], audit[u]>>
          /\ Record(t, s)
      BY <1>2 DEF LlmRaises, LlmFails, AskLlm, LoopInv, ResolverTypeOK
    <2>2. /\ e \in AuditEntry /\ s \in Span /\ s.by = t
          /\ IsStep(s, t) /\ Tells(s, e)
      BY DEF AuditEntry, OrderArgs, Results, LlmSpan, Span, IsStep, Tells
    <2> HIDE DEF e, s
    <2>3. Matches(t, Append(Trace(t), s), audit'[t])
      <3>1. Matches(t, Trace(t), audit[t])
        BY <1>m, <2>1
      <3>2. QED
        BY <1>t, <2>1, <2>2, <3>1, MatchKept
    <2>4. Added(t, s)
      BY <2>1, <2>2, Recorded
    <2>5. QED
      BY <1>o, <2>1, <2>3, <2>4
  <1>3. ASSUME NEW t \in Tickets, AfterCall(t), Record(t, GuardedCall(t))
        PROVE  TraceShowsTrail'
    <2> DEFINE e == Entry(t)
               s == GuardedCall(t)
    <2>1. pc[t] = "returned" /\ call[t] \in Calls
      BY <1>3 DEF AfterCall, TakeResult, TypeOK
    <2>2. /\ audit'[t] = Append(audit[t], e)
          /\ phase[t] = "batch"
          /\ \A u \in Tickets \ {t} : UNCHANGED <<phase[u], audit[u]>>
      BY <1>3, <2>1 DEF AfterCall, LoopInv, BatchInv, ResolverTypeOK
    <2>3. e \in AuditEntry /\ s \in Span /\ s.by = t
      BY <2>1, EntryTyped, CallSpanTyped
    <2>4. IsStep(s, t) /\ Tells(s, e)
      <3>1. call[t].tool # "llm_error"
        BY <2>1, GuardAssumption DEF Call, ToolMap, ReadTools, TerminalTools
      <3>2. QED
        BY <3>1 DEF GuardedCall, ToolSpan, IsStep, Tells, Entry
    <2> HIDE DEF e, s
    <2>5. Matches(t, Append(Trace(t), s), audit'[t])
      <3>1. Matches(t, Trace(t), audit[t])
        BY <1>m, <2>2
      <3>2. QED
        BY <1>t, <2>2, <2>3, <2>4, <3>1, MatchKept
    <2>6. Added(t, s)
      BY <1>3, <2>3, Recorded DEF s
    <2>7. QED
      BY <1>o, <2>2, <2>5, <2>6
  <1>4. ASSUME NEW t \in Tickets, ToolCallRaises(t) \/ RecordActionFails(t),
               TracedStep(t)
        PROVE  TraceShowsTrail'
    <2>1. /\ phase'[t] = "failed"
          /\ \A u \in Tickets \ {t} : UNCHANGED <<phase[u], audit[u]>>
      BY <1>4 DEF ToolCallRaises, CallRaises, RecordActionFails, Fail, LoopInv,
                  ResolverTypeOK
    <2>2. CASE UNCHANGED spans
      BY <1>m, <1>n, <1>q, <2>1, <2>2
    <2>3. CASE \E s \in Span : Added(t, s)
      BY <1>o, <2>1, <2>3
    <2>4. QED
      BY <1>4, <2>2, <2>3, SpanOfStep
  <1>5. ASSUME NEW t \in Tickets, Untraced(t)
        PROVE  TraceShowsTrail'
    <2>1. /\ UNCHANGED <<spans, audit>>
          /\ \A u \in Tickets : phase'[u] # "failed" => phase[u] # "failed"
      BY <1>5 DEF Untraced, IterationsExhausted, MakeCall, Finish, loopVars,
                  LoopInv, ResolverTypeOK
    <2>2. QED
      BY <1>m, <1>n, <1>q, <2>1
  <1>6. QED
    <2>1. ASSUME NEW t \in Tickets, TracedStep(t)
          PROVE  TraceShowsTrail'
      <3>1. \/ LlmAnswers(t) \/ ToolRetried(t)
            \/ LlmRaises(t)
            \/ (AfterCall(t) /\ Record(t, GuardedCall(t)))
            \/ ToolCallRaises(t) \/ RecordActionFails(t)
            \/ Untraced(t)
        BY <2>1, Zenon DEF TracedStep, ToolCallEnds
      <3>2. QED
        BY <1>1, <1>2, <1>3, <1>4, <1>5, <2>1, <3>1
    <2>2. QED
      BY <1>0, <2>1 DEF TracedNext

\* The traces stay sequences of spans.
LEMMA SpansStep ==
  ASSUME TypeOK, SpansTyped, [TracedNext]_tracedVars
  PROVE  SpansTyped'
  BY SpanOfStep DEF TracedNext, tracedVars, SpansTyped

\* Whatever earlier runs left of a ticket is no span of a thread's.
LEMMA PastSpans ==
  ASSUME TracedInit, NEW t \in Tickets
  PROVE  /\ Trace(t) \in Seq(Span)
         /\ \A i \in DOMAIN Trace(t) : Trace(t)[i].by # t
  <1> DEFINE past == {s \in Span : s.by = NoTicket}
  <1>1. Trace(t) \in PastTraces
    BY TicketIdAssumption DEF TracedInit, Trace
  <1>2. Trace(t) \in Seq(past)
    BY <1>1, TraceAssumption, Zenon
  <1>3. /\ past \subseteq Span
        /\ \A s \in past : s.by # t
    BY GuardAssumption
  <1> HIDE DEF past
  <1>4. \A i \in DOMAIN Trace(t) : Trace(t)[i] \in past
    BY <1>2
  <1>5. Trace(t) \in Seq(Span)
    BY <1>2, <1>3
  <1>6. QED
    BY <1>3, <1>4, <1>5

\* What the traced resolver has from the resolver and the guarded tools.
LEMMA TracedFacts ==
  TracedSpec => [](TypeOK /\ LockInv /\ LoopInv /\ SpansTyped)
<1>1. TracedSpec => []TypeOK /\ []LockInv
  BY TracingObserves, ResolverDrivesTools, TypeCorrect, LockExclusion, PTL
<1>2. TracedInit => LoopInv /\ SpansTyped
  <2>1. ASSUME NEW trace \in PastTraces
        PROVE  trace \in Seq(Span)
    <3> DEFINE past == {s \in Span : s.by = NoTicket}
    <3>1. trace \in Seq(past)
      BY TraceAssumption, Zenon
    <3>2. past \subseteq Span
      OBVIOUS
    <3> HIDE DEF past
    <3>3. QED
      BY <3>1, <3>2
  <2>2. PastTraces \subseteq Seq(Span)
    BY <2>1
  <2>3. QED
    BY <2>2, LoopInit DEF TracedInit, SpansTyped
<1>3. [TracedNext]_tracedVars => [ResolverNext]_vars
  BY TracedStepResolves DEF TracedNext, ResolverNext, tracedVars
<1>4. QED
  BY <1>1, <1>2, <1>3, LoopInvStep, SpansStep, PTL DEF TracedSpec

\* telemetry.py:13 of one run of a ticket, for any LLM, whatever earlier runs
\* left of the ticket and whichever other threads write to the same trace: as
\* long as the run has a trail, the spans it added and the trail have the same
\* steps in the same order, and a span says "allow" exactly where the trail
\* shows that policy did not step in.
THEOREM TraceIsTheTrail == TracedSpec => []TraceShowsTrail
<1>1. TracedInit => TraceShowsTrail
  <2>1. SUFFICES ASSUME TracedInit, NEW t \in Tickets
        PROVE  Matches(t, Trace(t), audit[t])
    BY DEF TraceShowsTrail, Matches
  <2>2. audit[t] = << >>
    BY <2>1 DEF TracedInit, ResolverInit
  <2> DEFINE trace == Trace(t)
  <2>3. /\ trace \in Seq(Span)
        /\ \A i \in DOMAIN trace : ~ IsStep(trace[i], t)
    BY <2>1, PastSpans DEF IsStep
  <2> HIDE DEF trace
  <2>4. Steps(t, trace, Len(trace)) = 0
    <3>1. {j \in 1..Len(trace) : IsStep(trace[j], t)} = {}
      BY <2>3
    <3>2. QED
      BY <3>1, FS_EmptySet, Zenon DEF Steps
  <2>5. QED
    BY <2>2, <2>3, <2>4 DEF Matches, trace
<1>2. QED
  BY <1>1, TracedFacts, TraceStep, PTL DEF TracedSpec

-----------------------------------------------------------------------------
(* The trace keeps what was done.                                          *)

LetThrough(t, tool) == {s \in Span : /\ s.name = "tool.call"
                                     /\ s.tool = tool
                                     /\ s.verdict = "allow"
                                     /\ s.by = t}

\* Traced counts the places of a trace.
LEMMA TracedPlaces ==
  ASSUME SpansTyped, NEW t \in Tickets, NEW tool
  PROVE  Traced(t, tool) = Cardinality(Places(Trace(t), LetThrough(t, tool)))
  <1> DEFINE trace == Trace(t)
  <1>1. trace \in Seq(Span)
    BY TraceTyped
  <1> HIDE DEF trace
  <1>2. {i \in DOMAIN trace : /\ trace[i].name = "tool.call"
                              /\ trace[i].tool = tool
                              /\ trace[i].verdict = "allow"
                              /\ trace[i].by = t}
          = Places(trace, LetThrough(t, tool))
    BY <1>1 DEF Places, LetThrough
  <1>3. QED
    BY <1>2, Zenon DEF Traced, trace

\* ... so a span more counts for the thread and the tool it let through, and
\* for no other.
LEMMA TracedGrows ==
  ASSUME SpansTyped, SpansTyped', NEW u \in Tickets, NEW s \in Span, NEW tool,
         Trace(u)' = Append(Trace(u), s)
  PROVE  /\ Traced(u, tool) \in Nat
         /\ Traced(u, tool)'
              = Traced(u, tool) + (IF s \in LetThrough(u, tool) THEN 1 ELSE 0)
  <1>1. Traced(u, tool) = Cardinality(Places(Trace(u), LetThrough(u, tool)))
    BY TracedPlaces
  <1>2. Traced(u, tool)' = Cardinality(Places(Trace(u)', LetThrough(u, tool)))
    <2> DEFINE trace == Trace(u)'
    <2>1. trace \in Seq(Span)
      BY TicketIdAssumption DEF SpansTyped, Trace
    <2> HIDE DEF trace
    <2>2. {i \in DOMAIN trace : /\ trace[i].name = "tool.call"
                                /\ trace[i].tool = tool
                                /\ trace[i].verdict = "allow"
                                /\ trace[i].by = u}
            = Places(trace, LetThrough(u, tool))
      BY <2>1 DEF Places, LetThrough
    <2>3. QED
      BY <2>2, Zenon DEF Traced, trace
  <1>3. Trace(u) \in Seq(Span)
    BY TraceTyped
  <1>4. /\ Cardinality(Places(Trace(u), LetThrough(u, tool))) \in Nat
        /\ Cardinality(Places(Append(Trace(u), s), LetThrough(u, tool))) =
             Cardinality(Places(Trace(u), LetThrough(u, tool)))
               + (IF s \in LetThrough(u, tool) THEN 1 ELSE 0)
    BY <1>3, PlacesGrow
  <1>5. QED
    BY <1>1, <1>2, <1>4

\* Every effect but the one guard is about to return from has its span, and a
\* ticket that an exception killed has the span it was raised in.
EffectSpans ==
  \A t \in Tickets :
    /\ \A tool \in Effectful :
         Effects(t, tool) - Unnoted(t, tool) <= Traced(t, tool)
    /\ pc[t] = "crashed" =>
         /\ phase[t] = "failed"
         /\ \E i \in DOMAIN Trace(t) : Raised(Trace(t)[i], t)

\* A step of one ticket leaves the places of the others alone.
LEMMA OthersKept ==
  ASSUME TypeOK, LoopInv, NEW t \in Tickets, TracedStep(t)
  PROVE  \A v \in Tickets \ {t} : pc'[v] = pc[v] /\ phase'[v] = phase[v]
  <1>1. ResolverStep(t)
    BY TracedStepResolves
  <1>2. \A v \in Tickets \ {t} : phase'[v] = phase[v]
    BY <1>1 DEF ResolverStep, TicketProceeds, TicketTrouble, LlmTalks, LlmCalls,
                LlmFails, IterationsExhausted, MakeCall, CallRaises, AfterCall,
                RecordActionFails, Fail, Finish, loopVars, LoopInv, ResolverTypeOK
  <1>3. CASE UNCHANGED guardVars
    BY <1>2, <1>3 DEF guardVars, ticketVars
  <1>4. CASE Step(t)
    <2>1. \A v \in Tickets \ {t} : pc'[v] = pc[v]
      BY <1>4 DEF Step, Guard, Allow, Deny, Defer, GuardRaises, Continue, Proceed,
             ToolFails, Enqueue, RetryAfterFailure, RetriesExhausted, RejectCall,
             RunReadTool, RunEligibilityCheck, SendReply, Escalate, IssueRefund,
             AcquireRefundLock, RejectRefund, AcceptRefund, MarkRefunded,
             LogRefund, Return, TakeResult, TypeOK
    <2>2. QED
      BY <1>2, <2>1
  <1>5. QED
    BY <1>1, <1>3, <1>4, StepIsGuarded

\* Only arguments that guard cannot take crash a ticket, and a crashed ticket
\* stays where it is.
LEMMA OnlyRaisingCrashes ==
  ASSUME TypeOK, LoopInv, NEW t \in Tickets, TracedStep(t),
         pc[t] = "crashed" => phase[t] = "failed", pc'[t] = "crashed"
  PROVE  ToolCallRaises(t)
  <1>1. CASE LlmAnswers(t) \/ LlmRaises(t)
    BY <1>1 DEF LlmAnswers, LlmRaises, LlmTalks, LlmCalls, LlmFails, AskLlm,
                guardVars, ticketVars
  <1>2. CASE ToolCallEnds(t)
    BY <1>2 DEF ToolCallEnds, AfterCall, RecordActionFails, TakeResult, TypeOK
  <1>3. CASE ToolRetried(t)
    BY <1>3 DEF ToolRetried, RetryAfterFailure, BodyRuns
  <1>4. CASE Untraced(t)
    <2>1. CASE IterationsExhausted(t) \/ Finish(t)
      BY <2>1 DEF IterationsExhausted, Finish, guardVars, ticketVars
    <2>2. CASE MakeCall(t)
      BY <2>2 DEF MakeCall, Allow, Deny, Defer, Propose, Return, TypeOK
    <2>3. CASE Proceed(t) \/ RetriesExhausted(t)
      BY <2>3 DEF Proceed, Enqueue, RetriesExhausted, RejectCall, RunReadTool,
             RunEligibilityCheck, SendReply, Escalate, IssueRefund,
             AcquireRefundLock, RejectRefund, AcceptRefund, MarkRefunded,
             LogRefund, BodyRuns, Return, TypeOK
    <2>4. QED
      BY <1>4, <2>1, <2>2, <2>3 DEF Untraced
  <1>5. QED
    BY <1>1, <1>2, <1>3, <1>4 DEF TracedStep

\* An effect and its span: every step of the traced loop keeps the balance.
LEMMA EffectSpansStep ==
  ASSUME TypeOK, LockInv, LoopInv, SpansTyped, EffectSpans,
         [TracedNext]_tracedVars
  PROVE  EffectSpans'
  <1>0. ASSUME UNCHANGED <<spans, guardVars>>, \A u \in Tickets :
                 pc[u] = "crashed" => phase'[u] = phase[u]
        PROVE  EffectSpans'
    <2>1. ASSUME NEW u \in Tickets, NEW tool \in Effectful
          PROVE  /\ Effects(u, tool)' = Effects(u, tool)
                 /\ Unnoted(u, tool)' = Unnoted(u, tool)
                 /\ Traced(u, tool)' = Traced(u, tool)
      BY <1>0 DEF Effects, RefundsBy, Unnoted, Traced, Trace, guardVars, ticketVars,
                  moneyVars, mailVars
    <2>2. UNCHANGED pc /\ \A u \in Tickets : Trace(u)' = Trace(u)
      BY <1>0 DEF guardVars, ticketVars, Trace
    <2>3. QED
      BY <1>0, <2>1, <2>2 DEF EffectSpans
  <1>1. SUFFICES ASSUME NEW t \in Tickets, TracedStep(t)
        PROVE  EffectSpans'
    BY <1>0 DEF TracedNext, tracedVars, vars, loopVars
  <1>2. /\ SpansTyped'
        /\ TakeResult(t) => Added(t, GuardedCall(t))
    BY <1>1, SpanOfStep
  <1>a. ASSUME NEW u \in Tickets
        PROVE  Trace(u)' = Trace(u) \/ \E s \in Span : Trace(u)' = Append(Trace(u), s)
    <2>1. CASE UNCHANGED spans
      BY <2>1 DEF Trace
    <2>2. CASE \E s \in Span : Added(t, s)
      BY <2>2 DEF Added
    <2>3. QED
      BY <1>1, <2>1, <2>2, SpanOfStep
  <1>3. Step(t) \/ UNCHANGED guardVars
    BY <1>1, TracedStepResolves, StepIsGuarded
  <1>4. ASSUME NEW u \in Tickets, NEW tool \in Effectful
        PROVE  Effects(u, tool)' - Unnoted(u, tool)' <= Traced(u, tool)'
    <2>n. /\ Effects(u, tool) \in Nat
          /\ Unnoted(u, tool) \in {0, 1} /\ Unnoted(u, tool)' \in {0, 1}
          /\ Traced(u, tool) \in Nat
      <3>1. CountsOK
        BY CountsAreNumbers DEF LoopInv
      <3>2. Traced(u, tool) \in Nat
        <4>1. LlmSpan(u, "ok") \in Span /\ Trace(u) \in Seq(Span)
          BY TraceTyped DEF Span, LlmSpan
        <4>2. QED
          BY <4>1, TracedPlaces, PlacesGrow
      <3>3. QED
        BY <3>1, <3>2 DEF CountsOK, Unnoted
    <2>1. Effects(u, tool) - Unnoted(u, tool) <= Traced(u, tool)
      BY DEF EffectSpans
    <2>2. Traced(u, tool)' \in Nat /\ Traced(u, tool) <= Traced(u, tool)'
      <3>1. CASE Trace(u)' = Trace(u)
        BY <2>n, <3>1 DEF Traced
      <3>2. CASE \E s \in Span : Trace(u)' = Append(Trace(u), s)
        BY <1>2, <2>n, <3>2, TracedGrows
      <3>3. QED
        BY <1>a, <3>1, <3>2
    <2>3. CASE UNCHANGED guardVars
      <3>1. Effects(u, tool)' = Effects(u, tool) /\ Unnoted(u, tool)' = Unnoted(u, tool)
        BY <2>3 DEF Effects, RefundsBy, Unnoted, guardVars, ticketVars, moneyVars,
                    mailVars
      <3>2. QED
        BY <2>n, <2>1, <2>2, <3>1
    <2>4. CASE Step(t) /\ ~ TakeResult(t)
      <3>1. Effects(u, tool)' - Unnoted(u, tool)' = Effects(u, tool) - Unnoted(u, tool)
        BY <2>4, EffectsNoted DEF LoopInv
      <3>2. QED
        BY <2>n, <2>1, <2>2, <3>1
    <2>5. CASE TakeResult(t) /\ u # t
      <3>1. Step(t)
        BY <2>5 DEF Step
      <3>2. /\ Effects(u, tool)' = Effects(u, tool)
            /\ Unnoted(u, tool)' = Unnoted(u, tool)
        BY <2>5, <3>1, EffectsNoted DEF LoopInv
      <3>3. QED
        BY <2>n, <2>1, <2>2, <3>2
    <2>6. CASE TakeResult(t) /\ u = t
      <3>1. Step(t) /\ pc'[t] = "idle"
        BY <2>6 DEF Step, TakeResult, TypeOK
      <3>2. Effects(t, tool)' = Effects(t, tool) /\ Unnoted(t, tool)' = 0
        BY <2>6, <3>1, EffectsNoted DEF LoopInv, Unnoted
      <3>3. Traced(t, tool)' >= Traced(t, tool) + Unnoted(t, tool)
        <4> DEFINE s == GuardedCall(t)
        <4>0. s \in Span /\ Trace(t)' = Append(Trace(t), s)
          BY <1>2, <2>6 DEF Added
        <4>1. Unnoted(t, tool) = 1 => s \in LetThrough(t, tool)
          BY <4>0, <2>6 DEF Unnoted, GuardedCall, ToolSpan, LetThrough, Allowed
        <4> HIDE DEF s
        <4>2. Traced(t, tool)' =
                Traced(t, tool) + (IF s \in LetThrough(t, tool) THEN 1 ELSE 0)
          BY <1>2, <4>0, TracedGrows
        <4>3. QED
          BY <2>n, <2>6, <4>1, <4>2
      <3>4. QED
        BY <2>n, <2>1, <2>2, <2>6, <3>2, <3>3
    <2>7. QED
      BY <1>3, <2>3, <2>4, <2>5, <2>6
  <1>5. ASSUME NEW u \in Tickets, pc'[u] = "crashed"
        PROVE  /\ phase'[u] = "failed"
               /\ \E i \in DOMAIN Trace(u)' : Raised(Trace(u)'[i], u)
    <2>1. \A v \in Tickets \ {t} : pc'[v] = pc[v] /\ phase'[v] = phase[v]
      BY <1>1, OthersKept
    <2>t. Trace(u) \in Seq(Span)
      BY TraceTyped
    <2>2. CASE u # t
      <3>1. phase'[u] = "failed"
        BY <1>5, <2>1, <2>2 DEF EffectSpans
      <3>2. PICK i \in DOMAIN Trace(u) : Raised(Trace(u)[i], u)
        BY <1>5, <2>1, <2>2 DEF EffectSpans
      <3>3. i \in DOMAIN Trace(u)' /\ Trace(u)'[i] = Trace(u)[i]
        BY <1>a, <2>t
      <3>4. QED
        BY <3>1, <3>2, <3>3
    <2>3. CASE u = t
      <3>1. ToolCallRaises(t)
        BY <1>1, <1>5, <2>3, OnlyRaisingCrashes DEF EffectSpans
      <3>2. phase'[t] = "failed"
        BY <3>1 DEF ToolCallRaises, CallRaises, Fail, LoopInv, ResolverTypeOK
      <3>3. PICK s \in Span : Trace(t)' = Append(Trace(t), s) /\ Raised(s, t)
        <4> DEFINE s == ToolSpan(t, "tool.call", call'[t].tool, "none", "error")
        <4>1. PICK c \in Calls : call'[t] = c
          BY <3>1 DEF ToolCallRaises, CallRaises, GuardRaises, Propose, TypeOK
        <4>2. s \in Span /\ s.by = t /\ Raised(s, t)
          BY <4>1, GuardAssumption DEF ToolSpan, Span, Call, Raised
        <4>3. Record(t, s)
          BY <3>1 DEF ToolCallRaises
        <4> HIDE DEF s
        <4>4. QED
          BY <4>2, <4>3, Recorded DEF Added
      <3>5. Len(Trace(t)) + 1 \in DOMAIN Trace(t)' /\ Trace(t)'[Len(Trace(t)) + 1] = s
        BY <2>3, <2>t, <3>3
      <3>6. QED
        BY <2>3, <3>2, <3>3, <3>5
    <2>4. QED
      BY <2>2, <2>3
  <1>6. QED
    BY <1>4, <1>5 DEF EffectSpans

\* A ticket that failed has lost its trail, and perhaps the row of its last
\* call; its run still added to the trace a span for every refund, reply and
\* escalation that happened, and for the exception that killed it.
THEOREM EveryEffectIsTraced == TracedSpec => []EffectsTraced
<1>1. TracedInit => EffectSpans
  <2>1. SUFFICES ASSUME TracedInit, NEW t \in Tickets
        PROVE  /\ pc[t] # "crashed"
               /\ \A tool \in Effectful :
                    Effects(t, tool) - Unnoted(t, tool) <= Traced(t, tool)
    BY DEF EffectSpans
  <2>2. pc[t] = "idle" /\ refundLog = << >>
          /\ replies[t] = 0 /\ escalations[t] = 0
    BY <2>1 DEF TracedInit, ResolverInit, Init
  <2>3. RefundsBy(t) = 0
    <3>1. {i \in DOMAIN refundLog : refundLog[i].by = t} = {}
      BY <2>2
    <3>2. QED
      BY <3>1, FS_EmptySet, Zenon DEF RefundsBy
  <2>4. \A tool \in Effectful : Traced(t, tool) = 0
    <3>1. ASSUME NEW tool \in Effectful
          PROVE  {i \in DOMAIN Trace(t) : /\ Trace(t)[i].name = "tool.call"
                                          /\ Trace(t)[i].tool = tool
                                          /\ Trace(t)[i].verdict = "allow"
                                          /\ Trace(t)[i].by = t} = {}
      BY <2>1, PastSpans
    <3>2. QED
      BY <3>1, FS_EmptySet, Zenon DEF Traced
  <2>5. QED
    BY <2>2, <2>3, <2>4 DEF Effects, Unnoted
<1>2. TypeOK /\ LoopInv /\ EffectSpans => EffectsTraced
  <2>1. SUFFICES ASSUME TypeOK, LoopInv, EffectSpans, NEW t \in Tickets,
                        phase[t] = "failed"
        PROVE  /\ RefundsBy(t) <= Traced(t, "issue_refund")
               /\ replies[t] <= Traced(t, "send_reply")
               /\ escalations[t] <= Traced(t, "escalate")
               /\ pc[t] = "crashed" =>
                    \E i \in DOMAIN Trace(t) : Raised(Trace(t)[i], t)
    BY Zenon DEF EffectsTraced
  <2>2. \A tool \in Effectful : Unnoted(t, tool) = 0 /\ Effects(t, tool) \in Nat
    BY <2>1, CountsAreNumbers DEF CountsOK, Unnoted, LoopInv, BatchInv
  <2>3. \A tool \in Effectful : Effects(t, tool) <= Traced(t, tool)
    <3>1. \A tool \in Effectful :
            Effects(t, tool) - Unnoted(t, tool) <= Traced(t, tool)
      BY <2>1 DEF EffectSpans
    <3>2. QED
      BY <2>2, <3>1
  <2>4. /\ Effects(t, "issue_refund") = RefundsBy(t)
        /\ Effects(t, "send_reply") = replies[t]
        /\ Effects(t, "escalate") = escalations[t]
        /\ {"issue_refund", "send_reply", "escalate"} = Effectful
    BY DEF Effects, Effectful
  <2>5. QED
    BY <2>1, <2>3, <2>4 DEF EffectSpans
<1>3. QED
  BY <1>1, <1>2, TracedFacts, EffectSpansStep, PTL DEF TracedSpec
=============================================================================
