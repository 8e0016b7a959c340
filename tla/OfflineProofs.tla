--------------------------- MODULE OfflineProofs ---------------------------
(***************************************************************************)
(* Proofs about Offline for any data set, any requests and any number of   *)
(* tickets: the scripted agent is one of the LLMs that Resolver allows,    *)
(* and its script ends each ticket with one reply or one escalation.       *)
(***************************************************************************)
EXTENDS Offline, ResolverProofs

-----------------------------------------------------------------------------
(* The scripted agent is an LLM.                                           *)

\* A step of the offline pipeline is a step of the resolver.
LEMMA OfflineStepResolves ==
  ASSUME NEW t \in Tickets, OfflineStep(t)
  PROVE  ResolverStep(t)
  <1>1. CASE MockCalls(t)
    <2>1. 1 \in 1..MaxBatch
      BY ResolverAssumption
    <2>2. LlmCalls(t)
      BY <1>1, <2>1 DEF MockCalls, LlmCalls
    <2>3. QED
      BY <2>2 DEF ResolverStep, TicketProceeds
  <1>2. CASE MakeScriptedCall(t)
    <2>1. MakeCall(t)
      BY <1>2 DEF MakeScriptedCall, MakeCall
    <2>2. QED
      BY <2>1 DEF ResolverStep, TicketProceeds
  <1>3. CASE ~ MockCalls(t) /\ ~ MakeScriptedCall(t)
    BY <1>3, Zenon
       DEF OfflineStep, ResolverStep, TicketProceeds, TicketTrouble, Continue
  <1>4. QED
    BY <1>1, <1>2, <1>3

\* What is proved of the resolver for every LLM holds of the offline pipeline.
THEOREM ScriptIsAnLlm == OfflineSpec => ResolverSpec
<1>1. OfflineInit => ResolverInit
  BY DEF OfflineInit
<1>2. [OfflineNext]_offlineVars => [ResolverNext]_vars
  BY OfflineStepResolves DEF OfflineNext, ResolverNext, offlineVars
<1>3. QED
  BY <1>1, <1>2, PTL DEF OfflineSpec, ResolverSpec

\* The gate's hard invariant, offline: no safety violation on any data set.
THEOREM OfflineNoViolation == OfflineSpec => []NoSafetyViolations
  BY ScriptIsAnLlm, NoViolationEver, PTL

-----------------------------------------------------------------------------
(* The script ends.                                                        *)

ScriptSteps == {Script[i] : i \in DOMAIN Script}

\* Some step of the script always applies, and the first one that does looks
\* the customer up, has not been taken yet, or ends the ticket, which it does
\* once all other steps that apply were taken.
LEMMA NextToolFound ==
  ASSUME NEW t \in Tickets
  PROVE  /\ NextTool(t) \in ScriptSteps
         /\ NextTool(t) \in TerminalTools \/ NextTool(t) \notin Called(t)
         /\ Called(t) = {} => NextTool(t) = "get_customer"
         /\ NextTool(t) \in TerminalTools =>
              Wanted(t) \ TerminalTools \subseteq Called(t)
  <1> DEFINE open == {tool \in Wanted(t) :
                        tool \in TerminalTools \/ tool \notin Called(t)}
             Open(tool) == tool \in open
             First(i) == Open(Script[i]) /\ \A j \in 1..(i - 1) : ~ Open(Script[j])
             k == CHOOSE i \in DOMAIN Script : First(i)
  <1>1. /\ DOMAIN Script = 1..7
        /\ Script[7] = "send_reply"
        /\ Script[1] = "get_customer"
    BY DEF Script
  <1>2. Open(Script[7])
    BY <1>1 DEF Wanted, TerminalTools
  <1>3. Called(t) = {} => Open(Script[1])
    BY <1>1 DEF Wanted
  <1>4. NextTool(t) = Script[k]
    BY DEF NextTool, FirstStep
  <1> HIDE DEF Open, open
  <1>5. \E i \in DOMAIN Script : First(i)
    <2>1. CASE Open(Script[1])
      BY <1>1, <2>1
    <2>2. CASE ~ Open(Script[1]) /\ Open(Script[2])
      BY <1>1, <2>2
    <2>3. CASE ~ Open(Script[1]) /\ ~ Open(Script[2]) /\ Open(Script[3])
      BY <1>1, <2>3
    <2>4. CASE /\ ~ Open(Script[1]) /\ ~ Open(Script[2]) /\ ~ Open(Script[3])
               /\ Open(Script[4])
      BY <1>1, <2>4
    <2>5. CASE /\ ~ Open(Script[1]) /\ ~ Open(Script[2]) /\ ~ Open(Script[3])
               /\ ~ Open(Script[4]) /\ Open(Script[5])
      BY <1>1, <2>5
    <2>6. CASE /\ ~ Open(Script[1]) /\ ~ Open(Script[2]) /\ ~ Open(Script[3])
               /\ ~ Open(Script[4]) /\ ~ Open(Script[5]) /\ Open(Script[6])
      BY <1>1, <2>6
    <2>7. CASE /\ ~ Open(Script[1]) /\ ~ Open(Script[2]) /\ ~ Open(Script[3])
               /\ ~ Open(Script[4]) /\ ~ Open(Script[5]) /\ ~ Open(Script[6])
      BY <1>1, <1>2, <2>7
    <2>8. QED
      BY <2>1, <2>2, <2>3, <2>4, <2>5, <2>6, <2>7
  <1>6. k \in DOMAIN Script /\ First(k)
    BY <1>5
  <1>7. NextTool(t) \in ScriptSteps
    BY <1>4, <1>6 DEF ScriptSteps
  <1>8. Called(t) = {} => k = 1
    BY <1>1, <1>3, <1>6
  <1> HIDE DEF k
  <1>9. ASSUME NextTool(t) \in TerminalTools, NEW tool \in Wanted(t) \ TerminalTools
        PROVE  tool \in Called(t)
    <2>1. PICK j \in 1..5 : tool = Script[j]
      BY <1>9 DEF Wanted, Script, TerminalTools
    <2>2. \A i \in 1..5 : Script[i] \notin TerminalTools
      BY DEF Script, TerminalTools
    <2>3. j \in 1..(k - 1)
      BY <1>1, <1>4, <1>6, <1>9, <2>2
    <2>4. ~ Open(tool)
      BY <1>6, <2>1, <2>3
    <2>5. QED
      BY <1>9, <2>4 DEF Open, open
  <1>10. QED
    BY <1>1, <1>4, <1>6, <1>7, <1>8, <1>9 DEF Open, open

\* How far a ticket has come with its script.
OnScript(t) ==
  phase[t] # "failed" =>
    /\ Called(t) \subseteq ScriptSteps
    /\ IsFiniteSet(Called(t))
    /\ Cardinality(Called(t)) = Len(audit[t])
    /\ audit[t] # << >> => audit[t][1].tool = "get_customer"
    /\ phase[t] \in {"llm", "batch"} =>
         Called(t) \cap TerminalTools = {} /\ ~ tally[t].terminal
    /\ phase[t] = "llm" => iter[t] = Len(audit[t])
    /\ phase[t] = "batch" => left[t] = 1 /\ iter[t] = Len(audit[t]) + 1
    /\ phase[t] = "batch" /\ pc[t] \notin {"idle", "crashed"} =>
         /\ call[t].tool \in ScriptSteps \ Called(t)
         /\ audit[t] = << >> => call[t].tool = "get_customer"
    /\ phase[t] \in {"closing", "finished"} =>
         /\ audit[t] # << >>
         /\ \A i \in DOMAIN audit[t] :
              audit[t][i].tool \in TerminalTools <=> i = Len(audit[t])

ScriptInv == \A t \in Tickets : OnScript(t)

\* A set grows by one element at most.
LEMMA OneMore ==
  ASSUME NEW S, NEW x, IsFiniteSet(S)
  PROVE  /\ IsFiniteSet(S \cup {x})
         /\ Cardinality(S) \in Nat
         /\ Cardinality(S \cup {x}) \in Nat
         /\ Cardinality(S \cup {x}) <= Cardinality(S) + 1
  <1>1. Cardinality(S) \in Nat
    BY FS_CardinalityType
  <1>2. /\ IsFiniteSet(S \cup {x})
        /\ \/ Cardinality(S \cup {x}) = Cardinality(S)
           \/ Cardinality(S \cup {x}) = Cardinality(S) + 1
    BY FS_AddElement
  <1>3. QED
    BY <1>1, <1>2

\* Five steps of the script do not end a ticket.
LEMMA FewSteps ==
  ASSUME NEW S, S \subseteq ScriptSteps, S \cap TerminalTools = {}
  PROVE  Cardinality(S) <= 5
  <1> DEFINE A == {} \cup {"get_customer"}
             B == A \cup {"get_order"}
             C == B \cup {"search_knowledge_base"}
             D == C \cup {"check_refund_eligibility"}
             E == D \cup {"issue_refund"}
  <1>1. S \subseteq E
    <2>1. ScriptSteps \subseteq E \cup TerminalTools
      BY DEF ScriptSteps, Script, TerminalTools
    <2>2. QED
      BY <2>1
  <1>2. IsFiniteSet({}) /\ Cardinality({}) = 0
    BY FS_EmptySet
  <1>3. /\ IsFiniteSet(A) /\ IsFiniteSet(B) /\ IsFiniteSet(C)
        /\ IsFiniteSet(D) /\ IsFiniteSet(E)
    BY <1>2, OneMore
  <1>4. Cardinality(A) \in Nat /\ Cardinality(A) <= 0 + 1
    BY <1>2, OneMore
  <1> HIDE DEF A
  <1>5. Cardinality(B) \in Nat /\ Cardinality(B) <= Cardinality(A) + 1
    BY <1>3, OneMore, Zenon
  <1> HIDE DEF B
  <1>b. Cardinality(C) \in Nat /\ Cardinality(C) <= Cardinality(B) + 1
    BY <1>3, OneMore, Zenon
  <1> HIDE DEF C
  <1>c. Cardinality(D) \in Nat /\ Cardinality(D) <= Cardinality(C) + 1
    BY <1>3, OneMore, Zenon
  <1> HIDE DEF D
  <1>d. Cardinality(E) \in Nat /\ Cardinality(E) <= Cardinality(D) + 1
    BY <1>3, OneMore, Zenon
  <1> HIDE DEF E
  <1>6. Cardinality(E) <= 5
    BY <1>4, <1>5, <1>b, <1>c, <1>d
  <1>7. /\ Cardinality(S) <= Cardinality(E)
        /\ Cardinality(S) \in Nat /\ Cardinality(E) \in Nat
    BY <1>1, <1>3, FS_Subset, FS_CardinalityType
  <1>8. QED
    BY <1>6, <1>7

\* The script is over before the loop's bound is met.
LEMMA NeverExhausted ==
  ASSUME ScriptInv, 5 < MaxIter, NEW t \in Tickets
  PROVE  ~ IterationsExhausted(t)
  <1>1. SUFFICES ASSUME phase[t] = "llm", iter[t] = MaxIter
        PROVE  FALSE
    BY DEF IterationsExhausted
  <1>2. Cardinality(Called(t)) <= 5 /\ iter[t] = Cardinality(Called(t))
    BY <1>1, FewSteps DEF ScriptInv, OnScript
  <1>3. QED
    BY <1>1, <1>2, ResolverAssumption

\* Writing a call down: the trail grows by its entry, the script by its tool,
\* and a terminal tool ends the loop.
LEMMA CallTaken ==
  ASSUME TypeOK, LoopInv, ResultsInv, ScriptInv, NEW t \in Tickets, AfterCall(t)
  PROVE  /\ phase[t] = "batch" /\ pc[t] = "returned" /\ pc'[t] = "idle"
         /\ call[t].tool \in ScriptSteps \ Called(t)
         /\ phase'[t] = IF call[t].tool \in TerminalTools THEN "closing" ELSE "llm"
         /\ tally'[t].terminal <=> call[t].tool \in TerminalTools
         /\ audit[t] \in Seq(AuditEntry) /\ Entry(t) \in AuditEntry
         /\ audit'[t] = Append(audit[t], Entry(t))
         /\ Called(t)' = Called(t) \cup {call[t].tool}
         /\ elig' = elig /\ iter' = iter
         /\ \A u \in Tickets \ {t} :
              UNCHANGED <<phase[u], left[u], tally[u], audit[u], pc[u], call[u]>>
  <1> DEFINE e == Entry(t)
  <1>1. /\ pc[t] = "returned" /\ pc'[t] = "idle"
        /\ call[t] \in Calls
        /\ elig' = elig
        /\ \A u \in Tickets \ {t} : UNCHANGED <<pc[u], call[u]>>
    BY DEF AfterCall, TakeResult, TypeOK
  <1>2. phase[t] = "batch"
    BY <1>1 DEF LoopInv, BatchInv
  <1>3. /\ call[t].tool \in ScriptSteps \ Called(t)
        /\ left[t] = 1
        /\ ~ tally[t].terminal
    BY <1>1, <1>2 DEF ScriptInv, OnScript
  <1>4. Count(t).terminal <=> call[t].tool \in TerminalTools
    <2>1. call[t].tool \in TerminalTools => Allowed(result[t])
      BY <1>1 DEF ResultsInv, TerminalTools
    <2>2. QED
      BY <1>3, <2>1 DEF Count
  <1>5. /\ audit'[t] = Append(audit[t], e)
        /\ tally'[t] = Count(t)
        /\ phase'[t] = IF Count(t).terminal THEN "closing" ELSE "llm"
        /\ iter' = iter
        /\ \A u \in Tickets \ {t} :
             UNCHANGED <<phase[u], left[u], tally[u], audit[u]>>
    BY <1>3 DEF AfterCall, LoopInv, ResolverTypeOK
  <1>6. /\ e \in AuditEntry /\ audit[t] \in Seq(AuditEntry)
        /\ e.tool = call[t].tool
    BY <1>1, EntryTyped DEF LoopInv, ResolverTypeOK, Entry
  <1> HIDE DEF e
  <1>7. /\ DOMAIN audit[t] = 1..Len(audit[t])
        /\ Len(audit[t]) \in Nat
        /\ DOMAIN audit'[t] = 1..(Len(audit[t]) + 1)
        /\ \A i \in 1..Len(audit[t]) : audit'[t][i] = audit[t][i]
        /\ audit'[t][Len(audit[t]) + 1] = e
    BY <1>5, <1>6
  <1>8. Called(t)' = Called(t) \cup {call[t].tool}
    <2>1. ASSUME NEW i \in DOMAIN audit'[t]
          PROVE  audit'[t][i].tool \in Called(t) \cup {call[t].tool}
      <3>1. CASE i \in 1..Len(audit[t])
        BY <1>7, <3>1 DEF Called
      <3>2. CASE i = Len(audit[t]) + 1
        BY <1>6, <1>7, <3>2
      <3>3. QED
        BY <1>7, <3>1, <3>2
    <2>2. ASSUME NEW i \in DOMAIN audit[t]
          PROVE  audit[t][i].tool \in Called(t)'
      BY <1>7 DEF Called
    <2>3. call[t].tool \in Called(t)'
      BY <1>6, <1>7 DEF Called
    <2>4. QED
      BY <2>1, <2>2, <2>3 DEF Called
  <1>9. QED
    BY <1>1, <1>2, <1>3, <1>4, <1>5, <1>6, <1>8 DEF e

\* Every step of the pipeline keeps to the script.
LEMMA ScriptStep ==
  ASSUME TypeOK, LoopInv, ResultsInv, ScriptInv, 5 < MaxIter,
         [OfflineNext]_offlineVars
  PROVE  ScriptInv'
  <1>k. ASSUME NEW u \in Tickets,
               UNCHANGED <<phase[u], iter[u], left[u], tally[u], audit[u],
                           pc[u], call[u]>>
        PROVE  OnScript(u)'
    <2>1. Called(u)' = Called(u)
      BY <1>k DEF Called
    <2>2. OnScript(u)
      BY DEF ScriptInv
    <2>3. QED
      BY <1>k, <2>1, <2>2 DEF OnScript
  <1>0. CASE UNCHANGED offlineVars
    BY <1>0, <1>k DEF offlineVars, vars, loopVars, guardVars, ticketVars, ScriptInv
  <1>1. ASSUME NEW t \in Tickets, MockCalls(t) \/ Finish(t)
        PROVE  ScriptInv'
    <2>1. /\ UNCHANGED <<audit, tally, pc, call>>
          /\ phase[t] = "llm" =>
               /\ phase'[t] = "batch" /\ left'[t] = 1 /\ iter'[t] = iter[t] + 1
          /\ phase[t] \in {"llm", "closing"}
          /\ phase[t] = "closing" => phase'[t] = "finished"
          /\ \A u \in Tickets \ {t} : UNCHANGED <<phase[u], iter[u], left[u]>>
      BY <1>1 DEF MockCalls, Finish, AskLlm, LoopInv, ResolverTypeOK, guardVars,
                  ticketVars
    <2>2. phase[t] = "llm" => pc[t] \in {"idle", "crashed"}
      BY DEF LoopInv, BatchInv
    <2>3. Called(t)' = Called(t)
      BY <2>1 DEF Called
    <2>4. OnScript(t)'
      BY <2>1, <2>2, <2>3 DEF ScriptInv, OnScript
    <2>5. QED
      BY <1>k, <2>1, <2>4 DEF ScriptInv
  <1>2. \A t \in Tickets : ~ IterationsExhausted(t)
    BY NeverExhausted
  <1>3. ASSUME NEW t \in Tickets, MakeScriptedCall(t)
        PROVE  ScriptInv'
    <2>1. PICK c \in {ScriptedCall(t)} \cap Calls :
            Allow(t, c) \/ Deny(t, c) \/ Defer(t, c)
      BY <1>3 DEF MakeScriptedCall
    <2>2. /\ phase[t] = "batch" /\ UNCHANGED loopVars
          /\ call'[t] = c /\ c.tool = NextTool(t)
          /\ \A u \in Tickets \ {t} : UNCHANGED <<pc[u], call[u]>>
      BY <1>3, <2>1 DEF MakeScriptedCall, ScriptedCall, Allow, Deny, Defer,
                        Propose, Return, TypeOK
    <2>3. audit[t] = << >> => Called(t) = {}
      BY DEF Called
    <2>4. Called(t)' = Called(t)
      BY <2>2 DEF Called, loopVars
    <2>5. OnScript(t)'
      BY <2>2, <2>3, <2>4, NextToolFound DEF ScriptInv, OnScript, loopVars
    <2>6. QED
      BY <1>k, <2>2, <2>5 DEF ScriptInv, loopVars
  <1>4. ASSUME NEW t \in Tickets, Continue(t), UNCHANGED loopVars
        PROVE  ScriptInv'
    <2>1. /\ pc[t] \notin {"idle", "crashed"}
          /\ call' = call
          /\ \A u \in Tickets \ {t} : pc'[u] = pc[u]
      BY <1>4 DEF Continue, Proceed, ToolFails, Enqueue, RetryAfterFailure,
                  RetriesExhausted, RejectCall, RunReadTool,
                  RunEligibilityCheck, SendReply, Escalate, IssueRefund,
                  AcquireRefundLock, RejectRefund, AcceptRefund, MarkRefunded,
                  LogRefund, BodyRuns, Return, TypeOK
    <2>2. Called(t)' = Called(t)
      BY <1>4 DEF Called, loopVars
    <2>3. OnScript(t)'
      BY <1>4, <2>1, <2>2 DEF ScriptInv, OnScript, loopVars
    <2>4. QED
      BY <1>4, <1>k, <2>1, <2>3 DEF ScriptInv, loopVars
  <1>5. ASSUME NEW t \in Tickets, RecordActionFails(t)
        PROVE  ScriptInv'
    <2>1. /\ phase'[t] = "failed"
          /\ \A u \in Tickets \ {t} :
               UNCHANGED <<phase[u], iter[u], left[u], tally[u], audit[u]>>
      BY <1>5 DEF RecordActionFails, Fail, LoopInv, ResolverTypeOK
    <2>2. \A u \in Tickets \ {t} : UNCHANGED <<pc[u], call[u]>>
      BY <1>5 DEF RecordActionFails, TakeResult, TypeOK
    <2>3. OnScript(t)'
      BY <2>1 DEF OnScript
    <2>4. QED
      BY <1>k, <2>1, <2>2, <2>3 DEF ScriptInv
  <1>6. ASSUME NEW t \in Tickets, AfterCall(t)
        PROVE  ScriptInv'
    <2> DEFINE e == Entry(t)
    <2>1. /\ phase[t] = "batch" /\ pc[t] = "returned" /\ pc'[t] = "idle"
          /\ call[t].tool \in ScriptSteps \ Called(t)
          /\ phase'[t] = IF call[t].tool \in TerminalTools THEN "closing" ELSE "llm"
          /\ tally'[t].terminal <=> call[t].tool \in TerminalTools
          /\ audit[t] \in Seq(AuditEntry) /\ e \in AuditEntry
          /\ audit'[t] = Append(audit[t], e)
          /\ Called(t)' = Called(t) \cup {call[t].tool}
          /\ iter' = iter
      BY <1>6, CallTaken
    <2>2. \A u \in Tickets \ {t} :
            UNCHANGED <<phase[u], left[u], tally[u], audit[u], pc[u], call[u]>>
      BY <1>6, CallTaken
    <2>3. /\ audit[t] = << >> => call[t].tool = "get_customer"
          /\ iter[t] = Len(audit[t]) + 1
          /\ Called(t) \subseteq ScriptSteps
          /\ IsFiniteSet(Called(t))
          /\ Cardinality(Called(t)) = Len(audit[t])
          /\ audit[t] # << >> => audit[t][1].tool = "get_customer"
          /\ Called(t) \cap TerminalTools = {}
      BY <2>1 DEF ScriptInv, OnScript
    <2>4. e.tool = call[t].tool
      BY DEF Entry
    <2> HIDE DEF e
    <2>5. /\ DOMAIN audit[t] = 1..Len(audit[t])
          /\ Len(audit[t]) \in Nat
          /\ DOMAIN audit'[t] = 1..(Len(audit[t]) + 1)
          /\ Len(audit'[t]) = Len(audit[t]) + 1
          /\ \A i \in 1..Len(audit[t]) : audit'[t][i] = audit[t][i]
          /\ audit'[t][Len(audit[t]) + 1] = e
      BY <2>1
    <2>6. /\ IsFiniteSet(Called(t)')
          /\ Cardinality(Called(t)') = Len(audit'[t])
      <3>1. /\ IsFiniteSet(Called(t) \cup {call[t].tool})
            /\ Cardinality(Called(t) \cup {call[t].tool})
                 = Cardinality(Called(t)) + 1
        BY <2>1, <2>3, FS_AddElement
      <3>2. QED
        BY <2>1, <2>3, <2>5, <3>1
    <2>7. audit'[t] # << >> /\ audit'[t][1].tool = "get_customer"
      <3>1. CASE audit[t] = << >>
        BY <2>3, <2>4, <2>5, <3>1
      <3>2. CASE audit[t] # << >>
        <4>1. 1 \in 1..Len(audit[t])
          BY <2>4, <3>2
        <4>2. QED
          BY <2>3, <2>5, <3>2, <4>1
      <3>3. QED
        BY <3>1, <3>2
    <2>8. CASE call[t].tool \in TerminalTools
      <3>1. phase'[t] = "closing"
        BY <2>1, <2>8
      <3>2. \A i \in DOMAIN audit'[t] :
              audit'[t][i].tool \in TerminalTools <=> i = Len(audit'[t])
        <4>1. \A i \in 1..Len(audit[t]) : audit'[t][i].tool \notin TerminalTools
          BY <2>3, <2>5 DEF Called
        <4>2. QED
          BY <2>4, <2>5, <2>8, <4>1
      <3>3. OnScript(t)'
        BY <2>1, <2>3, <2>6, <2>7, <3>1, <3>2 DEF OnScript
      <3>4. QED
        BY <1>k, <2>1, <2>2, <3>3 DEF ScriptInv
    <2>9. CASE call[t].tool \notin TerminalTools
      <3>1. phase'[t] = "llm" /\ ~ tally'[t].terminal
        BY <2>1, <2>9
      <3>2. iter'[t] = Len(audit'[t])
        BY <2>1, <2>3, <2>5
      <3>3. OnScript(t)'
        BY <2>1, <2>3, <2>6, <2>7, <2>9, <3>1, <3>2 DEF OnScript
      <3>4. QED
        BY <1>k, <2>1, <2>2, <3>3 DEF ScriptInv
    <2>10. QED
      BY <2>8, <2>9
  <1>7. QED
    <2>1. ASSUME NEW t \in Tickets, OfflineStep(t)
          PROVE  ScriptInv'
      <3>1. \/ MockCalls(t) \/ Finish(t)
            \/ IterationsExhausted(t)
            \/ MakeScriptedCall(t)
            \/ (Continue(t) /\ UNCHANGED loopVars)
            \/ AfterCall(t)
            \/ RecordActionFails(t)
        BY <2>1, Zenon DEF OfflineStep
      <3>2. QED
        BY <1>1, <1>2, <1>3, <1>4, <1>5, <1>6, <3>1
    <2>2. QED
      BY <1>0, <2>1 DEF OfflineNext

\* The invariants of the loop and of the script, together.
LEMMA ScriptKept ==
  ASSUME 5 < MaxIter
  PROVE  OfflineSpec => [](TypeOK /\ LoopInv /\ ResultsInv /\ ScriptInv)
<1>1. OfflineInit => LoopInv /\ ResultsInv
  BY LoopInit DEF OfflineInit, ResolverInit, Init, ResultsInv
<1>2. OfflineInit => ScriptInv
  <2>1. SUFFICES ASSUME OfflineInit, NEW t \in Tickets
        PROVE  OnScript(t)
    BY DEF ScriptInv
  <2>2. audit[t] = << >> /\ phase[t] = "llm" /\ iter[t] = 0 /\ ~ tally[t].terminal
    BY <2>1 DEF OfflineInit, ResolverInit, NoTally
  <2>3. Called(t) = {}
    BY <2>2 DEF Called
  <2>4. QED
    BY <2>2, <2>3, FS_EmptySet DEF OnScript
<1>3. [OfflineNext]_offlineVars => [ResolverNext]_vars /\ [Next]_guardVars
  BY OfflineStepResolves, StepIsGuarded
     DEF OfflineNext, ResolverNext, Next, offlineVars, vars
<1>4. OfflineSpec => []TypeOK
  BY ScriptIsAnLlm, ResolverDrivesTools, TypeCorrect, PTL
<1>5. QED
  BY <1>1, <1>2, <1>3, <1>4, LoopInvStep, ResultsStep, ScriptStep, PTL
     DEF OfflineSpec

\* The script ends: the customer first, no step twice whatever failed, and
\* one reply or one escalation at the end; the loop's bound is never met.
THEOREM EveryScriptEnds ==
  ASSUME 5 < MaxIter
  PROVE  OfflineSpec => []ScriptEnds
<1>1. ScriptInv => ScriptEnds
  BY DEF ScriptInv, OnScript, ScriptEnds
<1>2. QED
  BY <1>1, ScriptKept, PTL

-----------------------------------------------------------------------------
(* Who is owed a refund gets it.                                           *)

AboutOrder == {"check_refund_eligibility", "issue_refund"}

\* A call of t is inside guard.
InFlight(t) == phase[t] = "batch" /\ pc[t] \notin {"idle", "crashed"}

\* The ticket is past everything but its last step.
Answering(t) ==
  \/ phase[t] \in {"closing", "finished"}
  \/ InFlight(t) /\ call[t].tool \in TerminalTools

\* The checks and the refunds of a ticket are about its one order, and who
\* asks for a refund is answered only after the check, and after the refund
\* if the check allowed it.
Delivering(t) ==
  phase[t] # "failed" =>
    /\ \A i \in DOMAIN audit[t] :
         audit[t][i].tool \in AboutOrder => audit[t][i].order = OrderOf(t)
    /\ InFlight(t) /\ call[t].tool \in AboutOrder => call[t].order = OrderOf(t)
    /\ Answering(t) /\ request[t].category = "refund" /\ OrderOf(t) # NoOrder =>
         /\ "check_refund_eligibility" \in Called(t)
         /\ FoundEligible(t) => "issue_refund" \in Called(t)

DeliveryInv == \A t \in Tickets : Delivering(t)

\* What the script reads of a ticket that is not touched.
LEMMA Untouched ==
  ASSUME NEW t \in Tickets, UNCHANGED <<audit[t], elig[t], request>>
  PROVE  /\ Called(t)' = Called(t)
         /\ OrderOf(t)' = OrderOf(t)
         /\ FoundEligible(t)' <=> FoundEligible(t)
  <1>1. Called(t)' = Called(t) /\ OrderOf(t)' = OrderOf(t)
    BY DEF Called, OrderOf, Did
  <1>2. PICK o : o = OrderOf(t)
    OBVIOUS
  <1>3. OrderOf(t)' = o
    BY <1>1, <1>2
  <1>4. FoundEligible(t)' <=> FoundEligible(t)
    BY <1>2, <1>3 DEF FoundEligible, Did
  <1>5. QED
    BY <1>1, <1>4

\* The customer was looked up first, so later entries change neither the
\* order nor, if they show no check, what the check found.
LEMMA OrderSettled ==
  ASSUME TypeOK, LoopInv, ResultsInv, ScriptInv, NEW t \in Tickets, AfterCall(t),
         request' = request
  PROVE  /\ audit[t] # << >> => OrderOf(t)' = OrderOf(t)
         /\ call[t].tool \in AboutOrder \cup TerminalTools =>
              audit[t] # << >> /\ OrderOf(t)' = OrderOf(t)
         /\ call[t].tool \in TerminalTools =>
              (FoundEligible(t)' <=> FoundEligible(t))
  <1> DEFINE e == Entry(t)
  <1>1. /\ phase[t] = "batch" /\ pc[t] = "returned"
        /\ call[t].tool \notin Called(t)
        /\ audit[t] \in Seq(AuditEntry) /\ e \in AuditEntry
        /\ audit'[t] = Append(audit[t], e)
        /\ elig' = elig
    BY CallTaken
  <1>2. e.tool = call[t].tool
    BY DEF Entry
  <1> HIDE DEF e
  <1>3. /\ audit[t] = << >> => call[t].tool = "get_customer"
        /\ audit[t] # << >> => audit[t][1].tool = "get_customer"
    BY <1>1 DEF ScriptInv, OnScript
  <1>4. \A tool : Did(audit'[t], tool) <=>
                    Did(audit[t], tool) \/ (e.tool = tool /\ ~ HasError(e.result))
    BY <1>1, TrailShows
  <1>5. audit[t] # << >> => OrderOf(t)' = OrderOf(t)
    <2>1. SUFFICES ASSUME audit[t] # << >>
          PROVE  OrderOf(t)' = OrderOf(t)
      OBVIOUS
    <2>2. 1 \in DOMAIN audit[t]
      BY <1>1, <2>1
    <2>3. "get_customer" \in Called(t)
      BY <1>3, <2>1, <2>2 DEF Called
    <2>4. Did(audit'[t], "get_customer") <=> Did(audit[t], "get_customer")
      BY <1>1, <1>2, <1>4, <2>3
    <2>5. QED
      BY <2>4 DEF OrderOf
  <1>6. call[t].tool \in AboutOrder \cup TerminalTools => audit[t] # << >>
    BY <1>3 DEF AboutOrder, TerminalTools
  <1>7. ASSUME call[t].tool \in TerminalTools
        PROVE  FoundEligible(t)' <=> FoundEligible(t)
    <2>1. Did(audit'[t], "check_refund_eligibility")
            <=> Did(audit[t], "check_refund_eligibility")
      BY <1>2, <1>4, <1>7 DEF TerminalTools
    <2>2. PICK o : o = OrderOf(t)
      OBVIOUS
    <2>3. OrderOf(t)' = o
      BY <1>5, <1>6, <1>7, <2>2
    <2>4. QED
      BY <1>1, <2>1, <2>2, <2>3 DEF FoundEligible
  <1>8. QED
    BY <1>5, <1>6, <1>7

\* Every step of the pipeline keeps this.
LEMMA DeliveryStep ==
  ASSUME TypeOK, LoopInv, ResultsInv, ScriptInv, DeliveryInv, 5 < MaxIter,
         [OfflineNext]_offlineVars
  PROVE  DeliveryInv'
  <1>k. ASSUME NEW u \in Tickets,
               UNCHANGED <<phase[u], audit[u], pc[u], call[u], elig[u], request>>
        PROVE  Delivering(u)'
    <2>1. /\ Called(u)' = Called(u)
          /\ OrderOf(u)' = OrderOf(u)
          /\ FoundEligible(u)' <=> FoundEligible(u)
      BY <1>k, Untouched
    <2>2. Delivering(u)
      BY DEF DeliveryInv
    <2>3. QED
      BY <1>k, <2>1, <2>2 DEF Delivering, Answering, InFlight
  <1>0. CASE UNCHANGED offlineVars
    BY <1>0, <1>k DEF offlineVars, vars, loopVars, guardVars, ticketVars,
                      DeliveryInv
  <1>1. ASSUME NEW t \in Tickets, MockCalls(t) \/ Finish(t), request' = request
        PROVE  DeliveryInv'
    <2>1. /\ UNCHANGED <<audit, pc, call, elig>>
          /\ \/ phase[t] = "llm" /\ phase'[t] = "batch"
             \/ phase[t] = "closing" /\ phase'[t] = "finished"
          /\ \A u \in Tickets \ {t} : phase'[u] = phase[u]
      BY <1>1 DEF MockCalls, Finish, AskLlm, LoopInv, ResolverTypeOK, guardVars,
                  ticketVars
    <2>2. pc[t] \in {"idle", "crashed"}
      BY <2>1 DEF LoopInv, BatchInv
    <2>3. /\ Called(t)' = Called(t)
          /\ OrderOf(t)' = OrderOf(t)
          /\ FoundEligible(t)' <=> FoundEligible(t)
      BY <1>1, <2>1, Untouched
    <2>4. Delivering(t)
      BY DEF DeliveryInv
    <2>5. Delivering(t)'
      BY <1>1, <2>1, <2>2, <2>3, <2>4 DEF Delivering, Answering, InFlight
    <2>6. QED
      BY <1>1, <1>k, <2>1, <2>5 DEF DeliveryInv
  <1>2. ASSUME NEW t \in Tickets, MakeScriptedCall(t), request' = request
        PROVE  DeliveryInv'
    <2>1. PICK c \in {ScriptedCall(t)} \cap Calls :
            Allow(t, c) \/ Deny(t, c) \/ Defer(t, c)
      BY <1>2 DEF MakeScriptedCall
    <2>2. /\ phase[t] = "batch" /\ UNCHANGED loopVars
          /\ call'[t] = c
          /\ elig' = elig
          /\ \A u \in Tickets \ {t} : UNCHANGED <<pc[u], call[u]>>
      BY <1>2, <2>1 DEF MakeScriptedCall, Allow, Deny, Defer, Propose, Return,
                        TypeOK
    <2>3. /\ c.tool = NextTool(t)
          /\ c.tool \in AboutOrder => c.order = OrderOf(t)
      BY <2>1 DEF ScriptedCall, AboutOrder
    <2>4. /\ Called(t)' = Called(t)
          /\ OrderOf(t)' = OrderOf(t)
          /\ FoundEligible(t)' <=> FoundEligible(t)
      BY <1>2, <2>2, Untouched DEF loopVars
    <2>5. ASSUME c.tool \in TerminalTools, request[t].category = "refund",
                 OrderOf(t) # NoOrder
          PROVE  /\ "check_refund_eligibility" \in Called(t)
                 /\ FoundEligible(t) => "issue_refund" \in Called(t)
      <3>1. Wanted(t) \ TerminalTools \subseteq Called(t)
        BY <2>3, <2>5, NextToolFound
      <3>2. /\ "check_refund_eligibility" \in Wanted(t) \ TerminalTools
            /\ FoundEligible(t) => "issue_refund" \in Wanted(t) \ TerminalTools
        BY <2>5 DEF Wanted, TerminalTools
      <3>3. QED
        BY <3>1, <3>2
    <2>6. Delivering(t)
      BY DEF DeliveryInv
    <2>7. Delivering(t)'
      BY <1>2, <2>2, <2>3, <2>4, <2>5, <2>6
         DEF Delivering, Answering, InFlight, loopVars
    <2>8. QED
      BY <1>2, <1>k, <2>2, <2>7 DEF DeliveryInv, loopVars
  <1>3. ASSUME NEW t \in Tickets, Continue(t), UNCHANGED loopVars,
               request' = request
        PROVE  DeliveryInv'
    <2>1. /\ pc[t] \notin {"idle", "crashed"}
          /\ call' = call
          /\ \A u \in Tickets \ {t} : pc'[u] = pc[u] /\ elig'[u] = elig[u]
          /\ call[t].tool \in TerminalTools => elig' = elig
      BY <1>3 DEF Continue, Proceed, ToolFails, Enqueue, RetryAfterFailure,
                  RetriesExhausted, RejectCall, RunReadTool,
                  RunEligibilityCheck, SendReply, Escalate, IssueRefund,
                  AcquireRefundLock, RejectRefund, AcceptRefund, MarkRefunded,
                  LogRefund, BodyRuns, Return, TypeOK, TerminalTools
    <2>2. phase[t] = "batch"
      BY <2>1 DEF LoopInv, BatchInv
    <2>3. Called(t)' = Called(t) /\ OrderOf(t)' = OrderOf(t)
      BY <1>3 DEF Called, OrderOf, Did, loopVars
    <2>4. call[t].tool \in TerminalTools =>
            (FoundEligible(t)' <=> FoundEligible(t))
      BY <1>3, <2>1, Untouched DEF loopVars
    <2>5. Delivering(t)
      BY DEF DeliveryInv
    <2>6. Delivering(t)'
      BY <1>3, <2>1, <2>2, <2>3, <2>4, <2>5
         DEF Delivering, Answering, InFlight, loopVars
    <2>7. QED
      BY <1>3, <1>k, <2>1, <2>6 DEF DeliveryInv, loopVars
  <1>4. ASSUME NEW t \in Tickets, RecordActionFails(t), request' = request
        PROVE  DeliveryInv'
    <2>1. /\ phase'[t] = "failed"
          /\ \A u \in Tickets \ {t} : UNCHANGED <<phase[u], audit[u]>>
      BY <1>4 DEF RecordActionFails, Fail, LoopInv, ResolverTypeOK
    <2>2. /\ elig' = elig
          /\ \A u \in Tickets \ {t} : UNCHANGED <<pc[u], call[u]>>
      BY <1>4 DEF RecordActionFails, TakeResult, TypeOK
    <2>3. Delivering(t)'
      BY <2>1 DEF Delivering
    <2>4. QED
      BY <1>4, <1>k, <2>1, <2>2, <2>3 DEF DeliveryInv
  <1>5. ASSUME NEW t \in Tickets, AfterCall(t), request' = request
        PROVE  DeliveryInv'
    <2> DEFINE e == Entry(t)
    <2>1. /\ phase[t] = "batch" /\ pc[t] = "returned" /\ pc'[t] = "idle"
          /\ phase'[t] = IF call[t].tool \in TerminalTools THEN "closing" ELSE "llm"
          /\ audit[t] \in Seq(AuditEntry) /\ e \in AuditEntry
          /\ audit'[t] = Append(audit[t], e)
          /\ Called(t)' = Called(t) \cup {call[t].tool}
          /\ elig' = elig
      BY <1>5, CallTaken
    <2>2. \A u \in Tickets \ {t} :
            UNCHANGED <<phase[u], audit[u], pc[u], call[u], elig[u]>>
      BY <1>5, <2>1, CallTaken
    <2>3. e.tool = call[t].tool /\ e.order = call[t].order
      BY DEF Entry
    <2> HIDE DEF e
    <2>4. Delivering(t) /\ InFlight(t)
      BY <2>1 DEF DeliveryInv, InFlight
    <2>5. \A i \in DOMAIN audit'[t] :
            audit'[t][i].tool \in AboutOrder => audit'[t][i].order = OrderOf(t)'
      <3>1. /\ DOMAIN audit'[t] = DOMAIN audit[t] \cup {Len(audit[t]) + 1}
            /\ \A i \in DOMAIN audit[t] : audit'[t][i] = audit[t][i]
            /\ audit'[t][Len(audit[t]) + 1] = e
        BY <2>1
      <3>2. ASSUME NEW i \in DOMAIN audit[t], audit[t][i].tool \in AboutOrder
            PROVE  audit[t][i].order = OrderOf(t)'
        <4>1. audit[t] # << >>
          BY <3>2
        <4>2. OrderOf(t)' = OrderOf(t)
          BY <1>5, <4>1, OrderSettled
        <4>3. QED
          BY <2>1, <2>4, <3>2, <4>2 DEF Delivering
      <3>3. e.tool \in AboutOrder => e.order = OrderOf(t)'
        BY <1>5, <2>1, <2>3, <2>4, OrderSettled DEF Delivering
      <3>4. QED
        BY <3>1, <3>2, <3>3
    <2>6. ASSUME call[t].tool \in TerminalTools, request[t].category = "refund",
                 OrderOf(t)' # NoOrder
          PROVE  /\ "check_refund_eligibility" \in Called(t)'
                 /\ FoundEligible(t)' => "issue_refund" \in Called(t)'
      <3>1. /\ OrderOf(t)' = OrderOf(t)
            /\ FoundEligible(t)' <=> FoundEligible(t)
        BY <1>5, <2>6, OrderSettled
      <3>2. Answering(t)
        BY <2>4, <2>6 DEF Answering
      <3>3. QED
        BY <2>1, <2>4, <2>6, <3>1, <3>2 DEF Delivering
    <2>7. Delivering(t)'
      BY <1>5, <2>1, <2>5, <2>6 DEF Delivering, Answering, InFlight
    <2>8. QED
      BY <1>5, <1>k, <2>2, <2>7 DEF DeliveryInv
  <1>6. ASSUME NEW t \in Tickets, OfflineStep(t)
        PROVE  DeliveryInv'
    <2>1. /\ \/ MockCalls(t) \/ Finish(t)
             \/ IterationsExhausted(t)
             \/ MakeScriptedCall(t)
             \/ (Continue(t) /\ UNCHANGED loopVars)
             \/ AfterCall(t)
             \/ RecordActionFails(t)
          /\ request' = request
      BY <1>6, Zenon DEF OfflineStep
    <2>2. QED
      BY <1>1, <1>2, <1>3, <1>4, <1>5, <2>1, NeverExhausted
  <1>7. QED
    BY <1>0, <1>6 DEF OfflineNext

\* What a ticket's trail shows was done, and the script does all that is due.
LEMMA DeliverySays ==
  ASSUME LoopInv, TrailTrue, CheckedInv, DeliveryInv
  PROVE  RefundDelivered
  <1>1. SUFFICES ASSUME NEW t \in Tickets, phase[t] = "finished",
                        request[t].category = "refund",
                        OrderOf(t) \in Orders, Ledger!Refundable(OrderOf(t)),
                        \A i \in DOMAIN audit[t] : ~ HasError(audit[t][i].result)
        PROVE  Served(t, OrderOf(t))
    BY DEF RefundDelivered, Served
  <1>2. OrderOf(t) \in OrderArgs /\ OrderOf(t) # NoOrder
    BY <1>1, GuardAssumption, PolicyAssumption DEF OrderArgs
  <1>3. Delivering(t) /\ Answering(t)
    BY <1>1 DEF DeliveryInv, Answering
  <1>4. ASSUME NEW tool \in AboutOrder, tool \in Called(t)
        PROVE  \E i \in DOMAIN audit[t] :
                 /\ audit[t][i].tool = tool
                 /\ audit[t][i].order = OrderOf(t)
                 /\ EntryTrue(t, audit[t][i])
                 /\ ~ HasError(audit[t][i].result)
    <2>1. PICK i \in DOMAIN audit[t] : audit[t][i].tool = tool
      BY <1>4 DEF Called
    <2>2. audit[t][i].order = OrderOf(t)
      BY <1>1, <1>3, <1>4, <2>1 DEF Delivering
    <2>3. EntryTrue(t, audit[t][i])
      BY Zenon DEF TrailTrue
    <2>4. QED
      BY <1>1, <2>1, <2>2, <2>3
  <1>5. /\ "check_refund_eligibility" \in Called(t)
        /\ FoundEligible(t) => "issue_refund" \in Called(t)
    BY <1>1, <1>2, <1>3 DEF Delivering
  <1>6. /\ elig[t][OrderOf(t)] # NoCheck
        /\ Did(audit[t], "check_refund_eligibility")
    BY <1>4, <1>5 DEF EntryTrue, AboutOrder, Did
  <1>7. CASE OrderOf(t) \in refunded
    BY <1>7 DEF Served
  <1>8. CASE elig[t][OrderOf(t)].eligible
    <2>1. "issue_refund" \in Called(t)
      BY <1>5, <1>6, <1>8 DEF FoundEligible
    <2>2. QED
      BY <1>4, <2>1 DEF EntryTrue, AboutOrder
  <1>9. QED
    BY <1>1, <1>2, <1>6, <1>7, <1>8 DEF CheckedInv

\* Who asks for a refund that is owed is refunded, or waits for a human, when
\* no call of the ticket failed: whatever other tickets do to the order
\* meanwhile, and however the calls interleave.
THEOREM EveryRefundDelivered ==
  ASSUME 5 < MaxIter
  PROVE  OfflineSpec => []RefundDelivered
<1>1. OfflineInit => DeliveryInv
  BY DEF OfflineInit, ResolverInit, Init, DeliveryInv, Delivering, Answering,
         InFlight
<1>2. OfflineSpec => [](TypeOK /\ LoopInv /\ ResultsInv /\ ScriptInv)
  BY ScriptKept
<1>3. OfflineSpec => [](TrailTrue /\ CheckedInv)
  BY ScriptIsAnLlm, TrailIsTrue, PTL
<1>4. QED
  BY <1>1, <1>2, <1>3, DeliveryStep, DeliverySays, PTL DEF OfflineSpec

-----------------------------------------------------------------------------
(* The gate.                                                               *)

\* A finished ticket whose answer went out counts for the gate.
LEMMA AnsweredCounts ==
  ASSUME TypeOK, LoopInv, AccountInv, ReportInv, ScriptInv, NoSafetyViolations,
         NEW t \in Tickets, phase[t] = "finished",
         \A i \in DOMAIN audit[t] :
           audit[t][i].tool \in TerminalTools => ~ HasError(audit[t][i].result)
  PROVE  /\ report[t].status \in {"resolved", "escalated"}
         /\ ToolSequenceValid(audit[t])
  <1>1. /\ audit[t] # << >> /\ audit[t][1].tool = "get_customer"
        /\ \A i \in DOMAIN audit[t] :
             audit[t][i].tool \in TerminalTools <=> i = Len(audit[t])
    BY DEF ScriptInv, OnScript
  <1>2. Len(audit[t]) \in DOMAIN audit[t]
    <2>1. audit[t] \in Seq(AuditEntry)
      BY DEF LoopInv, ResolverTypeOK
    <2>2. QED
      BY <1>1, <2>1
  <1>3. audit[t][Len(audit[t])].tool \in TerminalTools
    BY <1>1, <1>2
  <1>4. Did(audit[t], "escalate") \/ Did(audit[t], "send_reply")
    BY <1>2, <1>3 DEF Did, TerminalTools
  <1>5. report[t].status = Status(audit[t])
    BY FinishedIsSettled, ReportReads
  <1>6. report[t].status \in {"resolved", "escalated"}
    BY <1>4, <1>5 DEF Status
  <1>7. ToolSequenceValid(audit[t])
    BY <1>1 DEF NoSafetyViolations, ToolSequenceValid
  <1>8. QED
    BY <1>6, <1>7

\* When every ticket went through and every answer went out the gate passes,
\* for any number of tickets about anything and every interleaving.
THEOREM GateCannotFail ==
  ASSUME 5 < MaxIter, IsFiniteSet(Tickets)
  PROVE  OfflineSpec => []GateHolds
<1>1. ASSUME TypeOK, LoopInv, AccountInv, ReportInv, ScriptInv, NoSafetyViolations
      PROVE  GateHolds
  <2>1. SUFFICES ASSUME \A t \in Tickets :
                          /\ phase[t] = "finished"
                          /\ \A i \in DOMAIN audit[t] :
                               audit[t][i].tool \in TerminalTools =>
                                 ~ HasError(audit[t][i].result)
        PROVE  GatePasses
    BY DEF GateHolds
  <2>2. \A t \in Tickets : /\ report[t].status \in {"resolved", "escalated"}
                           /\ ToolSequenceValid(audit[t])
    BY <1>1, <2>1, AnsweredCounts
  <2>3. /\ {t \in Tickets : report[t].status \in {"resolved", "escalated"}} = Tickets
        /\ {t \in Tickets : ToolSequenceValid(audit[t])} = Tickets
    BY <2>2
  <2>4. Cardinality(Tickets) \in Nat
    BY FS_CardinalityType
  <2>5. \A t \in Tickets : SafetyViolations(audit[t]) = 0
    BY <1>1 DEF NoSafetyViolations
  <2> DEFINE n == Cardinality(Tickets)
  <2>6. 100 * n >= 80 * n /\ 100 * n >= 90 * n
    <3> HIDE DEF n
    <3>1. n \in Nat
      BY <2>4 DEF n
    <3>2. QED
      BY <3>1
  <2>7. QED
    BY <2>3, <2>5, <2>6, Zenon DEF GatePasses
<1>2. OfflineSpec => [](TypeOK /\ LoopInv /\ AccountInv /\ ReportInv)
  BY ScriptIsAnLlm, ReportsCorrect, PTL
<1>3. OfflineSpec => [](TypeOK /\ LoopInv /\ ResultsInv /\ ScriptInv)
  BY ScriptKept
<1>4. QED
  BY <1>1, <1>2, <1>3, OfflineNoViolation, PTL
=============================================================================
