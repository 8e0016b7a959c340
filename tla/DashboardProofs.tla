-------------------------- MODULE DashboardProofs --------------------------
(***************************************************************************)
(* What the orchestrator promises for any number of tickets, runs and      *)
(* workers, whatever the page does: types, that the running flag is never  *)
(* left up, and that `complete' means complete.                            *)
(***************************************************************************)
EXTENDS Dashboard, TLAPS

PageStep == \/ ClickProcess \/ PostRefused \/ OpenStream \/ FetchFinalResults
            \/ HearComplete \/ HearEvalComplete \/ StreamBreaks
            \/ ClickEvaluate \/ JudgeFinishes \/ JudgeDies

serverVars == <<running, results, owner, phase, work, taken, stored, dlq>>

StreamTypeOK == subscribed \in BOOLEAN /\ queue \in Seq(Events)

PageTypeOK == /\ page \in {"idle", "posting", "answered", "streaming", "cut"}
              /\ evaluating \in BOOLEAN
              /\ judge \in {"none", "judging", "finished"}

\* The page's own steps, and those of the evaluation thread, leave the
\* server's threads, results and store alone.
LEMMA PageLeavesServer ==
  ASSUME PageStep
  PROVE  UNCHANGED serverVars
<1> USE DEF serverVars, orchVars, storeVars
<1>1. CASE ClickProcess \/ PostRefused \/ FetchFinalResults
  BY <1>1 DEF ClickProcess, PostRefused, FetchFinalResults
<1>2. CASE OpenStream \/ StreamBreaks
  BY <1>2 DEF OpenStream, StreamBreaks
<1>3. CASE HearComplete \/ HearEvalComplete
  BY <1>3 DEF HearComplete, HearEvalComplete
<1>4. CASE ClickEvaluate \/ JudgeFinishes \/ JudgeDies
  BY <1>4 DEF ClickEvaluate, JudgeFinishes, JudgeDies
<1> QED BY <1>1, <1>2, <1>3, <1>4 DEF PageStep

\* What the queue of a page does to its type: events are appended and taken off.
LEMMA QueueTypes ==
  /\ << >> \in Seq(Events)
  /\ \A q \in Seq(Events) : q # << >> => Tail(q) \in Seq(Events)
  /\ \A q \in Seq(Events) : /\ Append(q, "complete") \in Seq(Events)
                             /\ Append(q, "eval_complete") \in Seq(Events)
<1>1. << >> \in Seq(Events)
  OBVIOUS
<1>2. \A q \in Seq(Events) : q # << >> => Tail(q) \in Seq(Events)
  OBVIOUS
<1>3. "complete" \in Events /\ "eval_complete" \in Events
  BY DEF Events
<1>4. \A q \in Seq(Events), e \in Events : Append(q, e) \in Seq(Events)
  OBVIOUS
<1> QED BY <1>1, <1>2, <1>3, <1>4

\* They keep the types of the stream and of the page.
LEMMA PageTypes ==
  ASSUME PageStep, StreamTypeOK, PageTypeOK
  PROVE  StreamTypeOK' /\ PageTypeOK'
<1> USE DEF StreamTypeOK, PageTypeOK, orchVars, streamVars
<1>1. CASE ClickProcess \/ PostRefused \/ FetchFinalResults
  BY <1>1 DEF ClickProcess, PostRefused, FetchFinalResults
<1>2. CASE OpenStream \/ StreamBreaks
  BY <1>2, QueueTypes DEF OpenStream, StreamBreaks, CloseStream
<1>3. CASE HearComplete
  BY <1>3, QueueTypes DEF HearComplete, CloseStream
<1>4. CASE HearEvalComplete
  BY <1>4, QueueTypes DEF HearEvalComplete
<1>5. CASE ClickEvaluate \/ JudgeDies
  BY <1>5 DEF ClickEvaluate, JudgeDies
<1>6. CASE JudgeFinishes
  BY <1>6, QueueTypes DEF JudgeFinishes, Broadcast
<1> QED BY <1>1, <1>2, <1>3, <1>4, <1>5, <1>6 DEF PageStep

\* Every step is one of the page, one of the server, or a POST that both take.
LEMMA StepCases ==
  ASSUME [DashNext]_dashVars
  PROVE  \/ PageStep
         \/ \E r \in Runs : RunStep(r) /\ UNCHANGED pageVars
         \/ \E r \in Runs, t \in Tickets : WorkerStep(r, t) /\ UNCHANGED pageVars
         \/ \E r \in Runs : StartThread(r) /\ PostAccepted
         \/ UNCHANGED dashVars
BY DEF DashNext, PageReacts, PageStep, OrchStep, PostAccepted

-----------------------------------------------------------------------------
(* Types.                                                                  *)

ServerTypeOK ==
  /\ running \in BOOLEAN
  /\ results \in [Tickets -> Statuses \cup {None}]
  /\ owner \in Runs \cup {NoRun}
  /\ phase \in [Runs -> Phases]
  /\ work \in [Runs -> [Tickets -> Work]]
  /\ taken \in [Runs -> SUBSET Tickets]
  /\ stored \in [Tickets -> Statuses \cup {None}]
  /\ dlq \in SUBSET (Runs \X Tickets)

\* The type invariant is that of the server, of the stream and of the page.
LEMMA TypeSplit == DashTypeOK <=> ServerTypeOK /\ StreamTypeOK /\ PageTypeOK
BY DEF DashTypeOK, OrchTypeOK, ServerTypeOK, StreamTypeOK, PageTypeOK

\* A step of run_all keeps the types of the server's variables.
LEMMA RunTypes ==
  ASSUME NEW r \in Runs, RunStep(r), ServerTypeOK, StreamTypeOK
  PROVE  ServerTypeOK' /\ StreamTypeOK'
<1> USE DEF ServerTypeOK, StreamTypeOK, Go, Phases, streamVars, storeVars
<1>1. CASE TestRunning(r) BY <1>1 DEF TestRunning
<1>2. CASE SetRunning(r) BY <1>2 DEF SetRunning
<1>3. CASE ClearResults(r) BY <1>3 DEF ClearResults
<1>4. ASSUME NEW t \in Tickets, Collect(r, t) PROVE ServerTypeOK' /\ StreamTypeOK'
  <2>1. work[r][t].status \in Statuses \cup {None}
    BY DEF Work
  <2> QED BY <1>4, <2>1 DEF Collect
<1>5. ASSUME NEW t \in Tickets, CollectRaises(r, t)
      PROVE ServerTypeOK' /\ StreamTypeOK'
  BY <1>5 DEF CollectRaises
<1>6. CASE AnnounceComplete(r) BY <1>6, QueueTypes DEF AnnounceComplete, Broadcast
<1>7. CASE SummaryFails(r) BY <1>7 DEF SummaryFails
<1>8. CASE LowerFlag(r)
  BY <1>8 DEF LowerFlag, Leave, Work, Waiting, Stages
<1> QED BY <1>1, <1>2, <1>3, <1>4, <1>5, <1>6, <1>7, <1>8 DEF RunStep

\* So does a step of a worker.
LEMMA WorkerTypes ==
  ASSUME NEW r \in Runs, NEW t \in Tickets, WorkerStep(r, t),
         ServerTypeOK, StreamTypeOK
  PROVE  ServerTypeOK' /\ StreamTypeOK'
<1> USE DEF ServerTypeOK, StreamTypeOK, Move, streamVars, storeVars
<1>0. \A stage \in Stages : [work[r][t] EXCEPT !.at = stage] \in Work
  <2>1. work[r][t] \in Work
    OBVIOUS
  <2> QED BY <2>1 DEF Work
<1>1. ASSUME NEW from, NEW to \in Stages, Move(r, t, from, to)
      PROVE  work' \in [Runs -> [Tickets -> Work]]
  <2>1. work' = [work EXCEPT ![r] = [work[r] EXCEPT ![t] =
                  [work[r][t] EXCEPT !.at = to]]]
    BY <1>1
  <2> QED BY <1>0, <2>1
<1> USE DEF Stages
<1>2. CASE StartTicket(r, t) BY <1>1, <1>2 DEF StartTicket
<1>3. CASE SaveTicket(r, t)
  <2>1. [at |-> "done", status |-> "handled"] \in Work
    BY DEF Work, Statuses
  <2> QED BY <1>3, <2>1 DEF SaveTicket, Statuses
<1>4. CASE TicketRaises(r, t) BY <1>1, <1>4 DEF TicketRaises
<1>5. CASE AddToDlq(r, t)
  <2>1. work' \in [Runs -> [Tickets -> Work]]
    BY <1>1, <1>5 DEF AddToDlq
  <2> QED BY <1>5, <2>1 DEF AddToDlq
<1>6. CASE SaveFailed(r, t)
  <2>1. [at |-> "done", status |-> "failed"] \in Work
    BY DEF Work, Statuses
  <2> QED BY <1>6, <2>1 DEF SaveFailed, Statuses
<1>7. CASE HandlerRaises(r, t) BY <1>1, <1>7 DEF HandlerRaises
<1> QED BY <1>2, <1>3, <1>4, <1>5, <1>6, <1>7 DEF WorkerStep

\* Type correctness of the server and the page.
THEOREM DashTypeCorrect == DashSpec => []DashTypeOK
<1>1. DashInit => DashTypeOK
  <2>1. Waiting \in Work
    BY DEF Waiting, Work, Stages
  <2>2. OrchInit => ServerTypeOK
    <3> SUFFICES ASSUME OrchInit PROVE ServerTypeOK
      OBVIOUS
    <3>1. work \in [Runs -> [Tickets -> Work]]
      BY <2>1 DEF OrchInit
    <3>2. phase \in [Runs -> Phases] /\ running \in BOOLEAN
      BY DEF OrchInit, Phases
    <3>3. /\ results \in [Tickets -> Statuses \cup {None}]
          /\ stored \in [Tickets -> Statuses \cup {None}]
          /\ owner \in Runs \cup {NoRun}
      BY DEF OrchInit
    <3>4. taken \in [Runs -> SUBSET Tickets] /\ dlq \in SUBSET (Runs \X Tickets)
      BY DEF OrchInit
    <3> QED BY <3>1, <3>2, <3>3, <3>4 DEF ServerTypeOK
  <2>3. DashInit => StreamTypeOK /\ PageTypeOK
    BY QueueTypes DEF DashInit, OrchInit, StreamTypeOK, PageTypeOK
  <2> QED BY <2>2, <2>3, TypeSplit DEF DashInit
<1>2. DashTypeOK /\ [DashNext]_dashVars => DashTypeOK'
  <2> SUFFICES ASSUME ServerTypeOK, StreamTypeOK, PageTypeOK, [DashNext]_dashVars
               PROVE  ServerTypeOK' /\ StreamTypeOK' /\ PageTypeOK'
    BY TypeSplit, PTL
  <2>1. CASE PageStep
    BY <2>1, PageLeavesServer, PageTypes DEF serverVars, ServerTypeOK
  <2>2. ASSUME NEW r \in Runs, RunStep(r), UNCHANGED pageVars
        PROVE  ServerTypeOK' /\ StreamTypeOK' /\ PageTypeOK'
    BY <2>2, RunTypes DEF pageVars, PageTypeOK
  <2>3. ASSUME NEW r \in Runs, NEW t \in Tickets, WorkerStep(r, t),
               UNCHANGED pageVars
        PROVE  ServerTypeOK' /\ StreamTypeOK' /\ PageTypeOK'
    BY <2>3, WorkerTypes DEF pageVars, PageTypeOK
  <2>4. ASSUME NEW r \in Runs, StartThread(r), PostAccepted
        PROVE  ServerTypeOK' /\ StreamTypeOK' /\ PageTypeOK'
    BY <2>4 DEF StartThread, PostAccepted, Go, ServerTypeOK, StreamTypeOK,
                PageTypeOK, Phases, storeVars, streamVars
  <2>5. CASE UNCHANGED dashVars
    BY <2>5 DEF dashVars, orchVars, pageVars, storeVars, streamVars,
                ServerTypeOK, StreamTypeOK, PageTypeOK
  <2> QED BY <2>1, <2>2, <2>3, <2>4, <2>5, StepCases
<1> QED BY <1>1, <1>2, PTL DEF DashSpec

-----------------------------------------------------------------------------
(* The running flag.                                                       *)

\* However a run ends, it lowers the flag: a raised flag belongs to a run
\* that is still going on.
THEOREM FlagNeverStuck == DashSpec => []RunningMeansBusy
<1>1. DashInit => RunningMeansBusy
  BY DEF DashInit, OrchInit, RunningMeansBusy
<1>2. DashTypeOK /\ RunningMeansBusy /\ [DashNext]_dashVars => RunningMeansBusy'
  <2> SUFFICES ASSUME ServerTypeOK, RunningMeansBusy, [DashNext]_dashVars
               PROVE  RunningMeansBusy'
    BY TypeSplit
  <2> USE DEF ServerTypeOK, RunningMeansBusy, Go
  <2>1. CASE PageStep
    BY <2>1, PageLeavesServer DEF serverVars
  <2>2. ASSUME NEW r \in Runs, RunStep(r)
        PROVE  RunningMeansBusy'
    <3>1. CASE TestRunning(r) BY <3>1 DEF TestRunning
    <3>2. CASE SetRunning(r) BY <3>2 DEF SetRunning
    <3>3. CASE ClearResults(r) BY <3>3 DEF ClearResults
    <3>4. ASSUME NEW t \in Tickets, Collect(r, t) \/ CollectRaises(r, t)
          PROVE  RunningMeansBusy'
      BY <3>4 DEF Collect, CollectRaises
    <3>5. CASE AnnounceComplete(r) \/ SummaryFails(r)
      BY <3>5 DEF AnnounceComplete, SummaryFails
    <3>6. CASE LowerFlag(r) BY <3>6 DEF LowerFlag
    <3> QED BY <2>2, <3>1, <3>2, <3>3, <3>4, <3>5, <3>6 DEF RunStep
  <2>3. ASSUME NEW r \in Runs, NEW t \in Tickets, WorkerStep(r, t)
        PROVE  RunningMeansBusy'
    BY <2>3 DEF WorkerStep, StartTicket, SaveTicket, TicketRaises, AddToDlq,
                SaveFailed, HandlerRaises, Move
  <2>4. ASSUME NEW r \in Runs, StartThread(r)
        PROVE  RunningMeansBusy'
    BY <2>4 DEF StartThread
  <2>5. CASE UNCHANGED dashVars
    BY <2>5 DEF dashVars, orchVars
  <2> QED BY <2>1, <2>2, <2>3, <2>4, <2>5, StepCases
<1> QED BY <1>1, <1>2, DashTypeCorrect, PTL DEF DashSpec

-----------------------------------------------------------------------------
(* What `complete' means.                                                  *)

\* A step of run_all keeps the accounts of futures and of collected results.
LEMMA RunAccounts ==
  ASSUME NEW r \in Runs, RunStep(r), ServerTypeOK, FuturesInv, CollectInv
  PROVE  FuturesInv' /\ CollectInv'
<1> USE OrchestratorAssumption DEF ServerTypeOK, Go, storeVars, NotCollecting
<1>1. CASE TestRunning(r) \/ SetRunning(r)
  BY <1>1 DEF TestRunning, SetRunning, FuturesInv, CollectInv
<1>2. CASE ClearResults(r)
  <2>1. FuturesInv'
    BY <1>2 DEF ClearResults, FuturesInv
  <2>2. CollectInv'
    BY <1>2 DEF ClearResults, CollectInv
  <2> QED BY <2>1, <2>2
<1>3. ASSUME NEW t \in Tickets, Collect(r, t)
      PROVE  FuturesInv' /\ CollectInv'
  <2>1. FuturesInv'
    BY <1>3 DEF Collect, FuturesInv
  <2>2. work[r][t].status # None
    BY <1>3 DEF Collect, FuturesInv
  <2>3. CollectInv'
    BY <1>3, <2>2 DEF Collect, CollectInv
  <2> QED BY <2>1, <2>3
<1>4. ASSUME NEW t \in Tickets, CollectRaises(r, t)
      PROVE  FuturesInv' /\ CollectInv'
  BY <1>4 DEF CollectRaises, FuturesInv, CollectInv
<1>5. CASE AnnounceComplete(r) \/ SummaryFails(r)
  BY <1>5 DEF AnnounceComplete, SummaryFails, FuturesInv, CollectInv
<1>6. CASE LowerFlag(r)
  <2>1. /\ work' = [work EXCEPT ![r] = [t \in Tickets |-> Waiting]]
        /\ taken' = [taken EXCEPT ![r] = {}]
        /\ phase'[r] \in {"ended", "aborted"}
        /\ \A q \in Runs : q # r => phase'[q] = phase[q]
        /\ UNCHANGED <<results, owner, stored, dlq>>
    BY <1>6 DEF LowerFlag, Leave
  <2>2. FuturesInv'
    BY <2>1 DEF FuturesInv, Waiting
  <2>3. CollectInv'
    BY <2>1 DEF CollectInv
  <2> QED BY <2>2, <2>3
<1> QED BY <1>1, <1>2, <1>3, <1>4, <1>5, <1>6 DEF RunStep

\* So does a step of a worker: no future that is done changes any more.
LEMMA WorkerAccounts ==
  ASSUME NEW r \in Runs, NEW t \in Tickets, WorkerStep(r, t),
         ServerTypeOK, FuturesInv, CollectInv
  PROVE  FuturesInv' /\ CollectInv'
<1> USE OrchestratorAssumption DEF ServerTypeOK, storeVars, Move
<1>1. CollectInv'
  BY DEF CollectInv, WorkerStep, StartTicket, SaveTicket, TicketRaises,
         AddToDlq, SaveFailed, HandlerRaises
<1>2. /\ work[r][t].at # "done"
      /\ taken' = taken
      /\ \A q \in Runs, u \in Tickets :
           q # r \/ u # t => work'[q][u] = work[q][u]
  BY DEF WorkerStep, StartTicket, SaveTicket, TicketRaises, AddToDlq,
         SaveFailed, HandlerRaises
<1>4. /\ dlq \subseteq dlq'
      /\ \A u \in Tickets : stored[u] # None => stored'[u] # None
  BY DEF WorkerStep, StartTicket, SaveTicket, TicketRaises, AddToDlq,
         SaveFailed, HandlerRaises, Statuses
<1>5. /\ work'[r][t].at = "burying" => <<r, t>> \in dlq'
      /\ work'[r][t].at = "done" =>
           /\ work'[r][t].status # None
           /\ stored'[t] # None
           /\ work'[r][t].status = "failed" => <<r, t>> \in dlq'
  <2>0. \A from, to : Move(r, t, from, to) => work'[r][t].at = to
    BY DEF Work
  <2>1. CASE StartTicket(r, t) \/ TicketRaises(r, t) \/ HandlerRaises(r, t)
    <3>1. work'[r][t].at \in {"processing", "failing", "raised"}
      BY <2>0, <2>1 DEF StartTicket, TicketRaises, HandlerRaises
    <3> QED BY <3>1
  <2>2. CASE SaveTicket(r, t)
    <3>1. /\ work'[r][t] = [at |-> "done", status |-> "handled"]
          /\ stored'[t] = "handled"
      BY <2>2 DEF SaveTicket
    <3> QED BY <3>1 DEF Statuses
  <2>3. CASE AddToDlq(r, t)
    <3>1. work'[r][t].at = "burying" /\ <<r, t>> \in dlq'
      BY <2>0, <2>3 DEF AddToDlq
    <3> QED BY <3>1
  <2>4. CASE SaveFailed(r, t)
    <3>1. /\ work'[r][t] = [at |-> "done", status |-> "failed"]
          /\ stored'[t] = "failed"
          /\ <<r, t>> \in dlq'
      BY <2>4 DEF SaveFailed, FuturesInv
    <3> QED BY <3>1 DEF Statuses
  <2> QED BY <2>1, <2>2, <2>3, <2>4 DEF WorkerStep
<1>6. FuturesInv'
  <2> SUFFICES ASSUME NEW q \in Runs, NEW u \in Tickets
               PROVE  /\ u \in taken[q] => work'[q][u].at = "done"
                      /\ work'[q][u].at = "burying" => <<q, u>> \in dlq'
                      /\ work'[q][u].at = "done" =>
                           /\ work'[q][u].status # None
                           /\ stored'[u] # None
                           /\ work'[q][u].status = "failed" => <<q, u>> \in dlq'
    BY <1>2 DEF FuturesInv
  <2>1. CASE q = r /\ u = t
    BY <2>1, <1>2, <1>5 DEF FuturesInv
  <2>2. CASE q # r \/ u # t
    <3>1. work'[q][u] = work[q][u]
      BY <2>2, <1>2
    <3> QED BY <3>1, <1>4 DEF FuturesInv
  <2> QED BY <2>1, <2>2
<1> QED BY <1>1, <1>6

\* The accounts are kept by every behaviour.
THEOREM AccountsKept == DashSpec => [](FuturesInv /\ CollectInv)
<1>1. DashInit => FuturesInv /\ CollectInv
  BY DEF DashInit, OrchInit, FuturesInv, CollectInv, Waiting
<1>2. DashTypeOK /\ FuturesInv /\ CollectInv /\ [DashNext]_dashVars
        => FuturesInv' /\ CollectInv'
  <2> SUFFICES ASSUME ServerTypeOK, FuturesInv, CollectInv, [DashNext]_dashVars
               PROVE  FuturesInv' /\ CollectInv'
    BY TypeSplit
  <2>1. CASE UNCHANGED serverVars
    BY <2>1 DEF serverVars, FuturesInv, CollectInv
  <2>2. ASSUME NEW r \in Runs, StartThread(r)
        PROVE  FuturesInv' /\ CollectInv'
    BY <2>2 DEF StartThread, Go, ServerTypeOK, FuturesInv, CollectInv,
                NotCollecting, storeVars
  <2>3. UNCHANGED dashVars => UNCHANGED serverVars
    BY DEF dashVars, orchVars, storeVars, serverVars
  <2> QED
    BY <2>1, <2>2, <2>3, PageLeavesServer, RunAccounts, WorkerAccounts, StepCases
<1> QED BY <1>1, <1>2, DashTypeCorrect, PTL DEF DashSpec

\* A run that says it is complete has lost no ticket: every one has a row and
\* every failed one a dead letter.
THEOREM CompleteIsDurable == DashSpec => []CompletedMeansDurable
<1>1. FuturesInv /\ CollectInv => CompletedMeansDurable
  BY DEF FuturesInv, CollectInv, CompletedMeansDurable, Announced
<1> QED BY <1>1, AccountsKept, PTL

\* And if it cleared the results last, /api/results has every ticket.
THEOREM CompleteIsAll == DashSpec => []CompleteMeansAllIn
<1>1. FuturesInv /\ CollectInv => CompleteMeansAllIn
  BY DEF CollectInv, CompleteMeansAllIn, Announced
<1> QED BY <1>1, AccountsKept, PTL
=============================================================================
