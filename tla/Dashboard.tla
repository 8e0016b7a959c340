----------------------------- MODULE Dashboard -----------------------------
(***************************************************************************)
(* The page (static/app.js) and the handlers it calls (app/server.py): the *)
(* processing and evaluating flags behind the two buttons, the event       *)
(* stream that is opened after the POST was answered, and the evaluation   *)
(* thread.  Counters, cards and the modal are presentation.                *)
(***************************************************************************)
EXTENDS Orchestrator

VARIABLES
  page,       \* where startProcessing is; "idle" iff ~ state.processing
  evaluating, \* state.evaluating
  judge       \* the evaluation thread of the server

pageVars == <<page, evaluating, judge>>
dashVars == <<orchVars, pageVars>>

Processing == page # "idle"

DashTypeOK ==
  /\ OrchTypeOK
  /\ page \in {"idle", "posting", "answered", "streaming", "cut"}
  /\ evaluating \in BOOLEAN
  /\ judge \in {"none", "judging", "finished"}

DashInit ==
  /\ OrchInit
  /\ page = "idle"
  /\ evaluating = FALSE
  /\ judge = "none"

NoResults == \A t \in Tickets : results[t] = None

-----------------------------------------------------------------------------
(* Process Tickets                                                         *)

ClickProcess ==
  /\ ~ Processing
  /\ page' = "posting"
  /\ UNCHANGED <<orchVars, evaluating, judge>>

PostAccepted ==
  /\ page = "posting"
  /\ \E r \in Runs : StartThread(r)
  /\ page' = "answered"
  /\ UNCHANGED <<evaluating, judge>>

\* 409 while the flag is up, or a network error: an alert, and resetBtn.
PostRefused ==
  /\ page = "posting"
  /\ page' = "idle"
  /\ UNCHANGED <<orchVars, evaluating, judge>>

\* new EventSource: the server subscribes a new queue.
OpenStream ==
  /\ page = "answered"
  /\ page' = "streaming"
  /\ subscribed' = TRUE
  /\ queue' = << >>
  /\ UNCHANGED <<running, results, owner, phase, work, taken, storeVars,
                 evaluating, judge>>

CloseStream == subscribed' = FALSE /\ queue' = << >>

\* The stream breaks (onerror): two seconds later the page fetches what
\* there is and calls itself complete.
StreamBreaks ==
  /\ page = "streaming"
  /\ page' = "cut"
  /\ CloseStream
  /\ UNCHANGED <<running, results, owner, phase, work, taken, storeVars,
                 evaluating, judge>>

FetchFinalResults ==
  /\ page = "cut"
  /\ page' = "idle"
  /\ UNCHANGED <<orchVars, evaluating, judge>>

\* Mutant: the page handles the event and forgets to lower its flag.
HearCompleteStuck ==
  /\ page = "streaming"
  /\ queue # << >>
  /\ Head(queue) = "complete"
  /\ CloseStream
  /\ UNCHANGED <<running, results, owner, phase, work, taken, storeVars,
                 page, evaluating, judge>>

\* `complete' closes the stream and enables the buttons.
HearComplete ==
  /\ page = "streaming"
  /\ queue # << >>
  /\ Head(queue) = "complete"
  /\ page' = "idle"
  /\ CloseStream
  /\ UNCHANGED <<running, results, owner, phase, work, taken, storeVars,
                 evaluating, judge>>

HearEvalComplete ==
  /\ page = "streaming"
  /\ queue # << >>
  /\ Head(queue) = "eval_complete"
  /\ queue' = Tail(queue)
  /\ evaluating' = FALSE
  /\ UNCHANGED <<running, results, owner, phase, work, taken, storeVars,
                 subscribed, page, judge>>

-----------------------------------------------------------------------------
(* Run Analytics                                                           *)

\* The page posts only while it neither processes nor evaluates; the server
\* takes the results there are, and answers 404 if there are none.  The button
\* appears with the first `complete', here with the first result.
ClickEvaluate ==
  /\ ~ Processing
  /\ ~ evaluating
  /\ ~ NoResults
  /\ evaluating' = TRUE
  /\ judge' = "judging"
  /\ UNCHANGED <<orchVars, page>>

\* The thread replaces the evaluations and broadcasts eval_complete ...
JudgeFinishes ==
  /\ judge = "judging"
  /\ judge' = "finished"
  /\ Broadcast("eval_complete")
  /\ UNCHANGED <<running, results, owner, phase, work, taken, storeVars,
                 page, evaluating>>

\* ... or dies of an answer that is no JSON object, telling nobody.
JudgeDies ==
  /\ judge = "judging"
  /\ judge' = "none"
  /\ UNCHANGED <<orchVars, page, evaluating>>

-----------------------------------------------------------------------------

PageReacts ==
  \/ PostAccepted
  \/ PostRefused
  \/ OpenStream
  \/ FetchFinalResults
  \/ HearComplete
  \/ HearEvalComplete

DashNext ==
  \/ OrchStep /\ UNCHANGED pageVars
  \/ ClickProcess
  \/ ClickEvaluate
  \/ StreamBreaks
  \/ PageReacts
  \/ JudgeFinishes
  \/ JudgeDies

DashSpec == DashInit /\ [][DashNext]_dashVars

Serve == \/ OrchStep /\ UNCHANGED pageVars
         \/ JudgeFinishes
         \/ JudgeDies

\* The server does not stop while one of its threads can go on, and the page's
\* event loop runs; nobody has to click, and no stream has to break.  Threads
\* do not loop, so more is not needed for each of them to end.
DashFairSpec == DashSpec /\ WF_dashVars(Serve) /\ WF_dashVars(PageReacts)

-----------------------------------------------------------------------------
(* What must hold.                                                         *)

\* A page that listens while a run is collecting becomes usable again unless
\* that run is aborted: `complete' is sent once per run, to whoever has
\* subscribed by then, and nothing that overlaps can swallow it.
PageHearsComplete ==
  \A r \in Runs :
    page = "streaming" /\ phase[r] = "collecting"
      ~> page # "streaming" \/ phase[r] = "aborted"

\* app.js:353 "You can now click 'Run Analytics' to generate the Judging
\* Report": an evaluation that the server finished is reported to the page.
EvaluationReported == judge = "finished" ~> ~ evaluating
=============================================================================
