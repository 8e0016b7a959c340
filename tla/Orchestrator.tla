---------------------------- MODULE Orchestrator ----------------------------
(***************************************************************************)
(* Orchestrator.run_all and _process_one (app/orchestrator.py): a thread   *)
(* per POST, a pool of workers per run, the results map, the ticket and    *)
(* dead-letter tables of the store (storage/store.py) and the event        *)
(* stream.  How a ticket is resolved is the business of module Resolver;   *)
(* here it ends with a status or with an exception.                        *)
(***************************************************************************)
EXTENDS Naturals, Sequences, FiniteSets

CONSTANTS
  Tickets,     \* the tickets of tickets.json
  Runs,        \* threads that may execute run_all
  NoRun,       \* nobody has cleared the results yet
  None,        \* no result, no row
  MaxWorkers   \* settings.max_concurrent_tickets

\* "handled" stands for the resolver's resolved, escalated and incomplete.
Statuses == {"handled", "failed"}

ASSUME OrchestratorAssumption ==
  /\ NoRun \notin Runs
  /\ None \notin Statuses
  /\ MaxWorkers \in Nat \ {0}

VARIABLES
  running,   \* Orchestrator._running
  results,   \* Orchestrator._results
  owner,     \* the run that cleared _results last, kept for the properties
  phase,     \* where each thread is inside run_all
  work,      \* each run's futures: where _process_one is, and its outcome
  taken,     \* futures whose result run_all has put into _results
  stored,    \* status column of the tickets table
  dlq,       \* dead_letter rows; the run is kept for the properties
  subscribed,\* the page's queue is among _subscribers
  queue      \* what has been put into the page's queue

storeVars == <<stored, dlq>>
streamVars == <<subscribed, queue>>
orchVars == <<running, results, owner, phase, work, taken, storeVars, streamVars>>

\* "absent" until POST, "refused" for "Already running"; a run in which
\* something raised is "aborting", or "draining" if its pool has workers left.
Phases == {"absent", "posted", "entering", "clearing", "collecting",
           "draining", "aborting", "exporting", "ended", "aborted", "refused"}

\* "failing" and "burying" are the handler of a crashed ticket.
Stages == {"waiting", "processing", "failing", "burying", "done", "raised"}
Work == [at: Stages, status: Statuses \cup {None}]
Waiting == [at |-> "waiting", status |-> None]

\* The events that change what the page does next.
Events == {"complete", "eval_complete"}

OrchTypeOK ==
  /\ running \in BOOLEAN
  /\ results \in [Tickets -> Statuses \cup {None}]
  /\ owner \in Runs \cup {NoRun}
  /\ phase \in [Runs -> Phases]
  /\ work \in [Runs -> [Tickets -> Work]]
  /\ taken \in [Runs -> SUBSET Tickets]
  /\ stored \in [Tickets -> Statuses \cup {None}]
  /\ dlq \in SUBSET (Runs \X Tickets)
  /\ subscribed \in BOOLEAN
  /\ queue \in Seq(Events)

OrchInit ==
  /\ running = FALSE
  /\ results = [t \in Tickets |-> None]
  /\ owner = NoRun
  /\ phase = [r \in Runs |-> "absent"]
  /\ work = [r \in Runs |-> [t \in Tickets |-> Waiting]]
  /\ taken = [r \in Runs |-> {}]
  /\ stored = [t \in Tickets |-> None]
  /\ dlq = {}
  /\ subscribed = FALSE
  /\ queue = << >>

-----------------------------------------------------------------------------
(* run_all                                                                 *)

Go(r, from, to) == /\ phase[r] = from
                   /\ phase' = [phase EXCEPT ![r] = to]

\* The subscriber list is copied
\* under its lock and the puts follow; the page is the only reader of its
\* queue, so the copy is where the event is sent or missed.
Broadcast(event) ==
  /\ queue' = IF subscribed THEN Append(queue, event) ELSE queue
  /\ UNCHANGED subscribed

\* POST /api/process while the flag is down: a thread is started.
StartThread(r) ==
  /\ ~ running
  /\ Go(r, "absent", "posted")
  /\ UNCHANGED <<running, results, owner, work, taken, storeVars, streamVars>>

\* run_all tests the flag, and sets it in a later step.
TestRunning(r) ==
  /\ \/ ~ running /\ Go(r, "posted", "entering")
     \/ running /\ Go(r, "posted", "refused")
  /\ UNCHANGED <<running, results, owner, work, taken, storeVars, streamVars>>

SetRunning(r) ==
  /\ Go(r, "entering", "clearing")
  /\ running' = TRUE
  /\ UNCHANGED <<results, owner, work, taken, storeVars, streamVars>>

\* Then tickets.json is read and every ticket submitted, or reading it fails.
ClearResults(r) ==
  /\ \/ Go(r, "clearing", "collecting")
     \/ Go(r, "clearing", "aborting")
  /\ results' = [t \in Tickets |-> None]
  /\ owner' = r
  /\ UNCHANGED <<running, work, taken, storeVars, streamVars>>

\* Mutant: the map keeps the future, not its result.
CollectFuture(r, t) ==
  /\ phase[r] = "collecting"
  /\ t \notin taken[r]
  /\ work[r][t].at = "done"
  /\ results' = [results EXCEPT ![t] = t]
  /\ taken' = [taken EXCEPT ![r] = @ \cup {t}]
  /\ UNCHANGED <<running, owner, phase, work, storeVars, streamVars>>

Collect(r, t) ==
  /\ phase[r] = "collecting"
  /\ t \notin taken[r]
  /\ work[r][t].at = "done"
  /\ results' = [results EXCEPT ![t] = work[r][t].status]
  /\ taken' = [taken EXCEPT ![r] = @ \cup {t}]
  /\ UNCHANGED <<running, owner, phase, work, storeVars, streamVars>>

\* Mutant: a future that raised is skipped.
CollectSkips(r, t) ==
  /\ phase[r] = "collecting"
  /\ t \notin taken[r]
  /\ work[r][t].at = "raised"
  /\ taken' = [taken EXCEPT ![r] = @ \cup {t}]
  /\ UNCHANGED <<running, results, owner, phase, work, storeVars, streamVars>>

\* fut.result() re-raises what the handler of a failed ticket raised: the
\* loop is left, and leaving the pool waits for every worker.
CollectRaises(r, t) ==
  /\ t \notin taken[r]
  /\ work[r][t].at = "raised"
  /\ Go(r, "collecting", "draining")
  /\ UNCHANGED <<running, results, owner, work, taken, storeVars, streamVars>>

\* Mutant: leaving the pool waits for results only.
PoolDone(r) == \A t \in Tickets : work[r][t].at = "done"

PoolIdle(r) == \A t \in Tickets : work[r][t].at \in {"done", "raised"}

\* Every future is collected: _summary reads the results and the dead-letter
\* table, then `complete' goes out, before the export and before the flag is
\* lowered.
AnnounceComplete(r) ==
  /\ taken[r] = Tickets
  /\ Go(r, "collecting", "exporting")
  /\ Broadcast("complete")
  /\ UNCHANGED <<running, results, owner, work, taken, storeVars>>

SummaryFails(r) ==
  /\ taken[r] = Tickets
  /\ Go(r, "collecting", "aborting")
  /\ UNCHANGED <<running, results, owner, work, taken, storeVars, streamVars>>

\* The export logs whatever goes wrong; the thread ends, its futures with it.
Leave(r) ==
  /\ \/ Go(r, "exporting", "ended")
     \/ Go(r, "aborting", "aborted")
     \/ PoolIdle(r) /\ Go(r, "draining", "aborted")
  /\ work' = [work EXCEPT ![r] = [t \in Tickets |-> Waiting]]
  /\ taken' = [taken EXCEPT ![r] = {}]

\* Mutant: the flag is lowered at the end of the run, not in a finally.
LowerFlagLast(r) ==
  /\ Leave(r)
  /\ running' = (running /\ phase[r] # "exporting")
  /\ UNCHANGED <<results, owner, storeVars, streamVars>>

\* finally
LowerFlag(r) ==
  /\ Leave(r)
  /\ running' = FALSE
  /\ UNCHANGED <<results, owner, storeVars, streamVars>>

RunStep(r) ==
  \/ TestRunning(r)
  \/ SetRunning(r)
  \/ ClearResults(r)
  \/ \E t \in Tickets : Collect(r, t) \/ CollectRaises(r, t)
  \/ AnnounceComplete(r)
  \/ SummaryFails(r)
  \/ LowerFlag(r)

-----------------------------------------------------------------------------
(* _process_one, in the pool of run r                                      *)

Submitted(r) == phase[r] \in {"collecting", "draining"}

Move(r, t, from, to) ==
  /\ work[r][t].at = from
  /\ work' = [work EXCEPT ![r][t].at = to]
  /\ UNCHANGED <<running, results, owner, phase, taken, streamVars>>

Busy(r) ==
  {t \in Tickets : work[r][t].at \notin {"waiting", "done", "raised"}}

\* A worker takes the ticket up.
StartTicket(r, t) ==
  /\ Submitted(r)
  /\ Cardinality(Busy(r)) < MaxWorkers
  /\ Move(r, t, "waiting", "processing")
  /\ UNCHANGED storeVars

\* Reader, classifier, resolver and health monitor return, and the result is
\* saved and announced ...
SaveTicket(r, t) ==
  /\ work[r][t].at = "processing"
  /\ work' = [work EXCEPT ![r][t] = [at |-> "done", status |-> "handled"]]
  /\ stored' = [stored EXCEPT ![t] = "handled"]
  /\ UNCHANGED <<running, results, owner, phase, taken, dlq, streamVars>>

\* ... or one of them raises, or save_ticket does.
TicketRaises(r, t) ==
  /\ Move(r, t, "processing", "failing")
  /\ UNCHANGED storeVars

\* Mutant: the dead letter is written only for a ticket without a row.
AddToDlqOnce(r, t) ==
  /\ Move(r, t, "failing", "burying")
  /\ dlq' = IF stored[t] = None THEN dlq \cup {<<r, t>>} ELSE dlq
  /\ UNCHANGED stored

AddToDlq(r, t) ==
  /\ Move(r, t, "failing", "burying")
  /\ dlq' = dlq \cup {<<r, t>>}
  /\ UNCHANGED stored

SaveFailed(r, t) ==
  /\ work[r][t].at = "burying"
  /\ work' = [work EXCEPT ![r][t] = [at |-> "done", status |-> "failed"]]
  /\ stored' = [stored EXCEPT ![t] = "failed"]
  /\ UNCHANGED <<running, results, owner, phase, taken, dlq, streamVars>>

\* A write of the handler itself fails: the future raises.
HandlerRaises(r, t) ==
  /\ \/ Move(r, t, "failing", "raised")
     \/ Move(r, t, "burying", "raised")
  /\ UNCHANGED storeVars

WorkerStep(r, t) ==
  \/ StartTicket(r, t)
  \/ SaveTicket(r, t)
  \/ TicketRaises(r, t)
  \/ AddToDlq(r, t)
  \/ SaveFailed(r, t)
  \/ HandlerRaises(r, t)

OrchStep ==
  \E r \in Runs : RunStep(r) \/ \E t \in Tickets : WorkerStep(r, t)

-----------------------------------------------------------------------------
(* What must hold.                                                         *)

Announced(r) == phase[r] = "exporting"

\* "A crashed ticket must not vanish" (orchestrator.py:116): when a run says
\* it is complete, every one of its tickets has a row and every failed one a
\* dead letter of that run, whatever else was running and failing meanwhile.
CompletedMeansDurable ==
  \A r \in Runs : Announced(r) =>
    \A t \in Tickets :
      /\ stored[t] # None
      /\ work[r][t].at = "done"
      /\ work[r][t].status = "failed" => <<r, t>> \in dlq

\* When the run that cleared the results last says it is complete, /api/results
\* has every ticket: a run that overlapped it may replace a result, never
\* take one away.
CompleteMeansAllIn ==
  \A r \in Runs : Announced(r) /\ owner = r =>
    \A t \in Tickets : results[t] # None

\* A raised flag belongs to a run that is still going on: however a run ends,
\* by an unreadable file or by an exception out of a worker, the next POST is
\* not refused for ever.
RunningMeansBusy ==
  running => \E r \in Runs :
    phase[r] \in {"clearing", "collecting", "draining", "aborting", "exporting"}

\* A thread that was started comes to an end: leaving the pool waits for
\* workers, and no worker waits for anybody.
RunsEnd ==
  \A r \in Runs :
    phase[r] = "posted" ~> phase[r] \in {"ended", "aborted", "refused"}

-----------------------------------------------------------------------------
(* Why it holds: the inductive invariant behind the properties above.      *)

\* A future that is done has left its traces in the store, and what run_all
\* has taken is done.
FuturesInv ==
  \A r \in Runs, t \in Tickets :
    /\ t \in taken[r] => work[r][t].at = "done"
    /\ work[r][t].at = "burying" => <<r, t>> \in dlq
    /\ work[r][t].at = "done" =>
         /\ work[r][t].status # None
         /\ stored[t] # None
         /\ work[r][t].status = "failed" => <<r, t>> \in dlq

NotCollecting == {"absent", "posted", "entering", "clearing", "ended",
                  "aborted", "refused"}

\* Futures are taken between clearing the results and the end of the run, all
\* of them before `complete'; those of the last run to clear are still there.
CollectInv ==
  \A r \in Runs :
    /\ phase[r] \in NotCollecting => taken[r] = {}
    /\ phase[r] = "exporting" => taken[r] = Tickets
    /\ owner = r => \A t \in taken[r] : results[t] # None
=============================================================================
