# ShopWave resolver: TLA+ models, checks and proofs

This directory is the verification development of the ticket-resolution system in
`src/`: a thread pool hands every customer ticket to an LLM agent, the agent
proposes tool calls, and a deterministic policy layer decides which of them run.
The modules here say what that machinery promises when the LLM may propose
anything, threads interleave freely and every fallible step fails at will.

## 1. The system

| Part | State it keeps | Operations |
|---|---|---|
| Policy rules, `policy/rules.py`, `policy/engine.py` `evaluate` | none (thresholds) | six rules; the strongest objection wins |
| Guard, `policy/engine.py` `guard` | none of its own | verdict, then deny / enqueue / execute, then record |
| Ticket state, `core/schemas.py` `TicketState` | calls of one ticket, triage confidence | `record`, `eligibility_result` |
| Approval queue, `policy/hitl.py` | `_items` under a lock | `enqueue`, `all` |
| Resilient execution, `tools/resilient.py` | retry budget of one call | `resilient_execute`, `is_transient` |
| Tools, `tools/impls.py` | `ORDERS`, `refund_log`, `reply_log`, `escalation_log`, `_refund_lock`, `_log_lock` | eight tools, `execute_tool`, `_maybe_fail` |
| Resolver, `agents/resolver.py` | messages, audit trail, counters of one ticket | `run`, `_self_confidence` |
| Health monitor, `monitoring/health.py` | none | `assess` |
| Orchestrator, `app/orchestrator.py` | `_results`, `_subscribers`, `_running`, a thread pool | `run_all`, `_process_one`, `broadcast`, export |
| Store, `storage/store.py` | SQLite: tickets, actions, dead letters, idempotency keys | `save_ticket`, `record_action`, `add_to_dlq`, `idempotent` |
| Rate limiter, `core/rate_limiter.py` | two token buckets, each with a condition | `acquire` |
| LLM client, `core/llm_client.py` | none | `chat` (attempts and backoff), `chat_json`, the scripted agent of offline mode |
| Reader, classifier, `agents/` | none | text to parsed ticket and confidence |
| Web server, `app/server.py`; dashboard, `static/app.js` | subscriber queues, `_evaluations`; the page's `processing` flag | process, evaluate, stream, results |
| Evaluation harness, `evals/` | none | offline pipeline, trail metrics, the gate that fails the build |
| Telemetry, `core/telemetry.py` | spans per ticket id under a lock, never emptied | `trace`, `span` |
| MCP server, `mcp_server/server.py` | one `TicketState` and one engine per process | `_call`: writes through `guard`, reads around it |
| Calibration, `monitoring/calibration.py` | none | statistics over finished results |

How they interact: `POST /api/process` starts `run_all` in a thread; it submits
one `_process_one` per ticket to the pool; each runs reader, classifier and
`ResolverAgent.run`, which calls the LLM (behind the rate limiter) and sends each
proposed call through `guard`. Tickets share the order table, the logs, the
approval queue, the two locks, the store and the subscriber list; everything else
is private to a ticket. The LLM is not trusted: whatever is safe must be so
because of `guard` and the tools.

What is hard here, and where (`hazards` in PROJECT.json lists each at its line):

- interleavings: two tickets about one order inside `issue_refund`; the
  approval queue's length read before its lock; the eligibility a ticket
  remembers and another ticket's refund makes stale;
- failure: a tool that fails transiently and is retried, arguments that raise
  inside `guard`, a store write that fails after the tool has acted, a commit that
  fails and leaves its transaction open, an LLM that stops answering;
- accounting: counters, trail, trace, committed rows and effects are five records
  of one history, and the status and health of a ticket are computed from two of
  them;
- waiting: a condition nobody notifies, woken only by a timeout each thread
  computes for itself, while others take from the same bucket;
- ordering of the orchestrator's last steps, a flag tested and set without a
  lock, an event stream opened after the run was started.

## 2. The modules

| Module | Models | How it corresponds |
|---|---|---|
| `Policy` | `policy/rules.py`, `evaluate` | one operator per rule, constants for the thresholds; money in cents, confidence in ten-thousandths |
| `RefundLedger` | nothing in the code: the abstract promise about money | one action, `Pay` |
| `GuardedTools` | `guard` and all behind it, one thread per run of a ticket | `pc[t]` is the place in `guard`; one action per access to shared state |
| `Resolver` | `ResolverAgent.run`, `HealthMonitor.assess`, the fate of a crashed ticket | extends `GuardedTools`; `phase[t]` is the place in `run` |
| `Restart` | death and restart of the process | extends `Resolver` by one action, `Crash` |
| `Telemetry` | `Tracer.span` around the resolver's work | extends `Resolver`; `spans[id]` grows with the step that ends a span |
| `Offline` | the scripted agent of `_mock_chat`, the pipeline and the gate of `evals/` | extends `Resolver`; `ScriptedCall(t)` is what `_mock_chat` returns for the ticket's history |
| `McpServer` | `mcp_server/server.py` | extends `GuardedTools` by `CallRead` and `CallWrite`, one session |
| `RateLimiter` | `TokenBucket`, `LLMRateLimiter`, and `chat` as their caller | `pc[c]` is the bucket a thread is at, or `chat`'s attempts; a clock of seconds |
| `Store` | `storage/store.py` | `open` and `disk` are the tables before and after commit; `at[c]` is the place in `idempotent` |
| `Orchestrator` | `run_all`, `_process_one`, ticket and dead-letter tables, broadcast | a thread per POST and a pool per run; `phase[r]` and `work[r][t].at` are the places in the two functions |
| `Dashboard` | the page's two flags, its event stream, the process/evaluate/stream handlers | extends `Orchestrator`; `page`, `evaluating`, `judge` |
| `GuardedToolsProofs`, `ResolverProofs`, `TelemetryProofs`, `DashboardProofs`, `RateLimiterProofs`, `StoreProofs`, `McpServerProofs`, `OfflineProofs` | theorems | section 4 |
| `MCGuardedTools`, `MCResolver`, `MCOffline`, `MCMcpServer`, `MCRestart`, `MCDashboard`, `MCRateLimiter` | values for the constants | section 3 |

**Policy.** An amount is what `_f` makes of the argument: an integer, `NotNumber`
(`None`) or `NaN`, because `json.loads` accepts that token and `float` keeps it.
`FGreater` is Python's comparison, false whenever a NaN takes part. Confidence is
counted finer than the thousandths it is rounded to, so that rounding can cross a
threshold.

**GuardedTools.** A member `t` of `Tickets` is the thread that processes a ticket,
with its own state; `TicketId[t]` is the id of that ticket. Two runs may overlap (see
`Orchestrator`) and process one id in two threads, so ids need not differ. `Propose` is the entry of `guard`; `Allow`, `Deny`, `Defer`
and `GuardRaises` are its outcomes. `Defer`/`Enqueue` are two steps because
`enqueue` reads `len(self._items)` before it takes the lock; the reference is the
ticket id and that length, and two overlapping runs of one ticket that read the same
length hand out one reference twice. `SharedReferenceMeansOverlap` says that this is
the only way. The retry loop is
`RetryAfterFailure`/`RetriesExhausted`: `_maybe_fail` raises before a tool has
any effect, so a failed attempt changes nothing but the budget. `issue_refund` is
five steps (acquire, reject, accept, mark, log) since each reads or writes shared
data, and the eligibility check reads `refund_status` without the lock, between
any two of them. `Return` is `TicketState.record` at the end of `guard`;
`eligibility_result`'s "latest successful check" is kept as the function `elig`.
`TakeResult` hands the result back to the caller.

**Resolver.** One iteration of the loop is `LlmFails`, `LlmTalks` or `LlmCalls`;
a message has up to `MaxBatch` calls, each `MakeCall`, steps of `GuardedTools`,
then `AfterCall` (counters, trail, committed row, in that order in the code; the
only reader of the three in between is the thread itself). An exception out of
`guard` or `record_action` is `CallRaises` or `RecordActionFails`. `Finish`
computes status, self-confidence and health; a self-confidence halfway between two
thousandths is rounded either way, as the last bit of the float decides. The trail keeps *references*:
`Shown` says what an entry shows when somebody looks, since `get_order` returns
the live order.

**Telemetry.** Each action is one of `Resolver`'s with what it adds to the trace.
A `tool.call` span ends when `guard` has returned, before the call is counted and
its row written, so `ToolCallEnds` holds whether the row can be written or not. Traces
are kept by ticket id and nothing resets them: a thread finds what earlier runs of the
process left (`PastTraces`), and an overlapping run of its ticket writes to the same
trace. A span carries no mark of its run; `by` is kept for the properties alone. The
spans around reader and classifier, which precede the loop, are left out with their
stages, and so are durations, the JSON log and the OpenTelemetry bridge.

**Offline.** The script is stateless: it looks at the messages, which hold every
call made and its result, so it is a function of the ticket's trail and `elig`.
`Script` is the order of its steps, `Wanted(t)` the conditions in front of them, and
`NextTool` the first step that applies and was not proposed before, whatever became
of it; replies and escalations are not guarded by `called`. Failure injection is
zero in the harness (`MaxRetries = 0`), yet tools may still fail in the model.
`Requests` says what a ticket is about: category, the order its text names, the
first order of its customer. The confidence is the mock classifier's.

**McpServer.** Only `_call` is this program's; that argument types are checked and
calls come one after another is how the protocol library is used. The session record
outlives a conversation, its confidence is the default 1.0 (the low-confidence gate
never stops anything here), and reads do not meet the rules. What is shown is that
none of this leaves the guarded tools: a session is one ticket of `GuardedTools`.

**RateLimiter.** Levels are counted in shares of `1/Minute` token, so that the
refill per second is the integer `Limit` and nothing is rounded, except a wait, which
ends at the tick after the refill. `Take` and `Sleep` are the two ways through the
loop of `acquire`; a sleeper's timeout is its own, since nobody notifies the
condition. The request is taken before the tokens are waited for. `CallSucceeds`,
`CallFails` and `ChatRaises` are the attempts of `chat`, which reserves once whatever
their number: the limiter bounds the *messages*, not the requests, so a full bucket,
a minute of refill and three attempts each can exceed the limit of the provider,
which the models bound (`RateBounded`) and do not deny.

**Store.** `Resolver` and `Orchestrator` keep the rows they need for their own
properties; `Store` is the class by itself, with what they leave out: a failed commit
may leave the transaction open on the shared connection, so its rows appear with
somebody else's commit, or vanish with the process. A row or a result is a serial
number. `idempotent` has no caller in the program; it is modelled as the interface it
offers to several threads, and the one thing said of it is that a result once on disk
is never replaced. It does *not* keep a retried action from being applied twice, see
the end of section 3.

**Restart.** `Crash` puts every variable back to what importing the modules anew
gives it, and leaves the rows of the actions table alone: the order data is read
from `orders.json`, which nothing writes.

**Orchestrator.** `run_all` is `TestRunning`, `SetRunning`, `ClearResults`,
`Collect`/`CollectRaises` per future, `AnnounceComplete` or `SummaryFails`, and
`LowerFlag` (the `finally`). Testing and setting the flag are two steps because no
lock is held, so two runs may overlap. Leaving the `with` block of the pool waits
for its workers, also when a future raised: that is the phase `draining`.
`_process_one` is `StartTicket`, then `SaveTicket` or the handler of a crashed
ticket in two writes, `AddToDlq` and `SaveFailed`, each of which may fail. The
order in which a worker takes tickets is left open. How a ticket is resolved is
not repeated here: resolver, reader and classifier return or raise, and the three
statuses a returned ticket may have are one, `handled`.

**Dashboard.** The page's flag `state.processing` is `page # "idle"`; the values in
between are the awaited POST, the answered POST before the stream is open, the open
stream, and the two seconds after it broke. The queue keeps the two events after
which the page does something else, `complete` and `eval_complete`; a broadcast is
one step because the page is the only reader of its queue.

Abstractions, in every module: texts, prompts, timestamps and the content of
messages are dropped; a lookup other than `get_order` may find or miss; the
backoff between retries is time and is left out. The retry loop decides by the
error text: the texts of the tools contain no transient marker themselves but some
quote an id or query of the LLM, so an id that contains a word like "timeout" would
be looked up again. The model leaves that repetition out; it has no effect beyond
time, because a tool that returns an error has changed nothing.

## 3. What TLC checks

| Run | Question | States |
|---|---|---|
| `guarded_tools` | Two threads of one ticket id compete for three orders: is every refund authorised, single and logged, every refused one paid to somebody, every queued one vetted, does every call come back, and do the tools implement `RefundLedger`? | 159,798 |
| `resolver` | One traced ticket, with and without spans of an earlier run, seven kinds of call: do status, health, rows and spans agree with what happened to the customer wherever the ticket fails, does every step bring it closer to its end, and does every ticket end? | 432,864 |
| `offline` | Two scripted tickets of seven kinds on shared orders, any step failing: does the script end without repeating itself, is an owed refund delivered, does the gate hold? | 1,610,131 |
| `mcp` | Is a session over MCP a behaviour of the guarded tools? | 4,235 |
| `orchestrator` | Two tickets, two POSTs, every write failing at will: has a run that says `complete` lost anything, and is the flag ever left up? | 1,043,695 |
| `dashboard_live` | Does every run end, and does a page that listens become usable again? | 22,859 |
| `rate_limiter` | Two threads, messages below and above the bucket, attempts that fail: are the buckets' bounds kept, does nobody oversleep, does `chat` always come back? | 237,355 |
| `store` | Two threads, two keys, failing commits, crashes: is what was acknowledged still there, and the first result of a key? | 458,902 |

Bounds, and why they are enough. Two tickets are the fewest that interleave, and
every hazard above is between two. `MCGuardedTools` has an order below the
auto-approval limit, one above it and one repaid before the run, calls that check
and refund each, one that asks too much and one that makes `guard` raise; three calls
per ticket are a check, a refund, and a second refund or a check made stale by the
other ticket. The two threads process one ticket id, the case in which references can
be equal; distinct ids only make them differ more, and the theorems are about any.
Confidences are one value on each side of the threshold; in `resolver` the lower one,
0.5996, is rounded up to the threshold by a ticket that needed no correction.
`MaxRetries = 1` distinguishes the first attempt, the retry and the exhausted budget.
In `resolver`, three iterations with up to two calls reach the nudge, the stop, the
exhausted loop and the cap (`IterationCap = 4 = MaxCalls`). It has one ticket: what
others do to it (a refund they made first, a lock they hold, spans they add) is in no
state of this run. Its invariants and `EveryStepCounts` are proved for any number of
tickets; `TicketsSettle` is checked for one, where it says that the loop, the batches,
the retries and a ticket's own use of the lock come to an end. That a thread gets the
lock when others compete for it is `CallsReturn`, checked with two threads inside
`guard`. `offline` takes the two tickets
instead: seven requests, each of a different way through the script, in every
pair, with the code's own twelve iterations; tickets are symmetric, and the run
checks no liveness. `mcp` makes four calls: a check, a refund, a second one and a
reply. `rate_limiter` has a minute of three seconds, two requests and three tokens, messages
of one token and of more than the bucket holds, two attempts each, and three messages
for two threads, so that one of them waits behind both others. `store` has room for five rows
and results: two callers of one key, a ticket row replaced, and a failed commit
picked up by another.
Bounds that are not in the code: `MaxCalls` (calls of a ticket), `MaxBatch` (calls
in a message), `MaxChats` and `Horizon` (messages sent, and when an idle clock
stops), `MaxRows` and, in `Restart`, `MaxRestarts`.

`MCDashboard` has two POSTs, the fewest whose runs overlap, and two tickets for a
pool of one worker, so that one future waits while another fails; a thread ends
with its run, so `Runs` bounds how often processing is started. `dashboard_live`
has one ticket: liveness concerns the order of POST, subscription and `complete`,
not how tickets share a pool.

Deadlock is not checked anywhere: a ticket, a run, an idle page, a thread that has
sent its messages and a store without room for rows have nothing more to do.

Fairness. `FairSpec` asks weak fairness of each thread *inside* `guard` and
nothing of the LLM. It does not ask a tool to fail either: a thread that waits for
the refund lock must not be rescued by a transient failure it could have had before
(`Proceed` is fair, `ToolFails` is not), or a lock that is never released would go
unnoticed. `TracedFairSpec` does the same for each ticket's thread: the pool has a worker per running ticket, `chat` gives up after three
attempts and then raises, so the LLM's turn ends too. The refund lock needs no
strong fairness for a ticket to end, because holders are finitely many.
`RateFairSpec` asks that time passes and that an awake thread runs, nothing of the
provider: an attempt succeeds or fails as it likes, and ends. A thread woken in vain
sleeps again; that it is not outrun for ever follows in the model from the bound on
messages, and in the program from a finite batch of tickets.
`DashFairSpec` asks that the server as a whole does not stop while one of its
threads can go on (`Serve`), and that the page's event loop runs (`PageReacts`);
it does not ask for clicks or for a broken stream. The code has no loop between
threads, so weak fairness of the disjunction is enough for each of them to end.

What the liveness properties do *not* say: `PageHearsComplete` excludes the run
that is aborted, because `run_all` sends no event then, and starts from a page that
listens while the run is collecting. A page whose stream is opened after `complete`
was sent waits for ever (until its connection breaks); nothing in the code or its
documents promises otherwise, so this is recorded as a hazard and not as a finding.

### Where code and text disagree

Four runs state what a comment or document says and TLC shows the code does
otherwise (`findings` in PROJECT.json quotes each line):

- `nan_amount`: a refund of NaN passes every amount rule and is executed.
- `export_alias`: `audit_log.json` shows an early `get_order` with the
  `refund_status` of the end of the ticket; the committed row differs.
- `restart_refund`: after a restart the same ticket is processed again and the
  same order refunded again; the idempotency table that is meant to prevent it has
  no caller.
- `evaluation_unheard`: the page asks for the evaluation after it closed its event
  stream, so `eval_complete` reaches nobody and the button stays busy.

More disagreements are visible in the modules and have no run of their own.

Arguments that are JSON but no object make `guard` raise (`GuardRaises`) and end the
ticket, where `failure_modes.md:63` promises a clean error; what such an end leaves
behind is what `EffectsAccounted` and `EffectsTraced` are about. And a reply or an
escalation that was allowed but failed still ends the loop (`AfterCall`), although
`resolver.py:123` says that it counts only if it executed; `StatusMatchesEffects`
says what is then reported.

`telemetry.py:12-13` says that "the recorded spans ARE the audit trail" and
`audit_log.json` "a derived export of the trace" (`architecture.md:63-65` likewise). The
file is dumped from the
results of the run (`orchestrator.py:168`), and after a second run of one process, or
while two overlap, a trace holds the spans of both beside the trail of one. What is true
of the sentence, and what `TraceShowsTrail` says, is that the spans *one run adds* show
its trail.

`store.py:10-11` and `architecture.md:60` promise that a retried irreversible action is
not applied twice. `idempotent` produces again when the commit of the first result
failed, when the process died between `produce()` and the insert, when the result it
returned to another caller was still uncommitted and is lost in a crash, and when two
calls with one key overlap; all of these are behaviours of `Store` (`CallIdempotent`,
`Produce`, `StoreResult`). And nothing in the program calls it, which is what
`restart_refund` shows the consequence of.

`failure_modes.md:41` and `rate_limiter.py:14` promise requests and tokens below the
provider's ceiling. A bucket that starts full and refills while it is drained lets
nearly twice the limit through in the first minute, and the retries of `chat` reserve
nothing. `RateBounded` is the bound the code keeps, burst and refill, and not the
promised one.

`health.py` degrades what is below 0.6, but `resolver.py:165` has rounded the
self-confidence to three decimals before: a ticket triaged with 0.5996, under the
policy's `LOW_CONFIDENCE_THRESHOLD`, is reported as 0.6 and healthy.
`HealthyMeansHandled` allows this half thousandth and no more.

## 4. What is proved

For every number of tickets, orders, calls and every value of the thresholds,
under the `ASSUME`s of the modules (`PolicyAssumption`, `GuardAssumption`,
`TicketIdAssumption`, `ResolverAssumption`, `TraceAssumption`, `OrchestratorAssumption`,
`RateAssumption`, `StoreAssumption`, `SessionAssumption`, `OfflineAssumption`: constants
have their types, markers are no numbers, runs or statuses, a session is one ticket with
confidence one, spans of earlier runs are no thread's). Which threads share a ticket id
is arbitrary. The
theorems about money also assume `NumbersOnly`: no proposed call carries the
amount NaN. Without it they are false, which is the finding `nan_amount`.

- `GuardedToolsProofs`: what an allowed refund, a deferred refund and any other
  tool's verdict imply (`AllowedRefund`, `DeferredRefund`, `OtherToolsAllowed`);
  `TypeCorrect`, `LockExclusion`, `VettingCorrect`,
  `LedgerCorrect`, `ReferencesTellApart` (`SharedReferenceMeansOverlap`), and from them
  `NoDoubleRefund` (`RefundsMatchOrders`), `RefusalsHavePayments` (`RefusedMeansPaid`),
  `RefundsVetted` (`RefundsAuthorised`), `QueueVetted` (`QueuedRefundsVetted`) and `ToolsImplementLedger`: `GuardedTools` implements
  `RefundLedger`.
- `ResolverProofs`: `ResolverDrivesTools`, every behaviour of the resolver is one
  of `GuardedTools`, so its theorems carry over (`ResolverNoDoubleRefund`,
  `ResolverRefundsVetted`, `ResolverQueueSound`); `ResolverTypeCorrect`; `NoViolationEver`, the
  evaluation gate's invariant that no trail holds a refund without an earlier
  check of that order; `EveryEffectHasItsRow` (`EffectsAccounted`); `StatusIsTrue`
  (`StatusMatchesEffects`); and `HealthIsTrue` (`HealthyMeansHandled`), which assumes
  `LowConfidenceThreshold <= 6000`, the 0.6 below which `assess` degrades a ticket.
  Then a healthy ticket was triaged at the threshold, or half a thousandth below it;
  one that policy stepped in for needs 0.8564 to be healthy at all, so its triage was
  not in doubt. `TrailIsTrue`: no trail claims a check or a refund that did not take
  place. `NothingGoesOnForEver` (`EveryStepCounts`): every step uses up what one
  ticket has left to do.
- `TelemetryProofs`: `TracingObserves`, the traced resolver implements the resolver,
  so all of the above holds while traced; `TraceIsTheTrail` (`TraceShowsTrail`) and
  `EveryEffectIsTraced` (`EffectsTraced`).
- `OfflineProofs`: `ScriptIsAnLlm`, the offline pipeline implements the resolver, so
  `OfflineNoViolation` follows for every data set; `EveryScriptEnds` (`ScriptEnds`),
  `EveryRefundDelivered` (`RefundDelivered`) and `GateCannotFail` (`GateHolds`). The
  last three assume `5 < MaxIter`: the script has five steps before a terminal one,
  and the code's bound is twelve; the gate also that `Tickets` is finite, being a list.
- `McpServerProofs`: `SessionIsATicket` (`IdenticalGuardrails`), and from it
  `SessionNoDoubleRefund` and `SessionRefundsVetted`.
- `RateLimiterProofs`: `RateTypeCorrect`, `WindowBound` (`RateBounded`) and
  `NobodyOversleeps` (`NoLostWakeup`), for every limit, cost and number of threads.
- `StoreProofs`: `StoreTypeCorrect`, `AcknowledgedRowsSurvive` and `ResultsAreFinal`.
- `DashboardProofs`, about server and page together, for every number of tickets,
  runs and workers: `DashTypeCorrect`; `FlagNeverStuck` (`RunningMeansBusy`);
  `CompleteIsDurable` (`CompletedMeansDurable`) and `CompleteIsAll`
  (`CompleteMeansAllIn`), both from `AccountsKept`.

The argument. `RefundsAuthorised` is not inductive: it talks about the log, and a
refund is decided long before it is logged, on data that may be stale. The
strengthening `VettingInv` says what remains true in between: a remembered
eligibility is wrong at most about `refund_status`, never about the terms or the
amount (`EligSound`, since terms and prices never change); a call that is running
or inside the lock is `Automatic`, one being enqueued is `ForHuman`. That
`refund_status` may be stale is harmless because of the second test under the
lock: `LockInv` (the lock is held exactly by the ticket inside `issue_refund`) and
`LedgerInv` (marked orders are those logged, repaid beforehand, or in the one
ticket between marking and logging) give single refunds. `IdsInv` says that a queue
entry's number is at most its place, and that a thread's own entries are all counted in
the length it read: so a second request of one thread has a higher number than its
first, and two equal references mean two threads with one ticket id, of which the later
to append had read the length while the other's request was not yet in.
`RefusedMeansPaid` is about the loser of two refunds. `OpenInv` says that an order repaid
before the run is never found eligible and never gets as far as the lock; so one that a
thread finds marked there was marked by another thread, which logged it before it left
the lock (`LedgerInv`): who is refused finds the payment in the log.
`TrailInv` relates the ticket's `elig` to its own trail, the only place the
evaluation looks.

In `DashboardProofs` the properties speak of the moment a run says `complete`, and
must be prepared while it collects: `FuturesInv` says that a finished future has
left its row, and its dead letter if the ticket failed (rows are only ever
replaced, so an overlapping run cannot undo this); `CollectInv` says that what a run
has taken is finished, that `complete` needs all of it, and that the last run to
clear the results map still finds there what it put in. `RunningMeansBusy` is
inductive by itself. The steps of the page change nothing the server keeps, which
`PageLeavesServer` states once.

In `ResolverProofs` the properties about effects are about the end of a ticket and
need what holds in the middle of a batch. `AccountInv`: the rows of a live ticket
show every effect but the one that is being noted (`Unnoted`), and when it fails one
row at most stays missing. `ReportInv`: counters, trail and effects agree wherever
the loop is, and the report is the one computed from them; `ResultsInv` says which
results a call can have at each place of `guard`. `StatusIsTrue` and `HealthIsTrue`
then only concern what `Finish` computes.

`ScriptInv` counts: a live ticket has as many trail entries as different tools
called, none of them terminal, and the loop's counter is that number; `FewSteps` bounds
it by five. `BudgetInv` says of each grant that what was handed out since, and what is
still there, fits into what the bucket could hold then and was credited since;
`SleepInv` that a tick before its timeout a sleeper's bucket would be short even if
nobody else took from it, and others only take. `StoreInv` says that whatever is on
disk the connection sees too, so that no commit takes anything back.

The trace is a second record of the loop, with spans (retries, answers of the LLM)
that stand for no entry, and spans of other runs, which `OthersMatch` sets aside.
`TraceStep` shows that a step either appends an entry and
one span that tells of it, or leaves the trail and adds only spans that tell of none;
`StepsGrow` then counts the telling spans, and `MatchKept` says that the pairs found
so far stay pairs. `EffectSpans` strengthens `EffectsTraced` to the middle of a run:
the spans of a tool and its one effect not yet noted (`Unnoted`) account for all
effects, and stay so when the row of the call is lost.

`RefundDelivered` is about the end of a ticket whose order other tickets may refund
at any time. `CheckedInv` turns what a ticket remembers into what is so: an order that
may be refunded was found eligible, or is refunded by now. `TrailTrue` does the same
for its trail: an entry without an error means that the check is remembered, that the
refund was made or waits for a human. Both only need that refunds and
queue entries are never taken back (`ServedForGood`). `DeliveryInv` says what the
script does with it: all checks and refunds of a ticket are about one order
(`OrderSettled`: the customer is looked up first, so the order does not change under
the script), and the terminal call is proposed only when every other step that applies
was taken (`NextToolFound`). `GateHolds` puts together `ScriptInv` (the last entry is
the terminal one), `ReportInv` (the report is read off the trail) and `NoViolationEver`.

`EveryStepCounts` is what termination rests on, without fairness: `LeftOf` bounds the
steps a ticket has left (iterations to come with a message full of calls each, calls
waiting, steps and retries of the call in progress), and every step, failures
included, lowers it for one ticket and changes it for no other. A ticket can
therefore only stop short of its end by not being scheduled or by waiting for the
refund lock, whose holder (`LockInv`) is inside `issue_refund` and waits for nothing.

Only model-checked: liveness (`CallsReturn`, `TicketsSettle`, `RunsEnd`,
`PageHearsComplete`, `ChatsReturn`), for which the prover lacks `ENABLED` and
therefore fairness. Every invariant and every other action or temporal property of a
passing run is a theorem.

## 5. Not modelled, and the plan

Not modelled, and staying so:

- prompts and tool schemas: text for an LLM that may answer anything;
- reader and classifier beyond what they hand on (order id, category, confidence):
  regular expressions and text cleaning;
- calibration, the classification scores and the judge: arithmetic over finished
  results, and text;
- the page's presentation, packaging, and reading the environment. `runner.py:140`
  sets `OFFLINE_MODE` after the settings were frozen, so the harness is offline only
  where no key is present, as in CI: that is the harness `Offline` models;
- the merge of evaluations into the results (`server.py:104-105`): evaluations are
  kept by ticket id across runs, so a result may show that of an earlier run, and the
  merge may change a dict while the export dumps it. No text of the repository says
  which evaluation a result should show or what a broken export leaves, so there is
  nothing to check the code against; both stay listed as hazards.

Left to do:

1. A composition in which the ticket of `Orchestrator` is the ticket of `Resolver`:
   `handled` implemented by `finished`, `failing` by `failed`, so that what a
   dashboard shows as complete rests on what the resolver did.
2. The safety half of the other liveness properties, as `EveryStepCounts` is for
   `TicketsSettle`: a bound on the steps a run and a call of `chat` have left.
