------------------------------ MODULE Restart ------------------------------
(***************************************************************************)
(* The process dies and is started again.  The order table, the logs, the  *)
(* approval queue, every ticket's state and the audit trails live in       *)
(* memory; the rows of the actions table do not (storage/store.py).  The   *)
(* next run takes up every ticket of tickets.json again.                   *)
(***************************************************************************)
EXTENDS Resolver

CONSTANT MaxRestarts  \* bound: times the process dies

VARIABLE restarts

restartVars == <<vars, restarts>>

RestartInit == ResolverInit /\ restarts = 0

\* tools.impls loads the order data anew, Store opens the same file, and the
\* orchestrator knows of no earlier run.
Crash ==
  /\ restarts < MaxRestarts
  /\ restarts' = restarts + 1
  /\ confidence' \in [Tickets -> Confidences]
  /\ elig' = [t \in Tickets |-> [o \in OrderArgs |-> NoCheck]]
  /\ recorded' = [t \in Tickets |-> 0]
  /\ pc' = [t \in Tickets |-> "idle"]
  /\ call' = [t \in Tickets |-> NoCall]
  /\ attempt' = [t \in Tickets |-> 0]
  /\ result' = [t \in Tickets |-> "none"]
  /\ hitlLen' = [t \in Tickets |-> 0]
  /\ hitl' = << >>
  /\ refunded' = AlreadyRefunded
  /\ refundLog' = << >>
  /\ refundLock' = NoTicket
  /\ replies' = [t \in Tickets |-> 0]
  /\ escalations' = [t \in Tickets |-> 0]
  /\ phase' = [t \in Tickets |-> "llm"]
  /\ iter' = [t \in Tickets |-> 0]
  /\ left' = [t \in Tickets |-> 0]
  /\ tally' = [t \in Tickets |-> NoTally]
  /\ audit' = [t \in Tickets |-> << >>]
  /\ report' = [t \in Tickets |-> NoReport]
  /\ UNCHANGED actions

RestartNext == (ResolverNext /\ UNCHANGED restarts) \/ Crash

RestartSpec == RestartInit /\ [][RestartNext]_restartVars

-----------------------------------------------------------------------------

PaidRows(o) ==
  {<<t, i>> \in Tickets \X (1..(MaxCalls * (MaxRestarts + 1))) :
     /\ i \in DOMAIN actions[t]
     /\ actions[t][i].tool = "issue_refund"
     /\ actions[t][i].order = o
     /\ actions[t][i].result = "success"}

\* store.py:11 "keyed results, so a retried irreversible action is not applied
\* twice": over the whole life of the database no order is paid
\* back twice.
PaidOnceEver == \A o \in Orders : Cardinality(PaidRows(o)) <= 1
=============================================================================
