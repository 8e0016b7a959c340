-------------------------------- MODULE Store --------------------------------
(***************************************************************************)
(* The durable store (storage/store.py): four tables behind one connection *)
(* and one lock.  A method is one critical section, so its statements are  *)
(* one step here, except idempotent(), which runs produce() between two.   *)
(* An INSERT opens a transaction; if its commit fails the transaction may  *)
(* stay open, and its rows are written by whoever commits next.  A crash   *)
(* loses what is not committed.                                            *)
(***************************************************************************)
EXTENDS Naturals, FiniteSets

CONSTANTS
  Clients,    \* threads that use the store
  TicketIds,  \* ticket ids
  Keys,       \* idempotency keys
  MaxRows     \* bound: rows written and results produced

ASSUME StoreAssumption == MaxRows \in Nat

\* Rows and results are told apart by a serial number; 0 stands for no row.
Serials == 1..MaxRows
NoRow == 0
RowOrNone == Serials \cup {NoRow}

\* `journal' is actions and dead_letter, where rows are only ever added.
Tables == [tickets: [TicketIds -> RowOrNone], journal: SUBSET Serials,
           keys: [Keys -> RowOrNone]]

VARIABLES
  open,    \* the tables as the connection sees them
  disk,    \* the tables as committed
  serial,  \* rows and results so far
  at,      \* where a thread is in idempotent()
  key,     \* the key it was called with
  made,    \* what produce() returned to it
  acked    \* history: journal rows and last ticket rows whose call returned

callVars == <<at, key, made>>
storeVars == <<open, disk, serial, callVars, acked>>

StoreTypeOK ==
  /\ open \in Tables
  /\ disk \in Tables
  /\ serial \in 0..MaxRows
  /\ at \in [Clients -> {"out", "producing", "storing"}]
  /\ key \in [Clients -> Keys]
  /\ made \in [Clients -> RowOrNone]
  /\ \A c \in Clients : at[c] = "storing" => made[c] \in Serials
  /\ acked \in [tickets: [TicketIds -> RowOrNone], journal: SUBSET Serials]

\* _init_schema on a new file.
StoreInit ==
  /\ open = [tickets |-> [t \in TicketIds |-> NoRow], journal |-> {},
             keys |-> [k \in Keys |-> NoRow]]
  /\ disk = open
  /\ serial = 0
  /\ at = [c \in Clients |-> "out"]
  /\ key \in [Clients -> Keys]
  /\ made = [c \in Clients |-> NoRow]
  /\ acked = [tickets |-> [t \in TicketIds |-> NoRow], journal |-> {}]

-----------------------------------------------------------------------------

NextSerial == /\ serial < MaxRows
              /\ serial' = serial + 1

\* Mutant: execute without commit.
ExecuteOnly(tables) == open' = tables /\ UNCHANGED disk

\* execute and commit: everything the transaction holds is written.
Commit(tables) == open' = tables /\ disk' = tables

\* The commit fails and the call raises: the transaction stays open, or
\* SQLite rolls it back with all it held.
CommitFails(tables) == /\ open' \in {tables, disk}
                       /\ UNCHANGED <<disk, acked>>

\* save_ticket: the row of a ticket is replaced.
SaveTicket(t) ==
  LET tables == [open EXCEPT !.tickets[t] = serial + 1] IN
  /\ NextSerial
  /\ \/ /\ Commit(tables)
        /\ acked' = [acked EXCEPT !.tickets[t] = serial + 1]
     \/ CommitFails(tables)
  /\ UNCHANGED callVars

\* record_action and add_to_dlq: a row is added.
AddRow ==
  LET tables == [open EXCEPT !.journal = @ \cup {serial + 1}] IN
  /\ NextSerial
  /\ \/ /\ Commit(tables)
        /\ acked' = [acked EXCEPT !.journal = @ \cup {serial + 1}]
     \/ CommitFails(tables)
  /\ UNCHANGED callVars

\* idempotent(): a result the connection sees, one of a transaction that is
\* still open included, is returned at once and nothing changes; without one
\* the lock is released and produce() is called.
CallIdempotent(c, k) ==
  /\ at[c] = "out"
  /\ open.keys[k] = NoRow
  /\ key' = [key EXCEPT ![c] = k]
  /\ at' = [at EXCEPT ![c] = "producing"]
  /\ UNCHANGED <<open, disk, serial, made, acked>>

\* Mutant: what produce() returned is lost before it is stored.
ProduceForNothing(c) ==
  /\ at[c] = "producing"
  /\ NextSerial
  /\ at' = [at EXCEPT ![c] = "storing"]
  /\ UNCHANGED <<open, disk, key, made, acked>>

Produce(c) ==
  /\ at[c] = "producing"
  /\ NextSerial
  /\ made' = [made EXCEPT ![c] = serial + 1]
  /\ at' = [at EXCEPT ![c] = "storing"]
  /\ UNCHANGED <<open, disk, key, acked>>

Leave(c) == /\ at' = [at EXCEPT ![c] = "out"]
            /\ made' = [made EXCEPT ![c] = NoRow]
            /\ UNCHANGED <<serial, key>>

ProduceRaises(c) ==
  /\ at[c] = "producing"
  /\ Leave(c)
  /\ UNCHANGED <<open, disk, acked>>

\* Mutant: INSERT OR REPLACE.
Replacing(c) == [open EXCEPT !.keys[key[c]] = made[c]]

\* INSERT OR IGNORE: the first result stays.
Inserting(c) ==
  [open EXCEPT !.keys[key[c]] = IF @ = NoRow THEN made[c] ELSE @]

\* The caller gets its own result, whichever is stored.
StoreResult(c) ==
  /\ at[c] = "storing"
  /\ \/ Commit(Inserting(c)) /\ UNCHANGED acked
     \/ CommitFails(Inserting(c))
  /\ Leave(c)

\* The process dies and is started again: _init_schema keeps what is there.
Crash ==
  /\ open' = disk
  /\ at' = [c \in Clients |-> "out"]
  /\ made' = [c \in Clients |-> NoRow]
  /\ UNCHANGED <<disk, serial, key, acked>>

StoreNext ==
  \/ \E t \in TicketIds : SaveTicket(t)
  \/ AddRow
  \/ \E c \in Clients : \/ \E k \in Keys : CallIdempotent(c, k)
                        \/ Produce(c)
                        \/ ProduceRaises(c)
                        \/ StoreResult(c)
  \/ Crash

StoreSpec == StoreInit /\ [][StoreNext]_storeVars

-----------------------------------------------------------------------------

\* What a caller was told is written survives failed commits and crashes: an
\* acknowledged row is on disk, and a ticket's row is the one acknowledged
\* last or a later one.
AcknowledgedSurvives ==
  /\ acked.journal \subseteq disk.journal
  /\ \A t \in TicketIds : acked.tickets[t] <= disk.tickets[t]

\* The first result that reaches the disk is the key's result for ever, also
\* when calls with one key overlap and each returns a result of its own.
FirstResultStays ==
  [][\A k \in Keys : disk.keys[k] # NoRow => disk'.keys[k] = disk.keys[k]]_storeVars

\* Why it holds: whatever is on disk the connection sees too, so that a
\* commit never takes anything back.
StoreInv ==
  /\ AcknowledgedSurvives
  /\ disk.journal \subseteq open.journal
  /\ \A t \in TicketIds : disk.tickets[t] <= open.tickets[t]
  /\ \A t \in TicketIds : open.tickets[t] <= serial
  /\ \A k \in Keys : disk.keys[k] # NoRow => open.keys[k] = disk.keys[k]
=============================================================================
