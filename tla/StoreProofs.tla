----------------------------- MODULE StoreProofs -----------------------------
(***************************************************************************)
(* Proofs about the durable store, for any number of threads, tickets,     *)
(* keys and rows.                                                          *)
(***************************************************************************)
EXTENDS Store, TLAPS


\* The tables after an INSERT are well typed and contain what was there.
LEMMA InsertingTyped ==
  ASSUME StoreTypeOK, NEW c \in Clients, at[c] = "storing"
  PROVE  Inserting(c) \in Tables
<1>1. made[c] \in RowOrNone /\ key[c] \in Keys
  BY DEF StoreTypeOK
<1>2. open \in Tables
  BY DEF StoreTypeOK
<1> QED
  BY <1>1, <1>2 DEF Inserting, Tables

LEMMA NewRowTyped ==
  ASSUME StoreTypeOK, NextSerial
  PROVE  /\ serial + 1 \in Serials
         /\ serial' \in 0..MaxRows
         /\ \A t \in TicketIds : [open EXCEPT !.tickets[t] = serial + 1] \in Tables
         /\ [open EXCEPT !.journal = @ \cup {serial + 1}] \in Tables
<1>1. serial + 1 \in Serials /\ serial' \in 0..MaxRows
  BY StoreAssumption DEF StoreTypeOK, NextSerial, Serials
<1>2. open \in Tables
  BY DEF StoreTypeOK
<1>3. \A t \in TicketIds : [open EXCEPT !.tickets[t] = serial + 1] \in Tables
  BY <1>1, <1>2 DEF Tables, RowOrNone
<1>4. [open EXCEPT !.journal = @ \cup {serial + 1}] \in Tables
  BY <1>1, <1>2 DEF Tables
<1> QED
  BY <1>1, <1>3, <1>4

LEMMA StoreTypeStep == StoreTypeOK /\ [StoreNext]_storeVars => StoreTypeOK'
<1> SUFFICES ASSUME StoreTypeOK, [StoreNext]_storeVars PROVE StoreTypeOK'
  OBVIOUS
<1>1. ASSUME NEW t \in TicketIds, SaveTicket(t) PROVE StoreTypeOK'
  <2>0. /\ NextSerial
        /\ [open EXCEPT !.tickets[t] = serial + 1] \in Tables
        /\ serial' \in 0..MaxRows
    BY <1>1, NewRowTyped DEF SaveTicket
  <2>1. /\ open' \in Tables /\ disk' \in Tables /\ serial' \in 0..MaxRows
    BY <1>1, <2>0 DEF SaveTicket, Commit, CommitFails, StoreTypeOK
  <2>2. acked' \in [tickets: [TicketIds -> RowOrNone], journal: SUBSET Serials]
    BY <1>1, NewRowTyped DEF SaveTicket, CommitFails, StoreTypeOK, RowOrNone
  <2> QED
    BY <1>1, <2>1, <2>2 DEF SaveTicket, CommitFails, callVars, StoreTypeOK
<1>2. CASE AddRow
  <2>1. /\ open' \in Tables /\ disk' \in Tables /\ serial' \in 0..MaxRows
    BY <1>2, NewRowTyped DEF AddRow, Commit, CommitFails, StoreTypeOK
  <2>2. acked' \in [tickets: [TicketIds -> RowOrNone], journal: SUBSET Serials]
    BY <1>2, NewRowTyped DEF AddRow, CommitFails, StoreTypeOK
  <2> QED
    BY <1>2, <2>1, <2>2 DEF AddRow, CommitFails, callVars, StoreTypeOK
<1>3. ASSUME NEW c \in Clients, NEW k \in Keys, CallIdempotent(c, k) PROVE StoreTypeOK'
  BY <1>3 DEF CallIdempotent, StoreTypeOK
<1>4. ASSUME NEW c \in Clients, Produce(c) PROVE StoreTypeOK'
  <2>1. serial + 1 \in Serials /\ serial + 1 \in RowOrNone /\ serial' \in 0..MaxRows
    BY <1>4, NewRowTyped DEF Produce, RowOrNone
  <2> QED
    BY <1>4, <2>1 DEF Produce, StoreTypeOK
<1>5. ASSUME NEW c \in Clients, Leave(c)
      PROVE  /\ at' \in [Clients -> {"out", "producing", "storing"}]
             /\ key' \in [Clients -> Keys]
             /\ made' \in [Clients -> RowOrNone]
             /\ \A d \in Clients : at'[d] = "storing" => made'[d] \in Serials
             /\ serial' \in 0..MaxRows
  BY <1>5 DEF Leave, StoreTypeOK, RowOrNone
<1>6. ASSUME NEW c \in Clients, ProduceRaises(c) PROVE StoreTypeOK'
  BY <1>5, <1>6 DEF ProduceRaises, StoreTypeOK
<1>7. ASSUME NEW c \in Clients, StoreResult(c) PROVE StoreTypeOK'
  <2>1. /\ open' \in Tables /\ disk' \in Tables
        /\ acked' = acked
    BY <1>7, InsertingTyped
       DEF StoreResult, Commit, CommitFails, StoreTypeOK
  <2>2. Leave(c)
    BY <1>7 DEF StoreResult
  <2> QED
    BY <1>5, <2>1, <2>2 DEF StoreTypeOK
<1>8. CASE Crash
  BY <1>8 DEF Crash, StoreTypeOK, RowOrNone
<1>9. CASE UNCHANGED storeVars
  BY <1>9 DEF storeVars, callVars, StoreTypeOK
<1> QED
  BY <1>1, <1>2, <1>3, <1>4, <1>6, <1>7, <1>8, <1>9 DEF StoreNext

\* The tables, the threads inside idempotent() and the histories keep their
\* types.
THEOREM StoreTypeCorrect == StoreSpec => []StoreTypeOK
<1>1. StoreInit => StoreTypeOK
  BY StoreAssumption DEF StoreInit, StoreTypeOK, Tables, RowOrNone
<1> QED
  BY <1>1, StoreTypeStep, PTL DEF StoreSpec

-----------------------------------------------------------------------------
(* What is on disk stays there.                                            *)

\* Tables that hold everything the connection sees, and perhaps more.
Grows(tables) ==
  /\ tables \in Tables
  /\ open.journal \subseteq tables.journal
  /\ \A t \in TicketIds : /\ open.tickets[t] <= tables.tickets[t]
                           /\ tables.tickets[t] <= serial'
  /\ \A k \in Keys : open.keys[k] # NoRow => tables.keys[k] = open.keys[k]

\* Everything of StoreInv but what a step acknowledges, and that no result on
\* disk is replaced.
Kept ==
  /\ acked.journal \subseteq disk'.journal
  /\ \A t \in TicketIds : acked.tickets[t] <= disk'.tickets[t]
  /\ disk'.journal \subseteq open'.journal
  /\ \A t \in TicketIds : disk'.tickets[t] <= open'.tickets[t]
  /\ \A t \in TicketIds : open'.tickets[t] <= serial'
  /\ \A k \in Keys : disk'.keys[k] # NoRow => open'.keys[k] = disk'.keys[k]
  /\ \A k \in Keys : disk.keys[k] # NoRow => disk'.keys[k] = disk.keys[k]

\* The serial numbers of tickets are numbers, to be compared.
LEMMA TicketRowsTyped ==
  ASSUME StoreTypeOK, NEW t \in TicketIds
  PROVE  /\ open.tickets[t] \in Nat /\ disk.tickets[t] \in Nat
         /\ acked.tickets[t] \in Nat
  BY DEF StoreTypeOK, Tables, RowOrNone, Serials, NoRow

\* Writing a transaction that only added rows takes nothing back.
LEMMA CommitKeeps ==
  ASSUME StoreTypeOK, StoreInv, NEW tables, Grows(tables), Commit(tables)
  PROVE  Kept
<1>1. disk' = tables /\ open' = tables
  BY DEF Commit
<1>2. acked.journal \subseteq tables.journal
  BY DEF StoreInv, AcknowledgedSurvives, Grows
<1>3. \A t \in TicketIds : acked.tickets[t] <= tables.tickets[t]
  <2> TAKE t \in TicketIds
  <2>1. tables.tickets[t] \in Nat
    BY DEF Grows, Tables, RowOrNone, Serials, NoRow
  <2>2. /\ acked.tickets[t] <= disk.tickets[t] /\ disk.tickets[t] <= open.tickets[t]
        /\ open.tickets[t] <= tables.tickets[t]
    BY DEF StoreInv, AcknowledgedSurvives, Grows
  <2> QED
    BY <2>1, <2>2, TicketRowsTyped
<1>4. \A t \in TicketIds : tables.tickets[t] <= tables.tickets[t]
  BY DEF Grows, Tables, RowOrNone, Serials, NoRow
<1>5. \A k \in Keys : disk.keys[k] # NoRow => tables.keys[k] = disk.keys[k]
  BY DEF StoreInv, Grows
<1> QED
  BY <1>1, <1>2, <1>3, <1>4, <1>5 DEF Kept, Grows

\* Nor does a commit that fails: the transaction stays open or is undone.
LEMMA FailureKeeps ==
  ASSUME StoreTypeOK, StoreInv, NEW tables, Grows(tables), CommitFails(tables),
         serial <= serial', serial' \in Nat
  PROVE  Kept
<1>1. disk' = disk /\ open' \in {tables, disk}
  BY DEF CommitFails
<1>2. CASE open' = disk
  <2>1. \A t \in TicketIds : /\ disk.tickets[t] <= disk.tickets[t]
                             /\ disk.tickets[t] <= serial'
    <3> TAKE t \in TicketIds
    <3>1. disk.tickets[t] <= open.tickets[t] /\ open.tickets[t] <= serial
      BY DEF StoreInv
    <3>2. serial \in Nat
      BY DEF StoreTypeOK
    <3> QED
      BY <3>1, <3>2, TicketRowsTyped
  <2> QED
    BY <1>1, <1>2, <2>1 DEF StoreInv, AcknowledgedSurvives, Kept
<1>3. CASE open' = tables
  <2>1. \A t \in TicketIds : disk.tickets[t] <= tables.tickets[t]
    <3> TAKE t \in TicketIds
    <3>1. disk.tickets[t] <= open.tickets[t] /\ open.tickets[t] <= tables.tickets[t]
      BY DEF StoreInv, Grows
    <3>2. tables.tickets[t] \in Nat
      BY DEF Grows, Tables, RowOrNone, Serials, NoRow
    <3> QED
      BY <3>1, <3>2, TicketRowsTyped
  <2>2. \A k \in Keys : disk.keys[k] # NoRow => tables.keys[k] = disk.keys[k]
    BY DEF StoreInv, Grows
  <2> QED
    BY <1>1, <1>3, <2>1, <2>2 DEF StoreInv, AcknowledgedSurvives, Kept, Grows
<1> QED
  BY <1>1, <1>2, <1>3

\* The three kinds of INSERT only add rows.
LEMMA InsertsGrow ==
  ASSUME StoreTypeOK, StoreInv
  PROVE  /\ NextSerial => \A t \in TicketIds :
                Grows([open EXCEPT !.tickets[t] = serial + 1])
         /\ NextSerial => Grows([open EXCEPT !.journal = @ \cup {serial + 1}])
         /\ \A c \in Clients :
                at[c] = "storing" /\ serial' = serial => Grows(Inserting(c))
<1>1. open \in Tables /\ serial \in Nat
  BY DEF StoreTypeOK
<1>2. \A t \in TicketIds : open.tickets[t] \in Nat /\ open.tickets[t] <= serial
  BY TicketRowsTyped DEF StoreInv
<1>3. ASSUME NextSerial, NEW t \in TicketIds
      PROVE  Grows([open EXCEPT !.tickets[t] = serial + 1])
  <2> DEFINE tables == [open EXCEPT !.tickets[t] = serial + 1]
  <2>1. tables \in Tables /\ serial' = serial + 1
    BY <1>3, NewRowTyped DEF NextSerial
  <2>2. /\ tables.journal = open.journal /\ tables.keys = open.keys
        /\ tables.tickets = [open.tickets EXCEPT ![t] = serial + 1]
    BY <1>1 DEF Tables
  <2>3. \A u \in TicketIds : tables.tickets[u] = IF u = t THEN serial + 1 ELSE open.tickets[u]
    BY <1>1, <2>2 DEF Tables
  <2> HIDE DEF tables
  <2>4. \A u \in TicketIds : /\ open.tickets[u] <= tables.tickets[u]
                             /\ tables.tickets[u] <= serial'
    BY <1>1, <1>2, <2>1, <2>3
  <2>5. Grows(tables)
    BY <2>1, <2>2, <2>4 DEF Grows
  <2> QED
    BY <2>5 DEF tables
<1>4. ASSUME NextSerial PROVE Grows([open EXCEPT !.journal = @ \cup {serial + 1}])
  <2> DEFINE tables == [open EXCEPT !.journal = @ \cup {serial + 1}]
  <2>1. tables \in Tables /\ serial' = serial + 1
    BY <1>4, NewRowTyped DEF NextSerial
  <2>2. /\ tables.journal = open.journal \cup {serial + 1}
        /\ tables.keys = open.keys /\ tables.tickets = open.tickets
    BY <1>1 DEF Tables
  <2> HIDE DEF tables
  <2>3. \A u \in TicketIds : /\ open.tickets[u] <= tables.tickets[u]
                             /\ tables.tickets[u] <= serial'
    BY <1>1, <1>2, <2>1, <2>2
  <2>4. Grows(tables)
    BY <2>1, <2>2, <2>3 DEF Grows
  <2> QED
    BY <2>4 DEF tables
<1>5. ASSUME NEW c \in Clients, at[c] = "storing", serial' = serial
      PROVE  Grows(Inserting(c))
  <2>1. Inserting(c) \in Tables
    BY <1>5, InsertingTyped
  <2>2. /\ Inserting(c).journal = open.journal
        /\ Inserting(c).tickets = open.tickets
        /\ Inserting(c).keys
              = [open.keys EXCEPT ![key[c]] = IF @ = NoRow THEN made[c] ELSE @]
    BY <1>1 DEF Inserting, Tables
  <2>3. \A k \in Keys : open.keys[k] # NoRow => Inserting(c).keys[k] = open.keys[k]
    <3>1. open.keys \in [Keys -> RowOrNone] /\ key[c] \in Keys
      BY <1>1 DEF Tables, StoreTypeOK
    <3> QED
      BY <2>2, <3>1
  <2>4. \A u \in TicketIds : /\ open.tickets[u] <= Inserting(c).tickets[u]
                             /\ Inserting(c).tickets[u] <= serial'
    BY <1>1, <1>2, <1>5, <2>2
  <2> QED
    BY <2>1, <2>2, <2>3, <2>4 DEF Grows
<1> QED
  BY <1>3, <1>4, <1>5

\* What a step acknowledges is on disk after it.
Told ==
  /\ acked'.journal \subseteq disk'.journal
  /\ \A t \in TicketIds : acked'.tickets[t] <= disk'.tickets[t]

LEMMA KeptAndTold ==
  ASSUME Kept, Told
  PROVE  StoreInv' /\ \A k \in Keys : disk.keys[k] # NoRow => disk'.keys[k] = disk.keys[k]
  BY DEF Kept, Told, StoreInv, AcknowledgedSurvives

LEMMA NothingTold ==
  ASSUME Kept, acked' = acked
  PROVE  Told
  BY DEF Kept, Told

LEMMA SaveTicketKeeps ==
  ASSUME StoreTypeOK, StoreInv, NEW t \in TicketIds, SaveTicket(t)
  PROVE  Kept /\ Told
<1> DEFINE tables == [open EXCEPT !.tickets[t] = serial + 1]
<1>1. NextSerial /\ serial \in Nat /\ serial' = serial + 1
  BY DEF SaveTicket, NextSerial, StoreTypeOK
<1>2. Grows(tables) /\ tables \in Tables
  BY <1>1, InsertsGrow, NewRowTyped
<1>3. CASE Commit(tables) /\ acked' = [acked EXCEPT !.tickets[t] = serial + 1]
  <2>1. Kept
    BY <1>2, <1>3, CommitKeeps
  <2>2. disk'.tickets[t] = serial + 1 /\ disk' \in Tables
    BY <1>2, <1>3 DEF Commit, Tables, StoreTypeOK
  <2>3. /\ acked'.journal = acked.journal
        /\ \A u \in TicketIds :
              acked'.tickets[u] = IF u = t THEN serial + 1 ELSE acked.tickets[u]
    BY <1>3 DEF StoreTypeOK
  <2>4. \A u \in TicketIds : acked'.tickets[u] <= disk'.tickets[u]
    BY <1>1, <2>1, <2>2, <2>3 DEF Kept
  <2> QED
    BY <1>3, <2>1, <2>3, <2>4 DEF Kept, Told
<1>4. CASE CommitFails(tables)
  <2>1. Kept
    BY <1>1, <1>2, <1>4, FailureKeeps
  <2> QED
    BY <1>4, <2>1, NothingTold DEF CommitFails
<1> QED
  BY <1>3, <1>4 DEF SaveTicket

LEMMA AddRowKeeps ==
  ASSUME StoreTypeOK, StoreInv, AddRow
  PROVE  Kept /\ Told
<1> DEFINE tables == [open EXCEPT !.journal = @ \cup {serial + 1}]
<1>1. NextSerial /\ serial \in Nat /\ serial' = serial + 1
  BY DEF AddRow, NextSerial, StoreTypeOK
<1>2. Grows(tables)
  BY <1>1, InsertsGrow
<1>3. CASE Commit(tables) /\ acked' = [acked EXCEPT !.journal = @ \cup {serial + 1}]
  <2>1. Kept
    BY <1>2, <1>3, CommitKeeps
  <2>2. serial + 1 \in disk'.journal
    BY <1>3 DEF Commit, Tables, StoreTypeOK
  <2>3. /\ acked'.journal = acked.journal \cup {serial + 1}
        /\ acked'.tickets = acked.tickets
    BY <1>3 DEF StoreTypeOK
  <2> QED
    BY <1>3, <2>1, <2>2, <2>3 DEF Kept, Told
<1>4. CASE CommitFails(tables)
  <2>1. Kept
    BY <1>1, <1>2, <1>4, FailureKeeps
  <2> QED
    BY <1>4, <2>1, NothingTold DEF CommitFails
<1> QED
  BY <1>3, <1>4 DEF AddRow

LEMMA StoreResultKeeps ==
  ASSUME StoreTypeOK, StoreInv, NEW c \in Clients, StoreResult(c)
  PROVE  Kept /\ Told
<1>1. at[c] = "storing" /\ serial' = serial /\ serial \in Nat
  BY DEF StoreResult, Leave, StoreTypeOK
<1>2. Grows(Inserting(c)) /\ serial <= serial' /\ serial' \in Nat
  BY <1>1, InsertsGrow
<1>3. CASE Commit(Inserting(c)) /\ acked' = acked
  <2>1. Kept
    BY <1>2, <1>3, CommitKeeps
  <2> QED
    BY <1>3, <2>1, NothingTold
<1>4. CASE CommitFails(Inserting(c))
  <2>1. Kept
    BY <1>2, <1>4, FailureKeeps
  <2> QED
    BY <1>4, <2>1, NothingTold DEF CommitFails
<1> QED
  BY <1>3, <1>4 DEF StoreResult

\* Steps that leave the tables alone, and the one that loses the transaction.
LEMMA QuietKeeps ==
  ASSUME StoreTypeOK, StoreInv, disk' = disk, open' \in {open, disk},
         serial <= serial', serial' \in Nat, UNCHANGED acked
  PROVE  Kept /\ Told
<1>1. \A t \in TicketIds : /\ disk.tickets[t] <= disk.tickets[t]
                           /\ disk.tickets[t] <= open.tickets[t]
                           /\ disk.tickets[t] <= serial'
                           /\ open.tickets[t] <= serial'
  <2> TAKE t \in TicketIds
  <2>1. disk.tickets[t] <= open.tickets[t] /\ open.tickets[t] <= serial
    BY DEF StoreInv
  <2>2. serial \in Nat
    BY DEF StoreTypeOK
  <2> QED
    BY <2>1, <2>2, TicketRowsTyped
<1>2. Kept
  BY <1>1 DEF Kept, StoreInv, AcknowledgedSurvives
<1> QED
  BY <1>2, NothingTold

LEMMA StepKeeps ==
  ASSUME StoreTypeOK, StoreInv, [StoreNext]_storeVars
  PROVE  Kept /\ Told
<1>0. serial \in Nat
  BY DEF StoreTypeOK
<1>1. ASSUME NEW c \in Clients, NEW k \in Keys, CallIdempotent(c, k) PROVE Kept /\ Told
  BY <1>0, <1>1, QuietKeeps DEF CallIdempotent
<1>2. ASSUME NEW c \in Clients, Produce(c) PROVE Kept /\ Told
  BY <1>0, <1>2, QuietKeeps DEF Produce, NextSerial
<1>3. ASSUME NEW c \in Clients, ProduceRaises(c) PROVE Kept /\ Told
  BY <1>0, <1>3, QuietKeeps DEF ProduceRaises, Leave
<1>4. CASE Crash
  BY <1>0, <1>4, QuietKeeps DEF Crash
<1>5. CASE UNCHANGED storeVars
  BY <1>0, <1>5, QuietKeeps DEF storeVars
<1> QED
  BY <1>1, <1>2, <1>3, <1>4, <1>5, SaveTicketKeeps, AddRowKeeps, StoreResultKeeps
     DEF StoreNext

LEMMA StoreInvStart == StoreInit => StoreInv
<1> SUFFICES ASSUME StoreInit PROVE StoreInv
  OBVIOUS
<1>1. /\ disk = open /\ serial = 0
      /\ open.journal = {} /\ acked.journal = {}
      /\ \A t \in TicketIds : open.tickets[t] = 0 /\ acked.tickets[t] = 0
  BY DEF StoreInit, NoRow
<1> QED
  BY <1>1 DEF StoreInv, AcknowledgedSurvives

\* The connection sees what is on disk, and what was acknowledged is on disk.
THEOREM StoreInvariant == StoreSpec => [](StoreTypeOK /\ StoreInv)
<1>1. StoreTypeOK /\ StoreInv /\ [StoreNext]_storeVars => StoreInv'
  BY StepKeeps, KeptAndTold
<1>2. StoreSpec => []StoreTypeOK
  BY StoreTypeCorrect
<1> QED
  BY <1>1, <1>2, StoreInvStart, PTL DEF StoreSpec

\* Failed commits and crashes lose nothing a caller was told is written.
THEOREM AcknowledgedRowsSurvive == StoreSpec => []AcknowledgedSurvives
<1>1. StoreInv => AcknowledgedSurvives
  BY DEF StoreInv
<1> QED
  BY <1>1, StoreInvariant, PTL

\* The first result of a key on disk is never replaced.
THEOREM ResultsAreFinal == StoreSpec => FirstResultStays
<1>1. StoreTypeOK /\ StoreInv /\ [StoreNext]_storeVars
        => [\A k \in Keys : disk.keys[k] # NoRow => disk'.keys[k] = disk.keys[k]]_storeVars
  BY StepKeeps, KeptAndTold
<1> QED
  BY <1>1, StoreInvariant, PTL DEF StoreSpec, FirstResultStays
=============================================================================
