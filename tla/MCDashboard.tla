---------------------------- MODULE MCDashboard ----------------------------
(***************************************************************************)
(* One or two tickets, a pool of one worker, and two POSTs, whose threads  *)
(* overlap when the second is accepted before the first has raised the     *)
(* flag.                                                                   *)
(***************************************************************************)
EXTENDS Dashboard, TLC

CONSTANTS a, b, r1, r2

MCTickets == {a, b}
MCOneTicket == {a}
MCRuns == {r1, r2}
MCOneRun == {r1}
=============================================================================
