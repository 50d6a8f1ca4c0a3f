----------------------------- MODULE RunLedger -----------------------------
(***************************************************************************)
(* What the chat panel promises about agent runs, whatever the user, the   *)
(* worker and the event loop do: runs are numbered in the order they       *)
(* begin, at most one is in flight, and a run in flight is settled exactly *)
(* once, as answered or as cancelled.  Settling one run and beginning the  *)
(* next (the batch queue does that) may be one step.                       *)
(***************************************************************************)
EXTENDS Naturals, Sequences

VARIABLES outcomes,  \* the outcome of every run begun so far
          current    \* the run in flight, 0 for none

ledger == <<outcomes, current>>

Verdicts == {"answered", "cancelled"}

LedgerInit == outcomes = <<>> /\ current = 0

BeginRun ==
    /\ current = 0
    /\ outcomes' = Append(outcomes, "running")
    /\ current' = Len(outcomes) + 1

SettleRun ==
    /\ current # 0
    /\ \E v \in Verdicts : outcomes' = [outcomes EXCEPT ![current] = v]
    /\ current' = 0

HandOver ==
    /\ current # 0
    /\ \E v \in Verdicts :
          outcomes' = Append([outcomes EXCEPT ![current] = v], "running")
    /\ current' = Len(outcomes) + 1

LedgerNext == BeginRun \/ SettleRun \/ HandOver

\* A run in flight is eventually settled.
LedgerSpec == LedgerInit /\ [][LedgerNext]_ledger /\ WF_ledger(SettleRun \/ HandOver)

LedgerSafety == LedgerInit /\ [][LedgerNext]_ledger
=============================================================================
