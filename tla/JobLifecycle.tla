----------------------------- MODULE JobLifecycle -----------------------------
(***************************************************************************)
(* What a client of the API may rely on when it looks at a backtest job:   *)
(* the life of the row of backtest_jobs as README.md describes it          *)
(* ("create then dispatch ... poll for results (COMPLETED / FAILED)").     *)
(*                                                                         *)
(* A job is created, started, gathers one result per symbol while it is    *)
(* RUNNING, and ends COMPLETED only when no symbol lacks a result.  A job  *)
(* that has ended may be started again.  JobPipeline is shown to implement *)
(* this module when requests come one at a time and no message is          *)
(* delivered again.  That a RUNNING job ends at all is RunningResolves of  *)
(* JobPipeline: it holds only where nothing fails.                         *)
(***************************************************************************)
CONSTANTS Jobs,      \* the jobs that may be created
          Symbols    \* the entries of the symbols list of a job

VARIABLES status,    \* status[j]: what GET /api/backtests/{j} reports
          stored     \* stored[j]: the symbols with a row in backtest_results

lvars == <<status, stored>>

Statuses == {"CREATED", "RUNNING", "COMPLETED", "FAILED"}

LTypeOK == /\ status \in [Jobs -> Statuses \cup {"ABSENT"}]
           /\ stored \in [Jobs -> SUBSET Symbols]

LInit == /\ status = [j \in Jobs |-> "ABSENT"]
         /\ stored = [j \in Jobs |-> {}]

\* POST /api/backtests
Create(j) == /\ status[j] = "ABSENT"
             /\ status' = [status EXCEPT ![j] = "CREATED"]
             /\ UNCHANGED stored

\* PUT /api/backtests/{j}/run: answered 409 while the job is RUNNING
Start(j) == /\ status[j] \in {"CREATED", "COMPLETED", "FAILED"}
            /\ status' = [status EXCEPT ![j] = "RUNNING"]
            /\ UNCHANGED stored

\* a symbol task of the running job stores its result
Store(j, s) == /\ status[j] = "RUNNING"
               /\ stored' = [stored EXCEPT ![j] = @ \cup {s}]
               /\ UNCHANGED status

\* the verdict: COMPLETED needs every result, FAILED may come at any time
Finish(j) == /\ status[j] = "RUNNING"
             /\ \/ /\ stored[j] = Symbols
                   /\ status' = [status EXCEPT ![j] = "COMPLETED"]
                \/ status' = [status EXCEPT ![j] = "FAILED"]
             /\ UNCHANGED stored

LNext == \E j \in Jobs : \/ Create(j) \/ Start(j) \/ Finish(j)
                         \/ \E s \in Symbols : Store(j, s)

LSpec == LInit /\ [][LNext]_lvars
===============================================================================
