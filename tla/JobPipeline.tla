----------------------------- MODULE JobPipeline ------------------------------
(***************************************************************************)
(* The life of a backtest job across the processes that write its row:     *)
(*                                                                         *)
(*  - API requests (BacktestService.dispatch_backtest_job): read the job,  *)
(*    refuse it when RUNNING, mark it RUNNING, publish the pipeline;       *)
(*  - the fetch worker (ensure_market_data_for_job, _on_fetch_failure);    *)
(*  - the backtest workers (run_backtest, one task per symbol) and the     *)
(*    chord callback (finalize_backtest_job);                              *)
(*  - the database rows they share, and Celery's chain, chord and queues   *)
(*    as far as this code depends on them (marked external).               *)
(*                                                                         *)
(* Every await, commit and task boundary of the code is a step boundary    *)
(* here.  update_job_status loads the row and commits it in two steps, and *)
(* the commit writes only the columns the session saw change: that is how  *)
(* the ORM emits the UPDATE.                                               *)
(***************************************************************************)
EXTENDS Naturals, FiniteSets

CONSTANTS Jobs,        \* jobs that may be created
          NoJob,       \* the job of an idle request and of an unused run
          Symbols,     \* entries of the symbols list of every job
          Clients,     \* callers of PUT /run; each has one request in flight
          Runs,        \* pipelines that may be dispatched in one behaviour (bound)
          MaxRetries,  \* max_retries of ensure_market_data_for_job (3 in the code)
          Faults,      \* the kinds of fault that may happen, see FaultKinds
          MaxFaults    \* how many of them in one behaviour (bound)

\* api    a request ends between two of its steps (process death, database error)
\* broker apply_async raises: the pipeline is not published
\* db     a database call of a task raises, before or after the commit it made
\* crash  a worker dies before the acknowledgement: late acks redeliver the task
\* lost   a prefork child dies: the parent acknowledges the task as FAILURE
FaultKinds == {"api", "broker", "db", "crash", "lost"}

ASSUME JobsAssumption    == NoJob \notin Jobs
ASSUME SymbolsAssumption == IsFiniteSet(Symbols) /\ Symbols # {}
ASSUME BoundsAssumption  == MaxRetries \in Nat /\ MaxFaults \in Nat
ASSUME FaultsAssumption  == Faults \subseteq FaultKinds

VARIABLES job,      \* job[j]: the row of backtest_jobs
          results,  \* results[r][s]: rows of backtest_results inserted by run r
          request,  \* request[c]: the dispatch request of client c
          pipe,     \* pipe[r]: the ensure_market_data_for_job message of run r
          chord,    \* chord[r]: the chord's counter in the result backend
          task,     \* task[r][k][s]: run_backtest, k-th publication of the chord
          fin,      \* fin[r][k]: the finalize_backtest_job message
          faults    \* faults so far

vars == <<job, results, request, pipe, chord, task, fin, faults>>

-------------------------------------------------------------------------------
(* Rows.  end_time is kept relative to start_time.  Two error texts of one *)
(* kind are taken as equal.                                                *)

Statuses == {"CREATED", "RUNNING", "COMPLETED", "FAILED"}
Terminal == {"COMPLETED", "FAILED"}
Errors   == {"none", "fetch", "symbols"}

Row   == [status : Statuses \cup {"ABSENT"}, error : Errors,
          ended : {"never", "before_start", "after_start"}]
NoRow == [status |-> "ABSENT", error |-> "none", ended |-> "never"]

\* mutant: `if error:` instead of an assignment, an old error stays
Bug_update_job_status(row, seen, st, err) ==
    [row EXCEPT !.status = st, !.error = IF err = "none" THEN @ ELSE err,
                !.ended = IF st \in Terminal THEN "after_start" ELSE @]

(* The UPDATE of update_job_status when the session loaded the row as seen *)
(* and the row is now row: a column is written if it differs from what was *)
(* seen; the timestamps always differ.                                     *)
update_job_status(row, seen, st, err) ==
    [status |-> IF st  = seen.status THEN row.status ELSE st,
     error  |-> IF err = seen.error  THEN row.error  ELSE err,
     ended  |-> IF st \in Terminal THEN "after_start"
                ELSE IF row.ended = "never" THEN "never" ELSE "before_start"]

\* the symbols of job j with at least one stored result
Stored(j) == {s \in Symbols : \E r \in Runs : pipe[r].job = j /\ results[r][s] > 0}

-------------------------------------------------------------------------------
Gens  == 0 .. MaxFaults       \* a chord is published again only after a fault

RequestPcs == {"idle", "read", "loaded", "marked"}
Stages     == {"none", "queued", "running", "on_failure", "loaded", "done"}
TaskStates == {"none", "queued", "running", "saved", "done"}
FinStates  == {"none", "queued", "loaded", "done"}
Outcomes   == {"ok", "error", "lost"}

Idle   == [pc |-> "idle", job |-> NoJob, seen |-> NoRow]
NoPipe == [job |-> NoJob, stage |-> "none", tries |-> 0, seen |-> NoRow]
NoFin  == [pc |-> "none", ok |-> FALSE, seen |-> NoRow]

TypeOK ==
    /\ job     \in [Jobs -> Row]
    /\ results \in [Runs -> [Symbols -> Nat]]
    /\ request \in [Clients -> [pc : RequestPcs, job : Jobs \cup {NoJob}, seen : Row]]
    /\ pipe    \in [Runs -> [job : Jobs \cup {NoJob}, stage : Stages,
                             tries : 0 .. MaxRetries, seen : Row]]
    /\ chord   \in [Runs -> [open : BOOLEAN, gen : Gens,
                             parts : SUBSET (Symbols \X Outcomes)]]
    /\ task    \in [Runs -> [Gens -> [Symbols -> TaskStates]]]
    /\ fin     \in [Runs -> [Gens -> [pc : FinStates, ok : BOOLEAN, seen : Row]]]
    /\ faults  \in Gens

Init ==
    /\ job     = [j \in Jobs |-> NoRow]
    /\ results = [r \in Runs |-> [s \in Symbols |-> 0]]
    /\ request = [c \in Clients |-> Idle]
    /\ pipe    = [r \in Runs |-> NoPipe]
    /\ chord   = [r \in Runs |-> [open |-> FALSE, gen |-> 0, parts |-> {}]]
    /\ task    = [r \in Runs |-> [k \in Gens |-> [s \in Symbols |-> "none"]]]
    /\ fin     = [r \in Runs |-> [k \in Gens |-> NoFin]]
    /\ faults  = 0

Fault(kind) == kind \in Faults /\ faults < MaxFaults /\ faults' = faults + 1

-------------------------------------------------------------------------------
(* The API.                                                                *)

create_backtest_job(j) ==
    /\ job[j].status = "ABSENT"
    /\ job' = [job EXCEPT ![j] = [NoRow EXCEPT !.status = "CREATED"]]
    /\ UNCHANGED <<results, request, pipe, chord, task, fin, faults>>

\* mutant: the JobAlreadyRunningError check is dropped
Bug_may_dispatch(row) == row.status # "ABSENT"

\* JobNotFoundError is answered 404, JobAlreadyRunningError 409: no state changes
may_dispatch(row) == row.status \notin {"ABSENT", "RUNNING"}

\* bound: a request that goes on needs one of the Runs to be left for it
RunLeft == Cardinality({c \in Clients : request[c].pc # "idle"})
             < Cardinality({r \in Runs : pipe[r].stage = "none"})

dispatch_read(c, j) ==
    /\ request[c] = Idle
    /\ may_dispatch(job[j])
    /\ RunLeft
    /\ request' = [request EXCEPT ![c] = [pc |-> "read", job |-> j, seen |-> NoRow]]
    /\ UNCHANGED <<job, results, pipe, chord, task, fin, faults>>

dispatch_load(c) ==
    LET j == request[c].job IN
    /\ request[c].pc = "read"
    /\ request' = [request EXCEPT ![c] = [pc |-> "loaded", job |-> j, seen |-> job[j]]]
    /\ UNCHANGED <<job, results, pipe, chord, task, fin, faults>>

dispatch_mark(c) ==
    LET j == request[c].job IN
    /\ request[c].pc = "loaded"
    /\ job' = [job EXCEPT ![j] = update_job_status(@, request[c].seen, "RUNNING", "none")]
    /\ request' = [request EXCEPT ![c] = [pc |-> "marked", job |-> j, seen |-> NoRow]]
    /\ UNCHANGED <<results, pipe, chord, task, fin, faults>>

\* chain(ensure, chord(...)).apply_async() is answered 200
dispatch_backtest(c, r) ==
    /\ request[c].pc = "marked"
    /\ pipe[r].stage = "none"
    /\ pipe' = [pipe EXCEPT ![r] = [job |-> request[c].job, stage |-> "queued",
                                  tries |-> 0, seen |-> NoRow]]
    /\ request' = [request EXCEPT ![c] = Idle]
    /\ UNCHANGED <<job, results, chord, task, fin, faults>>

\* apply_async raised: 500, and the row stays as dispatch_mark left it
dispatch_backtest_raises(c) ==
    /\ request[c].pc = "marked"
    /\ Fault("broker")
    /\ request' = [request EXCEPT ![c] = Idle]
    /\ UNCHANGED <<job, results, pipe, chord, task, fin>>

request_dies(c) ==
    /\ request[c].pc # "idle"
    /\ Fault("api")
    /\ request' = [request EXCEPT ![c] = Idle]
    /\ UNCHANGED <<job, results, pipe, chord, task, fin>>

-------------------------------------------------------------------------------
(* ensure_market_data_for_job, on the fetch worker.                        *)

SetPipe(r, st, n, row) ==
    pipe' = [pipe EXCEPT ![r] = [job |-> pipe[r].job, stage |-> st, tries |-> n, seen |-> row]]

SetStage(r, st) == SetPipe(r, st, pipe[r].tries, NoRow)

ensure_start(r) ==
    /\ pipe[r].stage = "queued"
    /\ SetStage(r, "running")
    /\ UNCHANGED <<job, results, request, chord, task, fin, faults>>

\* mutant: one retry too many
Bug_ensure_retry(r) ==
    /\ pipe[r].stage = "running"
    /\ SetPipe(r, "queued", pipe[r].tries + 1, NoRow)
    /\ UNCHANGED <<job, results, request, chord, task, fin, faults>>

\* ProviderError or RedisError: autoretry_for publishes the task again, delayed
ensure_retry(r) ==
    /\ pipe[r].stage = "running"
    /\ pipe[r].tries < MaxRetries
    /\ SetPipe(r, "queued", pipe[r].tries + 1, NoRow)
    /\ UNCHANGED <<job, results, request, chord, task, fin, faults>>

\* mutant: on_failure is not registered
Bug_ensure_fail(r) ==
    /\ pipe[r].stage = "running"
    /\ SetStage(r, "done")
    /\ UNCHANGED <<job, results, request, chord, task, fin, faults>>

\* retries exhausted, or an error that is not retried (NoDataError, database)
ensure_fail(r) ==
    /\ pipe[r].stage = "running"
    /\ SetStage(r, "on_failure")
    /\ UNCHANGED <<job, results, request, chord, task, fin, faults>>

on_fetch_failure_load(r) ==
    /\ pipe[r].stage = "on_failure"
    /\ SetPipe(r, "loaded", pipe[r].tries, job[pipe[r].job])
    /\ UNCHANGED <<job, results, request, chord, task, fin, faults>>

on_fetch_failure_commit(r) ==
    LET j == pipe[r].job IN
    /\ pipe[r].stage = "loaded"
    /\ job' = [job EXCEPT ![j] = update_job_status(@, pipe[r].seen, "FAILED", "fetch")]
    /\ SetStage(r, "done")
    /\ UNCHANGED <<results, request, chord, task, fin, faults>>

\* the handler itself raises: nothing else ever writes the verdict
on_fetch_failure_raises(r) ==
    /\ pipe[r].stage \in {"on_failure", "loaded"}
    /\ Fault("db")
    /\ SetStage(r, "done")
    /\ UNCHANGED <<job, results, request, chord, task, fin>>

\* mutant: the dispatcher publishes the callback beside the group, not as its chord
Bug_ensure_succeed(r) ==
    /\ pipe[r].stage = "running"
    /\ SetStage(r, "done")
    /\ task' = [task EXCEPT ![r][0] = [s \in Symbols |-> "queued"]]
    /\ fin'  = [fin EXCEPT ![r][0] = [NoFin EXCEPT !.pc = "queued", !.ok = TRUE]]
    /\ UNCHANGED <<job, results, request, chord, faults>>

(* Success: the chain applies the chord.  A redelivered task applies it    *)
(* again, under the same group id: the size is set anew, the parts stay.   *)
ensure_succeed(r) ==
    LET k == IF task[r][0] = [s \in Symbols |-> "none"] THEN 0 ELSE chord[r].gen + 1 IN
    /\ pipe[r].stage = "running"
    /\ SetStage(r, "done")
    /\ k \in Gens
    /\ task'  = [task EXCEPT ![r][k] = [s \in Symbols |-> "queued"]]
    /\ chord' = [chord EXCEPT ![r] = [open |-> TRUE, gen |-> k, parts |-> chord[r].parts]]
    /\ UNCHANGED <<job, results, request, fin, faults>>

(* task_acks_late: a worker that dies before the acknowledgement has its   *)
(* message delivered again, as late as the broker's visibility timeout, so *)
(* a finished but unacknowledged task may run again long afterwards.       *)
ensure_redelivered(r) ==
    /\ pipe[r].stage \in {"running", "on_failure", "loaded", "done"}
    /\ Fault("crash")
    /\ SetStage(r, "queued")
    /\ UNCHANGED <<job, results, request, chord, task, fin>>

-------------------------------------------------------------------------------
(* The chord's counter: a part is keyed by task id and result, so a        *)
(* redelivered task that reports the same again is counted once.  When the *)
(* count reaches the size, the callback is published with the results, or  *)
(* fails unrun if a part is a FAILURE; either way the counter is deleted.  *)

chord_ready(parts) == Cardinality(parts) = Cardinality(Symbols)

\* mutant: one good symbol is enough
Bug_finalize_verdict(parts) == \E p \in parts : p[2] = "ok"

\* finalize_backtest_job: failed = [r for r in results if r.get("error")]
finalize_verdict(parts) == \A p \in parts : p[2] # "error"

on_chord_part_return(r, s, outcome) ==
    LET parts == chord[r].parts \cup {<<s, outcome>>}
        ready == chord[r].open /\ chord_ready(parts)
    IN  /\ chord' = [chord EXCEPT ![r] = [open  |-> chord[r].open /\ ~ready,
                                          gen   |-> chord[r].gen,
                                          parts |-> IF ready THEN {} ELSE parts]]
        /\ fin' = IF ready /\ \A p \in parts : p[2] # "lost"
                  THEN [fin EXCEPT ![r][chord[r].gen] =
                           [pc |-> "queued", ok |-> finalize_verdict(parts), seen |-> NoRow]]
                  ELSE fin

-------------------------------------------------------------------------------
(* run_backtest, on the backtest workers.                                  *)

SetTask(r, k, s, st) == task' = [task EXCEPT ![r][k][s] = st]

run_backtest_start(r, k, s) ==
    /\ task[r][k][s] = "queued"
    /\ SetTask(r, k, s, "running")
    /\ UNCHANGED <<job, results, request, pipe, chord, fin, faults>>

\* steps 1 to 4 succeed up to the commit of save_job_result
save_job_result(r, k, s) ==
    /\ task[r][k][s] = "running"
    /\ SetTask(r, k, s, "saved")
    /\ results' = [results EXCEPT ![r][s] = @ + 1]
    /\ UNCHANGED <<job, request, pipe, chord, fin, faults>>

run_backtest_ok(r, k, s) ==
    /\ task[r][k][s] = "saved"
    /\ SetTask(r, k, s, "done")
    /\ on_chord_part_return(r, s, "ok")
    /\ UNCHANGED <<job, results, request, pipe, faults>>

\* mutant: the except clause falls through to the success dict
Bug_run_backtest_error(r, k, s) ==
    /\ task[r][k][s] = "running"
    /\ SetTask(r, k, s, "done")
    /\ on_chord_part_return(r, s, "ok")
    /\ UNCHANGED <<job, results, request, pipe, faults>>

\* an exception of steps 1 to 4 is caught and returned as an error dict
run_backtest_error(r, k, s) ==
    /\ task[r][k][s] = "running"
    /\ SetTask(r, k, s, "done")
    /\ on_chord_part_return(r, s, "error")
    /\ UNCHANGED <<job, results, request, pipe, faults>>

\* the commit went through but the connection broke: an error dict for a saved row
run_backtest_commit_error(r, k, s) ==
    /\ task[r][k][s] = "saved"
    /\ Fault("db")
    /\ SetTask(r, k, s, "done")
    /\ on_chord_part_return(r, s, "error")
    /\ UNCHANGED <<job, results, request, pipe>>

run_backtest_redelivered(r, k, s) ==
    /\ task[r][k][s] \in {"running", "saved", "done"}
    /\ Fault("crash")
    /\ SetTask(r, k, s, "queued")
    /\ UNCHANGED <<job, results, request, pipe, chord, fin>>

(* The child dies, perhaps after it reported: the parent records FAILURE   *)
(* (task_reject_on_worker_lost is not set).                                *)
run_backtest_lost(r, k, s) ==
    /\ task[r][k][s] \in {"running", "saved", "done"}
    /\ Fault("lost")
    /\ SetTask(r, k, s, "done")
    /\ on_chord_part_return(r, s, "lost")
    /\ UNCHANGED <<job, results, request, pipe>>

-------------------------------------------------------------------------------
(* finalize_backtest_job, on the backtest workers.                         *)

SetFin(r, k, st, row) ==
    fin' = [fin EXCEPT ![r][k] = [pc |-> st, ok |-> fin[r][k].ok, seen |-> row]]

finalize_load(r, k) ==
    /\ fin[r][k].pc = "queued"
    /\ SetFin(r, k, "loaded", job[pipe[r].job])
    /\ UNCHANGED <<job, results, request, pipe, chord, task, faults>>

finalize_commit(r, k) ==
    LET f == fin[r][k]
        j == pipe[r].job IN
    /\ f.pc = "loaded"
    /\ job' = [job EXCEPT ![j] = IF f.ok
                 THEN update_job_status(@, f.seen, "COMPLETED", "none")
                 ELSE update_job_status(@, f.seen, "FAILED", "symbols")]
    /\ SetFin(r, k, "done", NoRow)
    /\ UNCHANGED <<results, request, pipe, chord, task, faults>>

\* an exception or a dead child: the task is FAILURE, is not retried and has no handler
finalize_fails(r, k) ==
    /\ fin[r][k].pc \in {"queued", "loaded"}
    /\ Fault("db") \/ Fault("lost")
    /\ SetFin(r, k, "done", NoRow)
    /\ UNCHANGED <<job, results, request, pipe, chord, task>>

finalize_redelivered(r, k) ==
    /\ fin[r][k].pc \in {"loaded", "done"}
    /\ Fault("crash")
    /\ SetFin(r, k, "queued", NoRow)
    /\ UNCHANGED <<job, results, request, pipe, chord, task>>

-------------------------------------------------------------------------------
EnsureStep(r) == \/ ensure_start(r) \/ ensure_retry(r) \/ ensure_fail(r) \/ ensure_succeed(r)
                 \/ on_fetch_failure_load(r) \/ on_fetch_failure_commit(r)

TaskStep(r, k, s) == \/ run_backtest_start(r, k, s) \/ save_job_result(r, k, s)
                     \/ run_backtest_ok(r, k, s) \/ run_backtest_error(r, k, s)

FinalizeStep(r, k) == finalize_load(r, k) \/ finalize_commit(r, k)

RequestStep(c) == dispatch_load(c) \/ dispatch_mark(c) \/ \E r \in Runs : dispatch_backtest(c, r)

RunStep(r) == \/ EnsureStep(r)
              \/ \E k \in Gens : \/ FinalizeStep(r, k)
                                 \/ \E s \in Symbols : TaskStep(r, k, s)

FaultStep ==
    \/ \E c \in Clients : dispatch_backtest_raises(c) \/ request_dies(c)
    \/ \E r \in Runs :
         \/ on_fetch_failure_raises(r) \/ ensure_redelivered(r)
         \/ \E k \in Gens :
              \/ finalize_fails(r, k) \/ finalize_redelivered(r, k)
              \/ \E s \in Symbols : \/ run_backtest_commit_error(r, k, s)
                                    \/ run_backtest_redelivered(r, k, s)
                                    \/ run_backtest_lost(r, k, s)

Next ==
    \/ \E j \in Jobs : create_backtest_job(j)
    \/ \E c \in Clients, j \in Jobs : dispatch_read(c, j)
    \/ \E c \in Clients : RequestStep(c)
    \/ \E r \in Runs : RunStep(r)
    \/ FaultStep

Spec == Init /\ [][Next]_vars

(* The event loop resumes an awaiting request and a free worker takes the  *)
(* next message; nobody has to create or dispatch a job, and no fault has  *)
(* to happen.                                                              *)
Fairness == /\ \A c \in Clients : WF_vars(RequestStep(c))
            /\ \A r \in Runs : WF_vars(RunStep(r))

FairSpec == Spec /\ Fairness

-------------------------------------------------------------------------------
(* Properties.                                                             *)

\* run r still has a message or a process that works for its job
Working(r) ==
    \/ pipe[r].stage \in {"queued", "running", "on_failure", "loaded"}
    \/ \E k \in Gens : \/ fin[r][k].pc \in {"queued", "loaded"}
                       \/ \E s \in Symbols : task[r][k][s] \in {"queued", "running", "saved"}

(* A COMPLETED job has a stored result for every entry of its symbols list *)
(* (finalize_backtest_job, save_job_result): whatever is redelivered, lost *)
(* or dispatched twice, a client that polls COMPLETED finds every result.  *)
CompletedHasAllResults ==
    \A j \in Jobs : job[j].status = "COMPLETED" => Stored(j) = Symbols

(* The error column is set exactly on FAILED rows ("error: Optional error  *)
(* message (for FAILED status)", update_job_status).                       *)
ErrorIffFailed ==
    \A j \in Jobs : (job[j].error # "none") <=> (job[j].status = "FAILED")

(* The verdict is the last thing written: a job that reads COMPLETED or    *)
(* FAILED has no pipeline at work, so the next PUT /run starts alone, and  *)
(* its end_time is later than its start_time.                              *)
TerminalMeansIdle ==
    \A j \in Jobs : job[j].status \in Terminal =>
        /\ job[j].ended = "after_start"
        /\ \A r \in Runs : pipe[r].job = j => ~Working(r)

(* One pipeline at a time works for a job: what the JobAlreadyRunningError *)
(* check of dispatch_backtest_job is there for.                            *)
AtMostOnePipeline ==
    \A q, r \in Runs : Working(q) /\ Working(r) /\ pipe[q].job = pipe[r].job => q = r

(* finalize_backtest_job is published only when every run_backtest task of *)
(* the chord has finished ("A chord callback runs after all of the symbol  *)
(* tasks are complete", dispatch_backtest_job).                            *)
FinalizeAfterAllTasks ==
    \A r \in Runs, k \in Gens : fin[r][k].pc # "none" =>
        \A s \in Symbols : task[r][k][s] = "done"

(* The verdict a run writes is the truth about its rows: all symbols ok if *)
(* and only if the run inserted exactly one result for each of them.       *)
VerdictMatchesResults ==
    \A r \in Runs, k \in Gens : fin[r][k].pc # "none" =>
        (fin[r][k].ok <=> \A s \in Symbols : results[r][s] = 1)

(* A RUNNING job does not stay RUNNING: polling ends with COMPLETED or     *)
(* FAILED (README.md, How It Works).                                       *)
RunningResolves ==
    \A j \in Jobs : job[j].status = "RUNNING" ~> job[j].status # "RUNNING"

(* What a client is promised: JobLifecycle, with the stored results of a   *)
(* job gathered over its runs.                                             *)
Lifecycle == INSTANCE JobLifecycle WITH
    status <- [j \in Jobs |-> job[j].status],
    stored <- [j \in Jobs |-> Stored(j)]

LifecycleSpec == Lifecycle!LSpec
===============================================================================
