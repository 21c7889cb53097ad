--------------------------- MODULE JobPipelineProofs ---------------------------
(***************************************************************************)
(* A COMPLETED job has every result, for any number of jobs, symbols,      *)
(* clients and pipelines, and whatever faults happen.                      *)
(***************************************************************************)
EXTENDS JobPipeline, FiniteSetTheorems, TLAPS

-------------------------------------------------------------------------------
(* The inductive invariant: where the verdict's evidence comes from.       *)

\* a request or a pipeline under way works for a job
JobsInv ==
    /\ \A c \in Clients : request[c].pc # "idle" => request[c].job \in Jobs
    /\ \A r \in Runs : IF pipe[r].stage = "none" THEN pipe[r].job = NoJob
                                                 ELSE pipe[r].job \in Jobs
    /\ \A r \in Runs, k \in Gens :
         /\ fin[r][k].pc # "none" => pipe[r].stage # "none"
         /\ \A s \in Symbols : task[r][k][s] # "none" => pipe[r].stage # "none"

\* a task past its commit, and a part that says ok, stand for a stored result
PartsInv ==
    \A r \in Runs, s \in Symbols :
        /\ \A k \in Gens : task[r][k][s] = "saved" => results[r][s] > 0
        /\ <<s, "ok">> \in chord[r].parts => results[r][s] > 0

\* a callback that will write COMPLETED has seen every symbol ok
FinInv ==
    \A r \in Runs, k \in Gens :
        fin[r][k].pc # "none" /\ fin[r][k].ok => \A s \in Symbols : results[r][s] > 0

Inv == TypeOK /\ JobsInv
CompletedInv == Inv /\ PartsInv /\ FinInv /\ CompletedHasAllResults

-------------------------------------------------------------------------------
(* Helpers.                                                                *)

\* an UPDATE keeps the row's type, and makes it COMPLETED only when asked to
LEMMA RowType ==
    ASSUME NEW row \in Row, NEW seen \in Row,
           NEW st \in Statuses, NEW err \in Errors
    PROVE  /\ update_job_status(row, seen, st, err) \in Row
           /\ update_job_status(row, seen, st, err).status = "COMPLETED"
                => st = "COMPLETED" \/ row.status = "COMPLETED"
BY DEF update_job_status, Row, Statuses, Terminal, Errors

\* with as many parts as symbols and no part but ok, no symbol is missing
LEMMA AllOk ==
    ASSUME NEW parts \in SUBSET (Symbols \X Outcomes), chord_ready(parts),
           \A p \in parts : p[2] = "ok"
    PROVE  \A s \in Symbols : <<s, "ok">> \in parts
<1> DEFINE good == Symbols \X {"ok"}
<1>1. IsFiniteSet(good) /\ Cardinality(good) = Cardinality(Symbols)
  <2>1. IsFiniteSet({"ok"}) /\ Cardinality({"ok"}) = 1
    BY FS_Singleton
  <2>2. Cardinality(Symbols) \in Nat
    BY SymbolsAssumption, FS_CardinalityType
  <2>3. Cardinality(good) = Cardinality(Symbols) * 1
    BY <2>1, SymbolsAssumption, FS_Product
  <2> QED
    BY <2>1, <2>2, <2>3, SymbolsAssumption, FS_Product
<1>2. parts \subseteq good
  BY DEF Outcomes
<1>3. good = parts
  BY <1>1, <1>2, FS_Subset DEF chord_ready
<1> QED
  BY <1>3

\* an update at one index: the fact every variable's step rests on
LEMMA Update ==
    ASSUME NEW A, NEW T, NEW f \in [A -> T], NEW a \in A, NEW e \in T
    PROVE  /\ [f EXCEPT ![a] = e] \in [A -> T]
           /\ \A x \in A : [f EXCEPT ![a] = e][x] = IF x = a THEN e ELSE f[x]
OBVIOUS

\* an update at two indices
LEMMA Update2 ==
    ASSUME NEW A, NEW B, NEW T, NEW f \in [A -> [B -> T]],
           NEW a \in A, NEW b \in B, NEW e \in T
    PROVE  /\ [f EXCEPT ![a][b] = e] \in [A -> [B -> T]]
           /\ \A x \in A, y \in B :
                [f EXCEPT ![a][b] = e][x][y] = IF x = a /\ y = b THEN e ELSE f[x][y]
<1>1. [f[a] EXCEPT ![b] = e] \in [B -> T]
  OBVIOUS
<1>2. [f EXCEPT ![a][b] = e] = [f EXCEPT ![a] = [f[a] EXCEPT ![b] = e]]
  OBVIOUS
<1> QED
  BY <1>1, <1>2

\* results only accumulate and a run keeps its job: Stored never shrinks
LEMMA CompletedStays ==
    ASSUME TypeOK, CompletedHasAllResults, NoJob \notin Jobs,
           \A r \in Runs : pipe'[r].job = pipe[r].job \/ pipe[r].job = NoJob,
           \A r \in Runs, s \in Symbols : results[r][s] > 0 => results'[r][s] > 0,
           \A j \in Jobs : job'[j].status = "COMPLETED" =>
               job[j].status = "COMPLETED" \/ Stored(j) = Symbols
    PROVE  CompletedHasAllResults'
<1> SUFFICES ASSUME NEW j \in Jobs, job'[j].status = "COMPLETED"
             PROVE  Stored(j)' = Symbols
  BY DEF CompletedHasAllResults
<1>1. Stored(j) = Symbols
  BY DEF CompletedHasAllResults
<1>2. Stored(j) \subseteq Stored(j)'
  BY DEF Stored
<1> QED
  BY <1>1, <1>2 DEF Stored

-------------------------------------------------------------------------------
(* Types, one name per variable, so that a step shows only what it wrote.  *)

JobType     == [Jobs -> Row]
RequestRec  == [pc : RequestPcs, job : Jobs \cup {NoJob}, seen : Row]
PipeRec     == [job : Jobs \cup {NoJob}, stage : Stages, tries : 0 .. MaxRetries, seen : Row]
ChordRec    == [open : BOOLEAN, gen : Gens, parts : SUBSET (Symbols \X Outcomes)]
FinRec      == [pc : FinStates, ok : BOOLEAN, seen : Row]

\* TypeOK, read one variable at a time
LEMMA TypeParts ==
    ASSUME TypeOK
    PROVE  /\ job \in JobType
           /\ results \in [Runs -> [Symbols -> Nat]]
           /\ request \in [Clients -> RequestRec]
           /\ pipe \in [Runs -> PipeRec]
           /\ chord \in [Runs -> ChordRec]
           /\ task \in [Runs -> [Gens -> [Symbols -> TaskStates]]]
           /\ fin \in [Runs -> [Gens -> FinRec]]
           /\ faults \in Gens
BY DEF TypeOK, JobType, RequestRec, PipeRec, ChordRec, FinRec

\* and put together again
LEMMA TypeFromParts ==
    ASSUME job' \in JobType,
           results' \in [Runs -> [Symbols -> Nat]],
           request' \in [Clients -> RequestRec],
           pipe' \in [Runs -> PipeRec],
           chord' \in [Runs -> ChordRec],
           task' \in [Runs -> [Gens -> [Symbols -> TaskStates]]],
           fin' \in [Runs -> [Gens -> FinRec]],
           faults' \in Gens
    PROVE  TypeOK'
BY DEF TypeOK, JobType, RequestRec, PipeRec, ChordRec, FinRec

\* the bound on faults is kept by counting one more
LEMMA FaultType ==
    ASSUME TypeOK, NEW kind, Fault(kind)
    PROVE  faults' \in Gens
BY BoundsAssumption DEF TypeOK, Fault, Gens

\* the absent row is a row
LEMMA NoRowType == NoRow \in Row
BY DEF NoRow, Row, Errors

-------------------------------------------------------------------------------
(* The API's steps.                                                        *)

\* what a step of one request, alone or with the job it marks, has to show
LEMMA RequestOnly ==
    ASSUME CompletedInv, NEW c \in Clients, NEW q \in RequestRec,
           request' = [request EXCEPT ![c] = q],
           q.pc # "idle" => q.job \in Jobs,
           job' \in JobType,
           \A j \in Jobs : job'[j].status = "COMPLETED" => job[j].status = "COMPLETED",
           faults' \in Gens,
           UNCHANGED <<results, pipe, chord, task, fin>>
    PROVE  CompletedInv'
<1> USE DEF CompletedInv, Inv
<1>1. /\ request' \in [Clients -> RequestRec]
      /\ \A d \in Clients : request'[d] = IF d = c THEN q ELSE request[d]
  BY TypeParts, Update
<1>2. TypeOK'
  BY <1>1, TypeParts, TypeFromParts
<1>3. JobsInv'
  BY <1>1 DEF JobsInv
<1>4. PartsInv' /\ FinInv'
  BY DEF PartsInv, FinInv
<1>5. CompletedHasAllResults'
  BY JobsAssumption, CompletedStays
<1> QED
  BY <1>2, <1>3, <1>4, <1>5

\* creating a job touches its own row only
LEMMA create_backtest_jobKeepsInv ==
    ASSUME CompletedInv, NEW j \in Jobs, create_backtest_job(j)
    PROVE  CompletedInv'
<1> DEFINE row == [NoRow EXCEPT !.status = "CREATED"]
<1>1. row \in Row /\ row.status = "CREATED"
  BY DEF NoRow, Row, Errors, Statuses
<1>2. /\ job' \in JobType
      /\ \A i \in Jobs : job'[i] = IF i = j THEN row ELSE job[i]
  <2> HIDE DEF row
  <2> QED
    BY <1>1, TypeParts, Update DEF row, JobType, CompletedInv, Inv, create_backtest_job
<1> HIDE DEF row
<1>3. TypeOK'
  BY <1>2, TypeParts, TypeFromParts DEF CompletedInv, Inv, create_backtest_job
<1>4. JobsInv' /\ PartsInv' /\ FinInv'
  BY DEF CompletedInv, Inv, JobsInv, PartsInv, FinInv, create_backtest_job
<1>5. CompletedHasAllResults'
  BY <1>1, <1>2, JobsAssumption, CompletedStays DEF CompletedInv, Inv, create_backtest_job
<1> QED
  BY <1>3, <1>4, <1>5 DEF CompletedInv, Inv

\* every step of a request before it publishes, and its faults
LEMMA RequestKeepsInv ==
    ASSUME CompletedInv, NEW c \in Clients, NEW j \in Jobs,
           \/ dispatch_read(c, j) \/ dispatch_load(c) \/ dispatch_mark(c)
           \/ dispatch_backtest_raises(c) \/ request_dies(c)
    PROVE  CompletedInv'
<1>1. /\ TypeOK /\ job \in JobType /\ request[c] \in RequestRec /\ faults \in Gens
      /\ request[c].pc # "idle" => request[c].job \in Jobs
  BY TypeParts DEF CompletedInv, Inv, JobsInv
<1>2. CASE dispatch_read(c, j)
  <2> DEFINE q == [pc |-> "read", job |-> j, seen |-> NoRow]
  <2>1. q \in RequestRec /\ q.job \in Jobs
    BY NoRowType DEF RequestRec, RequestPcs
  <2> QED
    BY <1>1, <1>2, <2>1, RequestOnly DEF dispatch_read
<1>3. CASE dispatch_load(c)
  <2> DEFINE q == [pc |-> "loaded", job |-> request[c].job, seen |-> job[request[c].job]]
  <2>1. q \in RequestRec /\ q.job \in Jobs
    BY <1>1, <1>3 DEF RequestRec, RequestPcs, JobType, dispatch_load
  <2> QED
    BY <1>1, <1>3, <2>1, RequestOnly DEF dispatch_load
<1>4. CASE dispatch_mark(c)
  <2> DEFINE q == [pc |-> "marked", job |-> request[c].job, seen |-> NoRow]
             i == request[c].job
             row == update_job_status(job[i], request[c].seen, "RUNNING", "none")
  <2>1. i \in Jobs /\ request[c].seen \in Row /\ job[i] \in Row
    BY <1>1, <1>4 DEF RequestRec, JobType, dispatch_mark
  <2>2. row \in Row /\ (row.status = "COMPLETED" => job[i].status = "COMPLETED")
    BY <2>1, RowType DEF Statuses, Errors
  <2>3. q \in RequestRec /\ q.job \in Jobs
    BY <2>1, NoRowType DEF RequestRec, RequestPcs
  <2>4. job' = [job EXCEPT ![i] = row]
    BY <1>4 DEF dispatch_mark
  <2>5. job' \in JobType /\ \A h \in Jobs : job'[h] = IF h = i THEN row ELSE job[h]
    <3> HIDE DEF row, i
    <3> QED
      BY <1>1, <2>1, <2>2, <2>4, Update DEF JobType
  <2>6. /\ request' = [request EXCEPT ![c] = q] /\ faults' = faults
        /\ UNCHANGED <<results, pipe, chord, task, fin>>
    BY <1>4 DEF dispatch_mark
  <2> HIDE DEF row, i, q
  <2> QED
    BY <1>1, <2>2, <2>3, <2>5, <2>6, RequestOnly
<1>5. CASE dispatch_backtest_raises(c) \/ request_dies(c)
  <2>1. faults' \in Gens
    BY <1>1, <1>5, FaultType DEF dispatch_backtest_raises, request_dies
  <2>2. Idle \in RequestRec /\ Idle.pc = "idle"
    BY NoRowType DEF Idle, RequestRec, RequestPcs
  <2> QED
    BY <1>1, <1>5, <2>1, <2>2, RequestOnly DEF dispatch_backtest_raises, request_dies
<1> QED
  BY <1>2, <1>3, <1>4, <1>5

\* the pipeline starts: the only step that gives a run its job
LEMMA dispatch_backtestKeepsInv ==
    ASSUME CompletedInv, NEW c \in Clients, NEW r \in Runs, dispatch_backtest(c, r)
    PROVE  CompletedInv'
<1> DEFINE p == [job |-> request[c].job, stage |-> "queued", tries |-> 0, seen |-> NoRow]
<1>1. TypeOK /\ request[c].job \in Jobs /\ pipe[r].job = NoJob
  BY DEF CompletedInv, Inv, JobsInv, dispatch_backtest
<1>2. p \in PipeRec /\ p.job \in Jobs /\ p.stage = "queued"
  BY <1>1, NoRowType, BoundsAssumption DEF PipeRec, Stages
<1>3. Idle \in RequestRec /\ Idle.pc = "idle"
  BY NoRowType DEF Idle, RequestRec, RequestPcs
<1>4. pipe' = [pipe EXCEPT ![r] = p] /\ request' = [request EXCEPT ![c] = Idle]
  BY DEF dispatch_backtest
<1> HIDE DEF p
<1>5. pipe' \in [Runs -> PipeRec] /\ \A q \in Runs : pipe'[q] = IF q = r THEN p ELSE pipe[q]
  BY <1>1, <1>2, <1>4, TypeParts, Update
<1>6. /\ request' \in [Clients -> RequestRec]
      /\ \A d \in Clients : request'[d] = IF d = c THEN Idle ELSE request[d]
  BY <1>1, <1>3, <1>4, TypeParts, Update
<1>7. TypeOK'
  BY <1>1, <1>5, <1>6, TypeParts, TypeFromParts DEF dispatch_backtest
<1>8. JobsInv'
  BY <1>2, <1>3, <1>5, <1>6 DEF CompletedInv, Inv, JobsInv, dispatch_backtest
<1>9. PartsInv' /\ FinInv'
  BY DEF CompletedInv, PartsInv, FinInv, dispatch_backtest
<1>10. CompletedHasAllResults'
  BY <1>1, <1>5, JobsAssumption, CompletedStays DEF CompletedInv, dispatch_backtest
<1> QED
  BY <1>7, <1>8, <1>9, <1>10 DEF CompletedInv, Inv

-------------------------------------------------------------------------------
(* The fetch task's steps.                                                 *)

\* what a step of one pipeline has to show: it keeps its job
LEMMA PipeOnly ==
    ASSUME CompletedInv, NEW r \in Runs, NEW st \in Stages \ {"none"},
           NEW n \in 0 .. MaxRetries, NEW row \in Row, SetPipe(r, st, n, row),
           pipe[r].stage # "none",
           job' \in JobType,
           \A j \in Jobs : job'[j].status = "COMPLETED" => job[j].status = "COMPLETED",
           faults' \in Gens,
           chord' \in [Runs -> ChordRec],
           \A q \in Runs : chord'[q].parts = chord[q].parts,
           task' \in [Runs -> [Gens -> [Symbols -> TaskStates]]],
           \A q \in Runs, k \in Gens, s \in Symbols :
               task'[q][k][s] = task[q][k][s] \/ (q = r /\ task'[q][k][s] # "saved"),
           UNCHANGED <<results, request, fin>>
    PROVE  CompletedInv'
<1> USE DEF CompletedInv, Inv
<1> DEFINE p == [job |-> pipe[r].job, stage |-> st, tries |-> n, seen |-> row]
<1>1. p \in PipeRec /\ p.job = pipe[r].job /\ p.stage # "none"
  BY TypeParts DEF PipeRec
<1>2. pipe' = [pipe EXCEPT ![r] = p]
  BY DEF SetPipe
<1> HIDE DEF p
<1>3. pipe' \in [Runs -> PipeRec] /\ \A q \in Runs : pipe'[q] = IF q = r THEN p ELSE pipe[q]
  BY <1>1, <1>2, TypeParts, Update
<1>4. TypeOK'
  BY <1>3, TypeParts, TypeFromParts
<1>5. JobsInv'
  <2>1. \A c \in Clients : request'[c].pc # "idle" => request'[c].job \in Jobs
    BY DEF JobsInv
  <2>2. \A q \in Runs : IF pipe'[q].stage = "none" THEN pipe'[q].job = NoJob
                                                   ELSE pipe'[q].job \in Jobs
    BY <1>1, <1>3 DEF JobsInv
  <2>3. \A q \in Runs : pipe[q].stage # "none" => pipe'[q].stage # "none"
    BY <1>1, <1>3
  <2>4. ASSUME NEW q \in Runs, NEW k \in Gens
        PROVE  /\ fin'[q][k].pc # "none" => pipe'[q].stage # "none"
               /\ \A s \in Symbols : task'[q][k][s] # "none" => pipe'[q].stage # "none"
    <3>1. fin[q][k].pc # "none" => pipe[q].stage # "none"
      BY DEF JobsInv
    <3>2. \A s \in Symbols : task[q][k][s] # "none" => pipe[q].stage # "none"
      BY DEF JobsInv
    <3>3. CASE q = r
      BY <2>3, <3>3
    <3>4. CASE q # r
      <4>1. \A s \in Symbols : task'[q][k][s] = task[q][k][s]
        BY <3>4
      <4> QED
        BY <2>3, <3>1, <3>2, <4>1
    <3> QED
      BY <3>3, <3>4
  <2> QED
    BY <2>1, <2>2, <2>4 DEF JobsInv
<1>6. PartsInv' /\ FinInv'
  <2>1. FinInv'
    BY DEF FinInv
  <2>2. ASSUME NEW q \in Runs, NEW s \in Symbols, NEW k \in Gens, task'[q][k][s] = "saved"
        PROVE  results[q][s] > 0
    BY <2>2 DEF PartsInv
  <2> QED
    BY <2>1, <2>2 DEF PartsInv
<1>7. CompletedHasAllResults'
  BY <1>1, <1>3, JobsAssumption, CompletedStays
<1> QED
  BY <1>4, <1>5, <1>6, <1>7

\* every step of the fetch task and its failure handler but success
LEMMA PipeStepKeepsInv ==
    ASSUME CompletedInv, NEW r \in Runs,
           \/ ensure_start(r) \/ ensure_retry(r) \/ ensure_fail(r)
           \/ on_fetch_failure_load(r) \/ on_fetch_failure_commit(r)
           \/ on_fetch_failure_raises(r) \/ ensure_redelivered(r)
    PROVE  CompletedInv'
<1>1. /\ TypeOK /\ job \in JobType /\ pipe[r] \in PipeRec /\ faults \in Gens
      /\ pipe[r].tries \in 0 .. MaxRetries /\ pipe[r].seen \in Row
      /\ pipe[r].stage # "none" => pipe[r].job \in Jobs
      /\ chord \in [Runs -> ChordRec]
      /\ task \in [Runs -> [Gens -> [Symbols -> TaskStates]]]
  BY TypeParts DEF CompletedInv, Inv, JobsInv, PipeRec
<1>2. CASE ensure_start(r) \/ ensure_fail(r)
  <2>1. PICK st \in {"running", "on_failure"} : SetPipe(r, st, pipe[r].tries, NoRow)
    BY <1>2 DEF ensure_start, ensure_fail, SetStage
  <2>2. st \in Stages \ {"none"} /\ pipe[r].stage # "none"
    BY <1>2 DEF ensure_start, ensure_fail, Stages
  <2> QED
    BY <1>1, <1>2, <2>1, <2>2, NoRowType, PipeOnly DEF ensure_start, ensure_fail
<1>3. CASE ensure_retry(r)
  <2>1. pipe[r].tries + 1 \in 0 .. MaxRetries
    BY <1>1, <1>3, BoundsAssumption DEF ensure_retry
  <2>2. "queued" \in Stages \ {"none"} /\ pipe[r].stage # "none"
    BY <1>3 DEF ensure_retry, Stages
  <2> QED
    BY <1>1, <1>3, <2>1, <2>2, NoRowType, PipeOnly DEF ensure_retry
<1>4. CASE on_fetch_failure_load(r)
  <2>1. job[pipe[r].job] \in Row
    BY <1>1, <1>4 DEF on_fetch_failure_load, JobType
  <2>2. "loaded" \in Stages \ {"none"} /\ pipe[r].stage # "none"
    BY <1>4 DEF on_fetch_failure_load, Stages
  <2> QED
    BY <1>1, <1>4, <2>1, <2>2, PipeOnly DEF on_fetch_failure_load
<1>5. CASE on_fetch_failure_commit(r)
  <2> DEFINE i == pipe[r].job
             row == update_job_status(job[i], pipe[r].seen, "FAILED", "fetch")
  <2>1. i \in Jobs /\ job[i] \in Row
    BY <1>1, <1>5 DEF on_fetch_failure_commit, JobType
  <2>2. row \in Row /\ (row.status = "COMPLETED" => job[i].status = "COMPLETED")
    BY <1>1, <2>1, RowType DEF Statuses, Errors
  <2>3. job' = [job EXCEPT ![i] = row] /\ SetPipe(r, "done", pipe[r].tries, NoRow)
    BY <1>5 DEF on_fetch_failure_commit, SetStage
  <2>4. "done" \in Stages \ {"none"} /\ pipe[r].stage # "none"
    BY <1>5 DEF on_fetch_failure_commit, Stages
  <2> HIDE DEF row, i
  <2>5. job' \in JobType /\ \A h \in Jobs : job'[h] = IF h = i THEN row ELSE job[h]
    BY <1>1, <2>1, <2>2, <2>3, Update DEF JobType
  <2>6. \A h \in Jobs : job'[h].status = "COMPLETED" => job[h].status = "COMPLETED"
    BY <2>2, <2>5
  <2> QED
    BY <1>1, <1>5, <2>3, <2>4, <2>5, <2>6, NoRowType, PipeOnly DEF on_fetch_failure_commit
<1>6. CASE on_fetch_failure_raises(r) \/ ensure_redelivered(r)
  <2>1. PICK st \in {"done", "queued"} : SetPipe(r, st, pipe[r].tries, NoRow)
    BY <1>6 DEF on_fetch_failure_raises, ensure_redelivered, SetStage
  <2>2. st \in Stages \ {"none"} /\ pipe[r].stage # "none"
    BY <1>6 DEF on_fetch_failure_raises, ensure_redelivered, Stages
  <2>3. faults' \in Gens
    BY <1>1, <1>6, FaultType DEF on_fetch_failure_raises, ensure_redelivered
  <2> QED
    BY <1>1, <1>6, <2>1, <2>2, <2>3, NoRowType, PipeOnly
       DEF on_fetch_failure_raises, ensure_redelivered
<1> QED
  BY <1>2, <1>3, <1>4, <1>5, <1>6

\* the chord is published, or published again: no part is added
LEMMA ensure_succeedKeepsInv ==
    ASSUME CompletedInv, NEW r \in Runs, ensure_succeed(r)
    PROVE  CompletedInv'
<1>1. /\ TypeOK /\ job \in JobType /\ faults \in Gens
      /\ pipe[r].tries \in 0 .. MaxRetries
      /\ chord \in [Runs -> ChordRec] /\ chord[r].parts \in SUBSET (Symbols \X Outcomes)
      /\ task \in [Runs -> [Gens -> [Symbols -> TaskStates]]]
  BY TypeParts DEF CompletedInv, Inv, PipeRec, ChordRec
<1> DEFINE all == [s \in Symbols |-> "queued"]
<1>2. PICK k \in Gens :
        /\ task'  = [task EXCEPT ![r][k] = all]
        /\ chord' = [chord EXCEPT ![r] = [open |-> TRUE, gen |-> k, parts |-> chord[r].parts]]
  BY DEF ensure_succeed
<1>3. all \in [Symbols -> TaskStates] /\ \A s \in Symbols : all[s] = "queued"
  BY DEF TaskStates
<1>4. "done" \in Stages \ {"none"} /\ pipe[r].stage # "none"
      /\ SetPipe(r, "done", pipe[r].tries, NoRow)
  BY DEF ensure_succeed, SetStage, Stages
<1> HIDE DEF all
<1>5. /\ task' \in [Runs -> [Gens -> [Symbols -> TaskStates]]]
      /\ \A q \in Runs, m \in Gens : task'[q][m] = IF q = r /\ m = k THEN all ELSE task[q][m]
  BY <1>1, <1>2, <1>3, Update2
<1> DEFINE rec == [open |-> TRUE, gen |-> k, parts |-> chord[r].parts]
<1>6. rec \in ChordRec /\ rec.parts = chord[r].parts
  BY <1>1 DEF ChordRec
<1>7. chord' = [chord EXCEPT ![r] = rec]
  BY <1>2
<1> HIDE DEF rec
<1>8. /\ chord' \in [Runs -> ChordRec]
      /\ \A q \in Runs : chord'[q].parts = chord[q].parts
  BY <1>1, <1>6, <1>7, Update
<1>9. \A q \in Runs, m \in Gens, s \in Symbols :
          task'[q][m][s] = task[q][m][s] \/ (q = r /\ task'[q][m][s] # "saved")
  BY <1>3, <1>5
<1>10. job' = job /\ faults' = faults /\ UNCHANGED <<results, request, fin>>
  BY DEF ensure_succeed
<1> QED
  BY <1>1, <1>4, <1>5, <1>8, <1>9, <1>10, NoRowType, PipeOnly

-------------------------------------------------------------------------------
(* The backtest tasks and the chord.                                       *)

\* a callback is published with an ok verdict on evidence of every symbol only
LEMMA PartReturn ==
    ASSUME CompletedInv, NEW r \in Runs, NEW s \in Symbols, NEW outcome \in Outcomes,
           on_chord_part_return(r, s, outcome),
           outcome = "ok" => results[r][s] > 0
    PROVE  /\ chord' \in [Runs -> ChordRec]
           /\ \A q \in Runs, t \in Symbols :
                <<t, "ok">> \in chord'[q].parts => results[q][t] > 0
           /\ fin' \in [Runs -> [Gens -> FinRec]]
           /\ \A q \in Runs, m \in Gens :
                \/ fin'[q][m] = fin[q][m]
                \/ q = r /\ (fin'[q][m].ok => \A t \in Symbols : results[q][t] > 0)
<1> DEFINE parts == chord[r].parts \cup {<<s, outcome>>}
           ready == chord[r].open /\ chord_ready(parts)
           rec   == [open |-> chord[r].open /\ ~ready, gen |-> chord[r].gen,
                     parts |-> IF ready THEN {} ELSE parts]
           f     == [pc |-> "queued", ok |-> finalize_verdict(parts), seen |-> NoRow]
<1>1. /\ chord \in [Runs -> ChordRec] /\ fin \in [Runs -> [Gens -> FinRec]]
      /\ chord[r].open \in BOOLEAN /\ chord[r].gen \in Gens
      /\ chord[r].parts \in SUBSET (Symbols \X Outcomes)
      /\ \A q \in Runs, t \in Symbols : <<t, "ok">> \in chord[q].parts => results[q][t] > 0
  BY TypeParts DEF CompletedInv, Inv, PartsInv, ChordRec
<1>2. /\ parts \in SUBSET (Symbols \X Outcomes)
      /\ \A t \in Symbols : <<t, "ok">> \in parts => results[r][t] > 0
  BY <1>1
<1>3. chord' = [chord EXCEPT ![r] = rec]
  BY DEF on_chord_part_return
<1>4. \/ fin' = fin
      \/ /\ fin' = [fin EXCEPT ![r][chord[r].gen] = f]
         /\ ready /\ \A p \in parts : p[2] # "lost"
  BY DEF on_chord_part_return
<1>5. rec \in ChordRec /\ rec.parts \subseteq parts
  <2>1. ready \in BOOLEAN
    OBVIOUS
  <2> HIDE DEF ready, parts
  <2> QED
    BY <1>1, <1>2, <2>1 DEF ChordRec
<1>6. f \in FinRec /\ f.ok = finalize_verdict(parts)
  <2>1. finalize_verdict(parts) \in BOOLEAN
    BY DEF finalize_verdict
  <2> HIDE DEF parts
  <2> QED
    BY <2>1, NoRowType DEF FinRec, FinStates
<1>7. ASSUME ready, \A p \in parts : p[2] # "lost", f.ok
      PROVE  \A t \in Symbols : results[r][t] > 0
  <2>1. chord_ready(parts)
    BY <1>7
  <2>2. \A p \in parts : p[2] = "ok"
    <3> SUFFICES ASSUME NEW p \in parts
                 PROVE  p[2] = "ok"
      OBVIOUS
    <3>1. p[2] \in Outcomes
      BY <1>2
    <3>2. p[2] # "error"
      BY <1>6, <1>7 DEF finalize_verdict
    <3> QED
      BY <1>7, <3>1, <3>2 DEF Outcomes
  <2> HIDE DEF parts
  <2>3. \A t \in Symbols : <<t, "ok">> \in parts
    BY <1>2, <2>1, <2>2, AllOk
  <2> QED
    BY <1>2, <2>3
<1> HIDE DEF rec, f, ready, parts
<1>8. /\ chord' \in [Runs -> ChordRec]
      /\ \A q \in Runs : chord'[q] = IF q = r THEN rec ELSE chord[q]
  BY <1>1, <1>3, <1>5, Update
<1>9. \A q \in Runs, t \in Symbols : <<t, "ok">> \in chord'[q].parts => results[q][t] > 0
  BY <1>1, <1>2, <1>5, <1>8
<1>10. CASE fin' = fin
  BY <1>1, <1>8, <1>9, <1>10
<1>11. CASE /\ fin' = [fin EXCEPT ![r][chord[r].gen] = f]
            /\ ready /\ \A p \in parts : p[2] # "lost"
  <2>1. /\ fin' \in [Runs -> [Gens -> FinRec]]
        /\ \A q \in Runs, m \in Gens :
             fin'[q][m] = IF q = r /\ m = chord[r].gen THEN f ELSE fin[q][m]
    BY <1>1, <1>6, <1>11, Update2
  <2>2. f.ok => \A t \in Symbols : results[r][t] > 0
    BY <1>7, <1>11
  <2> QED
    BY <1>8, <1>9, <2>1, <2>2
<1> QED
  BY <1>4, <1>10, <1>11

\* a task's step moves that task only
LEMMA TaskUpdate ==
    ASSUME task \in [Runs -> [Gens -> [Symbols -> TaskStates]]],
           NEW r \in Runs, NEW k \in Gens, NEW s \in Symbols,
           NEW st \in TaskStates, SetTask(r, k, s, st)
    PROVE  /\ task' \in [Runs -> [Gens -> [Symbols -> TaskStates]]]
           /\ \A q \in Runs, m \in Gens, t \in Symbols :
                task'[q][m][t] = IF q = r /\ m = k /\ t = s THEN st ELSE task[q][m][t]
<1> DEFINE g == [task[r] EXCEPT ![k][s] = st]
<1>1. task[r] \in [Gens -> [Symbols -> TaskStates]]
  OBVIOUS
<1>2. /\ g \in [Gens -> [Symbols -> TaskStates]]
      /\ \A m \in Gens, t \in Symbols : g[m][t] = IF m = k /\ t = s THEN st ELSE task[r][m][t]
  BY <1>1, Update2
<1>3. task' = [task EXCEPT ![r] = g]
  BY DEF SetTask
<1> HIDE DEF g
<1> QED
  BY <1>2, <1>3

\* what a step of one task has to show
LEMMA TaskOnly ==
    ASSUME CompletedInv, NEW r \in Runs, NEW k \in Gens, NEW s \in Symbols,
           NEW st \in TaskStates \ {"none"}, SetTask(r, k, s, st), task[r][k][s] # "none",
           st = "saved" => results'[r][s] > 0,
           results' \in [Runs -> [Symbols -> Nat]],
           \A q \in Runs, t \in Symbols : results[q][t] > 0 => results'[q][t] > 0,
           faults' \in Gens,
           chord' \in [Runs -> ChordRec],
           \A q \in Runs, t \in Symbols :
               <<t, "ok">> \in chord'[q].parts => results[q][t] > 0,
           fin' \in [Runs -> [Gens -> FinRec]],
           \A q \in Runs, m \in Gens :
               \/ fin'[q][m] = fin[q][m]
               \/ q = r /\ (fin'[q][m].ok => \A t \in Symbols : results[q][t] > 0),
           UNCHANGED <<job, request, pipe>>
    PROVE  CompletedInv'
<1> USE DEF CompletedInv, Inv
<1>1. /\ task' \in [Runs -> [Gens -> [Symbols -> TaskStates]]]
      /\ \A q \in Runs, m \in Gens, t \in Symbols :
           task'[q][m][t] = IF q = r /\ m = k /\ t = s THEN st ELSE task[q][m][t]
  BY TypeParts, TaskUpdate
<1>2. TypeOK'
  BY <1>1, TypeParts, TypeFromParts
<1>3. pipe[r].stage # "none"
  BY DEF JobsInv
<1>4. JobsInv'
  <2>1. ASSUME NEW q \in Runs, NEW m \in Gens
        PROVE  fin'[q][m].pc # "none" => pipe[q].stage # "none"
    BY <1>3 DEF JobsInv
  <2>2. ASSUME NEW q \in Runs, NEW m \in Gens, NEW t \in Symbols
        PROVE  task'[q][m][t] # "none" => pipe[q].stage # "none"
    <3>1. CASE q = r
      BY <1>3, <3>1
    <3>2. CASE q # r
      <4>1. task'[q][m][t] = task[q][m][t]
        BY <1>1, <3>2
      <4> QED
        BY <4>1 DEF JobsInv
    <3> QED
      BY <3>1, <3>2
  <2> QED
    BY <2>1, <2>2 DEF JobsInv
<1>5. PartsInv'
  <2>1. ASSUME NEW q \in Runs, NEW m \in Gens, NEW t \in Symbols, task'[q][m][t] = "saved"
        PROVE  results'[q][t] > 0
    <3>1. CASE q = r /\ m = k /\ t = s
      BY <1>1, <2>1, <3>1
    <3>2. CASE ~(q = r /\ m = k /\ t = s)
      <4>1. task[q][m][t] = "saved"
        BY <1>1, <2>1, <3>2
      <4> QED
        BY <4>1 DEF PartsInv
    <3> QED
      BY <3>1, <3>2
  <2> QED
    BY <2>1 DEF PartsInv
<1>6. FinInv'
  <2> SUFFICES ASSUME NEW q \in Runs, NEW m \in Gens, NEW t \in Symbols,
                      fin'[q][m].pc # "none", fin'[q][m].ok
               PROVE  results'[q][t] > 0
    BY DEF FinInv
  <2>1. results[q][t] > 0
    BY DEF FinInv
  <2> QED
    BY <2>1
<1>7. CompletedHasAllResults'
  BY JobsAssumption, CompletedStays
<1> QED
  BY <1>2, <1>4, <1>5, <1>6, <1>7

\* what TaskOnly asks of a step that leaves the chord and the callback alone
LEMMA Evidence ==
    ASSUME CompletedInv
    PROVE  /\ chord \in [Runs -> ChordRec] /\ fin \in [Runs -> [Gens -> FinRec]]
           /\ \A q \in Runs, t \in Symbols :
                <<t, "ok">> \in chord[q].parts => results[q][t] > 0
           /\ TypeOK /\ faults \in Gens
           /\ results \in [Runs -> [Symbols -> Nat]]
BY TypeParts DEF CompletedInv, Inv, PartsInv

\* the one step that inserts a result row
LEMMA save_job_resultKeepsInv ==
    ASSUME CompletedInv, NEW r \in Runs, NEW k \in Gens, NEW s \in Symbols,
           save_job_result(r, k, s)
    PROVE  CompletedInv'
<1>1. results[r][s] + 1 \in Nat /\ results[r][s] + 1 > 0
  BY Evidence
<1> DEFINE n == results[r][s] + 1
<1>2. results' = [results EXCEPT ![r][s] = n]
  BY DEF save_job_result
<1> HIDE DEF n
<1>3. n \in Nat /\ n > 0
  BY <1>1 DEF n
<1>4. /\ results' \in [Runs -> [Symbols -> Nat]]
      /\ \A q \in Runs, t \in Symbols :
           results'[q][t] = IF q = r /\ t = s THEN n ELSE results[q][t]
  BY <1>2, <1>3, Evidence, Update2
<1>5. /\ results'[r][s] > 0
      /\ \A q \in Runs, t \in Symbols : results[q][t] > 0 => results'[q][t] > 0
  BY <1>3, <1>4
<1>6. /\ "saved" \in TaskStates \ {"none"} /\ SetTask(r, k, s, "saved")
      /\ task[r][k][s] # "none" /\ chord' = chord /\ fin' = fin /\ faults' = faults
      /\ UNCHANGED <<job, request, pipe>>
  BY DEF save_job_result, TaskStates
<1> QED
  BY <1>4, <1>5, <1>6, Evidence, TaskOnly

\* every step of a symbol task, faults included
LEMMA TaskStepKeepsInv ==
    ASSUME CompletedInv, NEW r \in Runs, NEW k \in Gens, NEW s \in Symbols,
           \/ TaskStep(r, k, s)
           \/ run_backtest_commit_error(r, k, s) \/ run_backtest_redelivered(r, k, s)
           \/ run_backtest_lost(r, k, s)
    PROVE  CompletedInv'
<1>1. CASE run_backtest_start(r, k, s) \/ run_backtest_redelivered(r, k, s)
  <2>1. faults' \in Gens
    BY <1>1, Evidence, FaultType DEF run_backtest_start, run_backtest_redelivered
  <2>2. PICK st \in {"queued", "running"} : SetTask(r, k, s, st)
    BY <1>1 DEF run_backtest_start, run_backtest_redelivered
  <2>3. /\ st \in TaskStates \ {"none"} /\ st # "saved" /\ task[r][k][s] # "none"
        /\ UNCHANGED <<job, results, request, pipe, chord, fin>>
    BY <1>1 DEF run_backtest_start, run_backtest_redelivered, TaskStates
  <2> QED
    BY <2>1, <2>2, <2>3, Evidence, TaskOnly
<1>2. CASE save_job_result(r, k, s)
  BY <1>2, save_job_resultKeepsInv
<1>3. CASE \/ run_backtest_ok(r, k, s) \/ run_backtest_error(r, k, s)
           \/ run_backtest_commit_error(r, k, s) \/ run_backtest_lost(r, k, s)
  <2>1. faults' \in Gens
    BY <1>3, Evidence, FaultType
       DEF run_backtest_ok, run_backtest_error, run_backtest_commit_error, run_backtest_lost
  <2>2. PICK outcome \in Outcomes :
          /\ on_chord_part_return(r, s, outcome)
          /\ outcome = "ok" => task[r][k][s] = "saved"
    BY <1>3 DEF Outcomes, run_backtest_ok, run_backtest_error,
                run_backtest_commit_error, run_backtest_lost
  <2>3. outcome = "ok" => results[r][s] > 0
    BY <2>2 DEF CompletedInv, PartsInv
  <2>4. /\ "done" \in TaskStates \ {"none"} /\ SetTask(r, k, s, "done")
        /\ task[r][k][s] # "none"
        /\ UNCHANGED <<job, results, request, pipe>>
    BY <1>3 DEF run_backtest_ok, run_backtest_error, run_backtest_commit_error,
                run_backtest_lost, TaskStates
  <2>5. /\ chord' \in [Runs -> ChordRec]
        /\ \A q \in Runs, t \in Symbols :
             <<t, "ok">> \in chord'[q].parts => results[q][t] > 0
        /\ fin' \in [Runs -> [Gens -> FinRec]]
        /\ \A q \in Runs, m \in Gens :
             \/ fin'[q][m] = fin[q][m]
             \/ q = r /\ (fin'[q][m].ok => \A t \in Symbols : results[q][t] > 0)
    BY <2>2, <2>3, PartReturn
  <2> QED
    BY <2>1, <2>4, <2>5, Evidence, TaskOnly
<1> QED
  BY <1>1, <1>2, <1>3 DEF TaskStep

-------------------------------------------------------------------------------
(* The callback's steps: the only ones that write COMPLETED.               *)

\* what a step of one callback has to show
LEMMA FinOnly ==
    ASSUME CompletedInv, NEW r \in Runs, NEW k \in Gens, NEW st \in FinStates, NEW row \in Row,
           SetFin(r, k, st, row), fin[r][k].pc # "none",
           job' \in JobType,
           \A j \in Jobs : job'[j].status = "COMPLETED" =>
               job[j].status = "COMPLETED" \/ Stored(j) = Symbols,
           faults' \in Gens,
           UNCHANGED <<results, request, pipe, chord, task>>
    PROVE  CompletedInv'
<1> USE DEF CompletedInv, Inv
<1> DEFINE f == [pc |-> st, ok |-> fin[r][k].ok, seen |-> row]
<1>1. fin \in [Runs -> [Gens -> FinRec]]
  BY TypeParts
<1>2. f \in FinRec /\ f.ok = fin[r][k].ok
  BY <1>1 DEF FinRec
<1>3. fin' = [fin EXCEPT ![r][k] = f]
  BY DEF SetFin
<1> HIDE DEF f
<1>4. /\ fin' \in [Runs -> [Gens -> FinRec]]
      /\ \A q \in Runs, m \in Gens : fin'[q][m] = IF q = r /\ m = k THEN f ELSE fin[q][m]
  BY <1>1, <1>2, <1>3, Update2
<1>5. \A q \in Runs, m \in Gens :
        /\ fin'[q][m].pc # "none" => fin[q][m].pc # "none"
        /\ fin'[q][m].ok = fin[q][m].ok
  BY <1>2, <1>4
<1>6. TypeOK'
  BY <1>4, TypeParts, TypeFromParts
<1>7. JobsInv'
  BY <1>5 DEF JobsInv
<1>8. PartsInv' /\ FinInv'
  BY <1>5 DEF PartsInv, FinInv
<1>9. CompletedHasAllResults'
  BY JobsAssumption, CompletedStays
<1> QED
  BY <1>6, <1>7, <1>8, <1>9

\* every step of the callback: COMPLETED is written on evidence
LEMMA FinStepKeepsInv ==
    ASSUME CompletedInv, NEW r \in Runs, NEW k \in Gens,
           \/ finalize_load(r, k) \/ finalize_commit(r, k)
           \/ finalize_fails(r, k) \/ finalize_redelivered(r, k)
    PROVE  CompletedInv'
<1>1. /\ TypeOK /\ job \in JobType /\ faults \in Gens
      /\ fin[r][k] \in FinRec /\ fin[r][k].seen \in Row
      /\ fin[r][k].pc # "none" => pipe[r].job \in Jobs
  BY TypeParts DEF CompletedInv, Inv, JobsInv, FinRec
<1>2. CASE finalize_load(r, k)
  <2>1. job[pipe[r].job] \in Row /\ "loaded" \in FinStates /\ fin[r][k].pc # "none"
    BY <1>1, <1>2 DEF finalize_load, JobType, FinStates
  <2> QED
    BY <1>1, <1>2, <2>1, FinOnly DEF finalize_load
<1>3. CASE finalize_commit(r, k)
  <2> DEFINE i   == pipe[r].job
             good == update_job_status(job[i], fin[r][k].seen, "COMPLETED", "none")
             bad  == update_job_status(job[i], fin[r][k].seen, "FAILED", "symbols")
             row  == IF fin[r][k].ok THEN good ELSE bad
  <2>1. i \in Jobs /\ job[i] \in Row
    BY <1>1, <1>3 DEF finalize_commit, JobType
  <2>2. good \in Row
    BY <1>1, <2>1, RowType DEF Statuses, Errors
  <2>3. bad \in Row /\ (bad.status = "COMPLETED" => job[i].status = "COMPLETED")
    BY <1>1, <2>1, RowType DEF Statuses, Errors
  <2>4. fin[r][k].ok => Stored(i) = Symbols
    <3> SUFFICES ASSUME fin[r][k].ok
                 PROVE  \A s \in Symbols : pipe[r].job = i /\ results[r][s] > 0
      BY DEF Stored
    <3> QED
      BY <1>3 DEF CompletedInv, FinInv, finalize_commit
  <2>5. job' = [job EXCEPT ![i] = row]
    BY <1>3 DEF finalize_commit
  <2>6. /\ "done" \in FinStates /\ fin[r][k].pc # "none" /\ SetFin(r, k, "done", NoRow)
        /\ faults' = faults /\ UNCHANGED <<results, request, pipe, chord, task>>
    BY <1>3 DEF finalize_commit, FinStates
  <2> HIDE DEF good, bad, i
  <2>7. row \in Row /\ (row.status = "COMPLETED" =>
                          job[i].status = "COMPLETED" \/ Stored(i) = Symbols)
    BY <2>2, <2>3, <2>4
  <2> HIDE DEF row
  <2>8. job' \in JobType /\ \A h \in Jobs : job'[h] = IF h = i THEN row ELSE job[h]
    BY <1>1, <2>1, <2>5, <2>7, Update DEF JobType
  <2>9. \A h \in Jobs : job'[h].status = "COMPLETED" =>
          job[h].status = "COMPLETED" \/ Stored(h) = Symbols
    BY <2>7, <2>8
  <2> QED
    BY <1>1, <2>6, <2>8, <2>9, NoRowType, FinOnly
<1>4. CASE finalize_fails(r, k) \/ finalize_redelivered(r, k)
  <2>1. faults' \in Gens
    BY <1>1, <1>4, FaultType DEF finalize_fails, finalize_redelivered
  <2>2. PICK st \in {"queued", "done"} : SetFin(r, k, st, NoRow)
    BY <1>4 DEF finalize_fails, finalize_redelivered
  <2>3. /\ st \in FinStates /\ fin[r][k].pc # "none"
        /\ UNCHANGED <<job, results, request, pipe, chord, task>>
    BY <1>4 DEF finalize_fails, finalize_redelivered, FinStates
  <2> QED
    BY <1>1, <2>1, <2>2, <2>3, NoRowType, FinOnly
<1> QED
  BY <1>2, <1>3, <1>4

-------------------------------------------------------------------------------
(* The invariant holds.                                                    *)

\* no job, no run: nothing to show
LEMMA InitEstablishesInv ==
    ASSUME Init
    PROVE  CompletedInv
<1>1. NoRow \in Row /\ 0 \in Gens /\ 0 \in 0 .. MaxRetries
  BY NoRowType, BoundsAssumption DEF Gens
<1>2. TypeOK
  BY <1>1 DEF Init, TypeOK, Idle, NoPipe, NoFin, RequestPcs, Stages, TaskStates, FinStates
<1>3. JobsInv /\ PartsInv /\ FinInv
  BY <1>1 DEF Init, JobsInv, PartsInv, FinInv, Idle, NoPipe, NoFin
<1>4. CompletedHasAllResults
  BY DEF Init, CompletedHasAllResults, NoRow
<1> QED
  BY <1>2, <1>3, <1>4 DEF CompletedInv, Inv

\* nor where nothing moves
LEMMA StutterKeepsInv ==
    ASSUME CompletedInv, UNCHANGED vars
    PROVE  CompletedInv'
BY DEF CompletedInv, Inv, TypeOK, JobsInv, PartsInv, FinInv, CompletedHasAllResults,
       Stored, vars

\* one case per disjunct of Next
LEMMA NextKeepsInv ==
    ASSUME CompletedInv, Next
    PROVE  CompletedInv'
<1>1. CASE \E j \in Jobs : create_backtest_job(j)
  BY <1>1, create_backtest_jobKeepsInv
<1>2. CASE \E c \in Clients, j \in Jobs : dispatch_read(c, j)
  BY <1>2, RequestKeepsInv
<1>3. CASE \E c \in Clients : RequestStep(c)
  <2> SUFFICES ASSUME NEW c \in Clients, RequestStep(c)
               PROVE  CompletedInv'
    BY <1>3
  <2>1. CASE dispatch_load(c) \/ dispatch_mark(c)
    <3>1. request[c].job \in Jobs
      BY <2>1 DEF CompletedInv, Inv, JobsInv, dispatch_load, dispatch_mark
    <3> QED
      BY <2>1, <3>1, RequestKeepsInv
  <2>2. CASE \E r \in Runs : dispatch_backtest(c, r)
    BY <2>2, dispatch_backtestKeepsInv
  <2> QED
    BY <2>1, <2>2 DEF RequestStep
<1>4. CASE \E r \in Runs : RunStep(r)
  <2> SUFFICES ASSUME NEW r \in Runs, RunStep(r)
               PROVE  CompletedInv'
    BY <1>4
  <2>1. CASE EnsureStep(r)
    BY <2>1, PipeStepKeepsInv, ensure_succeedKeepsInv DEF EnsureStep
  <2>2. CASE \E k \in Gens : FinalizeStep(r, k)
    BY <2>2, FinStepKeepsInv DEF FinalizeStep
  <2>3. CASE \E k \in Gens : \E s \in Symbols : TaskStep(r, k, s)
    BY <2>3, TaskStepKeepsInv
  <2> QED
    BY <2>1, <2>2, <2>3 DEF RunStep
<1>5. CASE FaultStep
  <2>1. CASE \E c \in Clients : dispatch_backtest_raises(c) \/ request_dies(c)
    <3> SUFFICES ASSUME NEW c \in Clients, dispatch_backtest_raises(c) \/ request_dies(c)
                 PROVE  CompletedInv'
      BY <2>1
    <3>1. request[c].job \in Jobs
      BY DEF CompletedInv, Inv, JobsInv, dispatch_backtest_raises, request_dies
    <3> QED
      BY <3>1, RequestKeepsInv
  <2>2. CASE \E r \in Runs : on_fetch_failure_raises(r) \/ ensure_redelivered(r)
    BY <2>2, PipeStepKeepsInv
  <2>3. CASE \E r \in Runs, k \in Gens : finalize_fails(r, k) \/ finalize_redelivered(r, k)
    BY <2>3, FinStepKeepsInv
  <2>4. CASE \E r \in Runs, k \in Gens, s \in Symbols :
               \/ run_backtest_commit_error(r, k, s) \/ run_backtest_redelivered(r, k, s)
               \/ run_backtest_lost(r, k, s)
    BY <2>4, TaskStepKeepsInv
  <2> QED
    BY <1>5, <2>1, <2>2, <2>3, <2>4 DEF FaultStep
<1> QED
  BY <1>1, <1>2, <1>3, <1>4, <1>5 DEF Next

(* The inductive invariant holds in every behaviour of the pipeline: every *)
(* verdict is backed by rows of the run that computed it.                  *)
THEOREM InvHolds == Spec => []CompletedInv
<1>1. Init => CompletedInv
  BY InitEstablishesInv
<1>2. CompletedInv /\ [Next]_vars => CompletedInv'
  BY NextKeepsInv, StutterKeepsInv
<1> QED
  BY <1>1, <1>2, PTL DEF Spec

(* The rows, messages and counters keep their types in every behaviour:    *)
(* in particular the fetch task is never retried more than MaxRetries      *)
(* times (ensure_market_data_for_job, max_retries).                        *)
THEOREM TypeCorrect == Spec => []TypeOK
<1>1. CompletedInv => TypeOK
  BY DEF CompletedInv, Inv
<1> QED
  BY <1>1, InvHolds, PTL

(* A COMPLETED job has a stored result for every symbol, however many jobs *)
(* and pipelines there are, however requests interleave, and whatever is   *)
(* redelivered, lost or dispatched twice (finalize_backtest_job).          *)
THEOREM CompletedHasAll == Spec => []CompletedHasAllResults
<1>1. CompletedInv => CompletedHasAllResults
  BY DEF CompletedInv
<1> QED
  BY <1>1, InvHolds, PTL
===============================================================================
