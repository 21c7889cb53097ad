------------------------ MODULE JobPipelineSerialProofs ------------------------
(***************************************************************************)
(* What holds of a job's pipeline as long as no message is delivered       *)
(* again: a callback comes after all tasks and its verdict is true; and    *)
(* when requests come one at a time, one pipeline works for a job, its     *)
(* verdict is the last thing written, and the rows live the life that      *)
(* JobLifecycle promises.  Every other fault may happen any number of      *)
(* times, unless a theorem says otherwise.                                 *)
(***************************************************************************)
EXTENDS JobPipelineProofs

NoRedelivery == "crash" \notin Faults

\* requests one at a time: at most one client, which awaits each answer
OneClient == \A c, d \in Clients : c = d

-------------------------------------------------------------------------------
(* The invariant of one pipeline.                                          *)

\* the chord is published once, under the first number
First(r) ==
    /\ chord[r].gen = 0
    /\ \A k \in Gens \ {0} : fin[r][k].pc = "none" /\ \A s \in Symbols : task[r][k][s] = "none"

\* nothing of the chord is there before the fetch task is done
Fresh(r) ==
    pipe[r].stage # "done" =>
        /\ ~chord[r].open /\ chord[r].parts = {} /\ fin[r][0].pc = "none"
        /\ \A s \in Symbols : task[r][0][s] = "none"

\* a task inserts its row once, when it commits
Counts(r) == \A s \in Symbols :
    /\ task[r][0][s] \in {"none", "queued", "running"} => results[r][s] = 0
    /\ task[r][0][s] = "saved" => results[r][s] = 1
    /\ results[r][s] <= 1

\* a part comes from a task that is done, and says what became of its row
Parts(r) == \A s \in Symbols :
    /\ \A o \in Outcomes : <<s, o>> \in chord[r].parts => task[r][0][s] = "done"
    /\ ~(<<s, "ok">> \in chord[r].parts /\ <<s, "error">> \in chord[r].parts)
    /\ <<s, "ok">> \in chord[r].parts => results[r][s] = 1
    /\ "db" \notin Faults /\ <<s, "error">> \in chord[r].parts => results[r][s] = 0

\* the callback is published after all tasks, once, and tells the truth
Callback(r) ==
    fin[r][0].pc # "none" =>
        /\ ~chord[r].open
        /\ \A s \in Symbols : task[r][0][s] = "done"
        /\ "db" \notin Faults => (fin[r][0].ok <=> \A s \in Symbols : results[r][s] = 1)

ChordOf(r) == First(r) /\ Fresh(r) /\ Counts(r) /\ Parts(r) /\ Callback(r)

ChordInv == \A r \in Runs : ChordOf(r)

-------------------------------------------------------------------------------
(* The counter.                                                            *)

\* with one part for each symbol at most, a full counter misses no symbol
LEMMA FullCounter ==
    ASSUME NEW parts \in SUBSET (Symbols \X Outcomes), chord_ready(parts),
           \A p \in parts : p[2] # "lost",
           \A s \in Symbols : ~(<<s, "ok">> \in parts /\ <<s, "error">> \in parts)
    PROVE  \A s \in Symbols : <<s, "ok">> \in parts \/ <<s, "error">> \in parts
<1> DEFINE f == [p \in parts |-> p[1]]
<1>1. \A p \in parts : p = <<p[1], p[2]>> /\ p[1] \in Symbols /\ p[2] \in {"ok", "error"}
  BY DEF Outcomes
<1>2. f \in Injection(parts, Symbols)
  <2>1. f \in [parts -> Symbols]
    BY <1>1
  <2>2. ASSUME NEW p \in parts, NEW q \in parts, p[1] = q[1]
        PROVE  p = q
    <3>1. p[2] = q[2]
      BY <1>1, <2>2
    <3> QED
      BY <1>1, <2>2, <3>1
  <2> QED
    BY <2>1, <2>2 DEF Injection, IsInjective
<1>3. f \in Surjection(parts, Symbols)
  <2> HIDE DEF f
  <2> QED
    BY <1>2, SymbolsAssumption, FS_Injection DEF chord_ready
<1> SUFFICES ASSUME NEW s \in Symbols
             PROVE  <<s, "ok">> \in parts \/ <<s, "error">> \in parts
  OBVIOUS
<1>4. PICK p \in parts : p[1] = s
  BY <1>3 DEF Surjection
<1> QED
  BY <1>1, <1>4

-------------------------------------------------------------------------------
(* The steps of one pipeline.                                              *)

\* the first publication has a number
LEMMA ZeroIsGen == 0 \in Gens
BY BoundsAssumption DEF Gens

\* a pipeline that a step does not touch
LEMMA Untouched ==
    ASSUME NEW r \in Runs, ChordOf(r),
           chord'[r] = chord[r], task'[r] = task[r], fin'[r] = fin[r], results'[r] = results[r],
           pipe'[r].stage = pipe[r].stage \/ pipe[r].stage # "done"
    PROVE  ChordOf(r)'
BY DEF ChordOf, First, Fresh, Counts, Parts, Callback

\* a step that moves the fetch task of one pipeline, but not its chord
LEMMA StageKeepsChord ==
    ASSUME TypeOK, ChordInv, NEW r \in Runs, pipe[r].stage # "done",
           \A q \in Runs : q # r => pipe'[q] = pipe[q],
           UNCHANGED <<results, chord, task, fin>>
    PROVE  ChordInv'
BY Untouched DEF ChordInv

\* a step of no pipeline
LEMMA PipelinesStay ==
    ASSUME ChordInv, UNCHANGED <<results, pipe, chord, task, fin>>
    PROVE  ChordInv'
BY Untouched DEF ChordInv

\* the fetch task succeeds: the chord is applied, and never was before
LEMMA ensure_succeedKeepsChord ==
    ASSUME TypeOK, ChordInv, NEW r \in Runs, ensure_succeed(r)
    PROVE  /\ ChordInv'
           /\ fin' = fin /\ \A q \in Runs : q # r => task'[q] = task[q]
<1> DEFINE none   == [s \in Symbols |-> "none"]
           queued == [s \in Symbols |-> "queued"]
           c      == [open |-> TRUE, gen |-> 0, parts |-> chord[r].parts]
<1>1. /\ ChordOf(r) /\ pipe[r].stage = "running"
      /\ fin[r][0].pc = "none" /\ chord[r].parts = {}
      /\ \A s \in Symbols : task[r][0][s] = "none"
  BY DEF ensure_succeed, ChordInv, ChordOf, Fresh
<1>2. /\ task \in [Runs -> [Gens -> [Symbols -> TaskStates]]]
      /\ chord \in [Runs -> ChordRec] /\ pipe \in [Runs -> PipeRec]
  BY TypeParts
<1>3. task[r][0] = none
  BY <1>1, <1>2, ZeroIsGen
<1>4. /\ task' = [task EXCEPT ![r][0] = queued]
      /\ chord' = [chord EXCEPT ![r] = c]
      /\ SetStage(r, "done") /\ UNCHANGED <<results, fin>>
  BY <1>3 DEF ensure_succeed
<1>5. queued \in [Symbols -> TaskStates] /\ \A s \in Symbols : queued[s] = "queued"
  BY DEF TaskStates
<1>6. c \in ChordRec /\ c.gen = 0 /\ c.parts = {}
  BY <1>1, ZeroIsGen DEF ChordRec
<1> HIDE DEF queued, c
<1>7. \A q \in Runs, k \in Gens :
        task'[q][k] = IF q = r /\ k = 0 THEN queued ELSE task[q][k]
  BY <1>2, <1>4, <1>5, ZeroIsGen, Update2
<1>8. \A q \in Runs : chord'[q] = IF q = r THEN c ELSE chord[q]
  BY <1>2, <1>4, <1>6, Update
<1>9. \A q \in Runs : q # r => pipe'[q] = pipe[q] /\ task'[q] = task[q]
  BY <1>2, <1>4 DEF SetStage, SetPipe
<1>10. pipe'[r].stage = "done"
  BY <1>2, <1>4 DEF SetStage, SetPipe
<1>11. ChordOf(r)'
  <2>1. First(r)'
    BY <1>1, <1>4, <1>6, <1>7, <1>8 DEF ChordOf, First
  <2>2. Counts(r)'
    BY <1>1, <1>4, <1>5, <1>7, ZeroIsGen DEF ChordOf, Counts
  <2>3. Parts(r)'
    BY <1>6, <1>8 DEF Parts
  <2>4. Fresh(r)' /\ Callback(r)'
    BY <1>1, <1>4, <1>10 DEF Fresh, Callback
  <2> QED
    BY <2>1, <2>2, <2>3, <2>4 DEF ChordOf
<1>12. \A q \in Runs : q # r => ChordOf(q)'
  BY <1>4, <1>8, <1>9, Untouched DEF ChordInv
<1> QED
  BY <1>4, <1>9, <1>11, <1>12 DEF ChordInv

\* a symbol task reports: it does so once, unless it is a dead child's parent
LEMMA ReportKeepsChord ==
    ASSUME TypeOK, ChordInv, NEW r \in Runs, NEW k \in Gens, NEW s \in Symbols,
           NEW outcome \in Outcomes,
           on_chord_part_return(r, s, outcome), SetTask(r, k, s, "done"),
           task[r][k][s] \in {"running", "saved", "done"},
           outcome # "lost" => task[r][k][s] # "done",
           outcome = "ok" => task[r][k][s] = "saved",
           outcome = "error" /\ "db" \notin Faults => task[r][k][s] = "running",
           UNCHANGED <<results, pipe>>
    PROVE  /\ ChordInv'
           /\ k = 0 /\ (fin' = fin \/ outcome # "lost")
           /\ \A q \in Runs : q # r => task'[q] = task[q] /\ fin'[q] = fin[q]
           /\ \A m \in Gens : fin'[r][m] = fin[r][m] \/ fin'[r][m].pc = "queued"
<1> DEFINE parts == chord[r].parts \cup {<<s, outcome>>}
           ready == chord[r].open /\ chord_ready(parts)
           lost  == \E p \in parts : p[2] = "lost"
           rec   == [open |-> chord[r].open /\ ~ready, gen |-> chord[r].gen,
                     parts |-> IF ready THEN {} ELSE parts]
           f     == [pc |-> "queued", ok |-> finalize_verdict(parts), seen |-> NoRow]
<1>1. /\ task \in [Runs -> [Gens -> [Symbols -> TaskStates]]]
      /\ chord \in [Runs -> ChordRec] /\ fin \in [Runs -> [Gens -> FinRec]]
      /\ chord[r].open \in BOOLEAN /\ chord[r].gen \in Gens
      /\ chord[r].parts \in SUBSET (Symbols \X Outcomes)
  BY TypeParts DEF ChordRec
<1>2. First(r) /\ Fresh(r) /\ Counts(r) /\ Parts(r) /\ Callback(r)
  BY DEF ChordInv, ChordOf
<1>3. k = 0 /\ chord[r].gen = 0 /\ pipe[r].stage = "done"
  BY <1>2, ZeroIsGen DEF First, Fresh
<1>4. /\ task' \in [Runs -> [Gens -> [Symbols -> TaskStates]]]
      /\ \A q \in Runs, m \in Gens, t \in Symbols :
           task'[q][m][t] = IF q = r /\ m = 0 /\ t = s THEN "done" ELSE task[q][m][t]
  BY <1>1, <1>3, TaskUpdate DEF TaskStates
<1>5. parts \in SUBSET (Symbols \X Outcomes)
  BY <1>1
<1>6. \A t \in Symbols :
        /\ \A o \in Outcomes : <<t, o>> \in parts => task'[r][0][t] = "done"
        /\ ~(<<t, "ok">> \in parts /\ <<t, "error">> \in parts)
        /\ <<t, "ok">> \in parts => results[r][t] = 1
        /\ "db" \notin Faults /\ <<t, "error">> \in parts => results[r][t] = 0
  <2> SUFFICES ASSUME NEW t \in Symbols
               PROVE  /\ \A o \in Outcomes : <<t, o>> \in parts => task'[r][0][t] = "done"
                      /\ ~(<<t, "ok">> \in parts /\ <<t, "error">> \in parts)
                      /\ <<t, "ok">> \in parts => results[r][t] = 1
                      /\ "db" \notin Faults /\ <<t, "error">> \in parts => results[r][t] = 0
    OBVIOUS
  <2>1. {"ok", "error", "lost"} = Outcomes
    BY DEF Outcomes
  <2>2. \A o : <<t, o>> \in parts <=> <<t, o>> \in chord[r].parts \/ (t = s /\ o = outcome)
    OBVIOUS
  <2> HIDE DEF parts
  <2>3. CASE t = s
    BY <1>2, <1>3, <1>4, <2>1, <2>2, <2>3, ZeroIsGen DEF Parts, Counts
  <2>4. CASE t # s
    BY <1>2, <1>4, <2>1, <2>2, <2>4, ZeroIsGen DEF Parts
  <2> QED
    BY <2>3, <2>4
<1>7. rec \in ChordRec /\ rec.gen = 0 /\ rec.open = (chord[r].open /\ ~ready)
      /\ rec.parts = IF ready THEN {} ELSE parts
  <2>1. ready \in BOOLEAN
    OBVIOUS
  <2> HIDE DEF ready, parts
  <2> QED
    BY <1>1, <1>3, <1>5, <2>1 DEF ChordRec
<1>8. f \in FinRec /\ f.ok = finalize_verdict(parts) /\ f.pc = "queued"
  <2>1. finalize_verdict(parts) \in BOOLEAN
    BY DEF finalize_verdict
  <2> HIDE DEF parts
  <2> QED
    BY <2>1, NoRowType DEF FinRec, FinStates
<1>9. chord' = [chord EXCEPT ![r] = rec]
  BY DEF on_chord_part_return
<1>10. \/ fin' = fin
       \/ ready /\ ~lost /\ fin' = [fin EXCEPT ![r][0] = f]
  BY <1>3 DEF on_chord_part_return
<1>11. /\ ready => chord[r].open /\ chord_ready(parts)
       /\ ~lost => \A p \in parts : p[2] # "lost"
       /\ outcome = "lost" => lost
  <2>1. <<s, outcome>> \in parts /\ <<s, outcome>>[2] = outcome
    OBVIOUS
  <2> QED
    BY <2>1
<1> HIDE DEF ready, parts, lost, rec, f
<1>12. \A q \in Runs : chord'[q] = IF q = r THEN rec ELSE chord[q]
  BY <1>1, <1>7, <1>9, Update
<1>13. \/ fin' = fin
       \/ /\ ready /\ ~lost
          /\ \A q \in Runs, m \in Gens : fin'[q][m] = IF q = r /\ m = 0 THEN f ELSE fin[q][m]
          /\ \A q \in Runs : q # r => fin'[q] = fin[q]
  <2> SUFFICES ASSUME ready, ~lost, fin' = [fin EXCEPT ![r][0] = f]
               PROVE  /\ \A q \in Runs, m \in Gens :
                           fin'[q][m] = IF q = r /\ m = 0 THEN f ELSE fin[q][m]
                      /\ \A q \in Runs : q # r => fin'[q] = fin[q]
    BY <1>10
  <2> f \in FinRec /\ fin \in [Runs -> [Gens -> FinRec]]
    BY <1>1, <1>8
  <2>1. \A q \in Runs, m \in Gens : fin'[q][m] = IF q = r /\ m = 0 THEN f ELSE fin[q][m]
    BY ZeroIsGen, Update2
  <2>2. \A q \in Runs : q # r => fin'[q] = fin[q]
    BY <1>1
  <2> QED
    BY <2>1, <2>2
<1>14. \A q \in Runs : q # r => task'[q] = task[q]
  BY DEF SetTask
<1>15. \A q \in Runs : q # r => ChordOf(q)'
  BY <1>12, <1>13, <1>14, Untouched DEF ChordInv
<1>16. First(r)' /\ Fresh(r)'
  <2>1. /\ chord'[r].gen = 0
        /\ \A m \in Gens \ {0} : fin'[r][m] = fin[r][m]
        /\ \A m \in Gens \ {0}, t \in Symbols : task'[r][m][t] = task[r][m][t]
    BY <1>4, <1>7, <1>12, <1>13
  <2> QED
    BY <1>2, <1>3, <2>1 DEF First, Fresh
<1>17. Counts(r)'
  BY <1>2, <1>4, ZeroIsGen DEF Counts
<1>18. Parts(r)'
  BY <1>6, <1>7, <1>12 DEF Parts
<1>19. Callback(r)'
  <2>1. CASE fin' = fin
    <3> SUFFICES ASSUME fin[r][0].pc # "none"
                 PROVE  Callback(r)'
      BY <2>1 DEF Callback
    <3>1. /\ ~chord[r].open /\ \A t \in Symbols : task[r][0][t] = "done"
          /\ "db" \notin Faults => (fin[r][0].ok <=> \A t \in Symbols : results[r][t] = 1)
      BY <1>2 DEF Callback
    <3>2. ~chord'[r].open /\ \A t \in Symbols : task'[r][0][t] = "done"
      BY <1>4, <1>7, <1>12, <3>1, ZeroIsGen
    <3> QED
      BY <2>1, <3>1, <3>2 DEF Callback
  <2>2. CASE ready /\ ~lost /\ fin'[r][0] = f
    <3>1. \A t \in Symbols : <<t, "ok">> \in parts \/ <<t, "error">> \in parts
      BY <1>5, <1>6, <1>11, <2>2, FullCounter
    <3>2. \A t \in Symbols : task'[r][0][t] = "done"
      BY <1>6, <3>1 DEF Outcomes
    <3>3. ASSUME "db" \notin Faults
          PROVE  f.ok <=> \A t \in Symbols : results[r][t] = 1
      <4>1. f.ok <=> \A t \in Symbols : <<t, "error">> \notin parts
        <5>1. \A p \in parts : p = <<p[1], p[2]>> /\ p[1] \in Symbols
          BY <1>5
        <5>2. (\A p \in parts : p[2] # "error") <=> \A t \in Symbols : <<t, "error">> \notin parts
          BY <5>1
        <5> QED
          BY <1>8, <5>2 DEF finalize_verdict
      <4>2. \A t \in Symbols : <<t, "error">> \notin parts <=> results[r][t] = 1
        <5> SUFFICES ASSUME NEW t \in Symbols
                     PROVE  <<t, "error">> \notin parts <=> results[r][t] = 1
          OBVIOUS
        <5>1. CASE <<t, "error">> \in parts
          <6>1. results[r][t] = 0
            BY <1>6, <3>3, <5>1
          <6> QED
            BY <5>1, <6>1
        <5>2. CASE <<t, "error">> \notin parts
          BY <1>6, <3>1, <5>2
        <5> QED
          BY <5>1, <5>2
      <4> QED
        BY <4>1, <4>2
    <3>4. rec.open = FALSE
      BY <1>7, <2>2
    <3> QED
      BY <1>8, <1>12, <2>2, <3>2, <3>3, <3>4 DEF Callback
  <2> QED
    BY <1>13, <2>1, <2>2, ZeroIsGen
<1>20. ChordInv'
  BY <1>15, <1>16, <1>17, <1>18, <1>19 DEF ChordInv, ChordOf
<1> QED
  BY <1>3, <1>8, <1>11, <1>13, <1>14, <1>20, ZeroIsGen

\* a symbol task starts or stores its row: no part and no callback yet
LEMMA TaskMoves ==
    ASSUME TypeOK, ChordInv, NEW r \in Runs, NEW k \in Gens, NEW s \in Symbols,
           run_backtest_start(r, k, s) \/ save_job_result(r, k, s)
    PROVE  /\ ChordInv' /\ k = 0
<1>1. /\ task \in [Runs -> [Gens -> [Symbols -> TaskStates]]]
      /\ results \in [Runs -> [Symbols -> Nat]]
  BY TypeParts
<1>2. First(r) /\ Fresh(r) /\ Counts(r) /\ Parts(r) /\ Callback(r)
  BY DEF ChordInv, ChordOf
<1>3. k = 0 /\ task[r][0][s] \in {"queued", "running"} /\ pipe[r].stage = "done"
  BY <1>2, ZeroIsGen DEF First, Fresh, run_backtest_start, save_job_result
<1>4. PICK st \in {"running", "saved"} :
        /\ SetTask(r, 0, s, st)
        /\ IF st = "running" THEN results' = results
                             ELSE results' = [results EXCEPT ![r][s] = results[r][s] + 1]
        /\ UNCHANGED <<pipe, chord, fin>>
  BY <1>3 DEF run_backtest_start, save_job_result
<1>5. /\ \A q \in Runs, m \in Gens, t \in Symbols :
           task'[q][m][t] = IF q = r /\ m = 0 /\ t = s THEN st ELSE task[q][m][t]
      /\ \A q \in Runs : q # r => task'[q] = task[q]
  <2>1. st \in TaskStates
    BY DEF TaskStates
  <2>2. \A q \in Runs, m \in Gens, t \in Symbols :
           task'[q][m][t] = IF q = r /\ m = 0 /\ t = s THEN st ELSE task[q][m][t]
    BY <1>1, <1>4, <2>1, ZeroIsGen, TaskUpdate
  <2>3. \A q \in Runs : q # r => task'[q] = task[q]
    BY <1>4 DEF SetTask
  <2> QED
    BY <2>2, <2>3
<1>6. /\ results'[r][s] = IF st = "running" THEN 0 ELSE 1
      /\ \A t \in Symbols : t # s => results'[r][t] = results[r][t]
      /\ \A q \in Runs : q # r => results'[q] = results[q]
  <2>1. results[r][s] = 0
    BY <1>2, <1>3 DEF Counts
  <2> QED
    BY <1>1, <1>4, <2>1
<1>7. fin[r][0].pc = "none" /\ \A o \in Outcomes : <<s, o>> \notin chord[r].parts
  BY <1>2, <1>3 DEF Callback, Parts
<1>8. First(r)' /\ Fresh(r)' /\ Callback(r)'
  BY <1>2, <1>3, <1>4, <1>5, <1>7 DEF First, Fresh, Callback
<1>9. Counts(r)'
  <2> SUFFICES ASSUME NEW t \in Symbols
               PROVE  /\ task'[r][0][t] \in {"none", "queued", "running"} => results'[r][t] = 0
                      /\ task'[r][0][t] = "saved" => results'[r][t] = 1
                      /\ results'[r][t] <= 1
    BY DEF Counts
  <2>1. CASE t = s
    BY <1>5, <1>6, <2>1, ZeroIsGen
  <2>2. CASE t # s
    BY <1>2, <1>5, <1>6, <2>2, ZeroIsGen DEF Counts
  <2> QED
    BY <2>1, <2>2
<1>10. Parts(r)'
  <2> SUFFICES ASSUME NEW t \in Symbols
               PROVE  /\ \A o \in Outcomes : <<t, o>> \in chord[r].parts => task'[r][0][t] = "done"
                      /\ ~(<<t, "ok">> \in chord[r].parts /\ <<t, "error">> \in chord[r].parts)
                      /\ <<t, "ok">> \in chord[r].parts => results'[r][t] = 1
                      /\ "db" \notin Faults /\ <<t, "error">> \in chord[r].parts
                           => results'[r][t] = 0
    BY <1>4 DEF Parts
  <2>1. CASE t = s
    BY <1>7, <2>1 DEF Outcomes
  <2>2. CASE t # s
    BY <1>2, <1>5, <1>6, <2>2, ZeroIsGen DEF Parts
  <2> QED
    BY <2>1, <2>2
<1>11. \A q \in Runs : q # r => ChordOf(q)'
  BY <1>4, <1>5, <1>6, Untouched DEF ChordInv
<1> QED
  BY <1>3, <1>8, <1>9, <1>10, <1>11 DEF ChordInv, ChordOf

\* the callback runs, or fails: its verdict stays what it was published with
LEMMA FinMoves ==
    ASSUME TypeOK, ChordInv, NEW r \in Runs, NEW k \in Gens, NEW st \in FinStates,
           NEW row \in Row, SetFin(r, k, st, row), st # "none",
           fin[r][k].pc \in {"queued", "loaded"},
           UNCHANGED <<results, pipe, chord, task>>
    PROVE  /\ ChordInv' /\ k = 0
           /\ \A q \in Runs : q # r => fin'[q] = fin[q]
           /\ \A m \in Gens \ {0} : fin'[r][m] = fin[r][m]
           /\ fin'[r][0].pc = st /\ fin'[r][0].seen = row
<1>1. fin \in [Runs -> [Gens -> FinRec]]
  BY TypeParts
<1>2. First(r) /\ Fresh(r) /\ Counts(r) /\ Parts(r) /\ Callback(r)
  BY DEF ChordInv, ChordOf
<1>3. k = 0 /\ pipe[r].stage = "done"
  BY <1>2, ZeroIsGen DEF First, Fresh
<1> DEFINE f == [pc |-> st, ok |-> fin[r][0].ok, seen |-> row]
<1>4. f \in FinRec /\ f.pc = st /\ f.ok = fin[r][0].ok /\ f.seen = row
  BY <1>1, ZeroIsGen DEF FinRec
<1>5. fin' = [fin EXCEPT ![r][0] = f]
  BY <1>3 DEF SetFin
<1> HIDE DEF f
<1>6. /\ \A q \in Runs, m \in Gens : fin'[q][m] = IF q = r /\ m = 0 THEN f ELSE fin[q][m]
      /\ \A q \in Runs : q # r => fin'[q] = fin[q]
  <2> f \in FinRec
    BY <1>4
  <2>1. \A q \in Runs, m \in Gens : fin'[q][m] = IF q = r /\ m = 0 THEN f ELSE fin[q][m]
    BY <1>1, <1>5, ZeroIsGen, Update2
  <2>2. \A q \in Runs : q # r => fin'[q] = fin[q]
    BY <1>1, <1>5
  <2> QED
    BY <2>1, <2>2
<1>7. First(r)' /\ Fresh(r)' /\ Counts(r)' /\ Parts(r)'
  BY <1>2, <1>3, <1>6 DEF First, Fresh, Counts, Parts
<1>8. Callback(r)'
  BY <1>2, <1>3, <1>4, <1>6, ZeroIsGen DEF Callback
<1>9. \A q \in Runs : q # r => ChordOf(q)'
  BY <1>6, Untouched DEF ChordInv
<1> QED
  BY <1>3, <1>4, <1>6, <1>7, <1>8, <1>9, ZeroIsGen DEF ChordInv, ChordOf

-------------------------------------------------------------------------------
(* Every step of the system.                                               *)

\* the steps of a run's symbol tasks
LEMMA TaskStepKeepsChord ==
    ASSUME TypeOK, ChordInv, NEW r \in Runs, NEW k \in Gens, NEW s \in Symbols,
           \/ TaskStep(r, k, s)
           \/ run_backtest_commit_error(r, k, s) \/ run_backtest_lost(r, k, s)
    PROVE  ChordInv'
<1>1. CASE run_backtest_start(r, k, s) \/ save_job_result(r, k, s)
  BY <1>1, TaskMoves
<1>2. CASE \/ run_backtest_ok(r, k, s) \/ run_backtest_error(r, k, s)
           \/ run_backtest_commit_error(r, k, s) \/ run_backtest_lost(r, k, s)
  BY <1>2, ReportKeepsChord
     DEF Outcomes, Fault, run_backtest_ok, run_backtest_error, run_backtest_commit_error,
         run_backtest_lost
<1> QED
  BY <1>1, <1>2 DEF TaskStep

\* the steps of a run's callback
LEMMA FinStepKeepsChord ==
    ASSUME Inv, ChordInv, NEW r \in Runs, NEW k \in Gens,
           FinalizeStep(r, k) \/ finalize_fails(r, k)
    PROVE  ChordInv'
<1>1. TypeOK /\ NoRow \in Row /\ (fin[r][k].pc # "none" => job[pipe[r].job] \in Row)
  BY NoRowType, TypeParts DEF Inv, JobsInv, JobType
<1>2. CASE finalize_load(r, k)
  <2>1. SetFin(r, k, "loaded", job[pipe[r].job]) /\ "loaded" \in FinStates
    BY <1>2 DEF finalize_load, FinStates
  <2> QED
    BY <1>1, <1>2, <2>1, FinMoves DEF finalize_load
<1>3. CASE finalize_commit(r, k) \/ finalize_fails(r, k)
  <2>1. SetFin(r, k, "done", NoRow) /\ "done" \in FinStates
    BY <1>3 DEF finalize_commit, finalize_fails, FinStates
  <2>2. fin[r][k].pc \in {"queued", "loaded"} /\ UNCHANGED <<results, pipe, chord, task>>
    BY <1>3 DEF finalize_commit, finalize_fails
  <2> QED
    BY <1>1, <2>1, <2>2, FinMoves
<1> QED
  BY <1>2, <1>3 DEF FinalizeStep

\* the steps of a run's fetch task
LEMMA EnsureStepKeepsChord ==
    ASSUME TypeOK, ChordInv, NEW r \in Runs, EnsureStep(r) \/ on_fetch_failure_raises(r)
    PROVE  ChordInv'
<1>1. CASE ensure_succeed(r)
  BY <1>1, ensure_succeedKeepsChord
<1>2. CASE \/ ensure_start(r) \/ ensure_retry(r) \/ ensure_fail(r)
           \/ on_fetch_failure_load(r) \/ on_fetch_failure_commit(r)
           \/ on_fetch_failure_raises(r)
  <2>1. pipe[r].stage # "done" /\ UNCHANGED <<results, chord, task, fin>>
    BY <1>2 DEF ensure_start, ensure_retry, ensure_fail, on_fetch_failure_load,
                on_fetch_failure_commit, on_fetch_failure_raises
  <2>2. \A q \in Runs : q # r => pipe'[q] = pipe[q]
    <3>1. \E st, n, row : SetPipe(r, st, n, row)
      BY <1>2 DEF ensure_start, ensure_retry, ensure_fail, on_fetch_failure_load,
                  on_fetch_failure_commit, on_fetch_failure_raises, SetStage
    <3> QED
      BY <3>1 DEF SetPipe
  <2> QED
    BY <2>1, <2>2, StageKeepsChord
<1> QED
  BY <1>1, <1>2 DEF EnsureStep

\* one case per disjunct of Next; without redelivery, three of them never happen
LEMMA NextKeepsChord ==
    ASSUME NoRedelivery, Inv, ChordInv, Next
    PROVE  ChordInv'
<1>1. CASE \/ \E j \in Jobs : create_backtest_job(j)
           \/ \E c \in Clients, j \in Jobs : dispatch_read(c, j)
           \/ \E c \in Clients : dispatch_load(c) \/ dispatch_mark(c)
           \/ \E c \in Clients : dispatch_backtest_raises(c) \/ request_dies(c)
  <2>1. UNCHANGED <<results, pipe, chord, task, fin>>
    BY <1>1 DEF create_backtest_job, dispatch_read, dispatch_load, dispatch_mark,
                dispatch_backtest_raises, request_dies
  <2> QED
    BY <2>1, PipelinesStay
<1>2. CASE \E c \in Clients, r \in Runs : dispatch_backtest(c, r)
  <2> PICK c \in Clients, r \in Runs : dispatch_backtest(c, r)
    BY <1>2
  <2>1. /\ pipe[r].stage # "done" /\ UNCHANGED <<results, chord, task, fin>>
        /\ \A q \in Runs : q # r => pipe'[q] = pipe[q]
    BY DEF dispatch_backtest
  <2> QED
    BY <2>1, StageKeepsChord DEF Inv
<1>3. CASE \E r \in Runs : RunStep(r)
  BY <1>3, EnsureStepKeepsChord, FinStepKeepsChord, TaskStepKeepsChord DEF RunStep, Inv
<1>4. CASE \E r \in Runs :
             \/ on_fetch_failure_raises(r)
             \/ \E k \in Gens :
                  \/ finalize_fails(r, k)
                  \/ \E s \in Symbols : \/ run_backtest_commit_error(r, k, s)
                                        \/ run_backtest_lost(r, k, s)
  BY <1>4, EnsureStepKeepsChord, FinStepKeepsChord, TaskStepKeepsChord DEF Inv
<1>5. \A r \in Runs, k \in Gens, s \in Symbols :
        ~(ensure_redelivered(r) \/ finalize_redelivered(r, k) \/ run_backtest_redelivered(r, k, s))
  BY DEF NoRedelivery, Fault, ensure_redelivered, finalize_redelivered, run_backtest_redelivered
<1>6. Symbols # {}
  BY SymbolsAssumption
<1>7. CASE FaultStep
  BY <1>1, <1>4, <1>5, <1>6, <1>7, ZeroIsGen DEF FaultStep
<1> QED
  BY <1>1, <1>2, <1>3, <1>7 DEF Next, RequestStep

\* no run has a chord at first
LEMMA InitEstablishesChord ==
    ASSUME Init
    PROVE  ChordInv
BY ZeroIsGen DEF Init, ChordInv, ChordOf, First, Fresh, Counts, Parts, Callback, NoPipe, NoFin

\* nor where nothing moves
LEMMA StutterKeepsChord ==
    ASSUME ChordInv, UNCHANGED vars
    PROVE  ChordInv'
BY PipelinesStay DEF vars

(* Without redelivery, the invariant of the chord holds in every behaviour: *)
(* each pipeline publishes one chord, counts each part once, and stores one *)
(* row for each symbol that says ok.                                        *)
THEOREM ChordHolds == ASSUME NoRedelivery PROVE Spec => [](CompletedInv /\ ChordInv)
<1>1. Init => ChordInv
  BY InitEstablishesChord
<1>2. CompletedInv /\ ChordInv /\ [Next]_vars => ChordInv'
  BY NextKeepsChord, StutterKeepsChord DEF CompletedInv
<1> QED
  BY <1>1, <1>2, InvHolds, PTL DEF Spec

\* what the invariant says of a callback, whatever its number
LEMMA CallbackFacts ==
    ASSUME ChordInv, NEW r \in Runs, NEW k \in Gens, fin[r][k].pc # "none"
    PROVE  /\ k = 0 /\ \A s \in Symbols : task[r][k][s] = "done"
           /\ "db" \notin Faults => (fin[r][k].ok <=> \A s \in Symbols : results[r][s] = 1)
BY DEF ChordInv, ChordOf, First, Callback

(* A chord's callback is published only when all its symbol tasks are done *)
(* ("A chord callback runs after all of the symbol tasks are complete",    *)
(* dispatch_backtest_job), for any number of clients and pipelines and     *)
(* whatever fails or dies, as long as no message is delivered again.       *)
THEOREM CallbackAfterTasks == ASSUME NoRedelivery PROVE Spec => []FinalizeAfterAllTasks
<1>1. ChordInv => FinalizeAfterAllTasks
  BY CallbackFacts DEF FinalizeAfterAllTasks
<1> QED
  BY <1>1, ChordHolds, PTL

(* A callback's verdict is the truth about the run's rows, for any number  *)
(* of clients and pipelines, when no message is delivered again and no     *)
(* commit is answered with an error (finalize_backtest_job).  Children may *)
(* die and requests may fail at any step.                                  *)
THEOREM VerdictIsTrue ==
    ASSUME NoRedelivery, "db" \notin Faults
    PROVE  Spec => []VerdictMatchesResults
<1>1. ChordInv => VerdictMatchesResults
  BY CallbackFacts DEF VerdictMatchesResults
<1> QED
  BY <1>1, ChordHolds, PTL

-------------------------------------------------------------------------------
(* One request at a time: the invariant of rows, requests and sessions.    *)

\* a row's columns agree
RowOk(row) ==
    /\ row.error # "none" <=> row.status = "FAILED"
    /\ row.status \in Terminal => row.ended = "after_start"

\* who works for a job has its row say RUNNING
WorkOk(r) == Working(r) => job[pipe[r].job].status = "RUNNING"

\* a request goes on from what it read, and marks a job nobody works for
RequestOk(c) ==
    /\ request[c].pc \in {"read", "loaded"} => may_dispatch(job[request[c].job])
    /\ request[c].pc = "loaded" => request[c].seen = job[request[c].job]
    /\ request[c].pc = "marked" =>
         /\ job[request[c].job].status = "RUNNING"
         /\ \A r \in Runs : pipe[r].job = request[c].job => ~Working(r)

\* what a worker's session loaded is still the row
SeenOk(r) ==
    /\ pipe[r].stage = "loaded" => pipe[r].seen = job[pipe[r].job]
    /\ \A k \in Gens : fin[r][k].pc = "loaded" => fin[r][k].seen = job[pipe[r].job]

SerialInv ==
    /\ \A j \in Jobs : RowOk(job[j])
    /\ \A r \in Runs : WorkOk(r) /\ SeenOk(r)
    /\ \A c \in Clients : RequestOk(c)
    /\ AtMostOnePipeline

\* an UPDATE from a session that saw the row as it is writes every column
LEMMA FreshUpdate ==
    ASSUME NEW row \in Row, NEW st \in Statuses, NEW err \in Errors,
           st = "FAILED" <=> err # "none"
    PROVE  LET new == update_job_status(row, row, st, err)
           IN  new \in Row /\ new.status = st /\ RowOk(new)
<1> DEFINE new == update_job_status(row, row, st, err)
<1>1. new \in Row
  BY RowType
<1>2. new.status = st /\ new.error = err
  BY DEF update_job_status
<1>3. st \in Terminal => new.ended = "after_start"
  BY DEF update_job_status
<1> QED
  BY <1>1, <1>2, <1>3 DEF RowOk

\* only a run that was published works
LEMMA WorkersHaveJobs ==
    ASSUME JobsInv, NEW r \in Runs, Working(r)
    PROVE  pipe[r].stage # "none" /\ pipe[r].job \in Jobs
<1>1. pipe[r].stage # "none"
  <2>1. CASE pipe[r].stage \in {"queued", "running", "on_failure", "loaded"}
    BY <2>1
  <2>2. CASE \E k \in Gens : fin[r][k].pc # "none"
    BY <2>2 DEF JobsInv
  <2>3. CASE \E k \in Gens, s \in Symbols : task[r][k][s] # "none"
    BY <2>3 DEF JobsInv
  <2> QED
    BY <2>1, <2>2, <2>3 DEF Working
<1> QED
  BY <1>1 DEF JobsInv

\* a run that a step does not touch works on, or does not
LEMMA WorksOn ==
    ASSUME NEW r \in Runs, pipe'[r] = pipe[r], task'[r] = task[r], fin'[r] = fin[r]
    PROVE  Working(r)' <=> Working(r)
BY DEF Working

-------------------------------------------------------------------------------
(* Three kinds of step, by what they write.                                *)

\* no row is written, and nobody starts to work
LEMMA QuietStep ==
    ASSUME SerialInv, job' = job,
           \A r \in Runs : /\ pipe'[r].job = pipe[r].job
                           /\ Working(r)' => Working(r)
                           /\ SeenOk(r)',
           \A c \in Clients : request'[c] = request[c] \/ RequestOk(c)'
    PROVE  SerialInv'
<1>1. \A j \in Jobs : RowOk(job[j])'
  BY DEF SerialInv
<1>2. \A r \in Runs : WorkOk(r)' /\ SeenOk(r)'
  <2> SUFFICES ASSUME NEW r \in Runs
               PROVE  WorkOk(r)' /\ SeenOk(r)'
    OBVIOUS
  <2>1. Working(r)' => Working(r)
    OBVIOUS
  <2>2. Working(r) => job[pipe[r].job].status = "RUNNING"
    BY DEF SerialInv, WorkOk
  <2>3. pipe'[r].job = pipe[r].job /\ SeenOk(r)'
    OBVIOUS
  <2> QED
    BY <2>1, <2>2, <2>3 DEF WorkOk
<1>3. ASSUME NEW c \in Clients, request'[c] = request[c]
      PROVE  RequestOk(c)'
  <2>1. \A r \in Runs : pipe'[r].job = request[c].job /\ Working(r)' =>
          pipe[r].job = request[c].job /\ Working(r)
    OBVIOUS
  <2>2. RequestOk(c)
    BY DEF SerialInv
  <2> QED
    BY <1>3, <2>1, <2>2 DEF RequestOk
<1>4. AtMostOnePipeline'
  <2> SUFFICES ASSUME NEW q \in Runs, NEW r \in Runs,
                      Working(q)', Working(r)', pipe'[q].job = pipe'[r].job
               PROVE  q = r
    BY DEF AtMostOnePipeline
  <2>1. Working(q) /\ Working(r) /\ pipe[q].job = pipe[r].job
    OBVIOUS
  <2> QED
    BY <2>1 DEF SerialInv, AtMostOnePipeline
<1> QED
  BY <1>1, <1>2, <1>3, <1>4 DEF SerialInv

\* one run moves and no row is written
LEMMA QuietRun ==
    ASSUME SerialInv, NEW r \in Runs, UNCHANGED <<job, request>>,
           pipe'[r].job = pipe[r].job, Working(r)' => Working(r), SeenOk(r)',
           \A q \in Runs : q # r => /\ pipe'[q] = pipe[q] /\ task'[q] = task[q]
                                    /\ fin'[q] = fin[q]
    PROVE  SerialInv'
<1>1. ASSUME NEW q \in Runs
      PROVE  pipe'[q].job = pipe[q].job /\ (Working(q)' => Working(q)) /\ SeenOk(q)'
  <2>1. CASE q # r
    BY <2>1, WorksOn DEF SerialInv, SeenOk
  <2> QED
    BY <2>1
<1> QED
  BY <1>1, QuietStep

\* a row is written that nobody works for, or no more
LEMMA RowStep ==
    ASSUME Inv, SerialInv, NEW j \in Jobs, NEW row, RowOk(row),
           \A i \in Jobs : job'[i] = IF i = j THEN row ELSE job[i],
           \A r \in Runs :
               /\ pipe'[r].job = pipe[r].job
               /\ \/ ~Working(r)'
                  \/ /\ Working(r) /\ pipe[r].job # j
                     /\ pipe'[r] = pipe[r] /\ fin'[r] = fin[r],
           \A c \in Clients :
               \/ RequestOk(c)'
               \/ request'[c] = request[c] /\ (request[c].pc = "idle" \/ request[c].job # j)
    PROVE  SerialInv'
<1>1. \A i \in Jobs : RowOk(job[i])'
  BY DEF SerialInv
<1>2. ASSUME NEW r \in Runs
      PROVE  WorkOk(r)' /\ SeenOk(r)'
  <2>1. CASE ~Working(r)'
    BY <2>1 DEF WorkOk, SeenOk, Working
  <2>2. CASE Working(r) /\ pipe[r].job # j /\ pipe'[r] = pipe[r] /\ fin'[r] = fin[r]
    <3>1. job'[pipe[r].job] = job[pipe[r].job]
      BY <2>2, WorkersHaveJobs DEF Inv
    <3> QED
      BY <2>2, <3>1 DEF SerialInv, WorkOk, SeenOk
  <2> QED
    BY <2>1, <2>2
<1>3. ASSUME NEW c \in Clients, request'[c] = request[c],
             request[c].pc = "idle" \/ request[c].job # j
      PROVE  RequestOk(c)'
  <2>1. CASE request[c].pc = "idle"
    BY <1>3, <2>1 DEF RequestOk
  <2>2. CASE request[c].pc # "idle" /\ request[c].job # j
    <3>1. job'[request[c].job] = job[request[c].job]
      BY <2>2 DEF Inv, JobsInv
    <3>2. \A r \in Runs : pipe'[r].job = request[c].job /\ Working(r)' =>
            pipe[r].job = request[c].job /\ Working(r)
      OBVIOUS
    <3> QED
      BY <1>3, <3>1, <3>2 DEF SerialInv, RequestOk
  <2> QED
    BY <1>3, <2>1, <2>2
<1>4. AtMostOnePipeline'
  <2> SUFFICES ASSUME NEW q \in Runs, NEW r \in Runs,
                      Working(q)', Working(r)', pipe'[q].job = pipe'[r].job
               PROVE  q = r
    BY DEF AtMostOnePipeline
  <2> QED
    BY DEF SerialInv, AtMostOnePipeline
<1> QED
  BY <1>1, <1>2, <1>3, <1>4 DEF SerialInv

-------------------------------------------------------------------------------
(* The steps of a pipeline.                                                *)

\* before the fetch task is done there is no chord, afterwards no fetch task
LEMMA ChordStages ==
    ASSUME ChordInv, NEW r \in Runs
    PROVE  /\ pipe[r].stage # "done" =>
                \A k \in Gens : fin[r][k].pc = "none" /\ \A s \in Symbols : task[r][k][s] = "none"
           /\ \A k \in Gens : fin[r][k].pc # "none" =>
                /\ k = 0 /\ pipe[r].stage = "done"
                /\ \A s \in Symbols : task[r][0][s] = "done"
           /\ \A k \in Gens \ {0}, s \in Symbols : task[r][k][s] = "none"
           /\ \A k \in Gens, s \in Symbols : task[r][k][s] # "none" => pipe[r].stage = "done"
BY ZeroIsGen DEF ChordInv, ChordOf, First, Fresh, Callback

\* what a step of the fetch task writes to its message
LEMMA PipeUpdate ==
    ASSUME TypeOK, NEW r \in Runs, NEW st, NEW n, NEW row, SetPipe(r, st, n, row)
    PROVE  /\ pipe'[r].stage = st /\ pipe'[r].seen = row
           /\ \A q \in Runs : pipe'[q].job = pipe[q].job
           /\ \A q \in Runs : q # r => pipe'[q] = pipe[q]
<1> DEFINE p == [job |-> pipe[r].job, stage |-> st, tries |-> n, seen |-> row]
<1>1. p.stage = st /\ p.seen = row /\ p.job = pipe[r].job
  OBVIOUS
<1>2. pipe' = [pipe EXCEPT ![r] = p] /\ DOMAIN pipe = Runs
  BY DEF SetPipe, TypeOK
<1> HIDE DEF p
<1> QED
  BY <1>1, <1>2

\* the fetch task's steps but success and the verdict
LEMMA EnsureMovesSerial ==
    ASSUME Inv, ChordInv, SerialInv, NEW r \in Runs,
           \/ ensure_start(r) \/ ensure_retry(r) \/ ensure_fail(r)
           \/ on_fetch_failure_load(r) \/ on_fetch_failure_raises(r)
    PROVE  SerialInv'
<1>1. /\ pipe[r].stage \in {"queued", "running", "on_failure", "loaded"}
      /\ UNCHANGED <<job, request, chord, task, fin>>
  BY DEF ensure_start, ensure_retry, ensure_fail, on_fetch_failure_load, on_fetch_failure_raises
<1>2. \E st, n, row : SetPipe(r, st, n, row) /\ (st = "loaded" => row = job[pipe[r].job])
  BY DEF ensure_start, ensure_retry, ensure_fail, on_fetch_failure_load,
         on_fetch_failure_raises, SetStage
<1> PICK st, n, row : SetPipe(r, st, n, row) /\ (st = "loaded" => row = job[pipe[r].job])
  BY <1>2
<1>3. /\ pipe'[r].stage = st /\ pipe'[r].seen = row
      /\ \A q \in Runs : pipe'[q].job = pipe[q].job
      /\ \A q \in Runs : q # r => pipe'[q] = pipe[q]
  BY PipeUpdate DEF Inv
<1>4. Working(r)
  BY <1>1 DEF Working
<1>5. SeenOk(r)'
  BY <1>1, <1>3 DEF SerialInv, SeenOk
<1> QED
  BY <1>1, <1>3, <1>4, <1>5, QuietRun

\* the fetch task succeeds and publishes the chord
LEMMA ensure_succeedSerial ==
    ASSUME Inv, ChordInv, SerialInv, NEW r \in Runs, ensure_succeed(r)
    PROVE  SerialInv'
<1>1. /\ pipe[r].stage = "running" /\ UNCHANGED <<job, request>>
      /\ SetPipe(r, "done", pipe[r].tries, NoRow)
  BY DEF ensure_succeed, SetStage
<1>2. fin' = fin /\ \A q \in Runs : q # r => task'[q] = task[q]
  BY ensure_succeedKeepsChord DEF Inv
<1>3. /\ pipe'[r].stage = "done"
      /\ \A q \in Runs : pipe'[q].job = pipe[q].job
      /\ \A q \in Runs : q # r => pipe'[q] = pipe[q]
  BY <1>1, PipeUpdate DEF Inv
<1>4. Working(r)
  BY <1>1 DEF Working
<1>5. SeenOk(r)'
  BY <1>1, <1>2, <1>3 DEF SerialInv, SeenOk
<1> QED
  BY <1>1, <1>2, <1>3, <1>4, <1>5, QuietRun

\* the failure handler's verdict, the last thing a run does
LEMMA on_fetch_failure_commitSerial ==
    ASSUME Inv, ChordInv, SerialInv, NEW r \in Runs, on_fetch_failure_commit(r)
    PROVE  SerialInv'
<1> DEFINE j   == pipe[r].job
           row == update_job_status(job[j], pipe[r].seen, "FAILED", "fetch")
<1>1. /\ pipe[r].stage = "loaded" /\ job' = [job EXCEPT ![j] = row]
      /\ SetPipe(r, "done", pipe[r].tries, NoRow)
      /\ UNCHANGED <<request, task, fin>>
  BY DEF on_fetch_failure_commit, SetStage
<1>2. Working(r)
  BY <1>1 DEF Working
<1>3. j \in Jobs /\ pipe[r].seen = job[j] /\ job[j].status = "RUNNING"
  BY <1>1, <1>2, WorkersHaveJobs DEF Inv, SerialInv, SeenOk, WorkOk
<1>4. job \in [Jobs -> Row]
  BY DEF Inv, TypeOK
<1>5. row \in Row /\ RowOk(row)
  <2>1. job[j] \in Row /\ "FAILED" \in Statuses /\ "fetch" \in Errors
    BY <1>3, <1>4 DEF Statuses, Errors
  <2> QED
    BY <1>3, <2>1, FreshUpdate
<1> HIDE DEF row
<1>6. \A i \in Jobs : job'[i] = IF i = j THEN row ELSE job[i]
  BY <1>1, <1>3, <1>4
<1>7. /\ pipe'[r].stage = "done"
      /\ \A q \in Runs : pipe'[q].job = pipe[q].job
      /\ \A q \in Runs : q # r => pipe'[q] = pipe[q]
  BY <1>1, PipeUpdate DEF Inv
<1>8. ~Working(r)'
  <2>1. \A k \in Gens : fin[r][k].pc = "none" /\ \A s \in Symbols : task[r][k][s] = "none"
    BY <1>1, ChordStages
  <2> QED
    BY <1>1, <1>7, <2>1 DEF Working
<1>9. ASSUME NEW q \in Runs, Working(q)'
      PROVE  Working(q) /\ pipe[q].job # j /\ pipe'[q] = pipe[q] /\ fin'[q] = fin[q]
  <2>1. q # r
    BY <1>8, <1>9
  <2>2. Working(q) /\ pipe'[q] = pipe[q] /\ fin'[q] = fin[q]
    BY <1>1, <1>7, <1>9, <2>1, WorksOn
  <2> QED
    BY <1>2, <2>1, <2>2 DEF SerialInv, AtMostOnePipeline
<1>10. \A c \in Clients : request[c].pc = "idle" \/ request[c].job # j
  BY <1>2, <1>3 DEF Inv, TypeOK, RequestPcs, SerialInv, RequestOk, may_dispatch
<1> HIDE DEF j
<1> QED
  BY <1>1, <1>3, <1>5, <1>6, <1>7, <1>9, <1>10, RowStep

\* a symbol task starts, stores its row, or reports
LEMMA TaskStepSerial ==
    ASSUME Inv, ChordInv, SerialInv, NEW r \in Runs, NEW k \in Gens, NEW s \in Symbols,
           \/ TaskStep(r, k, s)
           \/ run_backtest_commit_error(r, k, s) \/ run_backtest_lost(r, k, s)
    PROVE  SerialInv'
<1>1. CASE run_backtest_start(r, k, s) \/ save_job_result(r, k, s)
  <2>1. /\ task[r][k][s] \in {"queued", "running"} /\ UNCHANGED <<job, request, pipe, fin>>
        /\ \E st : SetTask(r, k, s, st)
    BY <1>1 DEF run_backtest_start, save_job_result
  <2>2. Working(r)
    BY <2>1 DEF Working
  <2>3. SeenOk(r)'
    BY <2>1 DEF SerialInv, SeenOk
  <2>4. \A q \in Runs : q # r => task'[q] = task[q]
    BY <2>1 DEF SetTask
  <2> QED
    BY <2>1, <2>2, <2>3, <2>4, QuietRun
<1>2. CASE \/ run_backtest_ok(r, k, s) \/ run_backtest_error(r, k, s)
           \/ run_backtest_commit_error(r, k, s) \/ run_backtest_lost(r, k, s)
  <2>1. PICK outcome \in Outcomes :
          /\ on_chord_part_return(r, s, outcome)
          /\ outcome # "lost" => task[r][k][s] # "done"
          /\ outcome = "ok" => task[r][k][s] = "saved"
          /\ outcome = "error" /\ "db" \notin Faults => task[r][k][s] = "running"
    BY <1>2 DEF Outcomes, Fault, run_backtest_ok, run_backtest_error, run_backtest_commit_error,
                run_backtest_lost
  <2>2. /\ SetTask(r, k, s, "done") /\ task[r][k][s] \in {"running", "saved", "done"}
        /\ UNCHANGED <<job, results, request, pipe>>
    BY <1>2 DEF run_backtest_ok, run_backtest_error, run_backtest_commit_error,
                run_backtest_lost
  <2>3. /\ fin' = fin \/ outcome # "lost"
        /\ \A q \in Runs : q # r => task'[q] = task[q] /\ fin'[q] = fin[q]
        /\ \A m \in Gens : fin'[r][m] = fin[r][m] \/ fin'[r][m].pc = "queued"
    BY <2>1, <2>2, ReportKeepsChord DEF Inv
  <2>4. SeenOk(r)'
    BY <2>2, <2>3 DEF SerialInv, SeenOk
  <2>5. Working(r)' => Working(r)
    <3>1. CASE task[r][k][s] # "done"
      BY <2>2, <3>1 DEF Working
    <3>2. CASE task[r][k][s] = "done"
      <4>1. task \in [Runs -> [Gens -> [Symbols -> TaskStates]]]
        BY DEF Inv, TypeOK
      <4>2. \A m \in Gens, t \in Symbols : task'[r][m][t] = task[r][m][t]
        BY <2>2, <3>2, <4>1, TaskUpdate DEF TaskStates
      <4> QED
        BY <2>1, <2>2, <2>3, <3>2, <4>2 DEF Working
    <3> QED
      BY <3>1, <3>2
  <2> QED
    BY <2>2, <2>3, <2>4, <2>5, QuietRun
<1> QED
  BY <1>1, <1>2 DEF TaskStep

\* the callback loads the row, or fails
LEMMA FinMovesSerial ==
    ASSUME Inv, ChordInv, SerialInv, NEW r \in Runs, NEW k \in Gens,
           finalize_load(r, k) \/ finalize_fails(r, k)
    PROVE  SerialInv'
<1>1. /\ fin[r][k].pc \in {"queued", "loaded"}
      /\ UNCHANGED <<job, results, request, pipe, chord, task>>
  BY DEF finalize_load, finalize_fails
<1>2. Working(r)
  BY <1>1 DEF Working
<1>3. job[pipe[r].job] \in Row /\ NoRow \in Row
  BY <1>2, NoRowType, WorkersHaveJobs DEF Inv, TypeOK
<1>4. PICK st \in {"loaded", "done"}, row \in Row :
        SetFin(r, k, st, row) /\ (st = "loaded" => row = job[pipe[r].job])
  BY <1>3 DEF finalize_load, finalize_fails
<1>5. /\ \A q \in Runs : q # r => fin'[q] = fin[q]
      /\ \A m \in Gens \ {0} : fin'[r][m] = fin[r][m]
      /\ fin'[r][0].pc = st /\ fin'[r][0].seen = row
  BY <1>1, <1>4, FinMoves DEF Inv, FinStates
<1>6. SeenOk(r)'
  BY <1>1, <1>4, <1>5 DEF SerialInv, SeenOk
<1> QED
  BY <1>1, <1>2, <1>5, <1>6, QuietRun

\* the callback's verdict, the last thing a run does
LEMMA finalize_commitSerial ==
    ASSUME Inv, ChordInv, SerialInv, NEW r \in Runs, NEW k \in Gens, finalize_commit(r, k)
    PROVE  SerialInv'
<1> DEFINE j    == pipe[r].job
           good == update_job_status(job[j], fin[r][k].seen, "COMPLETED", "none")
           bad  == update_job_status(job[j], fin[r][k].seen, "FAILED", "symbols")
           row  == IF fin[r][k].ok THEN good ELSE bad
<1>1. /\ fin[r][k].pc = "loaded" /\ job' = [job EXCEPT ![j] = row]
      /\ SetFin(r, k, "done", NoRow)
      /\ UNCHANGED <<results, request, pipe, chord, task>>
  BY DEF finalize_commit
<1>2. Working(r)
  BY <1>1 DEF Working
<1>3. j \in Jobs /\ fin[r][k].seen = job[j] /\ job[j].status = "RUNNING"
  BY <1>1, <1>2, WorkersHaveJobs DEF Inv, SerialInv, SeenOk, WorkOk
<1>4. job \in [Jobs -> Row]
  BY DEF Inv, TypeOK
<1>5. RowOk(row)
  <2>1. job[j] \in Row /\ {"COMPLETED", "FAILED"} \subseteq Statuses
        /\ {"none", "symbols"} \subseteq Errors
    BY <1>3, <1>4 DEF Statuses, Errors
  <2>2. RowOk(good) /\ RowOk(bad)
    BY <1>3, <2>1, FreshUpdate
  <2> QED
    BY <2>2
<1> HIDE DEF row
<1>6. \A i \in Jobs : job'[i] = IF i = j THEN row ELSE job[i]
  BY <1>1, <1>3, <1>4
<1>7. /\ k = 0 /\ fin'[r][0].pc = "done"
      /\ \A q \in Runs : q # r => fin'[q] = fin[q]
      /\ \A m \in Gens \ {0} : fin'[r][m] = fin[r][m]
  BY <1>1, NoRowType, FinMoves DEF Inv, FinStates
<1>8. ~Working(r)'
  <2>1. /\ pipe[r].stage = "done" /\ \A s \in Symbols : task[r][0][s] = "done"
        /\ \A m \in Gens \ {0} : fin[r][m].pc = "none"
        /\ \A m \in Gens \ {0}, s \in Symbols : task[r][m][s] = "none"
    BY <1>1, <1>7, ChordStages
  <2> QED
    BY <1>1, <1>7, <2>1 DEF Working
<1>9. ASSUME NEW q \in Runs, Working(q)'
      PROVE  Working(q) /\ pipe[q].job # j /\ pipe'[q] = pipe[q] /\ fin'[q] = fin[q]
  <2>1. q # r
    BY <1>8, <1>9
  <2>2. Working(q) /\ pipe'[q] = pipe[q] /\ fin'[q] = fin[q]
    BY <1>1, <1>7, <1>9, <2>1, WorksOn
  <2> QED
    BY <1>2, <2>1, <2>2 DEF SerialInv, AtMostOnePipeline
<1>10. \A c \in Clients : request[c].pc = "idle" \/ request[c].job # j
  BY <1>2, <1>3 DEF Inv, TypeOK, RequestPcs, SerialInv, RequestOk, may_dispatch
<1> HIDE DEF j
<1> QED
  BY <1>1, <1>3, <1>5, <1>6, <1>9, <1>10, RowStep

-------------------------------------------------------------------------------
(* The steps of the API.                                                   *)

\* a job is created: nobody asked for it before
LEMMA create_backtest_jobSerial ==
    ASSUME Inv, SerialInv, NEW j \in Jobs, create_backtest_job(j)
    PROVE  SerialInv'
<1> DEFINE row == [NoRow EXCEPT !.status = "CREATED"]
<1>1. /\ job[j].status = "ABSENT" /\ job' = [job EXCEPT ![j] = row]
      /\ UNCHANGED <<request, pipe, task, fin>>
  BY DEF create_backtest_job
<1>2. RowOk(row)
  BY DEF RowOk, NoRow, Terminal
<1> HIDE DEF row
<1>3. \A i \in Jobs : job'[i] = IF i = j THEN row ELSE job[i]
  BY <1>1 DEF Inv, TypeOK
<1>4. \A r \in Runs : Working(r) => pipe[r].job # j
  BY <1>1 DEF SerialInv, WorkOk
<1>5. \A r \in Runs : Working(r)' <=> Working(r)
  BY <1>1, WorksOn
<1>6. \A c \in Clients : request[c].pc = "idle" \/ request[c].job # j
  BY <1>1 DEF Inv, TypeOK, RequestPcs, SerialInv, RequestOk, may_dispatch
<1> QED
  BY <1>1, <1>2, <1>3, <1>4, <1>5, <1>6, RowStep

\* a step of the only request there is
LEMMA OneRequest ==
    ASSUME OneClient, NEW c \in Clients, RequestOk(c)'
    PROVE  \A d \in Clients : RequestOk(d)'
BY DEF OneClient

\* a request reads or loads the row, or ends
LEMMA RequestQuietSerial ==
    ASSUME OneClient, Inv, SerialInv, NEW c \in Clients,
           \/ \E j \in Jobs : dispatch_read(c, j)
           \/ dispatch_load(c) \/ dispatch_backtest_raises(c) \/ request_dies(c)
    PROVE  SerialInv'
<1>1. UNCHANGED <<job, pipe, task, fin>>
  BY DEF dispatch_read, dispatch_load, dispatch_backtest_raises, request_dies
<1>2. RequestOk(c)'
  <2>1. CASE \E j \in Jobs : dispatch_read(c, j)
    <3> PICK j \in Jobs : dispatch_read(c, j)
      BY <2>1
    <3>1. request'[c] = [pc |-> "read", job |-> j, seen |-> NoRow] /\ may_dispatch(job[j])
      BY DEF dispatch_read, Inv, TypeOK
    <3> QED
      BY <1>1, <3>1 DEF RequestOk
  <2>2. CASE dispatch_load(c)
    <3>1. /\ request'[c] = [pc |-> "loaded", job |-> request[c].job, seen |-> job[request[c].job]]
          /\ request[c].pc = "read"
      BY <2>2 DEF dispatch_load, Inv, TypeOK
    <3> QED
      BY <1>1, <3>1 DEF SerialInv, RequestOk
  <2>3. CASE dispatch_backtest_raises(c) \/ request_dies(c)
    <3>1. request'[c] = Idle
      BY <2>3 DEF dispatch_backtest_raises, request_dies, Inv, TypeOK
    <3> QED
      BY <3>1 DEF RequestOk, Idle
  <2> QED
    BY <2>1, <2>2, <2>3
<1>3. ASSUME NEW r \in Runs
      PROVE  pipe'[r].job = pipe[r].job /\ (Working(r)' => Working(r)) /\ SeenOk(r)'
  BY <1>1, WorksOn DEF SerialInv, SeenOk
<1> QED
  BY <1>1, <1>2, <1>3, OneRequest, QuietStep

\* the request marks a job that nobody works for, from the row as it is
LEMMA dispatch_markSerial ==
    ASSUME OneClient, Inv, SerialInv, NEW c \in Clients, dispatch_mark(c)
    PROVE  SerialInv'
<1> DEFINE j   == request[c].job
           row == update_job_status(job[j], request[c].seen, "RUNNING", "none")
           q   == [pc |-> "marked", job |-> j, seen |-> NoRow]
<1>1. /\ request[c].pc = "loaded" /\ job' = [job EXCEPT ![j] = row]
      /\ request' = [request EXCEPT ![c] = q]
      /\ UNCHANGED <<pipe, task, fin>>
  BY DEF dispatch_mark
<1>2. j \in Jobs /\ request[c].seen = job[j] /\ may_dispatch(job[j])
  BY <1>1 DEF Inv, JobsInv, SerialInv, RequestOk
<1>3. job \in [Jobs -> Row] /\ DOMAIN request = Clients
  BY DEF Inv, TypeOK
<1>4. RowOk(row) /\ row.status = "RUNNING"
  <2>1. job[j] \in Row /\ "RUNNING" \in Statuses /\ "none" \in Errors
    BY <1>2, <1>3 DEF Statuses, Errors
  <2> QED
    BY <1>2, <2>1, FreshUpdate
<1>5. request'[c].pc = "marked" /\ request'[c].job = j
  BY <1>1, <1>3
<1> HIDE DEF row
<1>6. \A i \in Jobs : job'[i] = IF i = j THEN row ELSE job[i]
  BY <1>1, <1>2, <1>3
<1>7. \A r \in Runs : Working(r) => pipe[r].job # j
  BY <1>2 DEF SerialInv, WorkOk, may_dispatch
<1>8. \A r \in Runs : Working(r)' <=> Working(r)
  BY <1>1, WorksOn
<1>9. RequestOk(c)'
  <2>1. job'[j].status = "RUNNING"
    BY <1>2, <1>4, <1>6
  <2>2. \A r \in Runs : pipe'[r].job = j => ~Working(r)'
    BY <1>1, <1>7, <1>8
  <2> HIDE DEF j
  <2> QED
    BY <1>5, <2>1, <2>2 DEF RequestOk
<1> HIDE DEF j
<1> QED
  BY <1>1, <1>2, <1>4, <1>6, <1>7, <1>8, <1>9, OneRequest, RowStep

\* the pipeline is published: the only one that works for its job
LEMMA dispatch_backtestSerial ==
    ASSUME OneClient, Inv, ChordInv, SerialInv, NEW c \in Clients, NEW r \in Runs,
           dispatch_backtest(c, r)
    PROVE  SerialInv'
<1> DEFINE j == request[c].job
<1>1. /\ request[c].pc = "marked" /\ pipe[r].stage = "none" /\ request'[c] = Idle
      /\ pipe'[r] = [job |-> j, stage |-> "queued", tries |-> 0, seen |-> NoRow]
      /\ \A q \in Runs : q # r => pipe'[q] = pipe[q]
      /\ UNCHANGED <<job, task, fin>>
  BY DEF dispatch_backtest, Inv, TypeOK
<1>2. job[j].status = "RUNNING" /\ \A q \in Runs : pipe[q].job = j => ~Working(q)
  BY <1>1 DEF SerialInv, RequestOk
<1>3. \A q \in Runs : q # r => (Working(q)' <=> Working(q))
  BY <1>1, WorksOn
<1> HIDE DEF j
<1>4. \A d \in Clients : RequestOk(d)'
  <2>1. RequestOk(c)'
    BY <1>1 DEF RequestOk, Idle
  <2> QED
    BY <2>1, OneRequest
<1>5. \A q \in Runs : WorkOk(q)' /\ SeenOk(q)'
  <2> SUFFICES ASSUME NEW q \in Runs
               PROVE  WorkOk(q)' /\ SeenOk(q)'
    OBVIOUS
  <2>1. CASE q = r
    <3>1. \A k \in Gens : fin[r][k].pc = "none"
      BY <1>1, ChordStages
    <3> QED
      BY <1>1, <1>2, <2>1, <3>1 DEF WorkOk, SeenOk
  <2>2. CASE q # r
    BY <1>1, <1>3, <2>2 DEF SerialInv, WorkOk, SeenOk
  <2> QED
    BY <2>1, <2>2
<1>6. AtMostOnePipeline'
  <2> SUFFICES ASSUME NEW p \in Runs, NEW q \in Runs,
                      Working(p)', Working(q)', pipe'[p].job = pipe'[q].job
               PROVE  p = q
    BY DEF AtMostOnePipeline
  <2>1. CASE p # r /\ q # r
    BY <1>1, <1>3, <2>1 DEF SerialInv, AtMostOnePipeline
  <2>2. CASE p = r \/ q = r
    BY <1>1, <1>2, <1>3, <2>2
  <2> QED
    BY <2>1, <2>2
<1> QED
  BY <1>1, <1>4, <1>5, <1>6 DEF SerialInv

-------------------------------------------------------------------------------
(* The invariant holds.                                                    *)

\* one case per disjunct of Next
LEMMA NextKeepsSerial ==
    ASSUME NoRedelivery, OneClient, Inv, ChordInv, SerialInv, Next
    PROVE  SerialInv'
<1>1. CASE \E j \in Jobs : create_backtest_job(j)
  BY <1>1, create_backtest_jobSerial
<1>2. CASE \E c \in Clients, j \in Jobs : dispatch_read(c, j)
  BY <1>2, RequestQuietSerial
<1>3. CASE \E c \in Clients : RequestStep(c)
  BY <1>3, RequestQuietSerial, dispatch_markSerial, dispatch_backtestSerial DEF RequestStep
<1>4. CASE \E r \in Runs : RunStep(r)
  <2> PICK r \in Runs : RunStep(r)
    BY <1>4
  <2>1. CASE EnsureStep(r)
    BY <2>1, EnsureMovesSerial, ensure_succeedSerial, on_fetch_failure_commitSerial
       DEF EnsureStep
  <2>2. CASE \E k \in Gens : FinalizeStep(r, k)
    BY <2>2, FinMovesSerial, finalize_commitSerial DEF FinalizeStep
  <2>3. CASE \E k \in Gens : \E s \in Symbols : TaskStep(r, k, s)
    BY <2>3, TaskStepSerial
  <2> QED
    BY <2>1, <2>2, <2>3 DEF RunStep
<1>5. CASE FaultStep
  <2>1. CASE \E c \in Clients : dispatch_backtest_raises(c) \/ request_dies(c)
    BY <2>1, RequestQuietSerial
  <2>2. CASE \E r \in Runs : on_fetch_failure_raises(r)
    BY <2>2, EnsureMovesSerial
  <2>3. CASE \E r \in Runs, k \in Gens : finalize_fails(r, k)
    BY <2>3, FinMovesSerial
  <2>4. CASE \E r \in Runs, k \in Gens, s \in Symbols :
               run_backtest_commit_error(r, k, s) \/ run_backtest_lost(r, k, s)
    BY <2>4, TaskStepSerial
  <2>5. \A r \in Runs, k \in Gens, s \in Symbols :
          ~(ensure_redelivered(r) \/ finalize_redelivered(r, k)
            \/ run_backtest_redelivered(r, k, s))
    BY DEF NoRedelivery, Fault, ensure_redelivered, finalize_redelivered,
           run_backtest_redelivered
  <2>6. Symbols # {}
    BY SymbolsAssumption
  <2> QED
    BY <1>5, <2>1, <2>2, <2>3, <2>4, <2>5, <2>6, ZeroIsGen DEF FaultStep
<1> QED
  BY <1>1, <1>2, <1>3, <1>4, <1>5 DEF Next

\* no rows, no requests, nobody at work
LEMMA InitEstablishesSerial ==
    ASSUME Init
    PROVE  SerialInv
<1>1. \A r \in Runs : ~Working(r)
  BY DEF Init, Working, NoPipe, NoFin
<1>2. \A r \in Runs : WorkOk(r) /\ SeenOk(r)
  BY <1>1 DEF WorkOk, SeenOk, Working
<1>3. \A c \in Clients : RequestOk(c)
  BY DEF Init, RequestOk, Idle
<1>4. \A j \in Jobs : RowOk(job[j])
  BY DEF Init, RowOk, NoRow, Terminal
<1> QED
  BY <1>1, <1>2, <1>3, <1>4 DEF SerialInv, AtMostOnePipeline

\* nor where nothing moves
LEMMA StutterKeepsSerial ==
    ASSUME SerialInv, UNCHANGED vars
    PROVE  SerialInv'
<1>1. ASSUME NEW r \in Runs
      PROVE  pipe'[r].job = pipe[r].job /\ (Working(r)' => Working(r)) /\ SeenOk(r)'
  BY WorksOn DEF SerialInv, SeenOk, vars
<1> QED
  BY <1>1, QuietStep DEF vars

(* With one request at a time and without redelivery, rows, requests and   *)
(* sessions agree in every behaviour: nobody writes from a stale row, and  *)
(* nobody works for a job that is not RUNNING.                             *)
THEOREM SerialHolds ==
    ASSUME NoRedelivery, OneClient
    PROVE  Spec => [](CompletedInv /\ ChordInv /\ SerialInv)
<1>1. Init => SerialInv
  BY InitEstablishesSerial
<1>2. CompletedInv /\ ChordInv /\ SerialInv /\ [Next]_vars => SerialInv'
  BY NextKeepsSerial, StutterKeepsSerial DEF CompletedInv
<1> QED
  BY <1>1, <1>2, ChordHolds, PTL DEF Spec

(* One pipeline at a time works for a job (dispatch_backtest_job), when    *)
(* requests come one at a time and no message is delivered again.  The     *)
(* run double_dispatch shows that two clients are enough to break it.      *)
THEOREM OnePipeline == ASSUME NoRedelivery, OneClient PROVE Spec => []AtMostOnePipeline
<1>1. SerialInv => AtMostOnePipeline
  BY DEF SerialInv
<1> QED
  BY <1>1, SerialHolds, PTL

(* The verdict is the last thing written (finalize_backtest_job,           *)
(* _on_fetch_failure): under the same hypotheses a COMPLETED or FAILED job *)
(* has no pipeline at work and ended after it started.                     *)
THEOREM TerminalIsIdle == ASSUME NoRedelivery, OneClient PROVE Spec => []TerminalMeansIdle
<1>1. SerialInv => TerminalMeansIdle
  <2> SUFFICES ASSUME SerialInv, NEW j \in Jobs, job[j].status \in Terminal
               PROVE  /\ job[j].ended = "after_start"
                      /\ \A r \in Runs : pipe[r].job = j => ~Working(r)
    BY DEF TerminalMeansIdle
  <2> QED
    BY DEF SerialInv, RowOk, WorkOk, Terminal
<1> QED
  BY <1>1, SerialHolds, PTL

(* The error column is set exactly on FAILED rows (update_job_status),     *)
(* under the same hypotheses: no commit leaves a column of an older        *)
(* verdict, although it writes only the columns its session saw change.    *)
THEOREM ErrorsAreOfFailures == ASSUME NoRedelivery, OneClient PROVE Spec => []ErrorIffFailed
<1>1. SerialInv => ErrorIffFailed
  BY DEF SerialInv, RowOk, ErrorIffFailed
<1> QED
  BY <1>1, SerialHolds, PTL

-------------------------------------------------------------------------------
(* The pipeline implements JobLifecycle.                                   *)

\* what a client sees of the rows
LifeStatus == [j \in Jobs |-> job[j].status]
LifeStored == [j \in Jobs |-> Stored(j)]

\* the results of a job stay what they are unless a run of it inserts one
LEMMA StoredStays ==
    ASSUME results' = results,
           \A r \in Runs : pipe'[r].job = pipe[r].job \/ \A s \in Symbols : results[r][s] = 0
    PROVE  LifeStored' = LifeStored
<1>1. ASSUME NEW j \in Jobs
      PROVE  Stored(j)' = Stored(j)
  <2>1. \A r \in Runs, s \in Symbols :
          pipe'[r].job = j /\ results'[r][s] > 0 <=> pipe[r].job = j /\ results[r][s] > 0
    OBVIOUS
  <2> QED
    BY <2>1 DEF Stored
<1> QED
  BY <1>1 DEF LifeStored

\* a step that writes no row and stores no result is a stutter
LEMMA QuietIsStutter ==
    ASSUME UNCHANGED <<job, results>>,
           \A r \in Runs : pipe'[r].job = pipe[r].job \/ \A s \in Symbols : results[r][s] = 0
    PROVE  UNCHANGED Lifecycle!lvars
<1>1. LifeStored' = LifeStored
  BY StoredStays
<1>2. LifeStatus' = LifeStatus
  BY DEF LifeStatus
<1> QED
  BY <1>1, <1>2 DEF Lifecycle!lvars, LifeStatus, LifeStored

\* a row that is written is the change of one status
LEMMA RowIsStatus ==
    ASSUME job \in [Jobs -> Row], NEW j \in Jobs, NEW row, job' = [job EXCEPT ![j] = row]
    PROVE  /\ LifeStatus[j] = job[j].status
           /\ LifeStatus' = [LifeStatus EXCEPT ![j] = row.status]
BY DEF LifeStatus

\* creating a job
LEMMA create_backtest_jobIsCreate ==
    ASSUME Inv, NEW j \in Jobs, create_backtest_job(j)
    PROVE  Lifecycle!Create(j)
<1> DEFINE row == [NoRow EXCEPT !.status = "CREATED"]
<1>1. row.status = "CREATED"
  BY DEF NoRow
<1>2. job' = [job EXCEPT ![j] = row] /\ job[j].status = "ABSENT"
  BY DEF create_backtest_job
<1> HIDE DEF row
<1>3. LifeStatus[j] = "ABSENT" /\ LifeStatus' = [LifeStatus EXCEPT ![j] = "CREATED"]
  BY <1>1, <1>2, RowIsStatus DEF Inv, TypeOK
<1>4. LifeStored' = LifeStored
  BY StoredStays DEF create_backtest_job
<1> QED
  BY <1>3, <1>4 DEF Lifecycle!Create, LifeStatus, LifeStored

\* marking a job RUNNING
LEMMA dispatch_markIsStart ==
    ASSUME Inv, SerialInv, NEW c \in Clients, dispatch_mark(c)
    PROVE  \E j \in Jobs : Lifecycle!Start(j)
<1>1. request[c].pc = "loaded" /\ request[c].job \in Jobs
  BY DEF dispatch_mark, Inv, JobsInv
<1> PICK j \in Jobs : j = request[c].job
  BY <1>1
<1> DEFINE row == update_job_status(job[j], request[c].seen, "RUNNING", "none")
<1>2. job' = [job EXCEPT ![j] = row]
  BY DEF dispatch_mark
<1>3. request[c].seen = job[j] /\ may_dispatch(job[j])
  BY <1>1 DEF SerialInv, RequestOk
<1>4. job[j] \in Row /\ job \in [Jobs -> Row]
  BY DEF Inv, TypeOK
<1>5. row.status = "RUNNING"
  BY <1>3 DEF update_job_status, may_dispatch
<1>6. job[j].status \in {"CREATED", "COMPLETED", "FAILED"}
  BY <1>3, <1>4 DEF Row, Statuses, may_dispatch
<1> HIDE DEF row
<1>7. LifeStatus[j] = job[j].status /\ LifeStatus' = [LifeStatus EXCEPT ![j] = "RUNNING"]
  <2>1. /\ LifeStatus[j] = job[j].status
        /\ LifeStatus' = [LifeStatus EXCEPT ![j] = row.status]
    BY <1>2, <1>4, RowIsStatus
  <2> QED
    BY <1>5, <2>1
<1>8. LifeStored' = LifeStored
  BY StoredStays DEF dispatch_mark
<1>9. Lifecycle!Start(j)
  BY <1>6, <1>7, <1>8 DEF Lifecycle!Start, LifeStatus, LifeStored
<1> QED
  BY <1>9

\* a symbol task stores its row, and its job is still RUNNING
LEMMA save_job_resultIsStore ==
    ASSUME Inv, SerialInv, NEW r \in Runs, NEW k \in Gens, NEW s \in Symbols,
           save_job_result(r, k, s)
    PROVE  \E j \in Jobs : Lifecycle!Store(j, s)
<1> DEFINE j == pipe[r].job
<1>1. /\ task[r][k][s] = "running" /\ UNCHANGED <<job, pipe>>
      /\ results' = [results EXCEPT ![r][s] = results[r][s] + 1]
      /\ results \in [Runs -> [Symbols -> Nat]]
  BY DEF save_job_result, Inv, TypeOK
<1>2. Working(r)
  BY <1>1 DEF Working
<1>3. j \in Jobs /\ job[j].status = "RUNNING"
  BY <1>2, WorkersHaveJobs DEF Inv, SerialInv, WorkOk
<1>4. \A q \in Runs, t \in Symbols :
        results'[q][t] > 0 <=> results[q][t] > 0 \/ (q = r /\ t = s)
  BY <1>1
<1>5. ASSUME NEW i \in Jobs
      PROVE  Stored(i)' = IF i = j THEN Stored(i) \cup {s} ELSE Stored(i)
  <2>1. Stored(i)' = {t \in Symbols : \E q \in Runs : pipe[q].job = i /\ results'[q][t] > 0}
    BY <1>1 DEF Stored
  <2> QED
    BY <1>4, <2>1 DEF Stored
<1> HIDE DEF j
<1>6. LifeStored' = [LifeStored EXCEPT ![j] = @ \cup {s}]
  BY <1>3, <1>5 DEF LifeStored
<1>7. LifeStatus' = LifeStatus /\ LifeStatus[j] = "RUNNING"
  BY <1>1, <1>3 DEF LifeStatus
<1>8. Lifecycle!Store(j, s)
  BY <1>6, <1>7 DEF Lifecycle!Store, LifeStatus, LifeStored
<1> QED
  BY <1>3, <1>8

\* a verdict
LEMMA VerdictIsFinish ==
    ASSUME Inv, NEW j \in Jobs, NEW row, job' = [job EXCEPT ![j] = row],
           job[j].status = "RUNNING", LifeStored' = LifeStored,
           row.status = "FAILED" \/ (row.status = "COMPLETED" /\ Stored(j) = Symbols)
    PROVE  Lifecycle!Finish(j)
<1>1. LifeStatus[j] = "RUNNING" /\ LifeStatus' = [LifeStatus EXCEPT ![j] = row.status]
  BY RowIsStatus DEF Inv, TypeOK
<1>2. LifeStored[j] = Stored(j)
  BY DEF LifeStored
<1> QED
  BY <1>1, <1>2 DEF Lifecycle!Finish, LifeStatus, LifeStored

\* the failure handler's verdict
LEMMA on_fetch_failure_commitIsFinish ==
    ASSUME Inv, SerialInv, NEW r \in Runs, on_fetch_failure_commit(r)
    PROVE  \E j \in Jobs : Lifecycle!Finish(j)
<1> DEFINE j   == pipe[r].job
           row == update_job_status(job[j], pipe[r].seen, "FAILED", "fetch")
<1>1. /\ pipe[r].stage = "loaded" /\ job' = [job EXCEPT ![j] = row]
      /\ SetPipe(r, "done", pipe[r].tries, NoRow) /\ results' = results
  BY DEF on_fetch_failure_commit, SetStage
<1>2. j \in Jobs /\ pipe[r].seen = job[j] /\ job[j].status = "RUNNING"
  BY <1>1, WorkersHaveJobs DEF Working, Inv, SerialInv, SeenOk, WorkOk
<1>3. row.status = "FAILED"
  BY <1>2 DEF update_job_status
<1>4. LifeStored' = LifeStored
  BY <1>1, PipeUpdate, StoredStays DEF Inv
<1> HIDE DEF row, j
<1> QED
  BY <1>1, <1>2, <1>3, <1>4, VerdictIsFinish

\* the callback's verdict: COMPLETED on evidence of every symbol
LEMMA finalize_commitIsFinish ==
    ASSUME CompletedInv, SerialInv, NEW r \in Runs, NEW k \in Gens, finalize_commit(r, k)
    PROVE  \E j \in Jobs : Lifecycle!Finish(j)
<1> DEFINE j    == pipe[r].job
           good == update_job_status(job[j], fin[r][k].seen, "COMPLETED", "none")
           bad  == update_job_status(job[j], fin[r][k].seen, "FAILED", "symbols")
           row  == IF fin[r][k].ok THEN good ELSE bad
<1>1. /\ fin[r][k].pc = "loaded" /\ job' = [job EXCEPT ![j] = row]
      /\ UNCHANGED <<results, pipe>>
  BY DEF finalize_commit
<1>2. j \in Jobs /\ fin[r][k].seen = job[j] /\ job[j].status = "RUNNING"
  BY <1>1, WorkersHaveJobs DEF Working, CompletedInv, Inv, SerialInv, SeenOk, WorkOk
<1>3. good.status = "COMPLETED" /\ bad.status = "FAILED"
  BY <1>2 DEF update_job_status
<1>4. fin[r][k].ok => Stored(j) = Symbols
  <2>1. fin[r][k].ok => \A s \in Symbols : results[r][s] > 0
    BY <1>1 DEF CompletedInv, FinInv
  <2> QED
    BY <2>1 DEF Stored
<1>5. LifeStored' = LifeStored
  BY <1>1, StoredStays
<1> HIDE DEF good, bad, j
<1>6. row.status = "FAILED" \/ (row.status = "COMPLETED" /\ Stored(j) = Symbols)
  BY <1>3, <1>4
<1> HIDE DEF row
<1> QED
  BY <1>1, <1>2, <1>5, <1>6, VerdictIsFinish DEF CompletedInv

\* a message is published by a run that has no results yet
LEMMA dispatch_backtestIsStutter ==
    ASSUME Inv, ChordInv, NEW c \in Clients, NEW r \in Runs, dispatch_backtest(c, r)
    PROVE  UNCHANGED Lifecycle!lvars
<1>1. pipe[r].stage = "none" /\ UNCHANGED <<job, results>>
  BY DEF dispatch_backtest
<1>2. \A q \in Runs : q # r => pipe'[q] = pipe[q]
  BY DEF dispatch_backtest, Inv, TypeOK
<1>3. \A s \in Symbols : results[r][s] = 0
  BY <1>1, ZeroIsGen DEF ChordInv, ChordOf, Fresh, Counts
<1> QED
  BY <1>1, <1>2, <1>3, QuietIsStutter

\* a step of a pipeline, but for stored rows and verdicts
LEMMA RunQuietIsStutter ==
    ASSUME Inv, NEW r \in Runs, NEW k \in Gens, NEW s \in Symbols,
           \/ ensure_start(r) \/ ensure_retry(r) \/ ensure_fail(r) \/ ensure_succeed(r)
           \/ on_fetch_failure_load(r) \/ on_fetch_failure_raises(r)
           \/ run_backtest_start(r, k, s) \/ run_backtest_ok(r, k, s)
           \/ run_backtest_error(r, k, s) \/ run_backtest_commit_error(r, k, s)
           \/ run_backtest_lost(r, k, s)
           \/ finalize_load(r, k) \/ finalize_fails(r, k)
    PROVE  UNCHANGED Lifecycle!lvars
<1>1. UNCHANGED <<job, results>>
  BY DEF ensure_start, ensure_retry, ensure_fail, ensure_succeed, on_fetch_failure_load,
         on_fetch_failure_raises, run_backtest_start, run_backtest_ok, run_backtest_error,
         run_backtest_commit_error, run_backtest_lost, finalize_load, finalize_fails
<1>2. pipe' = pipe \/ \E st, n, row : SetPipe(r, st, n, row)
  BY DEF ensure_start, ensure_retry, ensure_fail, ensure_succeed, on_fetch_failure_load,
         on_fetch_failure_raises, run_backtest_start, run_backtest_ok, run_backtest_error,
         run_backtest_commit_error, run_backtest_lost, finalize_load, finalize_fails, SetStage
<1>3. \A q \in Runs : pipe'[q].job = pipe[q].job
  BY <1>2, PipeUpdate DEF Inv
<1> QED
  BY <1>1, <1>3, QuietIsStutter

\* every step of the pipeline is a step of the lifecycle or a stutter
LEMMA NextIsLifecycle ==
    ASSUME NoRedelivery, CompletedInv, ChordInv, SerialInv, [Next]_vars
    PROVE  [Lifecycle!LNext]_(Lifecycle!lvars)
<1> Inv
  BY DEF CompletedInv
<1> PICK s \in Symbols : TRUE
  BY SymbolsAssumption
<1>1. CASE \E j \in Jobs : create_backtest_job(j)
  BY <1>1, create_backtest_jobIsCreate DEF Lifecycle!LNext
<1>2. CASE \/ \E c \in Clients, j \in Jobs : dispatch_read(c, j)
           \/ \E c \in Clients : dispatch_load(c) \/ dispatch_backtest_raises(c) \/ request_dies(c)
           \/ UNCHANGED vars
  <2>1. UNCHANGED <<job, results, pipe>>
    BY <1>2 DEF dispatch_read, dispatch_load, dispatch_backtest_raises, request_dies, vars
  <2> QED
    BY <2>1, QuietIsStutter
<1>3. CASE \E c \in Clients : dispatch_mark(c)
  BY <1>3, dispatch_markIsStart DEF Lifecycle!LNext
<1>4. CASE \E c \in Clients, r \in Runs : dispatch_backtest(c, r)
  BY <1>4, dispatch_backtestIsStutter
<1>5. CASE \E r \in Runs : RunStep(r)
  <2> PICK r \in Runs : RunStep(r)
    BY <1>5
  <2>1. CASE on_fetch_failure_commit(r) \/ \E k \in Gens : finalize_commit(r, k)
    BY <2>1, on_fetch_failure_commitIsFinish, finalize_commitIsFinish DEF Lifecycle!LNext
  <2>2. CASE \E k \in Gens, t \in Symbols : save_job_result(r, k, t)
    BY <2>2, save_job_resultIsStore DEF Lifecycle!LNext
  <2>3. CASE \/ ensure_start(r) \/ ensure_retry(r) \/ ensure_fail(r) \/ ensure_succeed(r)
             \/ on_fetch_failure_load(r) \/ \E k \in Gens : finalize_load(r, k)
    BY <2>3, RunQuietIsStutter, ZeroIsGen
  <2>4. CASE \E k \in Gens, t \in Symbols :
               run_backtest_start(r, k, t) \/ run_backtest_ok(r, k, t) \/ run_backtest_error(r, k, t)
    BY <2>4, RunQuietIsStutter
  <2> QED
    BY <2>1, <2>2, <2>3, <2>4 DEF RunStep, EnsureStep, FinalizeStep, TaskStep
<1>6. CASE FaultStep
  <2>1. CASE \E r \in Runs, k \in Gens, t \in Symbols :
               \/ on_fetch_failure_raises(r) \/ finalize_fails(r, k)
               \/ run_backtest_commit_error(r, k, t) \/ run_backtest_lost(r, k, t)
    BY <2>1, RunQuietIsStutter
  <2>2. \A r \in Runs, k \in Gens, t \in Symbols :
          ~(ensure_redelivered(r) \/ finalize_redelivered(r, k)
            \/ run_backtest_redelivered(r, k, t))
    BY DEF NoRedelivery, Fault, ensure_redelivered, finalize_redelivered,
           run_backtest_redelivered
  <2> QED
    BY <1>2, <1>6, <2>1, <2>2, ZeroIsGen DEF FaultStep
<1> QED
  BY <1>1, <1>2, <1>3, <1>4, <1>5, <1>6 DEF Next, RequestStep

\* no job, no result
LEMMA InitIsLifecycle ==
    ASSUME Init
    PROVE  Lifecycle!LInit
BY DEF Init, Lifecycle!LInit, Stored, NoRow

(* With one request at a time and without redelivery the pipeline          *)
(* implements JobLifecycle: what a client sees of a job is created,        *)
(* started, gathers results only while RUNNING, and ends COMPLETED only    *)
(* with all of them, whichever requests, calls and children fail.          *)
THEOREM ImplementsLifecycle ==
    ASSUME NoRedelivery, OneClient
    PROVE  Spec => LifecycleSpec
<1>1. CompletedInv /\ ChordInv /\ SerialInv /\ [Next]_vars =>
        [Lifecycle!LNext]_(Lifecycle!lvars)
  BY NextIsLifecycle
<1> QED
  BY <1>1, InitIsLifecycle, SerialHolds, PTL DEF Spec, LifecycleSpec, Lifecycle!LSpec
===============================================================================
