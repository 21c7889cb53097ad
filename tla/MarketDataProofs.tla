--------------------------- MODULE MarketDataProofs ---------------------------
(***************************************************************************)
(* MarketData is type correct, and what a task answered is stored.  Where  *)
(* no day trades after midnight UTC only (~EveningOnly), what a task       *)
(* ensured stays readable, no answered range is bought again, and the      *)
(* calls of a delivery are bounded.                                        *)
(***************************************************************************)
EXTENDS MarketData, FiniteSetTheorems, TLAPS

-------------------------------------------------------------------------------
(* The inductive invariant.                                                *)

InFlight(t) == IF task[t].pc \in {"fetch", "insert"} THEN {task[t].symbol} ELSE {}

\* the symbols of t that the table already holds something of
Held(t) == {s \in task[t].symbols : get_ohlcv_data(s, task[t].start, task[t].end) # {}}

\* where a task is in its list, and what it is about to insert
ProgressInv(t) ==
    /\ task[t].pc \in Running => task[t].todo \subseteq task[t].symbols
    /\ task[t].pc \in {"fetch", "insert"} => task[t].symbol \in task[t].todo
    /\ task[t].pc = "insert" =>
          /\ task[t].series # {}
          /\ \A b \in task[t].series : b.day \in task[t].start .. task[t].end
          /\ \/ EveningOnly
             \/ \E b \in task[t].series : utc_date(b) \in task[t].start .. task[t].end
    /\ (task[t].kind = "symbol" /\ task[t].pc # "none") =>
          \E s \in Symbols : task[t].symbols = {s}

\* the symbols a job is through with can be read
EnsuredInv(t) ==
    (task[t].kind = "job" /\ task[t].pc \in Running \cup {"done"}) =>
        /\ EveningOnly \/ \A s \in task[t].symbols \ task[t].todo : s \in Held(t)
        /\ task[t].pc = "done" => task[t].todo = {}

\* of series, only late bars of the last day are missing in the range
Stored(series, s, start, end) ==
    \A b \in series :
        /\ b \in rows[s]
        /\ b \in get_ohlcv_data(s, start, end) \/ (b.late = 1 /\ b.day = end)

AnswerInv(t) ==
    (task[t].kind = "symbol" /\ task[t].pc = "done") =>
        \A s \in task[t].symbols : Stored(task[t].series, s, task[t].start, task[t].end)

TaskInv(t) == ProgressInv(t) /\ EnsuredInv(t) /\ AnswerInv(t)

\* the calls of a delivery at work: one for each symbol held or in flight, one
\* for each attempt that was cut short
CallsInv(t) ==
    /\ task[t].pc = "none" => calls[t] = 0
    /\ task[t].pc \in Running =>
          calls[t] <= Cardinality(Held(t) \cup InFlight(t)) + task[t].tries
    /\ task[t].pc \in Finished \cup {"lost"} =>
          calls[t] <= Cardinality(task[t].symbols) + MaxRetries

\* a task at the provider is there for a symbol
TypeInv == /\ TypeOK
           /\ \A t \in Deliveries : task[t].pc \in {"fetch", "insert"} => task[t].symbol \in Symbols

AnsweredInv ==
    EveningOnly \/ \A range \in answered :
                      get_ohlcv_data(range.symbol, range.start, range.end) # {}

MarketInv == \A s \in Symbols : Plausible(market[s])

TableInv == /\ TypeOK
            /\ MarketInv
            /\ AnsweredInv
            /\ \A t \in Deliveries : TaskInv(t)

IInv == TableInv /\ \A t \in Deliveries : CallsInv(t)

-------------------------------------------------------------------------------
(* Types.                                                                  *)

USE SymbolAssumption, InputAssumption, NumbersAssumption

\* the table never holds less
Grows == \A s \in Symbols : rows[s] \subseteq rows'[s]

LEMMA TaskIsDelivery == Tasks \subseteq Deliveries /\ Copies \subseteq Deliveries
BY DEF Deliveries

LEMMA TypeInit == Init => TypeOK
<1> SUFFICES ASSUME Init PROVE TypeOK
  OBVIOUS
<1>1. market \in [Symbols -> SUBSET Bar] /\ rows \in [Symbols -> SUBSET Bar]
  BY DEF Init
<1>2. ASSUME NEW t \in Deliveries PROVE NoTask(t) \in TaskRecord
  BY DEF NoTask, TaskRecord, Pcs
<1>3. task \in [Deliveries -> TaskRecord]
  BY <1>2 DEF Init
<1> QED
  BY <1>1, <1>3 DEF Init, TypeOK

\* a step of one task leaves the others alone
LEMMA BecomesFacts ==
    ASSUME TypeOK, NEW t \in Deliveries, NEW k, Becomes(t, k)
    PROVE  /\ task'[t] = k
           /\ \A u \in Deliveries : u # t => task'[u] = task[u]
           /\ k \in TaskRecord => task' \in [Deliveries -> TaskRecord]
BY DEF TypeOK, Becomes

LEMMA RecordType ==
    ASSUME NEW k \in TaskRecord, NEW pc \in Pcs, NEW todo \in SUBSET Symbols,
           NEW series \in SUBSET Bar
    PROVE  [k EXCEPT !.pc = pc, !.todo = todo, !.symbol = NoSymbol,
                     !.series = series] \in TaskRecord
BY DEF TaskRecord

LEMMA AttemptType ==
    ASSUME NEW k \in TaskRecord, NEW pc \in Pcs, NEW todo \in SUBSET Symbols,
           NEW tries \in 0 .. MaxRetries, NEW series \in SUBSET Bar
    PROVE  [k EXCEPT !.pc = pc, !.todo = todo, !.tries = tries, !.symbol = NoSymbol,
                     !.series = series] \in TaskRecord
BY DEF TaskRecord

\* what no step of a published task changes, in it and in the others
Keeps(t) == /\ task'[t].kind = task[t].kind /\ task'[t].symbols = task[t].symbols
            /\ task'[t].start = task[t].start /\ task'[t].end = task[t].end
            /\ \A u \in Deliveries : u # t => task'[u] = task[u]

LEMMA AtProvider ==
    ASSUME NEW k \in TaskRecord, NEW symbol \in Symbols, NEW series \in SUBSET Bar
    PROVE  /\ [k EXCEPT !.pc = "fetch", !.symbol = symbol] \in TaskRecord
           /\ [k EXCEPT !.pc = "insert", !.series = series] \in TaskRecord
BY DEF TaskRecord, Pcs

LEMMA EnsuredFacts ==
    ASSUME TypeOK, NEW t \in Deliveries, NEW s \in Symbols, NEW series \in SUBSET Bar,
           Ensured(t, s, series)
    PROVE  /\ task'[t].pc     = IF task[t].todo = {s} THEN "done" ELSE "check"
           /\ task'[t].todo   = task[t].todo \ {s}
           /\ task'[t].tries  = task[t].tries
           /\ task'[t].series = IF task[t].kind = "symbol" THEN series ELSE {}
           /\ Keeps(t)
           /\ task' \in [Deliveries -> TaskRecord]
           /\ answered' \in SUBSET [symbol : Symbols, start : Nat, end : Nat]
<1> DEFINE pc  == IF task[t].todo = {s} THEN "done" ELSE "check"
           todo  == task[t].todo \ {s}
           answer == IF task[t].kind = "symbol" THEN series ELSE {}
           k == [task[t] EXCEPT !.pc = pc, !.todo = todo,
                                !.symbol = NoSymbol, !.series = answer]
<1>1. task[t] \in TaskRecord
  BY DEF TypeOK
<1>2. pc \in Pcs /\ todo \in SUBSET Symbols /\ answer \in SUBSET Bar
  BY <1>1 DEF TaskRecord, Pcs
<1>3. Becomes(t, k)
  BY DEF Ensured, Becomes
<1>4. answered' \in SUBSET [symbol : Symbols, start : Nat, end : Nat]
  BY <1>1 DEF Ensured, TypeOK, TaskRecord
<1> HIDE DEF pc, todo, answer
<1>5. k \in TaskRecord
  BY <1>1, <1>2, RecordType
<1>6. /\ k.pc = pc /\ k.todo = todo /\ k.tries = task[t].tries /\ k.series = answer
      /\ k.kind = task[t].kind /\ k.symbols = task[t].symbols
      /\ k.start = task[t].start /\ k.end = task[t].end
  BY <1>1 DEF TaskRecord
<1> HIDE DEF k
<1>7. task'[t] = k /\ task' \in [Deliveries -> TaskRecord]
      /\ \A u \in Deliveries : u # t => task'[u] = task[u]
  BY <1>3, <1>5, BecomesFacts
<1> QED
  BY <1>4, <1>6, <1>7 DEF Keeps, pc, todo, answer

LEMMA OverFacts ==
    ASSUME TypeOK, NEW t \in Deliveries, NEW pc \in Pcs
    PROVE  /\ Over(t, pc) \in TaskRecord /\ Over(t, pc).pc = pc
           /\ Over(t, pc).kind = task[t].kind /\ Over(t, pc).symbols = task[t].symbols
           /\ Over(t, pc).start = task[t].start /\ Over(t, pc).end = task[t].end
<1>1. task[t] \in TaskRecord
  BY DEF TypeOK
<1>2. Over(t, pc) \in TaskRecord
  BY <1>1, RecordType DEF Over
<1> QED
  BY <1>1, <1>2 DEF Over, TaskRecord

LEMMA FailFacts ==
    ASSUME TypeOK, NEW t \in Deliveries, Fail(t)
    PROVE  /\ task'[t].pc = "failed"
           /\ Keeps(t)
           /\ task' \in [Deliveries -> TaskRecord]
<1>1. PICK k : k = Over(t, "failed")
  OBVIOUS
<1>2. /\ k \in TaskRecord /\ k.pc = "failed"
      /\ k.kind = task[t].kind /\ k.symbols = task[t].symbols
      /\ k.start = task[t].start /\ k.end = task[t].end
  BY <1>1, OverFacts DEF Pcs
<1>3. Becomes(t, k)
  BY <1>1 DEF Fail
<1> QED
  BY <1>2, <1>3, BecomesFacts DEF Keeps

LEMMA MessageFacts ==
    ASSUME TypeOK, NEW t \in Deliveries, NEW n \in 0 .. MaxRetries
    PROVE  /\ Message(t, n) \in TaskRecord
           /\ Message(t, n).pc = "check" /\ Message(t, n).todo = task[t].symbols
           /\ Message(t, n).tries = n /\ Message(t, n).kind = task[t].kind
           /\ Message(t, n).symbols = task[t].symbols
           /\ Message(t, n).start = task[t].start /\ Message(t, n).end = task[t].end
<1>1. task[t] \in TaskRecord /\ "check" \in Pcs /\ {} \in SUBSET Bar
  BY DEF TypeOK, Pcs
<1>2. PICK symbols \in SUBSET Symbols : symbols = task[t].symbols
  BY <1>1 DEF TaskRecord
<1>3. Message(t, n) \in TaskRecord
  BY <1>1, <1>2, AttemptType DEF Message
<1> QED
  BY <1>1, <1>3 DEF Message, TaskRecord

LEMMA StartOverFacts ==
    ASSUME TypeOK, NEW t \in Deliveries, NEW n \in 0 .. MaxRetries, StartOver(t, n)
    PROVE  /\ task'[t].pc = "check" /\ task'[t].todo = task[t].symbols
           /\ task'[t].tries = n
           /\ Keeps(t)
           /\ task' \in [Deliveries -> TaskRecord]
<1>1. PICK k : k = Message(t, n)
  OBVIOUS
<1>2. /\ k \in TaskRecord /\ k.pc = "check" /\ k.todo = task[t].symbols /\ k.tries = n
      /\ k.kind = task[t].kind /\ k.symbols = task[t].symbols
      /\ k.start = task[t].start /\ k.end = task[t].end
  BY <1>1, MessageFacts
<1>3. Becomes(t, k)
  BY <1>1 DEF StartOver
<1> QED
  BY <1>2, <1>3, BecomesFacts DEF Keeps

\* u becomes a message of t; t goes on, is lost, or is its own retry
Delivered(t, u) ==
    /\ task[t].pc \in Running \cup Finished /\ task[u].pc = "none"
    /\ task' \in [Deliveries -> TaskRecord]
    /\ task'[u].pc = "check" /\ task'[u].todo = task[t].symbols
    /\ task'[u].kind = task[t].kind /\ task'[u].symbols = task[t].symbols
    /\ \A v \in Deliveries : v # u /\ v # t => task'[v] = task[v]
    /\ \/ task'[t] = task[t]
       \/ /\ task[t].pc \in Running
          /\ task'[t].kind = task[t].kind /\ task'[t].symbols = task[t].symbols
          /\ task'[t].start = task[t].start /\ task'[t].end = task[t].end
          /\ \/ task'[t].pc = "lost"
             \/ task'[t].pc = "check" /\ task'[t].todo = task[t].symbols
                /\ task'[t].tries = task[t].tries + 1

LEMMA DeliveredFacts ==
    ASSUME TypeOK, NEW t \in Deliveries, NEW u \in Deliveries,
           redelivered(t, u) \/ autoretry_unacked(t, u)
    PROVE  Delivered(t, u) /\ UNCHANGED <<market, rows, client, answered, calls>>
<1>1. /\ task[t].pc \in Running \cup Finished /\ task[u].pc = "none" /\ t # u
      /\ task[t].tries \in 0 .. MaxRetries /\ task[t] \in TaskRecord
  BY DEF TypeOK, TaskRecord, redelivered, autoretry_unacked, Running, Finished
<1>2. PICK copy : copy = Message(t, task[t].tries)
  OBVIOUS
<1>3. /\ copy \in TaskRecord /\ copy.pc = "check" /\ copy.todo = task[t].symbols
      /\ copy.kind = task[t].kind /\ copy.symbols = task[t].symbols
  BY <1>1, <1>2, MessageFacts
<1>4. CASE redelivered(t, u)
  <2>1. PICK died \in BOOLEAN :
          /\ died => task[t].pc \in Running
          /\ task' = [task EXCEPT ![t] = IF died THEN Over(t, "lost") ELSE @, ![u] = copy]
    BY <1>2, <1>4 DEF redelivered
  <2>2. PICK k : k = IF died THEN Over(t, "lost") ELSE task[t]
    OBVIOUS
  <2>3. /\ k \in TaskRecord
        /\ died => /\ k.pc = "lost" /\ k.kind = task[t].kind /\ k.symbols = task[t].symbols
                   /\ k.start = task[t].start /\ k.end = task[t].end
    BY <1>1, <2>2, OverFacts DEF Pcs
  <2>4. /\ task' \in [Deliveries -> TaskRecord] /\ task'[t] = k /\ task'[u] = copy
        /\ \A v \in Deliveries : v # u /\ v # t => task'[v] = task[v]
    BY <1>1, <1>3, <2>1, <2>2, <2>3 DEF TypeOK
  <2> QED
    BY <1>1, <1>3, <1>4, <2>1, <2>2, <2>3, <2>4 DEF Delivered, redelivered
<1>5. CASE autoretry_unacked(t, u)
  <2>1. PICK k : k = Message(t, task[t].tries + 1)
    OBVIOUS
  <2>2. /\ k \in TaskRecord /\ k.pc = "check" /\ k.todo = task[t].symbols
        /\ k.tries = task[t].tries + 1 /\ k.kind = task[t].kind
        /\ k.symbols = task[t].symbols /\ k.start = task[t].start /\ k.end = task[t].end
    <3>1. task[t].tries + 1 \in 0 .. MaxRetries
      BY <1>1, <1>5 DEF autoretry_unacked
    <3> QED
      BY <2>1, <3>1, MessageFacts
  <2>3. /\ task' \in [Deliveries -> TaskRecord] /\ task'[t] = k /\ task'[u] = copy
        /\ \A v \in Deliveries : v # u /\ v # t => task'[v] = task[v]
    BY <1>1, <1>2, <1>3, <1>5, <2>1, <2>2 DEF TypeOK, autoretry_unacked
  <2> QED
    BY <1>1, <1>3, <1>5, <2>2, <2>3 DEF Delivered, autoretry_unacked, Running
<1> QED
  BY <1>4, <1>5

LEMMA PublishFacts ==
    ASSUME TypeOK, NEW t \in Deliveries, NEW kind \in {"job", "symbol"},
           NEW symbols \in SUBSET Symbols, NEW start \in Days, NEW end \in Days,
           Publish(t, kind, symbols, start, end)
    PROVE  /\ task'[t] = [id |-> t, pc |-> "check", kind |-> kind, symbols |-> symbols,
                          todo |-> symbols, symbol |-> NoSymbol, start |-> start,
                          end |-> end, tries |-> 0, series |-> {}]
           /\ task'[t] \in TaskRecord
           /\ task' \in [Deliveries -> TaskRecord]
           /\ \A u \in Deliveries : u # t => task'[u] = task[u]
<1>1. [id |-> t, pc |-> "check", kind |-> kind, symbols |-> symbols, todo |-> symbols,
       symbol |-> NoSymbol, start |-> start, end |-> end, tries |-> 0, series |-> {}]
        \in TaskRecord
  BY DEF TaskRecord, Pcs, Days
<1> QED
  BY <1>1, BecomesFacts DEF Publish

-------------------------------------------------------------------------------
(* A step keeps the types, and takes nothing from the table.               *)

LEMMA JobInput ==
    ASSUME NEW t, publish_for_job(t)
    PROVE  \E symbols \in SUBSET Symbols, start \in Days, end \in Days :
              Publish(t, "job", symbols, start, end) /\ UNCHANGED client
<1>1. PICK job \in Jobs : Publish(t, "job", job.symbols, job.start, job.end) /\ UNCHANGED client
  BY DEF publish_for_job
<1>2. job.symbols \in SUBSET Symbols /\ job.start \in Days /\ job.end \in Days
  OBVIOUS
<1> QED
  BY <1>1, <1>2

LEMMA TypeStep ==
    ASSUME TypeInv, [Next]_vars
    PROVE  TypeOK' /\ Grows
<1> USE DEF TypeInv
<1>1. CASE UNCHANGED vars
  BY <1>1 DEF vars, TypeOK, Grows
<1>2. ASSUME NEW s \in Symbols, market_moves(s) PROVE TypeOK' /\ Grows
  BY <1>2 DEF market_moves, TypeOK, Grows
<1>3. ASSUME NEW t \in Deliveries, publish_for_job(t) PROVE TypeOK' /\ Grows
  <2>1. PICK symbols \in SUBSET Symbols, start \in Days, end \in Days :
          Publish(t, "job", symbols, start, end) /\ UNCHANGED client
    BY <1>3, JobInput
  <2>2. task' \in [Deliveries -> TaskRecord]
    BY <2>1, PublishFacts
  <2> QED
    BY <2>1, <2>2 DEF TypeOK, Grows, Publish
<1>4. ASSUME NEW t \in Deliveries, fetch(t) PROVE TypeOK' /\ Grows
  <2>1. PICK s \in Symbols, start \in Days, end \in Days :
          /\ Publish(t, "symbol", {Upper[s]}, start, end)
          /\ client' = [client EXCEPT ![t] = "waiting"]
    BY <1>4 DEF fetch
  <2>2. task' \in [Deliveries -> TaskRecord]
    BY <2>1, PublishFacts
  <2>3. client' \in [Tasks -> {"none", "waiting", "answered", "error", "timeout"}]
    BY <2>1 DEF TypeOK
  <2>4. UNCHANGED <<market, rows, answered, calls>>
    BY <2>1 DEF Publish
  <2> QED
    BY <2>2, <2>3, <2>4 DEF TypeOK, Grows
<1>5. ASSUME NEW t \in Deliveries, check_hit(t) PROVE TypeOK' /\ Grows
  <2>1. PICK s \in task[t].todo :
          Ensured(t, s, get_ohlcv_data(s, task[t].start, task[t].end))
    BY <1>5 DEF check_hit
  <2>2. s \in Symbols /\ get_ohlcv_data(s, task[t].start, task[t].end) \in SUBSET Bar
    BY DEF TypeOK, TaskRecord, get_ohlcv_data
  <2>3. /\ task' \in [Deliveries -> TaskRecord]
        /\ answered' \in SUBSET [symbol : Symbols, start : Nat, end : Nat]
    BY <2>1, <2>2, EnsuredFacts
  <2> QED
    BY <1>5, <2>3 DEF TypeOK, Grows, check_hit
<1>6. ASSUME NEW t \in Deliveries, check_miss(t) PROVE TypeOK' /\ Grows
  <2>1. PICK s \in task[t].todo : Becomes(t, [task[t] EXCEPT !.pc = "fetch", !.symbol = s])
    BY <1>6 DEF check_miss
  <2>2. task[t] \in TaskRecord /\ s \in Symbols
    BY DEF TypeOK, TaskRecord
  <2>3. task' \in [Deliveries -> TaskRecord]
    BY <2>1, <2>2, AtProvider, BecomesFacts
  <2>4. calls' \in [Deliveries -> Nat]
    BY <1>6 DEF check_miss, TypeOK
  <2> QED
    BY <1>6, <2>3, <2>4 DEF TypeOK, Grows, check_miss
<1>7. ASSUME NEW t \in Deliveries, fetch_ohlcv(t) PROVE TypeOK' /\ Grows
  <2> DEFINE series == list_aggs(task[t].symbol, task[t].start, task[t].end)
  <2>1. task[t] \in TaskRecord /\ series \in SUBSET Bar
    BY <1>7 DEF fetch_ohlcv, list_aggs, TypeOK
  <2>2. Becomes(t, [task[t] EXCEPT !.pc = "insert", !.series = series])
    BY <1>7 DEF fetch_ohlcv
  <2>3. [task[t] EXCEPT !.pc = "insert", !.series = series] \in TaskRecord
    BY <2>1, AtProvider, SymbolAssumption, <1>7 DEF fetch_ohlcv
  <2>4. task' \in [Deliveries -> TaskRecord]
    BY <2>2, <2>3, BecomesFacts
  <2> QED
    BY <1>7, <2>4 DEF TypeOK, Grows, fetch_ohlcv
<1>8. ASSUME NEW t \in Deliveries, no_data(t) PROVE TypeOK' /\ Grows
  <2>1. task[t].symbol \in Symbols /\ {} \in SUBSET Bar
    BY <1>8 DEF no_data
  <2>2. CASE Ensured(t, task[t].symbol, {})
    <3>1. /\ task' \in [Deliveries -> TaskRecord]
          /\ answered' \in SUBSET [symbol : Symbols, start : Nat, end : Nat]
      BY <2>1, <2>2, EnsuredFacts
    <3> QED
      BY <1>8, <3>1 DEF TypeOK, Grows, no_data
  <2>3. CASE Fail(t) /\ UNCHANGED answered
    <3>1. task' \in [Deliveries -> TaskRecord]
      BY <2>3, FailFacts
    <3> QED
      BY <1>8, <2>3, <3>1 DEF TypeOK, Grows, no_data
  <2> QED
    BY <1>8, <2>2, <2>3 DEF no_data
<1>9. ASSUME NEW t \in Deliveries, bulk_insert_market_data(t) PROVE TypeOK' /\ Grows
  <2>1. task[t].symbol \in Symbols /\ task[t].series \in SUBSET Bar
    BY <1>9 DEF bulk_insert_market_data, TypeOK, TaskRecord
  <2>2. Ensured(t, task[t].symbol, task[t].series)
    BY <1>9 DEF bulk_insert_market_data
  <2>3. /\ task' \in [Deliveries -> TaskRecord]
        /\ answered' \in SUBSET [symbol : Symbols, start : Nat, end : Nat]
    BY <2>1, <2>2, EnsuredFacts
  <2>4. /\ rows' \in [Symbols -> SUBSET Bar]
        /\ \A s \in Symbols : rows[s] \subseteq rows'[s]
    BY <1>9, <2>1 DEF bulk_insert_market_data, TypeOK
  <2> QED
    BY <1>9, <2>3, <2>4 DEF TypeOK, Grows, bulk_insert_market_data
<1>10. ASSUME NEW t \in Deliveries, autoretry(t) PROVE TypeOK' /\ Grows
  <2>1. task' \in [Deliveries -> TaskRecord]
    <3>1. CASE task[t].tries < MaxRetries
      <4>1. task[t].tries + 1 \in 0 .. MaxRetries
        BY <3>1 DEF TypeOK, TaskRecord
      <4> QED
        BY <1>10, <3>1, <4>1, StartOverFacts DEF autoretry
    <3>2. CASE ~(task[t].tries < MaxRetries)
      BY <1>10, <3>2, FailFacts DEF autoretry
    <3> QED
      BY <3>1, <3>2
  <2> QED
    BY <1>10, <2>1 DEF TypeOK, Grows, autoretry
<1>11. ASSUME NEW t \in Deliveries, db_error(t) PROVE TypeOK' /\ Grows
  <2>1. task' \in [Deliveries -> TaskRecord]
    BY <1>11, FailFacts DEF db_error
  <2>2. /\ rows' \in [Symbols -> SUBSET Bar]
        /\ \A s \in Symbols : rows[s] \subseteq rows'[s]
    BY <1>11 DEF db_error, TypeOK, TaskRecord
  <2> QED
    BY <1>11, <2>1, <2>2 DEF TypeOK, Grows, db_error
<1>12. ASSUME NEW t \in Deliveries, NEW u \in Deliveries,
              redelivered(t, u) \/ autoretry_unacked(t, u)
       PROVE  TypeOK' /\ Grows
  <2>1. Delivered(t, u) /\ UNCHANGED <<market, rows, client, answered, calls>>
    BY <1>12, DeliveredFacts
  <2> QED
    BY <2>1 DEF TypeOK, Grows, Delivered
<1>13. ASSUME NEW t \in Deliveries, result_ready(t) \/ result_timeout(t) PROVE TypeOK' /\ Grows
  BY <1>13 DEF TypeOK, Grows, result_ready, result_timeout
<1> QED
  BY <1>1, <1>2, <1>3, <1>4, <1>5, <1>6, <1>7, <1>8, <1>9, <1>10, <1>11, <1>12, <1>13,
     TaskIsDelivery DEF Next, TaskStep

-------------------------------------------------------------------------------
(* The table.                                                              *)

LEMMA TableIsTyped == TableInv => TypeInv
BY DEF TableInv, TypeInv, TaskInv, ProgressInv, TypeOK, TaskRecord, Running

\* days go on trading by day whatever they get
LEMMA MarketStep ==
    ASSUME TypeOK, MarketInv, [Next]_vars
    PROVE  MarketInv'
<1>1. CASE market' = market
  BY <1>1 DEF MarketInv, Plausible
<1>2. ASSUME NEW s \in Symbols, market_moves(s) PROVE MarketInv'
  <2>1. PICK b : /\ Plausible(market[s] \cup {b})
                 /\ market' = [market EXCEPT ![s] = @ \cup {b}]
    BY <1>2 DEF market_moves
  <2> QED
    BY <2>1 DEF MarketInv, Plausible, TypeOK
<1>3. CASE market' # market
  <2>1. \E s \in Symbols : market_moves(s)
    BY <1>3 DEF vars, Next, TaskStep, publish_for_job, fetch, Publish, result_ready,
       result_timeout, redelivered, autoretry_unacked, check_hit, check_miss, fetch_ohlcv,
       no_data, bulk_insert_market_data, autoretry, db_error
  <2> QED
    BY <1>2, <2>1
<1> QED
  BY <1>1, <1>3

\* what the table answers, it goes on to answer
LEMMA ReadsGrow ==
    ASSUME TypeOK, Grows, NEW s \in Symbols, NEW start, NEW end
    PROVE  get_ohlcv_data(s, start, end) \subseteq get_ohlcv_data(s, start, end)'
BY DEF TypeOK, Grows, get_ohlcv_data

LEMMA OthersKeep ==
    ASSUME TypeOK, Grows, NEW u \in Deliveries, TaskInv(u), task'[u] = task[u]
    PROVE  TaskInv(u)'
<1>1. task[u] \in TaskRecord
  BY DEF TypeOK
<1>2. \A s \in task[u].symbols :
        get_ohlcv_data(s, task[u].start, task[u].end)
          \subseteq get_ohlcv_data(s, task[u].start, task[u].end)'
  BY <1>1, ReadsGrow DEF TaskRecord
<1>3. ProgressInv(u)'
  BY DEF TaskInv, ProgressInv
<1>4. EnsuredInv(u)'
  BY <1>2 DEF TaskInv, EnsuredInv, Held, get_ohlcv_data
<1>5. AnswerInv(u)'
  <2>1. PICK old : old = task[u]
    OBVIOUS
  <2> SUFFICES ASSUME old.kind = "symbol", old.pc = "done",
                      NEW s \in old.symbols, NEW b \in old.series
               PROVE  /\ b \in rows'[s]
                      /\ \/ b \in get_ohlcv_data(s, old.start, old.end)'
                         \/ b.late = 1 /\ b.day = old.end
    BY <2>1 DEF AnswerInv, Stored, get_ohlcv_data
  <2>2. s \in Symbols
    BY <1>1, <2>1 DEF TaskRecord
  <2>3. /\ b \in rows[s]
        /\ \/ b \in get_ohlcv_data(s, old.start, old.end)
           \/ b.late = 1 /\ b.day = old.end
    BY <2>1 DEF TaskInv, AnswerInv, Stored
  <2> QED
    BY <1>2, <2>1, <2>2, <2>3 DEF Grows
<1> QED
  BY <1>3, <1>4, <1>5 DEF TaskInv

LEMMA AnsweredKeeps ==
    ASSUME TypeOK, Grows, AnsweredInv, answered' = answered
    PROVE  AnsweredInv'
<1>1. ASSUME ~EveningOnly, NEW range \in answered
      PROVE  get_ohlcv_data(range.symbol, range.start, range.end)' # {}
  <2>1. range.symbol \in Symbols
    BY DEF TypeOK
  <2>2. get_ohlcv_data(range.symbol, range.start, range.end) # {}
    BY <1>1 DEF AnsweredInv
  <2> QED
    BY <2>1, <2>2, ReadsGrow DEF get_ohlcv_data
<1> QED
  BY <1>1 DEF AnsweredInv

\* ensure_data returns for one symbol: what it returns is in the table by then
LEMMA EnsuredStep ==
    ASSUME TypeOK, Grows, AnsweredInv, NEW t \in Deliveries, TaskInv(t),
           task[t].pc \in Running, NEW s \in task[t].todo, NEW series \in SUBSET Bar,
           Ensured(t, s, series),
           task[t].kind = "job" => series # {},
           NEW old, NEW start, NEW end,
           old = task[t], start = old.start, end = old.end,
           Stored(series, s, start, end)',
           EveningOnly \/ series = {} \/ get_ohlcv_data(s, start, end)' # {}
    PROVE  TaskInv(t)' /\ AnsweredInv'
<1>1. /\ old \in TaskRecord
      /\ old.todo \subseteq old.symbols /\ s \in Symbols
      /\ start \in Nat /\ end \in Nat
  BY DEF TypeOK, TaskInv, ProgressInv, TaskRecord
<1>2. /\ task'[t].pc = IF old.todo = {s} THEN "done" ELSE "check"
      /\ task'[t].todo = old.todo \ {s}
      /\ task'[t].symbols = old.symbols /\ task'[t].kind = old.kind
      /\ task'[t].start = start /\ task'[t].end = end
      /\ task'[t].series = IF old.kind = "symbol" THEN series ELSE {}
  BY <1>1, EnsuredFacts DEF Keeps
<1>3. \A x \in old.symbols : get_ohlcv_data(x, start, end)
                                \subseteq get_ohlcv_data(x, start, end)'
  BY <1>1, ReadsGrow DEF TaskRecord
<1>4. old.kind = "symbol" => old.symbols = {s}
  BY <1>1 DEF TaskInv, ProgressInv, Running
<1>5. ProgressInv(t)'
  BY <1>1, <1>2, <1>4 DEF ProgressInv, Running
<1>6. EnsuredInv(t)'
  <2> SUFFICES ASSUME old.kind = "job"
               PROVE  /\ EveningOnly \/ \A x \in old.symbols \ (old.todo \ {s}) :
                            get_ohlcv_data(x, start, end)' # {}
                      /\ old.todo = {s} => old.todo \ {s} = {}
    BY <1>2 DEF EnsuredInv, Held, get_ohlcv_data, Running
  <2>1. ASSUME ~EveningOnly, NEW x \in old.symbols \ (old.todo \ {s})
        PROVE  get_ohlcv_data(x, start, end)' # {}
    <3>1. CASE x = s
      BY <2>1, <3>1 DEF get_ohlcv_data
    <3>2. CASE x # s
      <4>1. get_ohlcv_data(x, start, end) # {}
        BY <2>1, <3>2 DEF TaskInv, EnsuredInv, Held, Running
      <4> QED
        BY <2>1, <4>1, <1>3
    <3> QED
      BY <3>1, <3>2
  <2> QED
    BY <2>1
<1>7. AnswerInv(t)'
  <2> SUFFICES ASSUME old.kind = "symbol"
               PROVE  \A x \in old.symbols : Stored(series, x, start, end)'
    BY <1>2 DEF AnswerInv, Stored, get_ohlcv_data
  <2> QED
    BY <1>4
<1>8. AnsweredInv'
  <2> SUFFICES ASSUME ~EveningOnly, NEW range \in answered'
               PROVE  get_ohlcv_data(range.symbol, range.start, range.end)' # {}
    BY DEF AnsweredInv
  <2>1. CASE range \in answered
    <3>1. range.symbol \in Symbols
      BY <2>1 DEF TypeOK
    <3>2. get_ohlcv_data(range.symbol, range.start, range.end) # {}
      BY <2>1 DEF AnsweredInv
    <3> QED
      BY <3>1, <3>2, ReadsGrow DEF get_ohlcv_data
  <2>2. CASE range \notin answered
    <3>1. series # {} /\ range = [symbol |-> s, start |-> start, end |-> end]
      BY <2>2 DEF Ensured
    <3>2. get_ohlcv_data(s, start, end)' # {}
      BY <3>1
    <3> QED
      BY <3>1, <3>2 DEF get_ohlcv_data
  <2> QED
    BY <2>1, <2>2
<1> QED
  BY <1>5, <1>6, <1>7, <1>8 DEF TaskInv

LEMMA FailStep ==
    ASSUME TypeOK, NEW t \in Deliveries, TaskInv(t), task[t].pc \in Running, Fail(t)
    PROVE  TaskInv(t)'
<1>1. task'[t].pc = "failed" /\ task'[t].kind = task[t].kind
      /\ task'[t].symbols = task[t].symbols
  BY FailFacts DEF Keeps
<1> QED
  BY <1>1 DEF TaskInv, ProgressInv, EnsuredInv, AnswerInv, Running

LEMMA StartOverStep ==
    ASSUME TypeOK, NEW t \in Deliveries, TaskInv(t), task[t].pc \in Running,
           NEW n \in 0 .. MaxRetries, StartOver(t, n)
    PROVE  TaskInv(t)'
<1>1. /\ task'[t].pc = "check" /\ task'[t].todo = task[t].symbols
      /\ task'[t].kind = task[t].kind /\ task'[t].symbols = task[t].symbols
  BY StartOverFacts DEF Keeps
<1> QED
  BY <1>1 DEF TaskInv, ProgressInv, EnsuredInv, AnswerInv, Running

\* another delivery of t starts, while t goes on, is lost or is its own retry
LEMMA DeliveredStep ==
    ASSUME TypeOK, Grows, NEW t \in Deliveries, NEW u \in Deliveries,
           \A v \in Deliveries : TaskInv(v), Delivered(t, u)
    PROVE  \A v \in Deliveries : TaskInv(v)'
<1>1. t # u
  BY DEF Delivered, Running, Finished
<1>2. ASSUME NEW v \in Deliveries, task'[v] = task[v] PROVE TaskInv(v)'
  BY <1>2, OthersKeep
<1>3. ASSUME NEW v \in Deliveries, task'[v].pc = "check", task'[v].todo = task[t].symbols,
             task'[v].kind = task[t].kind, task'[v].symbols = task[t].symbols
      PROVE  TaskInv(v)'
  <2>1. TaskInv(t) /\ task[t].pc # "none"
    BY DEF Delivered, Running, Finished
  <2> QED
    BY <1>3, <2>1 DEF TaskInv, ProgressInv, EnsuredInv, AnswerInv, Running
<1>4. TaskInv(u)'
  BY <1>3 DEF Delivered
<1>5. TaskInv(t)'
  <2>1. CASE task'[t] = task[t]
    BY <1>2, <2>1
  <2>2. CASE task'[t].pc = "check" /\ task'[t].todo = task[t].symbols
             /\ task'[t].kind = task[t].kind /\ task'[t].symbols = task[t].symbols
    BY <1>3, <2>2
  <2>3. CASE task'[t].pc = "lost" /\ task[t].pc \in Running
             /\ task'[t].kind = task[t].kind /\ task'[t].symbols = task[t].symbols
    <3>1. TaskInv(t)
      OBVIOUS
    <3> QED
      BY <2>3, <3>1 DEF TaskInv, ProgressInv, EnsuredInv, AnswerInv, Running
  <2> QED
    BY <2>1, <2>2, <2>3 DEF Delivered
<1> QED
  BY <1>1, <1>2, <1>4, <1>5 DEF Delivered

LEMMA PublishStep ==
    ASSUME TypeOK, NEW t \in Deliveries, NEW kind \in {"job", "symbol"},
           NEW symbols \in SUBSET Symbols, NEW start \in Days, NEW end \in Days,
           kind = "symbol" => \E s \in Symbols : symbols = {s},
           Publish(t, kind, symbols, start, end)
    PROVE  TaskInv(t)' /\ \A u \in Deliveries : u # t => task'[u] = task[u]
<1>1. /\ task'[t].pc = "check" /\ task'[t].todo = symbols
      /\ task'[t].kind = kind /\ task'[t].symbols = symbols
      /\ \A u \in Deliveries : u # t => task'[u] = task[u]
  <2>1. task'[t] = [id |-> t, pc |-> "check", kind |-> kind, symbols |-> symbols,
                    todo |-> symbols, symbol |-> NoSymbol, start |-> start,
                    end |-> end, tries |-> 0, series |-> {}]
    BY PublishFacts
  <2>2. \A u \in Deliveries : u # t => task'[u] = task[u]
    BY PublishFacts
  <2> QED
    BY <2>1, <2>2
<1> QED
  BY <1>1 DEF TaskInv, ProgressInv, EnsuredInv, AnswerInv, Running

\* what list_aggs returned can be read once it is inserted, but for late bars
LEMMA InsertIsReadable ==
    ASSUME TypeOK, NEW t \in Deliveries, TaskInv(t), bulk_insert_market_data(t),
           NEW s, NEW series, NEW start, NEW end, s = task[t].symbol,
           series = task[t].series, start = task[t].start, end = task[t].end
    PROVE  /\ Stored(series, s, start, end)'
           /\ EveningOnly \/ get_ohlcv_data(s, start, end)' # {}
<1>1. task[t] \in TaskRecord /\ task[t].symbol \in Symbols
  BY DEF TypeOK, TaskInv, ProgressInv, bulk_insert_market_data, TaskRecord, Running
<1>2. series \subseteq rows'[s]
  BY <1>1 DEF bulk_insert_market_data, TypeOK
<1>3. ASSUME NEW b \in series
      PROVE  utc_date(b) \in start .. end \/ (b.late = 1 /\ b.day = end)
  <2>1. b.day \in start .. end /\ start \in Nat /\ end \in Nat
    BY <1>1, <1>3 DEF TaskInv, ProgressInv, bulk_insert_market_data, TaskRecord
  <2>2. b \in Bar
    BY <1>1 DEF TaskRecord
  <2>3. b.late = 0 \/ b.late = 1
    BY <2>2 DEF Bar
  <2>4. b.day \in Int
    BY <2>2 DEF Bar, Days
  <2> QED
    BY <2>1, <2>3, <2>4 DEF utc_date
<1>4. EveningOnly \/ \E b \in series : utc_date(b) \in start .. end
  BY DEF TaskInv, ProgressInv, bulk_insert_market_data
<1> QED
  BY <1>2, <1>3, <1>4 DEF Stored, get_ohlcv_data

\* what the provider answered is read by someone, if days trade by day
LEMMA AnswerIsReadable ==
    ASSUME TypeOK, MarketInv, NEW s \in Symbols, NEW start \in Nat, NEW end \in Nat,
           list_aggs(s, start, end) # {}
    PROVE  EveningOnly \/ \E b \in list_aggs(s, start, end) : utc_date(b) \in start .. end
<1> SUFFICES ASSUME ~EveningOnly
             PROVE  \E b \in list_aggs(s, start, end) : utc_date(b) \in start .. end
  OBVIOUS
<1>1. PICK b \in market[s] : b.day \in start .. end
  BY DEF list_aggs
<1>2. b \in Bar /\ b.day \in Int
  BY DEF TypeOK, Bar, Days
<1>3. PICK c : c = [day |-> b.day, late |-> 0]
  OBVIOUS
<1>4. c \in market[s] /\ c.day = b.day /\ c.late = 0
  BY <1>3 DEF MarketInv, Plausible
<1> QED
  BY <1>1, <1>2, <1>4 DEF list_aggs, utc_date

LEMMA TableInit == Init => TableInv
<1> SUFFICES ASSUME Init PROVE TableInv
  OBVIOUS
<1>1. TypeOK /\ AnsweredInv /\ MarketInv
  BY TypeInit DEF Init, AnsweredInv, MarketInv
<1>2. ASSUME NEW t \in Deliveries PROVE TaskInv(t)
  <2>1. task[t].pc = "none" /\ task[t].kind = "symbol"
    BY DEF Init, NoTask
  <2> QED
    BY <2>1 DEF TaskInv, ProgressInv, EnsuredInv, AnswerInv, Running
<1> QED
  BY <1>1, <1>2 DEF TableInv

\* TableInv is kept, one step for each action
LEMMA TableStep ==
    ASSUME TableInv, [Next]_vars
    PROVE  TableInv'
<1>1. TypeInv /\ TypeOK /\ TypeOK' /\ Grows /\ AnsweredInv /\ MarketInv /\ MarketInv'
  BY TableIsTyped, TypeStep, MarketStep DEF TableInv, TypeInv
<1>2. \A t \in Deliveries : TaskInv(t)
  BY DEF TableInv
<1>3. SUFFICES /\ AnsweredInv'
               /\ \A t \in Deliveries : TaskInv(t)'
  BY <1>1 DEF TableInv
<1>4. ASSUME NEW t \in Deliveries, TaskInv(t)',
             \A u \in Deliveries : u # t => task'[u] = task[u]
      PROVE  \A u \in Deliveries : TaskInv(u)'
  BY <1>1, <1>2, <1>4, OthersKeep
<1>5. ASSUME UNCHANGED <<task, answered>>
      PROVE  AnsweredInv' /\ \A t \in Deliveries : TaskInv(t)'
  BY <1>1, <1>2, <1>5, OthersKeep, AnsweredKeeps
<1>6. CASE UNCHANGED vars
  BY <1>5, <1>6 DEF vars
<1>7. ASSUME NEW s \in Symbols, market_moves(s)
      PROVE  AnsweredInv' /\ \A t \in Deliveries : TaskInv(t)'
  BY <1>5, <1>7 DEF market_moves
<1>8. ASSUME NEW t \in Deliveries, publish_for_job(t)
      PROVE  AnsweredInv' /\ \A u \in Deliveries : TaskInv(u)'
  <2>1. PICK symbols \in SUBSET Symbols, start \in Days, end \in Days :
          Publish(t, "job", symbols, start, end)
    BY <1>8, JobInput
  <2>2. TaskInv(t)' /\ \A u \in Deliveries : u # t => task'[u] = task[u]
    BY <1>1, <2>1, PublishStep
  <2> QED
    BY <1>1, <1>4, <2>1, <2>2, AnsweredKeeps DEF Publish
<1>9. ASSUME NEW t \in Deliveries, fetch(t)
      PROVE  AnsweredInv' /\ \A u \in Deliveries : TaskInv(u)'
  <2>1. PICK s \in Symbols, start \in Days, end \in Days :
          Publish(t, "symbol", {Upper[s]}, start, end)
    BY <1>9 DEF fetch
  <2>2. Upper[s] \in Symbols
    BY SymbolAssumption
  <2>3. TaskInv(t)' /\ \A u \in Deliveries : u # t => task'[u] = task[u]
    BY <1>1, <2>1, <2>2, PublishStep
  <2> QED
    BY <1>1, <1>4, <2>1, <2>3, AnsweredKeeps DEF Publish
<1>10. ASSUME NEW t \in Deliveries, TaskStep(t)
       PROVE  TaskInv(t)' /\ AnsweredInv' /\ \A u \in Deliveries : u # t => task'[u] = task[u]
  <2>1. PICK old, start, end : old = task[t] /\ start = old.start /\ end = old.end
    OBVIOUS
  <2>2. old \in TaskRecord /\ TaskInv(t)
    BY <1>1, <1>2, <2>1 DEF TypeOK
  <2>3. CASE check_hit(t)
    <3>1. PICK s \in task[t].todo, series \in SUBSET Bar :
            /\ series = get_ohlcv_data(s, start, end) /\ series # {}
            /\ Ensured(t, s, series)
      BY <1>1, <2>1, <2>3 DEF check_hit, get_ohlcv_data, TypeOK, TaskRecord
    <3>2. s \in Symbols /\ series \in SUBSET Bar /\ task[t].pc \in Running
      BY <1>1, <2>1, <2>2, <2>3, <3>1 DEF check_hit, Running, get_ohlcv_data, TypeOK, TaskRecord
    <3>3. series \subseteq get_ohlcv_data(s, start, end)'
      BY <1>1, <3>1, <3>2, ReadsGrow
    <3>4. Stored(series, s, start, end)' /\ get_ohlcv_data(s, start, end)' # {}
      BY <3>1, <3>3 DEF Stored, get_ohlcv_data
    <3> QED
      BY <1>1, <2>1, <2>2, <3>1, <3>2, <3>4, EnsuredStep, EnsuredFacts DEF Keeps
  <2>4. CASE check_miss(t)
    <3>1. PICK s \in task[t].todo : Becomes(t, [old EXCEPT !.pc = "fetch", !.symbol = s])
      BY <2>1, <2>4 DEF check_miss
    <3>2. s \in Symbols /\ old.pc = "check"
      BY <2>1, <2>2, <2>4 DEF TaskRecord, check_miss
    <3>3. /\ task'[t] = [old EXCEPT !.pc = "fetch", !.symbol = s]
          /\ \A u \in Deliveries : u # t => task'[u] = task[u]
      BY <1>1, <3>1, BecomesFacts
    <3>4. /\ task'[t].pc = "fetch" /\ task'[t].symbol = s /\ task'[t].todo = old.todo
          /\ task'[t].kind = old.kind /\ task'[t].symbols = old.symbols
          /\ task'[t].start = start /\ task'[t].end = end
      BY <2>1, <2>2, <3>3 DEF TaskRecord
    <3>5. \A x \in old.symbols :
            get_ohlcv_data(x, start, end) \subseteq get_ohlcv_data(x, start, end)'
      BY <1>1, <2>2, ReadsGrow DEF TaskRecord
    <3>6. TaskInv(t)'
      BY <2>1, <2>2, <3>1, <3>2, <3>4, <3>5
         DEF TaskInv, ProgressInv, EnsuredInv, AnswerInv, Held, get_ohlcv_data, Running
    <3> QED
      BY <1>1, <2>4, <3>3, <3>6, AnsweredKeeps DEF check_miss
  <2>5. CASE fetch_ohlcv(t)
    <3>1. PICK series :
            /\ series = list_aggs(old.symbol, start, end) /\ series # {}
            /\ Becomes(t, [old EXCEPT !.pc = "insert", !.series = series])
      BY <2>1, <2>5 DEF fetch_ohlcv
    <3>2. /\ \A b \in series : b.day \in start .. end
          /\ EveningOnly \/ \E b \in series : utc_date(b) \in start .. end
      <4>1. old.symbol \in Symbols /\ start \in Nat /\ end \in Nat
        BY <1>1, <2>1, <2>2, <2>5 DEF fetch_ohlcv, TypeInv, TaskRecord
      <4> QED
        BY <1>1, <3>1, <4>1, AnswerIsReadable DEF list_aggs
    <3>3. /\ task'[t] = [old EXCEPT !.pc = "insert", !.series = series]
          /\ \A u \in Deliveries : u # t => task'[u] = task[u]
      BY <1>1, <3>1, BecomesFacts
    <3>4. /\ task'[t].pc = "insert" /\ task'[t].symbol = old.symbol
          /\ task'[t].todo = old.todo /\ task'[t].series = series
          /\ task'[t].kind = old.kind /\ task'[t].symbols = old.symbols
          /\ task'[t].start = start /\ task'[t].end = end
      BY <2>1, <2>2, <3>3 DEF TaskRecord
    <3>5. \A x \in old.symbols :
            get_ohlcv_data(x, start, end) \subseteq get_ohlcv_data(x, start, end)'
      BY <1>1, <2>2, ReadsGrow DEF TaskRecord
    <3>6. old.pc = "fetch"
      BY <2>1, <2>5 DEF fetch_ohlcv
    <3>7. TaskInv(t)'
      BY <2>1, <2>2, <3>1, <3>2, <3>4, <3>5, <3>6
         DEF TaskInv, ProgressInv, EnsuredInv, AnswerInv, Held, get_ohlcv_data, utc_date,
             Running
    <3> QED
      BY <1>1, <2>5, <3>3, <3>7, AnsweredKeeps DEF fetch_ohlcv
  <2>6. CASE no_data(t)
    <3>1. task[t].pc \in Running /\ old.symbol \in task[t].todo
      BY <2>1, <2>2, <2>6 DEF no_data, TaskInv, ProgressInv, Running
    <3>2. CASE task[t].kind = "symbol"
      <4>1. Ensured(t, old.symbol, {}) /\ old.symbol \in Symbols
            /\ Stored({}, old.symbol, start, end)'
        BY <2>1, <2>2, <2>6, <3>1, <3>2 DEF no_data, TaskRecord, Stored
      <4> QED
        BY <1>1, <2>1, <2>2, <3>1, <3>2, <4>1, EnsuredStep, EnsuredFacts DEF Keeps
    <3>3. CASE task[t].kind # "symbol"
      <4>1. Fail(t) /\ UNCHANGED answered
        BY <2>6, <3>3 DEF no_data
      <4> QED
        BY <1>1, <2>2, <3>1, <4>1, FailStep, FailFacts, AnsweredKeeps DEF Keeps
    <3> QED
      BY <3>2, <3>3
  <2>7. CASE bulk_insert_market_data(t)
    <3>1. /\ task[t].pc \in Running /\ old.symbol \in task[t].todo
          /\ old.symbol \in Symbols
          /\ old.series # {} /\ old.series \in SUBSET Bar
          /\ Ensured(t, old.symbol, old.series)
      BY <2>1, <2>2, <2>7 DEF bulk_insert_market_data, TaskInv, ProgressInv, Running, TaskRecord
    <3>2. PICK s, series : s = old.symbol /\ series = old.series
      OBVIOUS
    <3>3. /\ Stored(series, s, start, end)'
          /\ EveningOnly \/ get_ohlcv_data(s, start, end)' # {}
      BY <1>1, <2>1, <2>2, <2>7, <3>2, InsertIsReadable
    <3> QED
      BY <1>1, <2>1, <2>2, <3>1, <3>2, <3>3, EnsuredStep, EnsuredFacts DEF Keeps
  <2>8. CASE autoretry(t)
    <3>1. task[t].pc \in Running /\ UNCHANGED answered
      BY <2>8 DEF autoretry, Running
    <3>2. CASE task[t].tries < MaxRetries
      <4>1. task[t].tries + 1 \in 0 .. MaxRetries /\ StartOver(t, task[t].tries + 1)
        BY <2>1, <2>2, <2>8, <3>2 DEF autoretry, TaskRecord
      <4> QED
        BY <1>1, <2>2, <3>1, <4>1, StartOverStep, StartOverFacts, AnsweredKeeps DEF Keeps
    <3>3. CASE ~(task[t].tries < MaxRetries)
      <4>1. Fail(t)
        BY <2>8, <3>3 DEF autoretry
      <4> QED
        BY <1>1, <2>2, <3>1, <4>1, FailStep, FailFacts, AnsweredKeeps DEF Keeps
    <3> QED
      BY <3>2, <3>3
  <2>9. CASE db_error(t)
    <3>1. task[t].pc \in Running /\ Fail(t) /\ UNCHANGED answered
      BY <2>9 DEF db_error, Running
    <3> QED
      BY <1>1, <2>2, <3>1, FailStep, FailFacts, AnsweredKeeps DEF Keeps
  <2> QED
    BY <1>10, <2>3, <2>4, <2>5, <2>6, <2>7, <2>8, <2>9 DEF TaskStep
<1>11. ASSUME NEW t \in Deliveries, result_ready(t) \/ result_timeout(t)
       PROVE  AnsweredInv' /\ \A u \in Deliveries : TaskInv(u)'
  BY <1>5, <1>11 DEF result_ready, result_timeout
<1>12. ASSUME NEW t \in Deliveries, NEW u \in Deliveries,
              redelivered(t, u) \/ autoretry_unacked(t, u)
       PROVE  AnsweredInv' /\ \A v \in Deliveries : TaskInv(v)'
  <2>1. Delivered(t, u) /\ UNCHANGED answered
    BY <1>1, <1>12, DeliveredFacts
  <2> QED
    BY <1>1, <1>2, <2>1, DeliveredStep, AnsweredKeeps
<1> QED
  BY <1>4, <1>6, <1>7, <1>8, <1>9, <1>10, <1>11, <1>12, TaskIsDelivery DEF Next

-------------------------------------------------------------------------------
(* The calls.                                                              *)

\* the symbols whose call is accounted for
Paid(t) == Held(t) \cup InFlight(t)

LEMMA PaidFacts ==
    ASSUME TypeOK, NEW t \in Deliveries, TaskInv(t)
    PROVE  /\ IsFiniteSet(task[t].symbols) /\ Cardinality(task[t].symbols) \in Nat
           /\ IsFiniteSet(Held(t)) /\ Cardinality(Held(t)) \in Nat
           /\ IsFiniteSet(Paid(t)) /\ Cardinality(Paid(t)) \in Nat
           /\ Paid(t) \subseteq task[t].symbols
           /\ Cardinality(Paid(t)) <= Cardinality(task[t].symbols)
           /\ Cardinality(Paid(t)) <= Cardinality(Held(t)) + 1
<1>1. task[t].symbols \subseteq Symbols /\ Held(t) \subseteq task[t].symbols
  BY DEF TypeOK, TaskRecord, Held
<1>2. InFlight(t) \subseteq task[t].symbols
  BY DEF InFlight, TaskInv, ProgressInv, Running
<1>3. IsFiniteSet(task[t].symbols) /\ Cardinality(task[t].symbols) \in Nat
  BY <1>1, SymbolAssumption, FS_Subset, FS_CardinalityType
<1>4. IsFiniteSet(Held(t)) /\ Cardinality(Held(t)) \in Nat
  BY <1>1, <1>3, FS_Subset, FS_CardinalityType
<1>5. Paid(t) \subseteq task[t].symbols
  BY <1>1, <1>2 DEF Paid
<1>6. /\ IsFiniteSet(Paid(t)) /\ Cardinality(Paid(t)) \in Nat
      /\ Cardinality(Paid(t)) <= Cardinality(task[t].symbols)
  BY <1>3, <1>5, FS_Subset, FS_CardinalityType
<1>7. Cardinality(Paid(t)) <= Cardinality(Held(t)) + 1
  <2>1. CASE task[t].pc \in {"fetch", "insert"}
    <3>1. Paid(t) = Held(t) \cup {task[t].symbol}
      BY <2>1 DEF Paid, InFlight
    <3>2. Cardinality(Held(t) \cup {task[t].symbol})
            = IF task[t].symbol \in Held(t) THEN Cardinality(Held(t))
                                            ELSE Cardinality(Held(t)) + 1
      BY <1>4, FS_AddElement
    <3> QED
      BY <1>4, <3>1, <3>2
  <2>2. CASE task[t].pc \notin {"fetch", "insert"}
    <3>1. Paid(t) = Held(t)
      BY <2>2 DEF Paid, InFlight
    <3> QED
      BY <1>4, <3>1
  <2> QED
    BY <2>1, <2>2
<1> QED
  BY <1>3, <1>4, <1>5, <1>6, <1>7

\* whatever becomes of a task at work, its calls are within the bound
LEMMA BoundAtWork ==
    ASSUME TypeOK, NEW t \in Deliveries, TaskInv(t), CallsInv(t), task[t].pc \in Running
    PROVE  /\ calls[t] \in Nat /\ task[t].tries \in Nat
           /\ calls[t] <= Cardinality(Paid(t)) + task[t].tries
           /\ calls[t] <= Cardinality(task[t].symbols) + MaxRetries
<1>1. /\ calls[t] \in Nat
      /\ task[t].tries \in Nat /\ task[t].tries <= MaxRetries
  BY DEF TypeOK, TaskRecord
<1>2. calls[t] <= Cardinality(Paid(t)) + task[t].tries
  BY DEF CallsInv, Paid
<1> QED
  BY <1>1, <1>2, PaidFacts

LEMMA HeldGrows ==
    ASSUME TypeOK, Grows, NEW t \in Deliveries, task'[t].symbols = task[t].symbols,
           task'[t].start = task[t].start, task'[t].end = task[t].end
    PROVE  Held(t) \subseteq Held(t)'
<1>1. PICK start, end : start = task[t].start /\ end = task[t].end
  OBVIOUS
<1>2. \A x \in task[t].symbols :
        get_ohlcv_data(x, start, end) \subseteq get_ohlcv_data(x, start, end)'
  BY ReadsGrow DEF TypeOK, TaskRecord
<1> QED
  BY <1>1, <1>2 DEF Held, get_ohlcv_data

\* a task at work whose account grew with its calls
LEMMA AccountKept ==
    ASSUME TypeOK', NEW t \in Deliveries, TaskInv(t)', NEW paid, IsFiniteSet(paid),
           task'[t].pc \in Running, paid \subseteq Paid(t)',
           calls'[t] <= Cardinality(paid) + task'[t].tries
    PROVE  CallsInv(t)'
<1>1. IsFiniteSet(Paid(t)') /\ Cardinality(Paid(t)') \in Nat
  <2>1. /\ Held(t)' \subseteq task'[t].symbols
        /\ InFlight(t)' \subseteq task'[t].symbols
        /\ task'[t].symbols \subseteq Symbols
    BY DEF Held, InFlight, TaskInv, ProgressInv, Running, TypeOK, TaskRecord
  <2>2. Paid(t)' \subseteq Symbols
    BY <2>1 DEF Paid
  <2> QED
    BY <2>2, SymbolAssumption, FS_Subset, FS_CardinalityType
<1>2. Cardinality(paid) <= Cardinality(Paid(t)') /\ Cardinality(paid) \in Nat
  BY <1>1, FS_Subset, FS_CardinalityType
<1>3. calls'[t] \in Nat /\ task'[t].tries \in Nat
  BY DEF TypeOK, TaskRecord
<1>4. calls'[t] <= Cardinality(Paid(t)') + task'[t].tries
  BY <1>1, <1>2, <1>3
<1> QED
  BY <1>4 DEF CallsInv, Paid, Running, Finished

\* a task that ended, or was never published
LEMMA AccountClosed ==
    ASSUME TypeOK, Grows, NEW t \in Deliveries, TaskInv(t), CallsInv(t), task[t].pc \in Running,
           task'[t].pc \in Finished \cup {"lost"}, task'[t].symbols = task[t].symbols,
           calls'[t] = calls[t]
    PROVE  CallsInv(t)'
<1>1. /\ calls[t] \in Nat
      /\ calls[t] <= Cardinality(task[t].symbols) + MaxRetries
  BY BoundAtWork
<1>2. calls'[t] <= Cardinality(task'[t].symbols) + MaxRetries
  BY <1>1, PaidFacts DEF Grows
<1> QED
  BY <1>2 DEF CallsInv, Running, Finished

LEMMA OthersCalls ==
    ASSUME TypeOK, TypeOK', Grows, NEW u \in Deliveries, TaskInv(u), TaskInv(u)', CallsInv(u),
           task'[u] = task[u], calls'[u] = calls[u]
    PROVE  CallsInv(u)'
<1>1. CASE task[u].pc \in Running
  <2>1. Paid(u) \subseteq Paid(u)'
    BY HeldGrows DEF Paid, InFlight
  <2>2. calls[u] <= Cardinality(Paid(u)) + task[u].tries
    BY <1>1, BoundAtWork
  <2>3. calls'[u] <= Cardinality(Paid(u)) + task'[u].tries
    BY <1>1, <2>2, BoundAtWork, PaidFacts DEF Grows
  <2>4. PICK paid : paid = Paid(u)
    OBVIOUS
  <2> QED
    BY <1>1, <2>1, <2>3, <2>4, PaidFacts, AccountKept
<1>2. CASE task[u].pc \notin Running
  <2>1. /\ Cardinality(task[u].symbols) \in Nat /\ calls[u] \in Nat
    BY PaidFacts DEF TypeOK, Grows
  <2>2. /\ task[u].pc = "none" => calls[u] = 0
        /\ task[u].pc \in Finished \cup {"lost"} =>
              calls[u] <= Cardinality(task[u].symbols) + MaxRetries
    BY DEF CallsInv
  <2> QED
    BY <1>2, <2>1, <2>2 DEF CallsInv
<1> QED
  BY <1>1, <1>2

LEMMA CallsInit == Init => \A t \in Deliveries : CallsInv(t)
BY DEF Init, NoTask, CallsInv, Running, Finished

\* the account is kept, one step for each action
LEMMA CallsStep ==
    ASSUME IInv, ~EveningOnly, TableInv', [Next]_vars
    PROVE  \A t \in Deliveries : CallsInv(t)'
<1>1. TypeInv /\ TypeOK /\ TypeOK' /\ Grows
  BY TableIsTyped, TypeStep DEF IInv, TableInv, TypeInv
<1>2. \A t \in Deliveries : TaskInv(t) /\ TaskInv(t)' /\ CallsInv(t)
  BY DEF IInv, TableInv
<1>3. ASSUME NEW t \in Deliveries, CallsInv(t)', \A u \in Deliveries : u # t => task'[u] = task[u],
             \A u \in Deliveries : u # t => calls'[u] = calls[u]
      PROVE  \A u \in Deliveries : CallsInv(u)'
  BY <1>1, <1>2, <1>3, OthersCalls
<1>4. ASSUME UNCHANGED <<task, calls>>
      PROVE  \A t \in Deliveries : CallsInv(t)'
  BY <1>1, <1>2, <1>4, OthersCalls
<1>5. CASE UNCHANGED vars
  BY <1>4, <1>5 DEF vars
<1>6. ASSUME NEW s \in Symbols, market_moves(s) PROVE \A t \in Deliveries : CallsInv(t)'
  BY <1>4, <1>6 DEF market_moves
<1>7. ASSUME NEW t \in Deliveries, publish_for_job(t) \/ fetch(t)
      PROVE  \A u \in Deliveries : CallsInv(u)'
  <2>1. PICK kind \in {"job", "symbol"}, symbols \in SUBSET Symbols,
             start \in Days, end \in Days : Publish(t, kind, symbols, start, end)
    <3>1. CASE publish_for_job(t)
      BY <3>1, JobInput
    <3>2. CASE fetch(t)
      BY <3>2, SymbolAssumption DEF fetch
    <3> QED
      BY <1>7, <3>1, <3>2
  <2>2. task'[t] = [id |-> t, pc |-> "check", kind |-> kind, symbols |-> symbols,
                    todo |-> symbols, symbol |-> NoSymbol, start |-> start, end |-> end,
                    tries |-> 0, series |-> {}]
    BY <1>1, <2>1, PublishFacts
  <2>3. /\ task[t].pc = "none" /\ UNCHANGED calls
        /\ \A u \in Deliveries : u # t => task'[u] = task[u]
    BY <1>1, <2>1, PublishFacts DEF Publish
  <2>4. task'[t].pc = "check" /\ task'[t].tries = 0 /\ calls'[t] = 0
    <3>1. calls[t] = 0
      BY <1>2, <2>3 DEF CallsInv
    <3>2. calls'[t] = 0
      BY <2>3, <3>1
    <3> QED
      BY <2>2, <3>2
  <2>5. IsFiniteSet({}) /\ Cardinality({}) = 0 /\ {} \subseteq Paid(t)'
    BY FS_EmptySet
  <2>6. CallsInv(t)'
    BY <1>1, <1>2, <2>4, <2>5, AccountKept DEF Running
  <2> QED
    BY <1>3, <2>3, <2>6
<1>8. ASSUME NEW t \in Deliveries, TaskStep(t)
      PROVE  \A u \in Deliveries : CallsInv(u)'
  <2>1. PICK old, paid, held : old = task[t] /\ paid = Paid(t) /\ held = Held(t)
    OBVIOUS
  <2>2. /\ IsFiniteSet(paid) /\ Cardinality(paid) \in Nat
        /\ IsFiniteSet(held) /\ Cardinality(held) \in Nat
        /\ Cardinality(paid) <= Cardinality(held) + 1
        /\ old \in TaskRecord /\ TaskInv(t) /\ CallsInv(t) /\ TaskInv(t)'
    BY <1>1, <1>2, <2>1, PaidFacts DEF TypeOK
  <2>3. task[t].pc \in Running
    BY <1>8 DEF TaskStep, check_hit, check_miss, fetch_ohlcv, no_data,
       bulk_insert_market_data, autoretry, db_error, Running
  <2>4. /\ calls[t] \in Nat /\ old.tries \in Nat
        /\ calls[t] <= Cardinality(paid) + old.tries
    BY <1>1, <2>1, <2>2, <2>3, BoundAtWork
  <2>5. ASSUME Keeps(t) PROVE held \subseteq Held(t)'
    BY <1>1, <2>1, <2>5, HeldGrows DEF Keeps
  <2>6. ASSUME Keeps(t), calls' = calls, task'[t].pc \in Finished
        PROVE  \A u \in Deliveries : CallsInv(u)'
    BY <1>1, <1>3, <2>2, <2>3, <2>6, AccountClosed DEF Keeps
  <2>7. ASSUME Keeps(t), calls' = calls, task'[t].pc = "check",
               task'[t].tries = old.tries + 1
        PROVE  \A u \in Deliveries : CallsInv(u)'
    <3>1. task'[t].tries \in Nat
      BY <1>1 DEF TypeOK, TaskRecord
    <3>2. calls'[t] <= Cardinality(held) + task'[t].tries
      BY <2>2, <2>4, <2>7, <3>1
    <3>3. held \subseteq Paid(t)'
      BY <2>5, <2>7 DEF Paid
    <3>4. CallsInv(t)'
      BY <1>1, <2>2, <2>7, <3>2, <3>3, AccountKept DEF Running
    <3> QED
      BY <1>3, <2>7, <3>4 DEF Keeps
  <2>8. ASSUME Keeps(t), calls' = calls, task'[t].pc \in Running,
               task'[t].tries = old.tries, paid \subseteq Paid(t)'
        PROVE  \A u \in Deliveries : CallsInv(u)'
    BY <1>1, <1>3, <2>2, <2>4, <2>8, AccountKept DEF Keeps
  <2>9. CASE check_hit(t)
    <3>1. PICK s \in task[t].todo, series \in SUBSET Bar : Ensured(t, s, series)
      BY <1>1, <2>9 DEF check_hit, get_ohlcv_data, TypeOK, TaskRecord
    <3>2. s \in Symbols
      BY <2>1, <2>2 DEF TaskRecord
    <3>3. /\ Keeps(t) /\ task'[t].pc = IF old.todo = {s} THEN "done" ELSE "check"
          /\ task'[t].tries = old.tries
      BY <1>1, <2>1, <3>1, <3>2, EnsuredFacts
    <3>4. paid = held
      BY <2>1, <2>9 DEF Paid, InFlight, check_hit
    <3>5. paid \subseteq Paid(t)'
      BY <2>5, <3>3, <3>4 DEF Paid
    <3> QED
      BY <2>6, <2>8, <2>9, <3>3, <3>5 DEF check_hit, Running, Finished
  <2>10. CASE check_miss(t)
    <3>1. PICK s \in task[t].todo :
            /\ get_ohlcv_data(s, old.start, old.end) = {}
            /\ Becomes(t, [old EXCEPT !.pc = "fetch", !.symbol = s])
      BY <2>1, <2>10 DEF check_miss
    <3>2. /\ task'[t] = [old EXCEPT !.pc = "fetch", !.symbol = s]
          /\ \A u \in Deliveries : u # t => task'[u] = task[u]
      BY <1>1, <3>1, BecomesFacts
    <3>3. /\ task'[t].pc = "fetch" /\ task'[t].symbol = s /\ task'[t].tries = old.tries
          /\ Keeps(t)
      BY <2>1, <2>2, <3>2 DEF TaskRecord, Keeps
    <3>4. paid = held /\ s \notin held
      BY <2>1, <2>10, <3>1 DEF Paid, InFlight, check_miss, Held
    <3>5. IsFiniteSet(held \cup {s}) /\ Cardinality(held \cup {s}) = Cardinality(held) + 1
      BY <2>2, <3>4, FS_AddElement
    <3>6. held \cup {s} \subseteq Paid(t)'
      BY <2>5, <3>3 DEF Paid, InFlight
    <3>7. /\ calls'[t] = calls[t] + 1
          /\ \A u \in Deliveries : u # t => calls'[u] = calls[u]
      BY <1>1, <2>10 DEF check_miss, TypeOK
    <3>8. calls'[t] <= Cardinality(held \cup {s}) + task'[t].tries
      BY <2>2, <2>4, <3>3, <3>4, <3>5, <3>7
    <3>9. CallsInv(t)'
      BY <1>1, <2>2, <3>3, <3>5, <3>6, <3>8, AccountKept DEF Running
    <3> QED
      BY <1>3, <3>2, <3>7, <3>9
  <2>11. CASE fetch_ohlcv(t)
    <3>1. PICK series : Becomes(t, [old EXCEPT !.pc = "insert", !.series = series])
      BY <2>1, <2>11 DEF fetch_ohlcv
    <3>2. /\ task'[t] = [old EXCEPT !.pc = "insert", !.series = series]
          /\ \A u \in Deliveries : u # t => task'[u] = task[u]
      BY <1>1, <3>1, BecomesFacts
    <3>3. /\ task'[t].pc = "insert" /\ task'[t].symbol = old.symbol
          /\ task'[t].tries = old.tries /\ Keeps(t)
      BY <2>1, <2>2, <3>2 DEF TaskRecord, Keeps
    <3>4. paid \subseteq Paid(t)'
      BY <2>1, <2>5, <2>11, <3>3 DEF Paid, InFlight, fetch_ohlcv
    <3> QED
      BY <2>8, <2>11, <3>3, <3>4 DEF fetch_ohlcv, Running
  <2>12. CASE no_data(t)
    <3>1. old.symbol \in old.todo /\ old.todo \subseteq old.symbols /\ old.symbol \in Symbols
      BY <2>1, <2>2, <2>12 DEF no_data, TaskInv, ProgressInv, Running, TaskRecord
    <3>2. CASE task[t].kind = "symbol"
      <4>1. Ensured(t, old.symbol, {}) /\ {} \in SUBSET Bar
        BY <2>1, <2>12, <3>2 DEF no_data
      <4>2. old.todo = {old.symbol}
        BY <2>1, <2>2, <2>3, <3>1, <3>2 DEF TaskInv, ProgressInv, Running
      <4>3. Keeps(t) /\ task'[t].pc = "done"
        BY <1>1, <2>1, <3>1, <4>1, <4>2, EnsuredFacts
      <4> QED
        BY <2>6, <2>12, <4>3 DEF no_data, Finished
    <3>3. CASE task[t].kind # "symbol"
      <4>1. Keeps(t) /\ task'[t].pc = "failed"
        BY <1>1, <2>12, <3>3, FailFacts DEF no_data
      <4> QED
        BY <2>6, <2>12, <4>1 DEF no_data, Finished
    <3> QED
      BY <3>2, <3>3
  <2>13. CASE bulk_insert_market_data(t)
    <3>1. PICK s, series : s = old.symbol /\ series = old.series
      OBVIOUS
    <3>2. /\ s \in old.todo /\ old.todo \subseteq old.symbols /\ s \in Symbols
          /\ series \in SUBSET Bar /\ Ensured(t, s, series)
      BY <2>1, <2>2, <2>13, <3>1
         DEF bulk_insert_market_data, TaskInv, ProgressInv, Running, TaskRecord
    <3>3. /\ Keeps(t) /\ task'[t].pc = IF old.todo = {s} THEN "done" ELSE "check"
          /\ task'[t].tries = old.tries
          /\ task'[t].todo = old.todo \ {s}
      BY <1>1, <2>1, <3>2, EnsuredFacts
    <3>4. s \in Held(t)'
      <4>1. PICK start, end : start = old.start /\ end = old.end
        OBVIOUS
      <4>2. get_ohlcv_data(s, start, end)' # {}
        BY <1>1, <2>1, <2>2, <2>13, <3>1, <4>1, InsertIsReadable
      <4> QED
        BY <2>1, <3>2, <3>3, <4>1, <4>2 DEF Keeps, Held, get_ohlcv_data
    <3>5. paid \subseteq Paid(t)'
      BY <2>1, <2>5, <3>1, <3>3, <3>4 DEF Paid, InFlight
    <3> QED
      BY <2>6, <2>8, <2>13, <3>3, <3>5 DEF bulk_insert_market_data, Running, Finished
  <2>14. CASE autoretry(t)
    <3>1. CASE task[t].tries < MaxRetries
      <4>1. task[t].tries + 1 \in 0 .. MaxRetries /\ StartOver(t, task[t].tries + 1)
        BY <2>1, <2>2, <2>14, <3>1 DEF autoretry, TaskRecord
      <4>2. Keeps(t) /\ task'[t].pc = "check" /\ task'[t].tries = old.tries + 1
        BY <1>1, <2>1, <4>1, StartOverFacts
      <4>3. calls' = calls
        BY <2>14 DEF autoretry
      <4> QED
        BY <2>4, <2>7, <4>2, <4>3
    <3>2. CASE ~(task[t].tries < MaxRetries)
      <4>1. Keeps(t) /\ task'[t].pc = "failed"
        BY <1>1, <2>14, <3>2, FailFacts DEF autoretry
      <4> QED
        BY <2>6, <2>14, <4>1 DEF autoretry, Finished
    <3> QED
      BY <3>1, <3>2
  <2>15. CASE db_error(t)
    <3>1. Keeps(t) /\ task'[t].pc = "failed"
      BY <1>1, <2>15, FailFacts DEF db_error
    <3> QED
      BY <2>6, <2>15, <3>1 DEF db_error, Finished
  <2> QED
    BY <1>8, <2>9, <2>10, <2>11, <2>12, <2>13, <2>14, <2>15 DEF TaskStep
<1>9. ASSUME NEW t \in Deliveries, result_ready(t) \/ result_timeout(t)
      PROVE  \A u \in Deliveries : CallsInv(u)'
  BY <1>4, <1>9 DEF result_ready, result_timeout
<1>10. ASSUME NEW t \in Deliveries, NEW u \in Deliveries,
              redelivered(t, u) \/ autoretry_unacked(t, u)
       PROVE  \A v \in Deliveries : CallsInv(v)'
  <2>1. Delivered(t, u) /\ UNCHANGED calls
    BY <1>1, <1>10, DeliveredFacts
  <2>2. CallsInv(u)'
    <3>1. calls'[u] = 0 /\ task'[u].pc = "check" /\ task'[u].tries \in Nat
      <4>1. CallsInv(u) /\ task[u].pc = "none" /\ calls' = calls
        BY <1>2, <2>1 DEF Delivered
      <4>2. calls[u] = 0
        BY <4>1 DEF CallsInv
      <4>3. task'[u].pc = "check" /\ task' \in [Deliveries -> TaskRecord]
        BY <2>1 DEF Delivered
      <4> QED
        BY <4>1, <4>2, <4>3 DEF TaskRecord
    <3>2. IsFiniteSet({}) /\ Cardinality({}) = 0 /\ {} \subseteq Paid(u)'
      BY FS_EmptySet
    <3> QED
      BY <1>1, <1>2, <3>1, <3>2, AccountKept DEF Running
  <2>3. CallsInv(t)'
    <3>1. TaskInv(t) /\ TaskInv(t)' /\ CallsInv(t)
      BY <1>2
    <3>2. CASE task'[t] = task[t]
      BY <1>1, <2>1, <3>1, <3>2, OthersCalls
    <3>3. CASE /\ task[t].pc \in Running /\ task'[t].pc = "lost"
               /\ task'[t].symbols = task[t].symbols
      BY <1>1, <2>1, <3>1, <3>3, AccountClosed
    <3>4. CASE /\ task[t].pc \in Running /\ task'[t].pc = "check"
               /\ task'[t].tries = task[t].tries + 1 /\ task'[t].symbols = task[t].symbols
               /\ task'[t].start = task[t].start /\ task'[t].end = task[t].end
      <4>1. PICK held : held = Held(t)
        OBVIOUS
      <4>2. /\ IsFiniteSet(held) /\ Cardinality(held) \in Nat
            /\ Cardinality(Paid(t)) \in Nat /\ Cardinality(Paid(t)) <= Cardinality(held) + 1
        BY <1>1, <3>1, <4>1, PaidFacts
      <4>3. /\ calls[t] \in Nat /\ task[t].tries \in Nat
            /\ calls[t] <= Cardinality(Paid(t)) + task[t].tries
        BY <1>1, <3>1, <3>4, BoundAtWork
      <4>4. calls'[t] <= Cardinality(held) + task'[t].tries
        BY <2>1, <3>4, <4>2, <4>3
      <4>5. held \subseteq Paid(t)'
        BY <1>1, <3>4, <4>1, HeldGrows DEF Paid
      <4> QED
        BY <1>1, <3>1, <3>4, <4>2, <4>4, <4>5, AccountKept DEF Running
    <3> QED
      BY <2>1, <3>2, <3>3, <3>4 DEF Delivered
  <2>4. ASSUME NEW v \in Deliveries, v # t, v # u PROVE CallsInv(v)'
    <3>1. task'[v] = task[v] /\ calls'[v] = calls[v]
      BY <2>1, <2>4 DEF Delivered
    <3> QED
      BY <1>1, <1>2, <3>1, OthersCalls
  <2> QED
    BY <2>2, <2>3, <2>4
<1> QED
  BY <1>5, <1>6, <1>7, <1>8, <1>9, <1>10, TaskIsDelivery DEF Next

\* only a miss of t itself sends t to the provider
LEMMA OnlyMissBuys ==
    ASSUME TableInv, [Next]_vars, NEW t \in Deliveries,
           task[t].pc = "check", task'[t].pc = "fetch"
    PROVE  check_miss(t)
<1>1. TypeInv /\ TypeOK
  BY TableIsTyped DEF TypeInv
<1>2. SUFFICES ASSUME ~check_miss(t) PROVE FALSE
  OBVIOUS
<1>3. task'[t] # task[t]
  OBVIOUS
<1>4. PICK u \in Deliveries : publish_for_job(u) \/ fetch(u) \/ TaskStep(u)
  <2>1. ASSUME NEW v \in Deliveries, NEW w \in Deliveries,
               redelivered(v, w) \/ autoretry_unacked(v, w)
        PROVE  task'[t].pc # "fetch" \/ task'[t] = task[t]
    <3>1. Delivered(v, w)
      BY <1>1, <2>1, DeliveredFacts
    <3> QED
      BY <3>1 DEF Delivered
  <2> QED
    BY <1>3, <2>1, TaskIsDelivery DEF Next, vars, market_moves, result_ready, result_timeout
<1>5. u = t
  <2>1. ASSUME NEW k, Becomes(u, k), u # t PROVE FALSE
    BY <1>1, <1>3, <2>1, BecomesFacts
  <2> QED
    BY <1>4, <2>1 DEF publish_for_job, fetch, Publish, TaskStep, check_hit,
       check_miss, fetch_ohlcv, no_data, bulk_insert_market_data, autoretry, db_error,
       Ensured, Fail, StartOver
<1>6. CASE check_hit(t)
  <2>1. PICK s \in task[t].todo, series \in SUBSET Bar : Ensured(t, s, series)
    BY <1>1, <1>6 DEF check_hit, get_ohlcv_data, TypeOK, TaskRecord
  <2>2. s \in Symbols
    BY <1>1 DEF TypeOK, TaskRecord
  <2>3. task'[t].pc = IF task[t].todo = {s} THEN "done" ELSE "check"
    BY <1>1, <2>1, <2>2, EnsuredFacts
  <2> QED
    BY <2>3
<1>7. CASE db_error(t)
  <2>1. task'[t].pc = "failed"
    BY <1>1, <1>7, FailFacts DEF db_error
  <2> QED
    BY <2>1
<1> QED
  BY <1>2, <1>4, <1>5, <1>6, <1>7 DEF TaskStep, publish_for_job, fetch, Publish,
     fetch_ohlcv, no_data, bulk_insert_market_data, autoretry

\* where a range was answered, the table has something for every wider one
LEMMA AnsweredIsReadable ==
    ASSUME TypeOK, AnsweredInv, ~EveningOnly, NEW range \in answered, NEW t \in Deliveries,
           Asks(t, range.symbol, range)
    PROVE  get_ohlcv_data(range.symbol, task[t].start, task[t].end) # {}
<1>1. PICK b \in rows[range.symbol] : utc_date(b) \in range.start .. range.end
  BY DEF AnsweredInv, get_ohlcv_data
<1>2. /\ range.symbol \in Symbols /\ range.start \in Nat /\ range.end \in Nat
      /\ task[t].start \in Nat /\ task[t].end \in Nat
  BY DEF TypeOK, TaskRecord
<1>3. utc_date(b) \in task[t].start .. task[t].end
  BY <1>1, <1>2 DEF Asks
<1> QED
  BY <1>1, <1>3 DEF get_ohlcv_data

LEMMA TypeInvStep ==
    ASSUME TypeInv, [Next]_vars
    PROVE  TypeInv'
<1>1. TypeOK /\ TypeOK'
  BY TypeStep DEF TypeInv
<1>2. SUFFICES ASSUME NEW t \in Deliveries, task'[t].pc \in {"fetch", "insert"}
               PROVE  task'[t].symbol \in Symbols
  BY <1>1 DEF TypeInv
<1>3. task[t] \in TaskRecord /\ task[t].todo \subseteq Symbols
  BY <1>1 DEF TypeOK, TaskRecord
<1>4. CASE task'[t] = task[t]
  BY <1>2, <1>4 DEF TypeInv
<1>5. CASE task'[t] # task[t]
  <2>1. PICK u \in Deliveries : publish_for_job(u) \/ fetch(u) \/ TaskStep(u)
    <3>1. ASSUME NEW v \in Deliveries, NEW w \in Deliveries,
                 redelivered(v, w) \/ autoretry_unacked(v, w)
          PROVE  FALSE
      <4>1. Delivered(v, w)
        BY <1>1, <3>1, DeliveredFacts
      <4> QED
        BY <1>2, <1>5, <4>1 DEF Delivered
    <3> QED
      BY <1>5, <3>1, TaskIsDelivery DEF Next, vars, market_moves, result_ready, result_timeout
  <2>2. u = t
    <3>1. ASSUME NEW k, Becomes(u, k), u # t PROVE FALSE
      BY <1>1, <1>5, <3>1, BecomesFacts
    <3> QED
      BY <2>1, <3>1 DEF publish_for_job, fetch, Publish, TaskStep, check_hit,
         check_miss, fetch_ohlcv, no_data, bulk_insert_market_data, autoretry, db_error,
         Ensured, Fail, StartOver
  <2>3. ~Fail(t)
    BY <1>1, <1>2, FailFacts
  <2>4. ASSUME NEW n \in 0 .. MaxRetries PROVE ~StartOver(t, n)
    BY <1>1, <1>2, StartOverFacts
  <2>5. ASSUME NEW s \in Symbols, NEW series \in SUBSET Bar PROVE ~Ensured(t, s, series)
    <3>1. SUFFICES ASSUME Ensured(t, s, series) PROVE FALSE
      OBVIOUS
    <3>2. task'[t].pc = IF task[t].todo = {s} THEN "done" ELSE "check"
      BY <1>1, <3>1, EnsuredFacts
    <3> QED
      BY <1>2, <3>2
  <2>6. ASSUME NEW kind \in {"job", "symbol"}, NEW symbols \in SUBSET Symbols,
               NEW start \in Days, NEW end \in Days
        PROVE  ~Publish(t, kind, symbols, start, end)
    <3>1. SUFFICES ASSUME Publish(t, kind, symbols, start, end) PROVE FALSE
      OBVIOUS
    <3>2. task'[t] = [id |-> t, pc |-> "check", kind |-> kind, symbols |-> symbols,
                      todo |-> symbols, symbol |-> NoSymbol, start |-> start,
                      end |-> end, tries |-> 0, series |-> {}]
      BY <1>1, <3>1, PublishFacts
    <3> QED
      BY <1>2, <3>2
  <2>7. ~publish_for_job(t) /\ ~fetch(t)
    BY <2>6, JobInput, SymbolAssumption DEF fetch
  <2>8. ~db_error(t)
    BY <2>3 DEF db_error
  <2>9. ~autoretry(t)
    <3>1. task[t].tries < MaxRetries => task[t].tries + 1 \in 0 .. MaxRetries
      BY <1>3 DEF TaskRecord
    <3> QED
      BY <2>3, <2>4, <3>1 DEF autoretry
  <2>10. ~check_hit(t)
    <3>1. ASSUME NEW s \in Symbols
          PROVE  get_ohlcv_data(s, task[t].start, task[t].end) \in SUBSET Bar
      BY <1>1 DEF TypeOK, get_ohlcv_data
    <3> QED
      BY <1>3, <2>5, <3>1 DEF check_hit
  <2>11. ~no_data(t) /\ ~bulk_insert_market_data(t)
    <3>1. task[t].pc \in {"fetch", "insert"} => task[t].symbol \in Symbols
      BY DEF TypeInv
    <3> QED
      BY <1>3, <2>3, <2>5, <3>1 DEF no_data, bulk_insert_market_data, TaskRecord
  <2>12. CASE check_miss(t)
    <3>1. PICK s \in Symbols : Becomes(t, [task[t] EXCEPT !.pc = "fetch", !.symbol = s])
      BY <1>3, <2>12 DEF check_miss
    <3>2. task'[t] = [task[t] EXCEPT !.pc = "fetch", !.symbol = s]
      BY <1>1, <3>1, BecomesFacts
    <3> QED
      BY <1>3, <3>2 DEF TaskRecord
  <2>13. CASE fetch_ohlcv(t)
    <3>1. PICK series : Becomes(t, [task[t] EXCEPT !.pc = "insert", !.series = series])
      BY <2>13 DEF fetch_ohlcv
    <3>2. task'[t] = [task[t] EXCEPT !.pc = "insert", !.series = series]
      BY <1>1, <3>1, BecomesFacts
    <3>3. task'[t].symbol = task[t].symbol /\ task[t].symbol \in Symbols
      BY <1>3, <2>13, <3>2 DEF TaskRecord, TypeInv, fetch_ohlcv
    <3> QED
      BY <3>3
  <2> QED
    BY <2>1, <2>2, <2>7, <2>8, <2>9, <2>10, <2>11, <2>12, <2>13 DEF TaskStep
<1> QED
  BY <1>4, <1>5

-------------------------------------------------------------------------------
(* The theorems.                                                           *)

\* The variables keep their types, whatever dates the provider's bars have.
THEOREM TypeCorrect == Spec => []TypeOK
<1>1. Init => TypeInv
  BY TypeInit DEF Init, NoTask, TypeInv
<1>2. TypeInv /\ [Next]_vars => TypeInv'
  BY TypeInvStep
<1>3. TypeInv => TypeOK
  BY DEF TypeInv
<1> QED
  BY <1>1, <1>2, <1>3, PTL DEF Spec

LEMMA TableInductive == Spec => []TableInv
BY TableInit, TableStep, PTL DEF Spec

LEMMA Inductive ==
    ASSUME ~EveningOnly
    PROVE  Spec => []IInv
<1>1. Init => IInv
  BY TableInit, CallsInit DEF IInv
<1>2. IInv /\ [Next]_vars => IInv'
  <2> SUFFICES ASSUME IInv, [Next]_vars PROVE IInv'
    OBVIOUS
  <2>1. TableInv'
    BY TableStep DEF IInv
  <2>2. \A t \in Deliveries : CallsInv(t)'
    BY <2>1, CallsStep
  <2> QED
    BY <2>1, <2>2 DEF IInv
<1> QED
  BY <1>1, <1>2, PTL DEF Spec

\* What a successful data task of a job ensured, run_backtest can load: for any
\* number of tasks, deliveries, symbols and days, and any retries, if no day
\* trades after midnight UTC only (ensure_data).
THEOREM EnsuredReadable ==
    ASSUME ~EveningOnly
    PROVE  Spec => []EnsuredIsReadable
<1>1. TableInv => EnsuredIsReadable
  BY DEF TableInv, TaskInv, EnsuredInv, EnsuredIsReadable, Held
<1> QED
  BY <1>1, TableInductive, PTL

\* What the endpoint's task answered is in the table, and readers of its range
\* find all of it but late bars of the last day, whatever days trade when.
THEOREM AnswersStored == Spec => []AnswerIsStored
<1>1. TableInv => AnswerIsStored
  BY DEF TableInv, TaskInv, AnswerInv, Stored, AnswerIsStored
<1> QED
  BY <1>1, TableInductive, PTL

\* No range that was answered is bought again, by whomever it is asked, if no day
\* trades after midnight UTC only.
THEOREM BoughtOnce ==
    ASSUME ~EveningOnly
    PROVE  Spec => NeverBoughtTwice
<1> DEFINE A == \A t \in Deliveries :
                  (task[t].pc = "check" /\ task'[t].pc = "fetch") =>
                      \A range \in answered : ~Asks(t, task'[t].symbol, range)
<1>1. TableInv /\ [Next]_vars => A
  <2> SUFFICES ASSUME TableInv, [Next]_vars, NEW t \in Deliveries, task[t].pc = "check",
                      task'[t].pc = "fetch", NEW range \in answered,
                      Asks(t, task'[t].symbol, range)
               PROVE  FALSE
    OBVIOUS
  <2>1. TypeOK /\ AnsweredInv /\ check_miss(t)
    BY OnlyMissBuys DEF TableInv
  <2>2. PICK s : /\ get_ohlcv_data(s, task[t].start, task[t].end) = {}
                 /\ Becomes(t, [task[t] EXCEPT !.pc = "fetch", !.symbol = s])
    BY <2>1 DEF check_miss
  <2>3. task'[t].symbol = s
    <3>1. task'[t] = [task[t] EXCEPT !.pc = "fetch", !.symbol = s]
      BY <2>1, <2>2, BecomesFacts
    <3> QED
      BY <2>1, <3>1 DEF TypeOK, TaskRecord
  <2>4. Asks(t, range.symbol, range) /\ range.symbol = s
    BY <2>3 DEF Asks
  <2> QED
    BY <2>1, <2>2, <2>4, AnsweredIsReadable
<1>2. TableInv /\ [Next]_vars => [A]_vars
  BY <1>1
<1>3. [][A]_vars => NeverBoughtTwice
  BY PTL DEF NeverBoughtTwice
<1> QED
  BY <1>2, <1>3, TableInductive, PTL DEF Spec

\* A delivery and its retries turn to the provider at most once per symbol and
\* retry, however many deliveries of the message are at work, if no day trades
\* after midnight UTC only.
THEOREM CallsAreBounded ==
    ASSUME ~EveningOnly
    PROVE  Spec => []CallsBounded
<1>1. IInv => CallsBounded
  <2> SUFFICES ASSUME IInv, NEW t \in Deliveries
               PROVE  calls[t] <= Cardinality(task[t].symbols) + MaxRetries
    BY DEF CallsBounded
  <2>1. TypeOK /\ TaskInv(t) /\ CallsInv(t)
    BY DEF IInv, TableInv
  <2>2. CASE task[t].pc \in Running
    BY <2>1, <2>2, BoundAtWork
  <2>3. CASE task[t].pc = "none"
    <3>1. calls[t] = 0 /\ Cardinality(task[t].symbols) \in Nat
      BY <2>1, <2>3, PaidFacts DEF CallsInv, TypeOK
    <3> QED
      BY <3>1
  <2>4. CASE task[t].pc \in Finished \cup {"lost"}
    BY <2>1, <2>4 DEF CallsInv
  <2> QED
    BY <2>1, <2>2, <2>3, <2>4 DEF TypeOK, TaskRecord, Pcs, Running, Finished
<1> QED
  BY <1>1, Inductive, PTL

===============================================================================
