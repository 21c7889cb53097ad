------------------------------ MODULE MarketData ------------------------------
(***************************************************************************)
(* Market data, read through a table: MarketDataService.ensure_data as it  *)
(* is run by the two fetch tasks (ensure_market_data_for_job, one call per *)
(* symbol of a job, and ensure_market_data_for_symbol), by any number of   *)
(* them at once over one market_data table, and the endpoint that starts   *)
(* a symbol task and waits for it (MarketDataFetcher.fetch).               *)
(*                                                                         *)
(* ensure_data reads the table, and only if the range holds no bar at all  *)
(* takes a slot of the limiter, asks the provider and inserts what it got: *)
(* check, fetch and insert are steps here, because other tasks run in      *)
(* between.  The broker delivers a message again when its worker did not   *)
(* acknowledge it in time, so one task may be at work several times over.  *)
(* Time is left out: RedisRateLimiter models the wait for a slot.          *)
(***************************************************************************)
EXTENDS Integers, FiniteSets

CONSTANTS Symbols,      \* tickers, in every spelling that is asked for
          NoSymbol,     \* the symbol of a task that is at none
          Upper,        \* Upper[s]: s in the spelling of strip().upper()
          Tasks,        \* fetch tasks that may be published (bound)
          Copies,       \* further deliveries of their messages (bound)
          Jobs,         \* the symbols and ranges that jobs ask for (bound)
          LastDay,      \* days are 1 .. LastDay (bound)
          EveningDays,  \* days that still trade after midnight UTC (in winter)
          EveningOnly,  \* may such a day trade only then?
          Markets,      \* what the provider may have at first (bound)
          Trading,      \* symbols that get new bars of the last day meanwhile
          SpanCap,      \* _MAX_SPAN_DAYS of the endpoint, for the one interval
          MaxRetries    \* max_retries of both tasks (3 in the code)

ASSUME SymbolAssumption ==
    IsFiniteSet(Symbols) /\ NoSymbol \notin Symbols /\ Upper \in [Symbols -> Symbols]
ASSUME NumbersAssumption == LastDay \in Nat /\ SpanCap \in Nat /\ MaxRetries \in Nat

VARIABLES market,   \* market[s]: the bars the provider has for s
          rows,     \* rows[s]: the bars of s in the market_data table
          task,     \* task[t]: one delivery of a task, with the retries it publishes
          client,   \* client[t]: the request that waits for symbol task t
          answered, \* history: the ranges that ensure_data returned bars for
          calls     \* history: how often delivery t turned to the provider

vars == <<market, rows, task, client, answered, calls>>

-------------------------------------------------------------------------------
Days == 1 .. LastDay

\* late: 1 for a bar after midnight UTC, which still belongs to the day before
Bar == {b \in [day : Days, late : {0, 1}] : b.late = 1 => b.day \in EveningDays}

utc_date(bar) == bar.day + bar.late

\* a day that trades in the evening traded before, unless EveningOnly
Plausible(bars) == \A b \in bars : EveningOnly \/ [day |-> b.day, late |-> 0] \in bars

ASSUME InputAssumption ==
    /\ EveningOnly \in BOOLEAN
    /\ Markets \subseteq [Symbols -> {bars \in SUBSET Bar : Plausible(bars)}]
    /\ Jobs \subseteq [symbols : SUBSET Symbols \ {{}}, start : Days, end : Days]

\* what list_aggs(from_, to) returns: the provider counts its own trading days
list_aggs(s, start, end) == {b \in market[s] : b.day \in start .. end}

\* mutant: end_time is compared without the extra day and excludes the last one
Bug_get_ohlcv_data(s, start, end) == {b \in rows[s] : utc_date(b) \in start .. end - 1}

\* the select by UTC timestamp, both dates inclusive ({} for None)
get_ohlcv_data(s, start, end) == {b \in rows[s] : utc_date(b) \in start .. end}

-------------------------------------------------------------------------------
Deliveries == Tasks \cup Copies

\* lost: the worker died, and another delivery goes on
Pcs      == {"none", "check", "fetch", "insert", "done", "failed", "lost"}
Running  == {"check", "fetch", "insert"}
Finished == {"done", "failed"}

TaskRecord == [id : Deliveries, pc : Pcs, kind : {"job", "symbol"},
               symbols : SUBSET Symbols, todo : SUBSET Symbols,
               symbol : Symbols \cup {NoSymbol}, start : Nat, end : Nat,
               tries : 0 .. MaxRetries, series : SUBSET Bar]

NoTask(t) == [id |-> t, pc |-> "none", kind |-> "symbol", symbols |-> {}, todo |-> {},
              symbol |-> NoSymbol, start |-> 1, end |-> 1, tries |-> 0, series |-> {}]

TypeOK ==
    /\ market   \in [Symbols -> SUBSET Bar]
    /\ rows     \in [Symbols -> SUBSET Bar]
    /\ task     \in [Deliveries -> TaskRecord]
    /\ client   \in [Tasks -> {"none", "waiting", "answered", "error", "timeout"}]
    /\ answered \in SUBSET [symbol : Symbols, start : Nat, end : Nat]
    /\ calls    \in [Deliveries -> Nat]

Init ==
    /\ market   \in Markets
    /\ rows     = [s \in Symbols |-> {}]
    /\ task     = [t \in Deliveries |-> NoTask(t)]
    /\ client   = [t \in Tasks |-> "none"]
    /\ answered = {}
    /\ calls    = [t \in Deliveries |-> 0]

-------------------------------------------------------------------------------
(* A task is published: by a dispatched job, or by the endpoint.           *)

Becomes(t, record) == task' = [task EXCEPT ![t] = record]

Publish(t, kind, symbols, start, end) ==
    /\ task[t].pc = "none"
    /\ Becomes(t, [id |-> t, pc |-> "check", kind |-> kind, symbols |-> symbols,
                   todo |-> symbols, symbol |-> NoSymbol, start |-> start, end |-> end,
                   tries |-> 0, series |-> {}])
    /\ UNCHANGED <<market, rows, answered, calls>>

\* a job's range is only checked for its order, and its symbols are kept as given
publish_for_job(t) ==
    \E job \in Jobs :
        /\ job.start <= job.end
        /\ Publish(t, "job", job.symbols, job.start, job.end)
        /\ UNCHANGED client

\* a request that is refused (400) publishes nothing and is no step
fetch(t) ==
    \E s \in Symbols, start, end \in Days :
        /\ start <= end
        /\ end - start <= SpanCap
        /\ Publish(t, "symbol", {Upper[s]}, start, end)
        /\ client' = [client EXCEPT ![t] = "waiting"]

-------------------------------------------------------------------------------
(* The task.                                                               *)

Over(t, pc) == [task[t] EXCEPT !.pc = pc, !.todo = {}, !.symbol = NoSymbol, !.series = {}]

\* the task ends as FAILURE
Fail(t) == Becomes(t, Over(t, "failed"))

\* ensure_data returned series for s: on to the next symbol, or the task is over
Ensured(t, s, series) ==
    /\ Becomes(t, [task[t] EXCEPT
           !.pc     = IF task[t].todo = {s} THEN "done" ELSE "check",
           !.todo   = @ \ {s},
           !.symbol = NoSymbol,
           !.series = IF task[t].kind = "symbol" THEN series ELSE {}])
    /\ answered' = IF series = {} THEN answered
                   ELSE answered \cup {[symbol |-> s, start |-> task[t].start,
                                        end |-> task[t].end]}

check_hit(t) ==
    /\ task[t].pc = "check"
    /\ \E s \in task[t].todo :
          LET existing == get_ohlcv_data(s, task[t].start, task[t].end)
          IN  existing # {} /\ Ensured(t, s, existing)
    /\ UNCHANGED <<market, rows, client, calls>>

check_miss(t) ==
    /\ task[t].pc = "check"
    /\ \E s \in task[t].todo :
          /\ get_ohlcv_data(s, task[t].start, task[t].end) = {}
          /\ Becomes(t, [task[t] EXCEPT !.pc = "fetch", !.symbol = s])
    /\ calls' = [calls EXCEPT ![t] = @ + 1]
    /\ UNCHANGED <<market, rows, client, answered>>

\* the limiter gives a slot and the provider answers
fetch_ohlcv(t) ==
    /\ task[t].pc = "fetch"
    /\ LET series == list_aggs(task[t].symbol, task[t].start, task[t].end)
       IN  /\ series # {}
           /\ Becomes(t, [task[t] EXCEPT !.pc = "insert", !.series = series])
    /\ UNCHANGED <<market, rows, client, answered, calls>>

\* mutant: a job takes a range without data for a success
Bug_no_data(t) ==
    /\ task[t].pc = "fetch"
    /\ list_aggs(task[t].symbol, task[t].start, task[t].end) = {}
    /\ Ensured(t, task[t].symbol, {})
    /\ UNCHANGED <<market, rows, client, calls>>

\* NoDataError: fails a job at once, is an empty series for a symbol task
no_data(t) ==
    /\ task[t].pc = "fetch"
    /\ list_aggs(task[t].symbol, task[t].start, task[t].end) = {}
    /\ IF task[t].kind = "symbol" THEN Ensured(t, task[t].symbol, {})
                                  ELSE Fail(t) /\ UNCHANGED answered
    /\ UNCHANGED <<market, rows, client, calls>>

\* mutant: the session is left without commit
Bug_bulk_insert_market_data(t) ==
    /\ task[t].pc = "insert"
    /\ Ensured(t, task[t].symbol, task[t].series)
    /\ UNCHANGED <<market, rows, client, calls>>

\* ON CONFLICT DO NOTHING: a bar another task inserted meanwhile stays as it is
bulk_insert_market_data(t) ==
    /\ task[t].pc = "insert"
    /\ rows' = [rows EXCEPT ![task[t].symbol] = @ \cup task[t].series]
    /\ Ensured(t, task[t].symbol, task[t].series)
    /\ UNCHANGED <<market, client, calls>>

-------------------------------------------------------------------------------
(* What goes wrong.  ProviderError (any failure of the API call) and       *)
(* RedisError (the limiter fails closed) are retried from the first symbol,*)
(* a database error is not.                                                *)

\* the message of t, to be run from the start
Message(t, tries) == [task[t] EXCEPT !.pc = "check", !.todo = task[t].symbols,
                                     !.tries = tries, !.symbol = NoSymbol, !.series = {}]

StartOver(t, tries) == Becomes(t, Message(t, tries))

\* mutant: the retry is published without the count
Bug_autoretry(t) ==
    /\ task[t].pc = "fetch"
    /\ StartOver(t, task[t].tries)
    /\ UNCHANGED <<market, rows, client, answered, calls>>

\* mutant: `retries <= max_retries`, one retry too many
Bug_autoretry_bound(t) ==
    /\ task[t].pc = "fetch"
    /\ task[t].tries <= MaxRetries
    /\ StartOver(t, task[t].tries + 1)
    /\ UNCHANGED <<market, rows, client, answered, calls>>

autoretry(t) ==
    /\ task[t].pc = "fetch"
    /\ IF task[t].tries < MaxRetries
       THEN StartOver(t, task[t].tries + 1)
       ELSE Fail(t)
    /\ UNCHANGED <<market, rows, client, answered, calls>>

\* the select fails, or the insert, before or after the commit arrived
db_error(t) ==
    /\ task[t].pc \in {"check", "insert"}
    /\ \/ UNCHANGED rows
       \/ /\ task[t].pc = "insert"
          /\ rows' = [rows EXCEPT ![task[t].symbol] = @ \cup task[t].series]
    /\ Fail(t)
    /\ UNCHANGED <<market, client, answered, calls>>

\* the retry is published, and the worker dies before it acknowledges the message
\* that failed: both are delivered
autoretry_unacked(t, u) ==
    /\ task[t].pc = "fetch"
    /\ task[t].tries < MaxRetries
    /\ task[u].pc = "none"
    /\ task' = [task EXCEPT ![t] = Message(t, task[t].tries + 1),
                            ![u] = Message(t, task[t].tries)]
    /\ UNCHANGED <<market, rows, client, answered, calls>>

\* a message is acknowledged only after its task has ended: when the visibility
\* timeout has passed it is delivered again, to a second worker while the first
\* goes on, or because the first one died
redelivered(t, u) ==
    /\ task[t].pc \in Running \cup Finished
    /\ task[u].pc = "none"
    /\ \E died \in BOOLEAN :
          /\ died => task[t].pc \in Running
          /\ task' = [task EXCEPT ![t] = IF died THEN Over(t, "lost") ELSE @,
                                  ![u] = Message(t, task[t].tries)]
    /\ UNCHANGED <<market, rows, client, answered, calls>>

-------------------------------------------------------------------------------
(* The endpoint's wait for the result, and the provider.                   *)

\* the result backend keeps the first success, whatever another delivery reports
result_ready(t) ==
    /\ client[t] = "waiting"
    /\ LET ends == {task[u].pc : u \in {v \in Deliveries : task[v].id = t}} \cap Finished
       IN  /\ ends # {}
           /\ client' = [client EXCEPT ![t] = IF "done" \in ends THEN "answered" ELSE "error"]
    /\ UNCHANGED <<market, rows, task, answered, calls>>

\* 504: nothing revokes the task
result_timeout(t) ==
    /\ client[t] = "waiting"
    /\ client' = [client EXCEPT ![t] = "timeout"]
    /\ UNCHANGED <<market, rows, task, answered, calls>>

market_moves(s) ==
    /\ s \in Trading
    /\ \E b \in {x \in Bar : x.day = LastDay} \ market[s] :
          /\ Plausible(market[s] \cup {b})
          /\ market' = [market EXCEPT ![s] = @ \cup {b}]
    /\ UNCHANGED <<rows, task, client, answered, calls>>

TaskStep(t) ==
    \/ check_hit(t)
    \/ check_miss(t)
    \/ fetch_ohlcv(t)
    \/ no_data(t)
    \/ bulk_insert_market_data(t)
    \/ autoretry(t)
    \/ db_error(t)

Next ==
    \/ \E t \in Tasks :
          \/ publish_for_job(t)
          \/ fetch(t)
          \/ result_ready(t)
          \/ result_timeout(t)
    \/ \E t \in Deliveries :
          \/ TaskStep(t)
          \/ \E u \in Copies : redelivered(t, u) \/ autoretry_unacked(t, u)
    \/ \E s \in Symbols : market_moves(s)

Spec == Init /\ [][Next]_vars

-------------------------------------------------------------------------------
\* When the data task of a job has succeeded, every symbol of the job can be
\* loaded for the job's range: run_backtest reads the table again, and raises
\* ValueError when it finds nothing (core/backtest.py).  Not so if EveningOnly:
\* all that was fetched may then be filed under the next date.
EnsuredIsReadable ==
    \A t \in Deliveries :
        (task[t].kind = "job" /\ task[t].pc = "done") =>
            \A s \in task[t].symbols : get_ohlcv_data(s, task[t].start, task[t].end) # {}

\* What a symbol task answered is in the table, whichever deliveries fetched the
\* same bars at the same time, failed or were run again; and whoever reads the
\* same range later misses nothing of it but the late bars of the last day, which
\* the provider counts to the range and the table files under the next date.
AnswerIsStored ==
    \A t \in Deliveries :
        (task[t].kind = "symbol" /\ task[t].pc = "done") =>
            \A s \in task[t].symbols, b \in task[t].series :
                /\ b \in rows[s]
                /\ \/ b \in get_ohlcv_data(s, task[t].start, task[t].end)
                   \/ b.late = 1 /\ b.day = task[t].end

Asks(t, s, range) ==
    s = range.symbol /\ task[t].start <= range.start /\ range.end <= task[t].end

\* A range that some task returned bars for is never bought again: not by a
\* retry or a redelivery of the task, nor by another task, nor by a client that
\* asks again after its timeout.  (Two deliveries that miss at the same time may
\* both buy; and if EveningOnly, a range of late bars only is bought every time.)
NeverBoughtTwice ==
    [][\A t \in Deliveries :
          (task[t].pc = "check" /\ task'[t].pc = "fetch") =>
              \A range \in answered : ~Asks(t, task'[t].symbol, range)]_vars

\* A delivery, with all the retries it publishes, turns to the provider once for
\* each of its symbols and once more for each retry: an attempt that starts over
\* skips what an earlier one saved, and attempts are bounded, whatever other
\* deliveries of the same message do meanwhile.  Each delivery has an account of
\* its own: a message that is delivered again may spend as much again.
CallsBounded ==
    \A t \in Deliveries : calls[t] <= Cardinality(task[t].symbols) + MaxRetries

\* "OHLCVSeries with bars for the requested range" (ensure_data): what a symbol
\* task answers is all the provider has for the range.
RangeIsComplete ==
    \A t \in Deliveries :
        (task[t].kind = "symbol" /\ task[t].pc = "done") =>
            \A s \in task[t].symbols :
                list_aggs(s, task[t].start, task[t].end) \subseteq task[t].series
===============================================================================
