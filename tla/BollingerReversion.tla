--------------------------- MODULE BollingerReversion ---------------------------
(***************************************************************************)
(* BollingerReversionStrategy.run: one pass over the bars of a price frame *)
(* that buys below the lower band and sells at the exit band, a forced     *)
(* exit at the end, and calculate_metrics over the trades.                 *)
(*                                                                         *)
(* The bands are a library's: a bar is its time of day in New York, its    *)
(* close, and where that close lies: below the lower band, up to the       *)
(* middle one (low), up to the upper one (high), or above.  Fractions are  *)
(* pairs <<numerator, denominator>>; the rounding to two digits is left    *)
(* out.  Bar k here is bar k - 1 of the DataFrame.                         *)
(***************************************************************************)
EXTENDS Integers, Sequences, FiniteSets

CONSTANTS Bars,            \* the bars a frame is made of
          MaxBars,         \* rows of a frame (bound)
          length,          \* lookback period of the bands
          initial_capital

Zones == {"below", "low", "high", "above"}

ASSUME StrategyAssumption ==
    /\ Bars \subseteq [time : Nat, close : Nat \ {0}, zone : Zones]
    /\ MaxBars \in Nat /\ length \in Nat \ {0} /\ initial_capital \in Nat \ {0}

VARIABLES df,              \* the price frame
          exit_at,         \* "middle" or "upper"
          pc,              \* the step of run that is next
          i,               \* the bar the loop looks at
          in_position,
          trades,
          metrics

vars == <<df, exit_at, pc, i, in_position, trades, metrics>>

Frames == UNION {[1 .. n -> Bars] : n \in 0 .. MaxBars}

Trade == [at : 1 .. MaxBars, signal : {"BUY", "SELL"}, price : Nat \ {0}]

\* BacktestMetrics(): every field zero, the ending capital too
NoMetrics == [num_trades |-> 0, wins |-> 0, ending_capital |-> <<0, 1>>, max_drawdown |-> <<0, 1>>]

Init == /\ df \in Frames
        /\ exit_at \in {"middle", "upper"}
        /\ pc = "bands" /\ i = 0
        /\ in_position = FALSE
        /\ trades = <<>>
        /\ metrics = NoMetrics

-------------------------------------------------------------------------------
(* The session and the signals.                                            *)

market_open  == 9 * 60 + 30
market_close == 16 * 60

is_regular_session(k) == market_open <= df[k].time /\ df[k].time < market_close

session_positions == {k \in 1 .. Len(df) : is_regular_session(k)}

below_lower(k) == df[k].zone = "below"

reaches_exit(k) == \/ df[k].zone = "above"
                   \/ df[k].zone = "high" /\ exit_at = "middle"

\* mutant: the price is the change since the first bar
Bug_trade(k, signal) == [at |-> k, signal |-> signal, price |-> df[k].close - df[1].close]

trade(k, signal) == [at |-> k, signal |-> signal, price |-> df[k].close]

-------------------------------------------------------------------------------
(* calculate_metrics                                                       *)

\* the k-th pair of a list of trades: trades 2 k - 1 and 2 k
completed(ts) == {k \in 1 .. Len(ts) \div 2 : ts[2*k - 1].signal = "BUY" /\ ts[2*k].signal = "SELL"}

\* mutant: break-even counts as a win
Bug_wins(ts) == {k \in completed(ts) : ts[2*k].price >= ts[2*k - 1].price}

wins(ts) == {k \in completed(ts) : ts[2*k].price > ts[2*k - 1].price}

Less(p, q) == p[1] * q[2] < q[1] * p[2]
Greatest(p, q) == IF Less(p, q) THEN q ELSE p

\* (peak - equity) / peak
fall(peak, equity) == <<peak[1] * equity[2] - equity[1] * peak[2], peak[1] * equity[2]>>

\* mutant: the fall is taken from the starting capital
Bug_after_pair(c, buy, sell) ==
    LET equity == <<c.equity[1] * sell, c.equity[2] * buy>>
    IN  [equity |-> equity, peak |-> c.peak,
         max_drawdown |-> Greatest(c.max_drawdown, fall(c.peak, equity))]

\* one round of the equity loop
after_pair(c, buy, sell) ==
    LET equity == <<c.equity[1] * sell, c.equity[2] * buy>>
        peak   == Greatest(c.peak, equity)
    IN  [equity |-> equity, peak |-> peak,
         max_drawdown |-> Greatest(c.max_drawdown, fall(peak, equity))]

\* the equity loop after its first k pairs
curve(ts) ==
    LET c[k \in 0 .. Len(ts) \div 2] ==
          IF k = 0 THEN [equity |-> <<initial_capital, 1>>, peak |-> <<initial_capital, 1>>,
                         max_drawdown |-> <<0, 1>>]
          ELSE IF k \notin completed(ts) THEN c[k - 1]
          ELSE after_pair(c[k - 1], ts[2*k - 1].price, ts[2*k].price)
    IN  c

calculate_metrics(ts) ==
    IF completed(ts) = {} THEN NoMetrics
    ELSE LET last == curve(ts)[Len(ts) \div 2]
         IN  [num_trades |-> Cardinality(completed(ts)), wins |-> Cardinality(wins(ts)),
              ending_capital |-> last.equity, max_drawdown |-> last.max_drawdown]

-------------------------------------------------------------------------------
(* run                                                                     *)

\* the bands of the first length - 1 bars are missing, and the bar that has
\* the first bands is passed over
apply_bands == /\ pc = "bands" /\ Len(df) >= length
               /\ pc' = "loop" /\ i' = length + 1
               /\ UNCHANGED <<df, exit_at, in_position, trades, metrics>>

\* pandas-ta has too few rows: ValueError
apply_bands_raises == /\ pc = "bands" /\ Len(df) < length
                      /\ pc' = "raised"
                      /\ UNCHANGED <<df, exit_at, i, in_position, trades, metrics>>

InLoop == pc = "loop" /\ i <= Len(df)
NextBar == i' = i + 1 /\ UNCHANGED <<df, exit_at, pc, metrics>>

\* mutant: no look at the position
Bug_buys == is_regular_session(i) /\ below_lower(i)

buys  == is_regular_session(i) /\ ~in_position /\ below_lower(i)

\* mutant: sells at the upper band whatever exit_at says
Bug_sells == is_regular_session(i) /\ in_position /\ df[i].zone = "above"

sells == is_regular_session(i) /\ in_position /\ reaches_exit(i)

buy == /\ InLoop /\ buys
       /\ in_position' = TRUE
       /\ trades' = Append(trades, trade(i, "BUY"))
       /\ NextBar

sell == /\ InLoop /\ sells
        /\ in_position' = FALSE
        /\ trades' = Append(trades, trade(i, "SELL"))
        /\ NextBar

\* out of the session, or no signal
pass == InLoop /\ ~buys /\ ~sells /\ UNCHANGED <<in_position, trades>> /\ NextBar

\* mutant: the last bar of the frame
Bug_exit_i == Len(df)

\* session_positions[-1]
exit_i == CHOOSE k \in session_positions : \A l \in session_positions : l <= k

\* the frame is at its end: sell what is still held
force_exit == /\ pc = "loop" /\ i > Len(df)
              /\ trades' = IF in_position /\ session_positions # {}
                           THEN Append(trades, trade(exit_i, "SELL"))
                           ELSE trades
              /\ pc' = "metrics"
              /\ UNCHANGED <<df, exit_at, i, in_position, metrics>>

return_result == /\ pc = "metrics"
                 /\ metrics' = calculate_metrics(trades)
                 /\ pc' = "done"
                 /\ UNCHANGED <<df, exit_at, i, in_position, trades>>

Next == \/ apply_bands \/ apply_bands_raises
        \/ buy \/ sell \/ pass
        \/ force_exit \/ return_result

Spec == Init /\ [][Next]_vars

-------------------------------------------------------------------------------
(* Properties.                                                             *)

TypeOK ==
    /\ df \in Frames
    /\ exit_at \in {"middle", "upper"}
    /\ pc \in {"bands", "loop", "metrics", "done", "raised"}
    /\ i \in 0 .. MaxBars + 1
    /\ in_position \in BOOLEAN
    /\ trades \in Seq(Trade)

Over == pc \in {"metrics", "done"}

(* "Only one position at a time (no pyramiding)", and none left over:      *)
(* trades alternate from a BUY, in the order of the bars, and once run is  *)
(* over each BUY has its SELL.  Only a forced exit may share the bar of    *)
(* its BUY.  calculate_metrics relies on it: it pairs trades by place.     *)
TradesAlternate ==
    /\ \A k \in 1 .. Len(trades) : trades[k].signal = IF k % 2 = 1 THEN "BUY" ELSE "SELL"
    /\ \A k \in 1 .. Len(trades) - 1 :
         \/ trades[k].at < trades[k + 1].at
         \/ /\ trades[k].at = trades[k + 1].at
            /\ Over /\ k + 1 = Len(trades) /\ trades[k + 1].signal = "SELL"
    /\ Over => Len(trades) % 2 = 0

(* "The regular session is 09:30 (inclusive) to 16:00 (exclusive) ET": no  *)
(* trade, the forced exit included, is made at an extended-hours price.    *)
TradedInSession ==
    \A k \in 1 .. Len(trades) :
      /\ 570 <= df[trades[k].at].time /\ df[trades[k].at].time < 960
      /\ trades[k].price = df[trades[k].at].close

(* No signal is missed and none invented: after a BUY the first bar of the *)
(* session that reaches the exit band sells (the last bar of the session   *)
(* if none does), after a SELL the first one below the lower band buys.    *)
Seen == {k \in length + 1 .. Len(df) : is_regular_session(k) /\ (pc = "loop" => k < i)}
NoEntry(from, to) == \A k \in Seen : from < k /\ k < to => ~below_lower(k)
NoExit(from, to)  == \A k \in Seen : from < k /\ k < to => ~reaches_exit(k)
At(k) == IF k = 0 THEN 0 ELSE IF k > Len(trades) THEN MaxBars + 1 ELSE trades[k].at
IsLast(k) == \A l \in session_positions : l <= k
TradesAreFirstSignals ==
    pc \notin {"bands", "raised"} =>
      \A k \in 0 .. Len(trades) :
        IF k % 2 = 1
        THEN below_lower(At(k)) /\ NoExit(At(k), At(k + 1))
        ELSE /\ NoEntry(At(k), At(k + 1))
             /\ \/ k = 0 \/ reaches_exit(At(k))
                \/ Over /\ k = Len(trades) /\ IsLast(At(k))

(* The metrics say what the trades say: a trade is a BUY with the SELL     *)
(* after it, a win sells higher, and the money at the end is the capital   *)
(* times each sell over each buy price.  "No trades should return          *)
(* zeroed-out metrics".                                                    *)
Price(k) == trades[k].price
Product(ks) == LET P[m \in 0 .. Len(trades)] ==
                     IF m = 0 THEN 1 ELSE P[m - 1] * (IF m \in ks THEN Price(m) ELSE 1)
               IN  P[Len(trades)]
MetricsMatchTrades ==
    pc = "done" =>
      LET buys_of  == {k \in 1 .. Len(trades) : trades[k].signal = "BUY"}
          sells_of == {k \in 1 .. Len(trades) : trades[k].signal = "SELL"}
          money    == metrics.ending_capital
      IN  /\ metrics.num_trades = Cardinality(buys_of)
          /\ metrics.wins = Cardinality({k \in buys_of : Price(k + 1) > Price(k)})
          /\ IF trades = <<>> THEN metrics = NoMetrics
             ELSE money[1] * Product(buys_of) = money[2] * initial_capital * Product(sells_of)

(* max_drawdown is the worst fall of the equity from any value it had      *)
(* before, the starting capital included, and at no time negative.         *)
DrawdownIsWorstFall ==
    pc = "done" =>
      LET equity == [k \in 0 .. Len(trades) \div 2 |-> curve(trades)[k].equity]
          falls  == {fall(equity[p[1]], equity[p[2]]) :
                       p \in {q \in (DOMAIN equity) \X (DOMAIN equity) : q[1] <= q[2]}}
      IN  /\ \A f \in falls : ~Less(metrics.max_drawdown, f)
          /\ \E f \in falls : ~Less(f, metrics.max_drawdown)
===============================================================================
