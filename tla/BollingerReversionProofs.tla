------------------------ MODULE BollingerReversionProofs ------------------------
(***************************************************************************)
(* What holds of every frame, whatever its length, its prices, the period  *)
(* of the bands and the exit band: the trades alternate, are made in the   *)
(* session, and are the first signals; the metrics are what the trades     *)
(* say, and max_drawdown is the worst fall of the equity.                  *)
(***************************************************************************)
EXTENDS BollingerReversion, FiniteSetTheorems, TLAPS

-------------------------------------------------------------------------------
(* The inductive invariant.                                                *)

\* nothing is traded before the loop
StartInv == pc \in {"bands", "raised"} => trades = <<>> /\ in_position = FALSE

\* in the loop: trades are behind the loop, and a position is an open BUY
LoopInv == pc = "loop" => /\ i \in length + 1 .. Len(df) + 1
                          /\ Len(trades) % 2 = IF in_position THEN 1 ELSE 0
                          /\ \A k \in 1 .. Len(trades) : trades[k].at < i

\* every trade is made at a bar the loop has looked at
AtInv == \A k \in 1 .. Len(trades) : trades[k].at \in length + 1 .. Len(df)

Inv == TypeOK /\ StartInv /\ LoopInv /\ AtInv /\ TradesAlternate /\ TradedInSession

LEMMA Parity ==
    ASSUME NEW n \in Nat
    PROVE  /\ n % 2 = 0 \/ n % 2 = 1
           /\ n % 2 = 0 <=> (n + 1) % 2 = 1
  OBVIOUS

\* a frame has at most MaxBars rows, and each row is a bar
LEMMA FrameFacts ==
    ASSUME TypeOK
    PROVE  /\ Len(df) \in 0 .. MaxBars
           /\ \A k \in 1 .. Len(df) : df[k] \in Bars /\ df[k].time \in Nat
                                      /\ df[k].close \in Nat \ {0}
<1>1. PICK n \in 0 .. MaxBars : df \in [1 .. n -> Bars]
  BY StrategyAssumption DEF TypeOK, Frames
<1>2. Len(df) = n
  BY <1>1
<1>3. ASSUME NEW k \in 1 .. Len(df)
      PROVE  df[k] \in Bars /\ df[k].time \in Nat /\ df[k].close \in Nat \ {0}
  <2>1. df[k] \in Bars
    BY <1>1, <1>2
  <2>2. df[k] \in [time : Nat, close : Nat \ {0}, zone : Zones]
    BY <2>1, StrategyAssumption
  <2>3. df[k].time \in Nat
    BY <2>2
  <2>4. df[k].close \in Nat \ {0}
    BY <2>2
  <2> QED
    BY <2>1, <2>3, <2>4
<1> QED
  BY <1>2, <1>3

\* a non-empty set of rows of the frame has a last one
LEMMA LastExists ==
    ASSUME NEW n \in Nat, NEW S, S \subseteq 1 .. n, S # {}
    PROVE  \E k \in S : \A l \in S : l <= k
<1> DEFINE T == {n - k : k \in S}
           R == OpToRel(<, Nat)
<1>1. T \subseteq Nat /\ T # {}
  <2>1. \A k \in S : n - k \in Nat
    OBVIOUS
  <2> QED
    BY <2>1
<1>2. \A x, y \in Nat : <<x, y>> \in R <=> x < y
  BY DEF OpToRel
<1>3. PICK x \in T : \A y \in T : ~ (<<y, x>> \in R)
  <2> HIDE DEF T
  <2>1. IsWellFoundedOn(R, Nat)
    BY NatLessThanWellFounded
  <2> HIDE DEF R
  <2> QED
    BY <1>1, <2>1, WFMin
<1>4. PICK k \in S : x = n - k
  OBVIOUS
<1>5. ASSUME NEW l \in S PROVE l <= k
  <2>1. n - l \in T /\ k \in 1 .. n /\ l \in 1 .. n
    OBVIOUS
  <2>2. ~ (n - l < x)
    <3> HIDE DEF T, R
    <3> QED
      BY <2>1, <1>1, <1>2, <1>3
  <2> QED
    BY <2>1, <2>2, <1>4
<1> QED
  BY <1>5

\* the forced exit has a bar whenever something was bought
LEMMA ExitBar ==
    ASSUME TypeOK, session_positions # {}
    PROVE  exit_i \in session_positions /\ \A l \in session_positions : l <= exit_i
<1>1. Len(df) \in Nat /\ session_positions \subseteq 1 .. Len(df)
  BY FrameFacts DEF session_positions
<1>2. \E k \in session_positions : \A l \in session_positions : l <= k
  BY <1>1, LastExists
<1> QED
  BY <1>2 DEF exit_i

\* what a trade is
LEMMA TradeType ==
    ASSUME TypeOK, NEW k \in 1 .. Len(df), NEW signal \in {"BUY", "SELL"}
    PROVE  /\ trade(k, signal) \in Trade
           /\ trade(k, signal).at = k
           /\ trade(k, signal).signal = signal
           /\ trade(k, signal).price = df[k].close
<1>1. k \in 1 .. MaxBars /\ df[k].close \in Nat \ {0}
  BY FrameFacts, StrategyAssumption
<1> QED
  BY <1>1 DEF trade, Trade

-------------------------------------------------------------------------------
(* One more trade, in the loop or at its end.                              *)

LEMMA InitInv ==
    ASSUME Init
    PROVE  Inv
<1>1. trades = <<>> /\ Len(trades) = 0 /\ trades \in Seq(Trade)
  BY DEF Init
<1>2. TypeOK
  <2>1. 0 \in 0 .. MaxBars + 1
    BY StrategyAssumption
  <2> QED
    BY <1>1, <2>1 DEF Init, TypeOK
<1> QED
  BY <1>1, <1>2 DEF Init, Inv, StartInv, LoopInv, AtInv, TradesAlternate, TradedInSession, Over

\* a trade on bar k is well made if the bar is in the session, no earlier
\* than the last trade, and its signal is the one that is due
LEMMA OneMoreTrade ==
    ASSUME Inv, NEW k \in length + 1 .. Len(df), NEW signal \in {"BUY", "SELL"},
           is_regular_session(k),
           signal = IF Len(trades) % 2 = 0 THEN "BUY" ELSE "SELL",
           UNCHANGED <<df, exit_at>>,
           trades' = Append(trades, trade(k, signal))
    PROVE  /\ trades' \in Seq(Trade)
           /\ Len(trades') = Len(trades) + 1
           /\ \A l \in 1 .. Len(trades) : trades'[l] = trades[l]
           /\ trades'[Len(trades')].at = k
           /\ AtInv' /\ TradedInSession'
           /\ \A l \in 1 .. Len(trades') :
                trades'[l].signal = IF l % 2 = 1 THEN "BUY" ELSE "SELL"
<1> DEFINE e == trade(k, signal)
           n == Len(trades)
<1>1. k \in 1 .. Len(df) /\ Len(df) \in Nat
  BY FrameFacts, StrategyAssumption DEF Inv
<1>2. e \in Trade /\ e.at = k /\ e.signal = signal /\ e.price = df[k].close
  BY <1>1, TradeType DEF Inv
<1>3. trades \in Seq(Trade) /\ n \in Nat
  BY DEF Inv, TypeOK
<1> HIDE DEF e
<1>4. /\ trades' \in Seq(Trade) /\ Len(trades') = n + 1
      /\ \A l \in 1 .. n : trades'[l] = trades[l]
      /\ trades'[n + 1] = e
  BY <1>2, <1>3 DEF e
<1>5. AtInv'
  BY <1>2, <1>3, <1>4 DEF Inv, AtInv
<1>6. TradedInSession'
  <2>1. 570 <= df[k].time /\ df[k].time < 960
    BY DEF is_regular_session, market_open, market_close
  <2> QED
    BY <1>2, <1>3, <1>4, <2>1 DEF Inv, TradedInSession
<1>7. \A l \in 1 .. n + 1 : trades'[l].signal = IF l % 2 = 1 THEN "BUY" ELSE "SELL"
  <2>1. \A l \in 1 .. n : trades[l].signal = IF l % 2 = 1 THEN "BUY" ELSE "SELL"
    BY DEF Inv, TradesAlternate
  <2>2. e.signal = IF (n + 1) % 2 = 1 THEN "BUY" ELSE "SELL"
    BY <1>2, <1>3, Parity
  <2> QED
    BY <1>3, <1>4, <2>1, <2>2
<1> QED
  BY <1>2, <1>3, <1>4, <1>5, <1>6, <1>7

LEMMA ApplyBands ==
    ASSUME Inv, apply_bands \/ apply_bands_raises
    PROVE  Inv'
<1>1. trades = <<>> /\ in_position = FALSE /\ trades' = trades /\ Len(trades) = 0
  BY DEF apply_bands, apply_bands_raises, Inv, StartInv
<1>2. TypeOK'
  BY FrameFacts, StrategyAssumption DEF Inv, TypeOK, apply_bands, apply_bands_raises
<1>3. LoopInv'
  BY <1>1, FrameFacts, StrategyAssumption
  DEF Inv, LoopInv, apply_bands, apply_bands_raises
<1> QED
  BY <1>1, <1>2, <1>3
  DEF apply_bands, apply_bands_raises, Inv, StartInv, AtInv, TradesAlternate, TradedInSession, Over

LEMMA BuyOrSell ==
    ASSUME Inv, buy \/ sell
    PROVE  Inv'
<1> DEFINE signal == IF Len(trades) % 2 = 0 THEN "BUY" ELSE "SELL"
<1>1. /\ pc = "loop" /\ pc' = "loop" /\ i' = i + 1 /\ i \in length + 1 .. Len(df)
      /\ is_regular_session(i) /\ UNCHANGED <<df, exit_at>> /\ length \in Nat
  BY FrameFacts, StrategyAssumption
  DEF Inv, TypeOK, LoopInv, buy, sell, InLoop, NextBar, buys, sells
<1>2. Len(trades) \in Nat
  BY DEF Inv, TypeOK
<1>3. /\ trades' = Append(trades, trade(i, signal))
      /\ Len(trades) % 2 = IF in_position' THEN 0 ELSE 1
      /\ in_position' \in BOOLEAN
  <2>1. Len(trades) % 2 = IF in_position THEN 1 ELSE 0
    BY <1>1 DEF Inv, LoopInv
  <2>2. CASE buy
    BY <1>2, <2>1, <2>2 DEF buy, buys
  <2>3. CASE sell
    <3>1. in_position /\ in_position' = FALSE /\ trades' = Append(trades, trade(i, "SELL"))
      BY <2>3 DEF sell, sells
    <3>2. Len(trades) % 2 = 1
      BY <2>1, <3>1
    <3>3. signal = "SELL"
      BY <3>2
    <3> HIDE DEF signal
    <3> QED
      BY <3>1, <3>2, <3>3
  <2> QED
    BY <2>2, <2>3
<1>4. signal \in {"BUY", "SELL"}
  OBVIOUS
<1> HIDE DEF signal
<1>5. /\ trades' \in Seq(Trade) /\ Len(trades') = Len(trades) + 1
      /\ \A l \in 1 .. Len(trades) : trades'[l] = trades[l]
      /\ trades'[Len(trades')].at = i
      /\ AtInv' /\ TradedInSession'
      /\ \A l \in 1 .. Len(trades') : trades'[l].signal = IF l % 2 = 1 THEN "BUY" ELSE "SELL"
  BY <1>1, <1>3, <1>4, OneMoreTrade DEF signal
<1>6. \A l \in 1 .. Len(trades) : trades[l].at \in Nat /\ trades[l].at < i
  BY <1>1, FrameFacts DEF Inv, LoopInv, AtInv
<1>7. TypeOK'
  <2>1. i + 1 \in 0 .. MaxBars + 1
    BY <1>1, FrameFacts, StrategyAssumption DEF Inv
  <2> QED
    BY <1>1, <1>3, <1>5, <2>1 DEF Inv, TypeOK
<1>8. LoopInv'
  <2>1. Len(trades') % 2 = IF in_position' THEN 1 ELSE 0
    BY <1>2, <1>3, <1>5, Parity
  <2>2. i' \in length + 1 .. Len(df') + 1
    BY <1>1, FrameFacts DEF Inv
  <2>3. \A k \in 1 .. Len(trades') : trades'[k].at < i'
    BY <1>1, <1>2, <1>5, <1>6
  <2> QED
    BY <2>1, <2>2, <2>3 DEF LoopInv
<1>9. TradesAlternate'
  <2>1. pc' = "loop" /\ ~Over'
    BY <1>1 DEF Over
  <2>2. \A k \in 1 .. Len(trades) - 1 : trades[k].at < trades[k + 1].at
    BY <1>1, <1>2 DEF Inv, TradesAlternate, Over
  <2>3. ASSUME NEW k \in 1 .. Len(trades') - 1
        PROVE  trades'[k].at < trades'[k + 1].at
    <3>1. CASE k = Len(trades)
      BY <1>2, <1>5, <1>6, <3>1
    <3>2. CASE k # Len(trades)
      <4>1. k \in 1 .. Len(trades) - 1 /\ k \in 1 .. Len(trades) /\ k + 1 \in 1 .. Len(trades)
        BY <1>2, <1>5, <3>2
      <4> QED
        BY <1>5, <2>2, <4>1
    <3> QED
      BY <3>1, <3>2
  <2> QED
    BY <1>5, <2>1, <2>3 DEF TradesAlternate
<1> QED
  BY <1>1, <1>5, <1>7, <1>8, <1>9 DEF Inv, StartInv

LEMMA PassBar ==
    ASSUME Inv, pass
    PROVE  Inv'
<1>1. /\ pc = "loop" /\ pc' = "loop" /\ i' = i + 1 /\ i \in length + 1 .. Len(df)
      /\ UNCHANGED <<df, exit_at, in_position, trades>> /\ length \in Nat
  BY FrameFacts, StrategyAssumption DEF Inv, TypeOK, LoopInv, pass, InLoop, NextBar
<1>2. TypeOK'
  <2>1. i + 1 \in 0 .. MaxBars + 1
    BY <1>1, FrameFacts, StrategyAssumption DEF Inv
  <2> QED
    BY <1>1, <2>1 DEF Inv, TypeOK
<1>3. LoopInv'
  BY <1>1, FrameFacts DEF Inv, LoopInv, AtInv
<1> QED
  BY <1>1, <1>2, <1>3 DEF Inv, StartInv, AtInv, TradesAlternate, TradedInSession, Over

\* with an open position the last trade is a BUY, made in the session
LEMMA OpenPosition ==
    ASSUME Inv, pc = "loop", in_position
    PROVE  /\ Len(trades) \in Nat \ {0} /\ Len(trades) % 2 = 1
           /\ session_positions # {}
           /\ exit_i \in length + 1 .. Len(df)
           /\ is_regular_session(exit_i)
           /\ trades[Len(trades)].at <= exit_i
           /\ IsLast(exit_i)
<1>1. Len(trades) \in Nat /\ Len(trades) % 2 = 1
  BY DEF Inv, TypeOK, LoopInv
<1>2. Len(trades) >= 1
  BY <1>1
<1> DEFINE b == trades[Len(trades)].at
<1>3. b \in length + 1 .. Len(df) /\ 570 <= df[b].time /\ df[b].time < 960
  BY <1>1, <1>2 DEF Inv, AtInv, TradedInSession
<1>4. b \in session_positions
  BY <1>3, StrategyAssumption, FrameFacts
  DEF Inv, session_positions, is_regular_session, market_open, market_close
<1>5. exit_i \in session_positions /\ \A l \in session_positions : l <= exit_i
  BY <1>4, ExitBar DEF Inv
<1>6. exit_i \in 1 .. Len(df) /\ is_regular_session(exit_i)
  BY <1>5 DEF session_positions
<1> QED
  BY <1>1, <1>2, <1>3, <1>4, <1>5, <1>6, StrategyAssumption DEF IsLast

LEMMA ForceExit ==
    ASSUME Inv, force_exit
    PROVE  Inv'
<1>1. /\ pc = "loop" /\ pc' = "metrics" /\ UNCHANGED <<df, exit_at, i, in_position>>
      /\ Len(trades) % 2 = (IF in_position THEN 1 ELSE 0) /\ Len(trades) \in Nat
  BY DEF Inv, TypeOK, LoopInv, force_exit
<1>2. CASE in_position
  <2>1. /\ Len(trades) \in Nat \ {0} /\ Len(trades) % 2 = 1 /\ session_positions # {}
        /\ exit_i \in length + 1 .. Len(df) /\ is_regular_session(exit_i)
        /\ trades[Len(trades)].at <= exit_i
    BY <1>1, <1>2, OpenPosition
  <2>2. trades' = Append(trades, trade(exit_i, "SELL"))
    BY <1>2, <2>1 DEF force_exit
  <2>3. /\ trades' \in Seq(Trade) /\ Len(trades') = Len(trades) + 1
        /\ \A l \in 1 .. Len(trades) : trades'[l] = trades[l]
        /\ trades'[Len(trades')].at = exit_i
        /\ AtInv' /\ TradedInSession'
        /\ \A l \in 1 .. Len(trades') : trades'[l].signal = IF l % 2 = 1 THEN "BUY" ELSE "SELL"
    BY <1>1, <2>1, <2>2, OneMoreTrade
  <2>4. TypeOK'
    BY <1>1, <1>2, <2>3 DEF Inv, TypeOK
  <2>5. \A l \in 1 .. Len(trades) : trades[l].at \in Nat
    BY FrameFacts, StrategyAssumption DEF Inv, AtInv
  <2>6. TradesAlternate'
    <3>1. Over' /\ Len(trades') % 2 = 0
      BY <1>1, <2>1, <2>3, Parity DEF Over
    <3>2. \A k \in 1 .. Len(trades) - 1 : trades[k].at < trades[k + 1].at
      BY <1>1, <2>1 DEF Inv, TradesAlternate, Over
    <3>3. exit_i \in Nat /\ Len(trades') \in Nat /\ trades'[Len(trades')].signal = "SELL"
      <4>1. exit_i \in Nat /\ Len(trades') \in 1 .. Len(trades') /\ Len(trades') \in Nat
        BY <2>1, <2>3, FrameFacts, StrategyAssumption DEF Inv
      <4>2. trades'[Len(trades')].signal = IF Len(trades') % 2 = 1 THEN "BUY" ELSE "SELL"
        BY <2>3, <4>1
      <4> QED
        BY <3>1, <4>1, <4>2
    <3>4. ASSUME NEW k \in 1 .. Len(trades') - 1
          PROVE  \/ trades'[k].at < trades'[k + 1].at
                 \/ trades'[k].at = trades'[k + 1].at /\ k + 1 = Len(trades')
      <4>1. CASE k = Len(trades)
        BY <2>1, <2>3, <2>5, <3>3, <4>1
      <4>2. CASE k # Len(trades)
        <5>1. k \in 1 .. Len(trades) - 1 /\ k \in 1 .. Len(trades) /\ k + 1 \in 1 .. Len(trades)
          BY <2>1, <2>3, <4>2
        <5> QED
          BY <2>3, <3>2, <5>1
      <4> QED
        BY <4>1, <4>2
    <3> QED
      BY <2>3, <3>1, <3>3, <3>4 DEF TradesAlternate
  <2> QED
    BY <1>1, <2>3, <2>4, <2>6 DEF Inv, StartInv, LoopInv
<1>3. CASE ~in_position
  <2>1. trades' = trades /\ Len(trades) % 2 = 0
    BY <1>1, <1>3 DEF force_exit
  <2>2. TypeOK'
    BY <1>1, <2>1 DEF Inv, TypeOK
  <2>3. TradesAlternate'
    BY <1>1, <2>1 DEF Inv, TradesAlternate, Over
  <2> QED
    BY <1>1, <2>1, <2>2, <2>3 DEF Inv, StartInv, LoopInv, AtInv, TradedInSession
<1> QED
  BY <1>2, <1>3

LEMMA ReturnResult ==
    ASSUME Inv, return_result \/ UNCHANGED vars
    PROVE  Inv'
<1>1. /\ UNCHANGED <<df, exit_at, i, in_position, trades>>
      /\ pc' = pc \/ (pc = "metrics" /\ pc' = "done")
  BY DEF return_result, vars
<1>2. Over' = Over
  BY <1>1 DEF Over
<1> QED
  BY <1>1, <1>2 DEF Inv, TypeOK, StartInv, LoopInv, AtInv, TradesAlternate, TradedInSession

-------------------------------------------------------------------------------
(* No signal is missed: what the loop has seen since the last trade.       *)

\* the trade with number k, and the bars between it and the next one
LEMMA AtFacts ==
    ASSUME Inv, NEW k \in 0 .. Len(trades)
    PROVE  /\ Len(trades) \in Nat /\ MaxBars \in Nat /\ Len(df) \in 0 .. MaxBars
           /\ At(k) \in 0 .. Len(df)
           /\ At(Len(trades) + 1) = MaxBars + 1
           /\ k > 0 => At(k) = trades[k].at
           /\ pc = "loop" => i \in 1 .. Len(df) + 1 /\ At(k) < i
<1>1. Len(trades) \in Nat /\ MaxBars \in Nat /\ Len(df) \in 0 .. MaxBars /\ length \in Nat \ {0}
  BY FrameFacts, StrategyAssumption DEF Inv, TypeOK
<1>2. CASE k = 0
  BY <1>1, <1>2 DEF At, Inv, LoopInv
<1>3. CASE k \in 1 .. Len(trades)
  BY <1>1, <1>3 DEF At, Inv, LoopInv, AtInv
<1> QED
  BY <1>1, <1>2, <1>3 DEF At

\* what the steps of the loop and its end have in common: the trades stay,
\* and the bars seen are those of before and perhaps the bar in hand
SameSignals == /\ pc = "loop" /\ pc' \in {"loop", "metrics"} /\ UNCHANGED <<df, exit_at>>
               /\ \A x \in Seen' : x \in Seen \/ x = i
               /\ \A l \in 1 .. Len(trades) : trades'[l] = trades[l]
               /\ Len(trades') \in Nat /\ Len(trades') >= Len(trades)

\* then nothing changes between two trades of before
LEMMA OldSignals ==
    ASSUME Inv, TradesAreFirstSignals, SameSignals, NEW l \in 0 .. Len(trades) - 1
    PROVE  /\ At(l)' = At(l) /\ At(l + 1)' = At(l + 1)
           /\ NoEntry(At(l), At(l + 1)) => NoEntry(At(l), At(l + 1))'
           /\ NoExit(At(l), At(l + 1)) => NoExit(At(l), At(l + 1))'
           /\ below_lower(At(l))' <=> below_lower(At(l))
           /\ reaches_exit(At(l))' <=> reaches_exit(At(l))
<1>1. /\ Len(trades) \in Nat /\ l \in 0 .. Len(trades) /\ l + 1 \in 0 .. Len(trades)
      /\ l \in Nat
  BY DEF Inv, TypeOK
<1>2. At(l)' = At(l) /\ At(l + 1)' = At(l + 1)
  BY <1>1 DEF At, SameSignals
<1>3. At(l) \in Nat /\ At(l + 1) \in Nat /\ At(l + 1) < i /\ i \in Nat
  BY <1>1, AtFacts DEF SameSignals
<1>4. \A x : (below_lower(x)' <=> below_lower(x)) /\ (reaches_exit(x)' <=> reaches_exit(x))
  BY DEF SameSignals, below_lower, reaches_exit
<1>5. ASSUME NEW x \in Seen', x < At(l + 1)
      PROVE  x \in Seen
  BY <1>3, <1>5 DEF SameSignals
<1> QED
  BY <1>2, <1>4, <1>5 DEF NoEntry, NoExit, below_lower, reaches_exit, SameSignals

\* the bars of the frame after all that was seen
LEMMA SeenFacts ==
    ASSUME Inv, pc = "loop"
    PROVE  /\ \A x \in Seen : x \in 1 .. MaxBars /\ x < i /\ is_regular_session(x)
           /\ i > Len(df) => \A x \in session_positions : x <= length \/ x \in Seen
<1>1. Len(df) \in 0 .. MaxBars /\ MaxBars \in Nat /\ length \in Nat \ {0} /\ i \in Nat
  BY FrameFacts, StrategyAssumption DEF Inv, TypeOK
<1> QED
  BY <1>1 DEF Seen, session_positions

LEMMA TradeKeepsSignals ==
    ASSUME Inv, Inv', TradesAreFirstSignals, SameSignals,
           NEW k \in 1 .. Len(df),
           Len(trades') = Len(trades) + 1, trades'[Len(trades')].at = k,
           \A x \in Seen' : x <= k,
           \A x \in Seen' : x < k => x \in Seen,
           Len(trades) % 2 = 0 => below_lower(k),
           Len(trades) % 2 = 1 => reaches_exit(k) \/ (Over' /\ IsLast(k))
    PROVE  TradesAreFirstSignals'
<1>0. PICK n \in Nat : n = Len(trades)
  BY DEF Inv, TypeOK
<1>1. n \in Nat /\ MaxBars \in Nat /\ k \in 1 .. MaxBars /\ n \in 0 .. n
  BY <1>0, FrameFacts, StrategyAssumption DEF Inv, TypeOK
<1>2. At(n)' = At(n) /\ At(n + 1)' = k /\ At(n + 2)' = MaxBars + 1 /\ At(n + 1) = MaxBars + 1
  <2>1. Len(trades') = n + 1 /\ trades'[n + 1].at = k
    BY <1>0, <1>1
  <2>2. At(n)' = At(n)
    BY <1>0, <1>1, <2>1 DEF At, SameSignals
  <2>3. At(n + 1)' = k
    BY <1>1, <2>1 DEF At
  <2>4. At(n + 2)' = MaxBars + 1
    BY <1>1, <2>1 DEF At
  <2>5. At(n + 1) = MaxBars + 1
    BY <1>0, <1>1 DEF At
  <2> QED
    BY <2>2, <2>3, <2>4, <2>5
<1>3. \A x : (below_lower(x)' <=> below_lower(x)) /\ (reaches_exit(x)' <=> reaches_exit(x))
  BY DEF SameSignals, below_lower, reaches_exit
<1>4. pc \notin {"bands", "raised"} /\ pc' \notin {"bands", "raised"} /\ ~Over
  BY DEF SameSignals, Over
<1>5. \A x \in Seen : x \in Nat /\ x < MaxBars + 1
  BY <1>1, SeenFacts DEF SameSignals
<1>6. \A x \in Seen' : x \in Nat
  BY StrategyAssumption DEF Seen
<1>7. IF n % 2 = 1 THEN below_lower(At(n)) /\ NoExit(At(n), MaxBars + 1)
      ELSE NoEntry(At(n), MaxBars + 1) /\ (n = 0 \/ reaches_exit(At(n)))
  BY <1>0, <1>1, <1>2, <1>4 DEF TradesAreFirstSignals
<1>8. IF n % 2 = 1 THEN (below_lower(At(n)) /\ NoExit(At(n), At(n + 1)))'
      ELSE (NoEntry(At(n), At(n + 1)) /\ (n = 0 \/ reaches_exit(At(n))))'
  <2>1. below_lower(At(n))' <=> below_lower(At(n))
    BY <1>2, <1>3 DEF below_lower, SameSignals
  <2>2. reaches_exit(At(n))' <=> reaches_exit(At(n))
    BY <1>2, <1>3 DEF reaches_exit, SameSignals
  <2>3. NoExit(At(n), MaxBars + 1) => NoExit(At(n), At(n + 1))'
    BY <1>1, <1>2, <1>3, <1>5, <1>6 DEF NoExit
  <2>4. NoEntry(At(n), MaxBars + 1) => NoEntry(At(n), At(n + 1))'
    BY <1>1, <1>2, <1>3, <1>5, <1>6 DEF NoEntry
  <2> QED
    BY <1>7, <2>1, <2>2, <2>3, <2>4
<1>9. IF (n + 1) % 2 = 1 THEN (below_lower(At(n + 1)) /\ NoExit(At(n + 1), At(n + 2)))'
      ELSE /\ NoEntry(At(n + 1), At(n + 2))'
           /\ reaches_exit(At(n + 1))' \/ (Over' /\ IsLast(At(n + 1))')
  <2>1. IsLast(k)' <=> IsLast(k)
    BY DEF IsLast, session_positions, is_regular_session, SameSignals
  <2>2. NoEntry(At(n + 1), At(n + 2))' /\ NoExit(At(n + 1), At(n + 2))'
    BY <1>1, <1>2, <1>6 DEF NoEntry, NoExit
  <2>3. IsLast(At(n + 1))' <=> IsLast(k)
    BY <1>2, <2>1 DEF IsLast
  <2>4. below_lower(At(n + 1))' <=> below_lower(k)
    BY <1>2, <1>3 DEF below_lower, SameSignals
  <2>5. reaches_exit(At(n + 1))' <=> reaches_exit(k)
    BY <1>2, <1>3 DEF reaches_exit, SameSignals
  <2> QED
    BY <1>0, <1>1, <1>2, <1>3, <2>2, <2>3, <2>4, <2>5, Parity
<1>10. ASSUME NEW l \in 0 .. n - 1
       PROVE  IF l % 2 = 1 THEN (below_lower(At(l)) /\ NoExit(At(l), At(l + 1)))'
              ELSE (NoEntry(At(l), At(l + 1)) /\ (l = 0 \/ reaches_exit(At(l))))'
  <2>1. IF l % 2 = 1 THEN below_lower(At(l)) /\ NoExit(At(l), At(l + 1))
        ELSE NoEntry(At(l), At(l + 1)) /\ (l = 0 \/ reaches_exit(At(l)))
    BY <1>0, <1>1, <1>4 DEF TradesAreFirstSignals
  <2> QED
    BY <1>0, <2>1, OldSignals
<1>11. ASSUME NEW l \in 0 .. Len(trades')
       PROVE  (IF l % 2 = 1
               THEN below_lower(At(l)) /\ NoExit(At(l), At(l + 1))
               ELSE /\ NoEntry(At(l), At(l + 1))
                    /\ \/ l = 0 \/ reaches_exit(At(l))
                       \/ Over /\ l = Len(trades) /\ IsLast(At(l)))'
  <2>1. l \in 0 .. n - 1 \/ l = n \/ l = n + 1
    BY <1>0, <1>1
  <2>2. CASE l \in 0 .. n - 1
    BY <1>10, <2>2
  <2>3. CASE l = n
    BY <1>8, <2>3
  <2>4. CASE l = n + 1
    BY <1>0, <1>1, <1>9, <2>4
  <2> QED
    BY <2>1, <2>2, <2>3, <2>4
<1> QED
  BY <1>11 DEF TradesAreFirstSignals

\* no trade, and no signal that is due on the bar in hand
LEMMA NoTradeKeepsSignals ==
    ASSUME Inv, TradesAreFirstSignals, SameSignals, trades' = trades,
           Len(trades) % 2 = 0 => \A x \in Seen' : x \in Seen \/ ~below_lower(x),
           Len(trades) % 2 = 1 => \A x \in Seen' : x \in Seen \/ ~reaches_exit(x)
    PROVE  TradesAreFirstSignals'
<1> DEFINE n == Len(trades)
<1>1. n \in Nat /\ n \in 0 .. n /\ Len(trades') = n
  BY DEF Inv, TypeOK
<1>2. \A l : At(l)' = At(l)
  BY DEF At
<1>3. \A x : (below_lower(x)' <=> below_lower(x)) /\ (reaches_exit(x)' <=> reaches_exit(x))
  BY DEF SameSignals, below_lower, reaches_exit
<1>4. pc \notin {"bands", "raised"} /\ ~Over
  BY DEF SameSignals, Over
<1>5. \A l \in 0 .. n :
        IF l % 2 = 1 THEN below_lower(At(l)) /\ NoExit(At(l), At(l + 1))
        ELSE NoEntry(At(l), At(l + 1)) /\ (l = 0 \/ reaches_exit(At(l)))
  BY <1>4 DEF TradesAreFirstSignals
<1>6. IF n % 2 = 1 THEN NoExit(At(n), At(n + 1))' ELSE NoEntry(At(n), At(n + 1))'
  <2>1. n % 2 = 0 \/ n % 2 = 1
    BY <1>1, Parity
  <2>2. CASE n % 2 = 1
    <3>1. NoExit(At(n), At(n + 1))
      BY <1>1, <1>5, <2>2
    <3> QED
      BY <1>2, <1>3, <2>2, <3>1 DEF NoExit
  <2>3. CASE n % 2 = 0
    <3>1. NoEntry(At(n), At(n + 1))
      BY <1>1, <1>5, <2>3
    <3> QED
      BY <1>2, <1>3, <2>3, <3>1 DEF NoEntry
  <2> QED
    BY <2>1, <2>2, <2>3
<1>7. ASSUME NEW l \in 0 .. n
      PROVE  IF l % 2 = 1 THEN (below_lower(At(l)) /\ NoExit(At(l), At(l + 1)))'
             ELSE (NoEntry(At(l), At(l + 1)) /\ (l = 0 \/ reaches_exit(At(l))))'
  <2>1. CASE l = n
    <3>1. below_lower(At(n))' <=> below_lower(At(n))
      BY <1>2, <1>3 DEF below_lower, SameSignals
    <3>2. reaches_exit(At(n))' <=> reaches_exit(At(n))
      BY <1>2, <1>3 DEF reaches_exit, SameSignals
    <3> QED
      BY <1>1, <1>5, <1>6, <2>1, <3>1, <3>2
  <2>2. CASE l # n
    <3>1. l \in 0 .. n - 1
      BY <1>1, <2>2
    <3> QED
      BY <1>5, <3>1, OldSignals
  <2> QED
    BY <2>1, <2>2
<1> QED
  BY <1>1, <1>7 DEF TradesAreFirstSignals

LEMMA FirstSignalsStep ==
    ASSUME Inv, Inv', TradesAreFirstSignals, [Next]_vars
    PROVE  TradesAreFirstSignals'
<1>1. CASE apply_bands \/ apply_bands_raises
  <2>1. trades' = <<>> /\ Len(trades') = 0 /\ ((pc' = "loop" /\ i' = length + 1) \/ pc' = "raised")
    BY <1>1 DEF apply_bands, apply_bands_raises, Inv, StartInv
  <2>2. CASE pc' = "raised"
    BY <2>2 DEF TradesAreFirstSignals
  <2>3. CASE pc' = "loop" /\ i' = length + 1
    <3>1. Seen' = {}
      BY <2>3, StrategyAssumption DEF Seen
    <3>2. NoEntry(At(0), At(1))'
      BY <3>1 DEF NoEntry
    <3> QED
      BY <2>1, <3>2 DEF TradesAreFirstSignals
  <2> QED
    BY <2>1, <2>2, <2>3
<1>2. CASE buy \/ sell
  <2>1. /\ pc = "loop" /\ pc' = "loop" /\ i' = i + 1 /\ i \in 1 .. Len(df)
        /\ UNCHANGED <<df, exit_at>>
    BY <1>2, StrategyAssumption, FrameFacts
    DEF Inv, LoopInv, TypeOK, buy, sell, InLoop, NextBar
  <2>2. i \in Nat /\ \A x \in Seen' : x \in Nat /\ x <= i /\ (x < i => x \in Seen)
    BY <2>1, StrategyAssumption, FrameFacts DEF Inv, TypeOK, Seen, is_regular_session
  <2>3. /\ Len(trades') = Len(trades) + 1 /\ Len(trades) \in Nat
        /\ \A l \in 1 .. Len(trades) : trades'[l] = trades[l]
        /\ trades'[Len(trades')].at = i
    BY <1>2, <2>1 DEF Inv, TypeOK, buy, sell, trade
  <2>4. SameSignals
    BY <2>1, <2>2, <2>3 DEF SameSignals
  <2>5. Len(trades) % 2 = IF in_position THEN 1 ELSE 0
    BY <2>1 DEF Inv, LoopInv
  <2>6. CASE buy
    BY <2>1, <2>2, <2>3, <2>4, <2>5, <2>6, TradeKeepsSignals DEF buy, buys
  <2>7. CASE sell
    BY <2>1, <2>2, <2>3, <2>4, <2>5, <2>7, TradeKeepsSignals DEF sell, sells
  <2> QED
    BY <1>2, <2>6, <2>7
<1>3. CASE pass
  <2>1. /\ pc = "loop" /\ pc' = "loop" /\ i' = i + 1 /\ trades' = trades
        /\ UNCHANGED <<df, exit_at>> /\ ~buys /\ ~sells /\ i \in Nat
        /\ Len(trades) % 2 = (IF in_position THEN 1 ELSE 0) /\ Len(trades) \in Nat
    BY <1>3 DEF pass, InLoop, NextBar, Inv, LoopInv, TypeOK
  <2>2. \A x \in Seen' : is_regular_session(x) /\ (x \in Seen \/ x = i)
    BY <2>1, StrategyAssumption, FrameFacts DEF Inv, Seen, is_regular_session
  <2>3. SameSignals
    BY <2>1, <2>2 DEF SameSignals
  <2>4. Len(trades) % 2 = 0 => \A x \in Seen' : x \in Seen \/ ~below_lower(x)
    BY <2>1, <2>2 DEF buys
  <2>5. Len(trades) % 2 = 1 => \A x \in Seen' : x \in Seen \/ ~reaches_exit(x)
    BY <2>1, <2>2 DEF sells
  <2> QED
    BY <2>1, <2>3, <2>4, <2>5, NoTradeKeepsSignals
<1>4. CASE force_exit
  <2>1. /\ pc = "loop" /\ pc' = "metrics" /\ UNCHANGED <<df, exit_at, i, in_position>>
        /\ i > Len(df) /\ Len(trades) \in Nat /\ Over' /\ i \in Nat /\ Len(df) \in Nat
    BY <1>4, FrameFacts DEF Inv, TypeOK, force_exit, Over
  <2>2. \A x \in Seen' : x \in Seen /\ x \in session_positions
    BY <2>1, StrategyAssumption DEF Seen, is_regular_session, session_positions
  <2>3. CASE in_position
    <3>1. /\ session_positions # {} /\ exit_i \in 1 .. Len(df) /\ IsLast(exit_i)
          /\ Len(trades) % 2 = 1
      BY <2>1, <2>3, OpenPosition, StrategyAssumption
    <3>2. /\ Len(trades') = Len(trades) + 1
          /\ \A l \in 1 .. Len(trades) : trades'[l] = trades[l]
          /\ trades'[Len(trades')].at = exit_i
      BY <1>4, <2>1, <2>3, <3>1 DEF Inv, TypeOK, force_exit, trade
    <3>3. SameSignals
      BY <2>1, <2>2, <3>2 DEF SameSignals
    <3>4. \A x \in Seen' : x <= exit_i
      BY <2>2, <3>1 DEF IsLast
    <3> QED
      BY <2>1, <2>2, <3>1, <3>2, <3>3, <3>4, TradeKeepsSignals
  <2>4. CASE ~in_position
    <3>1. trades' = trades
      BY <1>4, <2>4 DEF force_exit
    <3>2. SameSignals
      BY <2>1, <2>2, <3>1 DEF SameSignals
    <3> QED
      BY <2>2, <3>1, <3>2, NoTradeKeepsSignals
  <2> QED
    BY <2>3, <2>4
<1>5. CASE return_result \/ UNCHANGED vars
  <2>1. /\ UNCHANGED <<df, exit_at, i, trades>>
        /\ pc' = pc \/ (pc = "metrics" /\ pc' = "done")
    BY <1>5 DEF return_result, vars
  <2>2. Over' = Over /\ Seen' = Seen
    BY <2>1 DEF Over, Seen, is_regular_session
  <2>3. \A l : At(l)' = At(l)
    BY <2>1 DEF At
  <2> QED
    BY <2>1, <2>2, <2>3
    DEF TradesAreFirstSignals, NoEntry, NoExit, below_lower, reaches_exit, IsLast,
        session_positions, is_regular_session
<1> QED
  BY <1>1, <1>2, <1>3, <1>4, <1>5 DEF Next

-------------------------------------------------------------------------------
(* Theorems.                                                               *)

LEMMA NextInv ==
    ASSUME Inv, [Next]_vars
    PROVE  Inv'
  BY ApplyBands, BuyOrSell, PassBar, ForceExit, ReturnResult DEF Next

LEMMA AlwaysInv == Spec => []Inv
<1>1. Init => Inv
  BY InitInv
<1>2. Inv /\ [Next]_vars => Inv'
  BY NextInv
<1> QED
  BY <1>1, <1>2, PTL DEF Spec

(* Every variable keeps its type, for every frame and every parameter.     *)
THEOREM TypeCorrect == Spec => []TypeOK
<1>1. Inv => TypeOK
  BY DEF Inv
<1> QED
  BY <1>1, AlwaysInv, PTL

(* Trades alternate, in the order of the bars, and end closed.             *)
THEOREM AlwaysAlternate == Spec => []TradesAlternate
<1>1. Inv => TradesAlternate
  BY DEF Inv
<1> QED
  BY <1>1, AlwaysInv, PTL

(* No trade is made out of the regular session.                            *)
THEOREM AlwaysInSession == Spec => []TradedInSession
<1>1. Inv => TradedInSession
  BY DEF Inv
<1> QED
  BY <1>1, AlwaysInv, PTL

(* No signal is missed and none is invented, whatever the frame.           *)
THEOREM AlwaysFirstSignals == Spec => []TradesAreFirstSignals
<1>1. Init => TradesAreFirstSignals
  BY DEF Init, TradesAreFirstSignals
<1>2. Inv /\ Inv' /\ TradesAreFirstSignals /\ [Next]_vars => TradesAreFirstSignals'
  BY FirstSignalsStep
<1> QED
  BY <1>1, <1>2, AlwaysInv, PTL DEF Spec

-------------------------------------------------------------------------------
(* Recursion over an index: what the equity loop computes.                 *)

\* induction up to n, as a fact about sets
LEMMA UpTo ==
    ASSUME NEW n \in Nat, NEW S, 0 \in S, \A k \in 1 .. n : k - 1 \in S => k \in S
    PROVE  \A k \in 0 .. n : k \in S
<1> DEFINE T == {n - k + 1 : k \in (0 .. n) \ S}
<1> SUFFICES ASSUME (0 .. n) \ S # {}
             PROVE  FALSE
  OBVIOUS
<1>1. T \subseteq 1 .. n /\ T # {}
  <2>1. \A k \in (0 .. n) \ S : n - k + 1 \in 1 .. n
    OBVIOUS
  <2> QED
    BY <2>1
<1>2. PICK m \in T : \A l \in T : l <= m
  <2> HIDE DEF T
  <2> QED
    BY <1>1, LastExists
<1>3. PICK k \in (0 .. n) \ S : m = n - k + 1
  BY <1>2
<1>4. k \in 1 .. n /\ k - 1 \in 0 .. n /\ k - 1 \notin S
  OBVIOUS
<1>5. n - (k - 1) + 1 \in T
  BY <1>4
<1>6. n - (k - 1) + 1 > m
  BY <1>3, <1>4
<1>7. m \in 1 .. n
  BY <1>1, <1>2
<1> HIDE DEF T
<1> QED
  BY <1>2, <1>4, <1>5, <1>6, <1>7

\* f starts at base and g gives each value from the one before
Follows(f, n, base, g) == f[0] = base /\ \A k \in 1 .. n : f[k] = g[k][f[k - 1]]

\* a function that is defined from its value one before exists
LEMMA Recursion ==
    ASSUME NEW n \in Nat, NEW T, NEW base \in T, NEW g \in [1 .. n -> [T -> T]]
    PROVE  \E f \in [0 .. n -> T] : Follows(f, n, base, g)
<1> DEFINE S == {m \in 0 .. n : \E f \in [0 .. m -> T] :
                    f[0] = base /\ \A k \in 1 .. m : f[k] = g[k][f[k - 1]]}
<1>1. 0 \in S
  <2> DEFINE f == [k \in 0 .. 0 |-> base]
  <2>1. f \in [0 .. 0 -> T] /\ f[0] = base /\ \A k \in 1 .. 0 : f[k] = g[k][f[k - 1]]
    OBVIOUS
  <2> HIDE DEF f
  <2> QED
    BY <2>1
<1>2. ASSUME NEW m \in 1 .. n, m - 1 \in S
      PROVE  m \in S
  <2>1. PICK f \in [0 .. m - 1 -> T] :
          f[0] = base /\ \A k \in 1 .. m - 1 : f[k] = g[k][f[k - 1]]
    BY <1>2
  <2> DEFINE h == [k \in 0 .. m |-> IF k = m THEN g[m][f[m - 1]] ELSE f[k]]
  <2>2. g[m][f[m - 1]] \in T
    OBVIOUS
  <2>3. h \in [0 .. m -> T]
    <3>1. \A k \in 0 .. m : k # m => k \in 0 .. m - 1
      OBVIOUS
    <3> QED
      BY <2>2, <3>1
  <2>4. h[0] = base
    BY <2>1
  <2>5. \A k \in 1 .. m : h[k] = g[k][h[k - 1]]
    <3> SUFFICES ASSUME NEW k \in 1 .. m
                 PROVE  h[k] = g[k][h[k - 1]]
      OBVIOUS
    <3>1. h[k - 1] = f[k - 1]
      OBVIOUS
    <3>2. CASE k = m
      BY <3>1, <3>2
    <3>3. CASE k # m
      BY <2>1, <3>1, <3>3
    <3> QED
      BY <3>2, <3>3
  <2> HIDE DEF h
  <2>6. \E e \in [0 .. m -> T] : e[0] = base /\ \A k \in 1 .. m : e[k] = g[k][e[k - 1]]
    BY <2>3, <2>4, <2>5
  <2>7. m \in 0 .. n
    OBVIOUS
  <2> QED
    BY <2>6, <2>7
<1>3. n \in S
  <2> HIDE DEF S
  <2>1. \A m \in 1 .. n : m - 1 \in S => m \in S
    BY <1>2
  <2>2. \A m \in 0 .. n : m \in S
    BY <1>1, <2>1, UpTo
  <2> QED
    BY <2>2
<1> QED
  BY <1>3 DEF Follows

\* positive numbers and fractions of them
Pos      == Nat \ {0}
Fraction == Pos \X Pos
Curve    == [equity : Fraction, peak : Fraction, max_drawdown : Int \X Pos]

\* an even number of trades, a BUY before each SELL
Paired(ts, n) == /\ n \in Nat /\ ts \in Seq(Trade) /\ Len(ts) = 2 * n
                 /\ \A k \in 1 .. Len(ts) : ts[k].signal = IF k % 2 = 1 THEN "BUY" ELSE "SELL"

\* trades 2 k - 1 and 2 k are the k-th pair
LEMMA PairFacts ==
    ASSUME NEW ts, NEW n, Paired(ts, n)
    PROVE  /\ Len(ts) \div 2 = n
           /\ completed(ts) = 1 .. n
           /\ \A k \in 1 .. n : /\ 2 * k \in 1 .. Len(ts) /\ 2 * k - 1 \in 1 .. Len(ts)
                                /\ ts[2 * k].price \in Pos /\ ts[2 * k - 1].price \in Pos
<1>1. n \in Nat /\ ts \in Seq(Trade) /\ Len(ts) = 2 * n
  BY DEF Paired
<1>2. Len(ts) \div 2 = n
  BY <1>1
<1>3. ASSUME NEW k \in 1 .. n
      PROVE  /\ 2 * k \in 1 .. Len(ts) /\ 2 * k - 1 \in 1 .. Len(ts)
             /\ ts[2 * k].price \in Pos /\ ts[2 * k - 1].price \in Pos
             /\ ts[2 * k].signal = "SELL" /\ ts[2 * k - 1].signal = "BUY"
  <2>1. 2 * k \in 1 .. Len(ts) /\ 2 * k - 1 \in 1 .. Len(ts)
    BY <1>1
  <2>2. ts[2 * k] \in Trade /\ ts[2 * k - 1] \in Trade
    BY <1>1, <2>1
  <2>3. (2 * k) % 2 = 0 /\ (2 * k - 1) % 2 = 1
    OBVIOUS
  <2> QED
    BY <2>1, <2>2, <2>3 DEF Trade, Pos, Paired
<1> QED
  BY <1>2, <1>3 DEF completed

\* prices and fractions are positive
LEMMA Times ==
    ASSUME NEW x \in Pos, NEW y \in Pos
    PROVE  x * y \in Pos
BY DEF Pos

\* (peak - equity) / peak is a fraction with a positive denominator
LEMMA FallType ==
    ASSUME NEW p \in Fraction, NEW e \in Fraction
    PROVE  /\ fall(p, e) \in Int \X Pos
           /\ fall(p, e)[1] = p[1] * e[2] - e[1] * p[2]
           /\ fall(p, e)[2] = p[1] * e[2]
<1>1. p[1] \in Pos /\ p[2] \in Pos /\ e[1] \in Pos /\ e[2] \in Pos
  BY DEF Fraction
<1>2. p[1] * e[2] \in Pos /\ e[1] * p[2] \in Pos
  BY <1>1, Times
<1>3. p[1] * e[2] - e[1] * p[2] \in Int
  BY <1>2 DEF Pos
<1> QED
  BY <1>2, <1>3 DEF fall

\* one round of the equity loop
LEMMA AfterPair ==
    ASSUME NEW c \in Curve, NEW b \in Pos, NEW s \in Pos
    PROVE  /\ after_pair(c, b, s) \in Curve
           /\ after_pair(c, b, s).equity = <<c.equity[1] * s, c.equity[2] * b>>
           /\ after_pair(c, b, s).peak = Greatest(c.peak, after_pair(c, b, s).equity)
           /\ after_pair(c, b, s).max_drawdown =
                Greatest(c.max_drawdown, fall(after_pair(c, b, s).peak, after_pair(c, b, s).equity))
<1> DEFINE e == <<c.equity[1] * s, c.equity[2] * b>>
           p == Greatest(c.peak, e)
           m == Greatest(c.max_drawdown, fall(p, e))
<1>1. c.equity[1] \in Pos /\ c.equity[2] \in Pos /\ c.peak \in Fraction
      /\ c.max_drawdown \in Int \X Pos
  BY DEF Curve, Fraction
<1>2. e \in Fraction
  BY <1>1, Times DEF Fraction
<1>3. after_pair(c, b, s) = [equity |-> e, peak |-> p, max_drawdown |-> m]
  BY DEF after_pair
<1> HIDE DEF e
<1>4. p \in Fraction
  BY <1>1, <1>2 DEF Greatest
<1> HIDE DEF p
<1>5. m \in Int \X Pos
  BY <1>1, <1>2, <1>4, FallType DEF Greatest
<1> HIDE DEF m
<1>6. after_pair(c, b, s) \in Curve
  BY <1>2, <1>3, <1>4, <1>5 DEF Curve
<1> QED
  BY <1>3, <1>6 DEF e, p, m

\* the equity loop before its first pair
Start == [equity |-> <<initial_capital, 1>>, peak |-> <<initial_capital, 1>>,
          max_drawdown |-> <<0, 1>>]

\* the equity loop takes one pair after the other
LEMMA CurveFacts ==
    ASSUME NEW ts, NEW n, Paired(ts, n)
    PROVE  /\ curve(ts) \in [0 .. n -> Curve]
           /\ curve(ts)[0] = Start
           /\ \A k \in 1 .. n :
                curve(ts)[k] = after_pair(curve(ts)[k - 1], ts[2*k - 1].price, ts[2*k].price)
<1> DEFINE Step(k, x) == after_pair(x, ts[2*k - 1].price, ts[2*k].price)
           g == [k \in 1 .. n |-> [x \in Curve |-> Step(k, x)]]
           Loop(f) == [k \in 0 .. Len(ts) \div 2 |->
                        IF k = 0 THEN [equity |-> <<initial_capital, 1>>,
                                       peak |-> <<initial_capital, 1>>, max_drawdown |-> <<0, 1>>]
                        ELSE IF k \notin completed(ts) THEN f[k - 1]
                        ELSE after_pair(f[k - 1], ts[2*k - 1].price, ts[2*k].price)]
<1>1. /\ n \in Nat /\ Len(ts) \div 2 = n /\ completed(ts) = 1 .. n
      /\ \A k \in 1 .. n : ts[2 * k].price \in Pos /\ ts[2 * k - 1].price \in Pos
  BY PairFacts DEF Paired
<1>2. Start \in Curve
  BY StrategyAssumption DEF Start, Curve, Fraction, Pos
<1>3. \A k \in 1 .. n, x \in Curve : Step(k, x) \in Curve
  BY <1>1, AfterPair
<1>4. \A f : Loop(f) = [k \in 0 .. n |-> IF k = 0 THEN Start ELSE Step(k, f[k - 1])]
  BY <1>1 DEF Start
<1>5. \A f : f = Loop(f) => curve(ts) = Loop(curve(ts))
  BY DEF curve
<1> HIDE DEF Step, Loop
<1>6. g \in [1 .. n -> [Curve -> Curve]] /\ \A k \in 1 .. n, x \in Curve : g[k][x] = Step(k, x)
  BY <1>3
<1> HIDE DEF g
<1>7. PICK f \in [0 .. n -> Curve] : Follows(f, n, Start, g)
  <2>1. n \in Nat /\ Start \in Curve /\ g \in [1 .. n -> [Curve -> Curve]]
    BY <1>1, <1>2, <1>6
  <2> QED
    BY <2>1, Recursion, Zenon
<1>8. f = Loop(f)
  <2>1. \A k \in 0 .. n : f[k] = IF k = 0 THEN Start ELSE Step(k, f[k - 1])
    BY <1>1, <1>6, <1>7 DEF Follows
  <2>2. f = [k \in 0 .. n |-> IF k = 0 THEN Start ELSE Step(k, f[k - 1])]
    BY <2>1
  <2> QED
    BY <1>4, <2>2
<1>9. curve(ts) = [k \in 0 .. n |-> IF k = 0 THEN Start ELSE Step(k, curve(ts)[k - 1])]
  BY <1>4, <1>5, <1>8
<1> DEFINE c == curve(ts)
<1>10. /\ c = [k \in 0 .. n |-> IF k = 0 THEN Start ELSE Step(k, c[k - 1])]
       /\ n \in Nat /\ Start \in Curve
       /\ \A k \in 1 .. n, x \in Curve : Step(k, x) \in Curve
  BY <1>1, <1>2, <1>3, <1>9
<1> HIDE DEF c
<1>11. c[0] = Start /\ \A k \in 1 .. n : c[k] = Step(k, c[k - 1])
  BY <1>10
<1>12. \A k \in 0 .. n : c[k] \in Curve
  <2> DEFINE S == {k \in 0 .. n : c[k] \in Curve}
  <2>1. 0 \in S
    BY <1>10, <1>11
  <2>2. \A k \in 1 .. n : k - 1 \in S => k \in S
    BY <1>10, <1>11
  <2> HIDE DEF S
  <2>3. \A k \in 0 .. n : k \in S
    BY <1>10, <2>1, <2>2, UpTo
  <2> QED
    BY <2>3 DEF S
<1>13. c \in [0 .. n -> Curve]
  BY <1>10, <1>12
<1> QED
  BY <1>11, <1>13 DEF c, Step

\* the products of the prices, one for each prefix of the trades
Products(ks) == LET P[m \in 0 .. Len(trades)] ==
                      IF m = 0 THEN 1 ELSE P[m - 1] * (IF m \in ks THEN Price(m) ELSE 1)
                IN  P

\* Product takes one trade after the other
LEMMA ProductFacts ==
    ASSUME NEW ks, trades \in Seq(Trade)
    PROVE  /\ Product(ks) = Products(ks)[Len(trades)]
           /\ Products(ks) \in [0 .. Len(trades) -> Pos]
           /\ Products(ks)[0] = 1
           /\ \A m \in 1 .. Len(trades) :
                Products(ks)[m] = Products(ks)[m - 1] * (IF m \in ks THEN Price(m) ELSE 1)
<1> DEFINE factor(m) == IF m \in ks THEN Price(m) ELSE 1
           Loop(f) == [m \in 0 .. Len(trades) |-> IF m = 0 THEN 1 ELSE f[m - 1] * factor(m)]
<1>1. PICK n \in Nat : n = Len(trades)
  OBVIOUS
<1>2. PICK fac \in [1 .. n -> Pos] : \A m \in 1 .. n : fac[m] = factor(m)
  <2>1. \A m \in 1 .. n : factor(m) \in Pos
    <3>1. \A m \in 1 .. n : trades[m] \in Trade
      BY <1>1
    <3> QED
      BY <3>1 DEF Price, Trade, Pos
  <2> HIDE DEF factor
  <2> DEFINE h == [m \in 1 .. n |-> factor(m)]
  <2>2. h \in [1 .. n -> Pos] /\ \A m \in 1 .. n : h[m] = factor(m)
    BY <2>1
  <2> HIDE DEF h
  <2> QED
    BY <2>2
<1>3. PICK g \in [1 .. n -> [Pos -> Pos]] : \A m \in 1 .. n, x \in Pos : g[m][x] = x * fac[m]
  <2>1. \A m \in 1 .. n, x \in Pos : x * fac[m] \in Pos
    BY Times
  <2> DEFINE h == [m \in 1 .. n |-> [x \in Pos |-> x * fac[m]]]
  <2>2. h \in [1 .. n -> [Pos -> Pos]] /\ \A m \in 1 .. n, x \in Pos : h[m][x] = x * fac[m]
    BY <2>1
  <2> HIDE DEF h
  <2> QED
    BY <2>2
<1>4. \A f : f = Loop(f) => Products(ks) = Loop(Products(ks))
  BY DEF Products
<1>5. Product(ks) = Products(ks)[Len(trades)]
  BY DEF Product, Products
<1>6. \A f : Loop(f) = [m \in 0 .. n |-> IF m = 0 THEN 1 ELSE f[m - 1] * fac[m]]
  BY <1>1, <1>2
<1>7. PICK f \in [0 .. n -> Pos] : Follows(f, n, 1, g)
  <2>1. 1 \in Pos
    BY DEF Pos
  <2> QED
    BY <2>1, Recursion
<1> HIDE DEF Loop
<1>8. f = Loop(f)
  <2>1. \A m \in 0 .. n : f[m] = IF m = 0 THEN 1 ELSE f[m - 1] * fac[m]
    BY <1>3, <1>7 DEF Follows
  <2>2. f = [m \in 0 .. n |-> IF m = 0 THEN 1 ELSE f[m - 1] * fac[m]]
    BY <2>1
  <2> QED
    BY <1>6, <2>2
<1>9. PICK c : c = Products(ks)
  OBVIOUS
<1>10. c = [m \in 0 .. n |-> IF m = 0 THEN 1 ELSE c[m - 1] * fac[m]]
  BY <1>4, <1>6, <1>8, <1>9
<1>11. c[0] = 1 /\ \A m \in 1 .. n : c[m] = c[m - 1] * fac[m]
  BY <1>10
<1>12. \A m \in 0 .. n : c[m] \in Pos
  <2> DEFINE S == {m \in 0 .. n : c[m] \in Pos}
  <2>1. 0 \in S
    BY <1>11 DEF Pos
  <2>2. \A m \in 1 .. n : m - 1 \in S => m \in S
    BY <1>11, Times
  <2> HIDE DEF S
  <2>3. \A m \in 0 .. n : m \in S
    BY <2>1, <2>2, UpTo
  <2> QED
    BY <2>3 DEF S
<1>13. c \in [0 .. n -> Pos]
  BY <1>10, <1>12
<1> QED
  BY <1>1, <1>2, <1>5, <1>9, <1>11, <1>13

\* trades 2 k - 1 for the pairs k of a set are as many as the pairs
LEMMA AsManyBuys ==
    ASSUME NEW n \in Nat, NEW ks \in SUBSET (1 .. n), NEW bs, bs = {2 * k - 1 : k \in ks}
    PROVE  Cardinality(bs) = Cardinality(ks)
<1> DEFINE f == [k \in ks |-> 2 * k - 1]
<1>1. f \in [ks -> bs] /\ \A k \in ks : f[k] = 2 * k - 1
  OBVIOUS
<1>2. \A k, l \in ks : f[k] = f[l] => k = l
  <2> HIDE DEF f
  <2> QED
    BY <1>1
<1>3. \A b \in bs : \E k \in ks : f[k] = b
  OBVIOUS
<1> HIDE DEF f
<1>4. ExistsBijection(ks, bs)
  BY <1>1, <1>2, <1>3 DEF ExistsBijection, Bijection, Injection, Surjection, IsInjective
<1>5. IsFiniteSet(1 .. n)
  BY FS_Interval
<1>6. IsFiniteSet(ks)
  BY <1>5, FS_Subset
<1> QED
  BY <1>4, <1>6, FS_Bijection

\* products of three in the orders that are needed
LEMMA Assoc ==
    ASSUME NEW x \in Int, NEW y \in Int, NEW z \in Int
    PROVE  (x * y) * z = x * (y * z) /\ (x * y) * z = y * (x * z) /\ x * y \in Int
OBVIOUS

\* the equity after k pairs is the capital times each sell over each buy price
LEMMA Money ==
    ASSUME NEW n, Paired(trades, n), NEW bs, NEW ss,
           bs = {k \in 1 .. Len(trades) : trades[k].signal = "BUY"},
           ss = {k \in 1 .. Len(trades) : trades[k].signal = "SELL"},
           NEW money, money = curve(trades)[n].equity
    PROVE  money[1] * Product(bs) = money[2] * initial_capital * Product(ss)
<1>1. /\ n \in Nat /\ Len(trades) = 2 * n /\ trades \in Seq(Trade)
      /\ \A k \in 1 .. n : /\ 2 * k \in 1 .. Len(trades) /\ 2 * k - 1 \in 1 .. Len(trades)
                           /\ trades[2 * k].price \in Pos /\ trades[2 * k - 1].price \in Pos
  BY PairFacts DEF Paired
<1>2. \A k \in 1 .. n : 2 * k - 1 \in bs /\ 2 * k - 1 \notin ss /\ 2 * k \in ss /\ 2 * k \notin bs
  <2> SUFFICES ASSUME NEW k \in 1 .. n
               PROVE  trades[2 * k - 1].signal = "BUY" /\ trades[2 * k].signal = "SELL"
    BY <1>1
  <2>1. (2 * k) % 2 = 0 /\ (2 * k - 1) % 2 = 1
    BY <1>1
  <2> QED
    BY <1>1, <2>1 DEF Paired
<1>3. PICK c : c = curve(trades)
  OBVIOUS
<1>4. /\ c \in [0 .. n -> Curve] /\ c[0] = Start
      /\ \A k \in 1 .. n : c[k] = after_pair(c[k - 1], trades[2*k - 1].price, trades[2*k].price)
  BY <1>3, CurveFacts
<1>5. PICK P : P = Products(bs)
  OBVIOUS
<1>6. PICK Q : Q = Products(ss)
  OBVIOUS
<1>7. /\ Product(bs) = P[2 * n] /\ P \in [0 .. 2 * n -> Pos] /\ P[0] = 1
      /\ \A k \in 1 .. 2 * n : P[k] = P[k - 1] * (IF k \in bs THEN Price(k) ELSE 1)
  <2>1. /\ Product(bs) = P[Len(trades)] /\ P \in [0 .. Len(trades) -> Pos] /\ P[0] = 1
        /\ \A k \in 1 .. Len(trades) :
             P[k] = P[k - 1] * (IF k \in bs THEN Price(k) ELSE 1)
    <3>1. trades \in Seq(Trade)
      BY <1>1
    <3> QED
      BY <1>5, <3>1, ProductFacts
  <2> QED
    BY <1>1, <2>1
<1>8. /\ Product(ss) = Q[2 * n] /\ Q \in [0 .. 2 * n -> Pos] /\ Q[0] = 1
      /\ \A k \in 1 .. 2 * n : Q[k] = Q[k - 1] * (IF k \in ss THEN Price(k) ELSE 1)
  <2>1. /\ Product(ss) = Q[Len(trades)] /\ Q \in [0 .. Len(trades) -> Pos] /\ Q[0] = 1
        /\ \A k \in 1 .. Len(trades) :
             Q[k] = Q[k - 1] * (IF k \in ss THEN Price(k) ELSE 1)
    <3>1. trades \in Seq(Trade)
      BY <1>1
    <3> QED
      BY <1>6, <3>1, ProductFacts
  <2> QED
    BY <1>1, <2>1
<1> DEFINE S == {k \in 0 .. n : c[k].equity = <<initial_capital * Q[2 * k], P[2 * k]>>}
<1>9. 0 \in S
  BY <1>1, <1>4, <1>7, <1>8, StrategyAssumption DEF Start
<1>10. ASSUME NEW k \in 1 .. n, k - 1 \in S
       PROVE  k \in S
  <2> DEFINE b == trades[2*k - 1].price
             s == trades[2*k].price
             p == P[2 * (k - 1)]
             q == Q[2 * (k - 1)]
  <2>1. b \in Pos /\ s \in Pos /\ p \in Pos /\ q \in Pos /\ k \in Nat
    BY <1>1, <1>7, <1>8
  <2>2. /\ 2 * k - 1 \in 1 .. 2 * n /\ 2 * k \in 1 .. 2 * n
        /\ (2 * k - 1) - 1 = 2 * (k - 1) /\ (2 * k) - 1 = 2 * k - 1
    BY <1>1
  <2>3. P[2 * k - 1] = p * b /\ P[2 * k] = P[2 * k - 1] * 1
    BY <1>2, <1>7, <2>2 DEF Price
  <2>4. Q[2 * k - 1] = q * 1 /\ Q[2 * k] = Q[2 * k - 1] * s
    BY <1>2, <1>8, <2>2 DEF Price
  <2>5. c[k - 1].equity = <<initial_capital * q, p>>
    BY <1>10
  <2>6. c[k - 1] \in Curve
    BY <1>1, <1>4
  <2>7. c[k].equity = <<c[k - 1].equity[1] * s, c[k - 1].equity[2] * b>>
    <3>1. c[k] = after_pair(c[k - 1], b, s)
      BY <1>4
    <3> HIDE DEF b, s
    <3>2. after_pair(c[k - 1], b, s).equity = <<c[k - 1].equity[1] * s, c[k - 1].equity[2] * b>>
      BY <2>1, <2>6, AfterPair
    <3> QED
      BY <3>1, <3>2
  <2> HIDE DEF S, b, s, p, q
  <2>8. P[2 * k] = p * b /\ Q[2 * k] = q * s
    BY <2>1, <2>3, <2>4, Times DEF Pos
  <2>9. (initial_capital * q) * s = initial_capital * (q * s)
    BY <2>1, StrategyAssumption, Assoc DEF Pos
  <2>10. c[k].equity = <<initial_capital * Q[2 * k], P[2 * k]>>
    BY <2>5, <2>7, <2>8, <2>9
  <2> QED
    BY <2>10 DEF S
<1> HIDE DEF S
<1>11. n \in S
  <2>1. \A k \in 0 .. n : k \in S
    BY <1>1, <1>9, <1>10, UpTo
  <2> QED
    BY <1>1, <2>1
<1>12. money = <<initial_capital * Q[2 * n], P[2 * n]>>
  BY <1>3, <1>11 DEF S
<1>13. P[2 * n] \in Int /\ Q[2 * n] \in Int /\ initial_capital \in Int
  BY <1>1, <1>7, <1>8, StrategyAssumption DEF Pos
<1>14. (initial_capital * Q[2 * n]) * P[2 * n] = (P[2 * n] * initial_capital) * Q[2 * n]
  BY <1>13
<1> QED
  BY <1>7, <1>8, <1>12, <1>14

-------------------------------------------------------------------------------
(* What run returns.                                                       *)

\* the metrics are those of all the trades
DoneInv == pc = "done" => metrics = calculate_metrics(trades)

\* only return_result sets the metrics
LEMMA DoneStep == ASSUME DoneInv, [Next]_vars PROVE DoneInv'
<1>1. CASE return_result
  BY <1>1 DEF return_result, DoneInv
<1>2. CASE ~return_result
  <2>1. pc' = "done" => UNCHANGED <<pc, trades, metrics>>
    BY <1>2 DEF Next, vars, apply_bands, apply_bands_raises, buy, sell, pass, force_exit, InLoop,
                NextBar
  <2> QED
    BY <2>1 DEF DoneInv
<1> QED
  BY <1>1, <1>2

\* the metrics are calculate_metrics of the trades
LEMMA AlwaysDone == Spec => []DoneInv
<1>1. Init => DoneInv
  BY DEF Init, DoneInv
<1>2. DoneInv /\ [Next]_vars => DoneInv'
  BY DoneStep
<1> QED
  BY <1>1, <1>2, PTL DEF Spec

\* calculate_metrics is given whole pairs
LEMMA DoneIsPaired ==
    ASSUME Inv, pc = "done"
    PROVE  Paired(trades, Len(trades) \div 2)
<1>1. trades \in Seq(Trade) /\ Len(trades) \in Nat /\ Len(trades) % 2 = 0
  <2>1. trades \in Seq(Trade)
    BY DEF Inv, TypeOK
  <2>2. Len(trades) % 2 = 0
    BY DEF Inv, TradesAlternate, Over
  <2> QED
    BY <2>1, <2>2
<1>2. Len(trades) \div 2 \in Nat /\ Len(trades) = 2 * (Len(trades) \div 2)
  BY <1>1
<1> QED
  BY <1>1, <1>2 DEF Inv, TradesAlternate, Paired

\* the metrics of trades that come in pairs
LEMMA MetricsMatch ==
    ASSUME Inv, DoneInv
    PROVE  MetricsMatchTrades
<1> SUFFICES ASSUME pc = "done"
             PROVE  MetricsMatchTrades
  BY DEF MetricsMatchTrades
<1>1. PICK n : n = Len(trades) \div 2
  OBVIOUS
<1>2. Paired(trades, n)
  BY <1>1, DoneIsPaired
<1>3. PICK bs : bs = {k \in 1 .. Len(trades) : trades[k].signal = "BUY"}
  OBVIOUS
<1>4. PICK ss : ss = {k \in 1 .. Len(trades) : trades[k].signal = "SELL"}
  OBVIOUS
<1>5. /\ n \in Nat /\ Len(trades) = 2 * n /\ completed(trades) = 1 .. n
      /\ trades \in Seq(Trade)
  BY <1>2, PairFacts DEF Paired
<1>6. bs = {2 * k - 1 : k \in 1 .. n}
  <2>1. \A k \in 1 .. Len(trades) : trades[k].signal = "BUY" <=> k % 2 = 1
    BY <1>2 DEF Paired
  <2>2. ASSUME NEW k \in bs
        PROVE  \E l \in 1 .. n : k = 2 * l - 1
    <3>1. k \in 1 .. 2 * n /\ k % 2 = 1
      BY <1>3, <1>5, <2>1
    <3>2. k = 2 * ((k + 1) \div 2) - 1 /\ (k + 1) \div 2 \in 1 .. n
      BY <1>5, <3>1
    <3> QED
      BY <3>2
  <2>3. ASSUME NEW l \in 1 .. n
        PROVE  2 * l - 1 \in bs
    <3>1. 2 * l - 1 \in 1 .. Len(trades) /\ (2 * l - 1) % 2 = 1
      BY <1>5
    <3> QED
      BY <1>3, <2>1, <3>1
  <2> QED
    BY <2>2, <2>3
<1>7. Cardinality(bs) = Cardinality(1 .. n)
  BY <1>5, <1>6, AsManyBuys
<1>8. PICK ws : ws = wins(trades)
  OBVIOUS
<1>9. ws \in SUBSET (1 .. n)
  BY <1>5, <1>8 DEF wins
<1>10. {k \in bs : Price(k + 1) > Price(k)} = {2 * k - 1 : k \in ws}
  <2>1. ws = {k \in 1 .. n : trades[2*k].price > trades[2*k - 1].price}
    BY <1>5, <1>8 DEF wins
  <2>2. \A k \in 1 .. n : (2 * k - 1) + 1 = 2 * k
    BY <1>5
  <2>3. \A k \in 1 .. n : k \in ws <=> Price((2 * k - 1) + 1) > Price(2 * k - 1)
    BY <2>1, <2>2 DEF Price
  <2> QED
    BY <1>6, <1>9, <2>3
<1>11. Cardinality({k \in bs : Price(k + 1) > Price(k)}) = Cardinality(ws)
  BY <1>5, <1>9, <1>10, AsManyBuys
<1>12. CASE n = 0
  <2>1. completed(trades) = {} /\ 1 .. n = {} /\ ws = {}
    BY <1>5, <1>9, <1>12
  <2>2. metrics = NoMetrics
    BY <2>1 DEF DoneInv, calculate_metrics
  <2>3. trades = <<>>
    BY <1>5, <1>12
  <2>4. Cardinality({}) = 0
    BY FS_EmptySet
  <2> QED
    BY <1>3, <1>7, <1>11, <2>1, <2>2, <2>3, <2>4 DEF MetricsMatchTrades, NoMetrics
<1>13. CASE n # 0
  <2>1. completed(trades) # {} /\ trades # <<>>
    <3>1. 1 \in 1 .. n /\ Len(trades) # 0
      BY <1>5, <1>13
    <3>2. completed(trades) # {}
      BY <1>5, <3>1
    <3>3. trades # <<>>
      BY <3>1
    <3> QED
      BY <3>2, <3>3
  <2>2. metrics = [num_trades |-> Cardinality(1 .. n), wins |-> Cardinality(ws),
                   ending_capital |-> curve(trades)[n].equity,
                   max_drawdown |-> curve(trades)[n].max_drawdown]
    BY <1>1, <1>5, <1>8, <2>1 DEF DoneInv, calculate_metrics
  <2>3. PICK money : money = curve(trades)[n].equity
    OBVIOUS
  <2>4. money[1] * Product(bs) = money[2] * initial_capital * Product(ss)
    BY <1>2, <1>3, <1>4, <2>3, Money
  <2> QED
    BY <1>3, <1>4, <1>7, <1>11, <2>1, <2>2, <2>3, <2>4 DEF MetricsMatchTrades
<1> QED
  BY <1>12, <1>13

-------------------------------------------------------------------------------
(* The order of the fractions, and the worst fall.                         *)

Ratio        == Int \X Pos
AtMost(x, y) == ~Less(y, x)

\* a positive factor keeps the order and may be cancelled
LEMMA Factor ==
    ASSUME NEW a \in Int, NEW b \in Int, NEW c \in Pos
    PROVE  a <= b <=> a * c <= b * c
<1>1. ASSUME NEW x \in Int
      PROVE  (x >= 0 => x * c >= 0) /\ (x < 0 => x * c < 0) /\ x * c \in Int
  BY DEF Pos
<1>2. (b - a) * c = b * c - a * c
  BY DEF Pos
<1>3. b - a \in Int /\ a * c \in Int /\ b * c \in Int
  BY DEF Pos
<1>4. (b - a >= 0 => (b - a) * c >= 0) /\ (b - a < 0 => (b - a) * c < 0)
  BY <1>1, <1>3
<1> QED
  BY <1>2, <1>3, <1>4

\* AtMost, multiplied out
LEMMA AtMostIs ==
    ASSUME NEW x \in Ratio, NEW y \in Ratio
    PROVE  AtMost(x, y) <=> x[1] * y[2] <= y[1] * x[2]
<1>1. x[1] \in Int /\ x[2] \in Int /\ y[1] \in Int /\ y[2] \in Int
  BY DEF Ratio, Pos
<1>2. x[1] * y[2] \in Int /\ y[1] * x[2] \in Int
  BY <1>1
<1> QED
  BY <1>2 DEF AtMost, Less

\* the order is transitive
LEMMA AtMostTrans ==
    ASSUME NEW x \in Ratio, NEW y \in Ratio, NEW z \in Ratio, AtMost(x, y), AtMost(y, z)
    PROVE  AtMost(x, z)
<1> DEFINE a == x[1]
           b == x[2]
           c == y[1]
           d == y[2]
           e == z[1]
           f == z[2]
<1>1. a \in Int /\ b \in Pos /\ c \in Int /\ d \in Pos /\ e \in Int /\ f \in Pos
  BY DEF Ratio
<1>2. a * d <= c * b /\ c * f <= e * d
  BY AtMostIs
<1>3. AtMost(x, z) <=> a * f <= e * b
  BY AtMostIs
<1> HIDE DEF a, b, c, d, e, f
<1>4. /\ a * d \in Int /\ c * b \in Int /\ c * f \in Int /\ e * d \in Int /\ a * f \in Int
      /\ e * b \in Int /\ b \in Int /\ d \in Int /\ f \in Int
  BY <1>1 DEF Pos
<1>5. (a * d) * f <= (c * b) * f
  BY <1>1, <1>2, <1>4, Factor
<1>6. (c * f) * b <= (e * d) * b
  BY <1>1, <1>2, <1>4, Factor
<1>7. (a * d) * f = (a * f) * d /\ (c * b) * f = (c * f) * b /\ (e * d) * b = (e * b) * d
  BY <1>1, <1>4
<1>8. (a * f) * d <= (e * b) * d
  <2>1. (a * f) * d \in Int /\ (c * f) * b \in Int /\ (e * b) * d \in Int
    BY <1>4
  <2> QED
    BY <1>5, <1>6, <1>7, <2>1
<1> QED
  BY <1>1, <1>3, <1>4, <1>8, Factor

\* Greatest is one of the two and not below either
LEMMA GreatestFacts ==
    ASSUME NEW x \in Ratio, NEW y \in Ratio
    PROVE  /\ Greatest(x, y) \in {x, y}
           /\ AtMost(x, Greatest(x, y)) /\ AtMost(y, Greatest(x, y))
           /\ AtMost(x, x)
<1>1. AtMost(x, x) /\ AtMost(y, y)
  <2>1. \A v \in Ratio : v[1] * v[2] \in Int
    BY DEF Ratio, Pos
  <2> QED
    BY <2>1, AtMostIs
<1>2. Less(x, y) => AtMost(x, y)
  <2>1. x[1] * y[2] \in Int /\ y[1] * x[2] \in Int
    BY DEF Ratio, Pos
  <2> QED
    BY <2>1 DEF Less, AtMost
<1>3. ~Less(x, y) => AtMost(y, x)
  BY DEF AtMost
<1> QED
  BY <1>1, <1>2, <1>3 DEF Greatest

\* a fall from a higher peak is worse
LEMMA FallGrows ==
    ASSUME NEW p \in Fraction, NEW q \in Fraction, NEW e \in Fraction, AtMost(p, q)
    PROVE  AtMost(fall(p, e), fall(q, e))
<1> DEFINE a == p[1]
           b == p[2]
           c == q[1]
           d == q[2]
           x == e[1]
           y == e[2]
<1>1. a \in Pos /\ b \in Pos /\ c \in Pos /\ d \in Pos /\ x \in Pos /\ y \in Pos
  BY DEF Fraction
<1>2. a * d <= c * b
  <2>1. p \in Ratio /\ q \in Ratio
    BY DEF Fraction, Ratio, Pos
  <2> QED
    BY <2>1, AtMostIs
<1>3. AtMost(fall(p, e), fall(q, e)) <=> (a * y - x * b) * (c * y) <= (c * y - x * d) * (a * y)
  <2>1. fall(p, e) \in Ratio /\ fall(q, e) \in Ratio
    BY FallType DEF Ratio
  <2>2. /\ fall(p, e)[1] = a * y - x * b /\ fall(p, e)[2] = a * y
        /\ fall(q, e)[1] = c * y - x * d /\ fall(q, e)[2] = c * y
    BY FallType
  <2> QED
    BY <2>1, <2>2, AtMostIs
<1> HIDE DEF a, b, c, d, x, y
<1>4. x * y \in Pos /\ a * d \in Int /\ c * b \in Int
  BY <1>1, Times DEF Pos
<1>5. (a * d) * (x * y) <= (c * b) * (x * y)
  BY <1>2, <1>4, Factor
<1>6. /\ a \in Int /\ b \in Int /\ c \in Int /\ d \in Int /\ x \in Int /\ y \in Int
  BY <1>1 DEF Pos
<1>7. (a * y - x * b) * (c * y) = (a * y) * (c * y) - (c * b) * (x * y)
  BY <1>6
<1>8. (c * y - x * d) * (a * y) = (a * y) * (c * y) - (a * d) * (x * y)
  BY <1>6
<1>9. (a * y) * (c * y) \in Int /\ (c * b) * (x * y) \in Int /\ (a * d) * (x * y) \in Int
  BY <1>6
<1> QED
  BY <1>3, <1>5, <1>7, <1>8, <1>9

\* the equity loop keeps the highest equity and the worst fall so far
LEMMA WorstFall ==
    ASSUME NEW n \in Nat, NEW e \in [0 .. n -> Fraction], NEW p \in [0 .. n -> Fraction],
           NEW d \in [0 .. n -> Ratio], p[0] = e[0], d[0] = <<0, 1>>,
           \A k \in 1 .. n : /\ p[k] = Greatest(p[k - 1], e[k])
                             /\ d[k] = Greatest(d[k - 1], fall(p[k], e[k]))
    PROVE  /\ \A k \in 0 .. n : \A j \in 0 .. k : AtMost(fall(e[j], e[k]), d[n])
           /\ \E k \in 0 .. n : \E j \in 0 .. k : AtMost(d[n], fall(e[j], e[k]))
<1> DEFINE Peak(k)  == /\ \A j \in 0 .. k : AtMost(e[j], p[k])
                       /\ \E j \in 0 .. k : p[k] = e[j]
           Upper(k) == \A l \in 0 .. k : \A j \in 0 .. l : AtMost(fall(e[j], e[l]), d[k])
           Lower(k) == \E l \in 0 .. k : \E j \in 0 .. l : AtMost(d[k], fall(e[j], e[l]))
           S == {k \in 0 .. n : Peak(k) /\ Upper(k) /\ Lower(k)}
<1>1. \A x \in Fraction : x \in Ratio
  BY DEF Fraction, Ratio, Pos
<1>2. \A x, y \in Fraction : fall(x, y) \in Ratio
  BY FallType DEF Ratio
<1>3. 0 \in S
  <2>1. \A j : j \in 0 .. 0 <=> j = 0
    OBVIOUS
  <2>2. e[0] \in Fraction
    OBVIOUS
  <2>3. AtMost(e[0], p[0]) /\ p[0] = e[0]
    BY <1>1, <2>2, GreatestFacts
  <2>4. AtMost(fall(e[0], e[0]), d[0]) /\ AtMost(d[0], fall(e[0], e[0]))
    <3>1. PICK f \in Ratio : f = fall(e[0], e[0])
      BY <1>2, <2>2
    <3>2. f[1] = 0
      <4>1. f[1] = e[0][1] * e[0][2] - e[0][1] * e[0][2]
        BY <2>2, <3>1, FallType
      <4>2. e[0][1] * e[0][2] \in Int
        BY <2>2 DEF Fraction, Pos
      <4> QED
        BY <4>1, <4>2
    <3>3. d[0] \in Ratio /\ d[0][1] = 0 /\ d[0][2] = 1
      OBVIOUS
    <3>4. f[1] * d[0][2] = 0 /\ d[0][1] * f[2] = 0
      BY <3>1, <3>2, <3>3 DEF Ratio, Pos
    <3> QED
      BY <3>1, <3>3, <3>4, AtMostIs
  <2> QED
    BY <2>1, <2>3, <2>4
<1>4. ASSUME NEW k \in 1 .. n, k - 1 \in S
      PROVE  k \in S
  <2>1. /\ k \in 0 .. n /\ k - 1 \in 0 .. n /\ e[k] \in Fraction /\ p[k] \in Fraction
        /\ p[k - 1] \in Fraction /\ d[k] \in Ratio /\ d[k - 1] \in Ratio
    OBVIOUS
  <2>2. Peak(k - 1) /\ Upper(k - 1) /\ Lower(k - 1)
    BY <1>4
  <2>3. \A j \in 0 .. k : j \in 0 .. k - 1 \/ j = k
    OBVIOUS
  <2>4. \A j \in 0 .. k - 1 : j \in 0 .. k /\ j \in 0 .. n
    OBVIOUS
  <2>5. /\ p[k] \in {p[k - 1], e[k]} /\ AtMost(p[k - 1], p[k]) /\ AtMost(e[k], p[k])
    BY <1>1, <2>1, GreatestFacts
  <2>6. /\ d[k] \in {d[k - 1], fall(p[k], e[k])} /\ AtMost(d[k - 1], d[k])
        /\ AtMost(fall(p[k], e[k]), d[k])
    <3>1. fall(p[k], e[k]) \in Ratio
      BY <1>2, <2>1
    <3> QED
      BY <2>1, <3>1, GreatestFacts
  <2>7. \A j \in 0 .. k : AtMost(e[j], p[k])
    <3>1. ASSUME NEW j \in 0 .. k - 1
          PROVE  AtMost(e[j], p[k])
      <4>1. AtMost(e[j], p[k - 1]) /\ e[j] \in Ratio
        BY <1>1, <2>2, <2>4
      <4>2. p[k - 1] \in Ratio /\ p[k] \in Ratio
        BY <1>1, <2>1
      <4> QED
        BY <2>5, <4>1, <4>2, AtMostTrans
    <3> QED
      BY <2>3, <2>5, <3>1
  <2>8. Peak(k)
    <3>1. \E j \in 0 .. k : p[k] = e[j]
      BY <2>1, <2>2, <2>4, <2>5
    <3> QED
      BY <2>7, <3>1
  <2>9. Upper(k)
    <3>1. ASSUME NEW l \in 0 .. k - 1, NEW j \in 0 .. l
          PROVE  AtMost(fall(e[j], e[l]), d[k])
      <4>1. AtMost(fall(e[j], e[l]), d[k - 1])
        BY <2>2
      <4>2. fall(e[j], e[l]) \in Ratio
        BY <1>2
      <4> QED
        BY <2>1, <2>6, <4>1, <4>2, AtMostTrans
    <3>2. ASSUME NEW j \in 0 .. k
          PROVE  AtMost(fall(e[j], e[k]), d[k])
      <4>1. e[j] \in Fraction
        OBVIOUS
      <4>2. AtMost(fall(e[j], e[k]), fall(p[k], e[k]))
        BY <2>1, <2>7, <4>1, FallGrows
      <4>3. fall(e[j], e[k]) \in Ratio /\ fall(p[k], e[k]) \in Ratio
        BY <1>2, <2>1, <4>1
      <4> QED
        BY <2>1, <2>6, <4>2, <4>3, AtMostTrans
    <3> QED
      BY <2>3, <3>1, <3>2
  <2>10. Lower(k)
    <3>1. CASE d[k] = d[k - 1]
      BY <2>2, <2>4, <3>1
    <3>2. CASE d[k] = fall(p[k], e[k])
      <4>1. PICK j \in 0 .. k : p[k] = e[j]
        BY <2>8
      <4>2. AtMost(d[k], fall(e[j], e[k]))
        BY <2>1, <3>2, <4>1, GreatestFacts
      <4>3. k \in 0 .. k
        OBVIOUS
      <4> QED
        BY <4>2, <4>3
    <3> QED
      BY <2>6, <3>1, <3>2
  <2> QED
    BY <2>1, <2>8, <2>9, <2>10
<1>5. n \in S
  <2> HIDE DEF S
  <2>1. \A k \in 0 .. n : k \in S
    BY <1>3, <1>4, UpTo
  <2> QED
    BY <2>1
<1> QED
  BY <1>5

\* so max_drawdown is the worst fall
LEMMA WorstFallIsKept ==
    ASSUME Inv, DoneInv
    PROVE  DrawdownIsWorstFall
<1> SUFFICES ASSUME pc = "done"
             PROVE  DrawdownIsWorstFall
  BY DEF DrawdownIsWorstFall
<1>1. PICK n : n = Len(trades) \div 2
  OBVIOUS
<1>2. Paired(trades, n)
  BY <1>1, DoneIsPaired
<1>3. n \in Nat /\ completed(trades) = 1 .. n
      /\ \A k \in 1 .. n : trades[2 * k].price \in Pos /\ trades[2 * k - 1].price \in Pos
  BY <1>2, PairFacts DEF Paired
<1>4. PICK c : c = curve(trades)
  OBVIOUS
<1>5. /\ c \in [0 .. n -> Curve] /\ c[0] = Start
      /\ \A k \in 1 .. n : c[k] = after_pair(c[k - 1], trades[2*k - 1].price, trades[2*k].price)
  BY <1>2, <1>4, CurveFacts
<1>6. PICK e : e = [k \in 0 .. n |-> c[k].equity]
  OBVIOUS
<1>7. PICK p : p = [k \in 0 .. n |-> c[k].peak]
  OBVIOUS
<1>8. PICK d : d = [k \in 0 .. n |-> c[k].max_drawdown]
  OBVIOUS
<1>9. e \in [0 .. n -> Fraction] /\ p \in [0 .. n -> Fraction] /\ d \in [0 .. n -> Ratio]
  <2>1. \A x \in Curve : x.equity \in Fraction /\ x.peak \in Fraction /\ x.max_drawdown \in Ratio
    BY DEF Curve, Ratio
  <2> QED
    BY <1>5, <1>6, <1>7, <1>8, <2>1
<1>10. p[0] = e[0] /\ d[0] = <<0, 1>>
  BY <1>3, <1>5, <1>6, <1>7, <1>8 DEF Start
<1>11. ASSUME NEW k \in 1 .. n
       PROVE  p[k] = Greatest(p[k - 1], e[k]) /\ d[k] = Greatest(d[k - 1], fall(p[k], e[k]))
  <2>1. k \in 0 .. n /\ k - 1 \in 0 .. n /\ c[k - 1] \in Curve
    BY <1>3, <1>5
  <2>2. PICK b \in Pos : b = trades[2*k - 1].price
    BY <1>3
  <2>3. PICK s \in Pos : s = trades[2*k].price
    BY <1>3
  <2>4. PICK x \in Curve : x = c[k - 1]
    BY <2>1
  <2>5. c[k] = after_pair(x, b, s)
    BY <1>5, <2>2, <2>3, <2>4
  <2>6. /\ c[k].peak = Greatest(x.peak, c[k].equity)
        /\ c[k].max_drawdown = Greatest(x.max_drawdown, fall(c[k].peak, c[k].equity))
    BY <2>5, AfterPair
  <2> QED
    BY <1>6, <1>7, <1>8, <2>1, <2>4, <2>6
<1>12. /\ \A k \in 0 .. n : \A j \in 0 .. k : AtMost(fall(e[j], e[k]), d[n])
       /\ \E k \in 0 .. n : \E j \in 0 .. k : AtMost(d[n], fall(e[j], e[k]))
  BY <1>3, <1>9, <1>10, <1>11, WorstFall
<1>13. metrics.max_drawdown = d[n]
  <2>1. CASE n = 0
    <3>1. completed(trades) = {}
      BY <1>3, <2>1
    <3>2. metrics.max_drawdown = <<0, 1>>
      BY <3>1 DEF DoneInv, calculate_metrics, NoMetrics
    <3> QED
      BY <1>10, <2>1, <3>2
  <2>2. CASE n # 0
    <3>1. 1 \in 1 .. n
      BY <1>3, <2>2
    <3>2. completed(trades) # {}
      BY <1>3, <3>1
    <3>3. metrics.max_drawdown = c[n].max_drawdown
      BY <1>1, <1>4, <3>2 DEF DoneInv, calculate_metrics
    <3> QED
      BY <1>3, <1>8, <3>3
  <2> QED
    BY <2>1, <2>2
<1> DEFINE falls == {fall(e[q[1]], e[q[2]]) : q \in {r \in (DOMAIN e) \X (DOMAIN e) : r[1] <= r[2]}}
<1>14. \A f : f \in falls <=> \E k \in 0 .. n : \E j \in 0 .. k : f = fall(e[j], e[k])
  <2>1. DOMAIN e = 0 .. n
    BY <1>6
  <2>2. ASSUME NEW k \in 0 .. n, NEW j \in 0 .. k
        PROVE  fall(e[j], e[k]) \in falls
    <3>1. <<j, k>> \in (DOMAIN e) \X (DOMAIN e) /\ j <= k
      BY <1>3, <2>1
    <3>2. <<j, k>>[1] = j /\ <<j, k>>[2] = k
      OBVIOUS
    <3> QED
      BY <3>1, <3>2
  <2>3. ASSUME NEW f \in falls
        PROVE  \E k \in 0 .. n : \E j \in 0 .. k : f = fall(e[j], e[k])
    <3>1. PICK q \in (DOMAIN e) \X (DOMAIN e) : q[1] <= q[2] /\ f = fall(e[q[1]], e[q[2]])
      OBVIOUS
    <3>2. q[2] \in 0 .. n /\ q[1] \in 0 .. q[2]
      BY <1>3, <2>1, <3>1
    <3> QED
      BY <3>1, <3>2
  <2> HIDE DEF falls
  <2> QED
    BY <2>2, <2>3
<1>15. DrawdownIsWorstFall <=> /\ \A f \in falls : AtMost(f, metrics.max_drawdown)
                               /\ \E f \in falls : AtMost(metrics.max_drawdown, f)
  BY <1>1, <1>4, <1>6 DEF DrawdownIsWorstFall, AtMost
<1> HIDE DEF falls
<1> QED
  BY <1>12, <1>13, <1>14, <1>15

(* The metrics say what the trades say, whatever the prices.               *)
THEOREM AlwaysMetricsMatch == Spec => []MetricsMatchTrades
<1>1. Inv /\ DoneInv => MetricsMatchTrades
  BY MetricsMatch
<1> QED
  BY <1>1, AlwaysInv, AlwaysDone, PTL

(* max_drawdown is the worst fall of the equity, whatever the prices.      *)
THEOREM AlwaysWorstFall == Spec => []DrawdownIsWorstFall
<1>1. Inv /\ DoneInv => DrawdownIsWorstFall
  BY WorstFallIsKept
<1> QED
  BY <1>1, AlwaysInv, AlwaysDone, PTL

===============================================================================
