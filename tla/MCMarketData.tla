----------------------------- MODULE MCMarketData -----------------------------
(* MarketData for TLC: a ticker in two spellings.                          *)
EXTENDS MarketData, TLC

CONSTANTS AAPL, aapl, t1, t2, c1

MCUpper == [s \in Symbols |-> AAPL]

Bars(days)    == [day : days, late : {0}]
Evening(days) == [day : days, late : {1}]

\* AAPL does not trade on day 1, or into the evening; what is to come on day 2
\* it gets meanwhile
MCMarkets == {[s \in Symbols |-> IF s = AAPL THEN bars ELSE Bars({1})] :
                 bars \in {{}, Bars({1}) \cup Evening({1})}}

\* a market with all its bars
MCFullMarkets == {[s \in Symbols |-> Bars(Days)]}

\* a job for both symbols and all days; or for a part of it
MCJobs     == {[symbols |-> Symbols, start |-> 1, end |-> LastDay]}
MCPartJobs == {[symbols |-> {AAPL}, start |-> 1, end |-> 1]}

Symmetry == Permutations(Tasks)
===============================================================================
