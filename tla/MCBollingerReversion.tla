------------------------- MODULE MCBollingerReversion --------------------------
(* BollingerReversion for TLC: bars of the first minute of the session at  *)
(* two prices and in every zone, and tempting bars one minute before it    *)
(* and at its end.                                                         *)
EXTENDS BollingerReversion

MCBars == [time : {570}, close : {1, 2}, zone : Zones]
            \cup {[time |-> 569, close |-> 1, zone |-> "below"],
                  [time |-> 960, close |-> 2, zone |-> "above"]}
===============================================================================
