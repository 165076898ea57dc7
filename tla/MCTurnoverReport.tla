--------------------------- MODULE MCTurnoverReport ---------------------------
(***************************************************************************)
(* Instances of TurnoverReport for TLC.  TWINT takes Swiss francs only; a  *)
(* second currency exercises the sums the code keeps for each of them.     *)
(***************************************************************************)
EXTENDS TurnoverReport, TLC

CONSTANTS t1, t2, chf, eur

OneCurrency == [t \in Txs |-> chf]
TwoCurrencies == (t1 :> chf) @@ (t2 :> eur)
=============================================================================
