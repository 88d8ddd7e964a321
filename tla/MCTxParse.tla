----------------------------- MODULE MCTxParse -------------------------------
(***************************************************************************)
(* Instances of TxParse for TLC: the transactions of the amounts run, with *)
(* none, as many as the limit and too many endorsements, repeated or not.  *)
(***************************************************************************)
EXTENDS TxParse, MCLedger

MCEndorsementLists == {<<>>, <<1, 2, 3, 4>>, <<1, 2, 3, 4, 5>>, <<1, 1, 2, 3, 4>>}
==============================================================================
