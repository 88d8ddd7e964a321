------------------------- MODULE MCConcurrentIndexer -------------------------
(***************************************************************************)
(* Instance of ConcurrentIndexer for TLC: the transactions of MCUTXODB.    *)
(***************************************************************************)
EXTENDS ConcurrentIndexer, MCUTXODB
==============================================================================
