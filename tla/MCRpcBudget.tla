----------------------------- MODULE MCRpcBudget ----------------------------
(***************************************************************************)
(* Readers that share one endpoint, with every period a few ticks long.    *)
(***************************************************************************)
EXTENDS RpcBudget

CONSTANTS indexer, nav

MCReaders == {indexer, nav}
=============================================================================
