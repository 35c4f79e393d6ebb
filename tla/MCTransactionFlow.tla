------------------------ MODULE MCTransactionFlow --------------------------
(***************************************************************************)
(* Two runs of one form, two wallets or networks, two attempts per call.   *)
(***************************************************************************)
EXTENDS TransactionFlow

CONSTANTS devnet, other

MCContexts == {devnet, other}
=============================================================================
