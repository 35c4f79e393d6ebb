------------------------------ MODULE MCBasket ------------------------------
(***************************************************************************)
(* Small baskets for TLC: two wallets, of which the one that holds the     *)
(* constituents to deposit is the treasury, and two seconds of fees.       *)
(***************************************************************************)
EXTENDS Basket

CONSTANTS aapl, nvda, alice, creator

MCMints == {aapl, nvda}
MCHolders == {alice, creator}

\* One constituent has an issuer who can stop and seize it.
MCIssuerControlled == {nvda}

\* Unequal seeds, so that the legs of one deposit round differently.
MCSeed == [m \in MCMints |-> IF m = aapl THEN 1 ELSE 2]

\* Only one wallet holds constituents beside the vault.
MCFunds == [h \in MCHolders |-> [m \in MCMints |-> IF h = alice THEN 2 ELSE 0]]
=============================================================================
