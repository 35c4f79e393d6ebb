-------------------------------- MODULE Sums --------------------------------
(***************************************************************************)
(* Sums of amounts over the accounts of a finite set.  A sum is the number *)
(* of units the accounts hold together, so that what is proved about       *)
(* cardinalities applies to it, without induction over the accounts.       *)
(***************************************************************************)
EXTENDS Integers, FiniteSets

\* The units of the balances f: the i-th unit of account x, for i up to f[x].
Units(f) == UNION {{x} \X (1..f[x]) : x \in DOMAIN f}

\* The sum of natural balances.
Total(f) == Cardinality(Units(f))

\* The sum of integer balances: what is owned less what is owed.
Owned(f) == [x \in DOMAIN f |-> IF f[x] > 0 THEN f[x] ELSE 0]
NetTotal(f) == Total(Owned(f)) - Total(Owned([x \in DOMAIN f |-> -f[x]]))
=============================================================================
