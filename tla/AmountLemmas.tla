---------------------------- MODULE AmountLemmas ----------------------------
(***************************************************************************)
(* Facts about amounts: the floor division that the share arithmetic of    *)
(* both basket programs is made of, and sums over accounts.                *)
(***************************************************************************)
EXTENDS Sums, FiniteSetTheorems, TLAPS

(***************************************************************************)
(* Floor division                                                          *)
(***************************************************************************)

\* What u128 floor division returns, for the share and fee formulas of both programs.
LEMMA DivFloor ==
    ASSUME NEW a \in Nat, NEW b \in Nat, b > 0
    PROVE  /\ a \div b \in Nat
           /\ a % b \in 0..(b - 1)
           /\ a = (a \div b) * b + (a % b)
           /\ (a \div b) * b <= a
           /\ a < (a \div b) * b + b
  OBVIOUS

\* A fraction not above one, rounded down, does not exceed the whole.
LEMMA DivFraction ==
    ASSUME NEW a \in Nat, NEW p \in Nat, NEW q \in Nat, q > 0, p <= q
    PROVE  /\ (a * p) \div q \in Nat
           /\ (a * p) \div q <= a
  <1>1. a * p \in Nat /\ a * p <= a * q
    OBVIOUS
  <1>2. /\ (a * p) \div q \in Nat
        /\ ((a * p) \div q) * q <= a * p
    BY <1>1, DivFloor
  <1>3. ((a * p) \div q) * q <= a * q
    BY <1>1, <1>2
  <1>4. QED
    BY <1>2, <1>3

\* A pro-rata part of a balance: at most the fraction, all of it for the whole,
\* and never the last unit for less than the whole.
LEMMA ProRata ==
    ASSUME NEW balance \in Nat, NEW sup \in Nat, sup > 0, NEW part \in 0..sup
    PROVE  /\ (balance * part) \div sup \in 0..balance
           /\ ((balance * part) \div sup) * sup <= balance * part
           /\ part = sup => (balance * part) \div sup = balance
           /\ part < sup /\ balance > 0 => (balance * part) \div sup < balance
  <1> DEFINE out == (balance * part) \div sup
  <1>1. balance * part \in Nat
    OBVIOUS
  <1>2. out \in Nat /\ out * sup <= balance * part /\ balance * part < out * sup + sup
    BY <1>1, DivFloor
  <1>3. out <= balance
    BY DivFraction
  <1>4. ASSUME part = sup PROVE out = balance
    <2>1. out * sup <= balance * sup /\ balance * sup < (out + 1) * sup
      BY <1>2, <1>4
    <2>2. QED
      BY <1>2, <1>3, <2>1
  <1>5. ASSUME part < sup, balance > 0 PROVE out < balance
    <2>1. balance * part < balance * sup
      BY <1>5
    <2>2. out # balance
      BY <1>2, <2>1
    <2>3. QED
      BY <1>2, <1>3, <2>2
  <1>6. QED
    BY <1>2, <1>3, <1>4, <1>5

(***************************************************************************)
(* Sums                                                                    *)
(***************************************************************************)
\* A unit is an account of S and a number up to its balance.
LEMMA UnitsOf ==
    ASSUME NEW S, NEW f \in [S -> Nat]
    PROVE  Units(f) = {p \in S \X Nat : p[2] >= 1 /\ p[2] <= f[p[1]]}
  <1>1. ASSUME NEW p \in Units(f)
        PROVE  p \in S \X Nat /\ p[2] >= 1 /\ p[2] <= f[p[1]]
    <2>1. PICK x \in S : p \in {x} \X (1..f[x])
      BY DEF Units
    <2>2. QED
      BY <2>1
  <1>2. ASSUME NEW p \in S \X Nat, p[2] >= 1, p[2] <= f[p[1]]
        PROVE  p \in Units(f)
    <2>1. p \in {p[1]} \X (1..f[p[1]]) /\ p[1] \in DOMAIN f
      BY <1>2
    <2>2. QED
      BY <2>1 DEF Units
  <1>3. QED
    BY <1>1, <1>2

\* A sum over finitely many accounts is a natural number.
LEMMA TotalType ==
    ASSUME NEW S, IsFiniteSet(S), NEW f \in [S -> Nat]
    PROVE  IsFiniteSet(Units(f)) /\ Total(f) \in Nat
  <1> DEFINE part == [x \in S |-> {x} \X (1..f[x])]
             parts == {{x} \X (1..f[x]) : x \in S}
  <1>1. part \in Surjection(S, parts)
    BY DEF Surjection
  <1>2. IsFiniteSet(parts)
    BY <1>1, FS_Surjection
  <1>3. ASSUME NEW T \in parts PROVE IsFiniteSet(T)
    <2>1. PICK x \in S : T = {x} \X (1..f[x])
      OBVIOUS
    <2>2. f[x] \in Int /\ 1 \in Int
      OBVIOUS
    <2>3. IsFiniteSet({x}) /\ IsFiniteSet(1..f[x])
      BY <2>2, FS_Singleton, FS_Interval
    <2>4. QED
      BY <2>1, <2>3, FS_Product
  <1>4. Units(f) = UNION parts
    BY DEF Units
  <1>5. IsFiniteSet(Units(f))
    BY <1>2, <1>3, <1>4, FS_UNION
  <1>6. QED
    BY <1>5, FS_CardinalityType DEF Total

\* Adding balances account by account adds the sums.
LEMMA TotalPlus ==
    ASSUME NEW S, IsFiniteSet(S), NEW f \in [S -> Nat], NEW g \in [S -> Nat],
           NEW h \in [S -> Nat], \A x \in S : h[x] = f[x] + g[x]
    PROVE  Total(h) = Total(f) + Total(g)
  <1> DEFINE F == Units(f)
             G == Units(g)
             H == Units(h)
             R == {p \in H : p[2] > f[p[1]]}
             shift == [p \in G |-> <<p[1], p[2] + f[p[1]]>>]
  <1>1. /\ F = {p \in S \X Nat : p[2] >= 1 /\ p[2] <= f[p[1]]}
        /\ G = {p \in S \X Nat : p[2] >= 1 /\ p[2] <= g[p[1]]}
        /\ H = {p \in S \X Nat : p[2] >= 1 /\ p[2] <= h[p[1]]}
    BY UnitsOf
  <1>2. IsFiniteSet(F) /\ IsFiniteSet(G) /\ IsFiniteSet(H)
    BY TotalType
  <1>3. IsFiniteSet(R)
    BY <1>2, FS_Subset
  <1> HIDE DEF F, G, H
  <1>4. H = F \cup R /\ F \cap R = {}
    <2>1. ASSUME NEW p \in S \X Nat PROVE f[p[1]] \in Nat /\ g[p[1]] \in Nat /\ h[p[1]] = f[p[1]] + g[p[1]]
      OBVIOUS
    <2>2. ASSUME NEW p \in F PROVE p \in H /\ p \notin R
      BY <1>1, <2>1
    <2>3. ASSUME NEW p \in H, p \notin R PROVE p \in F
      BY <1>1, <2>1, <2>3
    <2>4. QED
      BY <2>2, <2>3
  <1>5. shift \in Bijection(G, R)
    <2>1. ASSUME NEW p \in G PROVE shift[p] \in R
      <3>1. /\ p[1] \in S /\ p[2] \in Nat /\ f[p[1]] \in Nat /\ g[p[1]] \in Nat
            /\ p[2] >= 1 /\ p[2] <= g[p[1]] /\ h[p[1]] = f[p[1]] + g[p[1]]
        BY <1>1
      <3>2. shift[p] = <<p[1], p[2] + f[p[1]]>>
        OBVIOUS
      <3>3. QED
        BY <1>1, <3>1, <3>2
    <2>2. ASSUME NEW p \in G, NEW q \in G, shift[p] = shift[q] PROVE p = q
      <3>1. /\ p \in S \X Nat /\ q \in S \X Nat
            /\ p[1] = q[1] /\ p[2] + f[p[1]] = q[2] + f[q[1]]
        BY <1>1, <2>2
      <3>2. p[2] = q[2]
        <4>1. p[2] \in Nat /\ q[2] \in Nat /\ f[p[1]] \in Nat
          BY <3>1
        <4>2. QED
          BY <3>1, <4>1
      <3>3. QED
        BY <3>1, <3>2
    <2>3. ASSUME NEW r \in R PROVE \E p \in G : shift[p] = r
      <3>1. /\ r \in S \X Nat /\ r[1] \in S /\ r[2] \in Nat /\ f[r[1]] \in Nat
            /\ g[r[1]] \in Nat /\ r[2] > f[r[1]] /\ r[2] <= f[r[1]] + g[r[1]]
        BY <1>1
      <3>2. <<r[1], r[2] - f[r[1]]>> \in G
        BY <1>1, <3>1
      <3>3. shift[<<r[1], r[2] - f[r[1]]>>] = <<r[1], r[2]>>
        BY <3>1, <3>2
      <3>4. QED
        BY <3>1, <3>2, <3>3
    <2>4. shift \in [G -> R]
      BY <2>1
    <2>5. QED
      BY <2>2, <2>3, <2>4 DEF Bijection, Injection, Surjection, IsInjective
  <1>6. Cardinality(R) = Cardinality(G)
    BY <1>2, <1>5, FS_Bijection DEF ExistsBijection
  <1>7. Cardinality(H) = Cardinality(F) + Cardinality(R) - Cardinality(F \cap R)
    BY <1>2, <1>3, <1>4, FS_Union
  <1>8. Cardinality(F \cap R) = 0
    BY <1>4, FS_EmptySet
  <1>9. Cardinality(F) \in Nat /\ Cardinality(G) \in Nat
    BY <1>2, FS_CardinalityType
  <1>10. QED
    BY <1>6, <1>7, <1>8, <1>9 DEF Total, F, G, H

\* Balances that are nothing but n in one account sum to n.
LEMMA TotalSingle ==
    ASSUME NEW S, NEW a \in S, NEW n \in Nat, NEW f \in [S -> Nat],
           \A x \in S : f[x] = IF x = a THEN n ELSE 0
    PROVE  Total(f) = n
  <1>1. Units(f) = {p \in S \X Nat : p[2] >= 1 /\ p[2] <= f[p[1]]}
    BY UnitsOf
  <1> DEFINE number == [i \in 1..n |-> <<a, i>>]
  <1>2. number \in Bijection(1..n, Units(f))
    <2>1. ASSUME NEW i \in 1..n PROVE number[i] \in Units(f)
      BY <1>1
    <2>2. ASSUME NEW p \in Units(f) PROVE p[2] \in 1..n /\ p = number[p[2]]
      <3>1. p \in S \X Nat /\ p[2] >= 1 /\ p[2] <= f[p[1]] /\ p[1] \in S /\ p[2] \in Nat
        BY <1>1
      <3>2. p[1] = a
        BY <3>1
      <3>3. QED
        BY <3>1, <3>2
    <2>3. number \in [1..n -> Units(f)]
      BY <2>1
    <2>4. ASSUME NEW i \in 1..n, NEW j \in 1..n, number[i] = number[j] PROVE i = j
      BY <2>4
    <2>5. QED
      BY <2>2, <2>3, <2>4 DEF Bijection, Injection, Surjection, IsInjective
  <1>3. QED
    BY <1>2, FS_CountingElements DEF ExistsBijection, Total

\* One account apart, the rest of the sum does not change with that account.
LEMMA TotalSplit ==
    ASSUME NEW S, IsFiniteSet(S), NEW f \in [S -> Nat], NEW a \in S
    PROVE  /\ Total([f EXCEPT ![a] = 0]) \in Nat
           /\ Total(f) = Total([f EXCEPT ![a] = 0]) + f[a]
  <1> DEFINE one == [x \in S |-> IF x = a THEN f[a] ELSE 0]
             rest == [f EXCEPT ![a] = 0]
  <1>1. one \in [S -> Nat] /\ rest \in [S -> Nat] /\ \A x \in S : f[x] = rest[x] + one[x]
    OBVIOUS
  <1>2. Total(one) = f[a]
    BY <1>1, TotalSingle
  <1> HIDE DEF one, rest
  <1>3. Total(f) = Total(rest) + Total(one)
    BY <1>1, TotalPlus
  <1>4. Total(rest) \in Nat
    BY <1>1, TotalType
  <1>5. QED
    BY <1>2, <1>3, <1>4 DEF rest

\* No account holds more than all of them.
LEMMA PartOfTotal ==
    ASSUME NEW S, IsFiniteSet(S), NEW f \in [S -> Nat], NEW a \in S
    PROVE  f[a] <= Total(f)
  <1>1. f[a] \in Nat
    OBVIOUS
  <1>2. /\ Total([f EXCEPT ![a] = 0]) \in Nat
        /\ Total(f) = Total([f EXCEPT ![a] = 0]) + f[a]
    BY TotalSplit
  <1>3. QED
    BY <1>1, <1>2

\* A change of one account moves the sum by the difference.
LEMMA TotalMoves ==
    ASSUME NEW S, IsFiniteSet(S), NEW f \in [S -> Nat], NEW h \in [S -> Nat],
           NEW a \in S, \A x \in S : x # a => h[x] = f[x]
    PROVE  Total(h) = Total(f) - f[a] + h[a]
  <1> DEFINE rest == [f EXCEPT ![a] = 0]
  <1>1. rest = [h EXCEPT ![a] = 0] /\ f[a] \in Nat /\ h[a] \in Nat
    OBVIOUS
  <1>2. Total(f) = Total(rest) + f[a] /\ Total(rest) \in Nat
    BY TotalSplit
  <1>3. Total(h) = Total([h EXCEPT ![a] = 0]) + h[a]
    BY TotalSplit
  <1>4. Total(h) = Total(rest) + h[a]
    BY <1>1, <1>3
  <1> HIDE DEF rest
  <1>5. QED
    BY <1>1, <1>2, <1>4

\* A payment of n into an account.
LEMMA TotalCredit ==
    ASSUME NEW S, IsFiniteSet(S), NEW f \in [S -> Nat], NEW h \in [S -> Nat],
           NEW a \in S, NEW n \in Nat,
           h[a] = f[a] + n, \A x \in S : x # a => h[x] = f[x]
    PROVE  Total(h) = Total(f) + n
  <1>1. f[a] \in Nat
    OBVIOUS
  <1>2. Total(h) = Total(f) - f[a] + h[a]
    BY TotalMoves
  <1>3. Total(f) \in Nat
    BY TotalType
  <1>4. QED
    BY <1>1, <1>2, <1>3

\* A payment of n out of an account that held it.
LEMMA TotalDebit ==
    ASSUME NEW S, IsFiniteSet(S), NEW f \in [S -> Nat], NEW h \in [S -> Nat],
           NEW a \in S, NEW n \in Nat, n <= f[a],
           h[a] = f[a] - n, \A x \in S : x # a => h[x] = f[x]
    PROVE  Total(h) = Total(f) - n
  <1>1. f[a] \in Nat
    OBVIOUS
  <1>2. Total(h) = Total(f) - f[a] + h[a]
    BY TotalMoves
  <1>3. Total(f) \in Nat
    BY TotalType
  <1>4. QED
    BY <1>1, <1>2, <1>3

(***************************************************************************)
(* Sums of integers                                                        *)
(***************************************************************************)
\* What is owned and what is owed are natural balances; a sum is their difference.
LEMMA NetType ==
    ASSUME NEW S, IsFiniteSet(S), NEW f \in [S -> Int]
    PROVE  /\ Owned(f) \in [S -> Nat] /\ Owned([x \in S |-> -f[x]]) \in [S -> Nat]
           /\ NetTotal(f) = Total(Owned(f)) - Total(Owned([x \in S |-> -f[x]]))
           /\ NetTotal(f) \in Int
  <1> DEFINE minus == [x \in S |-> -f[x]]
  <1>1. DOMAIN f = S /\ DOMAIN minus = S /\ \A x \in S : f[x] \in Int /\ minus[x] \in Int
    OBVIOUS
  <1>2. Owned(f) \in [S -> Nat]
    <2>1. Owned(f) = [x \in S |-> IF f[x] > 0 THEN f[x] ELSE 0]
      BY <1>1 DEF Owned
    <2>2. QED
      BY <1>1, <2>1
  <1>3. Owned(minus) \in [S -> Nat]
    <2>1. Owned(minus) = [x \in S |-> IF minus[x] > 0 THEN minus[x] ELSE 0]
      BY <1>1 DEF Owned
    <2> HIDE DEF minus
    <2>2. QED
      BY <1>1, <2>1
  <1>4. Total(Owned(f)) \in Nat /\ Total(Owned(minus)) \in Nat
    BY <1>2, <1>3, TotalType
  <1>5. NetTotal(f) = Total(Owned(f)) - Total(Owned(minus))
    BY <1>1 DEF NetTotal
  <1>6. QED
    BY <1>2, <1>3, <1>4, <1>5

\* Adding item by item adds the sums.
LEMMA NetPlus ==
    ASSUME NEW S, IsFiniteSet(S), NEW f \in [S -> Int], NEW g \in [S -> Int],
           NEW h \in [S -> Int], \A x \in S : h[x] = f[x] + g[x]
    PROVE  NetTotal(h) = NetTotal(f) + NetTotal(g)
  <1> DEFINE Owed(b) == Owned([x \in S |-> -b[x]])
             fg  == [x \in S |-> Owned(f)[x] + Owned(g)[x]]
             fgm == [x \in S |-> Owed(f)[x] + Owed(g)[x]]
             all == [x \in S |-> Owned(h)[x] + fgm[x]]
  <1>1. /\ Owned(f) \in [S -> Nat] /\ Owned(g) \in [S -> Nat] /\ Owned(h) \in [S -> Nat]
        /\ Owed(f) \in [S -> Nat] /\ Owed(g) \in [S -> Nat] /\ Owed(h) \in [S -> Nat]
        /\ NetTotal(f) = Total(Owned(f)) - Total(Owed(f))
        /\ NetTotal(g) = Total(Owned(g)) - Total(Owed(g))
        /\ NetTotal(h) = Total(Owned(h)) - Total(Owed(h))
    BY NetType
  <1>2. ASSUME NEW b \in [S -> Int], NEW x \in S
        PROVE  /\ Owned(b)[x] = IF b[x] > 0 THEN b[x] ELSE 0
               /\ Owed(b)[x] = IF b[x] < 0 THEN -b[x] ELSE 0
    <2>1. b[x] \in Int /\ DOMAIN b = S
      OBVIOUS
    <2>2. QED
      BY <2>1 DEF Owned
  <1> HIDE DEF Owed
  <1>3. fg \in [S -> Nat] /\ fgm \in [S -> Nat]
    <2>1. ASSUME NEW x \in S
          PROVE  Owned(f)[x] + Owned(g)[x] \in Nat /\ Owed(f)[x] + Owed(g)[x] \in Nat
      BY <1>1
    <2>2. QED
      BY <2>1
  <1>4. Total(fg) = Total(Owned(f)) + Total(Owned(g))
    BY <1>1, <1>3, TotalPlus
  <1>5. Total(fgm) = Total(Owed(f)) + Total(Owed(g))
    BY <1>1, <1>3, TotalPlus
  <1>6. ASSUME NEW x \in S
        PROVE  all[x] \in Nat /\ all[x] = Owned(h)[x] + fgm[x] /\ all[x] = Owed(h)[x] + fg[x]
    <2>1. f[x] \in Int /\ g[x] \in Int /\ h[x] = f[x] + g[x]
      OBVIOUS
    <2>2. fg[x] = Owned(f)[x] + Owned(g)[x] /\ fgm[x] = Owed(f)[x] + Owed(g)[x]
          /\ all[x] = Owned(h)[x] + fgm[x]
      OBVIOUS
    <2>3. /\ Owned(f)[x] = IF f[x] > 0 THEN f[x] ELSE 0
          /\ Owned(g)[x] = IF g[x] > 0 THEN g[x] ELSE 0
          /\ Owned(h)[x] = IF h[x] > 0 THEN h[x] ELSE 0
          /\ Owed(f)[x] = IF f[x] < 0 THEN -f[x] ELSE 0
          /\ Owed(g)[x] = IF g[x] < 0 THEN -g[x] ELSE 0
          /\ Owed(h)[x] = IF h[x] < 0 THEN -h[x] ELSE 0
      BY <1>2
    <2> HIDE DEF fg, fgm, all
    <2>4. \A i, j \in Int :
            /\ (IF i + j > 0 THEN i + j ELSE 0) + ((IF i < 0 THEN -i ELSE 0) + (IF j < 0 THEN -j ELSE 0))
               = (IF i + j < 0 THEN -(i + j) ELSE 0) + ((IF i > 0 THEN i ELSE 0) + (IF j > 0 THEN j ELSE 0))
      OBVIOUS
    <2>5. all[x] = Owed(h)[x] + fg[x]
      BY <2>1, <2>2, <2>3, <2>4
    <2>6. Owned(h)[x] \in Nat /\ fgm[x] \in Nat
      BY <1>1, <1>3
    <2>7. QED
      BY <2>2, <2>5, <2>6
  <1>7. all \in [S -> Nat]
    BY <1>6
  <1> HIDE DEF fg, fgm, all
  <1>8. Total(all) = Total(Owned(h)) + Total(fgm)
    BY <1>1, <1>3, <1>6, <1>7, TotalPlus
  <1>9. Total(all) = Total(Owed(h)) + Total(fg)
    BY <1>1, <1>3, <1>6, <1>7, TotalPlus
  <1>10. /\ Total(Owned(f)) \in Nat /\ Total(Owned(g)) \in Nat /\ Total(Owned(h)) \in Nat
         /\ Total(Owed(f)) \in Nat /\ Total(Owed(g)) \in Nat /\ Total(Owed(h)) \in Nat
    BY <1>1, TotalType
  <1>11. QED
    BY <1>1, <1>4, <1>5, <1>8, <1>9, <1>10

\* A sum of nothing but one item.
LEMMA NetSingle ==
    ASSUME NEW S, IsFiniteSet(S), NEW a \in S, NEW n \in Int, NEW f \in [S -> Int],
           \A x \in S : f[x] = IF x = a THEN n ELSE 0
    PROVE  NetTotal(f) = n
  <1> DEFINE owed == Owned([x \in S |-> -f[x]])
  <1>1. /\ Owned(f) \in [S -> Nat] /\ owed \in [S -> Nat]
        /\ NetTotal(f) = Total(Owned(f)) - Total(owed)
    BY NetType
  <1>2. ASSUME NEW x \in S
        PROVE  /\ Owned(f)[x] = IF x = a THEN IF n > 0 THEN n ELSE 0 ELSE 0
               /\ owed[x] = IF x = a THEN IF n > 0 THEN 0 ELSE -n ELSE 0
    BY DEF Owned
  <1> HIDE DEF owed
  <1>3. CASE n > 0
    <2>1. n \in Nat /\ 0 \in Nat
      BY <1>3
    <2>2. \A x \in S : Owned(f)[x] = IF x = a THEN n ELSE 0
      BY <1>2, <1>3
    <2>3. \A x \in S : owed[x] = IF x = a THEN 0 ELSE 0
      BY <1>2, <1>3
    <2>4. Total(Owned(f)) = n
      BY <1>1, <2>1, <2>2, TotalSingle
    <2>5. Total(owed) = 0
      BY <1>1, <2>1, <2>3, TotalSingle
    <2>6. QED
      BY <1>1, <2>1, <2>4, <2>5
  <1>4. CASE ~(n > 0)
    <2>1. -n \in Nat /\ 0 \in Nat
      BY <1>4
    <2>2. Total(Owned(f)) = 0
      BY <1>1, <1>2, <1>4, <2>1, TotalSingle
    <2>3. Total(owed) = -n
      BY <1>1, <1>2, <1>4, <2>1, TotalSingle
    <2>4. QED
      BY <1>1, <2>1, <2>2, <2>3
  <1>5. QED
    BY <1>3, <1>4

\* Items of nothing can be left out.
LEMMA NetWithin ==
    ASSUME NEW T, IsFiniteSet(T), NEW S \in SUBSET T,
           NEW f \in [S -> Int], NEW g \in [T -> Int],
           \A x \in T : g[x] = IF x \in S THEN f[x] ELSE 0
    PROVE  NetTotal(f) = NetTotal(g)
  <1>1. IsFiniteSet(S)
    BY FS_Subset
  <1> DEFINE fm == [x \in S |-> -f[x]]
             gm == [x \in T |-> -g[x]]
  <1>2. /\ Owned(f) \in [S -> Nat] /\ Owned(fm) \in [S -> Nat]
        /\ Owned(g) \in [T -> Nat] /\ Owned(gm) \in [T -> Nat]
        /\ NetTotal(f) = Total(Owned(f)) - Total(Owned(fm))
        /\ NetTotal(g) = Total(Owned(g)) - Total(Owned(gm))
    <2>1. /\ Owned(f) \in [S -> Nat] /\ Owned(fm) \in [S -> Nat]
          /\ NetTotal(f) = Total(Owned(f)) - Total(Owned(fm))
      BY <1>1, NetType
    <2>2. /\ Owned(g) \in [T -> Nat] /\ Owned(gm) \in [T -> Nat]
          /\ NetTotal(g) = Total(Owned(g)) - Total(Owned(gm))
      BY NetType
    <2>3. QED
      BY <2>1, <2>2
  <1>3. ASSUME NEW b \in [S -> Nat], NEW d \in [T -> Nat],
               \A x \in T : d[x] = IF x \in S THEN b[x] ELSE 0
        PROVE  Total(b) = Total(d)
    <2>1. /\ Units(b) = {p \in S \X Nat : p[2] >= 1 /\ p[2] <= b[p[1]]}
          /\ Units(d) = {p \in T \X Nat : p[2] >= 1 /\ p[2] <= d[p[1]]}
      BY UnitsOf
    <2>2. ASSUME NEW p \in Units(b) PROVE p \in Units(d)
      BY <1>3, <2>1
    <2>3. ASSUME NEW p \in Units(d) PROVE p \in Units(b)
      <3>1. p \in T \X Nat /\ p[1] \in T /\ p[2] \in Nat /\ p[2] >= 1 /\ p[2] <= d[p[1]]
        BY <2>1
      <3>2. p[1] \in S
        BY <1>3, <3>1
      <3>3. QED
        BY <1>3, <2>1, <3>1, <3>2
    <2>4. Units(b) = Units(d)
      BY <2>2, <2>3
    <2>5. QED
      BY <2>4 DEF Total
  <1>4. \A x \in T : Owned(g)[x] = IF x \in S THEN Owned(f)[x] ELSE 0
    BY DEF Owned
  <1>5. \A x \in T : Owned(gm)[x] = IF x \in S THEN Owned(fm)[x] ELSE 0
    BY DEF Owned
  <1> HIDE DEF fm, gm
  <1>6. Total(Owned(f)) = Total(Owned(g))
    BY <1>2, <1>3, <1>4
  <1>7. Total(Owned(fm)) = Total(Owned(gm))
    BY <1>2, <1>3, <1>5
  <1>8. QED
    BY <1>2, <1>6, <1>7

\* A sum of no item.
LEMMA NetNone ==
    ASSUME NEW f \in [{} -> Int]
    PROVE  NetTotal(f) = 0
  <1>1. Units(Owned(f)) = {} /\ Units(Owned([x \in DOMAIN f |-> -f[x]])) = {}
    BY DEF Units, Owned
  <1>2. Total(Owned(f)) = 0 /\ Total(Owned([x \in DOMAIN f |-> -f[x]])) = 0
    BY <1>1, FS_EmptySet DEF Total
  <1>3. QED
    BY <1>2 DEF NetTotal

\* One more item adds its amount.
LEMMA NetAdd ==
    ASSUME NEW S, IsFiniteSet(S), NEW a, a \notin S,
           NEW f \in [S -> Int], NEW h \in [S \cup {a} -> Int],
           \A x \in S : h[x] = f[x]
    PROVE  NetTotal(h) = NetTotal(f) + h[a]
  <1> DEFINE T == S \cup {a}
             wide == [x \in T |-> IF x \in S THEN f[x] ELSE 0]
             one == [x \in T |-> IF x = a THEN h[a] ELSE 0]
  <1>1. IsFiniteSet(T) /\ S \in SUBSET T /\ a \in T
    BY FS_AddElement
  <1>2. h[a] \in Int /\ wide \in [T -> Int] /\ one \in [T -> Int]
    OBVIOUS
  <1>3. \A x \in T : h[x] = wide[x] + one[x]
    OBVIOUS
  <1>4. \A x \in T : wide[x] = IF x \in S THEN f[x] ELSE 0
    OBVIOUS
  <1>5. \A x \in T : one[x] = IF x = a THEN h[a] ELSE 0
    OBVIOUS
  <1>6. h \in [T -> Int] /\ NetTotal(wide) \in Int
    BY <1>1, <1>2, NetType
  <1> HIDE DEF T, wide, one
  <1>7. NetTotal(f) = NetTotal(wide)
    BY <1>1, <1>2, <1>4, NetWithin
  <1>8. NetTotal(one) = h[a]
    BY <1>1, <1>2, <1>5, NetSingle
  <1>9. NetTotal(h) = NetTotal(wide) + NetTotal(one)
    BY <1>1, <1>2, <1>3, <1>6, NetPlus
  <1>10. QED
    BY <1>7, <1>8, <1>9
=============================================================================
