-------------------------------- MODULE LpProofs --------------------------------
(***************************************************************************)
(* For any accounts, any scales and any price at every step: the vault's   *)
(* shares add up, each stays backed by a unit of liquidity, and no         *)
(* transaction shrinks what is behind the shares of those who did not act. *)
(* Beside the pool and its hook the vault does no more than that, and what *)
(* anyone is told, a fee, a reference, a preview, is what then happens.    *)
(*                                                                         *)
(* The vault's arithmetic is two facts: a share rounded up covers its      *)
(* part, a part rounded down does not exceed it (Rounding); cross-         *)
(* multiplied they say that the ratio does not fall (Joining, Leaving).    *)
(* The rest is counting: a withdrawal is of shares that exist, and never   *)
(* of the locked ones, because the balances add up (Singles is their       *)
(* disjoint union).                                                        *)
(*                                                                         *)
(* The previews need more of the arithmetic: amounts grow with liquidity   *)
(* (DepositGrows), what the amounts buy costs no more than they are        *)
(* (PositionBought), and a bisection is a loop that ends (LoopExists) at   *)
(* the largest count that fits (SearchFinds).  The reference and the fee   *)
(* follow from an invariant of the hook, the token and the oracle          *)
(* (HookInv).                                                              *)
(***************************************************************************)
EXTENDS Lp, FiniteSetTheorems, WellFoundedInduction, TLAPS

Holders == Accounts \cup {Dead}
Ones(f) == UNION {{a} \X (1 .. f[a]) : a \in Holders}

-----------------------------------------------------------------------------
(* Arithmetic                                                              *)

\* Rounding up covers, rounding down does not exceed.
LEMMA Rounding ==
    ASSUME NEW a \in Nat, NEW n \in Nat \ {0}
    PROVE  /\ CeilDiv(a, n) \in Nat /\ CeilDiv(a, n) * n >= a
           /\ (a \div n) \in Nat /\ (a \div n) * n <= a
  <1>1. (a \div n) \in Nat /\ (a \div n) * n <= a
    OBVIOUS
  <1>2. CeilDiv(a, n) \in Nat /\ CeilDiv(a, n) * n >= a
    BY DEF CeilDiv
  <1>3. QED
    BY <1>1, <1>2

LEMMA Product == ASSUME NEW a \in Nat, NEW b \in Nat PROVE a * b \in Nat
  OBVIOUS

\* The quotient of a product by a larger factor.
LEMMA PartFits ==
    ASSUME NEW a \in Nat, NEW n \in Nat \ {0}, NEW s \in Nat, s <= n
    PROVE  (a * s) \div n <= a
  <1>1. a * s <= a * n
    OBVIOUS
  <1> DEFINE q == (a * s) \div n
  <1>2. q \in Nat /\ q * n <= a * s
    BY Rounding, Product
  <1>3. q * n <= a * n
    BY <1>1, <1>2
  <1> HIDE DEF q
  <1>4. q <= a
    BY <1>2, <1>3
  <1>5. QED
    BY <1>4 DEF q

\* One who joins and pays at least the part does not shrink the ratio.
LEMMA Joining ==
    ASSUME NEW a \in Nat, NEW c \in Nat, NEW n \in Nat, NEW s \in Nat, c * n >= a * s
    PROVE  (a + c) * n >= a * (n + s)
  <1>1. (a + c) * n = a * n + c * n /\ a * (n + s) = a * n + a * s
    OBVIOUS
  <1>2. QED
    BY <1>1

\* One who leaves and takes at most the part does not either.
LEMMA Leaving ==
    ASSUME NEW a \in Nat, NEW c \in Nat, NEW n \in Nat, NEW s \in Nat, c * n <= a * s
    PROVE  (a - c) * n >= a * (n - s)
  <1>1. (a - c) * n = a * n - c * n /\ a * (n - s) = a * n - a * s
    OBVIOUS
  <1>2. QED
    BY <1>1

\* A ratio of at least one stays one.
LEMMA AtLeastOne ==
    ASSUME NEW l \in Nat, NEW n \in Nat \ {0}, NEW l2 \in Nat, NEW n2 \in Nat,
           l >= n, l2 * n >= l * n2
    PROVE  l2 >= n2
  <1>1. l * n2 >= n * n2
    OBVIOUS
  <1>2. l2 * n >= n2 * n
    BY <1>1
  <1>3. QED
    BY <1>2

-----------------------------------------------------------------------------
(* Counting shares                                                         *)

\* s more shares of one holder are s more shares.
LEMMA AddShares ==
    ASSUME NEW f \in [Holders -> Nat], NEW a \in Holders, NEW s \in Nat, IsFiniteSet(Ones(f))
    PROVE  /\ IsFiniteSet(Ones([f EXCEPT ![a] = @ + s]))
           /\ Cardinality(Ones([f EXCEPT ![a] = @ + s])) = Cardinality(Ones(f)) + s
  <1> DEFINE g == [f EXCEPT ![a] = @ + s]
             range == f[a] + 1 .. f[a] + s
             new == {a} \X range
  <1>1. IsFiniteSet(range) /\ Cardinality(range) = s
    <2> DEFINE n == f[a]
    <2>1. n \in Nat
      OBVIOUS
    <2> HIDE DEF n
    <2>2. n + 1 \in Int /\ n + s \in Int
      BY <2>1
    <2>3. /\ IsFiniteSet(n + 1 .. n + s)
          /\ Cardinality(n + 1 .. n + s) = IF n + 1 > n + s THEN 0 ELSE (n + s) - (n + 1) + 1
      BY <2>2, FS_Interval, Zenon
    <2>4. (IF n + 1 > n + s THEN 0 ELSE (n + s) - (n + 1) + 1) = s
      BY <2>1
    <2>5. range = n + 1 .. n + s
      BY DEF n
    <2>6. QED
      BY <2>3, <2>4, <2>5, Zenon
  <1>2. IsFiniteSet(new) /\ Cardinality(new) = s
    <2>1. IsFiniteSet({a}) /\ Cardinality({a}) = 1
      BY FS_Singleton
    <2> HIDE DEF range
    <2>2. IsFiniteSet(new) /\ Cardinality(new) = Cardinality({a}) * Cardinality(range)
      BY <1>1, <2>1, FS_Product
    <2>3. QED
      BY <1>1, <2>1, <2>2
  <1>3. Ones(g) = Ones(f) \cup new
    <2>1. ASSUME NEW b \in Holders PROVE 1 .. g[b] = 1 .. f[b] \cup (IF b = a THEN range ELSE {})
      OBVIOUS
    <2>2. ASSUME NEW b, NEW k
          PROVE  <<b, k>> \in Ones(g) <=> <<b, k>> \in Ones(f) \cup new
      <3>1. <<b, k>> \in Ones(g) <=> b \in Holders /\ k \in 1 .. g[b]
        BY DEF Ones
      <3>2. <<b, k>> \in Ones(f) <=> b \in Holders /\ k \in 1 .. f[b]
        BY DEF Ones
      <3>3. <<b, k>> \in new <=> b = a /\ k \in range
        OBVIOUS
      <3> HIDE DEF g, range, new
      <3>4. QED
        BY <2>1, <3>1, <3>2, <3>3
    <2>3. (\A p \in Ones(g) : p = <<p[1], p[2]>>) /\ (\A p \in Ones(f) : p = <<p[1], p[2]>>)
      BY DEF Ones
    <2>4. \A p \in new : p = <<p[1], p[2]>>
      OBVIOUS
    <2> HIDE DEF g, new
    <2>5. ASSUME NEW p PROVE p \in Ones(g) <=> p \in Ones(f) \cup new
      <3>1. <<p[1], p[2]>> \in Ones(g) <=> <<p[1], p[2]>> \in Ones(f) \cup new
        BY <2>2
      <3>2. QED
        BY <2>3, <2>4, <3>1
    <2>6. QED
      BY <2>5
  <1>4. Ones(f) \cap new = {}
    BY DEF Ones
  <1> HIDE DEF g, new
  <1>5. IsFiniteSet(Ones(f) \cup new)
        /\ Cardinality(Ones(f) \cup new) = Cardinality(Ones(f)) + Cardinality(new) - Cardinality({})
    BY <1>2, <1>4, FS_Union
  <1>6. Cardinality(Ones(f)) \in Nat /\ Cardinality({}) = 0
    BY FS_CardinalityType, FS_EmptySet
  <1>7. IsFiniteSet(Ones(g)) /\ Cardinality(Ones(g)) = Cardinality(Ones(f)) + s
    BY <1>2, <1>3, <1>5, <1>6
  <1>8. QED
    BY <1>7 DEF g

\* s fewer shares of one holder are s fewer shares.
LEMMA RemoveShares ==
    ASSUME NEW f \in [Holders -> Nat], NEW a \in Holders, NEW s \in Nat, s <= f[a],
           IsFiniteSet(Ones(f))
    PROVE  /\ IsFiniteSet(Ones([f EXCEPT ![a] = @ - s]))
           /\ Cardinality(Ones([f EXCEPT ![a] = @ - s])) = Cardinality(Ones(f)) - s
  <1> DEFINE g == [f EXCEPT ![a] = @ - s]
  <1>1. g \in [Holders -> Nat] /\ f = [g EXCEPT ![a] = @ + s]
    <2>1. g \in [Holders -> Nat] /\ g[a] = f[a] - s /\ \A b \in Holders : b # a => g[b] = f[b]
      OBVIOUS
    <2> HIDE DEF g
    <2> DEFINE back == [g EXCEPT ![a] = @ + s]
    <2>2. back \in [Holders -> Nat] /\ \A b \in Holders : back[b] = f[b]
      BY <2>1
    <2> HIDE DEF back
    <2>3. f = back
      BY <2>2
    <2>4. QED
      BY <2>1, <2>3 DEF back
  <1>2. Ones(g) \subseteq Ones(f)
    <2>1. \A b \in Holders : 1 .. g[b] \subseteq 1 .. f[b]
      OBVIOUS
    <2> HIDE DEF g
    <2>2. QED
      BY <2>1 DEF Ones
  <1>3. IsFiniteSet(Ones(g))
    BY <1>2, FS_Subset
  <1> HIDE DEF g
  <1>4. Cardinality(Ones(f)) = Cardinality(Ones(g)) + s
    BY <1>1, <1>3, AddShares
  <1>5. Cardinality(Ones(g)) \in Nat /\ Cardinality(Ones(f)) \in Nat
    BY <1>3, FS_CardinalityType
  <1>6. IsFiniteSet(Ones(g)) /\ Cardinality(Ones(g)) = Cardinality(Ones(f)) - s
    BY <1>3, <1>4, <1>5
  <1>7. QED
    BY <1>6 DEF g

\* What two holders have exists.
LEMMA TwoHolders ==
    ASSUME NEW f \in [Holders -> Nat], NEW a \in Holders, NEW b \in Holders, a # b,
           IsFiniteSet(Ones(f))
    PROVE  f[a] + f[b] <= Cardinality(Ones(f))
  <1> DEFINE g == [f EXCEPT ![a] = @ - f[a]]
             h == [g EXCEPT ![b] = @ - g[b]]
  <1>1. g \in [Holders -> Nat] /\ g[b] = f[b]
    OBVIOUS
  <1>2. IsFiniteSet(Ones(g)) /\ Cardinality(Ones(g)) = Cardinality(Ones(f)) - f[a]
    <2>1. f[a] \in Nat /\ f[a] <= f[a]
      OBVIOUS
    <2>2. QED
      BY <2>1, RemoveShares
  <1>3. IsFiniteSet(Ones(h)) /\ Cardinality(Ones(h)) = Cardinality(Ones(g)) - g[b]
    <2> HIDE DEF g
    <2>1. g[b] \in Nat /\ g[b] <= g[b]
      BY <1>1
    <2>2. QED
      BY <1>1, <1>2, <2>1, RemoveShares
  <1> HIDE DEF g, h
  <1>4. Cardinality(Ones(h)) \in Nat /\ Cardinality(Ones(g)) \in Nat /\ Cardinality(Ones(f)) \in Nat
    BY <1>2, <1>3, FS_CardinalityType
  <1>5. f[a] \in Nat /\ f[b] \in Nat
    OBVIOUS
  <1>6. QED
    BY <1>1, <1>2, <1>3, <1>4, <1>5

-----------------------------------------------------------------------------
(* The amounts are numbers                                                 *)

\* What a compounding adds and costs.
LEMMA CompoundTypes ==
    ASSUME VaultTypes, NEW x \in Nat \ {0}
    PROVE  /\ Compounded(x) \in Nat
           /\ \A i \in Tokens : CompoundCost(x)[i] \in Nat
  <1>1. Idle \in Pair
    BY DEF VaultTypes, Idle, Plus, Pair, Tokens
  <1> DEFINE held == HeldBack(Idle)
  <1>2. held[1] \in Nat /\ held[2] \in Nat
    BY <1>1 DEF HeldBack, Pair, Tokens
  <1>3. /\ Q96 \in Nat \ {0} /\ Lowest \in Nat \ {0} /\ Highest \in Nat \ {0} /\ Lowest < Highest
    BY ScaleAssumption DEF ScaleAssumption
  <1>4. ASSUME NEW a \in Nat \ {0}, NEW b \in Nat \ {0}, a < b, NEW amount \in Nat
        PROVE  FromAmount0(a, b, amount) \in Nat /\ FromAmount1(a, b, amount) \in Nat
    <2>1. (a * b) \div Q96 \in Nat /\ b - a \in Nat \ {0}
      BY <1>3, <1>4, Rounding, Product
    <2>2. amount * ((a * b) \div Q96) \in Nat /\ amount * Q96 \in Nat
      BY <1>3, <2>1, Product
    <2>3. QED
      BY <2>1, <2>2, Rounding DEF FromAmount0, FromAmount1
  <1> HIDE DEF held
  <1>5. liquidityForAmounts(x, held) \in Nat
    <2>1. x <= Lowest => FromAmount0(Lowest, Highest, held[1]) \in Nat
      BY <1>2, <1>3, <1>4
    <2>2. x > Lowest /\ x < Highest => FromAmount0(x, Highest, held[1]) \in Nat
      BY <1>2, <1>3, <1>4
    <2>3. x > Lowest /\ x < Highest => FromAmount1(Lowest, x, held[2]) \in Nat
      BY <1>2, <1>3, <1>4
    <2>4. FromAmount1(Lowest, Highest, held[2]) \in Nat
      BY <1>2, <1>3, <1>4
    <2>5. QED
      BY <1>3, <2>1, <2>2, <2>3, <2>4 DEF liquidityForAmounts, Smallest
  <1>6. ASSUME NEW a \in Nat \ {0}, NEW b \in Nat \ {0}, a < b, NEW l \in Nat
        PROVE  Amount0(a, b, l, TRUE) \in Nat /\ Amount1(a, b, l, TRUE) \in Nat
    <2>1. b - a \in Nat /\ l * Q96 \in Nat
      BY <1>3, <1>6, Product
    <2>2. l * Q96 * (b - a) \in Nat /\ l * (b - a) \in Nat
      BY <2>1, Product
    <2>3. CeilDiv(l * Q96 * (b - a), b) \in Nat /\ CeilDiv(l * (b - a), Q96) \in Nat
      BY <1>3, <2>2, Rounding
    <2>4. CeilDiv(CeilDiv(l * Q96 * (b - a), b), a) \in Nat
      BY <2>3, Rounding
    <2>5. QED
      BY <2>3, <2>4 DEF Amount0, Amount1
  <1>7. ASSUME NEW l \in Nat, NEW i \in Tokens PROVE amountsForLiquidity(x, l, TRUE)[i] \in Nat
    <2>1. \A m \in Nat, n \in Nat : <<m, n>>[i] \in Nat
      BY DEF Tokens
    <2>2. CASE x < Lowest
      <3>1. amountsForLiquidity(x, l, TRUE) = <<Amount0(Lowest, Highest, l, TRUE), 0>>
        BY <2>2, Zenon DEF amountsForLiquidity
      <3>2. Amount0(Lowest, Highest, l, TRUE) \in Nat
        BY <1>3, <1>6
      <3>3. <<Amount0(Lowest, Highest, l, TRUE), 0>>[i] \in Nat
        BY <2>1, <3>2
      <3>4. QED
        BY <3>1, <3>3, Zenon
    <2>3. CASE x >= Lowest /\ x < Highest
      <3>1. ~(x < Lowest)
        BY <1>3, <2>3
      <3>2. amountsForLiquidity(x, l, TRUE) =
              <<Amount0(x, Highest, l, TRUE), Amount1(Lowest, x, l, TRUE)>>
        BY <2>3, <3>1, Zenon DEF amountsForLiquidity
      <3>3. Amount0(x, Highest, l, TRUE) \in Nat
        BY <1>3, <1>6, <2>3
      <3>4. Amount1(Lowest, x, l, TRUE) \in Nat
        <4>1. CeilDiv(l * (x - Lowest), Q96) \in Nat
          BY <1>3, <2>3, Rounding, Product
        <4>2. QED
          BY <4>1 DEF Amount1
      <3>5. <<Amount0(x, Highest, l, TRUE), Amount1(Lowest, x, l, TRUE)>>[i] \in Nat
        BY <2>1, <3>3, <3>4
      <3>6. QED
        BY <3>2, <3>5, Zenon
    <2>4. CASE x >= Highest
      <3>1. ~(x < Lowest) /\ ~(x < Highest)
        BY <1>3, <2>4
      <3>2. amountsForLiquidity(x, l, TRUE) = <<0, Amount1(Lowest, Highest, l, TRUE)>>
        BY <3>1, Zenon DEF amountsForLiquidity
      <3>3. Amount1(Lowest, Highest, l, TRUE) \in Nat
        BY <1>3, <1>6
      <3>4. <<0, Amount1(Lowest, Highest, l, TRUE)>>[i] \in Nat
        BY <2>1, <3>3
      <3>5. QED
        BY <3>2, <3>4, Zenon
    <2>5. x < Lowest \/ (x >= Lowest /\ x < Highest) \/ x >= Highest
      BY <1>3
    <2>6. QED
      BY <2>2, <2>3, <2>4, <2>5, Zenon
  <1>8. QED
    BY <1>5, <1>7 DEF Compounded, CompoundCost, held

-----------------------------------------------------------------------------
(* Every transaction keeps the invariant, and the value of the shares      *)

VaultInv == VaultTypes /\ Backed

\* Shares of one kind more, and of another kind fewer, in the balances.
LEMMA CountedTypes ==
    ASSUME VaultInv
    PROVE  /\ shares \in [Holders -> Nat] /\ IsFiniteSet(Ones(shares))
           /\ Cardinality(Ones(shares)) = vault.supply /\ vault.supply \in Nat
           /\ vault.liquidity \in Nat /\ vault.liquidity >= vault.supply
           /\ Idle \in Pair /\ vault.idle \in Pair /\ vault.fees \in Pair
  <1>1. /\ shares \in [Holders -> Nat] /\ vault.supply \in Nat /\ vault.liquidity \in Nat
        /\ vault.idle \in Pair /\ vault.fees \in Pair
    BY DEF VaultInv, VaultTypes, Holders
  <1>2. Idle \in Pair
    BY <1>1 DEF Idle, Plus, Pair, Tokens
  <1>3. Singles = Ones(shares)
    BY DEF Singles, Ones, Holders
  <1>4. QED
    BY <1>1, <1>2, <1>3 DEF VaultInv, Backed, SharesAddUp

\* A transaction that leaves the shares alone and takes no liquidity keeps the invariant.
LEMMA SameShares ==
    ASSUME VaultInv, VaultTypes', UNCHANGED shares, vault'.supply = vault.supply,
           vault'.liquidity >= vault.liquidity
    PROVE  VaultInv' /\ KeepsValue
  <1>1. vault.liquidity \in Nat /\ vault'.liquidity \in Nat /\ vault.supply \in Nat
    BY DEF VaultInv, VaultTypes
  <1>2. SharesAddUp'
    BY DEF VaultInv, Backed, SharesAddUp, Singles
  <1>3. Backed'
    BY <1>1, <1>2 DEF VaultInv, Backed
  <1>4. vault'.liquidity * vault.supply >= vault.liquidity * vault'.supply
    BY <1>1
  <1>5. KeepsValue
    BY <1>1, <1>4 DEF KeepsValue
  <1>6. QED
    BY <1>3, <1>5 DEF VaultInv

\* The first deposit locks its part.
LEMMA FirstDepositKeeps ==
    ASSUME VaultInv, NEW from \in Accounts, NEW to \in Accounts, NEW s \in Nat, NEW x, NEW mayAdd,
           FirstDeposit(from, to, s, x, mayAdd)
    PROVE  VaultInv' /\ KeepsValue
  <1> USE DEF FirstDeposit
  <1>1. MinShares \in Nat \ {0} /\ Dead \in Holders /\ to \in Holders /\ to # Dead /\ s > MinShares
    BY VaultAssumption DEF VaultAssumption, Holders
  <1> DEFINE locked == [shares EXCEPT ![Dead] = @ + MinShares]
             minted == [locked EXCEPT ![to] = @ + (s - MinShares)]
             amounts == [supply |-> s, liquidity |-> vault.liquidity + s, idle |-> vault.idle,
                         fees |-> Nothing]
  <1>2. locked \in [Holders -> Nat] /\ minted \in [Holders -> Nat]
    BY <1>1, CountedTypes
  <1>3. shares' = minted
    BY <1>1, CountedTypes DEF Minted
  <1>4. IsFiniteSet(Ones(locked)) /\ Cardinality(Ones(locked)) = MinShares
    <2>1. shares \in [Holders -> Nat] /\ IsFiniteSet(Ones(shares)) /\ Cardinality(Ones(shares)) = 0
      BY CountedTypes
    <2>2. MinShares \in Nat /\ Dead \in Holders
      BY <1>1
    <2>3. IsFiniteSet(Ones(locked))
          /\ Cardinality(Ones(locked)) = Cardinality(Ones(shares)) + MinShares
      BY <2>1, <2>2, AddShares, Zenon
    <2>4. QED
      BY <2>1, <2>2, <2>3
  <1>5. IsFiniteSet(Ones(minted)) /\ Cardinality(Ones(minted)) = s
    <2>1. s - MinShares \in Nat
      BY <1>1
    <2>2. Cardinality(Ones(minted)) = Cardinality(Ones(locked)) + (s - MinShares)
          /\ IsFiniteSet(Ones(minted))
      <3>1. locked \in [Holders -> Nat] /\ to \in Holders
        BY <1>1, <1>2
      <3> HIDE DEF locked
      <3>2. QED
        BY <1>4, <2>1, <3>1, AddShares, Zenon
    <2>3. QED
      BY <1>1, <1>4, <2>2
  <1>6. minted[Dead] >= MinShares
    BY <1>1, CountedTypes
  <1> HIDE DEF locked, minted
  <1>7. VaultTypes'
    <2>1. vault' = amounts
      BY DEF VaultInv, VaultTypes
    <2>2. Nothing \in Pair
      BY DEF Nothing, Pair
    <2>3. amounts \in [supply : Nat, liquidity : Nat, idle : Pair, fees : Pair]
      BY <2>2, CountedTypes
    <2>4. QED
      BY <1>2, <1>3, <2>1, <2>3 DEF VaultInv, VaultTypes, Holders
  <1>8. vault'.supply = s /\ vault'.liquidity = vault.liquidity + s
    BY DEF VaultInv, VaultTypes
  <1>9. Backed'
    <2>1. SharesAddUp'
      <3>1. Singles' = Ones(minted)
        BY <1>3 DEF Singles, Ones, Holders
      <3>2. QED
        BY <1>5, <1>8, <3>1 DEF SharesAddUp
    <2>2. vault.liquidity \in Nat /\ shares'[Dead] >= MinShares
      BY <1>3, <1>6, CountedTypes
    <2>3. QED
      BY <1>8, <2>1, <2>2 DEF Backed
  <1>10. KeepsValue
    BY DEF KeepsValue
  <1>11. QED
    BY <1>7, <1>9, <1>10 DEF VaultInv

\* A later deposit pays at least its part of everything.
LEMMA LaterDepositKeeps ==
    ASSUME VaultInv, NEW from \in Accounts, NEW to \in Accounts, NEW s \in Nat, NEW x, NEW mayAdd,
           LaterDeposit(from, to, s, x, mayAdd)
    PROVE  VaultInv' /\ KeepsValue
  <1> USE DEF LaterDeposit
  <1>1. vault.supply \in Nat \ {0} /\ vault.liquidity \in Nat
    BY CountedTypes
  <1>2. to \in Holders /\ shares' = [shares EXCEPT ![to] = @ + s]
    BY DEF Holders
  <1>3. shares' \in [Holders -> Nat] /\ shares'[Dead] = shares[Dead]
    BY <1>2, CountedTypes, VaultAssumption DEF VaultAssumption
  <1>4. IsFiniteSet(Ones(shares')) /\ Cardinality(Ones(shares')) = vault.supply + s
    <2>1. shares \in [Holders -> Nat] /\ IsFiniteSet(Ones(shares))
          /\ Cardinality(Ones(shares)) = vault.supply
      BY CountedTypes
    <2>2. s \in Nat /\ to \in Holders
      BY <1>2
    <2> DEFINE more == [shares EXCEPT ![to] = @ + s]
    <2>3. IsFiniteSet(Ones(more)) /\ Cardinality(Ones(more)) = Cardinality(Ones(shares)) + s
      BY <2>1, <2>2, AddShares, Zenon
    <2>4. QED
      BY <1>2, <2>1, <2>3
  <1>5. ASSUME NEW a \in Nat
        PROVE  Share(a, s) \in Nat /\ (a + Share(a, s)) * vault.supply >= a * (vault.supply + s)
    <2>1. a * s \in Nat
      BY Product
    <2>2. Share(a, s) \in Nat /\ Share(a, s) * vault.supply >= a * s
      BY <1>1, <2>1, Rounding DEF Share
    <2>3. QED
      BY <1>1, <2>2, Joining
  <1>6. Share(vault.liquidity, s) \in Nat /\ \A i \in Tokens : Idle[i] \in Nat /\ Share(Idle[i], s) \in Nat
    BY <1>1, <1>5, CountedTypes DEF Pair
  <1>7. /\ vault'.supply = vault.supply + s
        /\ vault'.liquidity = vault.liquidity + Share(vault.liquidity, s)
        /\ \A i \in Tokens : vault'.idle[i] + vault'.fees[i] = Idle[i] + Share(Idle[i], s)
    BY <1>6 DEF Nothing
  <1>8. vault' \in [supply : Nat, liquidity : Nat, idle : Pair, fees : Pair]
    BY <1>1, <1>6 DEF Nothing, Pair
  <1>9. VaultTypes'
    BY <1>3, <1>8 DEF VaultInv, VaultTypes, Holders
  <1>10. vault'.liquidity * vault.supply >= vault.liquidity * vault'.supply
    BY <1>1, <1>5, <1>7
  <1>11. ASSUME NEW i \in Tokens
         PROVE  (vault'.idle[i] + vault'.fees[i]) * vault.supply
                  >= (vault.idle[i] + vault.fees[i]) * vault'.supply
    <2>1. Idle[i] = vault.idle[i] + vault.fees[i]
      BY DEF Idle, Plus
    <2>2. QED
      BY <1>5, <1>6, <1>7, <2>1
  <1>12. KeepsValue
    BY <1>1, <1>7, <1>10, <1>11 DEF KeepsValue
  <1>13. Backed'
    <2>1. SharesAddUp'
      BY <1>4, <1>7 DEF SharesAddUp, Singles, Ones, Holders
    <2>2. vault'.liquidity \in Nat /\ vault'.supply \in Nat
      BY <1>8
    <2>3. vault'.liquidity >= vault'.supply
      BY <1>1, <1>10, <2>2, CountedTypes, AtLeastOne
    <2>4. QED
      BY <1>1, <1>3, <2>1, <2>3 DEF Backed, VaultInv
  <1>14. QED
    BY <1>9, <1>12, <1>13 DEF VaultInv

\* A withdrawal takes at most its part, of shares that exist and are not the locked ones.
LEMMA WithdrawKeeps ==
    ASSUME VaultInv, NEW from \in Accounts, NEW s \in Nat, Withdraw(from, s)
    PROVE  VaultInv' /\ KeepsValue
  <1> USE DEF Withdraw
  <1>1. /\ from \in Holders /\ Dead \in Holders /\ from # Dead /\ s \in Nat \ {0}
        /\ shares' = [shares EXCEPT ![from] = @ - s] /\ s <= shares[from]
        /\ MinShares \in Nat \ {0}
    BY VaultAssumption DEF Holders, VaultAssumption
  <1>2. /\ shares \in [Holders -> Nat] /\ IsFiniteSet(Ones(shares))
        /\ Cardinality(Ones(shares)) = vault.supply
        /\ vault.supply \in Nat /\ vault.liquidity \in Nat
    BY CountedTypes
  <1>3. shares[from] + shares[Dead] <= vault.supply
    <2>1. shares[from] + shares[Dead] <= Cardinality(Ones(shares))
      BY <1>1, <1>2, TwoHolders, Zenon
    <2>2. QED
      BY <1>2, <2>1
  <1>4. shares[from] \in Nat /\ shares[Dead] \in Nat /\ vault.supply \in Nat \ {0}
    BY <1>1, <1>2, <1>3
  <1>5. s + shares[Dead] <= vault.supply /\ vault.supply > 0 /\ shares[Dead] >= MinShares
    BY <1>1, <1>3, <1>4 DEF VaultInv, Backed
  <1>6. vault.supply - s \in Nat /\ vault.supply - s > 0
    BY <1>1, <1>4, <1>5
  <1>7. shares' \in [Holders -> Nat] /\ shares'[Dead] = shares[Dead]
    BY <1>1, <1>2, <1>4
  <1>8. IsFiniteSet(Ones(shares')) /\ Cardinality(Ones(shares')) = vault.supply - s
    <2> DEFINE fewer == [shares EXCEPT ![from] = @ - s]
    <2>1. IsFiniteSet(Ones(fewer)) /\ Cardinality(Ones(fewer)) = Cardinality(Ones(shares)) - s
      BY <1>1, <1>2, RemoveShares, Zenon
    <2>2. QED
      BY <1>1, <1>2, <2>1
  <1>9. ASSUME NEW a \in Nat
        PROVE  /\ Part(a, s) \in Nat /\ Part(a, s) <= a
               /\ (a - Part(a, s)) * vault.supply >= a * (vault.supply - s)
    <2>1. a * s \in Nat
      BY <1>1, Product
    <2>2. Part(a, s) \in Nat /\ Part(a, s) * vault.supply <= a * s
      BY <1>4, <2>1, Rounding DEF Part
    <2>3. s <= vault.supply
      BY <1>1, <1>4, <1>5
    <2>4. (a * s) \div vault.supply <= a
      BY <1>1, <1>4, <2>3, PartFits
    <2>5. QED
      BY <1>1, <1>4, <2>2, <2>4, Leaving DEF Part
  <1>10. Part(vault.liquidity, s) \in Nat /\ Part(vault.liquidity, s) <= vault.liquidity
         /\ \A i \in Tokens : /\ Idle[i] \in Nat /\ Part(Idle[i], s) \in Nat
                              /\ Part(Idle[i], s) <= Idle[i]
    BY <1>2, <1>9, CountedTypes DEF Pair
  <1>11. /\ vault'.supply = vault.supply - s
         /\ vault'.liquidity = vault.liquidity - Part(vault.liquidity, s)
         /\ \A i \in Tokens : vault'.idle[i] + vault'.fees[i] = Idle[i] - Part(Idle[i], s)
    BY <1>10 DEF Nothing
  <1>12. vault' \in [supply : Nat, liquidity : Nat, idle : Pair, fees : Pair]
    BY <1>2, <1>6, <1>10 DEF Nothing, Pair
  <1>13. VaultTypes'
    BY <1>7, <1>12 DEF VaultInv, VaultTypes, Holders
  <1>14. vault'.liquidity * vault.supply >= vault.liquidity * vault'.supply
    BY <1>2, <1>9, <1>11
  <1>15. ASSUME NEW i \in Tokens
         PROVE  (vault'.idle[i] + vault'.fees[i]) * vault.supply
                  >= (vault.idle[i] + vault.fees[i]) * vault'.supply
    <2>1. Idle[i] = vault.idle[i] + vault.fees[i]
      BY DEF Idle, Plus
    <2>2. QED
      BY <1>9, <1>10, <1>11, <2>1
  <1>16. KeepsValue
    BY <1>6, <1>11, <1>14, <1>15 DEF KeepsValue
  <1>17. Backed'
    <2>1. SharesAddUp'
      <3>1. Singles' = Ones(shares')
        BY DEF Singles, Ones, Holders
      <3>2. QED
        BY <1>8, <1>11, <3>1 DEF SharesAddUp
    <2>2. vault'.liquidity \in Nat /\ vault'.supply \in Nat
      BY <1>12
    <2>3. vault'.liquidity >= vault'.supply
      BY <1>4, <1>14, <2>2, CountedTypes, AtLeastOne
    <2>4. QED
      BY <1>5, <1>7, <2>1, <2>3 DEF Backed
  <1>18. QED
    BY <1>13, <1>16, <1>17 DEF VaultInv

\* A transfer moves shares; the locked ones are nobody's to move.
LEMMA TransferKeeps ==
    ASSUME VaultInv, NEW from \in Accounts, NEW to \in Accounts, NEW s \in Nat,
           Transfer(from, to, s)
    PROVE  VaultInv' /\ KeepsValue
  <1> USE DEF Transfer
  <1> DEFINE taken == [shares EXCEPT ![from] = @ - s]
             given == [taken EXCEPT ![to] = @ + s]
  <1>1. /\ from \in Holders /\ to \in Holders /\ from # Dead /\ to # Dead /\ from # to
        /\ s \in Nat /\ s <= shares[from] /\ vault' = vault /\ allow' = allow
    BY CountedTypes, VaultAssumption DEF Holders, VaultAssumption
  <1>2. /\ shares \in [Holders -> Nat] /\ IsFiniteSet(Ones(shares))
        /\ Cardinality(Ones(shares)) = vault.supply
        /\ vault.supply \in Nat /\ vault.liquidity \in Nat
    BY CountedTypes
  <1>3. taken \in [Holders -> Nat] /\ given \in [Holders -> Nat] /\ given[Dead] = shares[Dead]
    <2>1. taken \in [Holders -> Nat] /\ taken[Dead] = shares[Dead]
      BY <1>1, <1>2
    <2> HIDE DEF taken
    <2>2. QED
      BY <1>1, <2>1
  <1>4. shares' = given
    BY <1>1, <1>2
  <1>5. IsFiniteSet(Ones(taken)) /\ Cardinality(Ones(taken)) = Cardinality(Ones(shares)) - s
    BY <1>1, <1>2, RemoveShares, Zenon
  <1>6. IsFiniteSet(Ones(given)) /\ Cardinality(Ones(given)) = Cardinality(Ones(taken)) + s
    <2> HIDE DEF taken
    <2>1. QED
      BY <1>1, <1>3, <1>5, AddShares, Zenon
  <1> HIDE DEF taken, given
  <1>7. SharesAddUp'
    <2>1. Singles' = Ones(given)
      BY <1>4 DEF Singles, Ones, Holders
    <2>2. QED
      BY <1>1, <1>2, <1>5, <1>6, <2>1 DEF SharesAddUp
  <1>8. VaultTypes'
    BY <1>1, <1>3, <1>4 DEF VaultInv, VaultTypes, Holders
  <1>9. Backed'
    BY <1>1, <1>3, <1>4, <1>7 DEF VaultInv, Backed
  <1>10. KeepsValue
    BY <1>1, <1>2 DEF KeepsValue
  <1>11. QED
    BY <1>8, <1>9, <1>10 DEF VaultInv

\* Compounding adds liquidity and pays for it out of the idle tokens.
LEMMA CompoundKeeps ==
    ASSUME VaultInv, NEW x \in Nat \ {0}, NEW mayAdd, Compound(x, mayAdd)
    PROVE  VaultInv' /\ KeepsValue
  <1> USE DEF Compound
  <1> DEFINE idle == [i \in Tokens |->
                       Idle[i] - (IF Compounded(x) > 0 THEN CompoundCost(x)[i] ELSE 0)]
  <1>1. /\ Compounded(x) \in Nat /\ \A i \in Tokens : CompoundCost(x)[i] \in Nat
    BY CompoundTypes DEF VaultInv
  <1>2. \A i \in Tokens : Idle[i] \in Nat /\ CompoundCost(x)[i] <= Idle[i]
    BY CountedTypes DEF Fits, Pair
  <1>3. idle \in Pair
    BY <1>1, <1>2 DEF Pair
  <1> HIDE DEF idle
  <1>4. vault' = [vault EXCEPT !.liquidity = @ + Compounded(x), !.fees = Nothing, !.idle = idle]
    BY DEF idle
  <1>5. Nothing \in Pair
    BY DEF Nothing, Pair
  <1>6. vault \in [supply : Nat, liquidity : Nat, idle : Pair, fees : Pair]
    BY DEF VaultInv, VaultTypes
  <1>7. VaultTypes' /\ vault'.supply = vault.supply /\ vault'.liquidity >= vault.liquidity
    <2>1. vault' = [supply |-> vault.supply, liquidity |-> vault.liquidity + Compounded(x),
                    idle |-> idle, fees |-> Nothing]
      BY <1>4, <1>6
    <2>2. vault'.supply = vault.supply /\ vault'.liquidity >= vault.liquidity
      BY <1>1, <1>6, <2>1
    <2>3. vault' \in [supply : Nat, liquidity : Nat, idle : Pair, fees : Pair]
      BY <1>1, <1>3, <1>5, <1>6, <2>1
    <2>4. QED
      BY <2>2, <2>3 DEF VaultInv, VaultTypes
  <1>8. QED
    BY <1>7, SameShares

\* Fees and donations only add.
LEMMA GiftKeeps ==
    ASSUME VaultInv, NEW amount \in Pair, Earn(amount) \/ Donate(amount)
    PROVE  VaultInv' /\ KeepsValue
  <1>1. vault \in [supply : Nat, liquidity : Nat, idle : Pair, fees : Pair]
    BY DEF VaultInv, VaultTypes
  <1>2. \A p \in Pair : Plus(p, amount) \in Pair
    BY DEF Pair, Plus
  <1>3. VaultTypes' /\ vault'.supply = vault.supply /\ vault'.liquidity = vault.liquidity
        /\ UNCHANGED shares
    BY <1>1, <1>2 DEF Earn, Donate, VaultInv, VaultTypes
  <1>4. vault'.liquidity >= vault.liquidity
    BY <1>1, <1>3
  <1>5. QED
    BY <1>3, <1>4, SameShares

\* The allowlist changes nothing else.
LEMMA AllowKeeps ==
    ASSUME VaultInv, NEW b \in BOOLEAN,
           SetAllowlistEnabled(b) \/ (\E a \in Accounts : SetAllowed(a, b))
    PROVE  VaultInv' /\ KeepsValue
  <1>1. UNCHANGED <<vault, shares>> /\ allow' \in [enabled : BOOLEAN, accounts : SUBSET Accounts]
    BY DEF SetAllowlistEnabled, SetAllowed, VaultInv, VaultTypes
  <1>2. VaultTypes' /\ vault'.liquidity >= vault.liquidity
    BY <1>1 DEF VaultInv, VaultTypes
  <1>3. QED
    BY <1>1, <1>2, SameShares

\* Any step, at any price.
LEMMA StepKeeps ==
    ASSUME VaultInv, [\E x \in Nat \ {0}, mayAdd \in BOOLEAN : VaultStep(x, mayAdd)]_vaultVars
    PROVE  VaultInv' /\ [KeepsValue]_vaultVars
  <1>1. ASSUME NEW x \in Nat \ {0}, NEW mayAdd \in BOOLEAN, VaultStep(x, mayAdd)
        PROVE  VaultInv' /\ KeepsValue
    <2>1. CASE \E from \in Accounts, to \in Accounts, s \in Nat :
                 FirstDeposit(from, to, s, x, mayAdd) \/ LaterDeposit(from, to, s, x, mayAdd)
      BY <2>1, FirstDepositKeeps, LaterDepositKeeps, Zenon
    <2>2. CASE \E from \in Accounts, s \in Nat : Withdraw(from, s)
      BY <2>2, WithdrawKeeps, Zenon
    <2>3. CASE Compound(x, mayAdd)
      BY <2>3, CompoundKeeps, Zenon
    <2>4. CASE \E from \in Accounts, to \in Accounts, s \in Nat : Transfer(from, to, s)
      BY <2>4, TransferKeeps, Zenon
    <2>5. CASE \E b \in BOOLEAN : SetAllowlistEnabled(b) \/ (\E a \in Accounts : SetAllowed(a, b))
      BY <2>5, AllowKeeps, Zenon
    <2>6. CASE \E amount \in Pair : Earn(amount) \/ Donate(amount)
      BY <2>6, GiftKeeps, Zenon
    <2>7. QED
      BY <1>1, <2>1, <2>2, <2>3, <2>4, <2>5, <2>6, Zenon DEF VaultStep
  <1>2. CASE UNCHANGED vaultVars
    BY <1>2 DEF vaultVars, VaultInv, VaultTypes, Backed, SharesAddUp, Singles
  <1>3. QED
    BY <1>1, <1>2

\* The empty vault.
LEMMA InitKeeps == VaultInit => VaultInv
  <1> SUFFICES ASSUME VaultInit PROVE VaultInv
    OBVIOUS
  <1> USE DEF VaultInit
  <1>1. Nothing \in Pair
    BY DEF Nothing, Pair
  <1>2. VaultTypes
    BY <1>1 DEF VaultTypes
  <1>3. Singles = {}
    BY DEF Singles
  <1>4. SharesAddUp
    BY <1>3, FS_EmptySet DEF SharesAddUp
  <1>5. QED
    BY <1>2, <1>4 DEF VaultInv, Backed

\* The shares add up, each is backed by at least one unit of liquidity, and the locked shares
\* stay: the promises of VaultInvariants.t.sol, for any amounts and any number of accounts.
THEOREM SharesBacked == VaultSpec => []Backed
  <1>1. VaultInv => Backed
    BY DEF VaultInv
  <1>2. QED
    BY <1>1, InitKeeps, StepKeeps, PTL DEF VaultSpec

\* The types of the vault's state.
THEOREM VaultTypeCorrect == VaultSpec => []VaultTypes
  <1>1. VaultInv => VaultTypes
    BY DEF VaultInv
  <1>2. QED
    BY <1>1, InitKeeps, StepKeeps, PTL DEF VaultSpec

\* No transaction of anyone, at any pool price, shrinks the liquidity behind a share, and no
\* deposit or withdrawal the idle tokens behind it (RwaLiquidityVault.sol:27).
THEOREM ValueKept == VaultSpec => SharesKeepValue
  <1>1. QED
    BY InitKeeps, StepKeeps, PTL DEF VaultSpec, SharesKeepValue


-----------------------------------------------------------------------------
(* Loops and bisections                                                    *)

\* A set of numbers that is not empty has a least one.
LEMMA LeastOf ==
    ASSUME NEW s, s \subseteq Nat, s # {}
    PROVE  \E m \in s : \A n \in s : m <= n
  <1> DEFINE Less == OpToRel(<, Nat)
  <1>1. \A x, y \in Nat : x < y => <<x, y>> \in Less
    BY DEF OpToRel
  <1>2. IsWellFoundedOn(Less, Nat)
    BY NatLessThanWellFounded
  <1> HIDE DEF Less
  <1>3. PICK x \in s : \A y \in s : <<y, x>> \notin Less
    BY <1>2, WFMin
  <1>4. \A y \in s : ~(y < x)
    BY <1>1, <1>3
  <1>5. \A y \in s : x <= y
    BY <1>3, <1>4
  <1>6. QED
    BY <1>3, <1>5

\* A loop over finitely many sizes is a function: each step goes to a smaller one.
Loop(D, stop, out, next, f) == f = [p \in D |-> IF stop[p] THEN out[p] ELSE f[next[p]]]
Ends(D, m, stop, next, b) ==
    \A p \in D : m[p] \in 0..b /\ (stop[p] \/ (next[p] \in D /\ m[next[p]] < m[p]))
LEMMA LoopExists ==
    ASSUME NEW D, NEW m, NEW stop, NEW out, NEW next, NEW b \in Nat, Ends(D, m, stop, next, b)
    PROVE  \E f : Loop(D, stop, out, next, f)
  <1> USE DEF Loop, Ends
  <1> DEFINE Good(n, f) ==
               \A p \in D : m[p] <= n => f[p] = IF stop[p] THEN out[p] ELSE f[next[p]]
             bad == {n \in Nat : ~\E f : Good(n, f)}
  <1>1. ASSUME bad # {} PROVE FALSE
    <2>1. PICK n \in bad : \A k \in bad : n <= k
      <3>1. bad \subseteq Nat
        OBVIOUS
      <3> HIDE DEF bad
      <3>2. QED
        BY <1>1, <3>1, LeastOf, Zenon
    <2>2. \E f : \A p \in D : m[p] < n => f[p] = IF stop[p] THEN out[p] ELSE f[next[p]]
      <3>1. CASE n = 0
        <4>1. \A p \in D : ~(m[p] < n)
          BY <3>1
        <4>2. QED
          BY <4>1, Zenon
      <3>2. CASE n # 0
        <4>1. n - 1 \in Nat /\ n - 1 \notin bad
          BY <2>1, <3>2
        <4>2. PICK f : Good(n - 1, f)
          BY <4>1
        <4>3. \A p \in D : m[p] < n => m[p] <= n - 1
          BY <2>1
        <4>4. QED
          BY <4>2, <4>3, Zenon
      <3>3. QED
        BY <3>1, <3>2
    <2>3. PICK f : \A p \in D : m[p] < n => f[p] = IF stop[p] THEN out[p] ELSE f[next[p]]
      BY <2>2
    <2> DEFINE g == [p \in D |-> IF m[p] < n THEN f[p] ELSE IF stop[p] THEN out[p] ELSE f[next[p]]]
    <2>4. ASSUME NEW p \in D, m[p] <= n
          PROVE  g[p] = IF stop[p] THEN out[p] ELSE g[next[p]]
      <3>1. ~stop[p] => next[p] \in D /\ m[next[p]] < n
        BY <2>1, <2>4
      <3>2. ~stop[p] => g[next[p]] = f[next[p]]
        BY <3>1
      <3>3. g[p] = IF stop[p] THEN out[p] ELSE f[next[p]]
        BY <2>3, Zenon
      <3> HIDE DEF g
      <3>4. QED
        BY <3>2, <3>3
    <2>5. Good(n, g)
      BY <2>4
    <2> HIDE DEF Good
    <2>6. QED
      BY <2>1, <2>5
  <1>2. \E f : Good(b, f)
    BY <1>1
  <1>3. PICK f : Good(b, f)
    BY <1>2
  <1>4. \A p \in D : f[p] = IF stop[p] THEN out[p] ELSE f[next[p]]
    BY <1>3
  <1> DEFINE h == [p \in D |-> f[p]]
  <1>5. ASSUME NEW p \in D
        PROVE  h[p] = IF stop[p] THEN out[p] ELSE h[next[p]]
    BY <1>4
  <1>6. h = [p \in D |-> IF stop[p] THEN out[p] ELSE h[next[p]]]
    <2>1. h = [p \in D |-> h[p]]
      OBVIOUS
    <2> HIDE DEF h
    <2>2. QED
      BY <1>5, <2>1, Zenon
  <1>7. QED
    BY <1>6

-----------------------------------------------------------------------------
(* What rounding does                                                      *)

\* A quotient is the largest number whose product fits, whatever the sign of the other.
LEMMA Floor ==
    ASSUME NEW c \in Nat, NEW n \in Nat \ {0}
    PROVE  (c \div n) \in Nat /\ (c \div n) * n <= c /\ \A q \in Int : q * n <= c => q <= c \div n
  <1> DEFINE f == c \div n
  <1>1. f \in Nat /\ f * n <= c /\ c < (f + 1) * n
    OBVIOUS
  <1> HIDE DEF f
  <1>2. ASSUME NEW q \in Int, q * n <= c PROVE q <= f
    <2>1. q * n < (f + 1) * n
      BY <1>1, <1>2
    <2>2. CASE q >= f + 1
      <3>1. q * n >= (f + 1) * n
        BY <1>1, <2>2
      <3>2. q * n \in Int /\ (f + 1) * n \in Int
        BY <1>1
      <3>3. QED
        BY <2>1, <3>1, <3>2
    <2>3. QED
      BY <1>1, <2>2
  <1>3. f \in Nat /\ f * n <= c /\ \A q \in Int : q * n <= c => q <= f
    BY <1>1, <1>2
  <1>4. QED
    BY <1>3 DEF f

\* The quotient rounded up is the smallest number whose product covers.
LEMMA Ceiling ==
    ASSUME NEW c \in Nat, NEW n \in Nat \ {0}
    PROVE  /\ CeilDiv(c, n) \in Nat /\ CeilDiv(c, n) * n >= c /\ (CeilDiv(c, n) - 1) * n < c
           /\ \A q \in Int : c <= q * n => CeilDiv(c, n) <= q
  <1> DEFINE f == CeilDiv(c, n)
  <1>1. f \in Nat /\ f * n >= c
    BY Rounding
  <1>2. (f - 1) * n < c
    <2>1. c + n - 1 \in Nat
      OBVIOUS
    <2>2. ((c + n - 1) \div n) * n <= c + n - 1
      BY <2>1, Floor
    <2>3. f * n <= c + n - 1
      BY <2>2 DEF CeilDiv
    <2> HIDE DEF f
    <2>4. (f - 1) * n = f * n - n
      BY <1>1
    <2>5. f * n \in Int
      BY <1>1
    <2>6. QED
      BY <2>3, <2>4, <2>5
  <1> HIDE DEF f
  <1>3. ASSUME NEW q \in Int, c <= q * n PROVE f <= q
    <2>1. (f - 1) * n < q * n
      BY <1>1, <1>2, <1>3
    <2>2. CASE q <= f - 1
      <3>1. q * n <= (f - 1) * n
        BY <1>1, <2>2
      <3>2. q * n \in Int /\ (f - 1) * n \in Int
        BY <1>1
      <3>3. QED
        BY <2>1, <3>1, <3>2
    <2>3. QED
      BY <1>1, <2>2
  <1>4. QED
    BY <1>1, <1>2, <1>3 DEF f

\* Both grow with what is divided.
LEMMA DivGrows ==
    ASSUME NEW c \in Nat, NEW d \in Nat, NEW n \in Nat \ {0}, c <= d
    PROVE  c \div n <= d \div n /\ CeilDiv(c, n) <= CeilDiv(d, n)
  <1>1. (c \div n) \in Int /\ (c \div n) * n <= d
    <2>1. (c \div n) \in Nat /\ (c \div n) * n <= c
      BY Floor
    <2>2. (c \div n) * n \in Int
      BY <2>1
    <2>3. QED
      BY <2>1, <2>2
  <1>2. CeilDiv(d, n) \in Int /\ c <= CeilDiv(d, n) * n
    <2>1. CeilDiv(d, n) \in Nat /\ CeilDiv(d, n) * n >= d
      BY Ceiling
    <2>2. CeilDiv(d, n) * n \in Int
      BY <2>1
    <2>3. QED
      BY <2>1, <2>2
  <1>3. c \div n <= d \div n
    BY <1>1, Floor
  <1>4. CeilDiv(c, n) <= CeilDiv(d, n)
    BY <1>2, Ceiling
  <1>5. QED
    BY <1>3, <1>4

LEMMA ProductGrows ==
    ASSUME NEW a \in Nat, NEW b \in Nat, NEW c \in Nat, NEW d \in Nat, a <= b, c <= d
    PROVE  a * c <= b * d
  <1>1. a * c <= b * c /\ b * c <= b * d
    OBVIOUS
  <1>2. a * c \in Nat /\ b * c \in Nat /\ b * d \in Nat
    BY Product
  <1>3. QED
    BY <1>1, <1>2

\* Two parts rounded, one down and one up, are at most one more than the whole rounded down.
LEMMA Together ==
    ASSUME NEW c \in Nat, NEW d \in Nat, NEW n \in Nat \ {0}
    PROVE  c \div n + CeilDiv(d, n) <= (c + d) \div n + 1
  <1> DEFINE f == c \div n
             g == CeilDiv(d, n)
  <1>1. f \in Nat /\ f * n <= c /\ g \in Nat /\ (g - 1) * n < d
    BY Floor, Ceiling
  <1> HIDE DEF f, g
  <1>2. (f + g - 1) * n = f * n + (g - 1) * n
    BY <1>1
  <1>3. f * n \in Int /\ (g - 1) * n \in Int
    BY <1>1
  <1>4. (f + g - 1) * n <= c + d
    BY <1>1, <1>2, <1>3
  <1>5. f + g - 1 <= (c + d) \div n
    <2>1. f + g - 1 \in Int /\ c + d \in Nat
      BY <1>1
    <2>2. QED
      BY <1>4, <2>1, Floor
  <1>6. (c + d) \div n \in Nat
    BY Floor
  <1>7. QED
    BY <1>1, <1>5, <1>6 DEF f, g

\* The same when each is divided twice.
LEMMA TogetherTwice ==
    ASSUME NEW c \in Nat, NEW d \in Nat, NEW n \in Nat \ {0}, NEW k \in Nat \ {0}
    PROVE  (c \div n) \div k + CeilDiv(CeilDiv(d, n), k) <= ((c + d) \div n) \div k + 1
  <1> DEFINE f == (c \div n) \div k
             g == CeilDiv(CeilDiv(d, n), k)
             q == f + g - 1
  <1>1. (c \div n) \in Nat /\ (c \div n) * n <= c /\ f \in Nat /\ f * k <= c \div n
    BY Floor
  <1>2. /\ CeilDiv(d, n) \in Nat /\ (CeilDiv(d, n) - 1) * n < d
        /\ g \in Nat /\ (g - 1) * k < CeilDiv(d, n)
    BY Ceiling
  <1>3. ASSUME NEW u \in Nat, NEW v \in Nat, NEW w \in Nat, NEW x \in Nat,
               w * k <= u, (x - 1) * k < v
        PROVE  (w + x - 1) * k <= u + v - 1
    <2>1. (w + x - 1) * k = w * k + (x - 1) * k
      OBVIOUS
    <2>2. w * k \in Int /\ (x - 1) * k \in Int
      OBVIOUS
    <2>3. QED
      BY <1>3, <2>1, <2>2
  <1>4. q * k <= c \div n + CeilDiv(d, n) - 1
    BY <1>1, <1>2, <1>3
  <1>5. (c + d) \div n \in Nat
    BY Floor
  <1>6. c \div n + CeilDiv(d, n) - 1 <= (c + d) \div n
    <2>1. c \div n + CeilDiv(d, n) <= (c + d) \div n + 1
      BY Together
    <2>2. QED
      BY <1>1, <1>2, <1>5, <2>1
  <1>7. q * k <= (c + d) \div n
    <2>1. q \in Int
      BY <1>1, <1>2
    <2> HIDE DEF q
    <2>2. q * k \in Int
      BY <2>1
    <2>3. QED
      BY <1>1, <1>2, <1>4, <1>5, <1>6, <2>2
  <1>8. q <= ((c + d) \div n) \div k
    <2>1. q \in Int
      BY <1>1, <1>2
    <2> HIDE DEF q
    <2>2. QED
      BY <1>5, <1>7, <2>1, Floor
  <1>9. ((c + d) \div n) \div k \in Nat
    BY <1>5, Floor
  <1>10. QED
    BY <1>1, <1>2, <1>8, <1>9

-----------------------------------------------------------------------------
(* What liquidity costs and what it is worth                               *)

\* The numerators, which add up.
LEMMA Scaled ==
    ASSUME NEW a \in Nat \ {0}, NEW b \in Nat \ {0}, a <= b, NEW l \in Nat, NEW c \in Nat
    PROVE  /\ l * Q96 * (b - a) \in Nat /\ c * Q96 * (b - a) \in Nat
           /\ (l + c) * Q96 * (b - a) = l * Q96 * (b - a) + c * Q96 * (b - a)
           /\ l * (b - a) \in Nat /\ c * (b - a) \in Nat
           /\ (l + c) * (b - a) = l * (b - a) + c * (b - a)
  <1>1. Q96 \in Nat \ {0}
    BY ScaleAssumption DEF ScaleAssumption
  <1>2. b - a \in Nat
    OBVIOUS
  <1> DEFINE w == b - a
  <1>3. w \in Nat
    BY <1>2
  <1> HIDE DEF w
  <1>4. l * Q96 \in Nat /\ c * Q96 \in Nat /\ (l + c) * Q96 = l * Q96 + c * Q96
    BY <1>1
  <1>5. ASSUME NEW p \in Nat, NEW q \in Nat
        PROVE  p * w \in Nat /\ q * w \in Nat /\ (p + q) * w = p * w + q * w
    BY <1>3
  <1>6. QED
    BY <1>4, <1>5 DEF w

\* The two tokens' amounts, to add liquidity and to take it out.
Cost0(a, b, l) == Amount0(a, b, l, TRUE)
Cost1(a, b, l) == Amount1(a, b, l, TRUE)
Pays0(a, b, l) == Amount0(a, b, l, FALSE)
Pays1(a, b, l) == Amount1(a, b, l, FALSE)
Cost(x, l) == amountsForLiquidity(x, l, TRUE)
Pays(x, l) == amountsForLiquidity(x, l, FALSE)

\* Liquidity costs tokens, more of it no less; in two parts, the first worth what it is, the
\* second at its cost, it is worth at least that less one.
LEMMA AmountsOf ==
    ASSUME NEW a \in Nat \ {0}, NEW b \in Nat \ {0}, a <= b, NEW l \in Nat, NEW c \in Nat
    PROVE  /\ Cost0(a, b, l) \in Nat /\ Cost1(a, b, l) \in Nat
           /\ Pays0(a, b, l) \in Nat /\ Pays1(a, b, l) \in Nat
           /\ Cost0(a, b, l) <= Cost0(a, b, l + c)
           /\ Cost1(a, b, l) <= Cost1(a, b, l + c)
           /\ Pays0(a, b, l) + Cost0(a, b, c) <= Pays0(a, b, l + c) + 1
           /\ Pays1(a, b, l) + Cost1(a, b, c) <= Pays1(a, b, l + c) + 1
  <1>1. Q96 \in Nat \ {0}
    BY ScaleAssumption DEF ScaleAssumption
  <1> DEFINE u == l * Q96 * (b - a)
             v == c * Q96 * (b - a)
             y == l * (b - a)
             z == c * (b - a)
  <1>2. /\ u \in Nat /\ v \in Nat /\ (l + c) * Q96 * (b - a) = u + v
        /\ y \in Nat /\ z \in Nat /\ (l + c) * (b - a) = y + z
    BY Scaled
  <1>3. /\ Cost0(a, b, l) = CeilDiv(CeilDiv(u, b), a)
        /\ Cost0(a, b, c) = CeilDiv(CeilDiv(v, b), a)
        /\ Cost0(a, b, l + c) = CeilDiv(CeilDiv(u + v, b), a)
        /\ Pays0(a, b, l) = (u \div b) \div a
        /\ Pays0(a, b, l + c) = ((u + v) \div b) \div a
    BY <1>2 DEF Cost0, Pays0, Amount0
  <1>4. /\ Cost1(a, b, l) = CeilDiv(y, Q96)
        /\ Cost1(a, b, c) = CeilDiv(z, Q96)
        /\ Cost1(a, b, l + c) = CeilDiv(y + z, Q96)
        /\ Pays1(a, b, l) = y \div Q96
        /\ Pays1(a, b, l + c) = (y + z) \div Q96
    BY <1>2 DEF Cost1, Pays1, Amount1
  <1> HIDE DEF u, v, y, z
  <1>5. CeilDiv(u, b) \in Nat /\ CeilDiv(u + v, b) \in Nat /\ (u \div b) \in Nat
    <2>1. u + v \in Nat
      BY <1>2
    <2>2. QED
      BY <1>2, <2>1, Ceiling, Floor
  <1>6. /\ CeilDiv(CeilDiv(u, b), a) \in Nat /\ (u \div b) \div a \in Nat
        /\ CeilDiv(y, Q96) \in Nat /\ y \div Q96 \in Nat
    BY <1>1, <1>2, <1>5, Ceiling, Floor
  <1>7. CeilDiv(u, b) <= CeilDiv(u + v, b) /\ CeilDiv(y, Q96) <= CeilDiv(y + z, Q96)
    <2>1. u <= u + v /\ y <= y + z /\ u + v \in Nat /\ y + z \in Nat
      BY <1>2
    <2>2. QED
      BY <1>1, <1>2, <2>1, DivGrows
  <1>8. CeilDiv(CeilDiv(u, b), a) <= CeilDiv(CeilDiv(u + v, b), a)
    BY <1>5, <1>7, DivGrows
  <1>9. (u \div b) \div a + CeilDiv(CeilDiv(v, b), a) <= ((u + v) \div b) \div a + 1
    BY <1>2, TogetherTwice
  <1>10. y \div Q96 + CeilDiv(z, Q96) <= (y + z) \div Q96 + 1
    BY <1>1, <1>2, Together
  <1>11. QED
    BY <1>3, <1>4, <1>6, <1>7, <1>8, <1>9, <1>10

\* What an amount buys, and that it costs no more than it.
LEMMA BoughtType ==
    ASSUME NEW a \in Nat \ {0}, NEW b \in Nat \ {0}, a < b, NEW amount \in Nat
    PROVE  FromAmount0(a, b, amount) \in Nat /\ FromAmount1(a, b, amount) \in Nat
  <1>1. Q96 \in Nat \ {0}
    BY ScaleAssumption DEF ScaleAssumption
  <1>2. b - a \in Nat \ {0} /\ (a * b) \div Q96 \in Nat
    BY <1>1, Product, Floor
  <1>3. amount * ((a * b) \div Q96) \in Nat /\ amount * Q96 \in Nat
    BY <1>1, <1>2, Product
  <1>4. QED
    BY <1>2, <1>3, Floor DEF FromAmount0, FromAmount1

LEMMA Bought ==
    ASSUME NEW a \in Nat \ {0}, NEW b \in Nat \ {0}, a < b, NEW amount \in Nat, NEW l \in Nat
    PROVE  /\ l <= FromAmount0(a, b, amount) => Cost0(a, b, l) <= amount
           /\ l <= FromAmount1(a, b, amount) => Cost1(a, b, l) <= amount
  <1>1. Q96 \in Nat \ {0}
    BY ScaleAssumption DEF ScaleAssumption
  <1> DEFINE w == b - a
             k == (a * b) \div Q96
  <1>2. w \in Nat \ {0}
    OBVIOUS
  <1>3. k \in Nat /\ k * Q96 <= a * b
    BY <1>1, Product, Floor
  <1>4. amount * k \in Nat /\ amount * Q96 \in Nat
    BY <1>1, <1>3, Product
  <1>5. /\ FromAmount0(a, b, amount) = (amount * k) \div w
        /\ FromAmount1(a, b, amount) = (amount * Q96) \div w
        /\ Cost0(a, b, l) = CeilDiv(CeilDiv(l * Q96 * w, b), a)
        /\ Cost1(a, b, l) = CeilDiv(l * w, Q96)
    BY DEF FromAmount0, FromAmount1, Cost0, Cost1, Amount0, Amount1
  <1> HIDE DEF w, k
  <1>6. (amount * k) \div w \in Nat /\ (amount * Q96) \div w \in Nat
    BY <1>2, <1>4, Floor
  <1>7. ASSUME NEW d \in Nat, l <= d \div w PROVE l * w <= d
    <2>1. (d \div w) \in Nat /\ (d \div w) * w <= d
      BY <1>2, Floor
    <2>2. l * w <= (d \div w) * w
      BY <1>2, <1>7, <2>1, ProductGrows
    <2>3. l * w \in Nat /\ (d \div w) * w \in Nat
      BY <1>2, <2>1, Product
    <2>4. QED
      BY <2>1, <2>2, <2>3
  <1>8. ASSUME l <= (amount * k) \div w
        PROVE  CeilDiv(CeilDiv(l * Q96 * w, b), a) <= amount
    <2>1. l * w <= amount * k /\ l * w \in Nat
      BY <1>2, <1>4, <1>7, <1>8, Product
    <2>2. (l * w) * Q96 <= (amount * k) * Q96
      BY <1>1, <1>4, <2>1, ProductGrows
    <2>3. (amount * k) * Q96 = amount * (k * Q96) /\ amount * (k * Q96) <= amount * (a * b)
      <3>1. k * Q96 \in Nat /\ a * b \in Nat
        BY <1>1, <1>3, Product
      <3>2. amount * (k * Q96) <= amount * (a * b)
        BY <1>3, <3>1, ProductGrows
      <3>3. QED
        BY <1>1, <1>3, <3>2
    <2>4. amount * (a * b) = (amount * a) * b /\ l * Q96 * w = (l * w) * Q96
      BY <1>1, <1>2
    <2>5. /\ (l * w) * Q96 \in Nat /\ (amount * k) * Q96 \in Nat /\ (amount * a) * b \in Nat
          /\ amount * a \in Nat
      BY <1>1, <1>4, <2>1, Product
    <2>6. l * Q96 * w \in Nat /\ l * Q96 * w <= (amount * a) * b
      BY <2>2, <2>3, <2>4, <2>5
    <2>7. CeilDiv(l * Q96 * w, b) \in Nat /\ CeilDiv(l * Q96 * w, b) <= amount * a
      BY <2>5, <2>6, Ceiling
    <2>8. QED
      BY <2>7, Ceiling
  <1>9. ASSUME l <= (amount * Q96) \div w
        PROVE  CeilDiv(l * w, Q96) <= amount
    <2>1. l * w <= amount * Q96 /\ l * w \in Nat
      BY <1>2, <1>4, <1>7, <1>9, Product
    <2>2. QED
      BY <1>1, <2>1, Ceiling
  <1>10. QED
    BY <1>5, <1>6, <1>8, <1>9

\* More tokens buy no less.
LEMMA BuysMore ==
    ASSUME NEW a \in Nat \ {0}, NEW b \in Nat \ {0}, a < b, NEW p \in Nat, NEW q \in Nat, p <= q
    PROVE  /\ FromAmount0(a, b, p) <= FromAmount0(a, b, q)
           /\ FromAmount1(a, b, p) <= FromAmount1(a, b, q)
  <1>1. Q96 \in Nat \ {0}
    BY ScaleAssumption DEF ScaleAssumption
  <1> DEFINE k == (a * b) \div Q96
             w == b - a
  <1>2. k \in Nat /\ w \in Nat \ {0}
    BY <1>1, Product, Floor
  <1> HIDE DEF k, w
  <1>3. p * k \in Nat /\ q * k \in Nat /\ p * k <= q * k
    BY <1>2, Product, ProductGrows
  <1>4. p * Q96 \in Nat /\ q * Q96 \in Nat /\ p * Q96 <= q * Q96
    BY <1>1, Product, ProductGrows
  <1>5. (p * k) \div w <= (q * k) \div w /\ (p * Q96) \div w <= (q * Q96) \div w
    BY <1>2, <1>3, <1>4, DivGrows
  <1>6. QED
    BY <1>5 DEF FromAmount0, FromAmount1, k, w

\* The position at a price: what it costs grows with it, and loses at most one by rounding.
LEMMA PositionAmounts ==
    ASSUME NEW x \in Nat \ {0}, NEW l \in Nat, NEW c \in Nat, NEW i \in Tokens
    PROVE  /\ Cost(x, l)[i] \in Nat
           /\ Pays(x, l)[i] \in Nat
           /\ Cost(x, l)[i] <= Cost(x, l + c)[i]
           /\ Pays(x, l)[i] + Cost(x, c)[i]
                <= Pays(x, l + c)[i] + 1
  <1>1. Lowest \in Nat \ {0} /\ Highest \in Nat \ {0} /\ Lowest < Highest
    BY ScaleAssumption DEF ScaleAssumption
  <1>2. i = 1 \/ i = 2
    BY DEF Tokens
  <1> DEFINE Rounds0(a, b) == /\ Cost0(a, b, l) \in Nat /\ Pays0(a, b, l) \in Nat
                              /\ Cost0(a, b, l) <= Cost0(a, b, l + c)
                              /\ Pays0(a, b, l) + Cost0(a, b, c) <= Pays0(a, b, l + c) + 1
             Rounds1(a, b) == /\ Cost1(a, b, l) \in Nat /\ Pays1(a, b, l) \in Nat
                              /\ Cost1(a, b, l) <= Cost1(a, b, l + c)
                              /\ Pays1(a, b, l) + Cost1(a, b, c) <= Pays1(a, b, l + c) + 1
  <1>0. ASSUME NEW a \in Nat \ {0}, NEW b \in Nat \ {0}, a <= b PROVE Rounds0(a, b) /\ Rounds1(a, b)
    BY <1>0, AmountsOf
  <1>3. CASE x < Lowest
    <2>1. \A n : /\ Cost(x, n) = <<Cost0(Lowest, Highest, n), 0>>
                 /\ Pays(x, n) = <<Pays0(Lowest, Highest, n), 0>>
      BY <1>3 DEF Cost, Pays, Cost0, Cost1, Pays0, Pays1, amountsForLiquidity
    <2>2. CASE i = 1
      <3>0. Rounds0(Lowest, Highest)
        BY <1>0, <1>1
      <3>1. \A n : /\ Cost(x, n)[i] = Cost0(Lowest, Highest, n)
                   /\ Pays(x, n)[i] = Pays0(Lowest, Highest, n)
        BY <2>1, <2>2
      <3>2. QED
        BY <3>0, <3>1
    <2>3. CASE i = 2
      <3>1. \A n : Cost(x, n)[i] = 0 /\ Pays(x, n)[i] = 0
        BY <2>1, <2>3
      <3>2. QED
        BY <3>1
    <2>4. QED
      BY <1>2, <2>2, <2>3
  <1>4. CASE Lowest <= x /\ x < Highest
    <2>0. ~(x < Lowest) /\ x < Highest
      BY <1>1, <1>4
    <2>1. \A n : /\ Cost(x, n)
                        = <<Cost0(x, Highest, n), Cost1(Lowest, x, n)>>
                 /\ Pays(x, n)
                        = <<Pays0(x, Highest, n), Pays1(Lowest, x, n)>>
      BY <2>0, Zenon DEF Cost, Pays, Cost0, Cost1, Pays0, Pays1, amountsForLiquidity
    <2>2. CASE i = 1
      <3>0. Rounds0(x, Highest)
        BY <1>0, <1>1, <1>4
      <3>1. \A n : /\ Cost(x, n)[i] = Cost0(x, Highest, n)
                   /\ Pays(x, n)[i] = Pays0(x, Highest, n)
        BY <2>1, <2>2
      <3>2. QED
        BY <3>0, <3>1
    <2>3. CASE i = 2
      <3>0. Rounds1(Lowest, x)
        BY <1>0, <1>1, <1>4
      <3>1. \A n : /\ Cost(x, n)[i] = Cost1(Lowest, x, n)
                   /\ Pays(x, n)[i] = Pays1(Lowest, x, n)
        BY <2>1, <2>3
      <3>2. QED
        BY <3>0, <3>1
    <2>4. QED
      BY <1>2, <2>2, <2>3
  <1>5. CASE Highest <= x
    <2>0. ~(x < Lowest) /\ ~(x < Highest)
      BY <1>1, <1>5
    <2>1. \A n : /\ Cost(x, n) = <<0, Cost1(Lowest, Highest, n)>>
                 /\ Pays(x, n) = <<0, Pays1(Lowest, Highest, n)>>
      BY <2>0, Zenon DEF Cost, Pays, Cost0, Cost1, Pays0, Pays1, amountsForLiquidity
    <2>2. CASE i = 1
      <3>1. \A n : Cost(x, n)[i] = 0 /\ Pays(x, n)[i] = 0
        BY <2>1, <2>2
      <3>2. QED
        BY <3>1
    <2>3. CASE i = 2
      <3>0. Rounds1(Lowest, Highest)
        BY <1>0, <1>1
      <3>1. \A n : /\ Cost(x, n)[i] = Cost1(Lowest, Highest, n)
                   /\ Pays(x, n)[i] = Pays1(Lowest, Highest, n)
        BY <2>1, <2>3
      <3>2. QED
        BY <3>0, <3>1
    <2>4. QED
      BY <1>2, <2>2, <2>3
  <1>6. x < Lowest \/ (Lowest <= x /\ x < Highest) \/ Highest <= x
    BY <1>1
  <1>7. QED
    BY <1>3, <1>4, <1>5, <1>6, Zenon

\* What tokens buy costs no more than them, and more of them buy no less.
LEMMA PositionBought ==
    ASSUME NEW x \in Nat \ {0}, NEW p \in Pair, NEW q \in Pair, Fits(p, q)
    PROVE  /\ liquidityForAmounts(x, p) \in Nat
           /\ Fits(Cost(x, liquidityForAmounts(x, p)), p)
           /\ liquidityForAmounts(x, p) <= liquidityForAmounts(x, q)
  <1>1. Lowest \in Nat \ {0} /\ Highest \in Nat \ {0} /\ Lowest < Highest /\ Q96 \in Nat \ {0}
    BY ScaleAssumption DEF ScaleAssumption
  <1>2. p[1] \in Nat /\ p[2] \in Nat /\ q[1] \in Nat /\ q[2] \in Nat /\ p[1] <= q[1] /\ p[2] <= q[2]
    BY DEF Pair, Tokens, Fits
  <1>3. \A u, v : (u <= p[1] /\ v <= p[2]) => Fits(<<u, v>>, p)
    BY DEF Fits, Tokens
  <1> DEFINE l == liquidityForAmounts(x, p)
  <1>4. CASE x <= Lowest
    <2>1. \A r : liquidityForAmounts(x, r) = FromAmount0(Lowest, Highest, r[1])
      BY <1>4 DEF liquidityForAmounts
    <2>2. l \in Nat /\ l <= liquidityForAmounts(x, q)
      <3>1. FromAmount0(Lowest, Highest, p[1]) \in Nat
        BY <1>1, <1>2, BoughtType
      <3>2. FromAmount0(Lowest, Highest, p[1]) <= FromAmount0(Lowest, Highest, q[1])
        BY <1>1, <1>2, BuysMore
      <3>3. QED
        BY <2>1, <3>1, <3>2
    <2>3. Cost0(Lowest, Highest, l) <= p[1]
      BY <1>1, <1>2, <2>1, <2>2, Bought
    <2>4. Cost1(Lowest, Lowest, l) = 0
      <3> HIDE DEF l
      <3>1. l * (Lowest - Lowest) = 0
        BY <1>1, <2>2
      <3>2. CeilDiv(0, Q96) = 0
        <4>1. CeilDiv(0, Q96) \in Nat /\ CeilDiv(0, Q96) <= 0
          BY <1>1, Ceiling
        <4>2. QED
          BY <4>1
      <3>3. QED
        BY <3>1, <3>2 DEF Cost1, Pays1, Amount1
    <2>5. Cost(x, l) = <<Cost0(Lowest, Highest, l), 0>>
      <3>1. x < Lowest \/ (x = Lowest /\ ~(x < Lowest) /\ x < Highest)
        BY <1>1, <1>4
      <3>2. CASE x < Lowest
        BY <3>2, Zenon DEF Cost, Pays, Cost0, Cost1, Pays0, Pays1, amountsForLiquidity
      <3>3. CASE x = Lowest /\ ~(x < Lowest) /\ x < Highest
        BY <2>4, <3>3, Zenon DEF Cost, Pays, Cost0, Cost1, Pays0, Pays1, amountsForLiquidity
      <3>4. QED
        BY <3>1, <3>2, <3>3
    <2>6. QED
      BY <1>2, <1>3, <2>2, <2>3, <2>5
  <1>5. CASE Lowest < x /\ x < Highest
    <2>1. \A r : liquidityForAmounts(x, r)
                   = Smallest(FromAmount0(x, Highest, r[1]), FromAmount1(Lowest, x, r[2]))
      BY <1>1, <1>5 DEF liquidityForAmounts
    <2>2. /\ FromAmount0(x, Highest, p[1]) \in Nat /\ FromAmount1(Lowest, x, p[2]) \in Nat
          /\ FromAmount0(x, Highest, q[1]) \in Nat /\ FromAmount1(Lowest, x, q[2]) \in Nat
          /\ FromAmount0(x, Highest, p[1]) <= FromAmount0(x, Highest, q[1])
          /\ FromAmount1(Lowest, x, p[2]) <= FromAmount1(Lowest, x, q[2])
      BY <1>1, <1>2, <1>5, BoughtType, BuysMore
    <2>3. /\ l \in Nat /\ l <= FromAmount0(x, Highest, p[1]) /\ l <= FromAmount1(Lowest, x, p[2])
          /\ l <= liquidityForAmounts(x, q)
      BY <2>1, <2>2 DEF Smallest
    <2>4. Cost0(x, Highest, l) <= p[1] /\ Cost1(Lowest, x, l) <= p[2]
      BY <1>1, <1>2, <1>5, <2>3, Bought
    <2>5. Cost(x, l) = <<Cost0(x, Highest, l), Cost1(Lowest, x, l)>>
      <3>1. ~(x < Lowest) /\ x < Highest
        BY <1>1, <1>5
      <3>2. QED
        BY <3>1, Zenon DEF Cost, Pays, Cost0, Cost1, Pays0, Pays1, amountsForLiquidity
    <2>6. QED
      BY <1>3, <2>3, <2>4, <2>5
  <1>6. CASE Highest <= x
    <2>1. \A r : liquidityForAmounts(x, r) = FromAmount1(Lowest, Highest, r[2])
      BY <1>1, <1>6 DEF liquidityForAmounts
    <2>2. l \in Nat /\ l <= liquidityForAmounts(x, q)
      <3>1. FromAmount1(Lowest, Highest, p[2]) \in Nat
        BY <1>1, <1>2, BoughtType
      <3>2. FromAmount1(Lowest, Highest, p[2]) <= FromAmount1(Lowest, Highest, q[2])
        BY <1>1, <1>2, BuysMore
      <3>3. QED
        BY <2>1, <3>1, <3>2
    <2>3. Cost1(Lowest, Highest, l) <= p[2]
      BY <1>1, <1>2, <2>1, <2>2, Bought
    <2>4. Cost(x, l) = <<0, Cost1(Lowest, Highest, l)>>
      <3>1. ~(x < Lowest) /\ ~(x < Highest)
        BY <1>1, <1>6
      <3>2. QED
        BY <3>1, Zenon DEF Cost, Pays, Cost0, Cost1, Pays0, Pays1, amountsForLiquidity
    <2>5. QED
      BY <1>2, <1>3, <2>2, <2>3, <2>4
  <1>7. x <= Lowest \/ (Lowest < x /\ x < Highest) \/ Highest <= x
    BY <1>1
  <1>8. QED
    BY <1>4, <1>5, <1>6, <1>7, Zenon

-----------------------------------------------------------------------------
(* The two bisections                                                      *)

\* The search for the largest number of a set that holds every smaller one.
Seek(top, F, f) ==
    f = [r \in (0..top) \X (0..top) |->
           IF r[1] >= r[2] THEN r[1]
           ELSE IF r[2] - (r[2] - r[1]) \div 2 \in F THEN f[<<r[2] - (r[2] - r[1]) \div 2, r[2]>>]
           ELSE f[<<r[1], r[2] - (r[2] - r[1]) \div 2 - 1>>]]
LEMMA SearchExists ==
    ASSUME NEW top \in Nat, NEW F
    PROVE  \E f : Seek(top, F, f)
  <1> DEFINE D == (0..top) \X (0..top)
             mid(r) == r[2] - (r[2] - r[1]) \div 2
             m == [r \in D |-> IF r[1] >= r[2] THEN 0 ELSE r[2] - r[1]]
             stop == [r \in D |-> r[1] >= r[2]]
             out == [r \in D |-> r[1]]
             next == [r \in D |-> IF mid(r) \in F THEN <<mid(r), r[2]>> ELSE <<r[1], mid(r) - 1>>]
  <1>1. ASSUME NEW r \in D
        PROVE  /\ r[1] \in 0..top /\ r[2] \in 0..top /\ m[r] \in 0..top
               /\ stop[r] \/ (next[r] \in D /\ m[next[r]] < m[r])
    <2>1. r[1] \in 0..top /\ r[2] \in 0..top
      OBVIOUS
    <2>2. m[r] \in 0..top
      BY <2>1
    <2>3. CASE ~(r[1] >= r[2])
      <3>1. mid(r) \in r[1] + 1 .. r[2] /\ r[2] - mid(r) < r[2] - r[1]
        BY <2>1, <2>3
      <3>2. m[r] = r[2] - r[1]
        BY <2>1, <2>3
      <3> HIDE DEF mid
      <3>3. next[r] = IF mid(r) \in F THEN <<mid(r), r[2]>> ELSE <<r[1], mid(r) - 1>>
        OBVIOUS
      <3>4. /\ <<mid(r), r[2]>> \in D /\ <<r[1], mid(r) - 1>> \in D
            /\ m[<<mid(r), r[2]>>] < r[2] - r[1] /\ m[<<r[1], mid(r) - 1>>] < r[2] - r[1]
        BY <2>1, <2>3, <3>1
      <3> HIDE DEF m, next, D
      <3>5. CASE mid(r) \in F
        BY <2>1, <2>2, <3>2, <3>3, <3>4, <3>5
      <3>6. CASE mid(r) \notin F
        BY <2>1, <2>2, <3>2, <3>3, <3>4, <3>6
      <3>7. QED
        BY <3>5, <3>6
    <2>4. QED
      BY <2>1, <2>2, <2>3
  <1>2. \E f : Loop(D, stop, out, next, f)
    <2> HIDE DEF D, m, stop, out, next
    <2>1. Ends(D, m, stop, next, top)
      BY <1>1, Zenon DEF Ends
    <2>2. QED
      BY <2>1, LoopExists
  <1>3. PICK f : f = [r \in D |-> IF stop[r] THEN out[r] ELSE f[next[r]]]
    BY <1>2 DEF Loop
  <1>4. ASSUME NEW r \in D
        PROVE  f[r] = IF r[1] >= r[2] THEN r[1]
                      ELSE IF mid(r) \in F THEN f[<<mid(r), r[2]>>] ELSE f[<<r[1], mid(r) - 1>>]
    <2> HIDE DEF mid
    <2>1. f[r] = IF stop[r] THEN out[r] ELSE f[next[r]]
      <3> HIDE DEF stop, out, next, D
      <3>1. QED
        BY <1>3, Zenon
    <2>2. stop[r] = (r[1] >= r[2]) /\ out[r] = r[1]
      OBVIOUS
    <2>3. next[r] = IF mid(r) \in F THEN <<mid(r), r[2]>> ELSE <<r[1], mid(r) - 1>>
      OBVIOUS
    <2> HIDE DEF stop, out, next
    <2>4. QED
      BY <2>1, <2>2, <2>3
  <1>5. f = [r \in D |-> f[r]]
    <2> HIDE DEF stop, out, next, D
    <2>1. QED
      BY <1>3
  <1>6. f = [r \in D |-> IF r[1] >= r[2] THEN r[1]
                         ELSE IF mid(r) \in F THEN f[<<mid(r), r[2]>>] ELSE f[<<r[1], mid(r) - 1>>]]
    <2> HIDE DEF D, mid
    <2>1. QED
      BY <1>4, <1>5, Zenon
  <1>7. QED
    BY <1>6, Zenon DEF Seek

\* It finds it.
LEMMA SearchFinds ==
    ASSUME NEW top \in Nat, NEW F, \A s, t \in 0..top : s <= t /\ t \in F => s \in F,
           NEW f, Seek(top, F, f)
    PROVE  /\ f[<<0, top>>] \in 0..top
           /\ f[<<0, top>>] > 0 => f[<<0, top>>] \in F
           /\ \A more \in f[<<0, top>>] + 1 .. top : more \notin F
  <1> DEFINE mid(lo, hi) == hi - (hi - lo) \div 2
             Good(lo, hi) == /\ f[<<lo, hi>>] \in lo..hi
                             /\ f[<<lo, hi>>] > lo => f[<<lo, hi>>] \in F
                             /\ \A more \in f[<<lo, hi>>] + 1 .. hi : more \notin F
             bad == {n \in Nat : \E lo, hi \in 0..top : lo + n = hi /\ ~Good(lo, hi)}
  <1>1. ASSUME NEW lo \in 0..top, NEW hi \in 0..top
        PROVE  f[<<lo, hi>>] = IF lo >= hi THEN lo
                               ELSE IF mid(lo, hi) \in F THEN f[<<mid(lo, hi), hi>>]
                                    ELSE f[<<lo, mid(lo, hi) - 1>>]
    <2> DEFINE r == <<lo, hi>>
    <2>1. r \in (0..top) \X (0..top) /\ r[1] = lo /\ r[2] = hi
      OBVIOUS
    <2> HIDE DEF r
    <2>2. f[r] = IF r[1] >= r[2] THEN r[1]
                 ELSE IF r[2] - (r[2] - r[1]) \div 2 \in F
                      THEN f[<<r[2] - (r[2] - r[1]) \div 2, r[2]>>]
                      ELSE f[<<r[1], r[2] - (r[2] - r[1]) \div 2 - 1>>]
      BY <2>1, Zenon DEF Seek
    <2>3. f[r] = IF lo >= hi THEN lo
                 ELSE IF mid(lo, hi) \in F THEN f[<<mid(lo, hi), hi>>]
                      ELSE f[<<lo, mid(lo, hi) - 1>>]
      BY <2>1, <2>2, Zenon
    <2>4. QED
      BY <2>3 DEF r
  <1>2. bad = {}
    <2> SUFFICES ASSUME bad # {} PROVE FALSE
      OBVIOUS
    <2>1. PICK n \in bad : \A k \in bad : n <= k
      <3>1. bad \subseteq Nat
        OBVIOUS
      <3> HIDE DEF bad
      <3>2. QED
        BY <3>1, LeastOf, Zenon
    <2>2. n \in Nat
      OBVIOUS
    <2>3. PICK lo \in 0..top, hi \in 0..top : lo + n = hi /\ ~Good(lo, hi)
      BY <2>1
    <2>4. ASSUME NEW a \in 0..top, NEW b \in 0..top, a <= b, b - a < n PROVE Good(a, b)
      <3>1. b - a \in Nat /\ a + (b - a) = b
        BY <2>4
      <3>2. b - a \notin bad
        <4> HIDE DEF bad
        <4>1. QED
          BY <2>1, <2>2, <2>4
      <3> HIDE DEF Good
      <3>3. QED
        BY <3>1, <3>2
    <2> DEFINE y == f[<<lo, hi>>]
    <2> SUFFICES y \in lo..hi /\ (y > lo => y \in F) /\ \A more \in y + 1 .. hi : more \notin F
      BY <2>3
    <2>0. lo + n = hi
      BY <2>3
    <2> HIDE DEF bad
    <2>5. CASE lo >= hi
      <3>1. lo = hi
        BY <2>0, <2>2, <2>5
      <3>2. y = lo
        BY <1>1, <2>5
      <3> HIDE DEF y
      <3>3. QED
        BY <3>1, <3>2
    <2>6. CASE ~(lo >= hi)
      <3> DEFINE c == mid(lo, hi)
      <3>1. c \in lo + 1 .. hi /\ hi - c < n /\ c - 1 - lo < n
        BY <2>0, <2>2, <2>6
      <3>2. y = IF c \in F THEN f[<<c, hi>>] ELSE f[<<lo, c - 1>>]
        BY <1>1, <2>6
      <3> HIDE DEF c, mid, y
      <3>3. CASE c \in F
        <4>1. c \in 0..top /\ c <= hi
          BY <3>1
        <4> DEFINE z == f[<<c, hi>>]
        <4>2. z \in c..hi /\ (z > c => z \in F) /\ \A more \in z + 1 .. hi : more \notin F
          <5>1. Good(c, hi)
            BY <2>4, <3>1, <4>1
          <5>2. QED
            BY <5>1
        <4>3. y = z
          BY <3>2, <3>3
        <4> HIDE DEF z
        <4>4. z \in F
          BY <3>1, <3>3, <4>2
        <4>5. QED
          BY <3>1, <4>2, <4>3, <4>4
      <3>4. CASE c \notin F
        <4>1. c - 1 \in 0..top /\ lo <= c - 1
          BY <3>1
        <4> DEFINE z == f[<<lo, c - 1>>]
        <4>2. z \in lo..c - 1 /\ (z > lo => z \in F) /\ \A more \in z + 1 .. c - 1 : more \notin F
          <5>1. Good(lo, c - 1)
            <6> HIDE DEF Good
            <6>1. QED
              BY <2>4, <3>1, <4>1
          <5>2. QED
            BY <5>1
        <4>3. y = z
          BY <3>2, <3>4
        <4> HIDE DEF z
        <4>4. \A more \in c .. hi : more \notin F
          BY <3>1, <3>4
        <4>5. \A more \in z + 1 .. hi : more \in z + 1 .. c - 1 \/ more \in c .. hi
          BY <3>1, <4>2
        <4>6. QED
          BY <3>1, <4>2, <4>3, <4>4, <4>5
      <3>5. QED
        BY <3>3, <3>4
    <2>7. QED
      BY <2>5, <2>6
  <1>3. Good(0, top)
    <2>1. 0 + top = top /\ 0 \in 0..top /\ top \in 0..top
      OBVIOUS
    <2>2. top \notin bad
      <3> HIDE DEF bad
      <3>1. QED
        BY <1>2
    <2> HIDE DEF Good
    <2>3. QED
      BY <2>1, <2>2
  <1>4. QED
    BY <1>3

\* The deployment's bisection ends at a price between its ends.
LEMMA FirstPrice ==
    ASSUME NEW price, NEW rwa0, NEW min \in Nat, NEW max \in Nat, min <= max
    PROVE  sqrtPriceAtE18(price, rwa0, min, max) \in min..max
  <1> DEFINE D == (min..max) \X (min..max)
             mid(r) == (r[1] + r[2]) \div 2
             over(x) == IF rwa0 THEN rwaPriceE18(x, rwa0) > price ELSE rwaPriceE18(x, rwa0) < price
             m == [r \in D |-> IF r[2] - r[1] <= 1 THEN 0 ELSE r[2] - r[1]]
             stop == [r \in D |-> r[2] - r[1] <= 1]
             out == [r \in D |-> r[1]]
             next == [r \in D |-> IF over(mid(r)) THEN <<r[1], mid(r)>> ELSE <<mid(r), r[2]>>]
             Solves(f) == f = [r \in D |-> IF r[2] - r[1] <= 1 THEN r[1]
                                           ELSE IF over(mid(r)) THEN f[<<r[1], mid(r)>>]
                                                ELSE f[<<mid(r), r[2]>>]]
  <1>1. sqrtPriceAtE18(price, rwa0, min, max) = (CHOOSE f : Solves(f))[<<min, max>>]
    BY Zenon DEF sqrtPriceAtE18
  <1>2. ASSUME NEW r \in D
        PROVE  /\ r[1] \in min..max /\ r[2] \in min..max /\ m[r] \in 0..max
               /\ stop[r] \/ (next[r] \in D /\ m[next[r]] < m[r])
    <2>1. r[1] \in min..max /\ r[2] \in min..max
      OBVIOUS
    <2>2. m[r] \in 0..max
      BY <2>1
    <2>3. CASE ~(r[2] - r[1] <= 1)
      <3>1. /\ mid(r) \in min..max
            /\ r[2] - mid(r) < r[2] - r[1] /\ mid(r) - r[1] < r[2] - r[1]
        BY <2>1, <2>3
      <3>2. m[r] = r[2] - r[1]
        BY <2>1, <2>3
      <3> HIDE DEF mid, over
      <3>3. next[r] = IF over(mid(r)) THEN <<r[1], mid(r)>> ELSE <<mid(r), r[2]>>
        OBVIOUS
      <3>4. /\ <<mid(r), r[2]>> \in D /\ <<r[1], mid(r)>> \in D
            /\ m[<<mid(r), r[2]>>] < r[2] - r[1] /\ m[<<r[1], mid(r)>>] < r[2] - r[1]
        BY <2>1, <2>3, <3>1
      <3> HIDE DEF m, next, D
      <3>5. CASE over(mid(r))
        BY <2>1, <2>2, <3>2, <3>3, <3>4, <3>5
      <3>6. CASE ~over(mid(r))
        BY <2>1, <2>2, <3>2, <3>3, <3>4, <3>6
      <3>7. QED
        BY <3>5, <3>6
    <2>4. QED
      BY <2>1, <2>2, <2>3
  <1>3. PICK g : Loop(D, stop, out, next, g)
    <2> HIDE DEF D, m, stop, out, next
    <2>1. Ends(D, m, stop, next, max)
      BY <1>2, Zenon DEF Ends
    <2>2. QED
      BY <2>1, LoopExists
  <1>4. Solves(g)
    <2>1. ASSUME NEW r \in D
          PROVE  g[r] = IF r[2] - r[1] <= 1 THEN r[1]
                        ELSE IF over(mid(r)) THEN g[<<r[1], mid(r)>>] ELSE g[<<mid(r), r[2]>>]
      <3> HIDE DEF mid, over
      <3>1. g[r] = IF stop[r] THEN out[r] ELSE g[next[r]]
        <4> HIDE DEF stop, out, next, D
        <4>1. QED
          BY <1>3, Zenon DEF Loop
      <3>2. stop[r] = (r[2] - r[1] <= 1) /\ out[r] = r[1]
        OBVIOUS
      <3>3. next[r] = IF over(mid(r)) THEN <<r[1], mid(r)>> ELSE <<mid(r), r[2]>>
        OBVIOUS
      <3> HIDE DEF stop, out, next
      <3>4. QED
        BY <3>1, <3>2, <3>3
    <2>2. g = [r \in D |-> g[r]]
      <3> HIDE DEF stop, out, next, D
      <3>1. QED
        BY <1>3 DEF Loop
    <2> HIDE DEF D, mid, over
    <2>3. QED
      BY <2>1, <2>2, Zenon
  <1>5. PICK f : Solves(f) /\ f = CHOOSE h : Solves(h)
    <2> HIDE DEF Solves
    <2>1. QED
      BY <1>4, Zenon
  <1>6. ASSUME NEW r \in D
        PROVE  f[r] = IF r[2] - r[1] <= 1 THEN r[1]
                      ELSE IF over(mid(r)) THEN f[<<r[1], mid(r)>>] ELSE f[<<mid(r), r[2]>>]
    <2> HIDE DEF D, mid, over
    <2>1. QED
      BY <1>5, Zenon
  <1>7. ASSUME NEW r \in D
        PROVE  f[r] = IF stop[r] THEN out[r] ELSE f[next[r]]
    <2> HIDE DEF mid, over
    <2>1. stop[r] = (r[2] - r[1] <= 1) /\ out[r] = r[1]
      OBVIOUS
    <2>2. next[r] = IF over(mid(r)) THEN <<r[1], mid(r)>> ELSE <<mid(r), r[2]>>
      OBVIOUS
    <2> HIDE DEF stop, out, next
    <2>3. QED
      BY <1>6, <2>1, <2>2
  <1> DEFINE bad == {n \in Nat : \E r \in D : m[r] = n /\ f[r] \notin min..max}
  <1>8. bad = {}
    <2> SUFFICES ASSUME bad # {} PROVE FALSE
      OBVIOUS
    <2> HIDE DEF m, stop, next, Solves
    <2>1. PICK n \in bad : \A k \in bad : n <= k
      <3>1. bad \subseteq Nat
        OBVIOUS
      <3> HIDE DEF bad
      <3>2. QED
        BY <3>1, LeastOf, Zenon
    <2>2. PICK r \in D : m[r] = n /\ f[r] \notin min..max
      BY <2>1
    <2>3. r[1] \in min..max /\ out[r] = r[1]
      BY <1>2
    <2>4. ~stop[r] /\ f[r] = f[next[r]]
      BY <1>7, <2>2, <2>3
    <2>5. next[r] \in D /\ m[next[r]] < n /\ m[next[r]] \in Nat
      <3> HIDE DEF D
      <3>1. QED
        BY <1>2, <2>2, <2>4
    <2>6. m[next[r]] \in bad
      <3> HIDE DEF D
      <3>1. QED
        BY <2>2, <2>4, <2>5
    <2> HIDE DEF bad
    <2>7. n \in Nat
      <3>1. QED
        BY <1>2, <2>2
    <2>8. QED
      BY <2>1, <2>5, <2>6, <2>7
  <1>9. <<min, max>> \in D
    OBVIOUS
  <1>10. f[<<min, max>>] \in min..max
    <2>1. m[<<min, max>>] \in Nat
      BY <1>2, <1>9
    <2> HIDE DEF D, m, Solves
    <2>2. QED
      BY <1>8, <1>9, <2>1
  <1>11. QED
    BY <1>1, <1>5, <1>10

-----------------------------------------------------------------------------
(* The previews                                                            *)

\* More shares cost no less.
LEMMA DepositGrows ==
    ASSUME VaultInv, vault.supply > 0, NEW x \in Nat \ {0}, NEW s \in Nat, NEW t \in Nat, s <= t,
           NEW i \in Tokens
    PROVE  /\ previewDeposit(x, s)[i] \in Nat
           /\ previewDeposit(x, s)[i] <= previewDeposit(x, t)[i]
  <1>1. /\ vault.supply \in Nat \ {0} /\ vault.liquidity \in Nat /\ Idle[i] \in Nat
    BY CountedTypes DEF Pair
  <1>2. ASSUME NEW a \in Nat
        PROVE  Share(a, s) \in Nat /\ Share(a, t) \in Nat /\ Share(a, s) <= Share(a, t)
    <2>1. a * s \in Nat /\ a * t \in Nat /\ a * s <= a * t
      BY Product, ProductGrows
    <2>2. QED
      BY <1>1, <2>1, Ceiling, DivGrows DEF Share
  <1>3. ASSUME NEW l \in Nat, NEW n \in Nat, l <= n
        PROVE  Cost(x, l)[i] \in Nat /\ Cost(x, n)[i] \in Nat /\ Cost(x, l)[i] <= Cost(x, n)[i]
    <2>1. n - l \in Nat /\ l + (n - l) = n
      BY <1>3
    <2>2. QED
      BY <2>1, PositionAmounts
  <1>4. \A u : previewDeposit(x, u)[i] = Cost(x, Share(vault.liquidity, u))[i] + Share(Idle[i], u)
    BY <1>1 DEF previewDeposit, PreviewIdle, Plus, Cost
  <1>5. /\ Cost(x, Share(vault.liquidity, s))[i] \in Nat
        /\ Cost(x, Share(vault.liquidity, t))[i] \in Nat
        /\ Cost(x, Share(vault.liquidity, s))[i] <= Cost(x, Share(vault.liquidity, t))[i]
    BY <1>1, <1>2, <1>3
  <1>6. /\ Share(Idle[i], s) \in Nat /\ Share(Idle[i], t) \in Nat
        /\ Share(Idle[i], s) <= Share(Idle[i], t)
    BY <1>1, <1>2
  <1>7. QED
    BY <1>4, <1>5, <1>6

\* Holding one unit back leaves tokens, and no more than there were.
LEMMA HeldBackFits ==
    ASSUME NEW p \in Pair
    PROVE  HeldBack(p) \in Pair /\ Fits(HeldBack(p), p)
  BY DEF HeldBack, Fits, Pair, Tokens

\* The bisection's answer fits what the depositor has, and no larger one does.
LEMMA SharesFit ==
    ASSUME VaultInv, NEW x \in Nat \ {0}, NEW max \in Pair
    PROVE  LET top == IF vault.supply = 0 THEN liquidityForAmounts(x, max)
                      ELSE (liquidityForAmounts(x, max) * vault.supply) \div vault.liquidity
               s == sharesForAmounts(x, max)
           IN /\ s > 0 => s \in 1 .. top /\ Fits(previewDeposit(x, s), max)
              /\ vault.supply > 0 => \A more \in s + 1 .. top : ~Fits(previewDeposit(x, more), max)
  <1> DEFINE s == sharesForAmounts(x, max)
             most == liquidityForAmounts(x, max)
  <1>1. /\ vault.supply \in Nat /\ vault.liquidity \in Nat /\ vault.liquidity >= vault.supply
        /\ MinShares \in Nat
    BY CountedTypes, VaultAssumption DEF VaultAssumption
  <1>2. HeldBack(max) \in Pair /\ Fits(HeldBack(max), max) /\ Fits(max, max)
    BY HeldBackFits DEF Fits, Pair
  <1>3. most \in Nat
    BY <1>2, PositionBought
  <1>4. CASE vault.supply = 0
    <2> DEFINE first == liquidityForAmounts(x, HeldBack(max))
    <2>1. s = IF first > MinShares THEN first ELSE 0
      BY <1>4, Zenon DEF sharesForAmounts
    <2>2. first \in Nat /\ first <= most /\ Fits(Cost(x, first), HeldBack(max))
      BY <1>2, PositionBought
    <2>3. Fits(Cost(x, first), max)
      <3>1. \A i \in Tokens : Cost(x, first)[i] \in Nat
        BY <2>2, PositionAmounts
      <3> HIDE DEF first
      <3>2. QED
        BY <1>2, <2>2, <3>1 DEF Fits, Pair
    <2>4. previewDeposit(x, first) = Cost(x, first)
      BY <1>4 DEF previewDeposit, Cost
    <2> HIDE DEF s, most, first
    <2>5. s > 0 => s \in 1 .. most /\ Fits(previewDeposit(x, s), max)
      BY <1>1, <1>3, <2>1, <2>2, <2>3, <2>4
    <2>6. QED
      BY <1>4, <2>5 DEF s, most
  <1>5. CASE vault.supply # 0
    <2> DEFINE top == (most * vault.supply) \div vault.liquidity
               mid(r) == r[2] - (r[2] - r[1]) \div 2
               Solves(f) == f = [r \in (0..top) \X (0..top) |->
                                   IF r[1] >= r[2] THEN r[1]
                                   ELSE IF Fits(previewDeposit(x, mid(r)), max) THEN f[<<mid(r), r[2]>>]
                                   ELSE f[<<r[1], mid(r) - 1>>]]
               F == {n \in Nat : Fits(previewDeposit(x, n), max)}
    <2>1. top \in Nat
      <3>1. most * vault.supply \in Nat /\ vault.liquidity \in Nat \ {0}
        BY <1>1, <1>3, <1>5, Product
      <3> HIDE DEF most
      <3>2. QED
        BY <3>1, Floor
    <2>2. s = (CHOOSE f : Solves(f))[<<0, top>>]
      BY <1>5, Zenon DEF sharesForAmounts
    <2> HIDE DEF top, s
    <2>3. \A f : Solves(f) <=> Seek(top, F, f)
      <3>1. ASSUME NEW r \in (0..top) \X (0..top), ~(r[1] >= r[2])
            PROVE  mid(r) \in F <=> Fits(previewDeposit(x, mid(r)), max)
        <4>1. r[1] \in 0..top /\ r[2] \in 0..top
          OBVIOUS
        <4>2. mid(r) \in Nat
          BY <2>1, <3>1, <4>1
        <4> HIDE DEF mid
        <4>3. QED
          BY <4>2
      <3>2. ASSUME NEW f
            PROVE  [r \in (0..top) \X (0..top) |->
                      IF r[1] >= r[2] THEN r[1]
                      ELSE IF Fits(previewDeposit(x, mid(r)), max) THEN f[<<mid(r), r[2]>>]
                      ELSE f[<<r[1], mid(r) - 1>>]]
                   = [r \in (0..top) \X (0..top) |->
                      IF r[1] >= r[2] THEN r[1]
                      ELSE IF mid(r) \in F THEN f[<<mid(r), r[2]>>]
                      ELSE f[<<r[1], mid(r) - 1>>]]
        <4> HIDE DEF F, mid
        <4>1. QED
          BY <3>1, Zenon
      <3>3. QED
        BY <3>2, Zenon DEF Seek
    <2>4. PICK f : Seek(top, F, f) /\ f = CHOOSE h : Solves(h)
      <3>1. \E g : Seek(top, F, g)
        <4> HIDE DEF F
        <4>1. QED
          BY <2>1, SearchExists
      <3> HIDE DEF Solves
      <3>2. QED
        BY <2>3, <3>1, Zenon
    <2>5. \A a, b \in 0..top : a <= b /\ b \in F => a \in F
      <3> SUFFICES ASSUME NEW a \in 0..top, NEW b \in 0..top, a <= b, Fits(previewDeposit(x, b), max)
                   PROVE  Fits(previewDeposit(x, a), max)
        BY <2>1
      <3>1. ASSUME NEW i \in Tokens PROVE previewDeposit(x, a)[i] <= max[i]
        <4>1. a \in Nat /\ b \in Nat /\ vault.supply > 0
          BY <1>1, <1>5, <2>1
        <4>2. /\ previewDeposit(x, a)[i] \in Nat /\ previewDeposit(x, b)[i] \in Nat
              /\ previewDeposit(x, a)[i] <= previewDeposit(x, b)[i]
          BY <4>1, DepositGrows
        <4>3. previewDeposit(x, b)[i] <= max[i] /\ max[i] \in Nat
          BY DEF Fits, Pair
        <4>4. QED
          BY <4>2, <4>3
      <3>2. QED
        BY <3>1 DEF Fits
    <2>6. /\ s \in 0..top /\ (s > 0 => s \in F)
          /\ \A more \in s + 1 .. top : more \notin F
      <3>1. s = f[<<0, top>>]
        <4> HIDE DEF Solves
        <4>1. QED
          BY <2>2, <2>4
      <3>2. /\ f[<<0, top>>] \in 0..top
            /\ f[<<0, top>>] > 0 => f[<<0, top>>] \in F
            /\ \A more \in f[<<0, top>>] + 1 .. top : more \notin F
        <4> HIDE DEF F, Solves
        <4>1. QED
          BY <2>1, <2>4, <2>5, SearchFinds
      <3> HIDE DEF F, Solves
      <3>3. QED
        BY <3>1, <3>2
    <2>7. /\ s > 0 => s \in 1..top /\ Fits(previewDeposit(x, s), max)
          /\ \A more \in s + 1 .. top : ~Fits(previewDeposit(x, more), max)
      BY <2>1, <2>6
    <2>8. QED
      BY <1>5, <2>7 DEF s, top
  <1>6. QED
    BY <1>4, <1>5

\* What compounding adds can be paid.
LEMMA CompoundFits ==
    ASSUME VaultInv, NEW x \in Nat \ {0}
    PROVE  Compounded(x) \in Nat /\ Fits(CompoundCost(x), Idle)
  <1>1. Idle \in Pair
    BY CountedTypes
  <1> DEFINE held == HeldBack(Idle)
  <1>2. held \in Pair /\ Fits(held, Idle) /\ Fits(held, held)
    BY <1>1, HeldBackFits DEF Fits, Pair
  <1>3. Compounded(x) = liquidityForAmounts(x, held) /\ CompoundCost(x) = Cost(x, Compounded(x))
    BY DEF Compounded, CompoundCost, Cost
  <1> HIDE DEF held
  <1>4. Compounded(x) \in Nat /\ Fits(CompoundCost(x), held)
    BY <1>2, <1>3, PositionBought
  <1>5. \A i \in Tokens : CompoundCost(x)[i] \in Nat
    BY <1>3, <1>4, PositionAmounts
  <1>6. QED
    BY <1>1, <1>2, <1>4, <1>5 DEF Fits, Pair

\* The previews are kept, whatever price the traders leave and whatever lies idle.
LEMMA PreviewsKept ==
    ASSUME VaultInv, pool.created => pool.sqrtP \in Nat \ {0}
    PROVE  PreviewTrue
  <1> SUFFICES ASSUME pool.created PROVE PreviewTrue
    BY DEF PreviewTrue
  <1> DEFINE x == pool.sqrtP
  <1>1. x \in Nat \ {0}
    OBVIOUS
  <1> HIDE DEF x
  <1>2. /\ vault.supply \in Nat /\ vault.liquidity \in Nat /\ Idle \in Pair /\ vault.fees \in Pair
        /\ Sizes \subseteq Nat /\ Amounts \subseteq Nat
    BY CountedTypes, LpAssumption DEF LpAssumption
  <1>3. \A s \in Sizes : Fits(DepositCost(x, s), previewDeposit(x, s))
    <2> TAKE s \in Sizes
    <2>1. CASE vault.supply = 0
      <3>1. ASSUME NEW i \in Tokens PROVE DepositCost(x, s)[i] <= previewDeposit(x, s)[i]
        <4>1. DepositCost(x, s)[i] = Cost(x, s)[i] - vault.fees[i]
          BY <2>1 DEF DepositCost, Cost
        <4>2. previewDeposit(x, s)[i] = Cost(x, s)[i]
          BY <2>1 DEF previewDeposit, Cost
        <4>3. Cost(x, s)[i] \in Nat /\ vault.fees[i] \in Nat
          BY <1>1, <1>2, PositionAmounts DEF Pair
        <4>4. QED
          BY <4>1, <4>2, <4>3
      <3>2. QED
        BY <3>1 DEF Fits
    <2>2. CASE vault.supply # 0
      <3>1. DepositCost(x, s) = previewDeposit(x, s)
        BY <2>2, Zenon DEF DepositCost, previewDeposit, PreviewIdle
      <3>2. s \in Nat /\ vault.supply > 0
        BY <1>2, <2>2
      <3>3. ASSUME NEW i \in Tokens PROVE previewDeposit(x, s)[i] <= previewDeposit(x, s)[i]
        BY <1>1, <3>2, DepositGrows
      <3>4. QED
        BY <3>1, <3>3 DEF Fits
    <2>3. QED
      BY <2>1, <2>2
  <1>4. vault.supply > 0 => \A s \in 1 .. vault.supply : WithdrawPays(x, s) = previewWithdraw(x, s)
    <2> SUFFICES ASSUME vault.supply > 0, NEW s \in 1 .. vault.supply
                 PROVE  WithdrawPays(x, s) = previewWithdraw(x, s)
      OBVIOUS
    <2>1. vault.supply # 0
      BY <1>2
    <2>2. QED
      BY <2>1, Zenon DEF WithdrawPays, previewWithdraw, PreviewIdle
  <1> DEFINE top(max) == IF vault.supply = 0 THEN liquidityForAmounts(x, max)
                         ELSE (liquidityForAmounts(x, max) * vault.supply) \div vault.liquidity
             Found(max, s) == /\ s > 0 => s \in 1 .. top(max) /\ Fits(previewDeposit(x, s), max)
                              /\ vault.supply > 0 =>
                                   \A more \in s + 1 .. top(max) : ~Fits(previewDeposit(x, more), max)
  <1>5. \A max \in [Tokens -> Amounts] : Found(max, sharesForAmounts(x, max))
    <2> TAKE max \in [Tokens -> Amounts]
    <2>1. max \in Pair
      BY <1>2 DEF Pair
    <2>2. QED
      BY <1>1, <2>1, SharesFit, Zenon
  <1>6. Compounded(x) \in Nat /\ Fits(CompoundCost(x), Idle)
    BY <1>1, CompoundFits
  <1> DEFINE after == Plus(amountsForLiquidity(x, vault.liquidity + Compounded(x), FALSE),
                           [i \in Tokens |-> Idle[i] - CompoundCost(x)[i]])
  <1>7. \A i \in Tokens : after[i] + 1 >= totalAmounts(x)[i]
    <2> TAKE i \in Tokens
    <2>1. after[i] = Pays(x, vault.liquidity + Compounded(x))[i] + (Idle[i] - CompoundCost(x)[i])
      BY DEF Plus, Pays
    <2>2. totalAmounts(x)[i] = Pays(x, vault.liquidity)[i] + Idle[i]
      BY DEF totalAmounts, Plus, Pays
    <2>3. CompoundCost(x)[i] = Cost(x, Compounded(x))[i]
      BY DEF CompoundCost, Cost
    <2>4. /\ Pays(x, vault.liquidity)[i] \in Nat /\ Cost(x, Compounded(x))[i] \in Nat
          /\ Pays(x, vault.liquidity + Compounded(x))[i] \in Nat
          /\ Pays(x, vault.liquidity)[i] + Cost(x, Compounded(x))[i]
               <= Pays(x, vault.liquidity + Compounded(x))[i] + 1
      <3>1. vault.liquidity + Compounded(x) \in Nat
        BY <1>2, <1>6
      <3>2. QED
        BY <1>1, <1>2, <1>6, <3>1, PositionAmounts
    <2>5. Idle[i] \in Nat
      BY <1>2 DEF Pair
    <2> HIDE DEF after
    <2>6. QED
      BY <2>1, <2>2, <2>3, <2>4, <2>5
  <1>8. QED
    BY <1>3, <1>4, <1>5, <1>6, <1>7, Zenon DEF PreviewTrue, x

-----------------------------------------------------------------------------
(* The hook, the token and the reference                                   *)

Values == Multipliers \cup {1}
Hooks == [quote : BOOLEAN, source : BOOLEAN]
Pools == [created : {TRUE}, halted : BOOLEAN, gate : Gates, fees : FeeSchedule,
          rwa0 : BOOLEAN, bStock : BOOLEAN, sqrtP : Nat \ {0}]

\* A created pool's schedule was validated, whoever set it.
PoolInv == pool = NoPool \/ (pool \in Pools /\ ValidFees(pool.fees))

\* What the token says of an instant is what was in force at it, unless a change since is so
\* old that the issuer could schedule the next one.
TokenInv ==
    /\ now \in Nat /\ token \in [mult : Values, next : Values, at : Nat, broken : BOOLEAN]
    /\ DOMAIN seen \subseteq 0..now
    /\ \A i \in DOMAIN seen : seen[i] \in Values /\ (now - i <= Quiet => seen[i] = MultiplierAt(i))

\* What is posted is a share's price at an instant that was.
OracleInv ==
    /\ oracle \in [source : Sources, share : Nat, at : Nat, mult : Nat]
    /\ oracle.at # 0 => /\ oracle.at \in DOMAIN seen
                        /\ oracle.share = Worth \div seen[oracle.at]
                        /\ oracle.mult \in Multipliers
HookInv == PoolInv /\ TokenInv /\ OracleInv /\ deploy \in 1 .. Len(Steps) /\ hook \in Hooks

LEMMA HookInitially ==
    ASSUME LpInit
    PROVE  HookInv
  <1>1. PICK focus \in Foci :
          /\ HookStart(focus.start, ~focus.script)
          /\ IF focus.script THEN pool = NoPool /\ deploy = 1 ELSE Ready(focus.fees)
    BY DEF LpInit
  <1>2. focus.start \in Nat /\ (~focus.script => focus.fees \in FeeSchedule /\ ValidFees(focus.fees))
    BY LpAssumption DEF LpAssumption
  <1>3. Len(Steps) = 6
    BY DEF Steps
  <1>4. deploy \in 1 .. Len(Steps)
    <2>1. CASE focus.script
      BY <1>1, <1>3, <2>1
    <2>2. CASE ~focus.script
      <3>1. Ready(focus.fees)
        BY <1>1, <2>2
      <3>2. deploy = Len(Steps)
        BY <3>1, Zenon DEF Ready
      <3>3. QED
        BY <1>3, <3>2
    <2>3. QED
      BY <2>1, <2>2
  <1>5. PoolInv
    <2>1. CASE focus.script
      BY <1>1, <2>1 DEF PoolInv
    <2>2. CASE ~focus.script
      <3> DEFINE x == sqrtPriceAtE18(Worth, TRUE, MinSqrtPrice, MaxSqrtPrice)
      <3>1. x \in Nat \ {0}
        <4>1. MinSqrtPrice \in Nat \ {0} /\ MaxSqrtPrice \in Nat /\ MinSqrtPrice <= MaxSqrtPrice
          BY HookAssumption DEF HookAssumption
        <4>2. x \in MinSqrtPrice .. MaxSqrtPrice
          BY <4>1, FirstPrice
        <4> HIDE DEF x
        <4>3. QED
          BY <4>1, <4>2
      <3>2. pool \in Pools /\ pool.fees = focus.fees
        <4>1. Ready(focus.fees)
          BY <1>1, <2>2
        <4>2. pool = [created |-> TRUE, halted |-> FALSE, gate |-> "vault", fees |-> focus.fees,
                      rwa0 |-> TRUE, bStock |-> FALSE, sqrtP |-> x]
          BY <4>1, Zenon DEF Ready
        <4> HIDE DEF x
        <4>3. QED
          BY <1>2, <2>2, <3>1, <4>2 DEF Pools, Gates
      <3>3. QED
        BY <1>2, <2>2, <3>2 DEF PoolInv
    <2>3. QED
      BY <2>1, <2>2
  <1>6. TokenInv
    <2>1. now \in Nat /\ token = [mult |-> 1, next |-> 1, at |-> 0, broken |-> FALSE]
          /\ seen = [i \in {now} |-> 1]
      BY <1>1, <1>2 DEF HookStart
    <2>2. QED
      BY <2>1 DEF TokenInv, Values, MultiplierAt
  <1>7. OracleInv
    BY <1>1 DEF HookStart, OracleInv, Sources
  <1>8. hook \in Hooks
    <2>1. (~focus.script) \in BOOLEAN
      OBVIOUS
    <2>2. QED
      BY <1>1, <2>1 DEF HookStart, Hooks
  <1>9. QED
    BY <1>4, <1>5, <1>6, <1>7, <1>8 DEF HookInv

\* An issuer's change: what was in force stays in force until it takes effect.
LEMMA ScheduleKeeps ==
    ASSUME HookInv, NEW mult \in Multipliers, NEW at \in Instants, ScheduleChange(mult, at)
    PROVE  HookInv'
  <1> USE DEF HookInv
  <1>1. at \in Nat /\ Quiet \in Nat
    BY HookAssumption DEF HookAssumption
  <1>2. /\ now \in Nat /\ token \in [mult : Values, next : Values, at : Nat, broken : BOOLEAN]
        /\ mult \in Values /\ now < at /\ UNCHANGED <<now, seen, oracle, hook, pool, deploy>>
        /\ token.at # 0 /\ token.at <= now => now - token.at >= Quiet
    BY DEF TokenInv, ScheduleChange, Values
  <1>3. MultiplierAt(now) \in Values
    BY <1>2 DEF MultiplierAt
  <1>4. token' = [token EXCEPT !.mult = MultiplierAt(now), !.next = mult, !.at = at]
    BY DEF ScheduleChange
  <1>5. /\ token' \in [mult : Values, next : Values, at : Nat, broken : BOOLEAN]
        /\ token'.mult = MultiplierAt(now) /\ token'.at = at
    BY <1>1, <1>2, <1>3, <1>4
  <1>6. ASSUME NEW i \in DOMAIN seen
        PROVE  seen'[i] \in Values /\ (now' - i <= Quiet => seen'[i] = MultiplierAt(i)')
    <2>1. i \in 0..now /\ seen[i] \in Values /\ (now - i <= Quiet => seen[i] = MultiplierAt(i))
      BY DEF TokenInv
    <2>2. MultiplierAt(i)' = MultiplierAt(now)
      BY <1>1, <1>2, <1>5, <2>1 DEF MultiplierAt
    <2>3. now - i <= Quiet => MultiplierAt(i) = MultiplierAt(now)
      BY <1>1, <1>2, <2>1 DEF MultiplierAt
    <2>4. QED
      BY <1>2, <2>1, <2>2, <2>3
  <1>7. TokenInv'
    BY <1>2, <1>5, <1>6 DEF TokenInv
  <1>8. PoolInv' /\ OracleInv' /\ deploy' \in 1 .. Len(Steps) /\ hook' \in Hooks
    BY <1>2 DEF PoolInv, OracleInv
  <1>9. QED
    BY <1>7, <1>8

\* Time goes on.
LEMMA TickKeeps ==
    ASSUME HookInv, NEW t \in Nat, Tick(t)
    PROVE  HookInv'
  <1> USE DEF HookInv
  <1>1. /\ now \in Nat /\ token \in [mult : Values, next : Values, at : Nat, broken : BOOLEAN]
        /\ DOMAIN seen \subseteq 0..now /\ Quiet \in Nat
    BY HookAssumption DEF TokenInv, HookAssumption
  <1>2. /\ t > now /\ now' = t /\ UNCHANGED <<token, oracle, hook, pool, deploy>>
        /\ seen' = [i \in DOMAIN seen \cup {t} |-> IF i = t THEN MultiplierAt(t) ELSE seen[i]]
    BY DEF Tick
  <1>3. DOMAIN seen' = DOMAIN seen \cup {t} /\ \A i \in DOMAIN seen : seen'[i] = seen[i]
    BY <1>1, <1>2
  <1>4. \A i : MultiplierAt(i)' = MultiplierAt(i)
    BY <1>2 DEF MultiplierAt
  <1>5. ASSUME NEW i \in DOMAIN seen'
        PROVE  seen'[i] \in Values /\ (now' - i <= Quiet => seen'[i] = MultiplierAt(i)')
    <2>1. CASE i = t
      <3>1. seen'[i] = MultiplierAt(t)
        BY <1>2, <2>1
      <3>2. MultiplierAt(t) \in Values
        BY <1>1 DEF MultiplierAt
      <3>3. QED
        BY <1>4, <2>1, <3>1, <3>2
    <2>2. CASE i # t
      <3>1. i \in DOMAIN seen /\ seen'[i] = seen[i] /\ i \in 0..now
        BY <1>1, <1>3, <2>2
      <3>2. seen[i] \in Values /\ (now - i <= Quiet => seen[i] = MultiplierAt(i))
        BY <3>1 DEF TokenInv
      <3>3. now' - i <= Quiet => now - i <= Quiet
        BY <1>1, <1>2, <3>1
      <3>4. QED
        BY <1>4, <3>1, <3>2, <3>3
    <2>3. QED
      BY <2>1, <2>2
  <1>6. TokenInv'
    <2>1. DOMAIN seen' \subseteq 0..now'
      BY <1>1, <1>2, <1>3
    <2>2. QED
      BY <1>1, <1>2, <1>5, <2>1 DEF TokenInv
  <1>7. OracleInv'
    BY <1>2, <1>3 DEF OracleInv
  <1>8. PoolInv' /\ deploy' \in 1 .. Len(Steps) /\ hook' \in Hooks
    BY <1>2 DEF PoolInv
  <1>9. QED
    BY <1>6, <1>7, <1>8

LEMMA ValuesPositive == Values \subseteq Nat \ {0}
  BY HookAssumption DEF HookAssumption, Values

\* A reporter's post.
LEMMA PostKeeps ==
    ASSUME HookInv, NEW at \in DOMAIN seen, NEW m \in Multipliers, Post(at, m)
    PROVE  HookInv'
  <1> USE DEF HookInv
  <1>1. /\ oracle' = [oracle EXCEPT !.share = Worth \div seen[at], !.at = at, !.mult = m]
        /\ UNCHANGED <<now, token, seen, hook, pool, deploy>>
    BY DEF Post
  <1>2. at \in Nat /\ seen[at] \in Nat \ {0} /\ Worth \in Nat /\ m \in Nat
    <2>1. Multipliers \subseteq Nat \ {0} /\ Worth \in Nat
      BY HookAssumption DEF HookAssumption
    <2>2. DOMAIN seen \subseteq 0..now /\ now \in Nat /\ seen[at] \in Values
      BY DEF TokenInv
    <2>3. at \in Nat
      BY <2>2
    <2>4. seen[at] \in Nat \ {0}
      BY <2>2, ValuesPositive
    <2>5. QED
      BY <2>1, <2>3, <2>4
  <1>3. Worth \div seen[at] \in Nat
    BY <1>2, Floor
  <1>4. OracleInv'
    <2>1. oracle \in [source : Sources, share : Nat, at : Nat, mult : Nat]
      BY DEF OracleInv
    <2>2. /\ oracle' \in [source : Sources, share : Nat, at : Nat, mult : Nat]
          /\ oracle'.at = at /\ oracle'.share = Worth \div seen[at] /\ oracle'.mult = m
      BY <1>1, <1>2, <1>3, <2>1
    <2>3. QED
      BY <1>1, <2>2 DEF OracleInv
  <1>5. TokenInv' /\ PoolInv' /\ deploy' \in 1 .. Len(Steps) /\ hook' \in Hooks
    BY <1>1 DEF TokenInv, PoolInv, MultiplierAt
  <1>6. QED
    BY <1>4, <1>5

\* Whoever changes the pool changes a created one, and a new schedule is validated.
LEMMA PoolKeeps ==
    ASSUME HookInv,
           \/ \E z \in BOOLEAN, x \in SqrtPrices : Swap(z, x)
           \/ \E h \in BOOLEAN : SetHalted(h)
           \/ \E f \in Schedules : SetFeeSchedule(f)
           \/ \E g \in Gates : SetLiquidityGate(g)
    PROVE  HookInv'
  <1> USE DEF HookInv
  <1>1. UNCHANGED <<now, token, seen, oracle, hook, deploy>> /\ pool.created
    BY DEF Swap, SetHalted, SetFeeSchedule, SetLiquidityGate, Pool
  <1>2. pool \in Pools /\ ValidFees(pool.fees)
    BY <1>1 DEF PoolInv, NoPool
  <1>3. SqrtPrices \subseteq Nat \ {0} /\ Schedules \subseteq FeeSchedule
    BY HookAssumption DEF HookAssumption
  <1>4. pool' \in Pools /\ ValidFees(pool'.fees)
    <2>1. CASE \E z \in BOOLEAN, x \in SqrtPrices : Swap(z, x)
      BY <1>2, <1>3, <2>1 DEF Swap, Pools
    <2>2. CASE \E h \in BOOLEAN : SetHalted(h)
      BY <1>2, <2>2 DEF SetHalted, Pool, Pools
    <2>3. CASE \E f \in Schedules : SetFeeSchedule(f)
      <3>1. PICK f \in Schedules : ValidFees(f) /\ pool' = [pool EXCEPT !.fees = f]
        BY <2>3 DEF SetFeeSchedule, Pool
      <3>2. pool' \in Pools /\ pool'.fees = f
        BY <1>2, <1>3, <3>1 DEF Pools
      <3>3. QED
        BY <3>1, <3>2
    <2>4. CASE \E g \in Gates : SetLiquidityGate(g)
      BY <1>2, <2>4 DEF SetLiquidityGate, Pool, Pools
    <2>5. QED
      BY <2>1, <2>2, <2>3, <2>4
  <1>5. PoolInv'
    BY <1>4 DEF PoolInv
  <1>6. TokenInv' /\ OracleInv' /\ deploy' \in 1 .. Len(Steps) /\ hook' \in Hooks
    BY <1>1 DEF TokenInv, OracleInv, MultiplierAt
  <1>7. QED
    BY <1>5, <1>6

\* The owner's other settings touch neither the pool nor what is posted.
LEMMA OwnerKeeps ==
    ASSUME HookInv, deploy' \in 1 .. Len(Steps),
           \/ \E b \in BOOLEAN : SetQuoteToken(b) \/ SetReferenceSource(b)
           \/ \E s \in Sources : ConfigureToken(s)
           \/ OwnerSetsCalendar \/ Break
    PROVE  HookInv'
  <1> USE DEF HookInv
  <1>1. UNCHANGED <<now, seen, pool>>
        /\ (UNCHANGED token \/ token' = [token EXCEPT !.broken = ~@])
        /\ (UNCHANGED oracle \/ \E s \in Sources : oracle' = [oracle EXCEPT !.source = s])
        /\ (UNCHANGED hook \/ \E b \in BOOLEAN : hook' = [hook EXCEPT !.quote = b]
                                                 \/ hook' = [hook EXCEPT !.source = b])
    BY DEF SetQuoteToken, SetReferenceSource, ConfigureToken, OwnerSetsCalendar, Break
  <1>2. TokenInv'
    <2>1. token \in [mult : Values, next : Values, at : Nat, broken : BOOLEAN]
      BY DEF TokenInv
    <2>2. /\ token' \in [mult : Values, next : Values, at : Nat, broken : BOOLEAN]
          /\ token'.mult = token.mult /\ token'.next = token.next /\ token'.at = token.at
      BY <1>1, <2>1
    <2>3. \A i : MultiplierAt(i)' = MultiplierAt(i)
      BY <2>2 DEF MultiplierAt
    <2>4. QED
      BY <1>1, <2>2, <2>3 DEF TokenInv
  <1>3. OracleInv'
    <2>1. oracle \in [source : Sources, share : Nat, at : Nat, mult : Nat]
      BY DEF OracleInv
    <2>2. /\ oracle' \in [source : Sources, share : Nat, at : Nat, mult : Nat]
          /\ oracle'.at = oracle.at /\ oracle'.share = oracle.share /\ oracle'.mult = oracle.mult
      BY <1>1, <2>1
    <2>3. QED
      BY <1>1, <2>2 DEF OracleInv
  <1>4. PoolInv'
    BY <1>1 DEF PoolInv
  <1>5. hook' \in Hooks
    BY <1>1 DEF Hooks
  <1>6. QED
    BY <1>2, <1>3, <1>4, <1>5

\* The script creates one pool, with a schedule that was validated.
LEMMA DeployKeeps ==
    ASSUME HookInv, Deploy
    PROVE  HookInv'
  <1>1. Len(Steps) = 6 /\ deploy \in 1..5 /\ deploy' = deploy + 1 /\ deploy' \in 1 .. Len(Steps)
    BY DEF HookInv, Deploy, Steps
  <1>2. CASE deploy = 1
    <2>1. SetQuoteToken(TRUE)
      BY <1>2 DEF Deploy, Steps
    <2>2. QED
      BY <1>1, <2>1, OwnerKeeps
  <1>3. CASE deploy = 2
    <2>1. SetReferenceSource(TRUE)
      BY <1>3 DEF Deploy, Steps
    <2>2. QED
      BY <1>1, <2>1, OwnerKeeps
  <1>4. CASE deploy = 3
    <2>1. \E source \in Sources : ConfigureToken(source)
      BY <1>4 DEF Deploy, Steps
    <2>2. QED
      BY <1>1, <2>1, OwnerKeeps
  <1>5. CASE deploy = 4
    <2>1. PICK f \in Schedules, rwa0 \in BOOLEAN :
            CreatePool(f, rwa0, sqrtPriceAtE18(Worth, rwa0, MinSqrtPrice, MaxSqrtPrice),
                       oracle.source = "BStockOnChain")
      BY <1>5 DEF Deploy, Steps
    <2> DEFINE x == sqrtPriceAtE18(Worth, rwa0, MinSqrtPrice, MaxSqrtPrice)
               b == oracle.source = "BStockOnChain"
    <2>2. x \in Nat \ {0}
      <3>1. MinSqrtPrice \in Nat \ {0} /\ MaxSqrtPrice \in Nat /\ MinSqrtPrice <= MaxSqrtPrice
        BY HookAssumption DEF HookAssumption
      <3>2. x \in MinSqrtPrice .. MaxSqrtPrice
        BY <3>1, FirstPrice
      <3> HIDE DEF x
      <3>3. QED
        BY <3>1, <3>2
    <2>3. b \in BOOLEAN /\ CreatePool(f, rwa0, x, b)
      BY <2>1
    <2> HIDE DEF x, b
    <2>4. /\ ValidFees(f) /\ UNCHANGED <<now, table, token, seen, oracle, hook>>
          /\ pool' = [created |-> TRUE, halted |-> FALSE, gate |-> "hook", fees |-> f, rwa0 |-> rwa0,
                      bStock |-> b, sqrtP |-> x]
      BY <2>3 DEF CreatePool
    <2>5. pool' \in Pools /\ pool'.fees = f
      <3>1. f \in FeeSchedule
        BY HookAssumption DEF HookAssumption
      <3>2. QED
        BY <2>2, <2>3, <2>4, <3>1 DEF Pools, Gates
    <2>6. PoolInv'
      BY <2>4, <2>5 DEF PoolInv
    <2>7. QED
      BY <1>1, <2>4, <2>6 DEF HookInv, TokenInv, OracleInv, MultiplierAt
  <1>6. CASE deploy = 5
    <2>1. pool' = [pool EXCEPT !.gate = "vault"] /\ UNCHANGED <<now, table, token, seen, oracle, hook>>
      BY <1>6 DEF Deploy, Steps
    <2>2. PoolInv'
      <3>1. CASE pool = NoPool
        BY <2>1, <3>1 DEF PoolInv, NoPool
      <3>2. CASE pool \in Pools /\ ValidFees(pool.fees)
        <4>1. pool' \in Pools /\ pool'.fees = pool.fees
          BY <2>1, <3>2 DEF Pools, Gates
        <4>2. QED
          BY <3>2, <4>1 DEF PoolInv
      <3>3. QED
        BY <3>1, <3>2 DEF HookInv, PoolInv
    <2>3. QED
      BY <1>1, <2>1, <2>2 DEF HookInv, TokenInv, OracleInv, MultiplierAt
  <1>7. QED
    BY <1>1, <1>2, <1>3, <1>4, <1>5, <1>6

\* Any step of anyone.
LEMMA HookKeeps ==
    ASSUME HookInv, [LpNext]_lpVars
    PROVE  HookInv'
  <1>0. deploy' = deploy => deploy' \in 1 .. Len(Steps)
    BY DEF HookInv
  <1>1. Instants \subseteq Nat /\ Days \subseteq Nat
    BY HookAssumption, LpAssumption DEF HookAssumption, LpAssumption
  <1>2. CASE Deploy
    BY <1>2, DeployKeeps
  <1>3. CASE \E t \in Days : Tick(t)
    BY <1>1, <1>3, TickKeeps
  <1>4. CASE HookNext
    <2>1. CASE \/ \E z \in BOOLEAN, x \in SqrtPrices : Swap(z, x)
               \/ \E h \in BOOLEAN : SetHalted(h)
               \/ \E f \in Schedules : SetFeeSchedule(f)
               \/ \E g \in Gates : SetLiquidityGate(g)
      BY <2>1, PoolKeeps
    <2>2. CASE \/ \E b \in BOOLEAN : (SetQuoteToken(b) \/ SetReferenceSource(b)) /\ UNCHANGED deploy
               \/ \E s \in Sources : ConfigureToken(s) /\ UNCHANGED deploy
               \/ OwnerSetsCalendar \/ Break
      <3>1. deploy' = deploy
        BY <2>2 DEF OwnerSetsCalendar, Break
      <3>2. \/ \E b \in BOOLEAN : SetQuoteToken(b) \/ SetReferenceSource(b)
            \/ \E s \in Sources : ConfigureToken(s)
            \/ OwnerSetsCalendar \/ Break
        BY <2>2
      <3>3. QED
        BY <1>0, <3>1, <3>2, OwnerKeeps
    <2>3. CASE \E m \in Multipliers, at \in Instants : ScheduleChange(m, at)
      BY <2>3, ScheduleKeeps
    <2>4. CASE \E t \in Instants : Tick(t)
      BY <1>1, <2>4, TickKeeps
    <2>5. CASE \E at \in DOMAIN seen, m \in Multipliers : Post(at, m)
      BY <2>5, PostKeeps
    <2>6. QED
      BY <1>4, <2>1, <2>2, <2>3, <2>4, <2>5 DEF HookNext
  <1>5. CASE UNCHANGED hookVars
    BY <1>5 DEF hookVars, HookInv, PoolInv, TokenInv, OracleInv, MultiplierAt
  <1>6. CASE \E z \in BOOLEAN, x \in SqrtPrices : Swap(z, x)
    BY <1>6, PoolKeeps
  <1>7. QED
    BY <1>2, <1>3, <1>4, <1>5, <1>6 DEF LpNext, lpVars

\* A reference the hook charges by is what the token is worth.
LEMMA ReferenceFollows ==
    ASSUME HookInv
    PROVE  ReferenceTrue
  <1> SUFFICES ASSUME pool.created, oracle.source = "BStockOnChain", Reference.price # 0
               PROVE  Reference.price = Worth
    BY DEF ReferenceTrue
  <1>1. pool \in Pools /\ ValidFees(pool.fees)
    BY DEF HookInv, PoolInv, NoPool
  <1>2. /\ MaxReferenceAge \in Nat /\ Quiet \in Nat /\ MaxReferenceAge <= Quiet
        /\ Multipliers \subseteq Nat \ {0} /\ \A m \in Multipliers \cup {1} : (Worth \div m) * m = Worth
    BY HookAssumption DEF HookAssumption
  <1>3. /\ Reference = referencePrice /\ referencePrice.price # 0
        /\ referencePrice.at <= now /\ now - referencePrice.at <= pool.fees.maxReferenceAge
    BY DEF Reference, NoReference
  <1>4. /\ oracle.at # 0 /\ referencePrice = [price |-> oracle.share * oracle.mult, at |-> oracle.at]
        /\ OnChainMultiplier = oracle.mult /\ ~ChangedSince(oracle.at)
    BY <1>3 DEF referencePrice, NoReference
  <1>5. /\ oracle.at \in DOMAIN seen /\ oracle.share = Worth \div seen[oracle.at]
        /\ oracle.mult \in Multipliers
    BY <1>4 DEF HookInv, OracleInv
  <1>6. ~token.broken /\ oracle.mult = MultiplierAt(now)
    BY <1>2, <1>4, <1>5 DEF OnChainMultiplier
  <1>7. /\ now \in Nat /\ token \in [mult : Values, next : Values, at : Nat, broken : BOOLEAN]
        /\ oracle.at \in 0..now
        /\ now - oracle.at <= Quiet => seen[oracle.at] = MultiplierAt(oracle.at)
    BY <1>5 DEF HookInv, TokenInv
  <1>8. now - oracle.at <= Quiet
    <2>1. pool.fees.maxReferenceAge \in Nat /\ pool.fees.maxReferenceAge <= MaxReferenceAge
      BY <1>1 DEF Pools, FeeSchedule, ValidFees
    <2>2. now - oracle.at <= pool.fees.maxReferenceAge
      BY <1>3, <1>4
    <2>3. QED
      BY <1>2, <1>7, <2>1, <2>2
  <1>9. MultiplierAt(oracle.at) = MultiplierAt(now)
    BY <1>4, <1>6, <1>7 DEF MultiplierAt, ChangedSince
  <1>10. Reference.price = (Worth \div oracle.mult) * oracle.mult
    BY <1>3, <1>4, <1>5, <1>6, <1>7, <1>8, <1>9
  <1>11. QED
    BY <1>2, <1>5, <1>10

-----------------------------------------------------------------------------
(* The fee                                                                 *)

LEMMA DateTypes ==
    ASSUME NEW day \in Int
    PROVE  CivilFromDays(day).y \in Int
  BY DEF CivilFromDays

LEMMA SundayTypes ==
    ASSUME NEW y \in Int
    PROVE  NthSunday(y, 3, 2) \in Int /\ NthSunday(y, 11, 1) \in Int
  <1>1. DaysFromCivil(y, 3, 1) \in Int /\ DaysFromCivil(y, 11, 1) \in Int
    BY DEF DaysFromCivil
  <1>2. \A f \in Int : /\ f + ((7 - Weekday(f)) % 7) + 7 * (2 - 1) \in Int
                       /\ f + ((7 - Weekday(f)) % 7) + 7 * (1 - 1) \in Int
    BY DEF Weekday
  <1> DEFINE march == DaysFromCivil(y, 3, 1)
             november == DaysFromCivil(y, 11, 1)
  <1>3. /\ NthSunday(y, 3, 2) = march + ((7 - Weekday(march)) % 7) + 7 * (2 - 1)
        /\ NthSunday(y, 11, 1) = november + ((7 - Weekday(november)) % 7) + 7 * (1 - 1)
    BY DEF NthSunday
  <1> HIDE DEF march, november
  <1>4. march \in Int /\ november \in Int
    BY <1>1 DEF march, november
  <1>5. QED
    BY <1>2, <1>3, <1>4

\* Within one day, when summer time ends or begins only before: an open of the regular session is
\* never after the instant that asks.
LEMMA OpenedBefore ==
    ASSUME NEW t \in Nat, NEW days, SessionAt(days, t).session = "regular"
    PROVE  SessionAt(days, t).openedAt \in Int /\ SessionAt(days, t).openedAt <= t
  <1> DEFINE off(w) == IF IsDaylightSaving(w) THEN 240 ELSE 300
             day == (t - off(t)) \div 1440
             minute == (t - off(t)) % 1440
             open == day * 1440 + 570
  <1>1. NewYork(t) = [day |-> day, minute |-> minute] /\ DayOf(t) = day
    BY DEF NewYork, DayOf, Day, Hour
  <1>2. UtcOf(day, 570) = open + off(open + 240)
    BY DEF UtcOf, Day, Hour
  <1>3. day \in Int /\ minute \in 0..1439 /\ t = day * 1440 + minute + off(t)
    <2>1. off(t) \in {240, 300}
      OBVIOUS
    <2> HIDE DEF off
    <2>2. t - off(t) \in Int
      BY <2>1
    <2>3. QED
      BY <2>1, <2>2
  <1> HIDE DEF day, minute
  <1>4. PICK close \in {780, 960} : SessionAt(days, t) = TradingDay(day, minute, close)
    BY <1>1 DEF SessionAt, Hour
  <1>5. minute \in 570..959 /\ SessionAt(days, t).openedAt = UtcOf(day, 570)
    BY <1>3, <1>4 DEF TradingDay, Hour
  <1>6. open \in Int /\ off(open + 240) \in {240, 300} /\ off(t) \in {240, 300}
    BY <1>3
  <1>7. CASE off(open + 240) <= off(t)
    BY <1>2, <1>3, <1>5, <1>6, <1>7
  <1>8. CASE off(open + 240) > off(t)
    <2>1. ~IsDaylightSaving(open + 240) /\ IsDaylightSaving(t)
      BY <1>8
    <2>2. t = day * 1440 + minute + 240
      BY <1>3, <2>1
    <2>3. t \div 1440 = day /\ (open + 240) \div 1440 = day
      BY <1>3, <1>5, <2>2
    <2> DEFINE y == CivilFromDays(day).y
               spring == NthSunday(y, 3, 2)
               autumn == NthSunday(y, 11, 1)
    <2>4. spring \in Int /\ autumn \in Int
      BY <1>3, DateTypes, SundayTypes
    <2>5. spring * 1440 + 420 <= t /\ t < autumn * 1440 + 360
      BY <2>1, <2>3 DEF IsDaylightSaving, Day, Hour
    <2>6. ~(spring * 1440 + 420 <= open + 240 /\ open + 240 < autumn * 1440 + 360)
      BY <2>1, <2>3 DEF IsDaylightSaving, Day, Hour
    <2> HIDE DEF spring, autumn
    <2>7. open + 240 <= t /\ open + 240 = day * 1440 + 810 /\ t < day * 1440 + 1440
      BY <1>3, <1>5, <2>2
    <2>8. spring * 1440 + 420 > day * 1440 + 810 /\ spring * 1440 + 420 < day * 1440 + 1440
      BY <1>3, <2>4, <2>5, <2>6, <2>7
    <2>9. spring > day \/ spring <= day
      BY <1>3, <2>4
    <2>10. QED
      BY <1>3, <2>4, <2>8
  <1>9. QED
    BY <1>6, <1>7, <1>8

\* The ramp leads from the closed fee down to the regular one.
LEMMA RampBetween ==
    ASSUME pool.fees \in FeeSchedule, ValidFees(pool.fees), NEW since \in Nat
    PROVE  /\ RampFee(since) \in Nat
           /\ pool.fees.regularFee <= RampFee(since) /\ RampFee(since) <= pool.fees.closedFee
  <1> DEFINE r == pool.fees.regularFee
             c == pool.fees.closedFee
             ramp == pool.fees.openingRamp
  <1>1. r \in Nat /\ c \in Nat /\ r <= c /\ ramp \in Nat
    BY DEF FeeSchedule, ValidFees
  <1>2. RampFee(since) = IF since >= ramp THEN r ELSE c - ((c - r) * since) \div ramp
    BY DEF RampFee
  <1> HIDE DEF r, c, ramp
  <1>3. CASE since >= ramp
    BY <1>1, <1>2, <1>3 DEF r, c
  <1>4. CASE ~(since >= ramp)
    <2> DEFINE part == ((c - r) * since) \div ramp
    <2>1. c - r \in Nat /\ ramp \in Nat \ {0} /\ since <= ramp
      BY <1>1, <1>4
    <2>2. (c - r) * since \in Nat
      BY <2>1, Product
    <2>3. part \in Nat /\ part <= c - r
      BY <2>1, <2>2, Floor, PartFits
    <2>4. RampFee(since) = c - part
      BY <1>2, <1>4
    <2> HIDE DEF part
    <2>5. QED
      BY <1>1, <2>3, <2>4 DEF r, c
  <1>5. QED
    BY <1>3, <1>4

\* A surcharge is a share of a gap from a reference that readers see as fresh, on the side that
\* closes the gap.
LEMMA SurchargeMeans ==
    ASSUME HookInv, pool \in Pools, NEW z \in BOOLEAN
    PROVE  /\ GapSurcharge(z) \in Nat
           /\ GapSurcharge(z) > 0 =>
                /\ StatusFresh
                /\ (rwaPriceE18(pool.sqrtP, pool.rwa0) > Reference.price) = (z = pool.rwa0)
  <1> DEFINE price == rwaPriceE18(pool.sqrtP, pool.rwa0)
             p == Reference.price
             bps == pool.fees.gapCaptureBps
  <1>1. /\ pool.sqrtP \in Nat \ {0} /\ pool.rwa0 \in BOOLEAN /\ bps \in Nat
        /\ Q96 \in Nat \ {0} /\ Unit \in Nat \ {0} /\ One \in Nat \ {0}
    BY ScaleAssumption DEF Pools, FeeSchedule, ScaleAssumption
  <1>2. price \in Nat
    <2> DEFINE x == pool.sqrtP
    <2>1. x \in Nat \ {0}
      BY <1>1
    <2> HIDE DEF x
    <2>2. x * x \in Nat /\ (x * x) \div Q96 \in Nat /\ Q96 * Q96 \in Nat /\ (Q96 * Q96) \div x \in Nat
      BY <1>1, <2>1, Product, Floor
    <2>3. /\ ((x * x) \div Q96) * Unit \in Nat
          /\ ((Q96 * Q96) \div x) * Unit \in Nat
      BY <1>1, <2>2, Product
    <2>4. /\ (((x * x) \div Q96) * Unit) \div Q96 \in Nat
          /\ (((Q96 * Q96) \div x) * Unit) \div x \in Nat
      BY <1>1, <2>1, <2>3, Floor
    <2>5. price = IF pool.rwa0 THEN (((x * x) \div Q96) * Unit) \div Q96
                  ELSE (((Q96 * Q96) \div x) * Unit) \div x
      BY DEF rwaPriceE18, x
    <2>6. QED
      BY <1>1, <2>4, <2>5
  <1>3. p \in Nat /\ (Reference = NoReference <=> p = 0) /\ (p # 0 => StatusFresh)
    <2>1. oracle.share \in Nat /\ oracle.mult \in Nat
      BY DEF HookInv, OracleInv
    <2>2. oracle.share * oracle.mult \in Nat
      BY <2>1, Product
    <2>3. Reference = NoReference \/ (Reference = referencePrice /\ referencePrice.price # 0)
      BY DEF Reference
    <2>4. NoReference.price = 0
      BY DEF NoReference
    <2>5. referencePrice.price \in Nat
      BY <2>2 DEF referencePrice, NoReference
    <2>6. p # 0 => StatusFresh
      BY <2>3, <2>4 DEF Reference, StatusFresh
    <2>7. QED
      BY <2>3, <2>4, <2>5, <2>6
  <1>4. p # 0 => gapPips(price, p) \in Nat
    <2> HIDE DEF price, p
    <2>1. \A g \in Nat : p # 0 => (g * One) \div p \in Nat
      BY <1>1, <1>3, Product, Floor
    <2>2. QED
      BY <1>1, <1>2, <1>3, <2>1 DEF gapPips
  <1>5. p # 0 => (gapPips(price, p) * bps) \div 10000 \in Nat
    <2> HIDE DEF price, p, bps
    <2>1. ASSUME p # 0 PROVE (gapPips(price, p) * bps) \div 10000 \in Nat
      <3>1. gapPips(price, p) * bps \in Nat
        BY <1>1, <1>4, <2>1, Product
      <3>2. QED
        BY <3>1, Floor
    <2>2. QED
      BY <2>1
  <1>6. GapSurcharge(z) = IF Reference = NoReference \/ (price > p) # (z = pool.rwa0) THEN 0
                          ELSE (gapPips(price, p) * bps) \div 10000
    BY DEF GapSurcharge
  <1> HIDE DEF price, p, bps
  <1>7. CASE Reference = NoReference \/ (price > p) # (z = pool.rwa0)
    BY <1>6, <1>7
  <1>8. CASE ~(Reference = NoReference \/ (price > p) # (z = pool.rwa0))
    <2>1. p # 0 /\ (price > p) = (z = pool.rwa0)
      BY <1>3, <1>8
    <2>2. GapSurcharge(z) \in Nat
      BY <1>5, <1>6, <1>8, <2>1
    <2>3. QED
      BY <1>3, <2>1, <2>2 DEF price, p
  <1>9. QED
    BY <1>7, <1>8

\* The fee without a surcharge, which does not depend on the direction.
PlainFee ==
    LET since == now - SessionAt(table, now).openedAt
    IN IF InCorporateActionWindow
       THEN [fee |-> pool.fees.closedFee, reason |-> "CorporateAction"]
       ELSE CASE SessionAt(table, now).session \in {"pre", "post"} ->
                   [fee |-> pool.fees.extendedFee, reason |-> "Extended"]
              [] SessionAt(table, now).session = "regular" ->
                   [fee |-> RampFee(since),
                    reason |-> IF since < pool.fees.openingRamp THEN "OpeningRamp" ELSE "Regular"]
              [] OTHER -> [fee |-> pool.fees.closedFee, reason |-> "Closed"]
SessionFloor ==
    CASE SessionAt(table, now).session = "regular" -> pool.fees.regularFee
      [] SessionAt(table, now).session \in {"pre", "post"} -> pool.fees.extendedFee
      [] OTHER -> pool.fees.closedFee

\* One direction: the fee lies between the session's and the cap, and is the plain one unless
\* there is a surcharge.
LEMMA FeeMeans ==
    ASSUME HookInv, pool \in Pools, ValidFees(pool.fees), NEW z \in BOOLEAN
    PROVE  /\ SessionFloor <= Fee(z).fee /\ Fee(z).fee <= pool.fees.maxFee
           /\ Fee(z).reason = "ReferenceGap" => GapSurcharge(z) > 0
           /\ Fee(z).reason # "ReferenceGap" => Fee(z) = PlainFee
  <1> DEFINE r == pool.fees.regularFee
             e == pool.fees.extendedFee
             c == pool.fees.closedFee
             top == pool.fees.maxFee
             s == SessionAt(table, now)
             ramp == RampFee(now - s.openedAt)
             extra == GapSurcharge(z)
  <1>1. /\ r \in Nat /\ e \in Nat /\ c \in Nat /\ top \in Nat
        /\ r <= e /\ e <= c /\ c <= top
    BY DEF Pools, FeeSchedule, ValidFees
  <1>2. extra \in Nat
    BY SurchargeMeans
  <1>3. CASE InCorporateActionWindow
    <2>1. Fee(z) = [fee |-> c, reason |-> "CorporateAction"] /\ PlainFee = Fee(z)
      BY <1>3, Zenon DEF Fee, PlainFee
    <2>2. SessionFloor \in {r, e, c}
      BY DEF SessionFloor
    <2> HIDE DEF r, e, c, top
    <2>3. QED
      BY <1>1, <2>1, <2>2 DEF top
  <1>4. CASE ~InCorporateActionWindow
    <2>1. CASE s.session \in {"pre", "post"}
      <3>1. Fee(z) = [fee |-> e, reason |-> "Extended"] /\ PlainFee = Fee(z)
        BY <1>4, <2>1 DEF Fee, PlainFee
      <3>2. SessionFloor = e
        BY <2>1 DEF SessionFloor
      <3> HIDE DEF r, e, c, top
      <3>3. QED
        BY <1>1, <3>1, <3>2 DEF top
    <2>2. CASE s.session = "regular"
      <3>1. now - s.openedAt \in Nat
        <4>1. now \in Nat
          BY DEF HookInv, TokenInv
        <4>2. s.openedAt \in Int /\ s.openedAt <= now
          BY <2>2, <4>1, OpenedBefore
        <4> HIDE DEF s
        <4>3. QED
          BY <4>1, <4>2
      <3>2. ramp \in Nat /\ r <= ramp /\ ramp <= c
        <4>1. pool.fees \in FeeSchedule
          BY DEF Pools
        <4>2. QED
          BY <3>1, <4>1, RampBetween
      <3>3. SessionFloor = r
        BY <2>2 DEF SessionFloor
      <3>4. CASE extra > 0
        <4>1. Fee(z) = [fee |-> Capped(ramp + extra), reason |-> "ReferenceGap"]
          BY <1>4, <2>2, <3>4 DEF Fee
        <4>2. Capped(ramp + extra) = IF ramp + extra > top THEN top ELSE ramp + extra
          BY DEF Capped
        <4> HIDE DEF r, e, c, top, ramp, extra
        <4>3. QED
          BY <1>1, <1>2, <3>2, <3>3, <3>4, <4>1, <4>2 DEF top, extra
      <3>5. CASE ~(extra > 0)
        <4>1. /\ Fee(z).fee = ramp
              /\ Fee(z).reason \in {"OpeningRamp", "Regular"}
          BY <1>4, <2>2, <3>5 DEF Fee
        <4>2. Fee(z) = PlainFee
          BY <1>4, <2>2, <3>5 DEF Fee, PlainFee
        <4> HIDE DEF r, e, c, top, ramp, extra
        <4>3. QED
          BY <1>1, <3>2, <3>3, <4>1, <4>2 DEF top
      <3>6. QED
        BY <3>4, <3>5
    <2>3. CASE s.session \notin {"pre", "post", "regular"}
      <3>1. Fee(z) = [fee |-> c, reason |-> "Closed"] /\ PlainFee = Fee(z)
        BY <1>4, <2>3 DEF Fee, PlainFee
      <3>2. SessionFloor = c
        BY <2>3 DEF SessionFloor
      <3> HIDE DEF r, e, c, top
      <3>3. QED
        BY <1>1, <3>1, <3>2 DEF top
    <2>4. QED
      BY <2>1, <2>2, <2>3
  <1>5. QED
    BY <1>3, <1>4

\* Both directions: within the bounds, and apart only by a surcharge of one side.
LEMMA FeesFair ==
    ASSUME HookInv
    PROVE  FeeFair
  <1> SUFFICES ASSUME pool.created
               PROVE  FeeFair
    BY DEF FeeFair
  <1>1. pool \in Pools /\ ValidFees(pool.fees)
    BY DEF HookInv, PoolInv, NoPool
  <1>2. pool.fees.maxFee <= MaxFeeCap
    BY <1>1 DEF ValidFees
  <1> DEFINE closes == rwaPriceE18(pool.sqrtP, pool.rwa0) > Reference.price
             fees == [z \in BOOLEAN |-> Fee(z)]
             surcharged == {z \in BOOLEAN : fees[z].reason = "ReferenceGap"}
  <1>3. \A z \in BOOLEAN : /\ SessionFloor <= fees[z].fee /\ fees[z].fee <= pool.fees.maxFee
                           /\ z \in surcharged => StatusFresh /\ closes = (z = pool.rwa0)
                           /\ z \notin surcharged => fees[z] = PlainFee
    <2> SUFFICES ASSUME NEW z \in BOOLEAN
                 PROVE  /\ SessionFloor <= Fee(z).fee /\ Fee(z).fee <= pool.fees.maxFee
                        /\ Fee(z).reason = "ReferenceGap" => StatusFresh /\ closes = (z = pool.rwa0)
                        /\ Fee(z).reason # "ReferenceGap" => Fee(z) = PlainFee
      BY Zenon
    <2>1. /\ SessionFloor <= Fee(z).fee /\ Fee(z).fee <= pool.fees.maxFee
          /\ Fee(z).reason = "ReferenceGap" => GapSurcharge(z) > 0
          /\ Fee(z).reason # "ReferenceGap" => Fee(z) = PlainFee
      BY <1>1, FeeMeans, Zenon
    <2>2. GapSurcharge(z) > 0 => StatusFresh /\ closes = (z = pool.rwa0)
      BY <1>1, SurchargeMeans, Zenon
    <2>3. QED
      BY <2>1, <2>2, Zenon
  <1> DEFINE f == pool.fees
             floor(s) == CASE s = "regular" -> f.regularFee
                           [] s \in {"pre", "post"} -> f.extendedFee
                           [] OTHER -> f.closedFee
             fair(fee, some) ==
               /\ \A z \in BOOLEAN : fee[z].fee <= f.maxFee
               /\ some # BOOLEAN /\ (fee[TRUE] # fee[FALSE] => some # {})
               /\ some # {} => StatusFresh
               /\ \A z \in some : closes = (z = pool.rwa0)
  <1>4. surcharged # BOOLEAN
    <2> HIDE DEF closes, fees
    <2>1. pool.rwa0 \in BOOLEAN
      BY <1>1 DEF Pools
    <2>2. PICK other \in BOOLEAN : other # pool.rwa0
      BY <2>1, Zenon
    <2>3. ~(pool.rwa0 \in surcharged /\ other \in surcharged)
      BY <1>3, <2>1, <2>2, Zenon
    <2>4. QED
      BY <2>1, <2>2, <2>3, Zenon
  <1>5. fair(fees, surcharged)
    <2>1. \A z \in BOOLEAN : fees[z].fee <= f.maxFee
      BY <1>3, Zenon
    <2>2. fees[TRUE] # fees[FALSE] => surcharged # {}
      <3> SUFFICES ASSUME surcharged = {}
                   PROVE  fees[TRUE] = fees[FALSE]
        OBVIOUS
      <3>1. fees[TRUE] = PlainFee /\ fees[FALSE] = PlainFee
        <4> HIDE DEF closes, fees
        <4>1. QED
          BY <1>3, Zenon
      <3>2. QED
        BY <3>1, Zenon
    <2>3. surcharged # {} => StatusFresh
      <3> HIDE DEF closes, fees
      <3>1. QED
        BY <1>3, Zenon
    <2>4. \A z \in surcharged : closes = (z = pool.rwa0)
      <3> HIDE DEF closes, fees
      <3>1. QED
        BY <1>3, Zenon
    <2> HIDE DEF closes, fees, surcharged
    <2>5. QED
      BY <1>4, <2>1, <2>2, <2>3, <2>4, Zenon
  <1>6. floor(SessionAt(table, now).session) = SessionFloor
    BY DEF SessionFloor
  <1>7. \A z \in BOOLEAN : floor(SessionAt(table, now).session) <= fees[z].fee
    BY <1>3, <1>6, Zenon
  <1>8. QED
    <2>1. FeeFair <=>
            (pool.created =>
               /\ f.maxFee <= MaxFeeCap
               /\ \A fee \in {fees} :
                    /\ fair(fee, {z \in BOOLEAN : fee[z].reason = "ReferenceGap"})
                    /\ \A least \in {floor(SessionAt(table, now).session)}, z \in BOOLEAN :
                         least <= fee[z].fee)
      BY Zenon DEF FeeFair
    <2> HIDE DEF fees, floor, fair, closes
    <2>2. \A fee \in {fees} :
                    /\ fair(fee, {z \in BOOLEAN : fee[z].reason = "ReferenceGap"})
                    /\ \A least \in {floor(SessionAt(table, now).session)}, z \in BOOLEAN :
                         least <= fee[z].fee
      BY <1>5, <1>7, Zenon
    <2>3. QED
      BY <1>2, <2>1, <2>2, Zenon

-----------------------------------------------------------------------------
(* The composition                                                         *)

\* The hook's answer is one or the other.
LEMMA AnswerTypes ==
    ASSUME HookInv, pool.created
    PROVE  MayAdd \in BOOLEAN /\ pool.sqrtP \in Nat \ {0}
  <1>1. pool \in Pools
    BY DEF HookInv, PoolInv, NoPool
  <1>2. QED
    BY <1>1 DEF Pools, MayAdd

\* What an actor does to the vault is a step the vault allows, at the pool's price.
LEMMA VaultsAllowed ==
    ASSUME HookInv, pool.created, Vaults
    PROVE  \E x \in Nat \ {0}, mayAdd \in BOOLEAN : VaultStep(x, mayAdd)
  <1>1. MayAdd \in BOOLEAN /\ pool.sqrtP \in Nat \ {0}
    BY AnswerTypes
  <1>2. Sizes \subseteq Nat /\ Bound \subseteq Nat /\ Fees \subseteq Pair
    BY LpAssumption DEF LpAssumption, Bound
  <1>3. VaultStep(pool.sqrtP, MayAdd)
    BY <1>2, Zenon DEF Vaults, VaultStep
  <1>4. QED
    BY <1>1, <1>3, Zenon

\* Every step of the composition is one of the vault's, or leaves the vault alone.
LEMMA StepAllowed ==
    ASSUME HookInv, [LpNext]_lpVars
    PROVE  [\E x \in Nat \ {0}, mayAdd \in BOOLEAN : VaultStep(x, mayAdd)]_vaultVars
  <1>1. CASE UNCHANGED vaultVars
    BY <1>1
  <1>2. CASE pool.created /\ Vaults
    BY <1>2, VaultsAllowed
  <1>3. CASE pool.created /\ \E z \in BOOLEAN, x \in SqrtPrices, amount \in Fees :
                               Swap(z, x) /\ Earn(amount)
    <2>1. PICK amount \in Fees : Earn(amount)
      BY <1>3, Zenon
    <2>2. amount \in Pair
      BY LpAssumption DEF LpAssumption
    <2>3. VaultStep(pool.sqrtP, MayAdd)
      BY <2>1, <2>2, Zenon DEF VaultStep
    <2>4. QED
      BY <1>3, <2>3, AnswerTypes, Zenon
  <1>4. QED
    <2>1. UNCHANGED lpVars => UNCHANGED vaultVars
      BY DEF lpVars
    <2>2. LpNext => \/ UNCHANGED vaultVars
                    \/ pool.created /\ Vaults
                    \/ pool.created /\ \E z \in BOOLEAN, x \in SqrtPrices, amount \in Fees :
                                         Swap(z, x) /\ Earn(amount)
      BY Zenon DEF LpNext
    <2>3. QED
      BY <1>1, <1>2, <1>3, <2>1, <2>2, Zenon

\* What the deployment, the owner, the issuer, reporters and traders can bring the hook to.
THEOREM HookInvariant == LpSpec => []HookInv
  <1>1. LpInit => HookInv
    BY HookInitially
  <1>2. HookInv /\ [LpNext]_lpVars => HookInv'
    BY HookKeeps
  <1>3. QED
    BY <1>1, <1>2, PTL DEF LpSpec

\* The vault beside its pool and hook does what the vault alone may do: every call of anyone is
\* a step at some price, whatever the hook answers (RwaLiquidityVault.sol).
THEOREM VaultImplemented == LpSpec => VaultSpec
  <1>1. LpInit => VaultInit
    BY DEF LpInit
  <1>2. HookInv /\ [LpNext]_lpVars
          => [\E x \in Nat \ {0}, mayAdd \in BOOLEAN : VaultStep(x, mayAdd)]_vaultVars
    BY StepAllowed
  <1>3. QED
    BY <1>1, <1>2, HookInvariant, PTL DEF LpSpec, VaultSpec

\* So in the composition, too, the shares add up and are backed, under any calls of anyone.
THEOREM PoolSharesBacked == LpSpec => []Backed
  <1>1. QED
    BY VaultImplemented, SharesBacked, PTL

\* And no transaction shrinks what is behind the shares of those who did not act.
THEOREM PoolValueKept == LpSpec => SharesKeepValue
  <1>1. QED
    BY VaultImplemented, ValueKept, PTL

\* The terms anyone is told are true: a reference is the token's worth whatever the issuer does
\* to the multiplier, a fee lies between the session's and the cap and differs between the
\* directions only by a surcharge on the one that closes the gap, and a preview is kept by the
\* transaction it previews (KeeperReferenceOracle.sol, RwaSessionHook.sol, RwaLiquidityVault.sol).
THEOREM TermsHold == LpSpec => []TermsTrue
  <1>1. HookInv /\ VaultInv => TermsTrue
    <2> SUFFICES ASSUME HookInv, VaultInv
                 PROVE  TermsTrue
      OBVIOUS
    <2>1. PreviewTrue
      <3>1. CASE pool.created
        BY <3>1, AnswerTypes, PreviewsKept
      <3>2. CASE ~pool.created
        BY <3>2, Zenon DEF PreviewTrue
      <3>3. QED
        BY <3>1, <3>2
    <2>2. QED
      BY <2>1, FeesFair, ReferenceFollows, Zenon DEF TermsTrue
  <1>2. VaultSpec => []VaultInv
    BY InitKeeps, StepKeeps, PTL DEF VaultSpec
  <1>3. QED
    BY <1>1, <1>2, HookInvariant, VaultImplemented, PTL

===============================================================================
