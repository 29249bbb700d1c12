------------------------------ MODULE Remainders ------------------------------
(* Remainders, for the rings that find the place of a counter by n % Capacity.            *)
EXTENDS Integers, TLAPS

LEMMA DivMod ==
  ASSUME NEW a \in Nat, NEW R \in Nat \ {0}
  PROVE  a % R \in 0 .. R - 1 /\ a \div R \in Nat /\ a = R * (a \div R) + (a % R)
  OBVIOUS

LEMMA PositiveMultiple ==
  ASSUME NEW q \in Int, NEW R \in Nat \ {0}, R * q > 0 PROVE R * q >= R
<1>1. q >= 1
  <2>1. CASE q <= 0
    <3>1. R * q <= 0
      BY <2>1
    <3> QED
      BY <3>1
  <2> QED
    BY <2>1
<1>2. R * (q - 1) >= 0
  BY <1>1
<1> QED
  BY <1>2

\* Two numbers that differ, by less than R, have different remainders.
LEMMA ModInjective ==
  ASSUME NEW R \in Nat \ {0}, NEW a \in Nat, NEW b \in Nat, a < b, b < a + R
  PROVE  a % R # b % R
<1> SUFFICES ASSUME a % R = b % R PROVE FALSE
  OBVIOUS
<1> DEFINE q == (b \div R) - (a \div R)
<1>1. /\ a = R * (a \div R) + (a % R) /\ a \div R \in Nat /\ a % R \in Nat
      /\ b = R * (b \div R) + (b % R) /\ b \div R \in Nat
  <2>1. \A n \in Nat : n % R \in 0 .. R - 1 /\ n \div R \in Nat /\ n = R * (n \div R) + (n % R)
    BY DivMod
  <2>2. \A n \in Nat : n % R \in Nat
    BY <2>1
  <2>. QED
    BY <2>1, <2>2, Zenon
<1>2. q \in Int /\ R * q = R * (b \div R) - R * (a \div R)
  BY <1>1
<1>3. R * (b \div R) \in Nat /\ R * (a \div R) \in Nat
  BY <1>1
<1>4. R * q = b - a
  BY <1>1, <1>2, <1>3
<1> HIDE DEF q
<1>5. R * q >= R
  BY <1>2, <1>4, PositiveMultiple
<1> QED
  BY <1>4, <1>5

LEMMA ModAround ==
  ASSUME NEW R \in Nat \ {0}, NEW a \in Nat PROVE (a + R) % R = a % R
<1> DEFINE q == ((a + R) \div R) - (a \div R) - 1
<1>1. /\ a = R * (a \div R) + (a % R) /\ a \div R \in Nat /\ a % R \in 0 .. R - 1
      /\ a + R = R * ((a + R) \div R) + ((a + R) % R)
      /\ (a + R) \div R \in Nat /\ (a + R) % R \in 0 .. R - 1
  <2>1. \A n \in Nat : n % R \in 0 .. R - 1 /\ n \div R \in Nat /\ n = R * (n \div R) + (n % R)
    BY DivMod
  <2>2. a + R \in Nat
    OBVIOUS
  <2>. QED
    BY <2>1, <2>2, Zenon
<1>2. q \in Int /\ R * q = R * ((a + R) \div R) - R * (a \div R) - R
  BY <1>1
<1>3. R * ((a + R) \div R) \in Nat /\ R * (a \div R) \in Nat
  BY <1>1
<1>4. R * q = (a % R) - ((a + R) % R)
  BY <1>1, <1>2, <1>3
<1> HIDE DEF q
<1>5. R * q < R /\ R * q > - R
  BY <1>1, <1>2, <1>4
<1>6. ~(R * q > 0)
  BY <1>2, <1>5, PositiveMultiple
<1>7. ~(R * (- q) > 0)
  <2> DEFINE m == - q
  <2>1. m \in Int /\ R * m = - (R * q) /\ R * q \in Int
    BY <1>2
  <2> HIDE DEF m
  <2>2. ~(R * m > 0)
    <3>1. R * m > 0 => R * m >= R
      BY <2>1, PositiveMultiple
    <3>2. R * m < R
      BY <1>5, <2>1
    <3>3. R * m \in Int
      BY <2>1
    <3> QED
      BY <3>1, <3>2, <3>3
  <2> QED
    BY <2>2 DEF m
<1>8. R * (- q) = - (R * q) /\ R * q \in Int
  BY <1>2
<1> QED
  BY <1>1, <1>4, <1>6, <1>7, <1>8
================================================================================
