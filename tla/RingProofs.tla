----------------------------- MODULE RingProofs -----------------------------
(***************************************************************************)
(* What the truncated position arithmetic of Ring computes, as long as the *)
(* two positions it compares are closer than the wrap.                     *)
(***************************************************************************)
EXTENDS Ring, TLAPS

\* Division with remainder.
LEMMA DivMod ==
  ASSUME NEW a \in Int, NEW m \in Nat \ {0}
  PROVE  a % m \in 0 .. m - 1 /\ a \div m \in Int /\ a = m * (a \div m) + (a % m)
  OBVIOUS

\* The remainder is unique.
LEMMA Remainder ==
  ASSUME NEW m \in Nat \ {0}, NEW q \in Int, NEW r \in 0 .. (m - 1)
  PROVE  (m * q + r) % m = r
  OBVIOUS

\* The only multiple of m between -m and m is zero.
LEMMA Zero ==
  ASSUME NEW m \in Nat \ {0}, NEW q \in Int, m * q < m, m * q > -m
  PROVE  q = 0
  OBVIOUS

\* The wrapping difference of two positions less than a wrap apart is their distance
\* (`tail.wrapping_sub(head)`, spsc.rs:283).
LEMMA DistanceExact ==
  ASSUME NEW t \in Nat, NEW h \in Nat, h <= t, t - h < PositionModulus
  PROVE  Distance(t, h) = t - h
  <1> PositionModulus \in Nat \ {0} BY RingAssumption
  <1> DEFINE qt == t \div PositionModulus
             qh == h \div PositionModulus
             rt == t % PositionModulus
             rh == h % PositionModulus
             q == qh - qt
  <1>1. qt \in Int /\ rt \in 0 .. PositionModulus - 1 /\ t = PositionModulus * qt + rt
    BY DivMod
  <1>2. qh \in Int /\ rh \in 0 .. PositionModulus - 1 /\ h = PositionModulus * qh + rh
    BY DivMod
  <1> q \in Int BY <1>1, <1>2
  <1>3. rt - rh = PositionModulus * q + (t - h)
    <2> HIDE DEF qt, qh, rt, rh
    <2> QED BY <1>1, <1>2
  <1>4. t - h \in 0 .. PositionModulus - 1
    OBVIOUS
  <1>5. (PositionModulus * q + (t - h)) % PositionModulus = t - h
    BY <1>4, Remainder
  <1> QED BY <1>3, <1>5 DEF Distance, Low

\* Positions less than a wrap apart that look the same are the same.
LEMMA SameLow ==
  ASSUME NEW t \in Nat, NEW h \in Nat, h <= t, t - h < PositionModulus, Low(t) = Low(h)
  PROVE  t = h
  <1> PositionModulus \in Nat \ {0} BY RingAssumption
  <1>1. Distance(t, h) = 0
    BY DEF Distance, Low
  <1> QED BY <1>1, DistanceExact

\* Masking a wrapped position finds the same slot as masking the position itself, because
\* the capacity divides the wrap.
LEMMA IndexExact ==
  ASSUME NEW p \in Nat
  PROVE  Index(p) = p % Capacity /\ Index(p) \in 0 .. Capacity - 1
  <1> PositionModulus \in Nat \ {0} /\ Capacity \in Nat \ {0} BY RingAssumption
  <1> DEFINE q == p \div PositionModulus
             r == p % PositionModulus
             k == PositionModulus \div Capacity
             s == r \div Capacity
             u == r % Capacity
  <1>1. q \in Int /\ r \in 0 .. PositionModulus - 1 /\ p = PositionModulus * q + r
    BY DivMod
  <1>2. k \in Int /\ PositionModulus = Capacity * k
    BY DivMod, RingAssumption
  <1>3. s \in Int /\ u \in 0 .. Capacity - 1 /\ r = Capacity * s + u
    <2> r \in Int BY <1>1
    <2> HIDE DEF r
    <2> QED BY DivMod
  <1> DEFINE w == k * q + s
  <1>4. w \in Int BY <1>1, <1>2, <1>3
  <1>5. p = Capacity * w + u
    <2> HIDE DEF q, r, k, s, u
    <2>1. PositionModulus * q = Capacity * (k * q) BY <1>1, <1>2
    <2> QED BY <1>1, <1>2, <1>3, <2>1
  <1>6. (Capacity * w + u) % Capacity = u
    BY <1>3, <1>4, Remainder
  <1> QED BY <1>3, <1>5, <1>6 DEF Index, Low

\* Positions less than a capacity apart that share a slot are the same.
LEMMA IndexInjective ==
  ASSUME NEW p \in Nat, NEW t \in Nat, p <= t, t - p < Capacity, Index(p) = Index(t)
  PROVE  p = t
  <1> Capacity \in Nat \ {0} BY RingAssumption
  <1> DEFINE qt == t \div Capacity
             qp == p \div Capacity
             q == qt - qp
  <1>1. qt \in Int /\ t = Capacity * qt + (t % Capacity) /\ t % Capacity \in Int
    BY DivMod
  <1>2. qp \in Int /\ p = Capacity * qp + (p % Capacity) /\ p % Capacity \in Int
    BY DivMod
  <1>3. p % Capacity = t % Capacity
    BY IndexExact
  <1> q \in Int BY <1>1, <1>2
  <1>4. t - p = Capacity * q
    <2> HIDE DEF qt, qp
    <2> QED BY <1>1, <1>2, <1>3
  <1>5. q = 0
    <2> HIDE DEF q
    <2> QED BY <1>4, Zero
  <1> QED BY <1>4, <1>5
=============================================================================
