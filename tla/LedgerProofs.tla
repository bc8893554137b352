---------------------------- MODULE LedgerProofs ----------------------------
(***************************************************************************)
(* Three results about the ledger, for every set of accounts, assets,      *)
(* amounts, fees, terms, policies, workers and block times:                *)
(*                                                                         *)
(*   - the assertions of the vesting policies hold and nothing vests       *)
(*     faster than its policy says;                                        *)
(*   - the supply of every asset is within its maximum and is the sum of   *)
(*     all its units, but for the core units that asset_create makes;      *)
(*   - withdraw permissions never let out more than the limit of a period. *)
(*                                                                         *)
(* The first two are about the database d = [accounts, assets, vestings,   *)
(* now] that every operation is a function of.  Good(d) is what all        *)
(* operations keep, the invariant of each vesting balance included.        *)
(* Gap(d, x) is how much of the supply of x nobody holds: each helper of   *)
(* the evaluators changes it by a known amount, and each operation by the  *)
(* sum of these, which is nothing unless it creates an asset.              *)
(***************************************************************************)
EXTENDS Ledger, FoldTheorems, SequenceTheorems

-----------------------------------------------------------------------------
(* Products and quotients *)

\* Products keep the order, and distribute over sums.
LEMMA ProductOrder ==
    ASSUME NEW a \in Nat, NEW b \in Nat, NEW c \in Nat, a <= b
    PROVE  a * c <= b * c /\ c * a <= c * b /\ a * c \in Nat /\ b * c \in Nat
  OBVIOUS

LEMMA ProductSum ==
    ASSUME NEW a \in Int, NEW b \in Int, NEW c \in Int
    PROVE  /\ (a + b) * c = a * c + b * c /\ (a - b) * c = a * c - b * c
           /\ c * (a + b) = c * a + c * b /\ c * (a - b) = c * a - c * b
           /\ a * c \in Int /\ b * c \in Int /\ a * c = c * a
  OBVIOUS

\* Rounding down: a quotient is a number, at most what it is compared with, and
\* keeps the order.
LEMMA QuotientBounds ==
    ASSUME NEW a \in Nat, NEW m \in Nat \ {0}
    PROVE  a \div m \in Nat /\ (a \div m) * m <= a
  OBVIOUS

LEMMA QuotientAtMost ==
    ASSUME NEW a \in Nat, NEW b \in Nat, NEW m \in Nat \ {0}, a <= b * m
    PROVE  a \div m <= b
  <1> DEFINE q == a \div m
  <1>1. q \in Nat /\ q * m <= a
    BY QuotientBounds
  <1> HIDE DEF q
  <1> SUFFICES ASSUME q >= b + 1
               PROVE  FALSE
    BY <1>1 DEF q
  <1>2. (b + 1) * m <= q * m
    BY <1>1, ProductOrder
  <1>3. (b + 1) * m = b * m + m
    OBVIOUS
  <1>4. b * m \in Nat /\ q * m \in Nat
    BY <1>1
  <1> QED
    BY <1>1, <1>2, <1>3, <1>4

LEMMA QuotientOrder ==
    ASSUME NEW a \in Nat, NEW b \in Nat, NEW m \in Nat \ {0}, a <= b
    PROVE  a \div m <= b \div m
  <1> DEFINE q == b \div m
             r == b % m
  <1>1. q \in Nat /\ r \in Nat /\ r < m /\ b = q * m + r
    OBVIOUS
  <1> DEFINE p == a \div m
  <1>2. p \in Nat /\ p * m <= a
    BY QuotientBounds
  <1> HIDE DEF p, q, r
  <1> SUFFICES ASSUME p >= q + 1
               PROVE  FALSE
    BY <1>1, <1>2 DEF p, q
  <1>3. (q + 1) * m <= p * m
    BY <1>1, <1>2, ProductOrder
  <1>4. (q + 1) * m = q * m + m
    BY <1>1
  <1>5. q * m \in Nat /\ p * m \in Nat
    BY <1>1, <1>2
  <1> QED
    BY <1>1, <1>2, <1>3, <1>4, <1>5

\* The smaller of two numbers, and the larger of zero and a number.
LEMMA MinOfTwo ==
    ASSUME NEW x \in Int, NEW y \in Int
    PROVE  /\ Min({x, y}) = IF x <= y THEN x ELSE y
           /\ Min({x, y}) \in Int /\ Min({x, y}) <= x /\ Min({x, y}) <= y
  BY DEF Min

LEMMA MaxWithZero ==
    ASSUME NEW x \in Int
    PROVE  Max({0, x}) = IF x >= 0 THEN x ELSE 0
  BY DEF Max

-----------------------------------------------------------------------------
(* Vesting balances *)

CddPolicies ==
    [kind : {"cdd"}, seconds : Nat, earned : Nat, updated : Nat, start_claim : Nat]

Kinds(b) ==
    /\ b.amount \in Nat /\ b.paid_in \in Nat /\ b.free_in \in Nat /\ b.since \in Nat
    /\ b.policy \in CddPolicies \cup LinearPolicies

\* A balance by coin seconds: what was withdrawn and what is earned come from
\* what was free and from the time.
VestsByCoinSeconds(b, t) ==
    LET p == b.policy
        S == Seconds(p)
    IN  /\ p.earned <= b.amount * S
        /\ b.since <= p.updated /\ p.updated <= t
        /\ b.amount <= b.paid_in
        /\ (b.paid_in - b.amount) * S + p.earned
              <= b.free_in * S + b.paid_in * (p.updated - b.since)

\* A linear balance: what was withdrawn has vested.
VestsLinearly(b, t) ==
    LET p == b.policy
    IN  /\ p.begin_balance = b.paid_in /\ b.amount <= b.paid_in
        /\ b.amount < b.paid_in => /\ t > p.begin /\ t - p.begin >= p.cliff
                                   /\ b.paid_in - b.amount <= LinearVested(p, t - p.begin)

Vests(b, t) ==
    /\ Kinds(b)
    /\ b.policy.kind = "cdd" => VestsByCoinSeconds(b, t)
    /\ b.policy.kind = "linear" => VestsLinearly(b, t)

\* The fields of the two kinds of policies.
LEMMA PolicyTypes ==
    ASSUME NEW b, Kinds(b)
    PROVE  /\ b.policy.kind \in {"cdd", "linear"}
           /\ b.policy.kind = "cdd" =>
                /\ b.policy \in CddPolicies
                /\ b.policy.seconds \in Nat /\ b.policy.earned \in Nat
                /\ b.policy.updated \in Nat /\ b.policy.start_claim \in Nat
                /\ Seconds(b.policy) \in Nat \ {0}
           /\ b.policy.kind = "linear" =>
                /\ b.policy \in LinearPolicies
                /\ b.policy.begin \in Nat /\ b.policy.cliff \in Nat
                /\ b.policy.duration \in Nat /\ b.policy.begin_balance \in Nat
  BY DEF Kinds, CddPolicies, LinearPolicies, Seconds

\* What a linear policy lets go.
LEMMA LinearVestedFacts ==
    ASSUME NEW p \in LinearPolicies, NEW e \in Nat
    PROVE  /\ LinearVested(p, e) \in Nat /\ LinearVested(p, e) <= p.begin_balance
           /\ LinearVested(p, e) * p.duration <= p.begin_balance * e
           /\ \A f \in Nat : e <= f => LinearVested(p, e) <= LinearVested(p, f)
  <1> DEFINE B == p.begin_balance
             D == p.duration
             V(f) == (B * f) \div D
  <1>1. B \in Nat /\ D \in Nat
    BY DEF LinearPolicies
  <1>2. \A f \in Nat : LinearVested(p, f) = IF f < D THEN V(f) ELSE B
    BY DEF LinearVested
  <1> HIDE DEF B, D
  <1>3. \A f \in Nat : f < D => V(f) \in Nat /\ V(f) * D <= B * f /\ V(f) <= B
    <2> SUFFICES ASSUME NEW f \in Nat, f < D
                 PROVE  V(f) \in Nat /\ V(f) * D <= B * f /\ V(f) <= B
      OBVIOUS
    <2> DEFINE m == B * f
    <2>1. m \in Nat /\ m <= B * D
      BY <1>1, ProductOrder
    <2>2. D \in Nat \ {0}
      BY <1>1
    <2> HIDE DEF m
    <2>3. m \div D \in Nat /\ (m \div D) * D <= m /\ m \div D <= B
      BY <1>1, <2>1, <2>2, QuotientBounds, QuotientAtMost
    <2> QED
      BY <2>3 DEF m
  <1>4. \A f \in Nat : e <= f /\ f < D => V(e) <= V(f)
    <2> SUFFICES ASSUME NEW f \in Nat, e <= f, f < D
                 PROVE  V(e) <= V(f)
      OBVIOUS
    <2> DEFINE m == B * e
               k == B * f
    <2>1. m \in Nat /\ k \in Nat /\ m <= k /\ D \in Nat \ {0}
      BY <1>1, ProductOrder
    <2> HIDE DEF m, k
    <2>2. m \div D <= k \div D
      BY <2>1, QuotientOrder
    <2> QED
      BY <2>2 DEF m, k
  <1>5. e >= D => B * D <= B * e
    BY <1>1, ProductOrder
  <1> HIDE DEF V
  <1>6. LinearVested(p, e) \in Nat /\ LinearVested(p, e) <= B
    BY <1>1, <1>2, <1>3
  <1>7. LinearVested(p, e) * D <= B * e
    <2>1. CASE e < D
      BY <1>2, <1>3, <2>1
    <2>2. CASE e >= D
      BY <1>1, <1>2, <1>5, <2>2
    <2> QED
      BY <1>1, <2>1, <2>2
  <1>8. \A f \in Nat : e <= f => LinearVested(p, e) <= LinearVested(p, f)
    <2> SUFFICES ASSUME NEW f \in Nat, e <= f
                 PROVE  LinearVested(p, e) <= LinearVested(p, f)
      OBVIOUS
    <2>1. CASE f < D
      BY <1>1, <1>2, <1>4, <2>1
    <2>2. CASE f >= D
      BY <1>1, <1>2, <1>6, <2>2
    <2> QED
      BY <1>1, <2>1, <2>2
  <1> QED
    BY <1>6, <1>7, <1>8 DEF B, D

\* The coin seconds of a balance.
LEMMA CoinSeconds ==
    ASSUME NEW b, NEW t \in Nat, Vests(b, t), b.policy.kind = "cdd"
    PROVE  LET c == compute_coin_seconds_earned(b, t)
               S == Seconds(b.policy)
           IN  /\ c \in Nat /\ c <= b.amount * S
               /\ c <= b.policy.earned + b.amount * (t - b.policy.updated)
               /\ c \div S \in Nat /\ c \div S <= b.amount
               /\ (c \div S) * S <= c
  <1> DEFINE S == Seconds(b.policy)
             x == b.policy.earned + b.amount * (t - b.policy.updated)
             y == b.amount * S
             c == compute_coin_seconds_earned(b, t)
  <1>1. S \in Nat \ {0} /\ b.amount \in Nat /\ b.policy.earned \in Nat /\ b.policy.updated \in Nat
    BY PolicyTypes DEF Vests, Kinds
  <1>2. t - b.policy.updated \in Nat
    BY <1>1 DEF Vests, VestsByCoinSeconds
  <1>3. x \in Nat /\ y \in Nat
    BY <1>1, <1>2
  <1>4. c = Min({x, y})
    BY DEF compute_coin_seconds_earned
  <1> HIDE DEF x, y, S
  <1>5. Min({x, y}) = IF x <= y THEN x ELSE y
    <2>1. x \in Int /\ y \in Int
      BY <1>3
    <2> QED
      BY <2>1, MinOfTwo, Zenon
  <1>6. c \in Nat /\ c <= x /\ c <= y
    BY <1>3, <1>4, <1>5
  <1> HIDE DEF c
  <1>7. c \div S \in Nat /\ (c \div S) * S <= c
    BY <1>1, <1>6, QuotientBounds
  <1>8. c \div S <= b.amount
    <2>1. c <= b.amount * S
      BY <1>6 DEF y
    <2> QED
      BY <1>1, <1>6, <2>1, QuotientAtMost
  <1> QED
    BY <1>6, <1>7, <1>8 DEF x, y, S, c

\* Nobody may withdraw more than there is.
LEMMA AllowedFacts ==
    ASSUME NEW b, NEW t \in Nat, Vests(b, t)
    PROVE  get_allowed_withdraw(b, t) \in 0 .. b.amount
  <1> DEFINE p == b.policy
  <1>1. b.amount \in Nat /\ p.kind \in {"cdd", "linear"}
    BY PolicyTypes DEF Vests, Kinds
  <1>2. CASE p.kind = "cdd"
    <2> DEFINE q == compute_coin_seconds_earned(b, t) \div Seconds(p)
    <2>1. q \in 0 .. b.amount
      BY <1>1, <1>2, CoinSeconds
    <2>2. get_allowed_withdraw(b, t) = IF t <= p.start_claim THEN 0 ELSE q
      BY <1>2 DEF get_allowed_withdraw
    <2> HIDE DEF q
    <2> QED
      BY <1>1, <2>1, <2>2
  <1>3. CASE p.kind = "linear"
    <2> DEFINE e == t - p.begin
               v == LinearVested(p, e)
    <2>1. /\ p \in LinearPolicies /\ p.begin \in Nat /\ p.cliff \in Nat
          /\ p.begin_balance = b.paid_in /\ b.paid_in \in Nat /\ b.amount <= b.paid_in
      BY <1>3, PolicyTypes DEF Vests, VestsLinearly, Kinds
    <2>2. get_allowed_withdraw(b, t)
            = IF t > p.begin /\ e >= p.cliff THEN v - (b.paid_in - b.amount) ELSE 0
      BY <1>3, <2>1 DEF get_allowed_withdraw
    <2>3. CASE t > p.begin /\ e >= p.cliff
      <3>1. e \in Nat
        BY <2>1, <2>3
      <3> HIDE DEF e, p
      <3>2. v \in Nat /\ v <= b.paid_in
        BY <2>1, <3>1, LinearVestedFacts
      <3>3. b.amount < b.paid_in => b.paid_in - b.amount <= v
        BY <1>3 DEF Vests, VestsLinearly, p, e
      <3> HIDE DEF v
      <3> QED
        BY <1>1, <2>1, <2>2, <2>3, <3>2, <3>3
    <2>4. CASE ~(t > p.begin /\ e >= p.cliff)
      BY <1>1, <2>2, <2>4
    <2> QED
      BY <2>3, <2>4
  <1> QED
    BY <1>1, <1>2, <1>3

\* The invariant of a balance says what the assertions of its policy check, and
\* that it vests gradually.
LEMMA VestsIsSound ==
    ASSUME NEW b, NEW t \in Nat, Vests(b, t)
    PROVE  Sound(b, t) /\ Gradual(b, t)
  <1> DEFINE p == b.policy
  <1>1. /\ b.amount \in Nat /\ b.paid_in \in Nat /\ b.free_in \in Nat /\ b.since \in Nat
        /\ p.kind \in {"cdd", "linear"}
    BY PolicyTypes DEF Vests, Kinds
  <1>2. get_allowed_withdraw(b, t) \in 0 .. b.amount
    BY AllowedFacts
  <1>3. CASE p.kind = "cdd"
    <2> DEFINE S == Seconds(p)
               most == b.amount * S
               drawn == (b.paid_in - b.amount) * S
               free == b.free_in * S
    <2>1. S \in Nat \ {0} /\ p.earned \in Nat /\ p.updated \in Nat
      BY <1>3, PolicyTypes DEF Vests
    <2>2. /\ p.earned <= most /\ b.since <= p.updated /\ p.updated <= t
          /\ drawn + p.earned <= free + b.paid_in * (p.updated - b.since)
      BY <1>3 DEF Vests, VestsByCoinSeconds
    <2>3. b.paid_in * (p.updated - b.since) <= b.paid_in * (t - b.since)
      <3>1. p.updated - b.since \in Nat /\ t - b.since \in Nat
            /\ p.updated - b.since <= t - b.since
        BY <1>1, <2>1, <2>2
      <3> QED
        BY <1>1, <3>1, ProductOrder
    <2>4. drawn \in Int /\ free \in Int /\ most \in Nat
      BY <1>1, <2>1
    <2> DEFINE m == b.paid_in * (p.updated - b.since)
               k == b.paid_in * (t - b.since)
    <2>5. m \in Int /\ k \in Int
      BY <1>1, <2>1
    <2>6. drawn <= free + k
      <3> HIDE DEF m, k, drawn, free, most
      <3> QED
        BY <2>1, <2>2, <2>3, <2>4, <2>5 DEF m, k
    <2>7. Gradual(b, t)
      BY <1>3, <2>6 DEF Gradual
    <2>8. p.earned \in 0 .. most
      <3> HIDE DEF most
      <3> QED
        BY <2>1, <2>2, <2>4
    <2> QED
      BY <1>2, <1>3, <2>7, <2>8 DEF Sound
  <1>4. CASE p.kind = "linear"
    <2> DEFINE e == t - p.begin
               v == LinearVested(p, e)
               drawn == b.paid_in - b.amount
               most == p.begin_balance * (t - p.begin)
    <2>1. /\ p \in LinearPolicies /\ p.begin \in Nat /\ p.cliff \in Nat /\ p.duration \in Nat
          /\ p.begin_balance \in Nat
          /\ p.begin_balance = b.paid_in /\ b.amount <= b.paid_in
      BY <1>4, PolicyTypes DEF Vests, VestsLinearly, Kinds
    <2>2. drawn \in Nat /\ most \in Int
      BY <1>1, <2>1
    <2>3. drawn > 0 => /\ t > p.begin /\ e >= p.cliff /\ drawn <= v
      BY <1>1, <1>4, <2>1 DEF Vests, VestsLinearly
    <2>4. drawn > 0 => drawn * p.duration <= most
      <3> SUFFICES ASSUME drawn > 0
                   PROVE  drawn * p.duration <= most
        OBVIOUS
      <3>1. e \in Nat
        BY <2>1, <2>3
      <3> HIDE DEF p, drawn
      <3>2. v \in Nat /\ v * p.duration <= p.begin_balance * e
        <4> HIDE DEF e
        <4> QED
          BY <2>1, <3>1, LinearVestedFacts
      <3> HIDE DEF v
      <3>3. drawn * p.duration <= v * p.duration /\ drawn * p.duration \in Nat
            /\ v * p.duration \in Nat
        BY <2>1, <2>2, <2>3, <3>2, ProductOrder
      <3>4. most = p.begin_balance * e
        OBVIOUS
      <3> HIDE DEF most
      <3> QED
        BY <2>2, <3>2, <3>3, <3>4
    <2>5. Max({0, most}) = IF most >= 0 THEN most ELSE 0
      BY <2>2, MaxWithZero
    <2>6. drawn * p.duration <= Max({0, most})
      <3>1. CASE drawn > 0
        <4>1. drawn * p.duration \in Nat
          BY <2>1, <2>2
        <4> HIDE DEF most, drawn, p
        <4> QED
          BY <2>2, <2>4, <2>5, <3>1, <4>1
      <3>2. CASE drawn = 0
        <4>1. drawn * p.duration = 0
          BY <2>1, <3>2
        <4> HIDE DEF most, drawn, p
        <4> QED
          BY <2>2, <2>5, <4>1
      <3> HIDE DEF drawn
      <3> QED
        BY <2>2, <3>1, <3>2
    <2>7. drawn > 0 => t >= p.begin + p.cliff
      BY <2>1, <2>3
    <2>8. Gradual(b, t)
      BY <1>4, <2>6, <2>7 DEF Gradual
    <2> QED
      BY <1>2, <1>4, <2>1, <2>8 DEF Sound
  <1> QED
    BY <1>1, <1>3, <1>4

\* Time only helps.
LEMMA VestsLater ==
    ASSUME NEW b, NEW t \in Nat, NEW u \in Nat, Vests(b, t), t <= u
    PROVE  Vests(b, u)
  <1> DEFINE p == b.policy
  <1>1. /\ b.amount \in Nat /\ b.paid_in \in Nat /\ p.kind \in {"cdd", "linear"} /\ Kinds(b)
    BY PolicyTypes DEF Vests, Kinds
  <1>2. CASE p.kind = "cdd"
    <2>1. p.updated \in Nat
      BY <1>2, PolicyTypes DEF Vests
    <2>2. p.updated <= u
      BY <1>2, <2>1 DEF Vests, VestsByCoinSeconds
    <2> QED
      BY <1>1, <1>2, <2>2 DEF Vests, VestsByCoinSeconds
  <1>3. CASE p.kind = "linear"
    <2>1. p \in LinearPolicies /\ p.begin \in Nat /\ p.cliff \in Nat
      BY <1>3, PolicyTypes DEF Vests
    <2>2. p.begin_balance = b.paid_in /\ b.amount <= b.paid_in
      BY <1>3 DEF Vests, VestsLinearly
    <2>3. ASSUME b.amount < b.paid_in
          PROVE  /\ u > p.begin /\ u - p.begin >= p.cliff
                 /\ b.paid_in - b.amount <= LinearVested(p, u - p.begin)
      <3> DEFINE e == t - p.begin
                 f == u - p.begin
      <3>1. t > p.begin /\ e >= p.cliff /\ b.paid_in - b.amount <= LinearVested(p, e)
        BY <1>3, <2>3 DEF Vests, VestsLinearly
      <3>2. e \in Nat /\ f \in Nat /\ e <= f
        BY <2>1, <3>1
      <3>3. u > p.begin /\ f >= p.cliff
        BY <2>1, <3>1
      <3> HIDE DEF e, f, p
      <3>4. /\ LinearVested(p, e) <= LinearVested(p, f)
            /\ LinearVested(p, e) \in Nat /\ LinearVested(p, f) \in Nat
        BY <2>1, <3>2, LinearVestedFacts
      <3>5. b.paid_in - b.amount <= LinearVested(p, f)
        BY <1>1, <3>1, <3>4
      <3> QED
        BY <3>3, <3>5 DEF f, p
    <2>4. VestsLinearly(b, u)
      BY <2>2, <2>3 DEF VestsLinearly
    <2> QED
      BY <1>1, <1>3, <2>4 DEF Vests
  <1> QED
    BY <1>1, <1>2, <1>3

\* What was withdrawn and what is earned, brought up to date.
LEMMA EarnedGrows ==
    ASSUME NEW S \in Nat, NEW e \in Nat, NEW am \in Nat, NEW pi \in Nat, NEW fi \in Nat,
           NEW dt \in Nat, NEW sp \in Nat, NEW c \in Nat,
           c <= e + am * dt, am <= pi,
           (pi - am) * S + e <= fi * S + pi * sp
    PROVE  (pi - am) * S + c <= fi * S + pi * (sp + dt)
  <1> DEFINE A == (pi - am) * S
             B == fi * S
             C == pi * sp
             D == am * dt
             E == pi * dt
  <1>1. A \in Int /\ B \in Int /\ C \in Int /\ D \in Int /\ E \in Int
    OBVIOUS
  <1>2. D <= E
    BY ProductOrder
  <1>3. pi * (sp + dt) = C + E
    BY ProductSum
  <1> DEFINE F == pi * (sp + dt)
  <1>4. A + c <= B + F
    <2>1. A + e <= B + C /\ c <= e + D /\ F = C + E
      BY <1>3
    <2> HIDE DEF A, B, C, D, E, F
    <2> QED
      BY <1>1, <1>2, <2>1
  <1> QED
    BY <1>4

\* A deposit adds no more coin seconds than it may have, and keeps the bound on
\* what was drawn.
LEMMA DepositArithmetic ==
    ASSUME NEW S \in Nat, NEW am \in Nat, NEW pi \in Nat, NEW fi \in Nat,
           NEW w \in Nat, NEW c \in Nat, NEW n \in Nat, NEW free \in Nat,
           c <= am * S, free <= n, am <= pi,
           (pi - am) * S + c <= fi * S + pi * w
    PROVE  /\ c + free * S <= (am + n) * S
           /\ ((pi + n) - (am + n)) * S + (c + free * S) <= (fi + free) * S + (pi + n) * w
  <1> DEFINE A == (pi - am) * S
             B == fi * S
             C == pi * w
             N == n * S
             R == free * S
             W == n * w
             M == am * S
  <1>1. /\ A \in Int /\ B \in Int /\ C \in Int /\ N \in Int /\ R \in Int /\ W \in Nat /\ M \in Int
    OBVIOUS
  <1>2. R <= N
    BY ProductOrder
  <1>3. (am + n) * S = M + N /\ (fi + free) * S = B + R /\ (pi + n) * w = C + W
    BY ProductSum
  <1>4. (pi + n) - (am + n) = pi - am
    OBVIOUS
  <1>5. A + c <= B + C /\ c <= M
    OBVIOUS
  <1>6. /\ c + R <= M + N
        /\ A + (c + R) <= (B + R) + (C + W)
    <2> HIDE DEF A, B, C, N, R, W, M
    <2> QED
      BY <1>1, <1>2, <1>5
  <1> QED
    BY <1>3, <1>4, <1>6

\* A withdrawal takes the coin seconds of what it takes.
LEMMA WithdrawArithmetic ==
    ASSUME NEW S \in Nat, NEW am \in Nat, NEW pi \in Nat, NEW m \in Int, NEW c \in Nat,
           NEW n \in Nat,
           c <= am * S, n * S <= c, n <= am, am <= pi, (pi - am) * S + c <= m
    PROVE  /\ c - n * S \in Nat /\ c - n * S <= (am - n) * S
           /\ (pi - (am - n)) * S + (c - n * S) <= m
  <1> DEFINE A == (pi - am) * S
             N == n * S
             M == am * S
  <1>1. A \in Int /\ N \in Int /\ M \in Int
    OBVIOUS
  <1>2. (am - n) * S = M - N /\ pi - (am - n) = (pi - am) + n /\ ((pi - am) + n) * S = A + N
    BY ProductSum
  <1>3. A + c <= m /\ c <= M /\ N <= c
    OBVIOUS
  <1>4. c - N \in Nat /\ c - N <= M - N /\ (A + N) + (c - N) <= m
    <2> HIDE DEF A, N, M
    <2> QED
      BY <1>1, <1>3
  <1> QED
    BY <1>2, <1>4

VBal == [owner : Accounts, asset : Assets, amount : Nat, policy : CddPolicies \cup LinearPolicies,
         paid_in : Nat, free_in : Nat, since : Nat]

\* The fields of a vesting balance.
LEMMA VBalKinds ==
    ASSUME NEW b \in VBal
    PROVE  Kinds(b) /\ b.owner \in Accounts /\ b.asset \in Assets /\ b.amount \in Nat
  BY DEF VBal, Kinds

\* Setting the policy, the amount and the history of a balance.
LEMMA SetPolicy ==
    ASSUME NEW b \in VBal, NEW p \in CddPolicies \cup LinearPolicies
    PROVE  /\ [b EXCEPT !.policy = p] \in VBal
           /\ [b EXCEPT !.policy = p].policy = p
           /\ [b EXCEPT !.policy = p].owner = b.owner
           /\ [b EXCEPT !.policy = p].asset = b.asset
           /\ [b EXCEPT !.policy = p].amount = b.amount
           /\ [b EXCEPT !.policy = p].paid_in = b.paid_in
           /\ [b EXCEPT !.policy = p].free_in = b.free_in
           /\ [b EXCEPT !.policy = p].since = b.since
  <1> DEFINE Ps == CddPolicies \cup LinearPolicies
  <1>1. b \in [owner : Accounts, asset : Assets, amount : Nat, policy : Ps,
               paid_in : Nat, free_in : Nat, since : Nat] /\ p \in Ps
    BY DEF VBal
  <1> HIDE DEF Ps
  <1> QED
    BY <1>1 DEF VBal, Ps

LEMMA SetAmount ==
    ASSUME NEW b \in VBal, NEW m \in Nat
    PROVE  /\ [b EXCEPT !.amount = m] \in VBal
           /\ [b EXCEPT !.amount = m].policy = b.policy
           /\ [b EXCEPT !.amount = m].owner = b.owner
           /\ [b EXCEPT !.amount = m].asset = b.asset
           /\ [b EXCEPT !.amount = m].amount = m
           /\ [b EXCEPT !.amount = m].paid_in = b.paid_in
           /\ [b EXCEPT !.amount = m].free_in = b.free_in
           /\ [b EXCEPT !.amount = m].since = b.since
  <1> DEFINE Ps == CddPolicies \cup LinearPolicies
  <1>1. b \in [owner : Accounts, asset : Assets, amount : Nat, policy : Ps,
               paid_in : Nat, free_in : Nat, since : Nat]
    BY DEF VBal
  <1> HIDE DEF Ps
  <1> QED
    BY <1>1 DEF VBal, Ps

LEMMA SetPaid ==
    ASSUME NEW b \in VBal, NEW m \in Nat
    PROVE  /\ [b EXCEPT !.paid_in = m] \in VBal
           /\ [b EXCEPT !.paid_in = m].policy = b.policy
           /\ [b EXCEPT !.paid_in = m].owner = b.owner
           /\ [b EXCEPT !.paid_in = m].asset = b.asset
           /\ [b EXCEPT !.paid_in = m].amount = b.amount
           /\ [b EXCEPT !.paid_in = m].paid_in = m
           /\ [b EXCEPT !.paid_in = m].free_in = b.free_in
           /\ [b EXCEPT !.paid_in = m].since = b.since
  <1> DEFINE Ps == CddPolicies \cup LinearPolicies
  <1>1. b \in [owner : Accounts, asset : Assets, amount : Nat, policy : Ps,
               paid_in : Nat, free_in : Nat, since : Nat]
    BY DEF VBal
  <1> HIDE DEF Ps
  <1> QED
    BY <1>1 DEF VBal, Ps

LEMMA SetFree ==
    ASSUME NEW b \in VBal, NEW m \in Nat
    PROVE  /\ [b EXCEPT !.free_in = m] \in VBal
           /\ [b EXCEPT !.free_in = m].policy = b.policy
           /\ [b EXCEPT !.free_in = m].owner = b.owner
           /\ [b EXCEPT !.free_in = m].asset = b.asset
           /\ [b EXCEPT !.free_in = m].amount = b.amount
           /\ [b EXCEPT !.free_in = m].paid_in = b.paid_in
           /\ [b EXCEPT !.free_in = m].free_in = m
           /\ [b EXCEPT !.free_in = m].since = b.since
  <1> DEFINE Ps == CddPolicies \cup LinearPolicies
  <1>1. b \in [owner : Accounts, asset : Assets, amount : Nat, policy : Ps,
               paid_in : Nat, free_in : Nat, since : Nat]
    BY DEF VBal
  <1> HIDE DEF Ps
  <1> QED
    BY <1>1 DEF VBal, Ps

\* A balance by coin seconds, up to date.
LEMMA UpdateFacts ==
    ASSUME NEW b \in VBal, b.policy.kind = "cdd", NEW t \in Nat, Vests(b, t)
    PROVE  LET u == update_coin_seconds_earned(b, t)
           IN  /\ u \in VBal /\ u.policy \in CddPolicies
               /\ u.policy.earned = compute_coin_seconds_earned(b, t) /\ u.policy.updated = t
               /\ u.policy.seconds = b.policy.seconds
               /\ u.owner = b.owner /\ u.asset = b.asset /\ u.amount = b.amount
               /\ u.paid_in = b.paid_in /\ u.free_in = b.free_in /\ u.since = b.since
  <1> DEFINE c == compute_coin_seconds_earned(b, t)
             p1 == [b.policy EXCEPT !.earned = c]
             b1 == [b EXCEPT !.policy = p1]
             p2 == [b1.policy EXCEPT !.updated = t]
             u == [b1 EXCEPT !.policy = p2]
  <1>1. update_coin_seconds_earned(b, t) = u
    BY DEF update_coin_seconds_earned
  <1>2. c \in Nat /\ b.policy \in CddPolicies
    BY CoinSeconds, PolicyTypes, VBalKinds
  <1> HIDE DEF c
  <1>3. p1 \in CddPolicies /\ p1.earned = c /\ p1.seconds = b.policy.seconds
    BY <1>2 DEF CddPolicies
  <1> HIDE DEF p1
  <1>4. /\ b1 \in VBal /\ b1.policy = p1 /\ b1.owner = b.owner /\ b1.asset = b.asset
        /\ b1.amount = b.amount /\ b1.paid_in = b.paid_in /\ b1.free_in = b.free_in
        /\ b1.since = b.since
    BY <1>3, SetPolicy
  <1> HIDE DEF b1
  <1>5. /\ p2 \in CddPolicies /\ p2.earned = c /\ p2.seconds = b.policy.seconds
        /\ p2.updated = t
    BY <1>3, <1>4 DEF CddPolicies
  <1> HIDE DEF p2
  <1>6. /\ u \in VBal /\ u.policy = p2 /\ u.owner = b.owner /\ u.asset = b.asset
        /\ u.amount = b.amount /\ u.paid_in = b.paid_in /\ u.free_in = b.free_in
        /\ u.since = b.since
    BY <1>4, <1>5, SetPolicy
  <1> HIDE DEF u
  <1> QED
    BY <1>1, <1>5, <1>6 DEF c

\* A deposit, vested or not.
LEMMA DepositVests ==
    ASSUME NEW b \in VBal, b.policy.kind = "cdd", NEW t \in Nat, NEW n \in Nat, NEW v \in BOOLEAN,
           Vests(b, t)
    PROVE  LET r == deposit(b, t, n, v)
           IN  /\ r \in VBal /\ Vests(r, t) /\ r.policy.kind = "cdd"
               /\ r.asset = b.asset /\ r.owner = b.owner /\ r.amount = b.amount + n
  <1> DEFINE S == Seconds(b.policy)
             c == compute_coin_seconds_earned(b, t)
             free == IF v THEN n ELSE 0
             u == update_coin_seconds_earned(b, t)
             m == free * S
             p == [u.policy EXCEPT !.earned = u.policy.earned + m]
             u1 == [u EXCEPT !.policy = p]
             u2 == [u1 EXCEPT !.amount = u1.amount + n]
             u3 == [u2 EXCEPT !.paid_in = u2.paid_in + n]
             r == [u3 EXCEPT !.free_in = u3.free_in + free]
  <1>1. deposit(b, t, n, v) = [u EXCEPT !.policy.earned = @ + m, !.amount = @ + n,
                                        !.paid_in = @ + n, !.free_in = @ + free]
    BY DEF deposit
  <1>2. /\ b.amount \in Nat /\ b.paid_in \in Nat /\ b.free_in \in Nat /\ b.since \in Nat
        /\ S \in Nat \ {0} /\ b.policy.updated \in Nat /\ b.policy.earned \in Nat
    BY PolicyTypes, VBalKinds DEF Kinds
  <1>3. free \in Nat /\ free <= n /\ c \in Nat /\ c <= b.amount * S
    BY CoinSeconds
  <1>4. m \in Nat
    BY <1>2, <1>3
  <1>5. /\ u \in VBal /\ u.policy \in CddPolicies
        /\ u.policy.earned = c /\ u.policy.updated = t
        /\ u.policy.seconds = b.policy.seconds
        /\ u.owner = b.owner /\ u.asset = b.asset /\ u.amount = b.amount
        /\ u.paid_in = b.paid_in /\ u.free_in = b.free_in /\ u.since = b.since
    BY UpdateFacts
  <1>6. /\ b.since <= b.policy.updated /\ b.policy.updated <= t /\ b.amount <= b.paid_in
        /\ (b.paid_in - b.amount) * S + c <= b.free_in * S + b.paid_in * (t - b.since)
    <2> DEFINE dt == t - b.policy.updated
               sp == b.policy.updated - b.since
    <2>1. /\ b.since <= b.policy.updated /\ b.policy.updated <= t /\ b.amount <= b.paid_in
          /\ (b.paid_in - b.amount) * S + b.policy.earned <= b.free_in * S + b.paid_in * sp
      BY DEF Vests, VestsByCoinSeconds
    <2>2. dt \in Nat /\ sp \in Nat /\ sp + dt = t - b.since
      BY <1>2, <2>1
    <2>3. c <= b.policy.earned + b.amount * dt
      BY CoinSeconds
    <2> HIDE DEF dt, sp, c, S
    <2>4. (b.paid_in - b.amount) * S + c <= b.free_in * S + b.paid_in * (sp + dt)
      BY <1>2, <1>3, <2>1, <2>2, <2>3, EarnedGrows
    <2> QED
      BY <2>1, <2>2, <2>4
  <1> HIDE DEF c, m, u
  <1>7. p \in CddPolicies /\ p.earned = c + m /\ p.updated = t /\ p.seconds = b.policy.seconds
        /\ p.kind = "cdd"
    BY <1>3, <1>4, <1>5 DEF CddPolicies
  <1> HIDE DEF p
  <1>8. /\ u1 \in VBal /\ u1.policy = p /\ u1.owner = b.owner /\ u1.asset = b.asset
        /\ u1.amount = b.amount /\ u1.paid_in = b.paid_in /\ u1.free_in = b.free_in
        /\ u1.since = b.since
    BY <1>5, <1>7, SetPolicy
  <1> HIDE DEF u1
  <1>9. /\ u2 \in VBal /\ u2.policy = p /\ u2.owner = b.owner /\ u2.asset = b.asset
        /\ u2.amount = b.amount + n /\ u2.paid_in = b.paid_in /\ u2.free_in = b.free_in
        /\ u2.since = b.since
    <2>1. u1.amount + n \in Nat
      BY <1>2, <1>8
    <2> QED
      BY <1>8, <2>1, SetAmount
  <1> HIDE DEF u2, free
  <1>10. /\ r \in VBal /\ r.policy = p /\ r.owner = b.owner /\ r.asset = b.asset
         /\ r.amount = b.amount + n /\ r.since = b.since
         /\ r.paid_in = b.paid_in + n /\ r.free_in = b.free_in + free
    <2>1. u2.paid_in + n \in Nat
      BY <1>2, <1>9
    <2>2. /\ u3 \in VBal /\ u3.policy = p /\ u3.owner = b.owner /\ u3.asset = b.asset
          /\ u3.amount = b.amount + n /\ u3.since = b.since
          /\ u3.paid_in = b.paid_in + n /\ u3.free_in = b.free_in
      BY <1>9, <2>1, SetPaid
    <2> HIDE DEF u3
    <2>3. u3.free_in + free \in Nat
      BY <1>2, <1>3, <2>2
    <2> QED
      BY <2>2, <2>3, SetFree
  <1>11. deposit(b, t, n, v) = r
    BY <1>1 DEF u3, u2, u1, p
  <1> HIDE DEF r
  <1>12. /\ c + m <= (b.amount + n) * S
         /\ ((b.paid_in + n) - (b.amount + n)) * S + (c + m)
              <= (b.free_in + free) * S + (b.paid_in + n) * (t - b.since)
    <2> DEFINE w == t - b.since
    <2>1. w \in Nat
      BY <1>2, <1>6
    <2> HIDE DEF S, w
    <2>2. /\ c + free * S <= (b.amount + n) * S
          /\ ((b.paid_in + n) - (b.amount + n)) * S + (c + free * S)
              <= (b.free_in + free) * S + (b.paid_in + n) * w
      BY <1>2, <1>3, <1>6, <2>1, DepositArithmetic DEF w
    <2> QED
      BY <2>2 DEF m, w
  <1>13. Seconds(p) = S
    BY <1>7 DEF Seconds
  <1>14. VestsByCoinSeconds(r, t)
    <2>1. r.since <= t /\ r.amount <= r.paid_in
      BY <1>2, <1>6, <1>10
    <2> HIDE DEF S
    <2> QED
      BY <1>7, <1>10, <1>12, <1>13, <2>1 DEF VestsByCoinSeconds
  <1>15. Vests(r, t)
    BY <1>7, <1>10, <1>14, VBalKinds DEF Vests
  <1> QED
    BY <1>7, <1>10, <1>11, <1>15

-----------------------------------------------------------------------------
(* Withdrawals and new balances *)

\* A linear balance from which no more is taken than what is allowed.
LEMMA LinearDraw ==
    ASSUME NEW b, NEW r, NEW t \in Nat, NEW n \in Nat, Vests(b, t), b.policy.kind = "linear",
           n <= get_allowed_withdraw(b, t),
           r.policy = b.policy, r.paid_in = b.paid_in, r.free_in = b.free_in,
           r.since = b.since, r.amount = b.amount - n
    PROVE  Vests(r, t)
  <1> DEFINE p == b.policy
             e == t - p.begin
             v == LinearVested(p, e)
  <1>1. /\ b.amount \in Nat /\ b.paid_in \in Nat /\ Kinds(b)
        /\ p \in LinearPolicies /\ p.begin \in Nat /\ p.cliff \in Nat
        /\ p.begin_balance = b.paid_in /\ b.amount <= b.paid_in
    BY PolicyTypes DEF Vests, VestsLinearly, Kinds
  <1>2. get_allowed_withdraw(b, t)
          = IF t > p.begin /\ e >= p.cliff THEN v - (b.paid_in - b.amount) ELSE 0
    BY <1>1 DEF get_allowed_withdraw
  <1>3. n <= b.amount
    BY <1>1, AllowedFacts
  <1>4. Kinds(r)
    BY <1>1, <1>3 DEF Kinds
  <1>5. CASE t > p.begin /\ e >= p.cliff
    <2>1. v \in Nat
      <3>1. e \in Nat
        BY <1>1, <1>5
      <3> HIDE DEF e, p
      <3> QED
        BY <1>1, <3>1, LinearVestedFacts
    <2> HIDE DEF v
    <2>2. r.paid_in - r.amount <= v
      BY <1>1, <1>2, <1>5, <2>1
    <2>3. r.amount <= r.paid_in
      BY <1>1, <1>3
    <2>4. VestsLinearly(r, t)
      BY <1>1, <1>5, <2>2, <2>3 DEF VestsLinearly, v
    <2> QED
      BY <1>4, <2>4 DEF Vests
  <1>6. CASE ~(t > p.begin /\ e >= p.cliff)
    <2>1. n = 0
      BY <1>2, <1>6
    <2>2. r.amount = b.amount
      BY <1>1, <2>1
    <2>3. VestsLinearly(b, t)
      BY DEF Vests
    <2>4. VestsLinearly(r, t)
      BY <2>2, <2>3 DEF VestsLinearly
    <2> QED
      BY <1>4, <2>4 DEF Vests
  <1> QED
    BY <1>5, <1>6

\* A withdrawal of no more than what is allowed.
LEMMA WithdrawVests ==
    ASSUME NEW b \in VBal, NEW t \in Nat, NEW n \in Nat, Vests(b, t),
           n <= get_allowed_withdraw(b, t)
    PROVE  LET r == withdraw(b, t, n)
           IN  /\ r \in VBal /\ Vests(r, t) /\ r.policy.kind = b.policy.kind
               /\ r.asset = b.asset /\ r.owner = b.owner
               /\ n <= b.amount /\ r.amount = b.amount - n
  <1>1. /\ b.amount \in Nat /\ b.paid_in \in Nat /\ b.free_in \in Nat /\ b.since \in Nat
        /\ b.policy.kind \in {"cdd", "linear"}
    BY PolicyTypes, VBalKinds DEF Kinds
  <1>2. n <= b.amount /\ b.amount - n \in Nat
    BY <1>1, AllowedFacts
  <1>3. CASE b.policy.kind = "linear"
    <2> DEFINE r == [b EXCEPT !.amount = b.amount - n]
    <2>1. withdraw(b, t, n) = r
      BY <1>3 DEF withdraw
    <2>2. /\ r \in VBal /\ r.policy = b.policy /\ r.owner = b.owner /\ r.asset = b.asset
          /\ r.amount = b.amount - n /\ r.paid_in = b.paid_in /\ r.free_in = b.free_in
          /\ r.since = b.since
      BY <1>2, SetAmount
    <2> HIDE DEF r
    <2>3. Vests(r, t)
      BY <1>3, <2>2, LinearDraw
    <2> QED
      BY <1>2, <2>1, <2>2, <2>3
  <1>4. CASE b.policy.kind = "cdd"
    <2> DEFINE S == Seconds(b.policy)
               c == compute_coin_seconds_earned(b, t)
               u == update_coin_seconds_earned(b, t)
               m == n * S
               p == [u.policy EXCEPT !.earned = u.policy.earned - m]
               u1 == [u EXCEPT !.policy = p]
               r == [u1 EXCEPT !.amount = u1.amount - n]
    <2>1. withdraw(b, t, n) = [[u EXCEPT !.policy.earned = @ - m] EXCEPT !.amount = @ - n]
      BY <1>4 DEF withdraw
    <2>2. S \in Nat \ {0} /\ b.policy.updated \in Nat /\ b.policy.earned \in Nat
      BY <1>4, PolicyTypes, VBalKinds
    <2>3. c \in Nat /\ c <= b.amount * S /\ m <= c /\ m \in Nat
      <3> DEFINE q == c \div S
      <3>1. c \in Nat /\ c <= b.amount * S /\ q \in Nat /\ q * S <= c
        BY <1>4, CoinSeconds
      <3>2. n <= q
        <4>1. get_allowed_withdraw(b, t) = IF t <= b.policy.start_claim THEN 0 ELSE q
          BY <1>4 DEF get_allowed_withdraw
        <4> HIDE DEF q
        <4> QED
          BY <3>1, <4>1
      <3> HIDE DEF q, c, S
      <3>3. n * S <= q * S /\ n * S \in Nat /\ q * S \in Nat
        BY <2>2, <3>1, <3>2, ProductOrder
      <3>4. m <= c /\ m \in Nat
        BY <3>1, <3>3
      <3> QED
        BY <3>1, <3>4
    <2>4. /\ u \in VBal /\ u.policy \in CddPolicies
          /\ u.policy.earned = c /\ u.policy.updated = t
          /\ u.policy.seconds = b.policy.seconds
          /\ u.owner = b.owner /\ u.asset = b.asset /\ u.amount = b.amount
          /\ u.paid_in = b.paid_in /\ u.free_in = b.free_in /\ u.since = b.since
      BY <1>4, UpdateFacts
    <2>5. /\ b.since <= b.policy.updated /\ b.policy.updated <= t /\ b.amount <= b.paid_in
          /\ (b.paid_in - b.amount) * S + c <= b.free_in * S + b.paid_in * (t - b.since)
      <3> DEFINE dt == t - b.policy.updated
                 sp == b.policy.updated - b.since
      <3>1. /\ b.since <= b.policy.updated /\ b.policy.updated <= t /\ b.amount <= b.paid_in
            /\ (b.paid_in - b.amount) * S + b.policy.earned <= b.free_in * S + b.paid_in * sp
        BY <1>4 DEF Vests, VestsByCoinSeconds
      <3>2. dt \in Nat /\ sp \in Nat /\ sp + dt = t - b.since
        BY <1>1, <2>2, <3>1
      <3>3. c <= b.policy.earned + b.amount * dt
        BY <1>4, CoinSeconds
      <3> HIDE DEF dt, sp, c, S
      <3>4. (b.paid_in - b.amount) * S + c <= b.free_in * S + b.paid_in * (sp + dt)
        BY <1>1, <2>2, <2>3, <3>1, <3>2, <3>3, EarnedGrows
      <3> QED
        BY <3>1, <3>2, <3>4
    <2> HIDE DEF c, u
    <2>6. /\ c - m \in Nat /\ c - m <= (b.amount - n) * S
          /\ (b.paid_in - (b.amount - n)) * S + (c - m)
               <= b.free_in * S + b.paid_in * (t - b.since)
      <3> DEFINE k == b.free_in * S + b.paid_in * (t - b.since)
      <3>1. k \in Int
        BY <1>1, <2>2
      <3>2. (b.paid_in - b.amount) * S + c <= k
        BY <2>5
      <3> HIDE DEF k, S
      <3>3. /\ c - n * S \in Nat /\ c - n * S <= (b.amount - n) * S
            /\ (b.paid_in - (b.amount - n)) * S + (c - n * S) <= k
        BY <1>1, <1>2, <2>2, <2>3, <2>5, <3>1, <3>2, WithdrawArithmetic
      <3> QED
        BY <3>3 DEF k
    <2> HIDE DEF m
    <2>7. p \in CddPolicies /\ p.earned = c - m /\ p.updated = t /\ p.seconds = b.policy.seconds
          /\ p.kind = "cdd"
      BY <2>4, <2>6 DEF CddPolicies
    <2> HIDE DEF p
    <2>8. /\ u1 \in VBal /\ u1.policy = p /\ u1.owner = b.owner /\ u1.asset = b.asset
          /\ u1.amount = b.amount /\ u1.paid_in = b.paid_in /\ u1.free_in = b.free_in
          /\ u1.since = b.since
      BY <2>4, <2>7, SetPolicy
    <2> HIDE DEF u1
    <2>9. /\ r \in VBal /\ r.policy = p /\ r.owner = b.owner /\ r.asset = b.asset
          /\ r.amount = b.amount - n /\ r.paid_in = b.paid_in /\ r.free_in = b.free_in
          /\ r.since = b.since
      <3>1. u1.amount - n \in Nat
        BY <1>2, <2>8
      <3> QED
        BY <2>8, <3>1, SetAmount
    <2>10. withdraw(b, t, n) = r
      BY <2>1 DEF u1, p
    <2> HIDE DEF r
    <2>11. Seconds(p) = S
      BY <2>7 DEF Seconds
    <2>12. VestsByCoinSeconds(r, t)
      <3>1. r.since <= t /\ r.amount <= r.paid_in
        BY <1>1, <1>2, <2>2, <2>5, <2>9
      <3> HIDE DEF S
      <3> QED
        BY <2>6, <2>7, <2>9, <2>11, <3>1 DEF VestsByCoinSeconds
    <2>13. Vests(r, t)
      BY <2>7, <2>9, <2>12, VBalKinds DEF Vests
    <2> QED
      BY <1>2, <1>4, <2>7, <2>9, <2>10, <2>13
  <1> QED
    BY <1>1, <1>3, <1>4

\* The coin seconds of what is free at once.
AtMost(earned, free, seconds) == earned <= free * seconds

\* A new balance by coin seconds, part of which may be free at once.
LEMMA NewCdd ==
    ASSUME NEW owner \in Accounts, NEW x \in Assets, NEW n \in Nat, NEW seconds \in Nat,
           NEW free \in Nat, free <= n, NEW t \in Nat, NEW claim \in Nat, NEW e \in Nat,
           AtMost(e, free, seconds),
           NEW b, b = VestingBalance(owner, x, n, Cdd(seconds, e, t, claim), free, t)
    PROVE  /\ b \in VBal /\ Vests(b, t) /\ b.policy.kind = "cdd"
           /\ b.asset = x /\ b.amount = n /\ b.owner = owner
  <1> DEFINE p == Cdd(seconds, e, t, claim)
             S == Seconds(p)
  <1>1. e \in Nat /\ free \in Nat /\ free <= n /\ e <= free * seconds
    BY DEF AtMost
  <1>2. p \in CddPolicies /\ p.kind = "cdd" /\ p.seconds = seconds /\ p.earned = e
        /\ p.updated = t
    BY <1>1 DEF Cdd, CddPolicies
  <1>3. S \in Nat /\ seconds <= S
    BY <1>2 DEF Seconds
  <1>4. e <= free * S /\ free * S <= n * S /\ free * S \in Nat /\ n * S \in Nat
    <2> HIDE DEF S
    <2> QED
      BY <1>1, <1>3, ProductOrder
  <1> HIDE DEF p
  <1>5. /\ b \in VBal /\ b.policy = p /\ b.asset = x /\ b.amount = n /\ b.owner = owner
        /\ b.paid_in = n /\ b.free_in = free /\ b.since = t
    <2>1. b = VestingBalance(owner, x, n, p, free, t)
      BY DEF p
    <2> QED
      BY <1>1, <1>2, <2>1 DEF VestingBalance, VBal
  <1>6. (b.paid_in - b.amount) * S + e <= b.free_in * S + b.paid_in * (t - b.since)
    <2>1. b.paid_in - b.amount = 0 /\ t - b.since = 0
      BY <1>5
    <2>2. 0 * S = 0 /\ b.paid_in * 0 = 0
      BY <1>3, <1>5
    <2>3. 0 * S + e <= free * S + b.paid_in * 0
      <3> HIDE DEF S
      <3> QED
        BY <1>1, <1>3, <1>4, <2>2
    <2> QED
      BY <1>5, <2>1, <2>3
  <1>7. e <= n * S
    <2> HIDE DEF S
    <2> QED
      BY <1>1, <1>4
  <1>8. VestsByCoinSeconds(b, t)
    BY <1>2, <1>5, <1>6, <1>7 DEF VestsByCoinSeconds
  <1>9. Vests(b, t)
    BY <1>2, <1>5, <1>8, VBalKinds DEF Vests
  <1> QED
    BY <1>2, <1>5, <1>9

\* A new linear balance.
LEMMA NewLinear ==
    ASSUME NEW owner \in Accounts, NEW x \in Assets, NEW n \in Nat, NEW t \in Nat,
           NEW begin \in Nat, NEW cliff \in Nat, NEW duration \in Nat
    PROVE  LET b == VestingBalance(owner, x, n, Linear(begin, cliff, duration, n), 0, t)
           IN  b \in VBal /\ Vests(b, t) /\ b.asset = x /\ b.amount = n
  <1> DEFINE p == Linear(begin, cliff, duration, n)
             b == VestingBalance(owner, x, n, p, 0, t)
  <1>1. p \in LinearPolicies /\ p.kind = "linear" /\ p.begin_balance = n
    BY DEF Linear, LinearPolicies
  <1> HIDE DEF p
  <1>2. b \in VBal /\ b.policy = p /\ b.asset = x /\ b.amount = n /\ b.paid_in = n
    BY <1>1 DEF VestingBalance, VBal
  <1> HIDE DEF b
  <1>3. VestsLinearly(b, t)
    BY <1>1, <1>2 DEF VestsLinearly
  <1>4. Vests(b, t)
    BY <1>1, <1>2, <1>3, VBalKinds DEF Vests
  <1> QED
    BY <1>2, <1>4 DEF b, p

-----------------------------------------------------------------------------
(* The database *)

Account ==
    [balance : [Assets -> Nat], pending : Nat, vested : Nat, cashback : Nat, pay : Nat,
     lifetime : BOOLEAN, registrar : Accounts, lifetime_referrer : Accounts, referrer : Accounts]

AssetData == [supply : Int, pool : Nat, fees : Nat]

AssetTables == UNION {[X -> AssetData] : X \in SUBSET Assets}

Databases == [accounts : [Accounts -> Account], assets : AssetTables, vestings : Seq(VBal),
              now : Nat]

\* The id of a vesting balance of core units, or none.
IsCoreId(id, vs) == id # 0 => id \in DOMAIN vs /\ vs[id].asset = Core

\* An account has nothing of assets that do not exist.
AccountOK(c, X, vs) ==
    /\ c \in Account
    /\ IsCoreId(c.cashback, vs) /\ IsCoreId(c.pay, vs)
    /\ \A x \in Assets \ X : c.balance[x] = 0

AssetOK(x, r) == r \in AssetData /\ r.supply <= MaxSupply[x]

VestingOK(b, X, t) == b \in VBal /\ b.asset \in X /\ Vests(b, t)

\* The balance of the worker.
WorkerOK(b) == b.asset = Core /\ b.policy.kind = "cdd"

Good(d) ==
    /\ d \in Databases
    /\ Core \in DOMAIN d.assets
    /\ \A a \in Accounts : AccountOK(d.accounts[a], DOMAIN d.assets, d.vestings)
    /\ \A x \in DOMAIN d.assets : AssetOK(x, d.assets[x])
    /\ \A i \in DOMAIN d.vestings : VestingOK(d.vestings[i], DOMAIN d.assets, d.now)
    /\ 1 \in DOMAIN d.vestings /\ WorkerOK(d.vestings[1])

\* The parts of what is held.
InBalances(d, x) == Sum([a \in Accounts |-> d.accounts[a].balance[x]], Accounts)
InVestings(d, x) ==
    Sum([i \in DOMAIN d.vestings |-> IF d.vestings[i].asset = x THEN d.vestings[i].amount ELSE 0],
        DOMAIN d.vestings)
InPending(d) == Sum([a \in Accounts |-> d.accounts[a].pending + d.accounts[a].vested], Accounts)
InPools(d) == Sum([y \in DOMAIN d.assets |-> d.assets[y].pool], DOMAIN d.assets)

\* How much of the supply nobody holds.
Gap(d, x) == d.assets[x].supply - Held(d, x)

\* The gap, by its parts.
LEMMA GapIs ==
    ASSUME NEW d, NEW x
    PROVE  Gap(d, x) = d.assets[x].supply
                       - (InBalances(d, x) + d.assets[x].fees + InVestings(d, x)
                          + IF x # Core THEN 0 ELSE InPending(d) + InPools(d))
  BY DEF Gap, Held, InBalances, InVestings, InPending, InPools

\* What a good database is made of.
LEMMA DatabaseParts ==
    ASSUME NEW d, Good(d)
    PROVE  /\ d.accounts \in [Accounts -> Account] /\ d.assets \in AssetTables
           /\ d.vestings \in Seq(VBal) /\ d.now \in Nat
           /\ DOMAIN d.assets \subseteq Assets /\ IsFiniteSet(DOMAIN d.assets)
           /\ DOMAIN d.vestings = 1 .. Len(d.vestings) /\ Len(d.vestings) \in Nat
           /\ IsFiniteSet(DOMAIN d.vestings) /\ IsFiniteSet(Accounts)
           /\ d.assets \in [DOMAIN d.assets -> AssetData]
  <1>1. /\ d.accounts \in [Accounts -> Account] /\ d.assets \in AssetTables
        /\ d.vestings \in Seq(VBal) /\ d.now \in Nat
    BY DEF Good, Databases
  <1>2. DOMAIN d.assets \subseteq Assets /\ d.assets \in [DOMAIN d.assets -> AssetData]
    BY <1>1 DEF AssetTables
  <1>3. IsFiniteSet(Uias) /\ IsFiniteSet(Accounts)
    BY GenesisAssumption
  <1>4. IsFiniteSet(Assets)
    BY <1>3, FS_AddElement, FS_Union, FS_Singleton DEF Assets
  <1>5. IsFiniteSet(DOMAIN d.assets)
    BY <1>2, <1>4, FS_Subset
  <1>6. DOMAIN d.vestings = 1 .. Len(d.vestings) /\ Len(d.vestings) \in Nat
    BY <1>1
  <1>7. IsFiniteSet(DOMAIN d.vestings)
    BY <1>6, FS_Interval
  <1> QED
    BY <1>1, <1>2, <1>3, <1>5, <1>6, <1>7

LEMMA AccountParts ==
    ASSUME NEW c \in Account
    PROVE  /\ c.balance \in [Assets -> Nat] /\ \A x \in Assets : c.balance[x] \in Nat
           /\ c.pending \in Nat /\ c.vested \in Nat /\ c.cashback \in Nat /\ c.pay \in Nat
           /\ c.lifetime \in BOOLEAN /\ c.registrar \in Accounts
           /\ c.lifetime_referrer \in Accounts /\ c.referrer \in Accounts
  BY DEF Account

LEMMA VestingParts ==
    ASSUME NEW d, Good(d), NEW i \in DOMAIN d.vestings
    PROVE  /\ d.vestings[i] \in VBal /\ Vests(d.vestings[i], d.now)
           /\ d.vestings[i].amount \in Nat /\ d.vestings[i].asset \in DOMAIN d.assets
           /\ d.vestings[i].owner \in Accounts
  BY VBalKinds DEF Good, VestingOK

LEMMA AssetParts ==
    ASSUME NEW d, Good(d), NEW x \in DOMAIN d.assets
    PROVE  /\ d.assets[x] \in AssetData /\ d.assets[x].supply \in Int
           /\ d.assets[x].pool \in Nat /\ d.assets[x].fees \in Nat
           /\ d.assets[x].supply <= MaxSupply[x]
  BY DEF Good, AssetOK, AssetData

\* All that is held is a number.
LEMMA HeldParts ==
    ASSUME NEW d, Good(d)
    PROVE  /\ \A x \in DOMAIN d.assets : InBalances(d, x) \in Nat
           /\ \A x \in DOMAIN d.assets : InVestings(d, x) \in Nat
           /\ InPending(d) \in Nat /\ InPools(d) \in Nat
           /\ \A x \in DOMAIN d.assets : Gap(d, x) \in Int
  <1>1. /\ IsFiniteSet(Accounts) /\ IsFiniteSet(DOMAIN d.vestings) /\ IsFiniteSet(DOMAIN d.assets)
        /\ d.accounts \in [Accounts -> Account] /\ DOMAIN d.assets \subseteq Assets
    BY DatabaseParts
  <1>2. \A a \in Accounts : d.accounts[a] \in Account
    BY <1>1
  <1>3. ASSUME NEW x \in DOMAIN d.assets
        PROVE  InBalances(d, x) \in Nat
    <2> DEFINE f == [a \in Accounts |-> d.accounts[a].balance[x]]
    <2>1. \A a \in Accounts : f[a] \in Nat
      BY <1>1, <1>2, AccountParts
    <2> HIDE DEF f
    <2>2. Sum(f, Accounts) \in Nat
      BY <1>1, <2>1, SumType
    <2> QED
      BY <2>2 DEF InBalances, f
  <1>4. ASSUME NEW x \in DOMAIN d.assets
        PROVE  InVestings(d, x) \in Nat
    <2> DEFINE D == DOMAIN d.vestings
               f == [i \in D |-> IF d.vestings[i].asset = x THEN d.vestings[i].amount ELSE 0]
    <2>1. \A i \in D : f[i] \in Nat
      BY VestingParts
    <2> HIDE DEF f, D
    <2>2. Sum(f, D) \in Nat
      BY <1>1, <2>1, SumType DEF D
    <2> QED
      BY <2>2 DEF InVestings, f, D
  <1>5. InPending(d) \in Nat
    <2> DEFINE f == [a \in Accounts |-> d.accounts[a].pending + d.accounts[a].vested]
    <2>1. \A a \in Accounts : f[a] \in Nat
      BY <1>2, AccountParts
    <2> HIDE DEF f
    <2>2. Sum(f, Accounts) \in Nat
      BY <1>1, <2>1, SumType
    <2> QED
      BY <2>2 DEF InPending, f
  <1>6. InPools(d) \in Nat
    <2> DEFINE D == DOMAIN d.assets
               f == [y \in D |-> d.assets[y].pool]
    <2>1. \A y \in D : f[y] \in Nat
      BY AssetParts
    <2> HIDE DEF f, D
    <2>2. Sum(f, D) \in Nat
      BY <1>1, <2>1, SumType DEF D
    <2> QED
      BY <2>2 DEF InPools, f, D
  <1>7. \A x \in DOMAIN d.assets : Gap(d, x) \in Int
    BY <1>3, <1>4, <1>5, <1>6, AssetParts, GapIs
  <1> QED
    BY <1>3, <1>4, <1>5, <1>6, <1>7

-----------------------------------------------------------------------------
(* The changes of the database *)

SetAccount(d, a, c) == [d EXCEPT !.accounts = [d.accounts EXCEPT ![a] = c]]
SetAsset(d, x, r) == [d EXCEPT !.assets = [d.assets EXCEPT ![x] = r]]
SetVesting(d, i, b) == [d EXCEPT !.vestings = [d.vestings EXCEPT ![i] = b]]

\* One account, asset or vesting balance changes, the rest stays.
LEMMA SetAccountParts ==
    ASSUME NEW d \in Databases, NEW a \in Accounts, NEW c \in Account
    PROVE  LET e == SetAccount(d, a, c)
           IN  /\ e \in Databases
               /\ e.assets = d.assets /\ e.vestings = d.vestings /\ e.now = d.now
               /\ e.accounts[a] = c /\ \A b \in Accounts \ {a} : e.accounts[b] = d.accounts[b]
  <1> DEFINE new == [d.accounts EXCEPT ![a] = c]
  <1>1. d \in [accounts : [Accounts -> Account], assets : AssetTables, vestings : Seq(VBal),
               now : Nat]
    BY DEF Databases
  <1>2. d.accounts \in [Accounts -> Account]
    BY <1>1
  <1>3. /\ new \in [Accounts -> Account] /\ new[a] = c
        /\ \A b \in Accounts \ {a} : new[b] = d.accounts[b]
    BY <1>2
  <1> DEFINE A == [Accounts -> Account]
             V == Seq(VBal)
             T == AssetTables
  <1> HIDE DEF new, A, V, T
  <1>4. d \in [accounts : A, assets : T, vestings : V, now : Nat] /\ new \in A
    BY <1>1, <1>3 DEF A, V, T
  <1>5. /\ SetAccount(d, a, c) = [d EXCEPT !.accounts = new]
    BY DEF SetAccount, new
  <1>6. /\ [d EXCEPT !.accounts = new] \in [accounts : A, assets : T, vestings : V, now : Nat]
        /\ [d EXCEPT !.accounts = new].accounts = new
        /\ [d EXCEPT !.accounts = new].assets = d.assets
        /\ [d EXCEPT !.accounts = new].vestings = d.vestings
        /\ [d EXCEPT !.accounts = new].now = d.now
    BY <1>4
  <1> QED
    BY <1>3, <1>5, <1>6 DEF Databases, A, V, T, new

\* A record with one part replaced.
LEMMA ReplaceParts ==
    ASSUME NEW d \in Databases
    PROVE  /\ \A s \in AssetTables :
                /\ [d EXCEPT !.assets = s] \in Databases
                /\ [d EXCEPT !.assets = s].assets = s
                /\ [d EXCEPT !.assets = s].accounts = d.accounts
                /\ [d EXCEPT !.assets = s].vestings = d.vestings
                /\ [d EXCEPT !.assets = s].now = d.now
           /\ \A vs \in Seq(VBal) :
                /\ [d EXCEPT !.vestings = vs] \in Databases
                /\ [d EXCEPT !.vestings = vs].vestings = vs
                /\ [d EXCEPT !.vestings = vs].accounts = d.accounts
                /\ [d EXCEPT !.vestings = vs].assets = d.assets
                /\ [d EXCEPT !.vestings = vs].now = d.now
           /\ \A t \in Nat :
                /\ [d EXCEPT !.now = t] \in Databases
                /\ [d EXCEPT !.now = t].now = t
                /\ [d EXCEPT !.now = t].accounts = d.accounts
                /\ [d EXCEPT !.now = t].assets = d.assets
                /\ [d EXCEPT !.now = t].vestings = d.vestings
  <1> DEFINE A == [Accounts -> Account]
             V == Seq(VBal)
             T == AssetTables
  <1>1. d \in [accounts : A, assets : T, vestings : V, now : Nat]
    BY DEF Databases
  <1> HIDE DEF A, V, T
  <1> USE <1>1
  <1>2. \A s \in T :
          /\ [d EXCEPT !.assets = s] \in [accounts : A, assets : T, vestings : V, now : Nat]
          /\ [d EXCEPT !.assets = s].assets = s
          /\ [d EXCEPT !.assets = s].accounts = d.accounts
          /\ [d EXCEPT !.assets = s].vestings = d.vestings
          /\ [d EXCEPT !.assets = s].now = d.now
    OBVIOUS
  <1>3. \A vs \in V :
          /\ [d EXCEPT !.vestings = vs] \in [accounts : A, assets : T, vestings : V, now : Nat]
          /\ [d EXCEPT !.vestings = vs].vestings = vs
          /\ [d EXCEPT !.vestings = vs].accounts = d.accounts
          /\ [d EXCEPT !.vestings = vs].assets = d.assets
          /\ [d EXCEPT !.vestings = vs].now = d.now
    OBVIOUS
  <1>4. \A t \in Nat :
          /\ [d EXCEPT !.now = t] \in [accounts : A, assets : T, vestings : V, now : Nat]
          /\ [d EXCEPT !.now = t].now = t
          /\ [d EXCEPT !.now = t].accounts = d.accounts
          /\ [d EXCEPT !.now = t].assets = d.assets
          /\ [d EXCEPT !.now = t].vestings = d.vestings
    OBVIOUS
  <1> QED
    BY <1>2, <1>3, <1>4, Zenon DEF Databases, A, V, T

LEMMA SetAssetParts ==
    ASSUME NEW d \in Databases, NEW x \in DOMAIN d.assets, NEW r \in AssetData
    PROVE  LET e == SetAsset(d, x, r)
           IN  /\ e \in Databases /\ e.accounts = d.accounts /\ e.vestings = d.vestings
               /\ e.now = d.now /\ DOMAIN e.assets = DOMAIN d.assets
               /\ e.assets[x] = r /\ \A y \in DOMAIN d.assets \ {x} : e.assets[y] = d.assets[y]
  <1> DEFINE new == [d.assets EXCEPT ![x] = r]
  <1>1. d.assets \in AssetTables
    BY DEF Databases
  <1>2. PICK X \in SUBSET Assets : d.assets \in [X -> AssetData]
    BY <1>1 DEF AssetTables
  <1>3. /\ new \in [X -> AssetData] /\ new[x] = r /\ DOMAIN new = DOMAIN d.assets
        /\ \A y \in DOMAIN d.assets \ {x} : new[y] = d.assets[y]
    BY <1>2
  <1>4. new \in AssetTables
    BY <1>3 DEF AssetTables
  <1> HIDE DEF new
  <1>5. /\ [d EXCEPT !.assets = new] \in Databases
        /\ [d EXCEPT !.assets = new].assets = new
        /\ [d EXCEPT !.assets = new].accounts = d.accounts
        /\ [d EXCEPT !.assets = new].vestings = d.vestings
        /\ [d EXCEPT !.assets = new].now = d.now
    BY <1>4, ReplaceParts, Zenon
  <1>6. SetAsset(d, x, r) = [d EXCEPT !.assets = new]
    BY DEF SetAsset, new
  <1> QED
    BY <1>3, <1>5, <1>6

LEMMA SetVestingParts ==
    ASSUME NEW d \in Databases, NEW i \in DOMAIN d.vestings, NEW b \in VBal
    PROVE  LET e == SetVesting(d, i, b)
           IN  /\ e \in Databases /\ e.accounts = d.accounts /\ e.assets = d.assets
               /\ e.now = d.now /\ DOMAIN e.vestings = DOMAIN d.vestings
               /\ Len(e.vestings) = Len(d.vestings)
               /\ e.vestings[i] = b
               /\ \A j \in DOMAIN d.vestings \ {i} : e.vestings[j] = d.vestings[j]
  <1> DEFINE new == [d.vestings EXCEPT ![i] = b]
             L == Len(d.vestings)
  <1>1. d.vestings \in Seq(VBal)
    BY DEF Databases
  <1>2. L \in Nat /\ DOMAIN d.vestings = 1 .. L /\ d.vestings \in [1 .. L -> VBal]
    BY <1>1
  <1>3. new \in [1 .. L -> VBal] /\ new[i] = b /\ DOMAIN new = DOMAIN d.vestings
        /\ \A j \in DOMAIN d.vestings \ {i} : new[j] = d.vestings[j]
    BY <1>2
  <1> HIDE DEF new
  <1>4. new \in Seq(VBal)
    BY <1>2, <1>3, SeqDef
  <1>5. Len(new) = L
    <2>1. DOMAIN new = 1 .. Len(new) /\ Len(new) \in Nat
      BY <1>4
    <2> HIDE DEF L
    <2> QED
      BY <1>2, <1>3, <2>1, LenProperties
  <1>6. /\ [d EXCEPT !.vestings = new] \in Databases
        /\ [d EXCEPT !.vestings = new].vestings = new
        /\ [d EXCEPT !.vestings = new].accounts = d.accounts
        /\ [d EXCEPT !.vestings = new].assets = d.assets
        /\ [d EXCEPT !.vestings = new].now = d.now
    BY <1>4, ReplaceParts, Zenon
  <1>7. SetVesting(d, i, b) = [d EXCEPT !.vestings = new]
    BY DEF SetVesting, new
  <1> QED
    BY <1>3, <1>5, <1>6, <1>7

\* A vesting balance is added.
LEMMA AddVestingParts ==
    ASSUME NEW d \in Databases, NEW b \in VBal
    PROVE  LET e == AddVesting(d, b)
               L == Len(d.vestings)
           IN  /\ e \in Databases /\ e.accounts = d.accounts /\ e.assets = d.assets
               /\ e.now = d.now /\ L \in Nat /\ L + 1 \notin DOMAIN d.vestings
               /\ DOMAIN e.vestings = DOMAIN d.vestings \cup {L + 1}
               /\ e.vestings[L + 1] = b
               /\ \A j \in DOMAIN d.vestings : e.vestings[j] = d.vestings[j]
  <1> DEFINE new == Append(d.vestings, b)
             L == Len(d.vestings)
  <1>1. d.vestings \in Seq(VBal)
    BY DEF Databases
  <1>2. /\ new \in Seq(VBal) /\ L \in Nat /\ Len(new) = L + 1 /\ new[L + 1] = b
        /\ DOMAIN d.vestings = 1 .. L /\ DOMAIN new = 1 .. L + 1
        /\ \A j \in 1 .. L : new[j] = d.vestings[j]
    BY <1>1, AppendProperties, LenProperties
  <1> HIDE DEF new, L
  <1>3. L + 1 \notin 1 .. L /\ 1 .. L + 1 = (1 .. L) \cup {L + 1}
    BY <1>2
  <1>4. /\ [d EXCEPT !.vestings = new] \in Databases
        /\ [d EXCEPT !.vestings = new].vestings = new
        /\ [d EXCEPT !.vestings = new].accounts = d.accounts
        /\ [d EXCEPT !.vestings = new].assets = d.assets
        /\ [d EXCEPT !.vestings = new].now = d.now
    BY <1>2, ReplaceParts, Zenon
  <1>5. AddVesting(d, b) = [d EXCEPT !.vestings = new]
    BY DEF AddVesting, new
  <1> QED
    BY <1>2, <1>3, <1>4, <1>5 DEF L

-----------------------------------------------------------------------------
(* How a change of one part changes the gap *)

\* An account with other balances and statistics.
LEMMA SetAccountGap ==
    ASSUME NEW d, Good(d), NEW a \in Accounts, NEW c,
           AccountOK(c, DOMAIN d.assets, d.vestings)
    PROVE  LET e == SetAccount(d, a, c)
               o == d.accounts[a]
           IN  /\ Good(e) /\ e.assets = d.assets /\ e.vestings = d.vestings /\ e.now = d.now
               /\ e.accounts[a] = c /\ \A b \in Accounts \ {a} : e.accounts[b] = d.accounts[b]
               /\ \A x \in DOMAIN d.assets :
                    Gap(e, x) = Gap(d, x) - (c.balance[x] - o.balance[x])
                                - IF x # Core THEN 0
                                  ELSE (c.pending + c.vested) - (o.pending + o.vested)
  <1> DEFINE e == SetAccount(d, a, c)
             o == d.accounts[a]
  <1>1. d \in Databases /\ c \in Account
    BY DEF Good, AccountOK
  <1>2. /\ e \in Databases
        /\ e.assets = d.assets /\ e.vestings = d.vestings /\ e.now = d.now
        /\ e.accounts[a] = c /\ \A b \in Accounts \ {a} : e.accounts[b] = d.accounts[b]
    BY <1>1, SetAccountParts
  <1> HIDE DEF e
  <1>3. \A b \in Accounts : AccountOK(e.accounts[b], DOMAIN d.assets, d.vestings)
    <2>1. \A b \in Accounts : AccountOK(d.accounts[b], DOMAIN d.assets, d.vestings)
      BY DEF Good
    <2> QED
      BY <1>2, <2>1, Zenon
  <1>4. Good(e)
    BY <1>2, <1>3 DEF Good
  <1>5. /\ IsFiniteSet(Accounts) /\ DOMAIN d.assets \subseteq Assets
        /\ \A b \in Accounts : d.accounts[b] \in Account
    BY DatabaseParts
  <1>6. /\ o \in Account
        /\ \A x \in DOMAIN d.assets : o.balance[x] \in Nat /\ c.balance[x] \in Nat
        /\ o.pending + o.vested \in Nat /\ c.pending + c.vested \in Nat
    <2>1. o \in Account
      BY <1>5
    <2> HIDE DEF o
    <2> QED
      BY <1>1, <1>5, <2>1, AccountParts
  <1>7. ASSUME NEW x \in DOMAIN d.assets
        PROVE  InBalances(e, x) = InBalances(d, x) - o.balance[x] + c.balance[x]
    <2> DEFINE f == [b \in Accounts |-> d.accounts[b].balance[x]]
               g == [b \in Accounts |-> e.accounts[b].balance[x]]
    <2>1. \A b \in Accounts : f[b] \in Nat
      BY <1>5, <1>7, AccountParts
    <2>2. g[a] \in Nat /\ g[a] = c.balance[x] /\ f[a] = o.balance[x]
          /\ \A b \in Accounts \ {a} : g[b] = f[b]
      BY <1>2, <1>6
    <2> HIDE DEF f, g, o
    <2>3. Sum(g, Accounts) = Sum(f, Accounts) - f[a] + g[a]
      <3>1. IsFiniteSet(Accounts) /\ g[a] \in Nat /\ \A b \in Accounts \ {a} : g[b] = f[b]
        BY <1>5, <2>2
      <3> QED
        BY <2>1, <3>1, SumChange
    <2> QED
      BY <2>2, <2>3 DEF InBalances, f, g
  <1>8. InPending(e) = InPending(d) - (o.pending + o.vested) + (c.pending + c.vested)
    <2> DEFINE f == [b \in Accounts |-> d.accounts[b].pending + d.accounts[b].vested]
               g == [b \in Accounts |-> e.accounts[b].pending + e.accounts[b].vested]
    <2>1. \A b \in Accounts : f[b] \in Nat
      BY <1>5, AccountParts
    <2>2. g[a] \in Nat /\ g[a] = c.pending + c.vested /\ f[a] = o.pending + o.vested
          /\ \A b \in Accounts \ {a} : g[b] = f[b]
      BY <1>2, <1>6
    <2> HIDE DEF f, g, o
    <2>3. Sum(g, Accounts) = Sum(f, Accounts) - f[a] + g[a]
      <3>1. IsFiniteSet(Accounts) /\ g[a] \in Nat /\ \A b \in Accounts \ {a} : g[b] = f[b]
        BY <1>5, <2>2
      <3> QED
        BY <2>1, <3>1, SumChange
    <2> QED
      BY <2>2, <2>3 DEF InPending, f, g
  <1>9. InPools(e) = InPools(d) /\ \A x : InVestings(e, x) = InVestings(d, x)
    BY <1>2 DEF InPools, InVestings
  <1>10. ASSUME NEW x \in DOMAIN d.assets
         PROVE  Gap(e, x) = Gap(d, x) - (c.balance[x] - o.balance[x])
                                - IF x # Core THEN 0
                                  ELSE (c.pending + c.vested) - (o.pending + o.vested)
    <2> DEFINE P == c.pending + c.vested
               Q == o.pending + o.vested
    <2>1. /\ InBalances(d, x) \in Int /\ InVestings(d, x) \in Int /\ InPending(d) \in Int
          /\ InPools(d) \in Int /\ d.assets[x].supply \in Int /\ d.assets[x].fees \in Int
      BY HeldParts, AssetParts
    <2>2. P \in Int /\ Q \in Int /\ c.balance[x] \in Int /\ o.balance[x] \in Int
      BY <1>6
    <2>3. InPending(e) = InPending(d) - Q + P
      BY <1>8
    <2> HIDE DEF P, Q, o
    <2>4. Gap(e, x) = Gap(d, x) - (c.balance[x] - o.balance[x])
                                - IF x # Core THEN 0 ELSE P - Q
      BY <1>2, <1>7, <1>9, <2>1, <2>2, <2>3, GapIs
    <2> QED
      BY <2>4 DEF P, Q
  <1> QED
    BY <1>2, <1>4, <1>10 DEF e

\* An asset with other dynamic data.
LEMMA SetAssetGap ==
    ASSUME NEW d, Good(d), NEW x \in DOMAIN d.assets, NEW r, AssetOK(x, r)
    PROVE  LET e == SetAsset(d, x, r)
               o == d.assets[x]
           IN  /\ Good(e) /\ e.accounts = d.accounts /\ e.vestings = d.vestings /\ e.now = d.now
               /\ DOMAIN e.assets = DOMAIN d.assets /\ e.assets[x] = r
               /\ \A y \in DOMAIN d.assets \ {x} : e.assets[y] = d.assets[y]
               /\ \A y \in DOMAIN d.assets :
                    Gap(e, y) = Gap(d, y)
                                + (IF y # x THEN 0
                                   ELSE (r.supply - o.supply) - (r.fees - o.fees))
                                - (IF y # Core THEN 0 ELSE r.pool - o.pool)
  <1> DEFINE e == SetAsset(d, x, r)
             o == d.assets[x]
             D == DOMAIN d.assets
  <1>1. d \in Databases /\ r \in AssetData /\ r.supply \in Int /\ r.fees \in Nat /\ r.pool \in Nat
    BY DEF Good, AssetOK, AssetData
  <1>2. /\ e \in Databases
        /\ e.accounts = d.accounts /\ e.vestings = d.vestings /\ e.now = d.now
        /\ DOMAIN e.assets = D /\ e.assets[x] = r
        /\ \A y \in D \ {x} : e.assets[y] = d.assets[y]
    BY <1>1, SetAssetParts
  <1> HIDE DEF e
  <1>3. \A y \in D : AssetOK(y, e.assets[y])
    <2>1. \A y \in D : AssetOK(y, d.assets[y])
      BY DEF Good
    <2> QED
      BY <1>2, <2>1, Zenon
  <1>4. Good(e)
    BY <1>2, <1>3 DEF Good
  <1>5. /\ IsFiniteSet(D) /\ o.supply \in Int /\ o.fees \in Nat /\ o.pool \in Nat
    BY DatabaseParts, AssetParts
  <1>6. InPools(e) = InPools(d) - o.pool + r.pool
    <2> DEFINE f == [y \in D |-> d.assets[y].pool]
               g == [y \in D |-> e.assets[y].pool]
    <2>1. \A y \in D : f[y] \in Nat
      BY AssetParts
    <2>2. g[x] \in Nat /\ g[x] = r.pool /\ f[x] = o.pool /\ \A y \in D \ {x} : g[y] = f[y]
      BY <1>1, <1>2
    <2> HIDE DEF f, g
    <2>3. Sum(g, D) = Sum(f, D) - f[x] + g[x]
      BY <1>5, <2>1, <2>2, SumChange
    <2> QED
      BY <1>2, <2>2, <2>3 DEF InPools, f, g
  <1>7. /\ \A y : InBalances(e, y) = InBalances(d, y) /\ InVestings(e, y) = InVestings(d, y)
        /\ InPending(e) = InPending(d)
    BY <1>2 DEF InBalances, InVestings, InPending
  <1>8. ASSUME NEW y \in D
        PROVE  Gap(e, y) = Gap(d, y)
                                + (IF y # x THEN 0
                                   ELSE (r.supply - o.supply) - (r.fees - o.fees))
                                - (IF y # Core THEN 0 ELSE r.pool - o.pool)
    <2>1. /\ InBalances(d, y) \in Int /\ InVestings(d, y) \in Int /\ InPending(d) \in Int
          /\ InPools(d) \in Int /\ d.assets[y].supply \in Int /\ d.assets[y].fees \in Int
      BY HeldParts, AssetParts
    <2>2. y # x => e.assets[y] = d.assets[y]
      BY <1>2
    <2>3. y = x => e.assets[y] = r /\ d.assets[y] = o
      BY <1>2
    <2> HIDE DEF o, D
    <2>4. /\ InBalances(e, y) = InBalances(d, y) /\ InVestings(e, y) = InVestings(d, y)
          /\ InPending(e) = InPending(d)
      BY <1>7
    <2>5. CASE y = x
      BY <1>1, <1>5, <1>6, <2>1, <2>3, <2>4, <2>5, GapIs
    <2>6. CASE y # x
      BY <1>1, <1>5, <1>6, <2>1, <2>2, <2>4, <2>6, GapIs
    <2> QED
      BY <2>5, <2>6
  <1> QED
    BY <1>2, <1>4, <1>8 DEF e

\* A vesting balance with another amount.
LEMMA SetVestingGap ==
    ASSUME NEW d, Good(d), NEW i \in DOMAIN d.vestings, NEW b,
           b \in VBal, Vests(b, d.now), b.asset = d.vestings[i].asset,
           b.policy.kind = d.vestings[i].policy.kind
    PROVE  LET e == SetVesting(d, i, b)
               o == d.vestings[i]
           IN  /\ Good(e) /\ e.accounts = d.accounts /\ e.assets = d.assets /\ e.now = d.now
               /\ \A x \in DOMAIN d.assets :
                    Gap(e, x) = Gap(d, x) - IF x # o.asset THEN 0 ELSE b.amount - o.amount
  <1> DEFINE e == SetVesting(d, i, b)
             o == d.vestings[i]
             D == DOMAIN d.vestings
  <1>1. d \in Databases /\ b.amount \in Nat
    BY VBalKinds DEF Good
  <1>2. /\ e \in Databases
        /\ e.accounts = d.accounts /\ e.assets = d.assets /\ e.now = d.now
        /\ DOMAIN e.vestings = D /\ e.vestings[i] = b
        /\ \A j \in D \ {i} : e.vestings[j] = d.vestings[j]
    BY <1>1, SetVestingParts
  <1> HIDE DEF e
  <1>3. \A j \in D : /\ VestingOK(e.vestings[j], DOMAIN d.assets, d.now)
                     /\ e.vestings[j].asset = d.vestings[j].asset
                     /\ e.vestings[j].policy.kind = d.vestings[j].policy.kind
    <2>1. \A j \in D : VestingOK(d.vestings[j], DOMAIN d.assets, d.now)
      BY DEF Good
    <2>2. VestingOK(b, DOMAIN d.assets, d.now)
      BY <2>1 DEF VestingOK
    <2> QED
      BY <1>2, <2>1, <2>2, Zenon
  <1>4. Good(e)
    <2>1. \A id : IsCoreId(id, d.vestings) => IsCoreId(id, e.vestings)
      BY <1>2, <1>3 DEF IsCoreId
    <2>2. \A a \in Accounts : AccountOK(e.accounts[a], DOMAIN e.assets, e.vestings)
      <3>1. \A a \in Accounts : AccountOK(d.accounts[a], DOMAIN d.assets, d.vestings)
        BY DEF Good
      <3> QED
        BY <1>2, <2>1, <3>1, Zenon DEF AccountOK
    <2>3. 1 \in D /\ WorkerOK(e.vestings[1])
      BY <1>3 DEF Good, WorkerOK
    <2> QED
      BY <1>2, <1>3, <2>2, <2>3 DEF Good
  <1>5. o.amount \in Nat /\ IsFiniteSet(D)
    BY VestingParts, DatabaseParts
  <1>6. ASSUME NEW x \in DOMAIN d.assets
        PROVE  InVestings(e, x) = InVestings(d, x) + IF x # o.asset THEN 0 ELSE b.amount - o.amount
    <2> DEFINE f == [j \in D |-> IF d.vestings[j].asset = x THEN d.vestings[j].amount ELSE 0]
               g == [j \in D |-> IF e.vestings[j].asset = x THEN e.vestings[j].amount ELSE 0]
    <2>1. \A j \in D : f[j] \in Nat
      BY VestingParts
    <2>2. /\ g[i] = IF o.asset = x THEN b.amount ELSE 0
          /\ f[i] = IF o.asset = x THEN o.amount ELSE 0
          /\ \A j \in D \ {i} : g[j] = f[j]
      BY <1>2
    <2>3. g[i] \in Nat /\ f[i] \in Nat
      BY <1>1, <2>1, <2>2
    <2> HIDE DEF f, g
    <2>4. Sum(g, D) = Sum(f, D) - f[i] + g[i]
      <3>1. i \in D /\ \A j \in D \ {i} : g[j] = f[j]
        BY <2>2
      <3> HIDE DEF D, o
      <3> QED
        BY <1>5, <2>1, <2>3, <3>1, SumChange
    <2>5. InVestings(e, x) = Sum(g, D) /\ InVestings(d, x) = Sum(f, D)
      BY <1>2 DEF InVestings, f, g
    <2>6. Sum(f, D) \in Nat
      BY <1>5, <2>1, SumType
    <2> HIDE DEF o
    <2> QED
      BY <1>1, <1>5, <2>2, <2>3, <2>4, <2>5, <2>6
  <1>7. /\ \A y : InBalances(e, y) = InBalances(d, y)
        /\ InPending(e) = InPending(d) /\ InPools(e) = InPools(d)
    BY <1>2 DEF InBalances, InPools, InPending
  <1>8. ASSUME NEW x \in DOMAIN d.assets
        PROVE  Gap(e, x) = Gap(d, x) - IF x # o.asset THEN 0 ELSE b.amount - o.amount
    <2>1. /\ InBalances(d, x) \in Int /\ InVestings(d, x) \in Int /\ InPending(d) \in Int
          /\ InPools(d) \in Int /\ d.assets[x].supply \in Int /\ d.assets[x].fees \in Int
      BY HeldParts, AssetParts
    <2> HIDE DEF o, D
    <2> QED
      BY <1>1, <1>2, <1>5, <1>6, <1>7, <2>1, GapIs
  <1> QED
    BY <1>2, <1>4, <1>8 DEF e

\* A new vesting balance.
LEMMA AddVestingGap ==
    ASSUME NEW d, Good(d), NEW b \in VBal, Vests(b, d.now), b.asset \in DOMAIN d.assets
    PROVE  LET e == AddVesting(d, b)
               L == Len(d.vestings)
           IN  /\ Good(e) /\ e.accounts = d.accounts /\ e.assets = d.assets /\ e.now = d.now
               /\ L \in Nat /\ L + 1 \in DOMAIN e.vestings /\ e.vestings[L + 1] = b
               /\ \A x \in DOMAIN d.assets :
                    Gap(e, x) = Gap(d, x) - IF x # b.asset THEN 0 ELSE b.amount
  <1> DEFINE e == AddVesting(d, b)
             L == Len(d.vestings)
             D == DOMAIN d.vestings
  <1>1. d \in Databases /\ b.amount \in Nat
    BY VBalKinds DEF Good
  <1>2. /\ e \in Databases
        /\ e.accounts = d.accounts /\ e.assets = d.assets /\ e.now = d.now
        /\ L \in Nat /\ L + 1 \notin D
        /\ DOMAIN e.vestings = D \cup {L + 1} /\ e.vestings[L + 1] = b
        /\ \A j \in D : e.vestings[j] = d.vestings[j]
    BY <1>1, AddVestingParts
  <1> HIDE DEF e, L
  <1>3. \A j \in D \cup {L + 1} : VestingOK(e.vestings[j], DOMAIN d.assets, d.now)
    <2>1. \A j \in D : VestingOK(d.vestings[j], DOMAIN d.assets, d.now)
      BY DEF Good
    <2>2. VestingOK(b, DOMAIN d.assets, d.now)
      BY DEF VestingOK
    <2> QED
      BY <1>2, <2>1, <2>2, Zenon
  <1>4. Good(e)
    <2>1. \A id : IsCoreId(id, d.vestings) => IsCoreId(id, e.vestings)
      BY <1>2 DEF IsCoreId
    <2>2. \A a \in Accounts : AccountOK(e.accounts[a], DOMAIN e.assets, e.vestings)
      <3>1. \A a \in Accounts : AccountOK(d.accounts[a], DOMAIN d.assets, d.vestings)
        BY DEF Good
      <3> QED
        BY <1>2, <2>1, <3>1, Zenon DEF AccountOK
    <2>3. 1 \in D /\ WorkerOK(e.vestings[1])
      BY <1>2 DEF Good, WorkerOK
    <2> QED
      BY <1>2, <1>3, <2>2, <2>3 DEF Good
  <1>5. IsFiniteSet(D)
    BY DatabaseParts
  <1>6. ASSUME NEW x \in DOMAIN d.assets
        PROVE  InVestings(e, x) = InVestings(d, x) + IF x # b.asset THEN 0 ELSE b.amount
    <2> DEFINE f == [j \in D |-> IF d.vestings[j].asset = x THEN d.vestings[j].amount ELSE 0]
               g == [j \in D \cup {L + 1} |->
                       IF e.vestings[j].asset = x THEN e.vestings[j].amount ELSE 0]
    <2>1. \A j \in D : f[j] \in Nat
      BY VestingParts
    <2>2. g[L + 1] = (IF b.asset = x THEN b.amount ELSE 0) /\ \A j \in D : g[j] = f[j]
      BY <1>2
    <2>3. g[L + 1] \in Nat
      BY <1>1, <2>2
    <2> HIDE DEF f, g
    <2>4. Sum(g, D \cup {L + 1}) = Sum(g, D) + g[L + 1]
      <3> DEFINE k == L + 1
      <3>1. k \notin D /\ \A j \in D \cup {k} : g[j] \in Nat
        BY <1>2, <2>1, <2>2, <2>3
      <3> HIDE DEF D, k
      <3>2. Sum(g, D \cup {k}) = Sum(g, D) + g[k]
        BY <1>5, <3>1, SumAdd
      <3> QED
        BY <3>2 DEF k
    <2>5. Sum(g, D) = Sum(f, D)
      BY <2>2, SumEqual
    <2>6. InVestings(e, x) = Sum(g, D \cup {L + 1}) /\ InVestings(d, x) = Sum(f, D)
      BY <1>2 DEF InVestings, f, g
    <2> QED
      BY <2>2, <2>4, <2>5, <2>6
  <1>7. /\ \A y : InBalances(e, y) = InBalances(d, y)
        /\ InPending(e) = InPending(d) /\ InPools(e) = InPools(d)
    BY <1>2 DEF InBalances, InPools, InPending
  <1>8. ASSUME NEW x \in DOMAIN d.assets
        PROVE  Gap(e, x) = Gap(d, x) - IF x # b.asset THEN 0 ELSE b.amount
    <2>1. /\ InBalances(d, x) \in Int /\ InVestings(d, x) \in Int /\ InPending(d) \in Int
          /\ InPools(d) \in Int /\ d.assets[x].supply \in Int /\ d.assets[x].fees \in Int
      BY HeldParts, AssetParts
    <2> HIDE DEF D
    <2>2. /\ InBalances(e, x) = InBalances(d, x) /\ e.assets[x] = d.assets[x]
          /\ InVestings(e, x) = InVestings(d, x) + IF x # b.asset THEN 0 ELSE b.amount
      BY <1>2, <1>6, <1>7
    <2> QED
      BY <1>1, <1>7, <2>1, <2>2, GapIs
  <1> QED
    BY <1>2, <1>4, <1>8 DEF e, L

\* Parts of an account that change.
WithBalance(c, x, m) == [c EXCEPT !.balance = [c.balance EXCEPT ![x] = m]]

\* A balance of an account is set.
LEMMA SetBalance ==
    ASSUME NEW c, NEW X \in SUBSET Assets, NEW vs, AccountOK(c, X, vs), NEW x \in X, NEW m \in Nat
    PROVE  LET r == WithBalance(c, x, m)
           IN  /\ AccountOK(r, X, vs) /\ r.pending = c.pending /\ r.vested = c.vested
               /\ r.balance[x] = m /\ \A y \in Assets \ {x} : r.balance[y] = c.balance[y]
               /\ r.cashback = c.cashback /\ r.pay = c.pay /\ r.lifetime = c.lifetime
               /\ r.registrar = c.registrar /\ r.referrer = c.referrer
               /\ r.lifetime_referrer = c.lifetime_referrer
  <1> DEFINE bal == [c.balance EXCEPT ![x] = m]
             B == [Assets -> Nat]
             r == [c EXCEPT !.balance = bal]
  <1>1. c \in Account /\ c.balance \in B
    BY AccountParts DEF AccountOK
  <1>2. /\ bal \in B /\ bal[x] = m /\ \A y \in Assets \ {x} : bal[y] = c.balance[y]
    BY <1>1
  <1> HIDE DEF bal, B
  <1>3. r \in Account /\ r.balance = bal /\ r.pending = c.pending /\ r.vested = c.vested
        /\ r.cashback = c.cashback /\ r.pay = c.pay /\ r.lifetime = c.lifetime
        /\ r.registrar = c.registrar /\ r.referrer = c.referrer
        /\ r.lifetime_referrer = c.lifetime_referrer
    <2>1. c \in [balance : B, pending : Nat, vested : Nat, cashback : Nat, pay : Nat,
                 lifetime : BOOLEAN, registrar : Accounts, lifetime_referrer : Accounts,
                 referrer : Accounts]
      BY <1>1 DEF Account, B
    <2>2. /\ r \in [balance : B, pending : Nat, vested : Nat, cashback : Nat, pay : Nat,
                 lifetime : BOOLEAN, registrar : Accounts, lifetime_referrer : Accounts,
                 referrer : Accounts]
          /\ r.balance = bal /\ r.pending = c.pending /\ r.vested = c.vested
          /\ r.cashback = c.cashback /\ r.pay = c.pay /\ r.lifetime = c.lifetime
          /\ r.registrar = c.registrar /\ r.referrer = c.referrer
          /\ r.lifetime_referrer = c.lifetime_referrer
      BY <1>2, <2>1
    <2> QED
      BY <2>2 DEF Account, B
  <1> HIDE DEF r
  <1>4. \A y \in Assets \ X : r.balance[y] = 0
    BY <1>2, <1>3 DEF AccountOK
  <1>5. AccountOK(r, X, vs)
    BY <1>3, <1>4 DEF AccountOK
  <1> QED
    BY <1>2, <1>3, <1>5 DEF r, bal, WithBalance

\* Other parts of an account that change.
LEMMA SetStatistics ==
    ASSUME NEW c, NEW X, NEW vs, AccountOK(c, X, vs)
    PROVE  /\ \A m \in Nat : LET r == [c EXCEPT !.pending = m]
                             IN  /\ AccountOK(r, X, vs) /\ r.balance = c.balance
                                 /\ r.pending = m /\ r.vested = c.vested
           /\ \A m \in Nat : LET r == [c EXCEPT !.vested = m]
                             IN  /\ AccountOK(r, X, vs) /\ r.balance = c.balance
                                 /\ r.pending = c.pending /\ r.vested = m
           /\ \A id \in Nat : LET r == [c EXCEPT !.cashback = id]
                              IN  IsCoreId(id, vs) =>
                                  /\ AccountOK(r, X, vs) /\ r.balance = c.balance
                                  /\ r.pending = c.pending /\ r.vested = c.vested
           /\ \A id \in Nat : LET r == [c EXCEPT !.pay = id]
                              IN  IsCoreId(id, vs) =>
                                  /\ AccountOK(r, X, vs) /\ r.balance = c.balance
                                  /\ r.pending = c.pending /\ r.vested = c.vested
           /\ \A a \in Accounts : LET r == [c EXCEPT !.referrer = a]
                                  IN  /\ AccountOK(r, X, vs) /\ r.balance = c.balance
                                      /\ r.pending = c.pending /\ r.vested = c.vested
           /\ \A a \in Accounts : LET r == [c EXCEPT !.registrar = a]
                                  IN  /\ AccountOK(r, X, vs) /\ r.balance = c.balance
                                      /\ r.pending = c.pending /\ r.vested = c.vested
           /\ \A a \in Accounts : LET r == [c EXCEPT !.lifetime_referrer = a]
                                  IN  /\ AccountOK(r, X, vs) /\ r.balance = c.balance
                                      /\ r.pending = c.pending /\ r.vested = c.vested
           /\ \A l \in BOOLEAN : LET r == [c EXCEPT !.lifetime = l]
                                 IN  /\ AccountOK(r, X, vs) /\ r.balance = c.balance
                                     /\ r.pending = c.pending /\ r.vested = c.vested
  <1> DEFINE B == [Assets -> Nat]
  <1>1. c \in [balance : B, pending : Nat, vested : Nat, cashback : Nat, pay : Nat,
               lifetime : BOOLEAN, registrar : Accounts, lifetime_referrer : Accounts,
               referrer : Accounts]
    BY DEF AccountOK, Account
  <1>2. Account = [balance : B, pending : Nat, vested : Nat, cashback : Nat, pay : Nat,
                   lifetime : BOOLEAN, registrar : Accounts, lifetime_referrer : Accounts,
                   referrer : Accounts]
    BY DEF Account
  <1> HIDE DEF B
  <1>3. ASSUME NEW m \in Nat
        PROVE  LET r == [c EXCEPT !.pending = m]
               IN  /\ AccountOK(r, X, vs) /\ r.balance = c.balance
                   /\ r.pending = m /\ r.vested = c.vested
    BY <1>1, <1>2 DEF AccountOK
  <1>4. ASSUME NEW m \in Nat
        PROVE  LET r == [c EXCEPT !.vested = m]
               IN  /\ AccountOK(r, X, vs) /\ r.balance = c.balance
                   /\ r.pending = c.pending /\ r.vested = m
    BY <1>1, <1>2 DEF AccountOK
  <1>5. ASSUME NEW id \in Nat, IsCoreId(id, vs)
        PROVE  /\ LET r == [c EXCEPT !.cashback = id]
                  IN  /\ AccountOK(r, X, vs) /\ r.balance = c.balance
                      /\ r.pending = c.pending /\ r.vested = c.vested
               /\ LET r == [c EXCEPT !.pay = id]
                  IN  /\ AccountOK(r, X, vs) /\ r.balance = c.balance
                      /\ r.pending = c.pending /\ r.vested = c.vested
    BY <1>1, <1>2, <1>5 DEF AccountOK
  <1>6. ASSUME NEW a \in Accounts
        PROVE  LET r == [c EXCEPT !.referrer = a]
               IN  /\ AccountOK(r, X, vs) /\ r.balance = c.balance
                   /\ r.pending = c.pending /\ r.vested = c.vested
    BY <1>1, <1>2 DEF AccountOK
  <1>7. ASSUME NEW a \in Accounts
        PROVE  LET r == [c EXCEPT !.registrar = a]
               IN  /\ AccountOK(r, X, vs) /\ r.balance = c.balance
                   /\ r.pending = c.pending /\ r.vested = c.vested
    BY <1>1, <1>2 DEF AccountOK
  <1>8. ASSUME NEW a \in Accounts
        PROVE  LET r == [c EXCEPT !.lifetime_referrer = a]
               IN  /\ AccountOK(r, X, vs) /\ r.balance = c.balance
                   /\ r.pending = c.pending /\ r.vested = c.vested
    BY <1>1, <1>2 DEF AccountOK
  <1>9. ASSUME NEW l \in BOOLEAN
        PROVE  LET r == [c EXCEPT !.lifetime = l]
               IN  /\ AccountOK(r, X, vs) /\ r.balance = c.balance
                   /\ r.pending = c.pending /\ r.vested = c.vested
    BY <1>1, <1>2 DEF AccountOK
  <1> QED
    BY <1>3, <1>4, <1>5, <1>6, <1>7, <1>8, <1>9

-----------------------------------------------------------------------------
(* Balances, supplies, pools and fees *)

\* The fields of an account of a good database.
LEMMA AccountIs ==
    ASSUME NEW d, Good(d), NEW a \in Accounts
    PROVE  /\ AccountOK(d.accounts[a], DOMAIN d.assets, d.vestings)
           /\ d.accounts[a] \in Account
           /\ \A x \in DOMAIN d.assets : d.accounts[a].balance[x] \in Nat
           /\ d.accounts[a].pending \in Nat /\ d.accounts[a].vested \in Nat
           /\ d.accounts[a].registrar \in Accounts /\ d.accounts[a].referrer \in Accounts
           /\ d.accounts[a].lifetime_referrer \in Accounts
           /\ d.accounts[a].lifetime \in BOOLEAN
  <1> DEFINE c == d.accounts[a]
  <1>1. AccountOK(c, DOMAIN d.assets, d.vestings) /\ DOMAIN d.assets \subseteq Assets
    BY DatabaseParts DEF Good
  <1> HIDE DEF c
  <1>2. c \in Account
    BY <1>1 DEF AccountOK
  <1> QED
    BY <1>1, <1>2, AccountParts DEF c

\* adjust_balance.
LEMMA AdjustBalance ==
    ASSUME NEW d, Good(d), NEW a \in Accounts, NEW x \in DOMAIN d.assets, NEW n \in Int,
           d.accounts[a].balance[x] + n >= 0
    PROVE  LET e == adjust_balance(d, a, x, n)
           IN  /\ Good(e) /\ e.assets = d.assets /\ e.vestings = d.vestings /\ e.now = d.now
               /\ \A b \in Accounts : \A y \in DOMAIN d.assets :
                    e.accounts[b].balance[y] = d.accounts[b].balance[y]
                                               + IF b = a /\ y = x THEN n ELSE 0
               /\ \A y \in DOMAIN d.assets : Gap(e, y) = Gap(d, y) - IF y = x THEN n ELSE 0
  <1> DEFINE c == d.accounts[a]
             X == DOMAIN d.assets
             m == d.accounts[a].balance[x] + n
             r == WithBalance(c, x, m)
             e == SetAccount(d, a, r)
  <1>1. adjust_balance(d, a, x, n) = e
    BY DEF adjust_balance, SetAccount, WithBalance
  <1>2. /\ X \in SUBSET Assets /\ AccountOK(c, X, d.vestings) /\ c.balance[x] \in Nat
        /\ \A b \in Accounts : \A y \in X : d.accounts[b].balance[y] \in Nat
    BY DatabaseParts, AccountIs
  <1>3. m \in Nat /\ m = c.balance[x] + n
    BY <1>2
  <1> HIDE DEF c, m, X
  <1>4. /\ AccountOK(r, X, d.vestings) /\ r.pending = c.pending /\ r.vested = c.vested
        /\ r.balance[x] = m /\ \A y \in Assets \ {x} : r.balance[y] = c.balance[y]
    <2>1. x \in X
      BY DEF X
    <2>2. X \in SUBSET Assets /\ AccountOK(c, X, d.vestings) /\ m \in Nat
      BY <1>2, <1>3
    <2> HIDE DEF r
    <2>3. AccountOK(r, X, d.vestings)
      BY <2>1, <2>2, SetBalance, Zenon DEF r
    <2>5. r.balance[x] = m
      <3>1. c \in Account /\ x \in Assets
        BY <2>1, <2>2 DEF AccountOK
      <3> QED
        BY <2>2, <3>1 DEF r, WithBalance, Account
    <2>4. r.pending = c.pending /\ r.vested = c.vested
          /\ \A y \in Assets \ {x} : r.balance[y] = c.balance[y]
      BY <2>1, <2>2, SetBalance DEF r
    <2> QED
      BY <2>3, <2>4, <2>5
  <1> HIDE DEF r
  <1>5. /\ Good(e) /\ e.assets = d.assets /\ e.vestings = d.vestings /\ e.now = d.now
        /\ e.accounts[a] = r /\ \A b \in Accounts \ {a} : e.accounts[b] = d.accounts[b]
        /\ \A y \in X : Gap(e, y) = Gap(d, y) - (r.balance[y] - c.balance[y])
                                - IF y # Core THEN 0
                                  ELSE (r.pending + r.vested) - (c.pending + c.vested)
    BY <1>4, SetAccountGap DEF X, c
  <1> HIDE DEF e
  <1>6. ASSUME NEW y \in X
        PROVE  Gap(e, y) = Gap(d, y) - IF y = x THEN n ELSE 0
    <2>1. r.balance[y] - c.balance[y] = IF y = x THEN n ELSE 0
      <3>1. c.balance[y] \in Nat
        BY <1>2 DEF c
      <3> QED
        BY <1>2, <1>3, <1>4, <3>1
    <2>2. c.pending \in Nat /\ c.vested \in Nat
      BY AccountIs DEF c
    <2>3. Gap(d, y) \in Int
      BY HeldParts DEF X
    <2> QED
      BY <1>4, <1>5, <2>1, <2>2, <2>3
  <1>7. ASSUME NEW b \in Accounts, NEW y \in X
        PROVE  e.accounts[b].balance[y] = d.accounts[b].balance[y]
                                               + IF b = a /\ y = x THEN n ELSE 0
    <2>1. d.accounts[b].balance[y] \in Nat
      BY <1>2
    <2>2. CASE b # a
      BY <1>5, <2>1, <2>2
    <2>3. CASE b = a /\ y # x
      BY <1>2, <1>4, <1>5, <2>1, <2>3 DEF c
    <2>4. CASE b = a /\ y = x
      BY <1>3, <1>4, <1>5, <2>4 DEF c
    <2> QED
      BY <2>2, <2>3, <2>4
  <1> QED
    BY <1>1, <1>5, <1>6, <1>7 DEF X

\* Parts of the data of an asset that change.
LEMMA SetAssetData ==
    ASSUME NEW x, MaxSupply[x] \in Nat, NEW o, AssetOK(x, o)
    PROVE  /\ \A s \in Int : LET r == [o EXCEPT !.supply = s]
                             IN  s <= MaxSupply[x] =>
                                 /\ AssetOK(x, r) /\ r.supply = s /\ r.pool = o.pool
                                 /\ r.fees = o.fees
           /\ \A n \in Nat : LET r == [o EXCEPT !.pool = n]
                             IN  /\ AssetOK(x, r) /\ r.supply = o.supply /\ r.pool = n
                                 /\ r.fees = o.fees
           /\ \A n \in Nat : LET r == [o EXCEPT !.fees = n]
                             IN  /\ AssetOK(x, r) /\ r.supply = o.supply /\ r.pool = o.pool
                                 /\ r.fees = n
  BY DEF AssetOK, AssetData

\* The fields of the data of an asset of a good database.
LEMMA AssetIs ==
    ASSUME NEW d, Good(d), NEW x \in DOMAIN d.assets
    PROVE  /\ AssetOK(x, d.assets[x]) /\ MaxSupply[x] \in Nat /\ x \in Assets
           /\ d.assets[x].supply \in Int /\ d.assets[x].pool \in Nat /\ d.assets[x].fees \in Nat
           /\ d.assets[x].supply <= MaxSupply[x] /\ Gap(d, x) \in Int
  <1>1. DOMAIN d.assets \subseteq Assets
    BY DatabaseParts
  <1> QED
    BY <1>1, AssetParts, HeldParts, LedgerAssumption DEF Good

\* The supply, the pool or the fees of an asset change.
AddSupply(d, x, n) == [d EXCEPT !.assets[x].supply = @ + n]
AddPool(d, x, n) == [d EXCEPT !.assets[x].pool = @ + n]
AddFees(d, x, n) == [d EXCEPT !.assets[x].fees = @ + n]

LEMMA SetSupply ==
    ASSUME NEW d, Good(d), NEW x \in DOMAIN d.assets, NEW n \in Int,
           d.assets[x].supply + n <= MaxSupply[x]
    PROVE  LET e == AddSupply(d, x, n)
           IN  /\ Good(e) /\ e.accounts = d.accounts /\ e.vestings = d.vestings /\ e.now = d.now
               /\ DOMAIN e.assets = DOMAIN d.assets
               /\ \A y \in DOMAIN d.assets :
                    /\ Gap(e, y) = Gap(d, y) + IF y = x THEN n ELSE 0
                    /\ e.assets[y].supply = d.assets[y].supply + IF y = x THEN n ELSE 0
                    /\ e.assets[y].fees = d.assets[y].fees /\ e.assets[y].pool = d.assets[y].pool
  <1> DEFINE o == d.assets[x]
             s == d.assets[x].supply + n
             r == [o EXCEPT !.supply = s]
             e == SetAsset(d, x, r)
  <1>1. AddSupply(d, x, n) = e
    BY DEF SetAsset, AddSupply
  <1>2. /\ AssetOK(x, o) /\ MaxSupply[x] \in Nat /\ o.supply \in Int /\ o.pool \in Nat
        /\ o.fees \in Nat
        /\ \A y \in DOMAIN d.assets : Gap(d, y) \in Int /\ d.assets[y].supply \in Int
    BY AssetIs
  <1>3. s \in Int /\ s <= MaxSupply[x] /\ s = o.supply + n
    BY <1>2
  <1> HIDE DEF o, s
  <1>4. AssetOK(x, r) /\ r.supply = s /\ r.pool = o.pool /\ r.fees = o.fees
    BY <1>2, <1>3, SetAssetData
  <1> HIDE DEF r
  <1>5. /\ Good(e) /\ e.accounts = d.accounts /\ e.vestings = d.vestings /\ e.now = d.now
        /\ DOMAIN e.assets = DOMAIN d.assets /\ e.assets[x] = r
        /\ \A y \in DOMAIN d.assets \ {x} : e.assets[y] = d.assets[y]
        /\ \A y \in DOMAIN d.assets :
             Gap(e, y) = Gap(d, y)
                         + (IF y # x THEN 0 ELSE (r.supply - o.supply) - (r.fees - o.fees))
                         - (IF y # Core THEN 0 ELSE r.pool - o.pool)
    BY <1>4, SetAssetGap DEF o
  <1> HIDE DEF e
  <1>6. ASSUME NEW y \in DOMAIN d.assets
        PROVE  /\ Gap(e, y) = Gap(d, y) + IF y = x THEN n ELSE 0
               /\ e.assets[y].supply = d.assets[y].supply + IF y = x THEN n ELSE 0
               /\ e.assets[y].fees = d.assets[y].fees /\ e.assets[y].pool = d.assets[y].pool
    <2>1. Gap(e, y) = Gap(d, y) + IF y = x THEN n ELSE 0
      BY <1>2, <1>3, <1>4, <1>5
    <2>2. CASE y = x
      BY <1>3, <1>4, <1>5, <2>1, <2>2 DEF o
    <2>3. CASE y # x
      BY <1>2, <1>5, <2>1, <2>3
    <2> QED
      BY <2>2, <2>3
  <1> QED
    BY <1>1, <1>5, <1>6

LEMMA SetPool ==
    ASSUME NEW d, Good(d), NEW x \in DOMAIN d.assets, NEW n \in Int,
           d.assets[x].pool + n >= 0
    PROVE  LET e == AddPool(d, x, n)
           IN  /\ Good(e) /\ e.accounts = d.accounts /\ e.vestings = d.vestings /\ e.now = d.now
               /\ DOMAIN e.assets = DOMAIN d.assets
               /\ \A y \in DOMAIN d.assets :
                    /\ Gap(e, y) = Gap(d, y) - IF y = Core THEN n ELSE 0
                    /\ e.assets[y].supply = d.assets[y].supply
                    /\ e.assets[y].fees = d.assets[y].fees
  <1> DEFINE o == d.assets[x]
             s == d.assets[x].pool + n
             r == [o EXCEPT !.pool = s]
             e == SetAsset(d, x, r)
  <1>1. AddPool(d, x, n) = e
    BY DEF SetAsset, AddPool
  <1>2. /\ AssetOK(x, o) /\ MaxSupply[x] \in Nat /\ o.supply \in Int /\ o.pool \in Nat
        /\ o.fees \in Nat /\ \A y \in DOMAIN d.assets : Gap(d, y) \in Int
    BY AssetIs
  <1>3. s \in Nat /\ s = o.pool + n
    BY <1>2
  <1> HIDE DEF o, s
  <1>4. AssetOK(x, r) /\ r.supply = o.supply /\ r.pool = s /\ r.fees = o.fees
    BY <1>2, <1>3, SetAssetData
  <1> HIDE DEF r
  <1>5. /\ Good(e) /\ e.accounts = d.accounts /\ e.vestings = d.vestings /\ e.now = d.now
        /\ DOMAIN e.assets = DOMAIN d.assets /\ e.assets[x] = r
        /\ \A y \in DOMAIN d.assets \ {x} : e.assets[y] = d.assets[y]
        /\ \A y \in DOMAIN d.assets :
             Gap(e, y) = Gap(d, y)
                         + (IF y # x THEN 0 ELSE (r.supply - o.supply) - (r.fees - o.fees))
                         - (IF y # Core THEN 0 ELSE r.pool - o.pool)
    BY <1>4, SetAssetGap DEF o
  <1> HIDE DEF e
  <1>6. ASSUME NEW y \in DOMAIN d.assets
        PROVE  /\ Gap(e, y) = Gap(d, y) - IF y = Core THEN n ELSE 0
               /\ e.assets[y].supply = d.assets[y].supply
               /\ e.assets[y].fees = d.assets[y].fees
    <2>1. Gap(e, y) = Gap(d, y) - IF y = Core THEN n ELSE 0
      BY <1>2, <1>3, <1>4, <1>5
    <2> QED
      BY <1>4, <1>5, <2>1 DEF o
  <1> QED
    BY <1>1, <1>5, <1>6

LEMMA SetFees ==
    ASSUME NEW d, Good(d), NEW x \in DOMAIN d.assets, NEW n \in Int,
           d.assets[x].fees + n >= 0
    PROVE  LET e == AddFees(d, x, n)
           IN  /\ Good(e) /\ e.accounts = d.accounts /\ e.vestings = d.vestings /\ e.now = d.now
               /\ DOMAIN e.assets = DOMAIN d.assets
               /\ \A y \in DOMAIN d.assets :
                    /\ Gap(e, y) = Gap(d, y) - IF y = x THEN n ELSE 0
                    /\ e.assets[y].supply = d.assets[y].supply
                    /\ e.assets[y].fees = d.assets[y].fees + IF y = x THEN n ELSE 0
                    /\ e.assets[y].pool = d.assets[y].pool
  <1> DEFINE o == d.assets[x]
             s == d.assets[x].fees + n
             r == [o EXCEPT !.fees = s]
             e == SetAsset(d, x, r)
  <1>1. AddFees(d, x, n) = e
    BY DEF SetAsset, AddFees
  <1>2. /\ AssetOK(x, o) /\ MaxSupply[x] \in Nat /\ o.supply \in Int /\ o.pool \in Nat
        /\ o.fees \in Nat
        /\ \A y \in DOMAIN d.assets : Gap(d, y) \in Int /\ d.assets[y].fees \in Int
    BY AssetIs
  <1>3. s \in Nat /\ s = o.fees + n
    BY <1>2
  <1> HIDE DEF o, s
  <1>4. AssetOK(x, r) /\ r.supply = o.supply /\ r.pool = o.pool /\ r.fees = s
    BY <1>2, <1>3, SetAssetData
  <1> HIDE DEF r
  <1>5. /\ Good(e) /\ e.accounts = d.accounts /\ e.vestings = d.vestings /\ e.now = d.now
        /\ DOMAIN e.assets = DOMAIN d.assets /\ e.assets[x] = r
        /\ \A y \in DOMAIN d.assets \ {x} : e.assets[y] = d.assets[y]
        /\ \A y \in DOMAIN d.assets :
             Gap(e, y) = Gap(d, y)
                         + (IF y # x THEN 0 ELSE (r.supply - o.supply) - (r.fees - o.fees))
                         - (IF y # Core THEN 0 ELSE r.pool - o.pool)
    BY <1>4, SetAssetGap DEF o
  <1> HIDE DEF e
  <1>6. ASSUME NEW y \in DOMAIN d.assets
        PROVE  /\ Gap(e, y) = Gap(d, y) - IF y = x THEN n ELSE 0
               /\ e.assets[y].supply = d.assets[y].supply
               /\ e.assets[y].fees = d.assets[y].fees + IF y = x THEN n ELSE 0
               /\ e.assets[y].pool = d.assets[y].pool
    <2>1. Gap(e, y) = Gap(d, y) - IF y = x THEN n ELSE 0
      BY <1>2, <1>3, <1>4, <1>5
    <2>2. CASE y = x
      BY <1>3, <1>4, <1>5, <2>1, <2>2 DEF o
    <2>3. CASE y # x
      BY <1>2, <1>5, <2>1, <2>3
    <2> QED
      BY <2>2, <2>3
  <1> QED
    BY <1>1, <1>5, <1>6

-----------------------------------------------------------------------------
(* Fees *)

\* Statistics of an account that change.
LEMMA SetStatus ==
    ASSUME NEW d, Good(d), NEW a \in Accounts, NEW r,
           AccountOK(r, DOMAIN d.assets, d.vestings), r.balance = d.accounts[a].balance
    PROVE  LET e == SetAccount(d, a, r)
               o == d.accounts[a]
           IN  /\ Good(e) /\ e.assets = d.assets /\ e.vestings = d.vestings /\ e.now = d.now
               /\ e.accounts[a] = r /\ \A b \in Accounts \ {a} : e.accounts[b] = d.accounts[b]
               /\ \A b \in Accounts : e.accounts[b].balance = d.accounts[b].balance
               /\ \A x \in DOMAIN d.assets :
                    Gap(e, x) = Gap(d, x) - IF x # Core THEN 0
                                            ELSE (r.pending + r.vested) - (o.pending + o.vested)
  <1> DEFINE e == SetAccount(d, a, r)
             o == d.accounts[a]
             P == (r.pending + r.vested) - (o.pending + o.vested)
  <1>1. /\ Good(e) /\ e.assets = d.assets /\ e.vestings = d.vestings /\ e.now = d.now
        /\ e.accounts[a] = r /\ \A b \in Accounts \ {a} : e.accounts[b] = d.accounts[b]
        /\ \A x \in DOMAIN d.assets :
             Gap(e, x) = Gap(d, x) - (r.balance[x] - o.balance[x]) - IF x # Core THEN 0 ELSE P
    BY SetAccountGap
  <1>2. P \in Int
    <2>1. r \in Account /\ o \in Account
      BY AccountIs DEF AccountOK
    <2> HIDE DEF o
    <2> QED
      BY <2>1, AccountParts
  <1>3. \A x \in DOMAIN d.assets : /\ r.balance[x] = o.balance[x] /\ o.balance[x] \in Nat
                                   /\ Gap(d, x) \in Int
    BY AccountIs, HeldParts
  <1> HIDE DEF e, P, o
  <1>4. \A x \in DOMAIN d.assets : Gap(e, x) = Gap(d, x) - IF x # Core THEN 0 ELSE P
    BY <1>1, <1>2, <1>3
  <1>5. \A b \in Accounts : e.accounts[b].balance = d.accounts[b].balance
    BY <1>1
  <1> QED
    BY <1>1, <1>4, <1>5 DEF e, P, o

\* pay_fee: the fee is held, as pending or as vested.
LEMMA PayFee ==
    ASSUME NEW d, Good(d), NEW a \in Accounts, NEW core \in Nat
    PROVE  LET e == pay_fee(d, a, core)
           IN  /\ Good(e) /\ e.assets = d.assets /\ e.vestings = d.vestings /\ e.now = d.now
               /\ \A b \in Accounts : e.accounts[b].balance = d.accounts[b].balance
               /\ \A x \in DOMAIN d.assets : Gap(e, x) = Gap(d, x) - IF x = Core THEN core ELSE 0
  <1> DEFINE o == d.accounts[a]
             p == d.accounts[a].pending + core
             v == d.accounts[a].vested + core
             r == IF core > Threshold THEN [o EXCEPT !.pending = p] ELSE [o EXCEPT !.vested = v]
             e == SetAccount(d, a, r)
  <1>1. pay_fee(d, a, core) = e
    BY DEF pay_fee, SetAccount
  <1>2. AccountOK(o, DOMAIN d.assets, d.vestings) /\ o.pending \in Nat /\ o.vested \in Nat
    BY AccountIs
  <1>3. p \in Nat /\ v \in Nat /\ p = o.pending + core /\ v = o.vested + core
    BY <1>2
  <1> HIDE DEF o, p, v
  <1>4. /\ AccountOK(r, DOMAIN d.assets, d.vestings) /\ r.balance = o.balance
        /\ (r.pending + r.vested) - (o.pending + o.vested) = core
    <2>1. CASE core > Threshold
      <3>1. /\ AccountOK(r, DOMAIN d.assets, d.vestings) /\ r.balance = o.balance
            /\ r.pending = p /\ r.vested = o.vested
        BY <1>2, <1>3, <2>1, SetStatistics
      <3> HIDE DEF r
      <3> QED
        BY <1>2, <1>3, <3>1
    <2>2. CASE ~(core > Threshold)
      <3>1. /\ AccountOK(r, DOMAIN d.assets, d.vestings) /\ r.balance = o.balance
            /\ r.pending = o.pending /\ r.vested = v
        BY <1>2, <1>3, <2>2, SetStatistics
      <3> HIDE DEF r
      <3> QED
        BY <1>2, <1>3, <3>1
    <2> QED
      BY <2>1, <2>2
  <1> HIDE DEF r
  <1>5. /\ Good(e) /\ e.assets = d.assets /\ e.vestings = d.vestings /\ e.now = d.now
        /\ \A b \in Accounts : e.accounts[b].balance = d.accounts[b].balance
        /\ \A x \in DOMAIN d.assets :
             Gap(e, x) = Gap(d, x) - IF x # Core THEN 0
                                     ELSE (r.pending + r.vested) - (o.pending + o.vested)
    BY <1>4, SetStatus DEF o
  <1> HIDE DEF e
  <1>6. \A x \in DOMAIN d.assets : Gap(e, x) = Gap(d, x) - IF x = Core THEN core ELSE 0
    BY <1>4, <1>5
  <1> QED
    BY <1>1, <1>5, <1>6

\* The pool of the fee's asset pays the core units.
LEMMA ConvertFee ==
    ASSUME NEW d, Good(d), NEW x \in DOMAIN d.assets, NEW n \in Nat, NEW core \in Nat,
           x # Core => core <= d.assets[x].pool
    PROVE  LET e == convert_fee(d, <<x, n>>, core)
           IN  /\ Good(e) /\ e.accounts = d.accounts /\ e.vestings = d.vestings /\ e.now = d.now
               /\ DOMAIN e.assets = DOMAIN d.assets
               /\ \A y \in DOMAIN d.assets :
                    /\ e.assets[y].supply = d.assets[y].supply
                    /\ Gap(e, y) = Gap(d, y) - (IF x # Core /\ y = x THEN n ELSE 0)
                                   + (IF x # Core /\ y = Core THEN core ELSE 0)
  <1>1. CASE x = Core
    <2>1. convert_fee(d, <<x, n>>, core) = d
      BY <1>1 DEF convert_fee
    <2>2. \A y \in DOMAIN d.assets : Gap(d, y) \in Int
      BY HeldParts
    <2> QED
      BY <1>1, <2>1, <2>2
  <1>2. CASE x # Core
    <2> DEFINE m == - core
               u == AddFees(d, x, n)
               e == AddPool(u, x, m)
               f == [u EXCEPT !.assets[x].pool = @ - core]
    <2>1. convert_fee(d, <<x, n>>, core) = f
      <3> DEFINE fee == <<x, n>>
      <3>1. fee[1] = x /\ fee[2] = n
        OBVIOUS
      <3> HIDE DEF fee
      <3>2. convert_fee(d, fee, core) = f
        BY <1>2, <3>1, ZenonT(30) DEF convert_fee, AddFees
      <3> QED
        BY <3>2 DEF fee
    <2>2. d.assets[x].fees \in Nat /\ d.assets[x].pool \in Nat
      BY AssetParts
    <2>3. /\ Good(u) /\ u.accounts = d.accounts /\ u.vestings = d.vestings /\ u.now = d.now
          /\ DOMAIN u.assets = DOMAIN d.assets
          /\ \A y \in DOMAIN d.assets :
               /\ Gap(u, y) = Gap(d, y) - IF y = x THEN n ELSE 0
               /\ u.assets[y].supply = d.assets[y].supply
               /\ u.assets[y].pool = d.assets[y].pool
      BY <2>2, SetFees
    <2> HIDE DEF u
    <2>4. u.assets[x].pool \in Nat /\ u.assets[x].pool + m >= 0 /\ m \in Int
      BY <1>2, <2>2, <2>3
    <2>5. u.assets[x].pool - core = u.assets[x].pool + m
      BY <2>4
    <2>6. f = e
      BY <2>5 DEF AddPool
    <2> HIDE DEF m, f
    <2>9. Good(u) /\ x \in DOMAIN u.assets
      BY <2>3
    <2>7. /\ Good(e) /\ e.accounts = u.accounts /\ e.vestings = u.vestings /\ e.now = u.now
          /\ DOMAIN e.assets = DOMAIN u.assets
          /\ \A y \in DOMAIN u.assets :
               /\ Gap(e, y) = Gap(u, y) - IF y = Core THEN m ELSE 0
               /\ e.assets[y].supply = u.assets[y].supply
      BY <2>4, <2>9, SetPool
    <2> HIDE DEF e
    <2>8. \A y \in DOMAIN d.assets :
             Gap(e, y) = Gap(d, y) - (IF x # Core /\ y = x THEN n ELSE 0)
                                   + (IF x # Core /\ y = Core THEN core ELSE 0)
      BY <1>2, <2>3, <2>7, HeldParts DEF m
    <2> QED
      BY <2>1, <2>3, <2>6, <2>7, <2>8
  <1> QED
    BY <1>1, <1>2

\* The fee is accounted for: what it takes is missing until it is paid.
LEMMA ChargeGap ==
    ASSUME NEW d, Good(d), NEW a \in Accounts, NEW x \in DOMAIN d.assets, NEW n \in Nat,
           NEW core \in Nat, x # Core => core <= d.assets[x].pool
    PROVE  LET e == pay_fee(convert_fee(d, <<x, n>>, core), a, core)
           IN  /\ Good(e) /\ e.vestings = d.vestings /\ e.now = d.now
               /\ DOMAIN e.assets = DOMAIN d.assets
               /\ \A b \in Accounts : e.accounts[b].balance = d.accounts[b].balance
               /\ \A y \in DOMAIN d.assets :
                    /\ e.assets[y].supply = d.assets[y].supply
                    /\ Gap(e, y) = Gap(d, y) - IF x # Core THEN (IF y = x THEN n ELSE 0)
                                               ELSE IF y = Core THEN core ELSE 0
  <1> DEFINE u == convert_fee(d, <<x, n>>, core)
             e == pay_fee(u, a, core)
  <1>1. /\ Good(u) /\ u.accounts = d.accounts /\ u.vestings = d.vestings /\ u.now = d.now
        /\ DOMAIN u.assets = DOMAIN d.assets
        /\ \A y \in DOMAIN d.assets :
             /\ u.assets[y].supply = d.assets[y].supply
             /\ Gap(u, y) = Gap(d, y) - (IF x # Core /\ y = x THEN n ELSE 0)
                            + (IF x # Core /\ y = Core THEN core ELSE 0)
    BY ConvertFee
  <1> HIDE DEF u
  <1>2. /\ Good(e) /\ e.assets = u.assets /\ e.vestings = u.vestings /\ e.now = u.now
        /\ \A b \in Accounts : e.accounts[b].balance = u.accounts[b].balance
        /\ \A y \in DOMAIN u.assets : Gap(e, y) = Gap(u, y) - IF y = Core THEN core ELSE 0
    BY <1>1, PayFee
  <1> HIDE DEF e
  <1>3. ASSUME NEW y \in DOMAIN d.assets
        PROVE  Gap(e, y) = Gap(d, y) - IF x # Core THEN (IF y = x THEN n ELSE 0)
                                       ELSE IF y = Core THEN core ELSE 0
    <2>1. Gap(d, y) \in Int
      BY HeldParts
    <2> QED
      BY <1>1, <1>2, <2>1
  <1> QED
    BY <1>1, <1>2, <1>3 DEF e, u

-----------------------------------------------------------------------------
(* Deposits and the distribution of the fees *)

\* The balances and statistics of the accounts that a change leaves alone.
SameMoney(d, e) ==
    \A b \in Accounts : /\ e.accounts[b].balance = d.accounts[b].balance
                        /\ e.accounts[b].pending = d.accounts[b].pending
                        /\ e.accounts[b].vested = d.accounts[b].vested

\* A new id in an account.
KeepId(d, a, field, id) == [d EXCEPT !.accounts[a][field] = id]

\* The id is of a vesting balance of core units: no money moves.
LEMMA SetId ==
    ASSUME NEW d, Good(d), NEW a \in Accounts, NEW field \in {"cashback", "pay"}, NEW id \in Nat,
           IsCoreId(id, d.vestings)
    PROVE  LET e == KeepId(d, a, field, id)
           IN  /\ Good(e) /\ e.assets = d.assets /\ e.vestings = d.vestings /\ e.now = d.now
               /\ SameMoney(d, e)
               /\ \A x \in DOMAIN d.assets : Gap(e, x) = Gap(d, x)
  <1> DEFINE o == d.accounts[a]
             r == IF field = "cashback" THEN [o EXCEPT !.cashback = id] ELSE [o EXCEPT !.pay = id]
             e == SetAccount(d, a, r)
  <1>1. KeepId(d, a, field, id) = e
    <2>1. CASE field = "cashback"
      BY <2>1 DEF SetAccount, KeepId
    <2>2. CASE field = "pay"
      BY <2>2 DEF SetAccount, KeepId
    <2> QED
      BY <2>1, <2>2
  <1>2. AccountOK(o, DOMAIN d.assets, d.vestings) /\ o.pending \in Nat /\ o.vested \in Nat
    BY AccountIs
  <1> HIDE DEF o
  <1>3. /\ AccountOK(r, DOMAIN d.assets, d.vestings) /\ r.balance = o.balance
        /\ r.pending = o.pending /\ r.vested = o.vested
    <2>1. CASE field = "cashback"
      BY <1>2, <2>1, SetStatistics
    <2>2. CASE field = "pay"
      BY <1>2, <2>2, SetStatistics
    <2> QED
      BY <2>1, <2>2
  <1> HIDE DEF r
  <1>4. /\ Good(e) /\ e.assets = d.assets /\ e.vestings = d.vestings /\ e.now = d.now
        /\ e.accounts[a] = r /\ \A b \in Accounts \ {a} : e.accounts[b] = d.accounts[b]
        /\ \A x \in DOMAIN d.assets :
             Gap(e, x) = Gap(d, x) - IF x # Core THEN 0
                                     ELSE (r.pending + r.vested) - (o.pending + o.vested)
    BY <1>3, SetStatus DEF o
  <1> HIDE DEF e
  <1>5. SameMoney(d, e)
    BY <1>3, <1>4 DEF SameMoney, o
  <1>6. \A x \in DOMAIN d.assets : Gap(e, x) = Gap(d, x)
    BY <1>2, <1>3, <1>4, HeldParts
  <1> QED
    BY <1>1, <1>4, <1>5, <1>6

\* A deposit to an existing balance by coin seconds.
LEMMA DepositGap ==
    ASSUME NEW d, Good(d), NEW id \in DOMAIN d.vestings, d.vestings[id].policy.kind = "cdd",
           d.vestings[id].asset = Core, NEW n \in Nat, NEW v \in BOOLEAN
    PROVE  LET e == [d EXCEPT !.vestings[id] = deposit(@, d.now, n, v)]
           IN  /\ Good(e) /\ e.assets = d.assets /\ e.now = d.now /\ e.accounts = d.accounts
               /\ \A x \in DOMAIN d.assets : Gap(e, x) = Gap(d, x) - IF x = Core THEN n ELSE 0
  <1> DEFINE o == d.vestings[id]
             b == deposit(o, d.now, n, v)
             e == SetVesting(d, id, b)
  <1>1. [d EXCEPT !.vestings[id] = deposit(@, d.now, n, v)] = e
    BY DEF SetVesting
  <1>2. o \in VBal /\ Vests(o, d.now) /\ o.amount \in Nat /\ d.now \in Nat
    BY VestingParts, DatabaseParts
  <1>3. /\ b \in VBal /\ Vests(b, d.now) /\ b.policy.kind = "cdd"
        /\ b.asset = o.asset /\ b.amount = o.amount + n
    <2> HIDE DEF o
    <2>1. o.policy.kind = "cdd"
      BY DEF o
    <2> QED
      BY <1>2, <2>1, DepositVests
  <1> HIDE DEF b
  <1>4. /\ Good(e) /\ e.accounts = d.accounts /\ e.assets = d.assets /\ e.now = d.now
        /\ \A x \in DOMAIN d.assets :
             Gap(e, x) = Gap(d, x) - IF x # o.asset THEN 0 ELSE b.amount - o.amount
    BY <1>3, SetVestingGap
  <1> HIDE DEF e
  <1>5. \A x \in DOMAIN d.assets : Gap(e, x) = Gap(d, x) - IF x = Core THEN n ELSE 0
    <2>1. o.asset = Core /\ b.amount - o.amount = n
      BY <1>2, <1>3
    <2> HIDE DEF o
    <2> QED
      BY <1>4, <2>1
  <1> QED
    BY <1>1, <1>4, <1>5

\* A new balance by coin seconds, whose id the account keeps.
AddKept(d, field, owner, b) ==
    [AddVesting(d, b) EXCEPT !.accounts[owner][field] = Len(d.vestings) + 1]

\* deposit_lazy_vesting holds what is deposited: in a new balance,
LEMMA NewLazily ==
    ASSUME NEW d, Good(d), NEW field \in {"cashback", "pay"}, NEW owner \in Accounts,
           NEW n \in Nat, NEW seconds \in Nat, NEW free \in Nat, free <= n,
           NEW k \in Nat, AtMost(k, free, seconds),
           NEW b, b = VestingBalance(owner, Core, n, Cdd(seconds, k, d.now, 0), free, d.now)
    PROVE  LET e == AddKept(d, field, owner, b)
           IN  /\ Good(e) /\ e.assets = d.assets /\ e.now = d.now /\ SameMoney(d, e)
               /\ \A x \in DOMAIN d.assets : Gap(e, x) = Gap(d, x) - IF x = Core THEN n ELSE 0
  <1> DEFINE L == Len(d.vestings)
             added == AddVesting(d, b)
             set == KeepId(added, owner, field, L + 1)
  <1>1. d.now \in Nat /\ Core \in Assets /\ Core \in DOMAIN d.assets
    BY DatabaseParts DEF Assets, Good
  <1>2. b \in VBal /\ Vests(b, d.now) /\ b.asset = Core /\ b.amount = n
    BY <1>1, NewCdd
  <1>3. /\ Good(added) /\ added.accounts = d.accounts /\ added.assets = d.assets
        /\ added.now = d.now
        /\ L \in Nat /\ L + 1 \in DOMAIN added.vestings /\ added.vestings[L + 1] = b
        /\ \A x \in DOMAIN d.assets :
             Gap(added, x) = Gap(d, x) - IF x # Core THEN 0 ELSE n
    BY <1>1, <1>2, AddVestingGap
  <1> HIDE DEF added
  <1> DEFINE id == L + 1
  <1>4. id \in Nat /\ IsCoreId(id, added.vestings)
    BY <1>2, <1>3 DEF IsCoreId
  <1>5. set = KeepId(added, owner, field, id) /\ Good(added)
    BY <1>3
  <1> HIDE DEF id, L, set
  <1>6. /\ Good(set) /\ set.assets = added.assets /\ set.now = added.now
        /\ SameMoney(added, set)
        /\ \A x \in DOMAIN added.assets : Gap(set, x) = Gap(added, x)
    BY <1>4, <1>5, SetId
  <1>7. SameMoney(d, set)
    BY <1>3, <1>6 DEF SameMoney
  <1> QED
    BY <1>3, <1>6, <1>7 DEF set, added, L, AddKept, KeepId

\* or in the one that fits.
LEMMA DepositLazily ==
    ASSUME NEW d, Good(d), NEW field \in {"cashback", "pay"}, NEW owner \in Accounts,
           NEW n \in Nat, NEW seconds \in Nat, NEW vesting \in BOOLEAN
    PROVE  LET e == deposit_lazy_vesting(d, field, owner, n, seconds, vesting)
           IN  /\ Good(e) /\ e.assets = d.assets /\ e.now = d.now /\ SameMoney(d, e)
               /\ \A x \in DOMAIN d.assets : Gap(e, x) = Gap(d, x) - IF x = Core THEN n ELSE 0
  <1> DEFINE id == d.accounts[owner][field]
             fits == /\ id # 0 /\ d.vestings[id].policy.kind = "cdd"
                     /\ d.vestings[id].owner = owner /\ d.vestings[id].policy.seconds = seconds
             free == IF vesting THEN 0 ELSE n
             new == VestingBalance(owner, Core, n, Cdd(seconds, free * seconds, d.now, 0),
                                   free, d.now)
             L == Len(d.vestings)
             old == [d EXCEPT !.vestings[id] = deposit(@, d.now, n, ~vesting)]
             added == AddVesting(d, new)
             set == KeepId(added, owner, field, L + 1)
  <1>1. deposit_lazy_vesting(d, field, owner, n, seconds, vesting)
          = IF n = 0 THEN d ELSE IF fits THEN old ELSE set
    BY DEF deposit_lazy_vesting, KeepId
  <1>2. \A x \in DOMAIN d.assets : Gap(d, x) \in Int
    BY HeldParts
  <1>3. CASE n = 0
    BY <1>1, <1>2, <1>3 DEF SameMoney
  <1>4. CASE n # 0 /\ fits
    <2>1. IsCoreId(id, d.vestings)
      <3>1. AccountOK(d.accounts[owner], DOMAIN d.assets, d.vestings)
        BY AccountIs
      <3>2. CASE field = "cashback"
        BY <3>1, <3>2 DEF AccountOK
      <3>3. CASE field = "pay"
        BY <3>1, <3>3 DEF AccountOK
      <3> QED
        BY <3>2, <3>3
    <2>2. id \in DOMAIN d.vestings /\ d.vestings[id].asset = Core
          /\ d.vestings[id].policy.kind = "cdd"
      BY <1>4, <2>1 DEF IsCoreId
    <2>3. deposit_lazy_vesting(d, field, owner, n, seconds, vesting) = old
      BY <1>1, <1>4
    <2> HIDE DEF id
    <2>4. \A v \in BOOLEAN :
            LET e == [d EXCEPT !.vestings[id] = deposit(@, d.now, n, v)]
            IN  /\ Good(e) /\ e.assets = d.assets /\ e.now = d.now /\ e.accounts = d.accounts
                /\ \A x \in DOMAIN d.assets : Gap(e, x) = Gap(d, x) - IF x = Core THEN n ELSE 0
      BY <2>2, DepositGap
    <2>5. /\ Good(old) /\ old.assets = d.assets /\ old.now = d.now /\ old.accounts = d.accounts
          /\ \A x \in DOMAIN d.assets : Gap(old, x) = Gap(d, x) - IF x = Core THEN n ELSE 0
      <3> DEFINE v == ~vesting
      <3>1. v \in BOOLEAN
        OBVIOUS
      <3>2. old = [d EXCEPT !.vestings[id] = deposit(@, d.now, n, v)]
        OBVIOUS
      <3> HIDE DEF v, old
      <3> QED
        BY <2>4, <3>1, <3>2, Zenon
    <2> HIDE DEF old
    <2> QED
      BY <2>3, <2>5 DEF SameMoney
  <1>5. CASE n # 0 /\ ~fits
    <2>1. deposit_lazy_vesting(d, field, owner, n, seconds, vesting) = set
      BY <1>1, <1>5
    <2>2. free \in Nat /\ free <= n
      OBVIOUS
    <2> DEFINE E(e) == /\ Good(e) /\ e.assets = d.assets /\ e.now = d.now /\ SameMoney(d, e)
                       /\ \A x \in DOMAIN d.assets :
                            Gap(e, x) = Gap(d, x) - IF x = Core THEN n ELSE 0
               N(f, k) == VestingBalance(owner, Core, n, Cdd(seconds, k, d.now, 0), f, d.now)
               earned == free * seconds
    <2>3. \A f, k \in Nat : f <= n /\ AtMost(k, f, seconds) =>
             E(AddKept(d, field, owner, N(f, k)))
      <3> SUFFICES ASSUME NEW f \in Nat, NEW k \in Nat, f <= n, AtMost(k, f, seconds)
                   PROVE  E(AddKept(d, field, owner, N(f, k)))
        BY Zenon
      <3> QED
        BY NewLazily
    <2>4. set = AddKept(d, field, owner, N(free, earned))
      BY DEF AddKept, KeepId
    <2>6. earned \in Nat /\ AtMost(earned, free, seconds)
      BY <2>2 DEF AtMost
    <2> HIDE DEF E, N, free, set, earned
    <2>5. E(set)
      BY <2>2, <2>3, <2>4, <2>6, Zenon
    <2> QED
      BY <2>1, <2>5 DEF E
  <1> QED
    BY <1>3, <1>4, <1>5

\* A change that stays within the invariant: no asset comes or goes, and the
\* time is the same.
Inside(d, e) == Good(e) /\ DOMAIN e.assets = DOMAIN d.assets /\ e.now = d.now

\* deposit_cashback holds it too, and destroys what the accounts of the chain get.
LEMMA DepositCashback ==
    ASSUME NEW d, Good(d), NEW a \in Accounts, NEW n \in Nat, NEW vesting \in BOOLEAN,
           cashback_period \in Nat
    PROVE  LET e == deposit_cashback(d, a, n, vesting)
           IN  /\ Inside(d, e) /\ SameMoney(d, e)
               /\ \A x \in DOMAIN d.assets : Gap(e, x) = Gap(d, x) - IF x = Core THEN n ELSE 0
  <1>1. CASE a \in ChainAccounts
    <2> DEFINE m == - n
               e == AddSupply(d, Core, m)
    <2>1. d.assets[Core].supply \in Int /\ Core \in DOMAIN d.assets
          /\ d.assets[Core].supply <= MaxSupply[Core] /\ MaxSupply[Core] \in Nat
      BY AssetIs DEF Good
    <2>2. d.assets[Core].supply - n = d.assets[Core].supply + m
      BY <2>1
    <2>3. deposit_cashback(d, a, n, vesting) = e
      BY <1>1, <2>2 DEF deposit_cashback, AddSupply
    <2>4. m \in Int /\ d.assets[Core].supply + m <= MaxSupply[Core]
      BY <2>1
    <2> HIDE DEF m
    <2>5. /\ Good(e) /\ e.accounts = d.accounts /\ e.vestings = d.vestings /\ e.now = d.now
          /\ DOMAIN e.assets = DOMAIN d.assets
          /\ \A y \in DOMAIN d.assets : Gap(e, y) = Gap(d, y) + IF y = Core THEN m ELSE 0
      BY <2>1, <2>4, SetSupply
    <2> HIDE DEF e
    <2>6. \A x \in DOMAIN d.assets : Gap(e, x) = Gap(d, x) - IF x = Core THEN n ELSE 0
      BY <2>5, HeldParts DEF m
    <2> QED
      BY <2>3, <2>5, <2>6 DEF Inside, SameMoney
  <1>2. CASE a \notin ChainAccounts
    <2> DEFINE e == deposit_lazy_vesting(d, "cashback", a, n, cashback_period, vesting)
    <2>1. deposit_cashback(d, a, n, vesting) = e
      BY <1>2 DEF deposit_cashback
    <2>2. /\ Good(e) /\ e.assets = d.assets /\ e.now = d.now /\ SameMoney(d, e)
          /\ \A x \in DOMAIN d.assets : Gap(e, x) = Gap(d, x) - IF x = Core THEN n ELSE 0
      BY DepositLazily
    <2> HIDE DEF e
    <2> QED
      BY <2>1, <2>2 DEF Inside
  <1> QED
    BY <1>1, <1>2

\* The parts of a fee.
LEMMA CutFee ==
    ASSUME NEW n \in Nat, NEW p \in 0 .. Hundred
    PROVE  /\ cut_fee(n, p) \in Nat /\ cut_fee(n, p) <= n
           /\ \A q \in Nat : p + q <= Hundred => cut_fee(n, p) + cut_fee(n, q) <= n
  <1> DEFINE H == Hundred
  <1>1. H \in Nat \ {0}
    BY LedgerAssumption
  <1>2. \A q \in Nat : cut_fee(n, q) \in Nat /\ cut_fee(n, q) * H <= n * q
    <2> SUFFICES ASSUME NEW q \in Nat
                 PROVE  cut_fee(n, q) \in Nat /\ cut_fee(n, q) * H <= n * q
      OBVIOUS
    <2> DEFINE m == n * q
    <2>1. m \in Nat
      OBVIOUS
    <2> HIDE DEF m, H
    <2>2. m \div H \in Nat /\ (m \div H) * H <= m
      BY <1>1, <2>1, QuotientBounds
    <2> QED
      BY <2>2 DEF m, H, cut_fee
  <1>3. p \in Nat /\ p <= H
    BY <1>1
  <1> HIDE DEF H
  <1>4. \A q \in Nat : p + q <= H => cut_fee(n, p) + cut_fee(n, q) <= n
    <2> SUFFICES ASSUME NEW q \in Nat, p + q <= H
                 PROVE  cut_fee(n, p) + cut_fee(n, q) <= n
      OBVIOUS
    <2> DEFINE u == cut_fee(n, p)
               v == cut_fee(n, q)
    <2>1. u \in Nat /\ v \in Nat /\ u * H <= n * p /\ v * H <= n * q
      BY <1>2, <1>3
    <2> HIDE DEF u, v
    <2>2. (u + v) * H = u * H + v * H /\ n * (p + q) = n * p + n * q
          /\ u * H \in Int /\ v * H \in Int /\ n * p \in Int /\ n * q \in Int
      BY <1>1, <1>3, <2>1, ProductSum
    <2>3. n * (p + q) <= n * H /\ n * H \in Nat /\ n * (p + q) \in Nat
      BY <1>1, <1>3, ProductOrder
    <2>4. (u + v) * H <= n * H
      BY <2>1, <2>2, <2>3
    <2>5. ~(n + 1 <= u + v)
      <3> SUFFICES ASSUME n + 1 <= u + v
                   PROVE  FALSE
        OBVIOUS
      <3> DEFINE w == u + v
                 n1 == n + 1
      <3>1. w \in Nat /\ n1 \in Nat /\ n1 <= w
        BY <2>1
      <3>2. n1 * H = n * H + H
        BY <1>1
      <3> HIDE DEF w, n1
      <3>3. n1 * H <= w * H /\ n1 * H \in Nat /\ w * H \in Nat
        BY <1>1, <3>1, ProductOrder
      <3> QED
        BY <1>1, <2>3, <2>4, <3>2, <3>3 DEF w
    <2> QED
      BY <2>1, <2>5 DEF u, v
  <1>5. cut_fee(n, p) + cut_fee(n, 0) <= n
    BY <1>3, <1>4
  <1> QED
    BY <1>2, <1>3, <1>4, <1>5 DEF H

\* The parts that pay_out_fees computes are no less than zero and add up.
LEMMA FeeParts ==
    ASSUME NEW total \in Nat, NEW member \in BOOLEAN
    PROVE  LET network == cut_fee(total, NetworkFee)
               lifetime == cut_fee(total, IF member THEN Hundred - NetworkFee ELSE LifetimeFee)
               referral == total - network - lifetime
               reward == cut_fee(referral, ReferrerReward)
           IN  /\ network \in Nat /\ lifetime \in Nat /\ reward \in Nat
               /\ referral - reward \in Nat
               /\ network + lifetime + reward + (referral - reward) = total
  <1> DEFINE p == IF member THEN Hundred - NetworkFee ELSE LifetimeFee
             network == cut_fee(total, NetworkFee)
             lifetime == cut_fee(total, p)
             referral == total - network - lifetime
             reward == cut_fee(referral, ReferrerReward)
  <1>1. /\ NetworkFee \in 0 .. Hundred /\ p \in 0 .. Hundred /\ ReferrerReward \in 0 .. Hundred
        /\ NetworkFee + p <= Hundred /\ p \in Nat
    BY LedgerAssumption
  <1> HIDE DEF p
  <1>2. network \in Nat /\ lifetime \in Nat /\ network + lifetime <= total
    BY <1>1, CutFee
  <1> HIDE DEF network, lifetime
  <1>3. referral \in Nat
    BY <1>2
  <1> HIDE DEF referral
  <1>4. reward \in Nat /\ reward <= referral
    BY <1>1, <1>3, CutFee
  <1> HIDE DEF reward
  <1>5. referral - reward \in Nat /\ network + lifetime + reward + (referral - reward) = total
    BY <1>2, <1>3, <1>4 DEF referral
  <1> QED
    BY <1>2, <1>4, <1>5 DEF referral, reward, network, lifetime, p

\* pay_out_fees: what an account has pending is held elsewhere as a whole.
LEMMA PayOutFees ==
    ASSUME NEW d, Good(d), NEW a \in Accounts, NEW total \in Nat, NEW vesting \in BOOLEAN,
           cashback_period \in Nat
    PROVE  LET e == pay_out_fees(d, a, total, vesting)
           IN  /\ Inside(d, e) /\ SameMoney(d, e)
               /\ \A x \in DOMAIN d.assets : Gap(e, x) = Gap(d, x) - IF x = Core THEN total ELSE 0
  <1> DEFINE c == d.accounts[a]
             member == c.lifetime
             referrer == IF d.accounts[c.referrer].lifetime THEN c.referrer
                         ELSE c.lifetime_referrer
             network == cut_fee(total, NetworkFee)
             lifetime == cut_fee(total, IF member THEN Hundred - NetworkFee ELSE LifetimeFee)
             referral == total - network - lifetime
             reward == cut_fee(referral, ReferrerReward)
             rest == referral - reward
             r == [c EXCEPT !.referrer = referrer]
             d1 == SetAccount(d, a, r)
             d2 == AddFees(d1, Core, network)
             lr == c.lifetime_referrer
             rg == c.registrar
             d3 == deposit_cashback(d2, lr, lifetime, vesting)
             d4 == deposit_cashback(d3, referrer, reward, vesting)
             d5 == deposit_cashback(d4, rg, rest, vesting)
  <1>1. pay_out_fees(d, a, total, vesting) = d5
    BY DEF pay_out_fees, SetAccount, AddFees
  <1>2. /\ AccountOK(c, DOMAIN d.assets, d.vestings) /\ member \in BOOLEAN
        /\ rg \in Accounts /\ lr \in Accounts /\ referrer \in Accounts
        /\ c.pending \in Nat /\ c.vested \in Nat
    <2>1. /\ AccountOK(c, DOMAIN d.assets, d.vestings) /\ member \in BOOLEAN
          /\ rg \in Accounts /\ lr \in Accounts /\ c.referrer \in Accounts
          /\ c.pending \in Nat /\ c.vested \in Nat
      BY AccountIs
    <2> HIDE DEF c
    <2> QED
      BY <2>1
  <1>3. /\ network \in Nat /\ lifetime \in Nat /\ reward \in Nat /\ rest \in Nat
        /\ network + lifetime + reward + rest = total
    <2> HIDE DEF member
    <2> QED
      BY <1>2, FeeParts
  <1> HIDE DEF network, lifetime, reward, rest, referrer, lr, rg
  <1>4. /\ AccountOK(r, DOMAIN d.assets, d.vestings) /\ r.balance = c.balance
        /\ r.pending = c.pending /\ r.vested = c.vested
    <2> HIDE DEF c
    <2> QED
      BY <1>2, SetStatistics
  <1> HIDE DEF r
  <1>5. /\ Good(d1) /\ d1.assets = d.assets /\ d1.vestings = d.vestings /\ d1.now = d.now
        /\ SameMoney(d, d1)
        /\ \A x \in DOMAIN d.assets : Gap(d1, x) = Gap(d, x) /\ Gap(d, x) \in Int
    <2>1. /\ Good(d1) /\ d1.assets = d.assets /\ d1.vestings = d.vestings /\ d1.now = d.now
          /\ d1.accounts[a] = r /\ \A b \in Accounts \ {a} : d1.accounts[b] = d.accounts[b]
          /\ \A x \in DOMAIN d.assets :
               Gap(d1, x) = Gap(d, x) - IF x # Core THEN 0
                                        ELSE (r.pending + r.vested) - (c.pending + c.vested)
      BY <1>4, SetStatus
    <2> HIDE DEF d1
    <2>2. SameMoney(d, d1)
      BY <1>4, <2>1 DEF SameMoney
    <2> HIDE DEF c
    <2>3. \A x \in DOMAIN d.assets : Gap(d1, x) = Gap(d, x) /\ Gap(d, x) \in Int
      BY <1>2, <1>4, <2>1, HeldParts
    <2> QED
      BY <2>1, <2>2, <2>3
  <1> HIDE DEF d1, c
  <1>6. Core \in DOMAIN d1.assets /\ d1.assets[Core].fees \in Nat
        /\ d1.assets[Core].fees + network >= 0
    <2>1. Core \in DOMAIN d1.assets
      BY <1>5 DEF Good
    <2> QED
      BY <1>3, <1>5, <2>1, AssetIs
  <1>7. /\ Good(d2) /\ d2.accounts = d1.accounts /\ d2.now = d1.now
        /\ DOMAIN d2.assets = DOMAIN d1.assets
        /\ \A y \in DOMAIN d1.assets : Gap(d2, y) = Gap(d1, y) - IF y = Core THEN network ELSE 0
    <2>1. network \in Int
      BY <1>3
    <2> QED
      BY <1>5, <1>6, <2>1, SetFees
  <1> HIDE DEF d2
  <1>8. /\ Inside(d2, d3) /\ SameMoney(d2, d3)
        /\ \A x \in DOMAIN d2.assets : Gap(d3, x) = Gap(d2, x) - IF x = Core THEN lifetime ELSE 0
    BY <1>2, <1>3, <1>7, DepositCashback
  <1> HIDE DEF d3
  <1>9. /\ Inside(d3, d4) /\ SameMoney(d3, d4)
        /\ \A x \in DOMAIN d3.assets : Gap(d4, x) = Gap(d3, x) - IF x = Core THEN reward ELSE 0
    <2>1. Good(d3)
      BY <1>8 DEF Inside
    <2> QED
      BY <1>2, <1>3, <2>1, DepositCashback
  <1> HIDE DEF d4
  <1>10. /\ Inside(d4, d5) /\ SameMoney(d4, d5)
         /\ \A x \in DOMAIN d4.assets : Gap(d5, x) = Gap(d4, x) - IF x = Core THEN rest ELSE 0
    <2>1. Good(d4)
      BY <1>9 DEF Inside
    <2> QED
      BY <1>2, <1>3, <2>1, DepositCashback
  <1> HIDE DEF d5
  <1>11. Inside(d, d5)
    BY <1>5, <1>7, <1>8, <1>9, <1>10 DEF Inside
  <1>12. SameMoney(d, d5)
    BY <1>5, <1>7, <1>8, <1>9, <1>10 DEF SameMoney
  <1>13. ASSUME NEW x \in DOMAIN d.assets
         PROVE  Gap(d5, x) = Gap(d, x) - IF x = Core THEN total ELSE 0
    <2>1. /\ x \in DOMAIN d1.assets /\ x \in DOMAIN d2.assets /\ x \in DOMAIN d3.assets
          /\ x \in DOMAIN d4.assets /\ Gap(d, x) \in Int
      BY <1>5, <1>7, <1>8, <1>9 DEF Inside
    <2> QED
      BY <1>3, <1>5, <1>7, <1>8, <1>9, <1>10, <2>1
  <1> QED
    BY <1>1, <1>11, <1>12, <1>13

\* process_fees changes no gap: what is pending is gone when it is paid out.
LEMMA ProcessFees ==
    ASSUME NEW d, Good(d), NEW a \in Accounts, cashback_period \in Nat
    PROVE  LET e == process_fees(d, a)
           IN  Inside(d, e) /\ \A x \in DOMAIN d.assets : Gap(e, x) = Gap(d, x)
  <1> DEFINE c == d.accounts[a]
             p == d.accounts[a].pending
             v == d.accounts[a].vested
             d1 == pay_out_fees(d, a, p, TRUE)
             d2 == pay_out_fees(d1, a, v, FALSE)
             o == d2.accounts[a]
             r1 == [o EXCEPT !.pending = 0]
             d3 == SetAccount(d2, a, r1)
             r2 == [d3.accounts[a] EXCEPT !.vested = 0]
             d4 == SetAccount(d3, a, r2)
  <1>1. process_fees(d, a) = IF p + v = 0 THEN d ELSE d4
    BY DEF process_fees, SetAccount
  <1>2. p \in Nat /\ v \in Nat
    BY AccountIs
  <1>3. CASE p + v = 0
    BY <1>1, <1>3 DEF Inside
  <1>4. CASE p + v # 0
    <2> DEFINE E(b, e, f, n) == /\ Inside(e, f) /\ SameMoney(e, f)
                                /\ \A x \in DOMAIN e.assets :
                                     Gap(f, x) = Gap(e, x) - IF x = Core THEN n ELSE 0
    <2>1. \A w \in BOOLEAN : E(a, d, pay_out_fees(d, a, p, w), p)
      <3> HIDE DEF p
      <3> QED
        BY <1>2, PayOutFees
    <2>2. E(a, d, d1, p)
      <3> HIDE DEF E, p
      <3> QED
        BY <2>1, Zenon
    <2> HIDE DEF d1
    <2>3. Good(d1) /\ DOMAIN d1.assets = DOMAIN d.assets /\ d1.now = d.now
          /\ d1.accounts[a].pending = p /\ d1.accounts[a].vested = v
      BY <2>2 DEF Inside, SameMoney
    <2>4. \A w \in BOOLEAN : E(a, d1, pay_out_fees(d1, a, v, w), v)
      <3> HIDE DEF v
      <3> QED
        BY <1>2, <2>3, PayOutFees
    <2>5. E(a, d1, d2, v)
      <3> HIDE DEF E, v
      <3> QED
        BY <2>4, Zenon
    <2> HIDE DEF d2
    <2>6. Good(d2) /\ DOMAIN d2.assets = DOMAIN d.assets /\ d2.now = d.now
          /\ o.pending = p /\ o.vested = v
      BY <2>3, <2>5 DEF Inside, SameMoney
    <2> HIDE DEF p, v
    <2>7. AccountOK(o, DOMAIN d2.assets, d2.vestings)
      BY <2>6, AccountIs
    <2> HIDE DEF o
    <2>8. /\ AccountOK(r1, DOMAIN d2.assets, d2.vestings) /\ r1.balance = o.balance
          /\ r1.pending = 0 /\ r1.vested = o.vested
      BY <2>7, SetStatistics
    <2> HIDE DEF r1
    <2>9. /\ Good(d3) /\ d3.assets = d2.assets /\ d3.vestings = d2.vestings /\ d3.now = d2.now
          /\ d3.accounts[a] = r1
          /\ \A x \in DOMAIN d2.assets :
               Gap(d3, x) = Gap(d2, x) - IF x # Core THEN 0
                                         ELSE (r1.pending + r1.vested) - (o.pending + o.vested)
      BY <2>6, <2>8, SetStatus DEF o
    <2> HIDE DEF d3
    <2>10. r2 = [r1 EXCEPT !.vested = 0]
      BY <2>9
    <2>11. /\ AccountOK(r2, DOMAIN d3.assets, d3.vestings) /\ r2.balance = r1.balance
           /\ r2.pending = 0 /\ r2.vested = 0
      BY <2>8, <2>9, <2>10, SetStatistics
    <2> HIDE DEF r2
    <2>12. /\ Good(d4) /\ d4.assets = d3.assets /\ d4.vestings = d3.vestings /\ d4.now = d3.now
           /\ \A x \in DOMAIN d3.assets :
                Gap(d4, x) = Gap(d3, x) - IF x # Core THEN 0
                                          ELSE (r2.pending + r2.vested) - (r1.pending + r1.vested)
      BY <2>9, <2>11, SetStatus
    <2> HIDE DEF d4
    <2>13. Inside(d, d4)
      BY <2>6, <2>9, <2>12 DEF Inside
    <2>14. ASSUME NEW x \in DOMAIN d.assets
           PROVE  Gap(d4, x) = Gap(d, x)
      <3>1. x \in DOMAIN d1.assets /\ x \in DOMAIN d2.assets /\ x \in DOMAIN d3.assets
        BY <2>3, <2>6, <2>9
      <3>2. Gap(d, x) \in Int
        BY HeldParts
      <3>3. Gap(d2, x) = Gap(d, x) - IF x = Core THEN p + v ELSE 0
        BY <1>2, <2>2, <2>5, <3>1, <3>2
      <3>4. Gap(d3, x) = Gap(d2, x) + IF x = Core THEN p ELSE 0
        BY <1>2, <2>6, <2>8, <2>9, <3>1, <3>2, <3>3
      <3>5. Gap(d4, x) = Gap(d3, x) + IF x = Core THEN v ELSE 0
        BY <1>2, <2>6, <2>8, <2>11, <2>12, <3>1, <3>2, <3>3, <3>4
      <3> QED
        BY <1>2, <3>2, <3>3, <3>4, <3>5
    <2> QED
      BY <1>1, <1>4, <2>13, <2>14
  <1> QED
    BY <1>3, <1>4

\* The fees of all accounts: what is the same after each account.
SameGaps(d, e) == Inside(d, e) /\ \A x \in DOMAIN d.assets : Gap(e, x) = Gap(d, x)

IsFeeRun(f, d) ==
    f = [n \in 0 .. Len(ByName) |-> IF n = 0 THEN d ELSE process_fees(f[n - 1], ByName[n])]

\* The order of the accounts.
LEMMA AccountsByName ==
    /\ Len(ByName) \in Nat
    /\ \A n \in 1 .. Len(ByName) : ByName[n] \in Accounts
  <1>1. ByName \in Seq(User)
    BY GenesisAssumption
  <1> QED
    BY <1>1, ElementOfSeq, LenProperties DEF User

\* One account more.
LEMMA SameGapsKept ==
    ASSUME NEW d, Good(d), NEW e, SameGaps(d, e), NEW a \in Accounts, cashback_period \in Nat
    PROVE  SameGaps(d, process_fees(e, a))
  <1> DEFINE f == process_fees(e, a)
  <1>1. Good(e) /\ DOMAIN e.assets = DOMAIN d.assets
    BY DEF SameGaps, Inside
  <1>2. Inside(e, f) /\ \A x \in DOMAIN e.assets : Gap(f, x) = Gap(e, x)
    BY <1>1, ProcessFees
  <1> HIDE DEF f
  <1>3. SameGaps(d, f)
    BY <1>1, <1>2 DEF SameGaps, Inside
  <1> QED
    BY <1>3 DEF f

\* The recursive function of process_all_fees is defined.
LEMMA FeeRunExists ==
    ASSUME NEW d, Good(d), cashback_period \in Nat
    PROVE  \E f : IsFeeRun(f, d)
  <1> DEFINE N == Len(ByName)
             D == {e \in Databases : SameGaps(d, e)}
             Body(n, e) == process_fees(e, ByName[n])
             F == [x \in (1 .. N) \X D |-> Body(x[1], x[2])]
  <1>1. N \in Nat /\ \A n \in 1 .. N : ByName[n] \in Accounts
    BY AccountsByName
  <1>2. d \in D
    BY DEF SameGaps, Inside, Good
  <1>3. ASSUME NEW n \in 1 .. N, NEW e \in D
        PROVE  Body(n, e) \in D
    <2>1. SameGaps(d, Body(n, e))
      BY <1>1, SameGapsKept
    <2> QED
      BY <2>1 DEF SameGaps, Inside, Good
  <1> HIDE DEF D, Body
  <1>4. /\ F \in [(1 .. N) \X D -> D]
        /\ \A n \in 1 .. N, t \in D : F[<<n, t>>] = Body(n, t)
    BY <1>3
  <1> HIDE DEF N, F
  <1>5. PICK f \in [0 .. N -> D] :
            f[0] = d /\ \A n \in 1 .. N : f[n] = F[<<n, f[n - 1]>>]
    <2>1. IsBody(F, N, D)
      BY <1>4 DEF IsBody
    <2>2. \E f : IsLoop(f, F, N, d, D)
      BY <1>1, <1>2, <2>1, Iteration
    <2> QED
      BY <2>2 DEF IsLoop
  <1>6. \A n \in 0 .. N : f[n] = IF n = 0 THEN d ELSE Body(n, f[n - 1])
    <2> TAKE n \in 0 .. N
    <2>1. CASE n = 0
      BY <1>5, <2>1
    <2>2. CASE n # 0
      <3>1. n \in 1 .. N /\ n - 1 \in 0 .. N
        BY <1>1, <2>2
      <3>2. f[n - 1] \in D
        BY <3>1
      <3> QED
        BY <1>4, <1>5, <2>2, <3>1, <3>2
    <2> QED
      BY <2>1, <2>2
  <1>7. f = [n \in 0 .. N |-> f[n]]
    OBVIOUS
  <1>8. IsFeeRun(f, d)
    BY <1>6, <1>7 DEF IsFeeRun, N, Body
  <1> QED
    BY <1>8

\* Sharing out the fees of all accounts changes no total.
LEMMA ProcessAllFees ==
    ASSUME NEW d, Good(d), cashback_period \in Nat
    PROVE  SameGaps(d, process_all_fees(d))
  <1> DEFINE N == Len(ByName)
             f == CHOOSE g : IsFeeRun(g, d)
             S == {n \in 0 .. N : SameGaps(d, f[n])}
  <1>1. IsFeeRun(f, d)
    BY FeeRunExists
  <1>2. process_all_fees(d) = f[N]
    BY DEF process_all_fees, IsFeeRun
  <1>3. N \in Nat /\ \A n \in 1 .. N : ByName[n] \in Accounts
    BY AccountsByName
  <1> HIDE DEF f, N
  <1>4. \A n \in 0 .. N : f[n] = IF n = 0 THEN d ELSE process_fees(f[n - 1], ByName[n])
    BY <1>1, Zenon DEF IsFeeRun, N
  <1>5. 0 \in S
    <2>1. f[0] = d /\ 0 \in 0 .. N
      BY <1>3, <1>4
    <2>2. SameGaps(d, d)
      BY DEF SameGaps, Inside
    <2> QED
      BY <2>1, <2>2
  <1>6. ASSUME NEW n \in 1 .. N, n - 1 \in S
        PROVE  n \in S
    <2>1. f[n] = process_fees(f[n - 1], ByName[n]) /\ n \in 0 .. N
      BY <1>3, <1>4
    <2>2. SameGaps(d, f[n - 1])
      BY <1>6
    <2>3. SameGaps(d, f[n])
      BY <1>3, <2>1, <2>2, SameGapsKept
    <2> QED
      BY <2>1, <2>3
  <1> HIDE DEF S
  <1>7. N \in S
    BY <1>3, <1>5, <1>6, UpTo
  <1> QED
    BY <1>2, <1>7 DEF S

-----------------------------------------------------------------------------
(* The budget *)

\* What a worker of each kind does with its pay.
Spent(d, kind, n) ==
    CASE kind = "refund" -> [d EXCEPT !.assets[Core].supply = @ - n]
      [] kind = "burn" -> adjust_balance(d, NullAccount, Core, n)
      [] kind = "vesting" -> [d EXCEPT !.vestings[1] = deposit(@, d.now, n, FALSE)]

\* Whatever a worker does with its pay, the gap is smaller by it.
LEMMA SpentGap ==
    ASSUME NEW d, Good(d), NEW kind \in {"refund", "burn", "vesting"}, NEW n \in Nat
    PROVE  LET e == Spent(d, kind, n)
           IN  /\ Inside(d, e)
               /\ e.assets[Core].fees = d.assets[Core].fees
               /\ e.assets[Core].supply <= d.assets[Core].supply
               /\ \A x \in DOMAIN d.assets : Gap(e, x) = Gap(d, x) - IF x = Core THEN n ELSE 0
  <1>1. d.assets[Core].supply \in Int /\ Core \in DOMAIN d.assets
        /\ d.assets[Core].supply <= MaxSupply[Core] /\ MaxSupply[Core] \in Nat
    BY AssetIs DEF Good
  <1>2. CASE kind = "refund"
    <2> DEFINE m == - n
               e == AddSupply(d, Core, m)
    <2>1. d.assets[Core].supply - n = d.assets[Core].supply + m
      BY <1>1
    <2>2. Spent(d, kind, n) = e
      BY <1>2, <2>1 DEF Spent, AddSupply
    <2>3. m \in Int /\ d.assets[Core].supply + m <= MaxSupply[Core]
      BY <1>1
    <2> HIDE DEF m
    <2>4. /\ Good(e) /\ e.now = d.now /\ DOMAIN e.assets = DOMAIN d.assets
          /\ \A y \in DOMAIN d.assets :
               /\ Gap(e, y) = Gap(d, y) + IF y = Core THEN m ELSE 0
               /\ e.assets[y].supply = d.assets[y].supply + IF y = Core THEN m ELSE 0
               /\ e.assets[y].fees = d.assets[y].fees
      BY <1>1, <2>3, SetSupply
    <2> HIDE DEF e
    <2>5. \A x \in DOMAIN d.assets : Gap(e, x) = Gap(d, x) - IF x = Core THEN n ELSE 0
      BY <2>4, HeldParts DEF m
    <2>6. e.assets[Core].supply <= d.assets[Core].supply
      BY <1>1, <2>4 DEF m
    <2> QED
      BY <1>1, <2>2, <2>4, <2>5, <2>6 DEF Inside
  <1>3. CASE kind = "burn"
    <2> DEFINE e == adjust_balance(d, NullAccount, Core, n)
    <2>1. Spent(d, kind, n) = e
      BY <1>3 DEF Spent
    <2>2. NullAccount \in Accounts
      BY LedgerAssumption
    <2>3. d.accounts[NullAccount].balance[Core] + n >= 0
      BY <1>1, <2>2, AccountIs
    <2>4. /\ Good(e) /\ e.assets = d.assets /\ e.now = d.now
          /\ \A y \in DOMAIN d.assets : Gap(e, y) = Gap(d, y) - IF y = Core THEN n ELSE 0
      BY <1>1, <2>2, <2>3, AdjustBalance
    <2> HIDE DEF e
    <2> QED
      BY <1>1, <2>1, <2>4 DEF Inside
  <1>4. CASE kind = "vesting"
    <2> DEFINE e == [d EXCEPT !.vestings[1] = deposit(@, d.now, n, FALSE)]
    <2>1. Spent(d, kind, n) = e
      BY <1>4 DEF Spent
    <2>2. 1 \in DOMAIN d.vestings /\ d.vestings[1].policy.kind = "cdd"
          /\ d.vestings[1].asset = Core
      BY DEF Good, WorkerOK
    <2> DEFINE P(f) == /\ Good(f) /\ f.assets = d.assets /\ f.now = d.now
                       /\ \A x \in DOMAIN d.assets :
                            Gap(f, x) = Gap(d, x) - IF x = Core THEN n ELSE 0
    <2>3. \A v \in BOOLEAN : P([d EXCEPT !.vestings[1] = deposit(@, d.now, n, v)])
      BY <2>2, DepositGap
    <2>4. P(e)
      <3> HIDE DEF P
      <3> QED
        BY <2>3, Zenon
    <2> HIDE DEF e
    <2> QED
      BY <1>1, <2>1, <2>4 DEF Inside
  <1> QED
    BY <1>2, <1>3, <1>4

\* The workers are paid out of the budget, which gets smaller as nobody's
\* share of the supply does.
Purses == [d : Databases, budget : Nat, since : Nat]

Paying(d, W, T, s) ==
    /\ s \in Purses /\ s.since = T /\ s.budget <= W
    /\ Inside(d, s.d) /\ s.d.assets[Core].fees = d.assets[Core].fees
    /\ s.d.assets[Core].supply <= d.assets[Core].supply
    /\ \A x \in DOMAIN d.assets :
          Gap(s.d, x) = Gap(d, x) - IF x = Core THEN W - s.budget ELSE 0

WorkerSet == [kind : {"refund", "burn", "vesting"}, pay : Nat]

\* One worker more is paid out of what is left.
LEMMA PayWorker ==
    ASSUME NEW d, Good(d), NEW W \in Nat, NEW T \in Nat, NEW s, Paying(d, W, T, s),
           NEW w \in WorkerSet
    PROVE  Paying(d, W, T, pay_worker(s, w))
  <1> DEFINE wanted == (w.pay * s.since) \div Day
             pay == Min({s.budget, wanted})
             e == Spent(s.d, w.kind, pay)
             r == [s EXCEPT !.budget = @ - pay, !.d = e]
  <1>1. pay_worker(s, w) = IF s.budget = 0 THEN s ELSE r
    BY DEF pay_worker, Spent
  <1>2. /\ s \in Purses /\ s.since = T /\ s.budget \in Nat /\ s.budget <= W /\ Good(s.d)
        /\ DOMAIN s.d.assets = DOMAIN d.assets /\ s.d.now = d.now /\ Core \in DOMAIN d.assets
    BY DEF Paying, Inside, Purses, Good
  <1>3. wanted \in Nat
    <2> DEFINE n == w.pay * s.since
    <2>1. n \in Nat /\ Day \in Nat \ {0}
      BY <1>2, LedgerAssumption DEF WorkerSet
    <2> HIDE DEF n
    <2>2. n \div Day \in Nat
      BY <2>1, QuotientBounds
    <2> QED
      BY <2>2 DEF n
  <1> HIDE DEF wanted
  <1>4. pay \in Nat /\ pay <= s.budget
    <2> DEFINE m == s.budget
    <2>1. m \in Int /\ m \in Nat /\ wanted \in Int
      BY <1>2, <1>3
    <2> HIDE DEF m
    <2>2. Min({m, wanted}) = IF m <= wanted THEN m ELSE wanted
      BY <2>1, MinOfTwo
    <2> QED
      BY <1>3, <2>1, <2>2 DEF m
  <1> HIDE DEF pay
  <1>5. /\ Inside(s.d, e)
        /\ e.assets[Core].fees = s.d.assets[Core].fees
        /\ e.assets[Core].supply <= s.d.assets[Core].supply
        /\ \A x \in DOMAIN s.d.assets : Gap(e, x) = Gap(s.d, x) - IF x = Core THEN pay ELSE 0
    <2>1. w.kind \in {"refund", "burn", "vesting"}
      BY DEF WorkerSet
    <2> QED
      BY <1>2, <1>4, <2>1, SpentGap
  <1> HIDE DEF e
  <1>6. e \in Databases
    BY <1>5 DEF Inside, Good
  <1>7. /\ r \in Purses /\ r.since = T /\ r.budget = s.budget - pay /\ r.d = e
    <2> DEFINE m == s.budget - pay
               q == [s EXCEPT !.budget = m]
    <2>1. m \in Nat
      BY <1>2, <1>4
    <2>2. r = [q EXCEPT !.d = e]
      OBVIOUS
    <2> HIDE DEF m, r
    <2>3. q \in Purses /\ q.since = T /\ q.budget = m
      BY <1>2, <2>1 DEF Purses
    <2> HIDE DEF q
    <2>4. r \in Purses /\ r.since = T /\ r.budget = m /\ r.d = e
      BY <1>6, <2>2, <2>3 DEF Purses
    <2> QED
      BY <2>4 DEF m
  <1> HIDE DEF r
  <1>8. Inside(d, e)
    BY <1>2, <1>5 DEF Inside
  <1>9. e.assets[Core].supply <= d.assets[Core].supply
    <2>1. /\ e.assets[Core].supply \in Int /\ s.d.assets[Core].supply \in Int
          /\ d.assets[Core].supply \in Int
      BY <1>2, <1>8, AssetIs DEF Inside
    <2>2. s.d.assets[Core].supply <= d.assets[Core].supply
      BY DEF Paying
    <2> QED
      BY <1>5, <2>1, <2>2
  <1>10. ASSUME NEW x \in DOMAIN d.assets
         PROVE  Gap(e, x) = Gap(d, x) - IF x = Core THEN W - r.budget ELSE 0
    <2>1. Gap(d, x) \in Int
      BY HeldParts
    <2>2. Gap(s.d, x) = Gap(d, x) - IF x = Core THEN W - s.budget ELSE 0
      BY DEF Paying
    <2>3. Gap(e, x) = Gap(s.d, x) - IF x = Core THEN pay ELSE 0
      BY <1>2, <1>5
    <2> QED
      BY <1>2, <1>4, <1>7, <2>1, <2>2, <2>3
  <1>11. e.assets[Core].fees = d.assets[Core].fees
    BY <1>5 DEF Paying
  <1>12. r.budget <= W
    BY <1>2, <1>4, <1>7
  <1>13. Paying(d, W, T, r)
    BY <1>7, <1>8, <1>9, <1>10, <1>11, <1>12 DEF Paying
  <1> QED
    BY <1>1, <1>13

IsPayRun(f, start, order) ==
    f = [n \in 0 .. Len(order) |-> IF n = 0 THEN start ELSE pay_worker(f[n - 1], order[n])]

\* The recursive function of pay_workers is defined.
LEMMA PayRunExists ==
    ASSUME NEW d, Good(d), NEW W \in Nat, NEW T \in Nat, NEW start, Paying(d, W, T, start),
           NEW order \in Seq(WorkerSet)
    PROVE  \E f : IsPayRun(f, start, order)
  <1> DEFINE N == Len(order)
             D == {s \in Purses : Paying(d, W, T, s)}
             Body(n, s) == pay_worker(s, order[n])
             F == [x \in (1 .. N) \X D |-> Body(x[1], x[2])]
  <1>1. N \in Nat /\ \A n \in 1 .. N : order[n] \in WorkerSet
    BY ElementOfSeq, LenProperties
  <1>2. start \in D
    BY DEF Paying
  <1>3. ASSUME NEW n \in 1 .. N, NEW s \in D
        PROVE  Body(n, s) \in D
    <2>1. Paying(d, W, T, Body(n, s))
      BY <1>1, PayWorker
    <2> QED
      BY <2>1 DEF Paying
  <1> HIDE DEF D, Body
  <1>4. /\ F \in [(1 .. N) \X D -> D]
        /\ \A n \in 1 .. N, t \in D : F[<<n, t>>] = Body(n, t)
    BY <1>3
  <1> HIDE DEF N, F
  <1>5. PICK f \in [0 .. N -> D] :
            f[0] = start /\ \A n \in 1 .. N : f[n] = F[<<n, f[n - 1]>>]
    <2>1. IsBody(F, N, D)
      BY <1>4 DEF IsBody
    <2>2. \E f : IsLoop(f, F, N, start, D)
      BY <1>1, <1>2, <2>1, Iteration
    <2> QED
      BY <2>2 DEF IsLoop
  <1>6. \A n \in 0 .. N : f[n] = IF n = 0 THEN start ELSE Body(n, f[n - 1])
    <2> TAKE n \in 0 .. N
    <2>1. CASE n = 0
      BY <1>5, <2>1
    <2>2. CASE n # 0
      <3>1. n \in 1 .. N /\ n - 1 \in 0 .. N
        BY <1>1, <2>2
      <3>2. f[n - 1] \in D
        BY <3>1
      <3> QED
        BY <1>4, <1>5, <2>2, <3>1, <3>2
    <2> QED
      BY <2>1, <2>2
  <1>7. f = [n \in 0 .. N |-> f[n]]
    OBVIOUS
  <1>8. IsPayRun(f, start, order)
    BY <1>6, <1>7 DEF IsPayRun, N, Body
  <1> QED
    BY <1>8

\* The workers together take no more than the budget.
LEMMA PayWorkers ==
    ASSUME NEW d, Good(d), NEW W \in Nat, NEW T \in Nat, NEW start, Paying(d, W, T, start),
           NEW order \in Seq(WorkerSet)
    PROVE  Paying(d, W, T, pay_workers(start, order))
  <1> DEFINE N == Len(order)
             f == CHOOSE g : IsPayRun(g, start, order)
             S == {n \in 0 .. N : Paying(d, W, T, f[n])}
  <1>1. IsPayRun(f, start, order)
    BY PayRunExists
  <1>2. pay_workers(start, order) = f[N]
    BY DEF pay_workers, IsPayRun
  <1>3. N \in Nat /\ \A n \in 1 .. N : order[n] \in WorkerSet
    BY ElementOfSeq, LenProperties
  <1> HIDE DEF f, N
  <1>4. \A n \in 0 .. N : f[n] = IF n = 0 THEN start ELSE pay_worker(f[n - 1], order[n])
    BY <1>1, Zenon DEF IsPayRun, N
  <1>5. 0 \in S
    <2>1. f[0] = start /\ 0 \in 0 .. N
      BY <1>3, <1>4
    <2> QED
      BY <2>1
  <1>6. ASSUME NEW n \in 1 .. N, n - 1 \in S
        PROVE  n \in S
    <2>1. f[n] = pay_worker(f[n - 1], order[n]) /\ n \in 0 .. N
      BY <1>3, <1>4
    <2>2. Paying(d, W, T, f[n - 1])
      BY <1>6
    <2>3. Paying(d, W, T, f[n])
      BY <1>3, <2>1, <2>2, PayWorker
    <2> QED
      BY <2>1, <2>3
  <1> HIDE DEF S
  <1>7. \A n \in 0 .. N : n \in S
    BY <1>3, <1>5, <1>6, UpTo
  <1>8. N \in S
    BY <1>3, <1>7
  <1> QED
    BY <1>2, <1>8 DEF S

\* The smaller of two natural numbers.
LEMMA MinOfNats ==
    \A x, y \in Nat : Min({x, y}) \in Nat /\ Min({x, y}) <= x /\ Min({x, y}) <= y
  BY MinOfTwo

\* No more is budgeted than the reserve: what was never issued, the fees and
\* what the witnesses left.
LEMMA TotalBudgetFacts ==
    ASSUME NEW d, Good(d), NEW unused \in Nat, last_budget \in Nat
    PROVE  /\ TotalBudget(d, unused) \in Nat
           /\ TotalBudget(d, unused)
                 <= MaxSupply[Core] - d.assets[Core].supply + d.assets[Core].fees + unused
  <1> DEFINE reserve == MaxSupply[Core] - d.assets[Core].supply + d.assets[Core].fees + unused
             dt == d.now - last_budget
             product == reserve * dt * CycleRate
             spend == (product + CycleUnit - 1) \div CycleUnit
  <1>1. TotalBudget(d, unused) = IF last_budget = 0 \/ d.now <= last_budget THEN 0
                                 ELSE Min({reserve, spend})
    BY DEF TotalBudget
  <1>2. reserve \in Nat
    BY AssetIs DEF Good
  <1>3. d.now > last_budget => spend \in Nat
    <2> SUFFICES ASSUME d.now > last_budget PROVE spend \in Nat
      OBVIOUS
    <2>1. dt \in Nat /\ CycleRate \in Nat /\ CycleUnit \in Nat \ {0}
      BY DatabaseParts, LedgerAssumption, SMTT(20)
    <2> HIDE DEF reserve, dt
    <2>2. product \in Nat
      BY <1>2, <2>1
    <2> DEFINE n == product + CycleUnit - 1
    <2> HIDE DEF product
    <2>3. n \in Nat
      BY <2>1, <2>2
    <2> HIDE DEF n
    <2>4. n \div CycleUnit \in Nat
      BY <2>1, <2>3, QuotientBounds
    <2> QED
      BY <2>4 DEF n
  <1>4. d.now \in Nat
    BY DatabaseParts
  <1> HIDE DEF reserve, spend
  <1>5. d.now > last_budget => Min({reserve, spend}) \in Nat /\ Min({reserve, spend}) <= reserve
    BY <1>2, <1>3, MinOfNats, Zenon
  <1>6. TotalBudget(d, unused) \in Nat /\ TotalBudget(d, unused) <= reserve
    BY <1>1, <1>2, <1>4, <1>5
  <1> QED
    BY <1>6 DEF reserve

\* The budget: what the witnesses get is new, what they left is gone, and the
\* supply stays within its maximum.
LEMMA ProcessBudget ==
    ASSUME NEW d, Good(d), NEW unused \in Nat, NEW order \in Seq(WorkerSet), NEW ahead \in Nat,
           last_budget \in Nat, last_budget <= d.now
    PROVE  LET r == process_budget(d, unused, order, ahead)
           IN  /\ Inside(d, r.d) /\ r.budget \in Nat
               /\ \A x \in DOMAIN d.assets :
                    Gap(r.d, x) = Gap(d, x) + IF x = Core THEN r.budget - unused ELSE 0
  <1> DEFINE total == TotalBudget(d, unused)
             ask == WitnessPay * ahead
             witnesses == Min({ask, total})
             rest == total - witnesses
             most == (WorkerBudget * ahead) \div Day
             workers == Min({most, rest})
             since == d.now - last_budget
             start == [d |-> d, budget |-> workers, since |-> since]
             paid == pay_workers(start, order)
             F == d.assets[Core].fees
             d1 == [paid.d EXCEPT !.assets[Core].supply =
                       @ + witnesses + workers - paid.budget - F - unused]
             d2 == [d1 EXCEPT !.assets[Core].fees = 0]
  <1>1. process_budget(d, unused, order, ahead) = [d |-> d2, budget |-> witnesses]
    BY DEF process_budget
  <1>2. /\ Core \in DOMAIN d.assets /\ d.assets[Core].supply \in Int /\ F \in Nat
        /\ MaxSupply[Core] \in Nat
    BY AssetIs DEF Good
  <1>3. total \in Nat /\ total <= MaxSupply[Core] - d.assets[Core].supply + F + unused
    BY TotalBudgetFacts
  <1>4. ask \in Nat /\ most \in Nat /\ since \in Nat
    <2>1. WitnessPay \in Nat /\ WorkerBudget \in Nat /\ Day \in Nat \ {0} /\ d.now \in Nat
      BY LedgerAssumption, DatabaseParts
    <2> DEFINE n == WorkerBudget * ahead
    <2>2. n \in Nat /\ ask \in Nat /\ since \in Nat
      BY <2>1
    <2> HIDE DEF n
    <2>3. n \div Day \in Nat
      BY <2>1, <2>2, QuotientBounds
    <2> QED
      BY <2>2, <2>3 DEF n
  <1> HIDE DEF total, ask, most, since
  <1>5. witnesses \in Nat /\ witnesses <= total
    BY <1>3, <1>4, MinOfNats, Zenon
  <1> HIDE DEF witnesses
  <1>6. rest \in Nat
    BY <1>3, <1>5
  <1> HIDE DEF rest
  <1>7. workers \in Nat /\ workers <= rest
    BY <1>4, <1>6, MinOfNats, Zenon
  <1> HIDE DEF workers
  <1>8. Paying(d, workers, since, start)
    <2>1. start \in Purses /\ start.d = d /\ start.budget = workers /\ start.since = since
      BY <1>4, <1>7 DEF Purses, Good
    <2> HIDE DEF start
    <2>2. \A x \in DOMAIN d.assets : Gap(d, x) \in Int
      BY HeldParts
    <2> QED
      BY <1>2, <1>7, <2>1, <2>2 DEF Paying, Inside
  <1> HIDE DEF start
  <1>9. Paying(d, workers, since, paid)
    BY <1>4, <1>7, <1>8, PayWorkers
  <1> HIDE DEF paid
  <1> DEFINE p == paid.d
             left == paid.budget
             m == witnesses + workers - left - F - unused
             k == - F
  <1>10. /\ Good(p) /\ DOMAIN p.assets = DOMAIN d.assets /\ p.now = d.now
         /\ left \in Nat /\ left <= workers
         /\ p.assets[Core].fees = F
         /\ p.assets[Core].supply <= d.assets[Core].supply
         /\ \A x \in DOMAIN d.assets :
              Gap(p, x) = Gap(d, x) - IF x = Core THEN workers - left ELSE 0
    BY <1>9 DEF Paying, Inside, Purses
  <1>11. Core \in DOMAIN p.assets /\ p.assets[Core].supply \in Int
    BY <1>2, <1>10, AssetIs
  <1> HIDE DEF p, left, F
  <1>12. /\ m \in Int /\ p.assets[Core].supply + m <= MaxSupply[Core]
    BY <1>2, <1>3, <1>5, <1>6, <1>7, <1>10, <1>11 DEF rest
  <1>13. d1 = AddSupply(p, Core, m)
    <2>1. p.assets[Core].supply + witnesses + workers - left - F - unused
             = p.assets[Core].supply + m
      BY <1>2, <1>5, <1>7, <1>10, <1>11
    <2> HIDE DEF m
    <2> QED
      BY <2>1 DEF AddSupply, p, left
  <1> HIDE DEF d1, m
  <1>14. /\ Good(d1) /\ d1.now = p.now /\ DOMAIN d1.assets = DOMAIN p.assets
         /\ \A y \in DOMAIN p.assets :
              /\ Gap(d1, y) = Gap(p, y) + IF y = Core THEN m ELSE 0
              /\ d1.assets[y].fees = p.assets[y].fees
    <2> DEFINE e == AddSupply(p, Core, m)
    <2>1. /\ Good(e) /\ e.now = p.now /\ DOMAIN e.assets = DOMAIN p.assets
          /\ \A y \in DOMAIN p.assets :
               /\ Gap(e, y) = Gap(p, y) + IF y = Core THEN m ELSE 0
               /\ e.assets[y].fees = p.assets[y].fees
      BY <1>10, <1>11, <1>12, SetSupply
    <2> HIDE DEF e
    <2> QED
      BY <1>13, <2>1 DEF e
  <1>15. /\ d1.assets[Core].fees = F /\ Core \in DOMAIN d1.assets
         /\ k \in Int /\ d1.assets[Core].fees + k = 0
    BY <1>2, <1>10, <1>11, <1>14
  <1>16. d2 = AddFees(d1, Core, k)
    <2> HIDE DEF k
    <2> QED
      BY <1>15 DEF AddFees
  <1> HIDE DEF d2, k
  <1>17. /\ Good(d2) /\ d2.now = d1.now /\ DOMAIN d2.assets = DOMAIN d1.assets
         /\ \A y \in DOMAIN d1.assets : Gap(d2, y) = Gap(d1, y) - IF y = Core THEN k ELSE 0
    <2> DEFINE e == AddFees(d1, Core, k)
    <2>1. /\ Good(e) /\ e.now = d1.now /\ DOMAIN e.assets = DOMAIN d1.assets
          /\ \A y \in DOMAIN d1.assets : Gap(e, y) = Gap(d1, y) - IF y = Core THEN k ELSE 0
      <3>1. d1.assets[Core].fees + k >= 0
        BY <1>15
      <3> QED
        BY <1>14, <1>15, <3>1, SetFees
    <2> HIDE DEF e
    <2> QED
      BY <1>16, <2>1 DEF e
  <1>18. Inside(d, d2)
    BY <1>10, <1>14, <1>17 DEF Inside
  <1>19. ASSUME NEW x \in DOMAIN d.assets
         PROVE  Gap(d2, x) = Gap(d, x) + IF x = Core THEN witnesses - unused ELSE 0
    <2>1. x \in DOMAIN p.assets /\ x \in DOMAIN d1.assets /\ Gap(d, x) \in Int
      BY <1>10, <1>14, HeldParts
    <2>2. Gap(p, x) = Gap(d, x) - IF x = Core THEN workers - left ELSE 0
      BY <1>10
    <2>3. Gap(d1, x) = Gap(p, x) + IF x = Core THEN m ELSE 0
      BY <1>14, <2>1
    <2>4. Gap(d2, x) = Gap(d1, x) - IF x = Core THEN k ELSE 0
      BY <1>17, <2>1
    <2>5. m = witnesses + workers - left - F - unused /\ k = - F /\ k \in Int /\ m \in Int
      BY <1>12, <1>15 DEF m, k
    <2> QED
      BY <1>2, <1>5, <1>7, <1>10, <2>1, <2>2, <2>3, <2>4, <2>5
  <1> QED
    BY <1>1, <1>5, <1>18, <1>19

-----------------------------------------------------------------------------
(* Blocks, new assets and the charge of an operation *)

\* Nothing adds up to nothing.
LEMMA SumZero ==
    ASSUME NEW S, NEW f, \A s \in S : f[s] = 0
    PROVE  Sum(f, S) = 0
  <1>1. \A s \in S : Sum(f, {}) = 0 /\ 1 .. f[s] = {}
    BY SumEmpty
  <1>2. Units(f, S) = {} /\ Units(f, {}) = {}
    BY <1>1 DEF Units
  <1> QED
    BY <1>2, SumEmpty DEF Sum

\* The time of the next block.
LEMMA Advance ==
    ASSUME NEW d, Good(d), NEW t \in Nat, d.now <= t
    PROVE  LET e == [d EXCEPT !.now = t]
           IN  /\ Good(e) /\ e.assets = d.assets /\ e.accounts = d.accounts
               /\ e.vestings = d.vestings /\ e.now = t
               /\ \A x \in DOMAIN d.assets : Gap(e, x) = Gap(d, x)
  <1> DEFINE e == [d EXCEPT !.now = t]
  <1>1. /\ e \in Databases /\ e.now = t /\ e.accounts = d.accounts /\ e.assets = d.assets
        /\ e.vestings = d.vestings
    <2>1. d \in Databases
      BY DEF Good
    <2> QED
      BY <2>1, ReplaceParts
  <1> HIDE DEF e
  <1>2. ASSUME NEW i \in DOMAIN d.vestings
        PROVE  VestingOK(d.vestings[i], DOMAIN d.assets, t)
    <2> DEFINE b == d.vestings[i]
    <2>1. d.now \in Nat /\ VestingOK(b, DOMAIN d.assets, d.now)
      BY DatabaseParts DEF Good
    <2> HIDE DEF b
    <2>2. Vests(b, t)
      BY <2>1, VestsLater DEF VestingOK
    <2> QED
      BY <2>1, <2>2 DEF VestingOK, b
  <1>3. Good(e)
    BY <1>1, <1>2 DEF Good
  <1>4. \A x : Gap(e, x) = Gap(d, x)
    BY <1>1 DEF Gap, Held
  <1> QED
    BY <1>1, <1>3, <1>4 DEF e

\* A new asset, whose fee pool the creator has filled.
NewAsset(d, x, kept) ==
    [d EXCEPT !.assets =
        [y \in DOMAIN d.assets \cup {x} |->
            IF y = x THEN [supply |-> 0, pool |-> kept, fees |-> 0] ELSE d.assets[y]]]

\* The pool of the new asset is held.
LEMMA CreateAsset ==
    ASSUME NEW d, Good(d), NEW x \in Uias, x \notin DOMAIN d.assets, NEW kept \in Nat
    PROVE  LET e == NewAsset(d, x, kept)
           IN  /\ Good(e) /\ e.accounts = d.accounts /\ e.vestings = d.vestings /\ e.now = d.now
               /\ DOMAIN e.assets = DOMAIN d.assets \cup {x}
               /\ \A y \in DOMAIN d.assets : Gap(e, y) = Gap(d, y) - IF y = Core THEN kept ELSE 0
               /\ Gap(e, x) = 0
  <1> DEFINE D == DOMAIN d.assets
             r == [supply |-> 0, pool |-> kept, fees |-> 0]
             s == [y \in D \cup {x} |-> IF y = x THEN r ELSE d.assets[y]]
             e == [d EXCEPT !.assets = s]
  <1>1. NewAsset(d, x, kept) = e
    BY DEF NewAsset
  <1>2. /\ D \subseteq Assets /\ x \in Assets /\ x # Core /\ IsFiniteSet(D)
        /\ d.assets \in [D -> AssetData] /\ d \in Databases /\ MaxSupply[x] \in Nat
        /\ Core \in D
    BY DatabaseParts, LedgerAssumption DEF Assets, Good
  <1>3. r \in AssetData /\ r.pool = kept /\ r.supply = 0 /\ r.fees = 0
    BY DEF AssetData
  <1>4. AssetOK(x, r)
    BY <1>2, <1>3 DEF AssetOK
  <1> HIDE DEF r, D
  <1>5. /\ s \in [D \cup {x} -> AssetData] /\ DOMAIN s = D \cup {x} /\ s[x] = r
        /\ \A y \in D : s[y] = d.assets[y]
    BY <1>2, <1>3 DEF D
  <1> HIDE DEF s
  <1>6. s \in AssetTables
    BY <1>2, <1>5 DEF AssetTables
  <1>7. /\ e \in Databases /\ e.assets = s /\ e.accounts = d.accounts
        /\ e.vestings = d.vestings /\ e.now = d.now
    BY <1>2, <1>6, ReplaceParts
  <1> HIDE DEF e
  <1>8. Good(e)
    <2>1. ASSUME NEW a \in Accounts
          PROVE  AccountOK(e.accounts[a], DOMAIN e.assets, e.vestings)
      <3> DEFINE c == d.accounts[a]
      <3>1. AccountOK(c, D, d.vestings)
        BY DEF Good, D
      <3> HIDE DEF c
      <3>2. AccountOK(c, D \cup {x}, d.vestings)
        BY <3>1 DEF AccountOK
      <3> QED
        BY <1>5, <1>7, <3>2 DEF c
    <2>2. ASSUME NEW y \in DOMAIN e.assets
          PROVE  AssetOK(y, e.assets[y])
      BY <1>4, <1>5, <1>7, AssetIs DEF D
    <2>3. ASSUME NEW i \in DOMAIN e.vestings
          PROVE  VestingOK(e.vestings[i], DOMAIN e.assets, e.now)
      <3> DEFINE b == d.vestings[i]
      <3>1. VestingOK(b, D, d.now)
        BY <1>7 DEF Good, D
      <3> HIDE DEF b
      <3>2. VestingOK(b, D \cup {x}, d.now)
        BY <3>1 DEF VestingOK
      <3> QED
        BY <1>5, <1>7, <3>2 DEF b
    <2>4. 1 \in DOMAIN e.vestings /\ WorkerOK(e.vestings[1])
      BY <1>7 DEF Good
    <2> QED
      BY <1>2, <1>5, <1>7, <2>1, <2>2, <2>3, <2>4 DEF Good
  <1>9. /\ \A y : InBalances(e, y) = InBalances(d, y) /\ InVestings(e, y) = InVestings(d, y)
        /\ InPending(e) = InPending(d)
    BY <1>7 DEF InBalances, InVestings, InPending
  <1>10. InPools(e) = InPools(d) + kept
    <2> DEFINE f == [y \in D |-> d.assets[y].pool]
               g == [y \in D \cup {x} |-> s[y].pool]
    <2>1. \A y \in D : f[y] \in Nat /\ g[y] = f[y]
      BY <1>5, AssetIs DEF D
    <2>2. g[x] = kept /\ x \notin D
      BY <1>3, <1>5 DEF D
    <2>3. InPools(d) = Sum(f, D) /\ InPools(e) = Sum(g, D \cup {x})
      BY <1>5, <1>7 DEF InPools, D
    <2> HIDE DEF f, g
    <2>4. Sum(g, D \cup {x}) = Sum(g, D) + g[x]
      <3>1. \A t \in D \cup {x} : g[t] \in Nat
        BY <2>1, <2>2
      <3> QED
        BY <1>2, <2>2, <3>1, SumAdd
    <2>5. Sum(g, D) = Sum(f, D)
      BY <2>1, SumEqual
    <2> QED
      BY <2>2, <2>3, <2>4, <2>5
  <1>11. ASSUME NEW y \in D
         PROVE  Gap(e, y) = Gap(d, y) - IF y = Core THEN kept ELSE 0
    <2>1. /\ InBalances(d, y) \in Nat /\ InVestings(d, y) \in Nat /\ InPending(d) \in Nat
          /\ InPools(d) \in Nat /\ d.assets[y].supply \in Int /\ d.assets[y].fees \in Nat
      BY HeldParts, AssetIs DEF D
    <2>2. e.assets[y] = d.assets[y]
      BY <1>5, <1>7
    <2> QED
      BY <1>9, <1>10, <2>1, <2>2, GapIs
  <1>12. Gap(e, x) = 0
    <2>1. InBalances(d, x) = 0
      <3> DEFINE f == [a \in Accounts |-> d.accounts[a].balance[x]]
      <3>1. \A a \in Accounts : f[a] = 0
        <4> SUFFICES ASSUME NEW a \in Accounts
                     PROVE  d.accounts[a].balance[x] = 0
          OBVIOUS
        <4>1. AccountOK(d.accounts[a], DOMAIN d.assets, d.vestings)
          BY AccountIs
        <4> QED
          BY <1>2, <4>1 DEF AccountOK
      <3> HIDE DEF f
      <3>2. Sum(f, Accounts) = 0
        BY <3>1, SumZero
      <3> QED
        BY <3>2 DEF InBalances, f
    <2>2. InVestings(d, x) = 0
      <3> DEFINE f == [i \in DOMAIN d.vestings |->
                         IF d.vestings[i].asset = x THEN d.vestings[i].amount ELSE 0]
      <3>1. \A i \in DOMAIN d.vestings : f[i] = 0
        BY VestingParts
      <3> HIDE DEF f
      <3>2. Sum(f, DOMAIN d.vestings) = 0
        BY <3>1, SumZero
      <3> QED
        BY <3>2 DEF InVestings, f
    <2>3. e.assets[x] = r
      BY <1>5, <1>7
    <2> QED
      BY <1>2, <1>3, <1>9, <2>1, <2>2, <2>3, GapIs
  <1> QED
    BY <1>1, <1>5, <1>7, <1>8, <1>11, <1>12 DEF D

\* The fee of an operation is accounted for.
LEMMA ChargedFacts ==
    ASSUME Good(Db), NEW payer \in Accounts, NEW fee \in Assets \X Nat, NEW core \in Nat,
           fee[1] \in DOMAIN assets, fee[1] # Core => core <= assets[fee[1]].pool
    PROVE  LET e == Charged(payer, fee, core)
           IN  /\ Good(e) /\ e.vestings = vestings /\ e.now = now
               /\ DOMAIN e.assets = DOMAIN assets
               /\ \A b \in Accounts : e.accounts[b].balance = accounts[b].balance
               /\ \A y \in DOMAIN assets :
                    /\ e.assets[y].supply = assets[y].supply
                    /\ Gap(e, y) = Gap(Db, y) - IF fee[1] # Core
                                                THEN (IF y = fee[1] THEN fee[2] ELSE 0)
                                                ELSE IF y = Core THEN core ELSE 0
  <1> DEFINE d == Db
  <1>1. /\ d.accounts = accounts /\ d.assets = assets /\ d.vestings = vestings /\ d.now = now
    BY DEF Db
  <1> HIDE DEF d
  <1>2. PICK x \in Assets, n \in Nat : fee = <<x, n>>
    OBVIOUS
  <1>3. fee[1] = x /\ fee[2] = n
    BY <1>2
  <1> DEFINE e == pay_fee(convert_fee(d, <<x, n>>, core), payer, core)
  <1>4. Charged(payer, fee, core) = e
    BY <1>2 DEF Charged, d
  <1>5. Good(d) /\ x \in DOMAIN d.assets /\ (x # Core => core <= d.assets[x].pool)
    BY <1>1, <1>3 DEF d
  <1>6. /\ Good(e) /\ e.vestings = d.vestings /\ e.now = d.now
        /\ DOMAIN e.assets = DOMAIN d.assets
        /\ \A b \in Accounts : e.accounts[b].balance = d.accounts[b].balance
        /\ \A y \in DOMAIN d.assets :
             /\ e.assets[y].supply = d.assets[y].supply
             /\ Gap(e, y) = Gap(d, y) - IF x # Core THEN (IF y = x THEN n ELSE 0)
                                        ELSE IF y = Core THEN core ELSE 0
    BY <1>5, ChargeGap
  <1> HIDE DEF e
  <1> QED
    BY <1>1, <1>3, <1>4, <1>6 DEF d

\* The database after an operation.
LEMMA DbAfter ==
    ASSUME NEW d, d \in Databases, Becomes(d), now' = d.now
    PROVE  Db' = d
  <1> DEFINE A == [Accounts -> Account]
             V == Seq(VBal)
             T == AssetTables
  <1>1. d \in [accounts : A, assets : T, vestings : V, now : Nat]
    BY DEF Databases
  <1> HIDE DEF A, V, T
  <1>2. d = [accounts |-> d.accounts, assets |-> d.assets, vestings |-> d.vestings, now |-> d.now]
    BY <1>1
  <1> QED
    BY <1>2 DEF Db, Becomes

\* The fee is paid last.
LEMMA AppliedFacts ==
    ASSUME NEW d, Good(d), NEW payer \in Accounts, NEW fee \in Assets \X Nat,
           fee[1] \in DOMAIN d.assets, Applied(d, payer, fee), now' = d.now
    PROVE  /\ Good(Db') /\ assets' = d.assets /\ vestings' = d.vestings
           /\ \A y \in DOMAIN d.assets :
                Gap(Db', y) = Gap(d, y) + IF y = fee[1] THEN fee[2] ELSE 0
  <1> DEFINE x == fee[1]
             n == - fee[2]
             e == adjust_balance(d, payer, x, n)
  <1>1. /\ e.accounts[payer].balance[x] >= 0 /\ Becomes(e)
    BY DEF Applied
  <1>2. n \in Int /\ x \in DOMAIN d.assets
    OBVIOUS
  <1> HIDE DEF x, n
  <1>3. /\ e.accounts[payer].balance[x] = d.accounts[payer].balance[x] + n
    <2> DEFINE o == d.accounts[payer]
    <2>1. /\ d \in [accounts : [Accounts -> Account], assets : AssetTables, vestings : Seq(VBal),
                    now : Nat]
          /\ x \in Assets
      BY <1>2, DatabaseParts DEF Good, Databases
    <2>2. d.accounts \in [Accounts -> Account] /\ o \in Account
      BY <2>1
    <2>3. o.balance \in [Assets -> Nat]
      BY <2>2, AccountParts
    <2>4. o \in [balance : [Assets -> Nat], pending : Nat, vested : Nat, cashback : Nat, pay : Nat,
                 lifetime : BOOLEAN, registrar : Accounts, lifetime_referrer : Accounts,
                 referrer : Accounts]
      BY <2>2 DEF Account
    <2> HIDE DEF o
    <2>5. [o EXCEPT !.balance[x] = @ + n].balance[x] = o.balance[x] + n
      BY <2>1, <2>3, <2>4
    <2>6. e.accounts[payer] = [o EXCEPT !.balance[x] = @ + n]
      BY <2>1, <2>2 DEF adjust_balance, o
    <2> QED
      BY <2>5, <2>6 DEF o
  <1>4. /\ Good(e) /\ e.assets = d.assets /\ e.vestings = d.vestings /\ e.now = d.now
        /\ \A y \in DOMAIN d.assets : Gap(e, y) = Gap(d, y) - IF y = x THEN n ELSE 0
    BY <1>1, <1>2, <1>3, AdjustBalance
  <1> HIDE DEF e
  <1>5. Db' = e
    BY <1>1, <1>4, DbAfter DEF Good
  <1>6. assets' = e.assets /\ vestings' = e.vestings
    BY <1>1 DEF Becomes
  <1>7. ASSUME NEW y \in DOMAIN d.assets
        PROVE  Gap(e, y) = Gap(d, y) + IF y = fee[1] THEN fee[2] ELSE 0
    <2>1. Gap(d, y) \in Int /\ fee[2] \in Nat
      BY HeldParts
    <2> QED
      BY <1>4, <2>1 DEF x, n
  <1> QED
    BY <1>4, <1>5, <1>6, <1>7

\* The core units of a fee.
LEMMA ToCoreFacts ==
    ASSUME NEW x \in Assets, NEW n \in Nat
    PROVE  ToCore(x, n) \in Nat /\ (x = Core => ToCore(x, n) = n)
  <1>1. Rate[1] \in Nat \ {0} /\ Rate[2] \in Nat \ {0}
    BY LedgerAssumption
  <1> DEFINE m == n * Rate[1]
  <1>2. m \in Nat
    BY <1>1
  <1> HIDE DEF m
  <1>3. m \div Rate[2] \in Nat
    BY <1>1, <1>2, QuotientBounds
  <1> QED
    BY <1>3 DEF ToCore, m

\* An operation that moves units without making or losing any.
LEMMA OperationKeeps ==
    ASSUME Good(Db), NEW payer \in Accounts, NEW fee \in Assets \X Nat,
           prepare_fee(fee, ToCore(fee[1], fee[2])),
           NEW d, SameGaps(Charged(payer, fee, ToCore(fee[1], fee[2])), d),
           Applied(d, payer, fee), now' = now
    PROVE  /\ SameGaps(Db, Db') /\ assets' = d.assets /\ vestings' = d.vestings
  <1> DEFINE core == ToCore(fee[1], fee[2])
             c == Charged(payer, fee, core)
  <1>1. core \in Nat /\ (fee[1] = Core => core = fee[2])
    BY ToCoreFacts
  <1>2. fee[1] \in DOMAIN assets /\ (fee[1] # Core => core <= assets[fee[1]].pool)
    BY DEF prepare_fee
  <1> HIDE DEF core
  <1>3. /\ Good(c) /\ c.now = now /\ DOMAIN c.assets = DOMAIN assets
        /\ \A y \in DOMAIN assets :
             Gap(c, y) = Gap(Db, y) - IF fee[1] # Core
                                      THEN (IF y = fee[1] THEN fee[2] ELSE 0)
                                      ELSE IF y = Core THEN core ELSE 0
    BY <1>1, <1>2, ChargedFacts
  <1>4. SameGaps(c, d)
    BY DEF core
  <1> HIDE DEF c
  <1>5. /\ Good(d) /\ DOMAIN d.assets = DOMAIN assets /\ d.now = now
        /\ \A y \in DOMAIN assets : Gap(d, y) = Gap(c, y)
    BY <1>3, <1>4 DEF SameGaps, Inside
  <1>6. /\ Good(Db') /\ assets' = d.assets /\ vestings' = d.vestings
        /\ \A y \in DOMAIN d.assets :
             Gap(Db', y) = Gap(d, y) + IF y = fee[1] THEN fee[2] ELSE 0
    <2>1. fee[1] \in DOMAIN d.assets /\ now' = d.now
      BY <1>2, <1>5
    <2> QED
      BY <1>5, <2>1, AppliedFacts
  <1> DEFINE e == Db'
             b == Db
  <1>7. /\ e.assets = assets' /\ e.now = now' /\ b.assets = assets /\ b.now = now /\ Good(b)
        /\ Good(e)
    BY <1>6 DEF Db
  <1>8. ASSUME NEW y \in DOMAIN assets
        PROVE  Gap(e, y) = Gap(b, y)
    <2> HIDE DEF b
    <2>1. Gap(b, y) \in Int /\ fee[2] \in Nat
      BY <1>7, HeldParts
    <2>2. Gap(c, y) = Gap(b, y) - IF fee[1] # Core
                                  THEN (IF y = fee[1] THEN fee[2] ELSE 0)
                                  ELSE IF y = Core THEN core ELSE 0
      BY <1>3 DEF b
    <2>3. Gap(e, y) = Gap(c, y) + IF y = fee[1] THEN fee[2] ELSE 0
      BY <1>5, <1>6
    <2> HIDE DEF e
    <2> QED
      BY <1>1, <2>1, <2>2, <2>3
  <1> HIDE DEF e, b
  <1>9. SameGaps(b, e)
    BY <1>5, <1>6, <1>7, <1>8 DEF SameGaps, Inside
  <1> QED
    BY <1>6, <1>9 DEF e, b

-----------------------------------------------------------------------------
(* What the evaluators do besides the fee *)

\* Units leave an account.
LEMMA Take ==
    ASSUME NEW d, Good(d), NEW a \in Accounts, NEW x \in DOMAIN d.assets, NEW n \in Nat,
           d.accounts[a].balance[x] >= n
    PROVE  LET e == adjust_balance(d, a, x, - n)
           IN  /\ Good(e) /\ e.assets = d.assets /\ e.vestings = d.vestings /\ e.now = d.now
               /\ \A y \in DOMAIN d.assets : Gap(e, y) = Gap(d, y) + IF y = x THEN n ELSE 0
  <1> DEFINE m == - n
             e == adjust_balance(d, a, x, m)
  <1>1. m \in Int /\ d.accounts[a].balance[x] + m >= 0
    BY AccountIs
  <1> HIDE DEF m
  <1>2. /\ Good(e) /\ e.assets = d.assets /\ e.vestings = d.vestings /\ e.now = d.now
        /\ \A y \in DOMAIN d.assets : Gap(e, y) = Gap(d, y) - IF y = x THEN m ELSE 0
    BY <1>1, AdjustBalance
  <1>3. \A y \in DOMAIN d.assets : Gap(d, y) \in Int
    BY HeldParts
  <1> HIDE DEF e
  <1>4. \A y \in DOMAIN d.assets : Gap(e, y) = Gap(d, y) + IF y = x THEN n ELSE 0
    BY <1>2, <1>3 DEF m
  <1> QED
    BY <1>2, <1>4 DEF e, m

\* Units come to an account.
LEMMA Give ==
    ASSUME NEW d, Good(d), NEW a \in Accounts, NEW x \in DOMAIN d.assets, NEW n \in Nat
    PROVE  LET e == adjust_balance(d, a, x, n)
           IN  /\ Good(e) /\ e.assets = d.assets /\ e.vestings = d.vestings /\ e.now = d.now
               /\ \A y \in DOMAIN d.assets : Gap(e, y) = Gap(d, y) - IF y = x THEN n ELSE 0
  <1>1. n \in Int /\ d.accounts[a].balance[x] + n >= 0
    BY AccountIs
  <1> QED
    BY <1>1, AdjustBalance

\* A transfer.
LEMMA Move ==
    ASSUME NEW d, Good(d), NEW from \in Accounts, NEW to \in Accounts, NEW x \in DOMAIN d.assets,
           NEW n \in Nat, d.accounts[from].balance[x] >= n
    PROVE  SameGaps(d, adjust_balance(adjust_balance(d, from, x, - n), to, x, n))
  <1> DEFINE e == adjust_balance(d, from, x, - n)
             f == adjust_balance(e, to, x, n)
  <1>1. /\ Good(e) /\ e.assets = d.assets /\ e.now = d.now
        /\ \A y \in DOMAIN d.assets : Gap(e, y) = Gap(d, y) + IF y = x THEN n ELSE 0
    BY Take
  <1> HIDE DEF e
  <1>2. /\ Good(f) /\ f.assets = e.assets /\ f.now = e.now
        /\ \A y \in DOMAIN e.assets : Gap(f, y) = Gap(e, y) - IF y = x THEN n ELSE 0
    <2>1. x \in DOMAIN e.assets
      BY <1>1
    <2> QED
      BY <1>1, <2>1, Give
  <1>3. \A y \in DOMAIN d.assets : Gap(d, y) \in Int
    BY HeldParts
  <1> HIDE DEF f
  <1>4. SameGaps(d, f)
    BY <1>1, <1>2, <1>3 DEF SameGaps, Inside
  <1> QED
    BY <1>4 DEF e, f

\* asset_issue.
LEMMA Issue ==
    ASSUME NEW d, Good(d), NEW to \in Accounts, NEW x \in DOMAIN d.assets,
           NEW n \in Nat, d.assets[x].supply + n <= MaxSupply[x]
    PROVE  SameGaps(d, [adjust_balance(d, to, x, n) EXCEPT !.assets[x].supply = @ + n])
  <1> DEFINE e == adjust_balance(d, to, x, n)
             f == AddSupply(e, x, n)
  <1>1. /\ Good(e) /\ e.assets = d.assets /\ e.now = d.now
        /\ \A y \in DOMAIN d.assets : Gap(e, y) = Gap(d, y) - IF y = x THEN n ELSE 0
    BY Give
  <1> HIDE DEF e
  <1>2. /\ Good(f) /\ DOMAIN f.assets = DOMAIN e.assets /\ f.now = e.now
        /\ \A y \in DOMAIN e.assets : Gap(f, y) = Gap(e, y) + IF y = x THEN n ELSE 0
    <2>1. x \in DOMAIN e.assets /\ n \in Int /\ e.assets[x].supply + n <= MaxSupply[x]
      BY <1>1
    <2> QED
      BY <1>1, <2>1, SetSupply
  <1>3. \A y \in DOMAIN d.assets : Gap(d, y) \in Int
    BY HeldParts
  <1> HIDE DEF f
  <1>4. SameGaps(d, f)
    BY <1>1, <1>2, <1>3 DEF SameGaps, Inside
  <1> QED
    BY <1>4 DEF e, f, AddSupply

\* asset_reserve.
LEMMA Reserve ==
    ASSUME NEW d, Good(d), NEW a \in Accounts, NEW x \in DOMAIN d.assets,
           NEW n \in Nat, d.accounts[a].balance[x] >= n
    PROVE  SameGaps(d, [adjust_balance(d, a, x, - n) EXCEPT !.assets[x].supply = @ - n])
  <1> DEFINE e == adjust_balance(d, a, x, - n)
             m == - n
             f == AddSupply(e, x, m)
  <1>1. /\ Good(e) /\ e.assets = d.assets /\ e.now = d.now
        /\ \A y \in DOMAIN d.assets : Gap(e, y) = Gap(d, y) + IF y = x THEN n ELSE 0
    BY Take
  <1> HIDE DEF e
  <1>2. /\ x \in DOMAIN e.assets /\ m \in Int /\ e.assets[x].supply \in Int
        /\ e.assets[x].supply + m <= MaxSupply[x] /\ e.assets[x].supply - n = e.assets[x].supply + m
    BY <1>1, AssetIs
  <1>3. [e EXCEPT !.assets[x].supply = @ - n] = f
    <2> HIDE DEF m
    <2> QED
      BY <1>2 DEF AddSupply
  <1> HIDE DEF m
  <1>4. /\ Good(f) /\ DOMAIN f.assets = DOMAIN e.assets /\ f.now = e.now
        /\ \A y \in DOMAIN e.assets : Gap(f, y) = Gap(e, y) + IF y = x THEN m ELSE 0
    BY <1>1, <1>2, SetSupply
  <1>5. \A y \in DOMAIN d.assets : Gap(d, y) \in Int
    BY HeldParts
  <1> HIDE DEF f
  <1>6. \A y \in DOMAIN d.assets : Gap(f, y) = Gap(d, y)
    BY <1>1, <1>4, <1>5 DEF m
  <1>7. SameGaps(d, f)
    BY <1>1, <1>4, <1>6 DEF SameGaps, Inside
  <1> QED
    BY <1>3, <1>7 DEF e

\* asset_fund_fee_pool.
LEMMA FundPool ==
    ASSUME NEW d, Good(d), NEW a \in Accounts, NEW x \in DOMAIN d.assets,
           NEW n \in Nat, d.accounts[a].balance[Core] >= n
    PROVE  SameGaps(d, [adjust_balance(d, a, Core, - n) EXCEPT !.assets[x].pool = @ + n])
  <1> DEFINE e == adjust_balance(d, a, Core, - n)
             f == AddPool(e, x, n)
  <1>1. /\ Good(e) /\ e.assets = d.assets /\ e.now = d.now
        /\ \A y \in DOMAIN d.assets : Gap(e, y) = Gap(d, y) + IF y = Core THEN n ELSE 0
    <2>1. Core \in DOMAIN d.assets
      BY DEF Good
    <2> QED
      BY <2>1, Take
  <1> HIDE DEF e
  <1>2. /\ Good(f) /\ DOMAIN f.assets = DOMAIN e.assets /\ f.now = e.now
        /\ \A y \in DOMAIN e.assets : Gap(f, y) = Gap(e, y) - IF y = Core THEN n ELSE 0
    <2>1. x \in DOMAIN e.assets /\ n \in Int /\ e.assets[x].pool + n >= 0
      BY <1>1, AssetIs
    <2> QED
      BY <1>1, <2>1, SetPool
  <1>3. \A y \in DOMAIN d.assets : Gap(d, y) \in Int
    BY HeldParts
  <1> HIDE DEF f
  <1>4. SameGaps(d, f)
    BY <1>1, <1>2, <1>3 DEF SameGaps, Inside
  <1> QED
    BY <1>4 DEF e, f, AddPool

\* asset_claim_fees.
LEMMA ClaimFees ==
    ASSUME NEW d, Good(d), NEW a \in Accounts, NEW x \in DOMAIN d.assets,
           NEW n \in Nat, d.assets[x].fees >= n
    PROVE  SameGaps(d, [adjust_balance(d, a, x, n) EXCEPT !.assets[x].fees = @ - n])
  <1> DEFINE e == adjust_balance(d, a, x, n)
             m == - n
             f == AddFees(e, x, m)
  <1>1. /\ Good(e) /\ e.assets = d.assets /\ e.now = d.now
        /\ \A y \in DOMAIN d.assets : Gap(e, y) = Gap(d, y) - IF y = x THEN n ELSE 0
    BY Give
  <1> HIDE DEF e
  <1>2. /\ x \in DOMAIN e.assets /\ m \in Int /\ e.assets[x].fees \in Nat
        /\ e.assets[x].fees + m >= 0 /\ e.assets[x].fees - n = e.assets[x].fees + m
    BY <1>1, AssetIs
  <1>3. [e EXCEPT !.assets[x].fees = @ - n] = f
    <2> HIDE DEF m
    <2> QED
      BY <1>2 DEF AddFees
  <1> HIDE DEF m
  <1>4. /\ Good(f) /\ DOMAIN f.assets = DOMAIN e.assets /\ f.now = e.now
        /\ \A y \in DOMAIN e.assets : Gap(f, y) = Gap(e, y) - IF y = x THEN m ELSE 0
    BY <1>1, <1>2, SetFees
  <1>5. \A y \in DOMAIN d.assets : Gap(d, y) \in Int
    BY HeldParts
  <1> HIDE DEF f
  <1>6. \A y \in DOMAIN d.assets : Gap(f, y) = Gap(d, y)
    BY <1>1, <1>4, <1>5 DEF m
  <1>7. SameGaps(d, f)
    BY <1>1, <1>4, <1>6 DEF SameGaps, Inside
  <1> QED
    BY <1>3, <1>7 DEF e

\* vesting_balance_create.
LEMMA CreateVesting ==
    ASSUME NEW d, Good(d), NEW a \in Accounts, NEW x \in DOMAIN d.assets,
           NEW n \in Nat, d.accounts[a].balance[x] >= n,
           NEW b \in VBal, Vests(b, d.now), b.asset = x, b.amount = n
    PROVE  SameGaps(d, AddVesting(adjust_balance(d, a, x, - n), b))
  <1> DEFINE e == adjust_balance(d, a, x, - n)
             f == AddVesting(e, b)
  <1>1. /\ Good(e) /\ e.assets = d.assets /\ e.now = d.now
        /\ \A y \in DOMAIN d.assets : Gap(e, y) = Gap(d, y) + IF y = x THEN n ELSE 0
    BY Take
  <1> HIDE DEF e
  <1>2. /\ Good(f) /\ f.assets = e.assets /\ f.now = e.now
        /\ \A y \in DOMAIN e.assets : Gap(f, y) = Gap(e, y) - IF y # b.asset THEN 0 ELSE b.amount
    <2>1. Vests(b, e.now) /\ b.asset \in DOMAIN e.assets
      BY <1>1
    <2> QED
      BY <1>1, <2>1, AddVestingGap
  <1>3. \A y \in DOMAIN d.assets : Gap(d, y) \in Int
    BY HeldParts
  <1> HIDE DEF f
  <1>4. SameGaps(d, f)
    BY <1>1, <1>2, <1>3 DEF SameGaps, Inside
  <1> QED
    BY <1>4 DEF e, f

\* vesting_balance_withdraw.
LEMMA DrawVesting ==
    ASSUME NEW d, Good(d), NEW id \in DOMAIN d.vestings, NEW n \in Nat,
           n <= get_allowed_withdraw(d.vestings[id], d.now)
    PROVE  SameGaps(d, [adjust_balance(d, d.vestings[id].owner, d.vestings[id].asset, n)
                          EXCEPT !.vestings[id] = withdraw(@, d.now, n)])
  <1> DEFINE b == d.vestings[id]
             x == b.asset
             a == b.owner
             e == adjust_balance(d, a, x, n)
             r == withdraw(b, d.now, n)
             f == SetVesting(e, id, r)
  <1>1. /\ b \in VBal /\ Vests(b, d.now) /\ b.amount \in Nat /\ x \in DOMAIN d.assets
        /\ a \in Accounts /\ d.now \in Nat
    BY VestingParts, DatabaseParts
  <1> HIDE DEF x, a
  <1>2. /\ Good(e) /\ e.assets = d.assets /\ e.vestings = d.vestings /\ e.now = d.now
        /\ \A y \in DOMAIN d.assets : Gap(e, y) = Gap(d, y) - IF y = x THEN n ELSE 0
    BY <1>1, Give
  <1> HIDE DEF e
  <1>3. [e EXCEPT !.vestings[id] = withdraw(@, d.now, n)] = f
    BY <1>2 DEF SetVesting
  <1>4. n <= get_allowed_withdraw(b, d.now)
    OBVIOUS
  <1> HIDE DEF b
  <1>5. /\ r \in VBal /\ Vests(r, d.now) /\ r.policy.kind = b.policy.kind
        /\ r.asset = b.asset /\ n <= b.amount /\ r.amount = b.amount - n
    BY <1>1, <1>4, WithdrawVests
  <1> HIDE DEF r
  <1>6. /\ Good(f) /\ f.assets = e.assets /\ f.now = e.now
        /\ \A y \in DOMAIN e.assets :
             Gap(f, y) = Gap(e, y) - IF y # b.asset THEN 0 ELSE r.amount - b.amount
    <2>1. id \in DOMAIN e.vestings /\ e.vestings[id] = b
      BY <1>2 DEF b
    <2>2. Vests(r, e.now) /\ r.asset = e.vestings[id].asset
          /\ r.policy.kind = e.vestings[id].policy.kind
      BY <1>2, <1>5, <2>1
    <2>3. /\ Good(f) /\ f.assets = e.assets /\ f.now = e.now
          /\ \A y \in DOMAIN e.assets :
               Gap(f, y) = Gap(e, y) - IF y # e.vestings[id].asset THEN 0
                                       ELSE r.amount - e.vestings[id].amount
      BY <1>2, <1>5, <2>1, <2>2, SetVestingGap
    <2> HIDE DEF f
    <2> QED
      BY <2>1, <2>3
  <1>7. \A y \in DOMAIN d.assets : Gap(d, y) \in Int
    BY HeldParts
  <1> HIDE DEF f
  <1>8. \A y \in DOMAIN d.assets : Gap(f, y) = Gap(d, y)
    BY <1>1, <1>2, <1>5, <1>6, <1>7 DEF x
  <1>9. SameGaps(d, f)
    BY <1>2, <1>6, <1>8 DEF SameGaps, Inside
  <1> QED
    BY <1>3, <1>9 DEF e, x, a, b

\* Something of an account that is no money changes.
LEMMA SetRole ==
    ASSUME NEW d, Good(d), NEW a \in Accounts, NEW r,
           AccountOK(r, DOMAIN d.assets, d.vestings), r.balance = d.accounts[a].balance,
           r.pending = d.accounts[a].pending, r.vested = d.accounts[a].vested
    PROVE  SameGaps(d, SetAccount(d, a, r))
  <1> DEFINE e == SetAccount(d, a, r)
             o == d.accounts[a]
  <1>1. /\ Good(e) /\ e.assets = d.assets /\ e.now = d.now
        /\ \A x \in DOMAIN d.assets :
             Gap(e, x) = Gap(d, x) - IF x # Core THEN 0
                                     ELSE (r.pending + r.vested) - (o.pending + o.vested)
    BY SetStatus
  <1>2. /\ o.pending \in Nat /\ o.vested \in Nat /\ \A x \in DOMAIN d.assets : Gap(d, x) \in Int
    BY AccountIs, HeldParts
  <1> HIDE DEF e, o
  <1>3. r.pending = o.pending /\ r.vested = o.vested
    BY DEF o
  <1>4. \A x \in DOMAIN d.assets : Gap(e, x) = Gap(d, x)
    BY <1>1, <1>2, <1>3
  <1> QED
    BY <1>1, <1>4 DEF SameGaps, Inside, e

\* Changes that keep the gaps follow each other.
LEMMA SameGapsTrans ==
    ASSUME NEW d, NEW e, NEW f, SameGaps(d, e), SameGaps(e, f)
    PROVE  SameGaps(d, f)
  BY DEF SameGaps, Inside

\* account_upgrade.
LEMMA Upgrade ==
    ASSUME NEW d, Good(d), NEW a \in Accounts, cashback_period \in Nat
    PROVE  SameGaps(d, [process_fees(d, a) EXCEPT !.accounts[a].lifetime = TRUE,
                          !.accounts[a].registrar = a, !.accounts[a].referrer = a,
                          !.accounts[a].lifetime_referrer = a])
  <1> DEFINE e == process_fees(d, a)
             r1 == [e.accounts[a] EXCEPT !.lifetime = TRUE]
             e1 == SetAccount(e, a, r1)
             r2 == [e1.accounts[a] EXCEPT !.registrar = a]
             e2 == SetAccount(e1, a, r2)
             r3 == [e2.accounts[a] EXCEPT !.referrer = a]
             e3 == SetAccount(e2, a, r3)
             r4 == [e3.accounts[a] EXCEPT !.lifetime_referrer = a]
             e4 == SetAccount(e3, a, r4)
  <1>1. SameGaps(d, e)
    BY ProcessFees DEF SameGaps
  <1>2. [e EXCEPT !.accounts[a].lifetime = TRUE,
                  !.accounts[a].registrar = a, !.accounts[a].referrer = a,
                  !.accounts[a].lifetime_referrer = a] = e4
    BY DEF SetAccount
  <1> HIDE DEF e
  <1>3. SameGaps(e, e1)
    <2>1. Good(e)
      BY <1>1 DEF SameGaps, Inside
    <2> DEFINE o == e.accounts[a]
    <2>2. AccountOK(o, DOMAIN e.assets, e.vestings)
      BY <2>1, AccountIs
    <2> DEFINE P(r) == /\ AccountOK(r, DOMAIN e.assets, e.vestings) /\ r.balance = o.balance
                       /\ r.pending = o.pending /\ r.vested = o.vested
    <2> HIDE DEF o
    <2>3. \A l \in BOOLEAN : P([o EXCEPT !.lifetime = l])
      BY <2>2, SetStatistics
    <2>4. P([o EXCEPT !.lifetime = TRUE])
      <3> HIDE DEF P
      <3> QED
        BY <2>3, Zenon
    <2> QED
      BY <2>1, <2>4, SetRole DEF o
  <1> HIDE DEF e1
  <1>4. SameGaps(e1, e2)
    <2>1. Good(e1)
      BY <1>3 DEF SameGaps, Inside
    <2> DEFINE o == e1.accounts[a]
    <2>2. AccountOK(o, DOMAIN e1.assets, e1.vestings)
      BY <2>1, AccountIs
    <2> HIDE DEF o
    <2>3. LET r == [o EXCEPT !.registrar = a]
          IN  /\ AccountOK(r, DOMAIN e1.assets, e1.vestings) /\ r.balance = o.balance
              /\ r.pending = o.pending /\ r.vested = o.vested
      BY <2>2, SetStatistics
    <2> QED
      BY <2>1, <2>3, SetRole DEF o
  <1> HIDE DEF e2
  <1>5. SameGaps(e2, e3)
    <2>1. Good(e2)
      BY <1>4 DEF SameGaps, Inside
    <2> DEFINE o == e2.accounts[a]
    <2>2. AccountOK(o, DOMAIN e2.assets, e2.vestings)
      BY <2>1, AccountIs
    <2> HIDE DEF o
    <2>3. LET r == [o EXCEPT !.referrer = a]
          IN  /\ AccountOK(r, DOMAIN e2.assets, e2.vestings) /\ r.balance = o.balance
              /\ r.pending = o.pending /\ r.vested = o.vested
      BY <2>2, SetStatistics
    <2> QED
      BY <2>1, <2>3, SetRole DEF o
  <1> HIDE DEF e3
  <1>6. SameGaps(e3, e4)
    <2>1. Good(e3)
      BY <1>5 DEF SameGaps, Inside
    <2> DEFINE o == e3.accounts[a]
    <2>2. AccountOK(o, DOMAIN e3.assets, e3.vestings)
      BY <2>1, AccountIs
    <2> HIDE DEF o
    <2>3. LET r == [o EXCEPT !.lifetime_referrer = a]
          IN  /\ AccountOK(r, DOMAIN e3.assets, e3.vestings) /\ r.balance = o.balance
              /\ r.pending = o.pending /\ r.vested = o.vested
      BY <2>2, SetStatistics
    <2> QED
      BY <2>1, <2>3, SetRole DEF o
  <1> HIDE DEF e4
  <1>7. SameGaps(d, e4)
    <2>1. SameGaps(d, e1)
      BY <1>1, <1>3, SameGapsTrans
    <2>2. SameGaps(d, e2)
      BY <1>4, <2>1, SameGapsTrans
    <2>3. SameGaps(d, e3)
      BY <1>5, <2>2, SameGapsTrans
    <2> QED
      BY <1>6, <2>3, SameGapsTrans
  <1> QED
    BY <1>2, <1>7 DEF e

-----------------------------------------------------------------------------
(* The operations *)

FeeSets == SUBSET (Assets \X Nat)

\* The fees that operations pay.
LEMMA FeesAre ==
    /\ Fees \in FeeSets /\ CreateFees \in FeeSets /\ {fee \in Fees : fee[1] = Core} \in FeeSets
    /\ \A S \in FeeSets : \A fee \in S : fee \in Assets \X Nat
  BY LedgerAssumption DEF FeeSets

\* Before the operation itself: the fee is held, and not yet taken.
LEMMA FeeCharged ==
    ASSUME Good(Db), NEW payer \in Accounts, NEW fee \in Assets \X Nat,
           prepare_fee(fee, ToCore(fee[1], fee[2]))
    PROVE  LET c == Charged(payer, fee, ToCore(fee[1], fee[2]))
           IN  /\ Good(c) /\ c.vestings = vestings /\ c.now = now
               /\ DOMAIN c.assets = DOMAIN assets
               /\ \A b \in Accounts : c.accounts[b].balance = accounts[b].balance
               /\ \A y \in DOMAIN assets : c.assets[y].supply = assets[y].supply
  <1> DEFINE core == ToCore(fee[1], fee[2])
  <1>1. core \in Nat
    BY ToCoreFacts
  <1>2. fee[1] \in DOMAIN assets /\ (fee[1] # Core => core <= assets[fee[1]].pool)
    BY DEF prepare_fee
  <1> HIDE DEF core
  <1>3. LET c == Charged(payer, fee, core)
        IN  /\ Good(c) /\ c.vestings = vestings /\ c.now = now
            /\ DOMAIN c.assets = DOMAIN assets
            /\ \A b \in Accounts : c.accounts[b].balance = accounts[b].balance
            /\ \A y \in DOMAIN assets : c.assets[y].supply = assets[y].supply
    BY <1>1, <1>2, ChargedFacts
  <1> QED
    BY <1>3 DEF core

\* Each operation leaves the gaps as they are: the transfers,
LEMMA TransferStep ==
    ASSUME Good(Db), NEW from \in User, NEW to \in User, NEW x, NEW n \in Nat,
           transfer(from, to, x, n)
    PROVE  SameGaps(Db, Db')
  <1>1. PICK fee \in Fees :
            /\ prepare_fee(fee, ToCore(fee[1], fee[2]))
            /\ Applied(adjust_balance(adjust_balance(
                          Charged(from, fee, ToCore(fee[1], fee[2])), from, x, - n), to, x, n),
                       from, fee)
    BY DEF transfer, Operation, OperationFor, Evaluate
  <1> DEFINE c == Charged(from, fee, ToCore(fee[1], fee[2]))
             d == adjust_balance(adjust_balance(c, from, x, - n), to, x, n)
  <1>2. /\ x \in DOMAIN assets /\ accounts[from].balance[x] >= n /\ now' = now
        /\ from \in Accounts /\ to \in Accounts /\ fee \in Assets \X Nat
    BY FeesAre DEF transfer, Balance, Operation, OperationFor, blockUnchanged, User
  <1>3. /\ Good(c) /\ x \in DOMAIN c.assets /\ c.accounts[from].balance[x] >= n
    BY <1>1, <1>2, FeeCharged
  <1>4. SameGaps(c, d)
    <2> HIDE DEF c
    <2> QED
      BY <1>2, <1>3, Move
  <1> HIDE DEF d
  <1> QED
    BY <1>1, <1>2, <1>4, OperationKeeps DEF d

LEMMA OverrideStep ==
    ASSUME Good(Db), NEW from \in User, NEW to \in User, NEW x, NEW n \in Nat,
           override_transfer(from, to, x, n)
    PROVE  SameGaps(Db, Db')
  <1> DEFINE payer == Issuer[x]
  <1>1. PICK fee \in Fees :
            /\ prepare_fee(fee, ToCore(fee[1], fee[2]))
            /\ Applied(adjust_balance(adjust_balance(
                          Charged(payer, fee, ToCore(fee[1], fee[2])), from, x, - n), to, x, n),
                       payer, fee)
    BY DEF override_transfer, Operation, OperationFor, Evaluate
  <1> DEFINE c == Charged(payer, fee, ToCore(fee[1], fee[2]))
             d == adjust_balance(adjust_balance(c, from, x, - n), to, x, n)
  <1>2. /\ x \in DOMAIN assets /\ x # Core /\ accounts[from].balance[x] >= n /\ now' = now
        /\ from \in Accounts /\ to \in Accounts /\ fee \in Assets \X Nat
    BY FeesAre DEF override_transfer, Balance, Operation, OperationFor, blockUnchanged, User
  <1>3. payer \in Accounts
    <2>1. DOMAIN assets \subseteq Assets
      BY DatabaseParts DEF Db
    <2> QED
      BY <1>2, <2>1, LedgerAssumption DEF Assets, User
  <1> HIDE DEF payer
  <1>4. /\ Good(c) /\ x \in DOMAIN c.assets /\ c.accounts[from].balance[x] >= n
    BY <1>1, <1>2, <1>3, FeeCharged
  <1>5. SameGaps(c, d)
    <2> HIDE DEF c
    <2> QED
      BY <1>2, <1>4, Move
  <1> HIDE DEF d
  <1> QED
    BY <1>1, <1>2, <1>3, <1>5, OperationKeeps DEF d

\* The issuer is an account.
LEMMA IssuerIs ==
    ASSUME Good(Db), NEW x \in DOMAIN assets, x # Core
    PROVE  Issuer[x] \in Accounts
  <1>1. DOMAIN assets \subseteq Assets
    BY DatabaseParts DEF Db
  <1> QED
    BY <1>1, LedgerAssumption DEF Assets, User

\* the ones of the issuer and of the holder,
LEMMA IssueStep ==
    ASSUME Good(Db), NEW x, NEW to \in User, NEW n \in Nat, asset_issue(x, to, n)
    PROVE  SameGaps(Db, Db')
  <1> DEFINE payer == Issuer[x]
  <1>1. PICK fee \in Fees :
            /\ prepare_fee(fee, ToCore(fee[1], fee[2]))
            /\ Applied([adjust_balance(Charged(payer, fee, ToCore(fee[1], fee[2])), to, x, n)
                          EXCEPT !.assets[x].supply = @ + n], payer, fee)
    BY DEF asset_issue, Operation, OperationFor, Evaluate
  <1> DEFINE c == Charged(payer, fee, ToCore(fee[1], fee[2]))
             d == [adjust_balance(c, to, x, n) EXCEPT !.assets[x].supply = @ + n]
  <1>2. /\ x \in DOMAIN assets /\ assets[x].supply + n <= MaxSupply[x] /\ now' = now
        /\ to \in Accounts /\ fee \in Assets \X Nat /\ payer \in Accounts
    BY FeesAre, IssuerIs DEF asset_issue, Operation, OperationFor, blockUnchanged, User
  <1> HIDE DEF payer
  <1>3. /\ Good(c) /\ x \in DOMAIN c.assets /\ c.assets[x].supply + n <= MaxSupply[x]
    BY <1>1, <1>2, FeeCharged
  <1>4. SameGaps(c, d)
    <2> HIDE DEF c
    <2> QED
      BY <1>2, <1>3, Issue
  <1> HIDE DEF d
  <1> QED
    BY <1>1, <1>2, <1>4, OperationKeeps DEF d

LEMMA ReserveStep ==
    ASSUME Good(Db), NEW a \in User, NEW x, NEW n \in Nat, asset_reserve(a, x, n)
    PROVE  SameGaps(Db, Db')
  <1>1. PICK fee \in Fees :
            /\ prepare_fee(fee, ToCore(fee[1], fee[2]))
            /\ Applied([adjust_balance(Charged(a, fee, ToCore(fee[1], fee[2])), a, x, - n)
                          EXCEPT !.assets[x].supply = @ - n], a, fee)
    BY DEF asset_reserve, Operation, OperationFor, Evaluate
  <1> DEFINE c == Charged(a, fee, ToCore(fee[1], fee[2]))
             d == [adjust_balance(c, a, x, - n) EXCEPT !.assets[x].supply = @ - n]
  <1>2. /\ x \in DOMAIN assets /\ accounts[a].balance[x] >= n /\ now' = now
        /\ a \in Accounts /\ fee \in Assets \X Nat
    BY FeesAre DEF asset_reserve, Balance, Operation, OperationFor, blockUnchanged, User
  <1>3. /\ Good(c) /\ x \in DOMAIN c.assets /\ c.accounts[a].balance[x] >= n
    BY <1>1, <1>2, FeeCharged
  <1>4. SameGaps(c, d)
    <2> HIDE DEF c
    <2> QED
      BY <1>2, <1>3, Reserve
  <1> HIDE DEF d
  <1> QED
    BY <1>1, <1>2, <1>4, OperationKeeps DEF d

LEMMA FundStep ==
    ASSUME Good(Db), NEW a \in User, NEW x, NEW n \in Nat, asset_fund_fee_pool(a, x, n)
    PROVE  SameGaps(Db, Db')
  <1>1. PICK fee \in {f \in Fees : f[1] = Core} :
            /\ prepare_fee(fee, ToCore(fee[1], fee[2]))
            /\ Applied([adjust_balance(Charged(a, fee, ToCore(fee[1], fee[2])), a, Core, - n)
                          EXCEPT !.assets[x].pool = @ + n], a, fee)
    BY DEF asset_fund_fee_pool, OperationFor, Evaluate
  <1> DEFINE c == Charged(a, fee, ToCore(fee[1], fee[2]))
             d == [adjust_balance(c, a, Core, - n) EXCEPT !.assets[x].pool = @ + n]
  <1>2. /\ x \in DOMAIN assets /\ accounts[a].balance[Core] >= n /\ now' = now
        /\ a \in Accounts /\ fee \in Assets \X Nat
    BY FeesAre DEF asset_fund_fee_pool, Balance, OperationFor, blockUnchanged, User
  <1>3. /\ Good(c) /\ x \in DOMAIN c.assets /\ c.accounts[a].balance[Core] >= n
    BY <1>1, <1>2, FeeCharged
  <1>4. SameGaps(c, d)
    <2> HIDE DEF c
    <2> QED
      BY <1>2, <1>3, FundPool
  <1> HIDE DEF d
  <1> QED
    BY <1>1, <1>2, <1>4, OperationKeeps DEF d

LEMMA ClaimFeesStep ==
    ASSUME Good(Db), NEW x, NEW n \in Nat, asset_claim_fees(x, n)
    PROVE  SameGaps(Db, Db')
  <1> DEFINE payer == Issuer[x]
  <1>1. PICK fee \in Fees :
            /\ prepare_fee(fee, ToCore(fee[1], fee[2]))
            /\ Applied([adjust_balance(Charged(payer, fee, ToCore(fee[1], fee[2])), payer, x, n)
                          EXCEPT !.assets[x].fees = @ - n], payer, fee)
    BY DEF asset_claim_fees, Operation, OperationFor, Evaluate
  <1> DEFINE c == Charged(payer, fee, ToCore(fee[1], fee[2]))
             g == adjust_balance(c, payer, x, n)
             d == [g EXCEPT !.assets[x].fees = @ - n]
  <1>2. /\ x \in DOMAIN assets /\ now' = now /\ assets'[x].fees >= 0
        /\ fee \in Assets \X Nat /\ payer \in Accounts
    BY FeesAre, IssuerIs DEF asset_claim_fees, Operation, OperationFor, blockUnchanged, User
  <1> HIDE DEF payer
  <1>3. /\ Good(c) /\ x \in DOMAIN c.assets
    BY <1>1, <1>2, FeeCharged
  <1> HIDE DEF c
  <1>4. Good(g) /\ g.assets = c.assets
    BY <1>2, <1>3, Give
  <1> HIDE DEF g
  <1>5. c.assets[x].fees >= n
    <2>1. /\ g \in Databases /\ g.assets \in [DOMAIN g.assets -> AssetData] /\ x \in DOMAIN g.assets
          /\ g.assets[x].fees \in Nat
      BY <1>3, <1>4, DatabaseParts, AssetIs DEF Good
    <2>2. d.assets[x].fees = g.assets[x].fees - n
      BY <2>1 DEF Databases, AssetData
    <2>3. assets' = adjust_balance(d, payer, fee[1], - fee[2]).assets
      BY <1>1 DEF Applied, Becomes, c, g
    <2>4. adjust_balance(d, payer, fee[1], - fee[2]).assets = d.assets
      BY <2>1 DEF adjust_balance, Databases
    <2> HIDE DEF d
    <2>5. assets' = d.assets
      BY <2>3, <2>4
    <2>6. g.assets[x].fees - n >= 0
      BY <1>2, <2>2, <2>5
    <2> QED
      BY <1>4, <2>1, <2>6
  <1>6. SameGaps(c, d)
    BY <1>2, <1>3, <1>5, ClaimFees DEF g
  <1>7. SameGaps(Charged(payer, fee, ToCore(fee[1], fee[2])), d)
    BY <1>6 DEF c
  <1>8. Applied(d, payer, fee)
    BY <1>1 DEF c, g
  <1> HIDE DEF d
  <1> QED
    BY <1>1, <1>2, <1>7, <1>8, OperationKeeps

\* What the creator of a vesting balance asks for.
LEMMA NewVests ==
    ASSUME NEW owner \in Accounts, NEW x \in Assets, NEW n \in Nat, NEW p \in Policies, now \in Nat
    PROVE  LET b == VestingBalance(owner, x, n, Policy(p, n), 0, now)
           IN  b \in VBal /\ Vests(b, now) /\ b.asset = x /\ b.amount = n
  <1>1. p \in {"cdd", "linear"} \X Nat \X Nat \X Nat
    BY InputsAssumption
  <1> DEFINE begin == p[2]
             cliff == p[3]
             seconds == p[4]
  <1>2. begin \in Nat /\ cliff \in Nat /\ seconds \in Nat /\ p[1] \in {"cdd", "linear"}
    BY <1>1
  <1>3. CASE p[1] = "cdd"
    <2> DEFINE b == VestingBalance(owner, x, n, Cdd(seconds, 0, now, begin), 0, now)
    <2>1. VestingBalance(owner, x, n, Policy(p, n), 0, now) = b
      BY <1>3 DEF Policy
    <2> HIDE DEF begin, cliff, seconds
    <2>2. AtMost(0, 0, seconds) /\ 0 \in Nat /\ 0 <= n
      BY <1>2 DEF AtMost
    <2>3. \A e, free \in Nat : AtMost(e, free, seconds) /\ free <= n =>
             LET q == VestingBalance(owner, x, n, Cdd(seconds, e, now, begin), free, now)
             IN  q \in VBal /\ Vests(q, now) /\ q.asset = x /\ q.amount = n
      <3>1. ASSUME NEW e \in Nat, NEW free \in Nat, AtMost(e, free, seconds), free <= n,
                   NEW q, q = VestingBalance(owner, x, n, Cdd(seconds, e, now, begin), free, now)
            PROVE  q \in VBal /\ Vests(q, now) /\ q.asset = x /\ q.amount = n
        BY <1>2, <3>1, NewCdd, SMTT(20)
      <3> QED
        BY <3>1, Zenon
    <2>4. b \in VBal /\ Vests(b, now) /\ b.asset = x /\ b.amount = n
      BY <2>2, <2>3, Zenon
    <2> QED
      BY <2>1, <2>4
  <1>4. CASE p[1] = "linear"
    <2> DEFINE b == VestingBalance(owner, x, n, Linear(begin, cliff, seconds, n), 0, now)
    <2>1. VestingBalance(owner, x, n, Policy(p, n), 0, now) = b
      BY <1>4 DEF Policy
    <2>2. \A s, t, u \in Nat :
             LET q == VestingBalance(owner, x, n, Linear(s, t, u, n), 0, now)
             IN  q \in VBal /\ Vests(q, now) /\ q.asset = x /\ q.amount = n
      BY NewLinear
    <2> HIDE DEF begin, cliff, seconds
    <2>3. b \in VBal /\ Vests(b, now) /\ b.asset = x /\ b.amount = n
      BY <1>2, <2>2
    <2> QED
      BY <2>1, <2>3
  <1> QED
    BY <1>2, <1>3, <1>4

\* those of vesting balances,
LEMMA CreateVestingStep ==
    ASSUME Good(Db), NEW a \in User, NEW owner \in User, NEW x, NEW n \in Nat, NEW p \in Policies,
           vesting_balance_create(a, owner, x, n, p)
    PROVE  SameGaps(Db, Db')
  <1> DEFINE b == VestingBalance(owner, x, n, Policy(p, n), 0, now)
  <1>1. PICK fee \in Fees :
            /\ prepare_fee(fee, ToCore(fee[1], fee[2]))
            /\ Applied(AddVesting(adjust_balance(Charged(a, fee, ToCore(fee[1], fee[2])),
                                                 a, x, - n),
                                  b), a, fee)
    BY DEF vesting_balance_create, Operation, OperationFor, Evaluate
  <1> DEFINE c == Charged(a, fee, ToCore(fee[1], fee[2]))
             d == AddVesting(adjust_balance(c, a, x, - n), b)
  <1>2. /\ x \in DOMAIN assets /\ accounts[a].balance[x] >= n /\ now' = now
        /\ a \in Accounts /\ owner \in Accounts /\ fee \in Assets \X Nat
    BY FeesAre DEF vesting_balance_create, Balance, Operation, OperationFor, blockUnchanged, User
  <1>3. now \in Nat /\ x \in Assets
    BY <1>2, DatabaseParts DEF Db
  <1>4. b \in VBal /\ Vests(b, now) /\ b.asset = x /\ b.amount = n
    BY <1>2, <1>3, NewVests
  <1> HIDE DEF b
  <1>5. /\ Good(c) /\ x \in DOMAIN c.assets /\ c.accounts[a].balance[x] >= n /\ c.now = now
    BY <1>1, <1>2, FeeCharged
  <1>6. SameGaps(c, d)
    <2> HIDE DEF c
    <2>1. Vests(b, c.now)
      BY <1>4, <1>5
    <2> QED
      BY <1>2, <1>4, <1>5, <2>1, CreateVesting
  <1> HIDE DEF d
  <1> QED
    BY <1>1, <1>2, <1>6, OperationKeeps DEF d

LEMMA DrawVestingStep ==
    ASSUME Good(Db), NEW id \in DOMAIN vestings, NEW n \in Nat, vesting_balance_withdraw(id, n)
    PROVE  SameGaps(Db, Db')
  <1> DEFINE b == vestings[id]
             payer == b.owner
  <1>1. PICK fee \in Fees :
            /\ prepare_fee(fee, ToCore(fee[1], fee[2]))
            /\ Applied([adjust_balance(Charged(payer, fee, ToCore(fee[1], fee[2])), payer,
                                       b.asset, n)
                          EXCEPT !.vestings[id] = withdraw(@, now, n)], payer, fee)
    BY DEF vesting_balance_withdraw, Operation, OperationFor, Evaluate
  <1> DEFINE c == Charged(payer, fee, ToCore(fee[1], fee[2]))
             d == [adjust_balance(c, payer, b.asset, n) EXCEPT !.vestings[id] = withdraw(@, now, n)]
  <1>2. /\ n <= get_allowed_withdraw(b, now) /\ now' = now /\ fee \in Assets \X Nat
    BY FeesAre DEF vesting_balance_withdraw, Operation, OperationFor, blockUnchanged
  <1>3. payer \in Accounts
    BY VestingParts DEF Db
  <1> HIDE DEF payer
  <1>4. /\ Good(c) /\ c.vestings = vestings /\ c.now = now
    BY <1>1, <1>2, <1>3, FeeCharged
  <1>5. SameGaps(c, d)
    <2> HIDE DEF c
    <2>1. id \in DOMAIN c.vestings /\ n <= get_allowed_withdraw(c.vestings[id], c.now)
      BY <1>2, <1>4
    <2>2. SameGaps(c, [adjust_balance(c, c.vestings[id].owner, c.vestings[id].asset, n)
                          EXCEPT !.vestings[id] = withdraw(@, c.now, n)])
      BY <1>4, <2>1, DrawVesting
    <2> QED
      BY <1>4, <2>2 DEF payer
  <1> HIDE DEF d
  <1> QED
    BY <1>1, <1>2, <1>3, <1>5, OperationKeeps DEF d

\* An operation that only costs its fee.
LEMMA FeeOnly ==
    ASSUME Good(Db), NEW payer \in Accounts, NEW fee \in Assets \X Nat,
           prepare_fee(fee, ToCore(fee[1], fee[2])),
           Applied(Charged(payer, fee, ToCore(fee[1], fee[2])), payer, fee), now' = now
    PROVE  SameGaps(Db, Db')
  <1> DEFINE c == Charged(payer, fee, ToCore(fee[1], fee[2]))
  <1>1. Good(c)
    BY FeeCharged
  <1>2. SameGaps(c, c)
    <2> HIDE DEF c
    <2> QED
      BY <1>1 DEF SameGaps, Inside
  <1> QED
    BY <1>2, OperationKeeps

PermitIs == permit # NoPermit => /\ permit.from \in User /\ permit.to \in User
                                 /\ permit.asset \in DOMAIN assets

\* those that only change a permission, and the claim of one,
LEMMA TermsStep ==
    ASSUME Good(Db), PermitIs,
           \/ withdraw_permission_delete
           \/ \E x \in Assets, t \in Terms :
                \/ withdraw_permission_update(x, t)
                \/ \E a, to \in User : withdraw_permission_create(a, to, x, t)
    PROVE  SameGaps(Db, Db')
  <1>1. CASE withdraw_permission_delete
    <2>1. PICK fee \in Fees :
              /\ prepare_fee(fee, ToCore(fee[1], fee[2]))
              /\ Applied(Charged(permit.from, fee, ToCore(fee[1], fee[2])), permit.from, fee)
      BY <1>1 DEF withdraw_permission_delete, Operation, OperationFor, Evaluate
    <2>2. permit.from \in Accounts /\ now' = now /\ fee \in Assets \X Nat
      BY <1>1, FeesAre DEF withdraw_permission_delete, Operation, OperationFor, blockUnchanged,
                           PermitIs, User
    <2> QED
      BY <2>1, <2>2, FeeOnly
  <1>2. ASSUME NEW x \in Assets, NEW t \in Terms, withdraw_permission_update(x, t)
        PROVE  SameGaps(Db, Db')
    <2>1. PICK fee \in Fees :
              /\ prepare_fee(fee, ToCore(fee[1], fee[2]))
              /\ Applied(Charged(permit.from, fee, ToCore(fee[1], fee[2])), permit.from, fee)
      BY <1>2 DEF withdraw_permission_update, Operation, OperationFor, Evaluate
    <2>2. permit.from \in Accounts /\ now' = now /\ fee \in Assets \X Nat
      BY <1>2, FeesAre DEF withdraw_permission_update, Operation, OperationFor, blockUnchanged,
                           PermitIs, User
    <2> QED
      BY <2>1, <2>2, FeeOnly
  <1>3. ASSUME NEW t \in Terms, NEW a \in User, NEW to \in User, NEW x \in Assets,
               withdraw_permission_create(a, to, x, t)
        PROVE  SameGaps(Db, Db')
    <2>1. PICK fee \in Fees :
              /\ prepare_fee(fee, ToCore(fee[1], fee[2]))
              /\ Applied(Charged(a, fee, ToCore(fee[1], fee[2])), a, fee)
      BY <1>3 DEF withdraw_permission_create, Operation, OperationFor, Evaluate
    <2>2. a \in Accounts /\ now' = now /\ fee \in Assets \X Nat
      BY <1>3, FeesAre DEF withdraw_permission_create, Operation, OperationFor, blockUnchanged, User
    <2> QED
      BY <2>1, <2>2, FeeOnly
  <1> QED
    BY <1>1, <1>2, <1>3

LEMMA ClaimStep ==
    ASSUME Good(Db), PermitIs, NEW n \in Nat, withdraw_permission_claim(n)
    PROVE  SameGaps(Db, Db')
  <1> DEFINE from == permit.from
             to == permit.to
             x == permit.asset
  <1>1. PICK fee \in Fees :
            /\ prepare_fee(fee, ToCore(fee[1], fee[2]))
            /\ Applied(adjust_balance(adjust_balance(
                          Charged(to, fee, ToCore(fee[1], fee[2])), from, x, - n), to, x, n),
                       to, fee)
    BY DEF withdraw_permission_claim, Operation, OperationFor, Evaluate
  <1> DEFINE c == Charged(to, fee, ToCore(fee[1], fee[2]))
             d == adjust_balance(adjust_balance(c, from, x, - n), to, x, n)
  <1>2. /\ permit # NoPermit /\ accounts[from].balance[x] >= n /\ now' = now
    BY DEF withdraw_permission_claim, Balance, Operation, OperationFor, blockUnchanged
  <1>3. /\ x \in DOMAIN assets /\ from \in Accounts /\ to \in Accounts /\ fee \in Assets \X Nat
    BY <1>2, FeesAre DEF PermitIs, User
  <1> HIDE DEF from, to, x
  <1>4. /\ Good(c) /\ x \in DOMAIN c.assets /\ c.accounts[from].balance[x] >= n
    BY <1>1, <1>2, <1>3, FeeCharged
  <1>5. SameGaps(c, d)
    <2> HIDE DEF c
    <2> QED
      BY <1>3, <1>4, Move
  <1> HIDE DEF d
  <1> QED
    BY <1>1, <1>2, <1>3, <1>5, OperationKeeps DEF d

\* and the upgrade of an account.
LEMMA UpgradeStep ==
    ASSUME Good(Db), cashback_period \in Nat, NEW a \in User, account_upgrade(a)
    PROVE  SameGaps(Db, Db')
  <1>1. PICK fee \in Fees :
            /\ prepare_fee(fee, ToCore(fee[1], fee[2]))
            /\ Applied([process_fees(Charged(a, fee, ToCore(fee[1], fee[2])), a)
                          EXCEPT !.accounts[a].lifetime = TRUE,
                                 !.accounts[a].registrar = a, !.accounts[a].referrer = a,
                                 !.accounts[a].lifetime_referrer = a], a, fee)
    BY DEF account_upgrade, Operation, OperationFor, Evaluate
  <1> DEFINE c == Charged(a, fee, ToCore(fee[1], fee[2]))
             d == [process_fees(c, a)
                          EXCEPT !.accounts[a].lifetime = TRUE,
                                 !.accounts[a].registrar = a, !.accounts[a].referrer = a,
                                 !.accounts[a].lifetime_referrer = a]
  <1>2. now' = now /\ a \in Accounts /\ fee \in Assets \X Nat
    BY FeesAre DEF account_upgrade, Operation, OperationFor, blockUnchanged, User
  <1>3. Good(c)
    BY <1>1, <1>2, FeeCharged
  <1>4. SameGaps(c, d)
    <2> HIDE DEF c
    <2> QED
      BY <1>2, <1>3, Upgrade
  <1> HIDE DEF d
  <1> QED
    BY <1>1, <1>2, <1>4, OperationKeeps DEF d

\* The creation of an asset does so for the other assets.  It makes units of the
\* core asset: of an odd fee the larger half is booked twice, and for a fee in
\* another asset only half of what is booked is taken from its fee pool.
LEMMA CreateStep ==
    ASSUME Good(Db), minted \in Nat, NEW x \in Uias, asset_create(x)
    PROVE  /\ Good(Db') /\ DOMAIN assets' = DOMAIN assets \cup {x} /\ vestings' = vestings
           /\ Gap(Db', x) = 0 /\ minted' \in Nat
           /\ \A y \in DOMAIN assets :
                Gap(Db', y) = Gap(Db, y) - IF y = Core THEN minted' - minted ELSE 0
  <1> DEFINE payer == Issuer[x]
             Paid(fee) == ToCore(fee[1], fee[2])
             Kept(fee) == Paid(fee) - Paid(fee) \div 2
  <1>1. PICK fee \in CreateFees :
            /\ x \notin DOMAIN assets /\ prepare_fee(fee, Paid(fee))
            /\ Applied(NewAsset(Charged(payer, fee, Kept(fee)), x, Kept(fee)), payer, fee)
            /\ now' = now
            /\ minted' = minted + (IF fee[1] = Core THEN 2 * Kept(fee) - Paid(fee) ELSE Kept(fee))
    BY DEF asset_create, Evaluate, NewAsset, blockUnchanged
  <1> DEFINE paid == Paid(fee)
             kept == Kept(fee)
             c == Charged(payer, fee, kept)
             d == NewAsset(c, x, kept)
  <1>2. fee \in Assets \X Nat /\ payer \in Accounts
    BY FeesAre, LedgerAssumption DEF User
  <1>3. paid \in Nat /\ (fee[1] = Core => paid = fee[2])
    BY <1>2, ToCoreFacts
  <1>4. kept \in Nat /\ kept <= paid /\ 2 * kept - paid \in Nat
    <2> HIDE DEF Paid
    <2> QED
      BY <1>3
  <1>5. fee[1] \in DOMAIN assets /\ (fee[1] # Core => kept <= assets[fee[1]].pool)
    <2>1. fee[1] \in DOMAIN assets /\ (fee[1] # Core => paid <= assets[fee[1]].pool)
      BY <1>1 DEF prepare_fee
    <2>2. fee[1] \in DOMAIN assets => assets[fee[1]].pool \in Nat
      BY AssetIs DEF Db
    <2> HIDE DEF kept, paid
    <2> QED
      BY <1>3, <1>4, <2>1, <2>2
  <1>6. Applied(d, payer, fee)
    BY <1>1
  <1> DEFINE new == IF fee[1] = Core THEN 2 * kept - paid ELSE kept
  <1>13. minted' = minted + new /\ new \in Nat
    BY <1>1, <1>4
  <1>14. fee[1] = Core => new = 2 * kept - fee[2]
    BY <1>3
  <1>15. fee[1] # Core => new = kept
    OBVIOUS
  <1> HIDE DEF Paid, Kept, kept, payer, new
  <1>7. /\ Good(c) /\ c.now = now /\ DOMAIN c.assets = DOMAIN assets /\ c.vestings = vestings
        /\ \A y \in DOMAIN assets :
             Gap(c, y) = Gap(Db, y) - IF fee[1] # Core
                                      THEN (IF y = fee[1] THEN fee[2] ELSE 0)
                                      ELSE IF y = Core THEN kept ELSE 0
    BY <1>2, <1>4, <1>5, ChargedFacts
  <1> HIDE DEF c
  <1>8. /\ Good(d) /\ d.now = c.now /\ DOMAIN d.assets = DOMAIN c.assets \cup {x}
        /\ d.vestings = c.vestings
        /\ \A y \in DOMAIN c.assets : Gap(d, y) = Gap(c, y) - IF y = Core THEN kept ELSE 0
        /\ Gap(d, x) = 0
    <2>1. x \notin DOMAIN c.assets
      BY <1>1, <1>7
    <2> QED
      BY <1>4, <1>7, <2>1, CreateAsset
  <1> HIDE DEF d
  <1>9. /\ Good(Db') /\ assets' = d.assets /\ vestings' = d.vestings
        /\ \A y \in DOMAIN d.assets :
             Gap(Db', y) = Gap(d, y) + IF y = fee[1] THEN fee[2] ELSE 0
    <2>1. fee[1] \in DOMAIN d.assets /\ now' = d.now
      BY <1>1, <1>5, <1>7, <1>8
    <2> QED
      BY <1>2, <1>6, <1>8, <2>1, AppliedFacts
  <1> DEFINE e == Db'
             b == Db
  <1>10. Gap(e, x) = 0
    <2> HIDE DEF e
    <2>1. x # fee[1]
      BY <1>1, <1>5
    <2>2. Gap(e, x) = Gap(d, x) + IF x = fee[1] THEN fee[2] ELSE 0
      BY <1>8, <1>9 DEF e
    <2> QED
      BY <1>8, <2>1, <2>2
  <1>11. ASSUME NEW y \in DOMAIN assets
         PROVE  Gap(e, y) = Gap(b, y) - IF y = Core THEN new ELSE 0
    <2>1. Gap(b, y) \in Int /\ fee[2] \in Nat
      BY <1>2, HeldParts DEF Db
    <2>2. Gap(c, y) = Gap(b, y) - IF fee[1] # Core
                                  THEN (IF y = fee[1] THEN fee[2] ELSE 0)
                                  ELSE IF y = Core THEN kept ELSE 0
      BY <1>7
    <2>3. Gap(d, y) = Gap(c, y) - IF y = Core THEN kept ELSE 0
      BY <1>7, <1>8
    <2>4. Gap(e, y) = Gap(d, y) + IF y = fee[1] THEN fee[2] ELSE 0
      BY <1>7, <1>8, <1>9
    <2> HIDE DEF e, b
    <2> QED
      BY <1>4, <1>13, <1>14, <1>15, <2>1, <2>2, <2>3, <2>4
  <1>12. minted' \in Nat /\ minted' - minted = new
    BY <1>13
  <1> HIDE DEF e, b
  <1>16. \A y \in DOMAIN assets : Gap(e, y) = Gap(b, y) - IF y = Core THEN minted' - minted ELSE 0
    BY <1>11, <1>12
  <1> QED
    BY <1>7, <1>8, <1>9, <1>10, <1>12, <1>16 DEF e, b

-----------------------------------------------------------------------------
(* The balances of the genesis state *)

GenesisBalance == [owner : User, asset : {Core}, amount : Nat,
                   policy : {[kind |-> "none"]} \cup LinearPolicies,
                   paid_in : Nat, free_in : {0}, since : Nat, last : Nat]

\* The balance i, or what is left of it, holds all that has not vested.
GenesisOK(g, i, t) ==
    /\ g \in GenesisBalance
    /\ g.policy = GenesisBalances[i].policy /\ g.paid_in = GenesisBalances[i].paid_in
    /\ g.policy.kind = "linear" => Covered(g, t)

Gone(i) == [GenesisBalances[i] EXCEPT !.amount = 0]

GenesisIs(G, t) ==
    /\ DOMAIN G \subseteq DOMAIN GenesisBalances /\ G = [i \in DOMAIN G |-> G[i]]
    /\ \A i \in DOMAIN G : GenesisOK(G[i], i, t)
    /\ \A i \in DOMAIN GenesisBalances \ DOMAIN G : GenesisOK(Gone(i), i, t)

\* What nobody has claimed yet.
Unclaimed(G) == Sum([i \in DOMAIN G |-> G[i].amount], DOMAIN G)

\* The fields of a balance of the genesis state.
LEMMA GenesisParts ==
    ASSUME NEW g \in GenesisBalance
    PROVE  /\ g.amount \in Nat /\ g.paid_in \in Nat /\ g.last \in Nat
           /\ g.policy.kind \in {"none", "linear"}
           /\ g.policy.kind # "none" => g.policy \in LinearPolicies
  BY DEF GenesisBalance, LinearPolicies

\* There are finitely many, with an amount that is a number.
LEMMA GenesisFinite ==
    ASSUME NEW G, NEW t, GenesisIs(G, t)
    PROVE  /\ IsFiniteSet(DOMAIN G) /\ \A i \in DOMAIN G : G[i].amount \in Nat
           /\ Unclaimed(G) \in Nat
  <1>1. DOMAIN GenesisBalances = 1 .. Len(GenesisBalances) /\ Len(GenesisBalances) \in Nat
    BY GenesisAssumption, LenProperties
  <1>2. IsFiniteSet(DOMAIN GenesisBalances)
    BY <1>1, FS_Interval
  <1>3. IsFiniteSet(DOMAIN G)
    BY <1>2, FS_Subset DEF GenesisIs
  <1>4. \A i \in DOMAIN G : G[i].amount \in Nat
    BY GenesisParts DEF GenesisIs, GenesisOK
  <1> DEFINE f == [i \in DOMAIN G |-> G[i].amount]
  <1>5. \A i \in DOMAIN G : f[i] \in Nat
    BY <1>4
  <1> HIDE DEF f
  <1>6. Sum(f, DOMAIN G) \in Nat
    BY <1>3, <1>5, SumType
  <1> QED
    BY <1>3, <1>4, <1>6 DEF Unclaimed, f

\* The types of what has not vested, which only becomes less.
LEMMA UnvestedFacts ==
    ASSUME NEW g \in GenesisBalance, g.policy.kind = "linear", NEW t \in Nat
    PROVE  LET p == g.policy
           IN  /\ Unvested(g, t) \in Int
               /\ t > p.begin /\ t - p.begin >= p.cliff =>
                    /\ Unvested(g, t) = p.begin_balance - LinearVested(p, t - p.begin)
                    /\ Unvested(g, t) \in Nat
                    /\ get_allowed_withdraw(g, t) = g.amount - Unvested(g, t)
                    /\ \A u \in Nat : t <= u => Unvested(g, u) <= Unvested(g, t)
               /\ ~(t > p.begin /\ t - p.begin >= p.cliff) =>
                    Unvested(g, t) = g.paid_in /\ get_allowed_withdraw(g, t) = 0
  <1> DEFINE p == g.policy
             V(u) == LinearVested(p, u - p.begin)
             begun(u) == u > p.begin /\ u - p.begin >= p.cliff
  <1>1. p \in LinearPolicies /\ g.amount \in Nat /\ g.paid_in \in Nat
    BY GenesisParts
  <1>2. p.begin \in Nat /\ p.cliff \in Nat /\ p.begin_balance \in Nat
    BY <1>1 DEF LinearPolicies
  <1>3. \A u \in Nat : Unvested(g, u) = IF begun(u) THEN p.begin_balance - V(u) ELSE g.paid_in
    BY DEF Unvested
  <1>4. get_allowed_withdraw(g, t)
          = IF begun(t) THEN V(t) - (p.begin_balance - g.amount) ELSE 0
    BY DEF get_allowed_withdraw
  <1>5. ASSUME NEW u \in Nat, begun(u)
        PROVE  /\ V(u) \in Nat /\ V(u) <= p.begin_balance
               /\ \A w \in Nat : u <= w => V(u) <= V(w) /\ begun(w)
    <2> HIDE DEF p
    <2>1. u - p.begin \in Nat
      BY <1>2, <1>5
    <2>2. V(u) \in Nat /\ V(u) <= p.begin_balance
      BY <1>1, <2>1, LinearVestedFacts
    <2>3. ASSUME NEW w \in Nat, u <= w
          PROVE  V(u) <= V(w) /\ begun(w)
      <3>1. w - p.begin \in Nat /\ u - p.begin <= w - p.begin /\ begun(w)
        BY <1>2, <1>5, <2>3
      <3> QED
        BY <1>1, <2>1, <3>1, LinearVestedFacts
    <2> QED
      BY <2>2, <2>3
  <1> HIDE DEF p, V
  <1>6. CASE begun(t)
    <2>1. /\ Unvested(g, t) = p.begin_balance - V(t) /\ V(t) \in Nat /\ V(t) <= p.begin_balance
          /\ get_allowed_withdraw(g, t) = V(t) - (p.begin_balance - g.amount)
      BY <1>3, <1>4, <1>5, <1>6
    <2>2. Unvested(g, t) \in Nat /\ get_allowed_withdraw(g, t) = g.amount - Unvested(g, t)
      BY <1>1, <1>2, <2>1
    <2>3. ASSUME NEW u \in Nat, t <= u
          PROVE  Unvested(g, u) <= Unvested(g, t)
      <3>1. begun(u) /\ V(t) <= V(u)
        BY <1>5, <1>6, <2>3
      <3>2. Unvested(g, u) = p.begin_balance - V(u) /\ V(u) \in Nat
        BY <1>3, <1>5, <3>1
      <3> QED
        BY <1>2, <2>1, <3>1, <3>2
    <2> QED
      BY <1>6, <2>1, <2>2, <2>3 DEF p, V
  <1>7. CASE ~begun(t)
    BY <1>1, <1>3, <1>4, <1>7 DEF p
  <1> QED
    BY <1>6, <1>7

\* What has not vested is still there later,
LEMMA CoveredLater ==
    ASSUME NEW g \in GenesisBalance, g.policy.kind = "linear", NEW t \in Nat, NEW u \in Nat,
           t <= u, Covered(g, t)
    PROVE  Covered(g, u)
  <1> DEFINE A == Unvested(g, t)
             B == Unvested(g, u)
             p == g.policy
  <1>1. g.amount \in Nat /\ g.paid_in \in Int
    BY GenesisParts
  <1>2. A \in Int /\ B \in Int
    BY UnvestedFacts
  <1>3. A = g.paid_in \/ B <= A
    BY UnvestedFacts
  <1> HIDE DEF A, B
  <1>4. Min({g.paid_in, A}) = (IF g.paid_in <= A THEN g.paid_in ELSE A)
        /\ Min({g.paid_in, B}) = (IF g.paid_in <= B THEN g.paid_in ELSE B)
    BY <1>1, <1>2, MinOfTwo
  <1>5. g.amount >= Min({g.paid_in, A})
    BY DEF Covered, A
  <1>6. g.amount >= Min({g.paid_in, B})
    BY <1>1, <1>2, <1>3, <1>4, <1>5
  <1> QED
    BY <1>6 DEF Covered, B

\* and after a claim of no more than what is allowed, a negative one included.
LEMMA CoveredDraw ==
    ASSUME NEW g \in GenesisBalance, g.policy.kind = "linear", NEW t \in Nat, Covered(g, t),
           NEW n \in Int, n <= get_allowed_withdraw(g, t),
           NEW r, r.policy = g.policy, r.paid_in = g.paid_in, r.amount = g.amount - n
    PROVE  Covered(r, t)
  <1> DEFINE A == Unvested(g, t)
             p == g.policy
             begun == t > p.begin /\ t - p.begin >= p.cliff
  <1>1. g.amount \in Nat /\ g.paid_in \in Int /\ A \in Int
    BY GenesisParts, UnvestedFacts
  <1>2. begun => get_allowed_withdraw(g, t) = g.amount - A
    BY UnvestedFacts
  <1>3. ~begun => A = g.paid_in /\ get_allowed_withdraw(g, t) = 0
    BY UnvestedFacts
  <1>4. Unvested(r, t) = A
    BY DEF Unvested
  <1> HIDE DEF A, begun
  <1>5. Min({g.paid_in, A}) = IF g.paid_in <= A THEN g.paid_in ELSE A
    BY <1>1, MinOfTwo
  <1>6. g.amount >= Min({g.paid_in, A})
    BY DEF Covered, A
  <1>7. g.amount - n >= Min({g.paid_in, A})
    <2>1. CASE begun
      BY <1>1, <1>2, <1>5, <2>1
    <2>2. CASE ~begun
      BY <1>1, <1>3, <1>5, <1>6, <2>2
    <2> QED
      BY <2>1, <2>2
  <1> QED
    BY <1>4, <1>7 DEF Covered

\* They keep vesting.
LEMMA GenesisLater ==
    ASSUME NEW G, NEW t \in Nat, NEW u \in Nat, GenesisIs(G, t), t <= u
    PROVE  GenesisIs(G, u)
  <1>1. ASSUME NEW g, NEW i, GenesisOK(g, i, t)
        PROVE  GenesisOK(g, i, u)
    BY <1>1, CoveredLater DEF GenesisOK
  <1> QED
    BY <1>1 DEF GenesisIs

\* What is claimed from a balance, down to the last unit.
LEMMA GenesisDraw ==
    ASSUME NEW g, NEW i, NEW t \in Nat, GenesisOK(g, i, t), NEW n \in Int,
           IF g.policy.kind = "none" THEN n = g.amount
           ELSE n <= g.amount /\ n <= get_allowed_withdraw(g, t)
    PROVE  /\ n <= g.amount
           /\ LET r == [g EXCEPT !.amount = @ - n, !.last = t]
              IN  GenesisOK(r, i, t) /\ r.amount = g.amount - n
  <1>1. /\ g \in GenesisBalance /\ g.amount \in Nat /\ g.policy.kind \in {"none", "linear"}
        /\ g.policy = GenesisBalances[i].policy /\ g.paid_in = GenesisBalances[i].paid_in
        /\ g.policy.kind = "linear" => Covered(g, t)
    BY GenesisParts DEF GenesisOK
  <1>2. n <= g.amount
    BY <1>1
  <1> DEFINE m == g.amount - n
             r == [g EXCEPT !.amount = m, !.last = t]
  <1>3. m \in Nat
    BY <1>1, <1>2
  <1> HIDE DEF m
  <1>4. /\ r \in GenesisBalance /\ r.policy = g.policy /\ r.paid_in = g.paid_in /\ r.amount = m
    BY <1>1, <1>3 DEF GenesisBalance
  <1> HIDE DEF r
  <1>5. r.amount = g.amount - n
    BY <1>4 DEF m
  <1>6. g.policy.kind = "linear" => Covered(r, t)
    BY <1>1, <1>4, <1>5, CoveredDraw
  <1>7. GenesisOK(r, i, t) /\ r.amount = g.amount - n
    BY <1>1, <1>4, <1>5, <1>6 DEF GenesisOK
  <1> QED
    BY <1>2, <1>7 DEF r, m

\* A balance of which nothing is left may go.
LEMMA GenesisGone ==
    ASSUME NEW r, NEW i \in DOMAIN GenesisBalances, NEW t, GenesisOK(r, i, t), r.amount = 0
    PROVE  GenesisOK(Gone(i), i, t)
  <1> DEFINE g == GenesisBalances[i]
             h == [g EXCEPT !.amount = 0]
  <1>1. g \in GenesisBalance
    <2>1. GenesisBalances \in Seq(GenesisBalance)
      BY GenesisAssumption DEF GenesisBalance
    <2> QED
      BY <2>1, ElementOfSeq
  <1>2. r.policy = g.policy /\ r.paid_in = g.paid_in
        /\ (r.policy.kind = "linear" => Covered(r, t))
    BY DEF GenesisOK
  <1> HIDE DEF g
  <1>3. h \in GenesisBalance /\ h.policy = g.policy /\ h.paid_in = g.paid_in /\ h.amount = 0
    BY <1>1 DEF GenesisBalance
  <1> HIDE DEF h
  <1>4. h.policy.kind = "linear" => Covered(h, t)
    BY <1>2, <1>3 DEF Covered, Unvested
  <1>5. GenesisOK(h, i, t)
    BY <1>3, <1>4 DEF GenesisOK, g
  <1> QED
    BY <1>5 DEF h, g, Gone

\* The balances that are left when n units of the balance i were claimed.
Drawn(G, i, n, t) ==
    IF n < G[i].amount THEN [G EXCEPT ![i] = [G[i] EXCEPT !.amount = @ - n, !.last = t]]
    ELSE [j \in DOMAIN G \ {i} |-> G[j]]

MayDraw(G, i, n, t) ==
    IF G[i].policy.kind = "none" THEN n = G[i].amount
    ELSE n <= G[i].amount /\ n <= get_allowed_withdraw(G[i], t)

\* A claim takes as much from what is unclaimed as it pays.
LEMMA GenesisClaim ==
    ASSUME NEW G, NEW t \in Nat, GenesisIs(G, t), NEW n \in Int, NEW i \in DOMAIN G,
           MayDraw(G, i, n, t)
    PROVE  GenesisIs(Drawn(G, i, n, t), t) /\ Unclaimed(Drawn(G, i, n, t)) = Unclaimed(G) - n
  <1> DEFINE g == G[i]
             r == [g EXCEPT !.amount = @ - n, !.last = t]
             D == DOMAIN G
             f == [j \in DOMAIN G |-> G[j].amount]
  <1>1. /\ n <= g.amount /\ GenesisOK(g, i, t) /\ g.amount \in Nat
        /\ GenesisOK(r, i, t) /\ r.amount = g.amount - n
    <2>1. GenesisOK(g, i, t)
      BY DEF GenesisIs
    <2>2. IF g.policy.kind = "none" THEN n = g.amount
          ELSE n <= g.amount /\ n <= get_allowed_withdraw(g, t)
      BY DEF MayDraw
    <2>3. g.amount \in Nat
      BY <2>1, GenesisParts DEF GenesisOK
    <2> HIDE DEF g
    <2> QED
      BY <2>1, <2>2, <2>3, GenesisDraw
  <1>2. IsFiniteSet(D) /\ (\A j \in D : f[j] \in Nat) /\ f[i] = g.amount
        /\ Unclaimed(G) = Sum(f, D) /\ i \in D
    BY GenesisFinite DEF Unclaimed
  <1>3. G = [j \in D |-> G[j]] /\ D \subseteq DOMAIN GenesisBalances
        /\ (\A j \in D : GenesisOK(G[j], j, t))
        /\ \A j \in DOMAIN GenesisBalances \ D : GenesisOK(Gone(j), j, t)
    BY DEF GenesisIs
  <1>4. CASE n < g.amount
    <2> HIDE DEF r
    <2> DEFINE H == [G EXCEPT ![i] = r]
               h == [j \in D |-> H[j].amount]
    <2>1. /\ DOMAIN H = D /\ H = [j \in D |-> H[j]] /\ H[i] = r
          /\ \A j \in D \ {i} : H[j] = G[j]
      BY <1>3
    <2> HIDE DEF H
    <2>2. GenesisIs(H, t)
      BY <1>1, <1>3, <1>4, <2>1 DEF GenesisIs
    <2>3. (\A j \in D \ {i} : h[j] = f[j]) /\ h[i] = g.amount - n /\ h[i] \in Nat
      BY <1>1, <1>2, <1>4, <2>1
    <2>4. Unclaimed(H) = Sum(h, D)
      BY <2>1 DEF Unclaimed
    <2> HIDE DEF h, f, D
    <2>5. Sum(h, D) = Sum(f, D) - f[i] + h[i]
      <3>1. IsFiniteSet(D) /\ i \in D
        BY <1>2
      <3>2. \A s \in D : f[s] \in Nat
        BY <1>2
      <3>3. (\A s \in D \ {i} : h[s] = f[s]) /\ h[i] \in Nat
        BY <2>3
      <3> QED
        BY <3>1, <3>2, <3>3, SumChange
    <2>6. Sum(f, D) \in Nat
      BY <1>2, SumType
    <2>7. Unclaimed(H) = Unclaimed(G) - n
      <3> HIDE DEF g
      <3> QED
        BY <1>1, <1>2, <2>3, <2>4, <2>5, <2>6
    <2> QED
      BY <1>4, <2>2, <2>7 DEF H, r, Drawn
  <1>5. CASE ~ (n < g.amount)
    <2> DEFINE E == D \ {i}
               H == [j \in E |-> G[j]]
               h == [j \in E |-> H[j].amount]
    <2>1. DOMAIN H = E /\ (\A j \in E : H[j] = G[j]) /\ H = [j \in E |-> H[j]]
      OBVIOUS
    <2> HIDE DEF H
    <2>0. GenesisOK(Gone(i), i, t) /\ i \in DOMAIN GenesisBalances
      <3>1. i \in DOMAIN GenesisBalances
        BY <1>2, <1>3
      <3>2. r.amount = 0
        <4> HIDE DEF r, g
        <4> QED
          BY <1>1, <1>5
      <3> HIDE DEF r
      <3> QED
        BY <1>1, <3>1, <3>2, GenesisGone
    <2>2. GenesisIs(H, t)
      <3> HIDE DEF r, g, f
      <3> QED
        BY <1>3, <2>0, <2>1 DEF GenesisIs
    <2>3. Unclaimed(H) = Sum(h, E) /\ \A j \in E : h[j] = f[j]
      BY <2>1 DEF Unclaimed
    <2> HIDE DEF h, f, D
    <2>4. Sum(h, E) = Sum(f, E)
      <3> HIDE DEF E
      <3> QED
        BY <2>3, SumEqual
    <2>5. Sum(f, D \ {i}) = Sum(f, D) - f[i]
      <3>1. IsFiniteSet(D)
        BY <1>2
      <3>2. i \in D
        BY <1>2
      <3>3. \A s \in D : f[s] \in Nat
        BY <1>2
      <3> QED
        BY <3>1, <3>2, <3>3, SumRemove
    <2>6. Unclaimed(H) = Unclaimed(G) - n
      <3>1. n = g.amount
        BY <1>1, <1>5
      <3> HIDE DEF g
      <3> QED
        BY <1>2, <2>3, <2>4, <2>5, <3>1
    <2> QED
      BY <1>5, <2>2, <2>6 DEF H, D, Drawn
  <1> QED
    BY <1>4, <1>5

\* A balance after adjust_balance, which may be below zero.
AccountZ ==
    [balance : [Assets -> Int], pending : Nat, vested : Nat, cashback : Nat, pay : Nat,
     lifetime : BOOLEAN, registrar : Accounts, lifetime_referrer : Accounts, referrer : Accounts]

DatabasesZ == [accounts : [Accounts -> AccountZ], assets : AssetTables, vestings : Seq(VBal),
               now : Nat]

LEMMA BalanceAfter ==
    ASSUME NEW d \in DatabasesZ, NEW a \in Accounts, NEW x \in Assets, NEW n \in Int
    PROVE  LET e == adjust_balance(d, a, x, n)
           IN  /\ e \in DatabasesZ /\ d.accounts[a].balance[x] \in Int
               /\ e.accounts[a].balance[x] = d.accounts[a].balance[x] + n
  <1> DEFINE o == d.accounts[a]
             q == [o EXCEPT !.balance[x] = @ + n]
             F == d.accounts
             T == AssetTables
             V == Seq(VBal)
             D == [d EXCEPT !.accounts = [F EXCEPT ![a] = q]]
  <1>1. d \in [accounts : [Accounts -> AccountZ], assets : T, vestings : V, now : Nat]
    BY DEF DatabasesZ
  <1>2. F \in [Accounts -> AccountZ] /\ o \in AccountZ
    BY <1>1
  <1>3. adjust_balance(d, a, x, n) = D
    BY DEF adjust_balance
  <1>4. /\ q \in AccountZ /\ o.balance[x] \in Int /\ q.balance[x] = o.balance[x] + n
    <2> HIDE DEF o
    <2>1. o \in [balance : [Assets -> Int], pending : Nat, vested : Nat, cashback : Nat, pay : Nat,
                 lifetime : BOOLEAN, registrar : Accounts, lifetime_referrer : Accounts,
                 referrer : Accounts]
      BY <1>2 DEF AccountZ
    <2>2. o.balance \in [Assets -> Int]
      BY <2>1
    <2>3. o.balance[x] \in Int
      BY <2>2
    <2> DEFINE B == [o.balance EXCEPT ![x] = o.balance[x] + n]
    <2>4. B \in [Assets -> Int] /\ B[x] = o.balance[x] + n
      BY <2>2, <2>3
    <2>5. q = [o EXCEPT !.balance = B]
      OBVIOUS
    <2> HIDE DEF B, q
    <2>6. q \in AccountZ /\ q.balance = B
      BY <2>1, <2>4, <2>5 DEF AccountZ
    <2> QED
      BY <2>3, <2>4, <2>6
  <1> HIDE DEF o, q, F, T, V
  <1> DEFINE E == [F EXCEPT ![a] = q]
  <1>5. E \in [Accounts -> AccountZ] /\ E[a] = q
    BY <1>2, <1>4
  <1>6. D = [d EXCEPT !.accounts = E]
    OBVIOUS
  <1> HIDE DEF E, D
  <1>7. D \in [accounts : [Accounts -> AccountZ], assets : T, vestings : V, now : Nat]
        /\ D.accounts = E
    BY <1>1, <1>5, <1>6
  <1> QED
    BY <1>3, <1>4, <1>5, <1>7 DEF DatabasesZ, T, V, o

\* An account that cannot pay what it adds does not get through.
LEMMA PaidBySomebody ==
    ASSUME NEW d, Good(d), NEW a \in Accounts, NEW n \in Int,
           NEW m \in Int, m <= 0,
           adjust_balance(adjust_balance(d, a, Core, n), a, Core, m).accounts[a].balance[Core] >= 0
    PROVE  d.accounts[a].balance[Core] + n >= 0
  <1> DEFINE e == adjust_balance(d, a, Core, n)
             f == adjust_balance(e, a, Core, m)
  <1>1. d \in DatabasesZ /\ Core \in Assets
    <2>1. [Assets -> Nat] \subseteq [Assets -> Int]
      OBVIOUS
    <2>2. Account \subseteq AccountZ
      BY <2>1 DEF Account, AccountZ
    <2>3. [Accounts -> Account] \subseteq [Accounts -> AccountZ]
      BY <2>2
    <2>4. d \in Databases
      BY DEF Good
    <2> DEFINE A == [Accounts -> Account]
               Z == [Accounts -> AccountZ]
               T == AssetTables
               V == Seq(VBal)
    <2>5. A \subseteq Z /\ d \in [accounts : A, assets : T, vestings : V, now : Nat]
      BY <2>3, <2>4 DEF Databases
    <2> HIDE DEF A, Z, T, V
    <2>6. d \in [accounts : Z, assets : T, vestings : V, now : Nat]
      BY <2>5
    <2> QED
      BY <2>6 DEF DatabasesZ, Z, T, V, Assets
  <1>2. e \in DatabasesZ /\ e.accounts[a].balance[Core] = d.accounts[a].balance[Core] + n
        /\ d.accounts[a].balance[Core] \in Int
    BY <1>1, BalanceAfter
  <1> HIDE DEF e
  <1>3. f.accounts[a].balance[Core] = e.accounts[a].balance[Core] + m
    BY <1>1, <1>2, BalanceAfter
  <1>4. f.accounts[a].balance[Core] >= 0
    BY DEF e
  <1> HIDE DEF f
  <1> QED
    BY <1>2, <1>3, <1>4

\* balance_claim: what leaves the balances of the genesis state is held after.
LEMMA BalanceClaimStep ==
    ASSUME Good(Db), GenesisIs(genesis, now), NEW i \in DOMAIN genesis, NEW to \in User,
           NEW n \in Int, balance_claim(i, to, n)
    PROVE  /\ Good(Db') /\ assets' = assets /\ vestings' = vestings /\ now' = now
           /\ GenesisIs(genesis', now)
           /\ \A y \in DOMAIN assets : Gap(Db', y) = Gap(Db, y) - IF y = Core THEN n ELSE 0
           /\ Unclaimed(genesis') = Unclaimed(genesis) - n
  <1> DEFINE fee == <<Core, 0>>
             c == Charged(to, fee, 0)
             d == adjust_balance(c, to, Core, n)
  <1>1. /\ MayDraw(genesis, i, n, now) /\ genesis' = Drawn(genesis, i, n, now)
        /\ Applied(d, to, fee) /\ now' = now
    BY DEF balance_claim, Evaluate, blockUnchanged, MayDraw, Drawn
  <1>2. now \in Nat /\ Core \in DOMAIN assets /\ to \in Accounts
    BY DatabaseParts DEF Db, Good, User
  <1>3. GenesisIs(genesis', now) /\ Unclaimed(genesis') = Unclaimed(genesis) - n
    <2>1. /\ GenesisIs(Drawn(genesis, i, n, now), now)
          /\ Unclaimed(Drawn(genesis, i, n, now)) = Unclaimed(genesis) - n
      BY <1>1, <1>2, GenesisClaim
    <2> QED
      BY <1>1, <2>1
  <1>4. fee \in Assets \X Nat /\ fee[1] = Core /\ fee[2] = 0 /\ 0 \in Nat
    BY DEF Assets
  <1> HIDE DEF fee
  <1>5. /\ Good(c) /\ c.now = now /\ DOMAIN c.assets = DOMAIN assets /\ c.vestings = vestings
        /\ \A y \in DOMAIN assets : Gap(c, y) = Gap(Db, y)
    <2>1. \A k \in Nat : LET q == Charged(to, fee, k)
                         IN  /\ Good(q) /\ q.vestings = vestings /\ q.now = now
                             /\ DOMAIN q.assets = DOMAIN assets
                             /\ \A y \in DOMAIN assets :
                                  Gap(q, y) = Gap(Db, y) - IF y = Core THEN k ELSE 0
      BY <1>2, <1>4, ChargedFacts
    <2>2. /\ Good(c) /\ c.now = now /\ DOMAIN c.assets = DOMAIN assets /\ c.vestings = vestings
          /\ \A y \in DOMAIN assets : Gap(c, y) = Gap(Db, y) - IF y = Core THEN 0 ELSE 0
      BY <1>4, <2>1
    <2>3. \A y \in DOMAIN assets : Gap(Db, y) \in Int
      BY HeldParts DEF Db
    <2> HIDE DEF c
    <2> QED
      BY <2>2, <2>3
  <1>6. c.assets = assets
    BY <1>4 DEF Charged, convert_fee, pay_fee, Db
  <1> HIDE DEF c
  <1>7. /\ Good(d) /\ d.assets = c.assets /\ d.vestings = c.vestings /\ d.now = c.now
        /\ \A y \in DOMAIN c.assets : Gap(d, y) = Gap(c, y) - IF y = Core THEN n ELSE 0
    <2>1. Core \in DOMAIN c.assets
      BY <1>2, <1>5
    <2>2. c.accounts[to].balance[Core] + n >= 0
      <3> DEFINE m == - fee[2]
      <3>1. m \in Int /\ m <= 0
        <4>1. \A k \in Nat : - k \in Int /\ - k <= 0
          OBVIOUS
        <4> QED
          BY <1>4, <4>1, Zenon
      <3>2. adjust_balance(d, to, Core, m).accounts[to].balance[Core] >= 0
        BY <1>1, <1>4 DEF Applied
      <3> HIDE DEF m
      <3> QED
        BY <1>2, <1>5, <3>1, <3>2, PaidBySomebody
    <2> QED
      BY <1>2, <1>5, <2>1, <2>2, AdjustBalance
  <1> HIDE DEF d
  <1>8. /\ Good(Db') /\ assets' = d.assets /\ vestings' = d.vestings
        /\ \A y \in DOMAIN d.assets :
             Gap(Db', y) = Gap(d, y) + IF y = fee[1] THEN fee[2] ELSE 0
    <2>1. fee[1] \in DOMAIN d.assets /\ now' = d.now
      BY <1>1, <1>2, <1>4, <1>5, <1>7
    <2> QED
      BY <1>1, <1>2, <1>4, <1>7, <2>1, AppliedFacts
  <1> DEFINE e == Db'
             b == Db
  <1>9. ASSUME NEW y \in DOMAIN assets
        PROVE  Gap(e, y) = Gap(b, y) - IF y = Core THEN n ELSE 0
    <2>1. Gap(b, y) \in Int
      BY HeldParts DEF Db
    <2>2. Gap(d, y) = Gap(b, y) - IF y = Core THEN n ELSE 0
      BY <1>5, <1>7
    <2>3. Gap(e, y) = Gap(d, y) + IF y = Core THEN 0 ELSE 0
      BY <1>4, <1>5, <1>7, <1>8
    <2> HIDE DEF e, b
    <2> QED
      BY <2>1, <2>2, <2>3
  <1> QED
    BY <1>1, <1>3, <1>5, <1>6, <1>7, <1>8, <1>9

-----------------------------------------------------------------------------
(* Blocks *)

\* The next maintenance is ahead.
LEMMA AheadIs ==
    ASSUME NEW t \in Nat
    PROVE  NextMaintenance(t) - t \in Nat
  <1>1. Interval \in Nat \ {0}
    BY LedgerAssumption
  <1> DEFINE q == t \div Interval
  <1>2. q \in Int /\ q * Interval <= t /\ t < q * Interval + Interval
    BY <1>1
  <1>3. q * Interval \in Int /\ (q + 1) * Interval = q * Interval + Interval
    BY <1>1, <1>2
  <1> HIDE DEF q
  <1>4. (q + 1) * Interval - t \in Nat
    BY <1>1, <1>2, <1>3
  <1> QED
    BY <1>4 DEF NextMaintenance, q

\* The maintenance.
LEMMA MaintenanceFacts ==
    ASSUME NEW d, Good(d), NEW unused \in Nat, cashback_period \in Nat,
           last_budget \in Nat, last_budget <= d.now, now' = d.now,
           perform_chain_maintenance(d, unused)
    PROVE  /\ Good(Db') /\ DOMAIN assets' = DOMAIN d.assets
           /\ witness_budget' \in Nat /\ last_budget' = d.now /\ cashback_period' \in Periods
           /\ \A x \in DOMAIN d.assets :
                Gap(Db', x) = Gap(d, x) + IF x = Core THEN witness_budget' - unused ELSE 0
  <1> DEFINE f == process_all_fees(d)
             ahead == NextMaintenance(d.now) - d.now
             Done(workers) == process_budget(f, unused, workers, ahead)
  <1>1. PICK workers \in Workers :
            /\ Becomes(Done(workers).d) /\ witness_budget' = Done(workers).budget
            /\ last_budget' = d.now /\ cashback_period' \in Periods
    BY DEF perform_chain_maintenance
  <1> DEFINE r == Done(workers)
  <1>2. SameGaps(d, f)
    BY ProcessAllFees
  <1>3. ahead \in Nat
    BY DatabaseParts, AheadIs
  <1>4. workers \in Seq(WorkerSet)
    BY InputsAssumption DEF WorkerSet
  <1> HIDE DEF f, ahead
  <1>5. /\ Inside(f, r.d) /\ r.budget \in Nat
        /\ \A x \in DOMAIN f.assets :
             Gap(r.d, x) = Gap(f, x) + IF x = Core THEN r.budget - unused ELSE 0
    <2>1. Good(f) /\ last_budget <= f.now
      BY <1>2 DEF SameGaps, Inside
    <2> QED
      BY <1>3, <1>4, <2>1, ProcessBudget
  <1>6. Becomes(r.d) /\ witness_budget' = r.budget
    BY <1>1
  <1> HIDE DEF r
  <1>7. /\ Good(r.d) /\ DOMAIN r.d.assets = DOMAIN d.assets /\ r.d.now = d.now
    BY <1>2, <1>5 DEF SameGaps, Inside
  <1>8. Db' = r.d
    <2> DEFINE e == r.d
    <2> HIDE DEF e
    <2>1. e \in Databases /\ Becomes(e) /\ now' = e.now
      BY <1>6, <1>7 DEF Good, e
    <2>2. Db' = e
      BY <2>1, DbAfter
    <2> QED
      BY <2>2 DEF e
  <1>9. assets' = r.d.assets
    BY <1>6 DEF Becomes
  <1>10. \A x \in DOMAIN d.assets :
            Gap(r.d, x) = Gap(d, x) + IF x = Core THEN r.budget - unused ELSE 0
    BY <1>2, <1>5 DEF SameGaps, Inside
  <1> QED
    BY <1>1, <1>5, <1>6, <1>7, <1>8, <1>9, <1>10

\* The pay of a witness.
LEMMA WitnessPaid ==
    ASSUME NEW d, Good(d), NEW n \in Nat
    PROVE  LET e == deposit_lazy_vesting(d, "pay", Witness, n, PayPeriod, TRUE)
           IN  /\ Good(e) /\ e.assets = d.assets /\ e.now = d.now
               /\ \A x \in DOMAIN d.assets : Gap(e, x) = Gap(d, x) - IF x = Core THEN n ELSE 0
  <1>1. PayPeriod \in Nat /\ Witness \in Accounts
    BY LedgerAssumption DEF User
  <1> DEFINE P(e) == /\ Good(e) /\ e.assets = d.assets /\ e.now = d.now
                     /\ \A x \in DOMAIN d.assets : Gap(e, x) = Gap(d, x) - IF x = Core THEN n ELSE 0
  <1>2. ASSUME NEW f \in {"cashback", "pay"}, NEW w \in Accounts, NEW s \in Nat, NEW v \in BOOLEAN
        PROVE  P(deposit_lazy_vesting(d, f, w, n, s, v))
    BY DepositLazily
  <1>3. "pay" \in {"cashback", "pay"} /\ TRUE \in BOOLEAN
    OBVIOUS
  <1> HIDE DEF P
  <1>4. P(deposit_lazy_vesting(d, "pay", Witness, n, PayPeriod, TRUE))
    BY <1>1, <1>2, <1>3, Zenon
  <1> QED
    BY <1>4 DEF P

\* A block pays its witness out of the budget, and a maintenance makes the
\* next one.
LEMMA BlockStep ==
    ASSUME Good(Db), witness_budget \in Nat, last_budget \in Nat, last_budget <= now,
           cashback_period \in Periods, NEW t \in Nat, now <= t, apply_block(t)
    PROVE  /\ Good(Db') /\ DOMAIN assets' = DOMAIN assets /\ now' = t
           /\ witness_budget' \in Nat /\ last_budget' \in Nat /\ last_budget' <= t
           /\ cashback_period' \in Periods
           /\ \A x \in DOMAIN assets :
                Gap(Db', x) = Gap(Db, x) + IF x = Core THEN witness_budget' - witness_budget ELSE 0
  <1> DEFINE pay == Min({WitnessPay, witness_budget})
             b == Db
             d0 == [b EXCEPT !.now = t]
             d == deposit_lazy_vesting(d0, "pay", Witness, pay, PayPeriod, TRUE)
             unused == witness_budget - pay
  <1>1. /\ now' = t
        /\ IF NextMaintenance(now) <= t
           THEN perform_chain_maintenance(d, unused)
           ELSE /\ Becomes(d) /\ witness_budget' = unused
                /\ UNCHANGED <<last_budget, cashback_period>>
    BY DEF apply_block
  <1>2. /\ WitnessPay \in Nat /\ PayPeriod \in Nat /\ Witness \in Accounts /\ Periods \subseteq Nat
    BY LedgerAssumption DEF User
  <1>3. pay \in Nat /\ pay <= witness_budget
    BY <1>2, MinOfNats, Zenon
  <1> HIDE DEF pay
  <1>4. unused \in Nat
    BY <1>3
  <1>5. b.now = now /\ b.assets = assets /\ Good(b)
    BY DEF Db
  <1> HIDE DEF b
  <1>6. /\ Good(d0) /\ d0.assets = assets /\ d0.now = t
        /\ \A x \in DOMAIN assets : Gap(d0, x) = Gap(b, x) /\ Gap(b, x) \in Int
    BY <1>5, Advance, HeldParts
  <1> HIDE DEF d0
  <1>7. /\ Good(d) /\ d.assets = d0.assets /\ d.now = d0.now
        /\ \A x \in DOMAIN d0.assets : Gap(d, x) = Gap(d0, x) - IF x = Core THEN pay ELSE 0
    <2> DEFINE P(e, n) == /\ Good(e) /\ e.assets = d0.assets /\ e.now = d0.now
                          /\ \A x \in DOMAIN d0.assets :
                               Gap(e, x) = Gap(d0, x) - IF x = Core THEN n ELSE 0
    <2>1. ASSUME NEW n \in Nat
          PROVE  P(deposit_lazy_vesting(d0, "pay", Witness, n, PayPeriod, TRUE), n)
      BY <1>6, WitnessPaid
    <2>2. P(d, pay)
      <3> HIDE DEF P
      <3> QED
        BY <1>3, <2>1, Zenon
    <2> QED
      BY <2>2
  <1> HIDE DEF d
  <1>8. CASE NextMaintenance(now) <= t
    <2>1. perform_chain_maintenance(d, unused)
      BY <1>1, <1>8
    <2>2. d.now = t /\ last_budget <= d.now /\ cashback_period \in Nat
      <3>1. now \in Nat
        BY <1>5, DatabaseParts
      <3> QED
        BY <1>2, <1>6, <1>7, <3>1
    <2> HIDE DEF unused
    <2>3. /\ Good(Db') /\ DOMAIN assets' = DOMAIN d.assets
          /\ witness_budget' \in Nat /\ last_budget' = d.now /\ cashback_period' \in Periods
          /\ \A x \in DOMAIN d.assets :
               Gap(Db', x) = Gap(d, x) + IF x = Core THEN witness_budget' - unused ELSE 0
      BY <1>1, <1>4, <1>7, <2>1, <2>2, MaintenanceFacts
    <2> DEFINE e == Db'
               w == witness_budget'
    <2>4. ASSUME NEW x \in DOMAIN assets
          PROVE  Gap(e, x) = Gap(b, x) + IF x = Core THEN w - witness_budget ELSE 0
      <3>1. Gap(d0, x) = Gap(b, x) /\ Gap(b, x) \in Int
        BY <1>6
      <3>2. Gap(d, x) = Gap(d0, x) - IF x = Core THEN pay ELSE 0
        BY <1>6, <1>7
      <3>3. Gap(e, x) = Gap(d, x) + IF x = Core THEN w - unused ELSE 0
        BY <1>6, <1>7, <2>3
      <3>4. w \in Nat
        BY <2>3
      <3> HIDE DEF e, w
      <3> QED
        BY <1>3, <3>1, <3>2, <3>3, <3>4 DEF unused
    <2> HIDE DEF e
    <2>5. last_budget' \in Nat /\ last_budget' <= t /\ DOMAIN assets' = DOMAIN assets
      BY <1>6, <1>7, <2>2, <2>3
    <2> QED
      BY <1>1, <2>3, <2>4, <2>5 DEF e, b
  <1>9. CASE ~ (NextMaintenance(now) <= t)
    <2>1. Becomes(d) /\ witness_budget' = unused /\ last_budget' = last_budget
          /\ cashback_period' = cashback_period
      BY <1>1, <1>9
    <2>2. Db' = d
      BY <1>1, <1>6, <1>7, <2>1, DbAfter DEF Good
    <2>3. assets' = d.assets
      BY <2>1 DEF Becomes
    <2>4. ASSUME NEW x \in DOMAIN assets
          PROVE  Gap(d, x) = Gap(b, x) + IF x = Core THEN unused - witness_budget ELSE 0
      <3>1. Gap(d0, x) = Gap(b, x) /\ Gap(b, x) \in Int
        BY <1>6
      <3>2. Gap(d, x) = Gap(d0, x) - IF x = Core THEN pay ELSE 0
        BY <1>6, <1>7
      <3> QED
        BY <1>3, <3>1, <3>2
    <2> HIDE DEF unused
    <2>5. last_budget' \in Nat /\ last_budget' <= t
      <3>1. now \in Nat
        BY <1>5, DatabaseParts
      <3> QED
        BY <2>1, <3>1
    <2> QED
      BY <1>1, <1>4, <1>6, <1>7, <2>1, <2>2, <2>3, <2>4, <2>5 DEF b
  <1> QED
    BY <1>8, <1>9

-----------------------------------------------------------------------------
(* Withdraw permissions: the invariant.  Only the evaluators of permissions
   and the blocks touch the permission and its history. *)

Permit == [from : User, to : User, asset : Assets, claimed : Nat, limit : Nat,
           period : Nat \ {0}, start : Int, expiration : Int]

\* The types of what the permission depends on.
PermitTypes ==
    /\ permit # NoPermit => permit \in Permit
    /\ claims \in Seq([at : Nat, amount : Nat])
    /\ now \in Nat

AmountOf == [j \in DOMAIN claims |-> claims[j].amount]

\* The claims of the period that the permission is in, or is to start with.
Since(time) == {j \in DOMAIN claims : claims[j].at >= time}

\* claimed_this_period stands for what was claimed since the start of the
\* period, and before the first one for all that was claimed early.
ClaimedStands ==
    permit # NoPermit /\ claims # << >> =>
        /\ \A j \in DOMAIN claims : claims[j].at <= now
                                    /\ claims[j].at < permit.start + permit.period
        /\ permit.start - permit.period < now
        /\ Sum(AmountOf, Since(permit.start)) <= permit.claimed
        /\ now < permit.start => Sum(AmountOf, DOMAIN claims) <= permit.claimed
        /\ permit.claimed <= permit.limit

PermitInv == PermitTypes /\ ClaimedStands /\ ClaimsWithinLimit

-----------------------------------------------------------------------------
(* What the other operations leave alone *)

\* The permission is not touched by the other operations.
LEMMA OthersKeep ==
    ASSUME NEW n, NEW a, NEW to, NEW x, NEW p, NEW id, NEW g,
           \/ transfer(a, to, x, n) \/ override_transfer(a, to, x, n)
           \/ vesting_balance_create(a, to, x, n, p)
           \/ asset_reserve(a, x, n) \/ asset_fund_fee_pool(a, x, n) \/ asset_claim_fees(x, n)
           \/ asset_issue(x, to, n) \/ vesting_balance_withdraw(id, n)
           \/ balance_claim(g, to, n) \/ asset_create(x) \/ account_upgrade(a)
    PROVE  UNCHANGED <<permit, claims, now>>
  <1>1. CASE transfer(a, to, x, n)
    BY <1>1 DEF transfer, Operation, OperationFor, blockUnchanged, unpermitted
  <1>2. CASE override_transfer(a, to, x, n)
    BY <1>2 DEF override_transfer, Operation, OperationFor, blockUnchanged, unpermitted
  <1>3. CASE vesting_balance_create(a, to, x, n, p)
    BY <1>3 DEF vesting_balance_create, Operation, OperationFor, blockUnchanged, unpermitted
  <1>4. CASE asset_reserve(a, x, n)
    BY <1>4 DEF asset_reserve, Operation, OperationFor, blockUnchanged, unpermitted
  <1>5. CASE asset_fund_fee_pool(a, x, n)
    BY <1>5 DEF asset_fund_fee_pool, OperationFor, blockUnchanged, unpermitted
  <1>6. CASE asset_claim_fees(x, n)
    BY <1>6 DEF asset_claim_fees, Operation, OperationFor, blockUnchanged, unpermitted
  <1>7. CASE asset_issue(x, to, n)
    BY <1>7 DEF asset_issue, Operation, OperationFor, blockUnchanged, unpermitted
  <1>8. CASE vesting_balance_withdraw(id, n)
    BY <1>8 DEF vesting_balance_withdraw, Operation, OperationFor, blockUnchanged, unpermitted
  <1>9. CASE balance_claim(g, to, n)
    BY <1>9 DEF balance_claim, blockUnchanged
  <1>10. CASE asset_create(x)
    BY <1>10 DEF asset_create, blockUnchanged, unpermitted
  <1>11. CASE account_upgrade(a)
    BY <1>11 DEF account_upgrade, Operation, OperationFor, blockUnchanged, unpermitted
  <1> QED
    BY <1>1, <1>2, <1>3, <1>4, <1>5, <1>6, <1>7, <1>8, <1>9, <1>10, <1>11

-----------------------------------------------------------------------------
(* Arithmetic of the periods *)

\* Moving the start of the periods by whole periods moves all of them alike.
LEMMA PeriodsShift ==
    ASSUME NEW x \in Int, NEW P \in Nat \ {0}, NEW k \in Int
    PROVE  (x - k * P) \div P = x \div P - k
  OBVIOUS

\* How many periods the division of C++ moves the start by: none within a
\* period on either side of it, and else to the period of the time, from
\* before it up and from after it down.
LEMMA QuotientIs ==
    ASSUME NEW x \in Int, NEW P \in Nat \ {0}
    PROVE  /\ Quotient(x, P) \in Int
           /\ (- P < x /\ x < P) => Quotient(x, P) = 0
           /\ x >= P => /\ Quotient(x, P) >= 1
                        /\ Quotient(x, P) * P <= x /\ x < Quotient(x, P) * P + P
           /\ x <= - P => /\ Quotient(x, P) # 0
                          /\ Quotient(x, P) * P >= x
                          /\ Quotient(x, P) * P - P < x
  <1> DEFINE q == x \div P
             r == (- x) \div P
  <1>1. q \in Int /\ q * P <= x /\ x < q * P + P
    OBVIOUS
  <1>2. r \in Int /\ r * P <= - x /\ - x < r * P + P
    OBVIOUS
  <1>3. CASE x >= 0
    <2>1. Quotient(x, P) = q
      BY <1>3 DEF Quotient
    <2>2. x < P => q = 0
      BY <1>3
    <2>3. x >= P => q >= 1
      OBVIOUS
    <2> QED
      BY <1>1, <1>3, <2>1, <2>2, <2>3
  <1>4. CASE x < 0
    <2>1. Quotient(x, P) = - r
      BY <1>4 DEF Quotient
    <2>2. - P < x => r = 0
      BY <1>4
    <2>3. x <= - P => r >= 1
      OBVIOUS
    <2>4. (- r) * P = - (r * P)
      OBVIOUS
    <2> HIDE DEF r
    <2> QED
      BY <1>2, <1>4, <2>1, <2>2, <2>3, <2>4
  <1> QED
    BY <1>3, <1>4

\* What is left of a limit.
LEMMA MaxOfTwo ==
    ASSUME NEW x \in Int
    PROVE  Max({0, x}) = IF x >= 0 THEN x ELSE 0
  BY DEF Max

\* Fewer holders have no more.
LEMMA SumSubset ==
    ASSUME NEW S, IsFiniteSet(S), NEW T \in SUBSET S, NEW f, \A s \in S : f[s] \in Nat
    PROVE  Sum(f, T) <= Sum(f, S)
  <1>1. Units(f, T) \subseteq Units(f, S)
    BY DEF Units
  <1>2. IsFiniteSet(Units(f, S))
    BY UnitsFinite
  <1> QED
    BY <1>1, <1>2, FS_Subset DEF Sum

-----------------------------------------------------------------------------
(* The claims *)

\* The history before and after a claim.
LEMMA ClaimsFinite ==
    ASSUME PermitTypes
    PROVE  /\ DOMAIN claims = 1 .. Len(claims) /\ Len(claims) \in Nat
           /\ IsFiniteSet(DOMAIN claims)
           /\ \A j \in DOMAIN claims : AmountOf[j] = claims[j].amount /\ AmountOf[j] \in Nat
                                       /\ claims[j].at \in Nat
           /\ \A S \in SUBSET DOMAIN claims : IsFiniteSet(S) /\ Sum(AmountOf, S) \in Nat
  <1>1. DOMAIN claims = 1 .. Len(claims) /\ Len(claims) \in Nat
    BY DEF PermitTypes
  <1>2. IsFiniteSet(DOMAIN claims)
    BY <1>1, FS_Interval
  <1>3. \A j \in DOMAIN claims : AmountOf[j] = claims[j].amount /\ AmountOf[j] \in Nat
                                 /\ claims[j].at \in Nat
    <2>1. \A j \in DOMAIN claims : claims[j] \in [at : Nat, amount : Nat]
      BY <1>1, ElementOfSeq DEF PermitTypes
    <2> QED
      BY <2>1 DEF AmountOf
  <1>4. ASSUME NEW S \in SUBSET DOMAIN claims
        PROVE  IsFiniteSet(S) /\ Sum(AmountOf, S) \in Nat
    <2>1. IsFiniteSet(S)
      BY <1>2, FS_Subset
    <2> QED
      BY <2>1, <1>3, SumType
  <1> QED
    BY <1>1, <1>2, <1>3, <1>4

\* The claims of a period.
InPeriod(q) == {j \in DOMAIN claims : (claims[j].at - permit.start) \div permit.period = q}

\* A claim that is let through fits into the period that it falls into.
LEMMA ClaimFits ==
    ASSUME PermitInv, NEW n \in Nat \ {0}, permit # NoPermit,
           n <= available_this_period(permit)
    PROVE  LET q == (now - permit.start) \div permit.period
               periods == Quotient(now - permit.start, permit.period)
           IN  /\ Sum(AmountOf, InPeriod(q)) + n <= permit.limit
               /\ n <= permit.limit
               /\ periods = 0 => /\ permit.claimed + n <= permit.limit
                                 /\ permit.start - permit.period < now
                                 /\ now < permit.start + permit.period
               /\ periods # 0 => \/ now >= permit.start + permit.period
                                 \/ now <= permit.start - permit.period /\ claims = << >>
  <1> DEFINE st == permit.start
             P == permit.period
             q == (now - st) \div P
             periods == Quotient(now - st, P)
  <1>1. /\ st \in Int /\ P \in Nat \ {0} /\ now \in Nat
        /\ permit.claimed \in Nat /\ permit.limit \in Nat
    BY DEF PermitInv, PermitTypes, Permit
  <1>2. now < st + P => permit.claimed + n <= permit.limit
    BY <1>1, MaxOfTwo DEF available_this_period
  <1>3. n <= permit.limit
    BY <1>1, <1>2 DEF available_this_period
  <1>4. /\ - P < now - st /\ now - st < P => periods = 0
        /\ now - st >= P => periods >= 1
        /\ now - st <= - P => periods # 0
        /\ periods \in Int
    <2> DEFINE x == now - st
    <2>1. x \in Int
      BY <1>1
    <2> HIDE DEF x, P
    <2>2. /\ - P < x /\ x < P => Quotient(x, P) = 0
          /\ x >= P => Quotient(x, P) >= 1
          /\ x <= - P => Quotient(x, P) # 0
          /\ Quotient(x, P) \in Int
      BY <1>1, <2>1, QuotientIs
    <2> QED
      BY <2>2 DEF x, P
  <1>5. now <= st - P => claims = << >>
    BY <1>1 DEF PermitInv, ClaimedStands
  <1>6. \A S \in SUBSET DOMAIN claims : Sum(AmountOf, S) \in Nat
    BY ClaimsFinite DEF PermitInv
  <1>7. Sum(AmountOf, {}) = 0
    BY SumEmpty
  <1>8. Sum(AmountOf, InPeriod(q)) + n <= permit.limit
    <2>1. CASE claims = << >>
      <3>1. InPeriod(q) = {}
        BY <2>1 DEF InPeriod
      <3> HIDE DEF q
      <3> QED
        BY <3>1, <1>3, <1>7
    <2>2. CASE claims # << >> /\ now >= st + P
      <3>1. \A j \in DOMAIN claims : claims[j].at \in Nat /\ claims[j].at < st + P
        BY <2>2, ClaimsFinite DEF PermitInv, ClaimedStands
      <3>2. q >= 1
        BY <1>1, <2>2
      <3>3. \A j \in DOMAIN claims : (claims[j].at - st) \div P <= 0
        BY <1>1, <3>1
      <3>4. \A j \in DOMAIN claims : (claims[j].at - st) \div P \in Int
        BY <1>1, <3>1
      <3>5. q \in Int
        BY <1>1
      <3> HIDE DEF q
      <3>6. InPeriod(q) = {}
        BY <3>2, <3>3, <3>4, <3>5 DEF InPeriod
      <3> QED
        BY <3>6, <1>3, <1>7
    <2>3. CASE claims # << >> /\ st <= now /\ now < st + P
      <3>1. \A j \in DOMAIN claims : claims[j].at \in Nat
        BY ClaimsFinite DEF PermitInv
      <3>2. q = 0
        BY <1>1, <2>3, SMTT(20)
      <3>3. \A j \in DOMAIN claims : (claims[j].at - st) \div P = 0 => claims[j].at >= st
        BY <1>1, <3>1
      <3>4. InPeriod(q) \subseteq Since(st) /\ Since(st) \subseteq DOMAIN claims
        BY <3>2, <3>3 DEF InPeriod, Since
      <3>5. /\ IsFiniteSet(Since(st))
            /\ \A j \in Since(st) : AmountOf[j] \in Nat
        BY <3>4, ClaimsFinite DEF PermitInv
      <3>6. Sum(AmountOf, InPeriod(q)) <= Sum(AmountOf, Since(st))
        BY <3>4, <3>5, SumSubset
      <3>7. Sum(AmountOf, Since(st)) <= permit.claimed
        BY <2>3 DEF PermitInv, ClaimedStands
      <3>8. Sum(AmountOf, InPeriod(q)) \in Nat /\ Sum(AmountOf, Since(st)) \in Nat
        BY <1>6, <3>4
      <3> QED
        BY <1>1, <1>2, <2>3, <3>6, <3>7, <3>8
    <2>4. CASE claims # << >> /\ now < st
      <3>1. InPeriod(q) \subseteq DOMAIN claims
        BY DEF InPeriod
      <3>2. Sum(AmountOf, InPeriod(q)) <= Sum(AmountOf, DOMAIN claims)
        BY <3>1, SumSubset, ClaimsFinite DEF PermitInv
      <3>3. Sum(AmountOf, DOMAIN claims) <= permit.claimed
        BY <2>4 DEF PermitInv, ClaimedStands
      <3>4. Sum(AmountOf, InPeriod(q)) \in Nat /\ Sum(AmountOf, DOMAIN claims) \in Nat
        BY <1>6, <3>1
      <3> QED
        BY <1>1, <1>2, <2>4, <3>2, <3>3, <3>4
    <2> QED
      BY <1>1, <2>1, <2>2, <2>3, <2>4
  <1> HIDE DEF periods, q
  <1>9. periods = 0 => st - P < now /\ now < st + P
    BY <1>1, <1>4
  <1>10. periods # 0 => now >= st + P \/ now <= st - P
    BY <1>1, <1>4
  <1>11. /\ Sum(AmountOf, InPeriod(q)) + n <= permit.limit
         /\ n <= permit.limit
         /\ periods = 0 => permit.claimed + n <= permit.limit /\ st - P < now /\ now < st + P
         /\ periods # 0 => now >= st + P \/ (now <= st - P /\ claims = << >>)
    BY <1>2, <1>3, <1>5, <1>8, <1>9, <1>10
  <1> QED
    BY <1>11 DEF q, periods

\* What a claim does to the permission, to the history and to the sums of it.
LEMMA ClaimDoes ==
    ASSUME PermitInv, NEW n \in Nat \ {0}, withdraw_permission_claim(n)
    PROVE  LET L == Len(claims)
               periods == Quotient(now - permit.start, permit.period)
           IN  /\ permit # NoPermit /\ n <= available_this_period(permit) /\ now' = now
               /\ permit' \in Permit
               /\ permit'.limit = permit.limit /\ permit'.period = permit.period
               /\ permit'.start = permit.start + periods * permit.period
               /\ permit'.claimed = IF periods = 0 THEN permit.claimed + n ELSE n
               /\ claims' \in Seq([at : Nat, amount : Nat])
               /\ L + 1 \notin DOMAIN claims
               /\ DOMAIN claims' = DOMAIN claims \cup {L + 1}
               /\ \A j \in DOMAIN claims : claims'[j] = claims[j]
               /\ claims'[L + 1] = [at |-> now, amount |-> n]
               /\ \A S \in SUBSET DOMAIN claims :
                    /\ Sum(AmountOf', S) = Sum(AmountOf, S)
                    /\ Sum(AmountOf', S \cup {L + 1}) = Sum(AmountOf, S) + n
  <1> DEFINE L == Len(claims)
             periods == Quotient(now - permit.start, permit.period)
             new == [at |-> now, amount |-> n]
  <1>1. /\ permit # NoPermit /\ n <= available_this_period(permit) /\ now' = now
        /\ permit' = [permit EXCEPT !.start = @ + periods * permit.period,
                                    !.claimed = IF periods = 0 THEN @ + n ELSE n]
        /\ claims' = Append(claims, new)
    BY DEF withdraw_permission_claim, Operation, OperationFor, blockUnchanged
  <1>2. permit \in Permit /\ claims \in Seq([at : Nat, amount : Nat]) /\ now \in Nat
    BY <1>1 DEF PermitInv, PermitTypes
  <1>3. periods \in Int
    <2> DEFINE x == now - permit.start
    <2>1. x \in Int /\ permit.period \in Nat \ {0}
      BY <1>2 DEF Permit
    <2> HIDE DEF x
    <2>2. Quotient(x, permit.period) \in Int
      BY <2>1, QuotientIs
    <2> QED
      BY <2>2 DEF x
  <1> HIDE DEF periods
  <1>4. /\ permit' \in Permit
        /\ permit'.limit = permit.limit /\ permit'.period = permit.period
        /\ permit'.start = permit.start + periods * permit.period
        /\ permit'.claimed = IF periods = 0 THEN permit.claimed + n ELSE n
    <2> DEFINE move == periods * permit.period
               sum == IF periods = 0 THEN permit.claimed + n ELSE n
    <2>1. permit.period \in Int /\ permit.start \in Int /\ permit.claimed \in Nat
      BY <1>2 DEF Permit
    <2>2. /\ move \in Int /\ permit.start + move \in Int /\ sum \in Nat
      BY <1>3, <2>1
    <2>3. permit' = [permit EXCEPT !.start = permit.start + move, !.claimed = sum]
      BY <1>1, <1>2 DEF Permit
    <2> HIDE DEF move, sum
    <2>4. /\ permit' \in Permit
          /\ permit'.limit = permit.limit /\ permit'.period = permit.period
          /\ permit'.start = permit.start + move /\ permit'.claimed = sum
      BY <1>2, <2>2, <2>3 DEF Permit
    <2> QED
      BY <2>4 DEF move, sum
  <1>5. new \in [at : Nat, amount : Nat]
    BY <1>2
  <1>6. /\ DOMAIN claims = 1 .. L /\ L \in Nat
        /\ \A S \in SUBSET DOMAIN claims : IsFiniteSet(S) /\ Sum(AmountOf, S) \in Nat
        /\ \A j \in DOMAIN claims : AmountOf[j] = claims[j].amount /\ AmountOf[j] \in Nat
    BY ClaimsFinite DEF PermitInv
  <1> HIDE DEF new
  <1>7. /\ claims' \in Seq([at : Nat, amount : Nat])
        /\ DOMAIN claims' = DOMAIN claims \cup {L + 1}
        /\ \A j \in DOMAIN claims : claims'[j] = claims[j]
        /\ claims'[L + 1] = new
        /\ L + 1 \notin DOMAIN claims
    <2>1. /\ Append(claims, new) \in Seq([at : Nat, amount : Nat])
          /\ Len(Append(claims, new)) = L + 1
          /\ \A j \in 1 .. L : Append(claims, new)[j] = claims[j]
          /\ Append(claims, new)[L + 1] = new
      BY <1>2, <1>5, <1>6, AppendProperties
    <2>2. DOMAIN Append(claims, new) = 1 .. (L + 1)
      BY <2>1
    <2> QED
      BY <1>1, <1>6, <2>1, <2>2
  <1>8. ASSUME NEW S \in SUBSET DOMAIN claims
        PROVE  /\ Sum(AmountOf', S) = Sum(AmountOf, S)
               /\ Sum(AmountOf', S \cup {L + 1}) = Sum(AmountOf, S) + n
    <2> DEFINE f == AmountOf
               g == [j \in DOMAIN claims' |-> claims'[j].amount]
    <2>1. AmountOf' = g
      BY DEF AmountOf
    <2>2. \A j \in DOMAIN claims : g[j] = f[j] /\ f[j] \in Nat
      BY <1>6, <1>7
    <2>3. g[L + 1] = n
      BY <1>7 DEF new
    <2> HIDE DEF f, g
    <2>4. Sum(g, S) = Sum(f, S)
      <3>1. \A s \in S : g[s] = f[s]
        BY <2>2
      <3> QED
        BY <3>1, SumEqual
    <2>5. Sum(g, S \cup {L + 1}) = Sum(g, S) + g[L + 1]
      <3> DEFINE e == L + 1
      <3>1. \A t \in S \cup {e} : g[t] \in Nat
        BY <2>2, <2>3
      <3>2. IsFiniteSet(S) /\ e \notin S
        BY <1>6, <1>7
      <3> HIDE DEF e
      <3>3. Sum(g, S \cup {e}) = Sum(g, S) + g[e]
        BY <3>1, <3>2, SumAdd
      <3> QED
        BY <3>3 DEF e
    <2> QED
      BY <2>1, <2>3, <2>4, <2>5 DEF f
  <1> QED
    BY <1>1, <1>4, <1>7, <1>8 DEF periods, new

\* The limit of every period is kept by a claim: the periods move as a whole,
\* and the claim fits into its own.
LEMMA ClaimKeepsLimit ==
    ASSUME PermitInv, NEW n \in Nat \ {0}, withdraw_permission_claim(n)
    PROVE  ClaimsWithinLimit'
  <1> DEFINE L == Len(claims)
             st == permit.start
             P == permit.period
             k == Quotient(now - st, P)
             Old(t) == (t - st) \div P
             New(t) == (t - permit'.start) \div permit'.period
  <1>1. /\ permit # NoPermit /\ n <= available_this_period(permit) /\ now' = now
        /\ permit'.limit = permit.limit /\ permit'.period = P
        /\ permit'.start = st + k * P
        /\ L + 1 \notin DOMAIN claims
        /\ DOMAIN claims' = DOMAIN claims \cup {L + 1}
        /\ \A j \in DOMAIN claims : claims'[j] = claims[j]
        /\ claims'[L + 1] = [at |-> now, amount |-> n]
        /\ \A S \in SUBSET DOMAIN claims :
             /\ Sum(AmountOf', S) = Sum(AmountOf, S)
             /\ Sum(AmountOf', S \cup {L + 1}) = Sum(AmountOf, S) + n
    BY ClaimDoes
  <1>2. st \in Int /\ P \in Nat \ {0} /\ now \in Nat
    BY <1>1 DEF PermitInv, PermitTypes, Permit
  <1>3. k \in Int
    <2> DEFINE x == now - st
    <2>1. x \in Int
      BY <1>2
    <2> HIDE DEF x
    <2>2. Quotient(x, P) \in Int
      BY <1>2, <2>1, QuotientIs
    <2> QED
      BY <2>2 DEF x
  <1>4. Sum(AmountOf, InPeriod(Old(now))) + n <= permit.limit
    BY <1>1, ClaimFits
  <1> HIDE DEF k
  <1>5. \A t \in Nat : New(t) = Old(t) - k /\ Old(t) \in Int
    <2> TAKE t \in Nat
    <2> DEFINE x == t - st
    <2>1. x \in Int /\ t - (st + k * P) = x - k * P
      BY <1>2, <1>3
    <2>2. (x - k * P) \div P = x \div P - k
      BY <1>2, <1>3, <2>1, PeriodsShift
    <2>3. x \div P \in Int
      BY <1>2, <2>1
    <2> QED
      BY <1>1, <2>1, <2>2, <2>3
  <1> HIDE DEF New, Old
  <1>6. \A s, t \in Nat : New(s) = New(t) <=> Old(s) = Old(t)
    BY <1>3, <1>5
  <1>7. \A j \in DOMAIN claims' : claims'[j].at \in Nat
    BY <1>1, <1>2, ClaimsFinite DEF PermitInv
  <1> SUFFICES ASSUME NEW i \in DOMAIN claims'
               PROVE  Sum(AmountOf', {j \in DOMAIN claims' : New(claims'[j].at) = New(claims'[i].at)})
                          <= permit.limit
    BY <1>1 DEF ClaimsWithinLimit, New, AmountOf
  <1> DEFINE G == {j \in DOMAIN claims' : New(claims'[j].at) = New(claims'[i].at)}
             q == Old(claims'[i].at)
  <1> SUFFICES Sum(AmountOf', G) <= permit.limit
    OBVIOUS
  <1>8. InPeriod(q) = {j \in DOMAIN claims : Old(claims[j].at) = q}
    BY DEF InPeriod, Old
  <1>9. G = {j \in DOMAIN claims' : Old(claims'[j].at) = q}
    BY <1>6, <1>7
  <1>10. CASE Old(now) = q
    <2>1. G = InPeriod(q) \cup {L + 1}
      BY <1>1, <1>8, <1>9, <1>10
    <2>2. InPeriod(q) \in SUBSET DOMAIN claims
      BY <1>8
    <2> HIDE DEF G
    <2> QED
      BY <1>1, <1>4, <1>10, <2>1, <2>2
  <1>11. CASE Old(now) # q
    <2>1. G = InPeriod(q)
      BY <1>1, <1>8, <1>9, <1>11
    <2>2. InPeriod(q) \in SUBSET DOMAIN claims
      BY <1>8
    <2>3. i \in DOMAIN claims /\ claims'[i] = claims[i]
      BY <1>1, <1>11
    <2>4. Sum(AmountOf, InPeriod(q)) <= permit.limit
      BY <1>1, <2>3 DEF PermitInv, ClaimsWithinLimit, InPeriod, Old, AmountOf
    <2> HIDE DEF G
    <2> QED
      BY <1>1, <2>1, <2>2, <2>4
  <1> QED
    BY <1>10, <1>11

\* claimed_this_period stands for the claims after a claim as well.
LEMMA ClaimKeepsStanding ==
    ASSUME PermitInv, NEW n \in Nat \ {0}, withdraw_permission_claim(n)
    PROVE  ClaimedStands'
  <1> DEFINE L == Len(claims)
             st == permit.start
             P == permit.period
             k == Quotient(now - st, P)
             move == k * P
             late == {j \in DOMAIN claims' : claims'[j].at >= permit'.start}
  <1>1. /\ permit # NoPermit /\ n <= available_this_period(permit) /\ now' = now
        /\ permit'.limit = permit.limit /\ permit'.period = P
        /\ permit'.start = st + move
        /\ permit'.claimed = IF k = 0 THEN permit.claimed + n ELSE n
        /\ L + 1 \notin DOMAIN claims
        /\ DOMAIN claims' = DOMAIN claims \cup {L + 1}
        /\ \A j \in DOMAIN claims : claims'[j] = claims[j]
        /\ claims'[L + 1] = [at |-> now, amount |-> n]
        /\ \A S \in SUBSET DOMAIN claims :
             /\ Sum(AmountOf', S) = Sum(AmountOf, S)
             /\ Sum(AmountOf', S \cup {L + 1}) = Sum(AmountOf, S) + n
    BY ClaimDoes
  <1>2. /\ st \in Int /\ P \in Nat \ {0} /\ now \in Nat
        /\ permit.claimed \in Nat /\ permit.limit \in Nat
    BY <1>1 DEF PermitInv, PermitTypes, Permit
  <1>3. /\ now >= st + P => k >= 1 /\ move <= now - st /\ now - st < move + P
        /\ now <= st - P => move >= now - st /\ move - P < now - st
        /\ k \in Int
    <2> DEFINE x == now - st
    <2>1. x \in Int
      BY <1>2
    <2> HIDE DEF x
    <2>2. /\ Quotient(x, P) \in Int
          /\ x >= P => /\ Quotient(x, P) >= 1
                       /\ Quotient(x, P) * P <= x /\ x < Quotient(x, P) * P + P
          /\ x <= - P => Quotient(x, P) * P >= x /\ Quotient(x, P) * P - P < x
      BY <1>2, <2>1, QuotientIs
    <2>3. (x >= P <=> now >= st + P) /\ (x <= - P <=> now <= st - P)
      BY <1>2 DEF x
    <2> QED
      BY <2>2, <2>3 DEF x
  <1>4. /\ n <= permit.limit
        /\ k = 0 => permit.claimed + n <= permit.limit /\ st - P < now /\ now < st + P
        /\ k # 0 => now >= st + P \/ (now <= st - P /\ claims = << >>)
    BY <1>1, ClaimFits
  <1>5. k >= 1 => move >= P
    BY <1>2, <1>3
  <1>6. move \in Int /\ (k = 0 => move = 0)
    BY <1>2, <1>3
  <1> HIDE DEF k, move
  <1>7. /\ \A S \in SUBSET DOMAIN claims : IsFiniteSet(S) /\ Sum(AmountOf, S) \in Nat
        /\ IsFiniteSet(DOMAIN claims)
        /\ \A j \in DOMAIN claims : claims[j].at \in Nat /\ AmountOf[j] \in Nat
    BY ClaimsFinite DEF PermitInv
  <1>8. /\ Sum(AmountOf, {}) = 0 /\ Sum(AmountOf', {}) = 0
        /\ Sum(AmountOf', {L + 1}) = n
    <2>1. Sum(AmountOf, {}) = 0
      BY SumEmpty
    <2>2. Sum(AmountOf', {}) = Sum(AmountOf, {})
      BY <1>1
    <2>3. Sum(AmountOf', {} \cup {L + 1}) = Sum(AmountOf, {}) + n
      BY <1>1
    <2>4. {} \cup {L + 1} = {L + 1}
      OBVIOUS
    <2> QED
      BY <2>1, <2>2, <2>3, <2>4
  <1>9. /\ \A j \in DOMAIN claims : claims[j].at <= now /\ claims[j].at < st + P
        /\ claims # << >> => /\ st - P < now
                             /\ Sum(AmountOf, Since(st)) <= permit.claimed
                             /\ now < st => Sum(AmountOf, DOMAIN claims) <= permit.claimed
    <2>1. CASE claims = << >>
      BY <2>1
    <2>2. CASE claims # << >>
      BY <1>1, <2>2 DEF PermitInv, ClaimedStands
    <2> QED
      BY <2>1, <2>2
  <1>10. claims = << >> => DOMAIN claims = {}
    OBVIOUS
  <1>11. \A j \in DOMAIN claims' : /\ claims'[j].at <= now
                                   /\ claims'[j].at < permit'.start + P
    <2>1. now < permit'.start + P
      BY <1>1, <1>2, <1>3, <1>4, <1>6, SMTT(20)
    <2>2. ASSUME NEW j \in DOMAIN claims
          PROVE  claims[j].at <= now /\ claims[j].at < permit'.start + P
      <3>1. move >= 0
        BY <1>2, <1>3, <1>4, <1>5, <1>6, <1>10
      <3>2. \A u \in Int : u < st + P => u < st + move + P
        BY <1>2, <1>6, <3>1
      <3>3. claims[j].at \in Int /\ claims[j].at <= now /\ claims[j].at < st + P
        BY <1>7, <1>9
      <3> QED
        BY <1>1, <3>2, <3>3, Zenon
    <2> QED
      BY <1>1, <1>2, <2>1, <2>2
  <1>12. permit'.start - P < now
    BY <1>1, <1>2, <1>3, <1>4, <1>6, SMTT(20)
  <1>13. permit'.claimed <= permit.limit
    BY <1>1, <1>2, <1>4
  <1>14. now < permit'.start => Sum(AmountOf', DOMAIN claims') <= permit'.claimed
    <2>1. Sum(AmountOf', DOMAIN claims') = Sum(AmountOf, DOMAIN claims) + n
      BY <1>1
    <2>2. Sum(AmountOf, DOMAIN claims) \in Nat
      BY <1>7
    <2>3. CASE claims = << >>
      BY <1>1, <1>2, <1>8, <1>10, <2>1, <2>3
    <2>4. CASE claims # << >>
      BY <1>1, <1>2, <1>3, <1>4, <1>6, <1>9, <2>1, <2>2, <2>4, SMTT(20)
    <2> QED
      BY <2>3, <2>4
  <1>15. Sum(AmountOf', late) <= permit'.claimed
    <2>1. CASE k = 0 /\ now >= st
      <3>1. late = Since(st) \cup {L + 1} /\ Since(st) \in SUBSET DOMAIN claims
        BY <1>1, <1>2, <1>6, <2>1 DEF Since
      <3>2. Sum(AmountOf', late) = Sum(AmountOf, Since(st)) + n
        BY <1>1, <3>1
      <3>3. Sum(AmountOf, Since(st)) <= permit.claimed /\ Sum(AmountOf, Since(st)) \in Nat
        <4>1. CASE claims = << >>
          <5>1. Since(st) = {}
            BY <1>10, <3>1, <4>1
          <5> QED
            BY <1>2, <1>8, <5>1
        <4>2. CASE claims # << >>
          BY <1>7, <1>9, <3>1, <4>2
        <4> QED
          BY <4>1, <4>2
      <3> HIDE DEF late
      <3> QED
        BY <1>1, <1>2, <2>1, <3>2, <3>3
    <2>2. CASE k = 0 /\ now < st
      <3>1. late = {}
        BY <1>1, <1>2, <1>6, <1>7, <1>11, <1>9, <2>2
      <3> HIDE DEF late
      <3> QED
        BY <1>1, <1>2, <1>8, <2>2, <3>1
    <2>3. CASE k # 0
      <3>1. late \subseteq {L + 1}
        BY <1>1, <1>2, <1>3, <1>4, <1>5, <1>6, <1>7, <1>9, <1>10, <2>3, SMTT(20)
      <3>2. late = {} \/ late = {L + 1}
        BY <3>1
      <3>3. permit'.claimed = n
        BY <1>1, <2>3
      <3>4. Sum(AmountOf', late) = 0 \/ Sum(AmountOf', late) = n
        BY <1>8, <3>2, Zenon
      <3> HIDE DEF late
      <3> QED
        BY <3>3, <3>4
    <2> QED
      BY <1>2, <2>1, <2>2, <2>3
  <1>16. Since(permit.start)' = late
    BY DEF Since
  <1> QED
    BY <1>1, <1>11, <1>12, <1>13, <1>14, <1>15, <1>16 DEF ClaimedStands

-----------------------------------------------------------------------------
(* The theorem *)

\* A claim, new terms, the end of the permission and a block.
LEMMA PermitSteps ==
    ASSUME PermitInv, [Next]_vars
    PROVE  PermitInv'
  <1> USE LedgerAssumption, TermsAssumption
  <1>1. ASSUME UNCHANGED <<permit, claims, now>>
        PROVE  PermitInv'
    BY <1>1, ZenonT(30) DEF PermitInv, PermitTypes, ClaimedStands, ClaimsWithinLimit, Since, AmountOf
  <1>2. \A t \in Terms : /\ t[1] \in Nat /\ t[2] \in Nat \ {0} /\ t[3] \in Nat /\ t[4] \in Nat
                         /\ Expiration(t) \in Int
    <2> TAKE t \in Terms
    <2>1. t[1] \in Nat /\ t[2] \in Nat \ {0} /\ t[3] \in Nat /\ t[4] \in Nat
      OBVIOUS
    <2> QED
      BY <2>1 DEF Expiration
  <1>3. ASSUME claims' = << >>, now' \in Nat, permit' # NoPermit => permit' \in Permit
        PROVE  PermitInv'
    BY <1>3 DEF PermitInv, PermitTypes, ClaimedStands, ClaimsWithinLimit
  <1>4. ASSUME NEW n \in Amounts, withdraw_permission_claim(n)
        PROVE  PermitInv'
    <2>1. n \in Nat \ {0}
      OBVIOUS
    <2>2. PermitTypes'
      BY <1>4, <2>1, ClaimDoes DEF PermitTypes, PermitInv
    <2> QED
      BY <1>4, <2>1, <2>2, ClaimKeepsLimit, ClaimKeepsStanding DEF PermitInv
  <1>5. ASSUME NEW x \in Assets, NEW t \in Terms, withdraw_permission_update(x, t)
        PROVE  PermitInv'
    <2>1. /\ permit' = [permit EXCEPT !.asset = x, !.limit = t[1], !.period = t[2],
                                      !.start = t[3], !.expiration = Expiration(t)]
          /\ claims' = << >> /\ now' = now /\ permit # NoPermit
      BY <1>5 DEF withdraw_permission_update, Operation, OperationFor, blockUnchanged
    <2>2. permit \in Permit /\ now \in Nat
      BY <2>1 DEF PermitInv, PermitTypes
    <2> DEFINE limit == t[1]
               period == t[2]
               start == t[3]
               end == Expiration(t)
    <2>3. limit \in Nat /\ period \in Nat \ {0} /\ start \in Int /\ end \in Int
      BY <1>2
    <2>4. permit' = [permit EXCEPT !.asset = x, !.limit = limit, !.period = period,
                                   !.start = start, !.expiration = end]
      BY <2>1
    <2> HIDE DEF limit, period, start, end
    <2>5. permit' \in Permit
      BY <2>2, <2>3, <2>4 DEF Permit
    <2> QED
      BY <1>3, <2>1, <2>2, <2>5
  <1>6. ASSUME NEW t \in Terms, NEW a \in User, NEW to \in User, NEW x \in Assets,
               withdraw_permission_create(a, to, x, t)
        PROVE  PermitInv'
    <2>1. /\ permit' = [from |-> a, to |-> to, asset |-> x, claimed |-> 0, limit |-> t[1],
                        period |-> t[2], start |-> t[3], expiration |-> Expiration(t)]
          /\ claims' = << >> /\ now' = now
      BY <1>6 DEF withdraw_permission_create, Operation, OperationFor, blockUnchanged
    <2>2. permit' \in Permit /\ now \in Nat
      BY <1>2, <2>1 DEF Permit, PermitInv, PermitTypes
    <2> QED
      BY <1>3, <2>1, <2>2
  <1>7. ASSUME withdraw_permission_delete
        PROVE  PermitInv'
    <2>1. permit' = NoPermit /\ claims' = << >> /\ now' = now /\ now \in Nat
      BY <1>7 DEF withdraw_permission_delete, Operation, OperationFor, blockUnchanged,
                  PermitInv, PermitTypes
    <2> QED
      BY <1>3, <2>1
  <1>8. ASSUME NEW s \in Slots, apply_block(now + s)
        PROVE  PermitInv'
    <2>1. now \in Nat /\ s \in Nat
      BY DEF PermitInv, PermitTypes
    <2>2. now' = now + s
      BY <1>8 DEF apply_block
    <2>3. CASE permit # NoPermit /\ permit.expiration <= now + s
      <3>1. permit' = NoPermit /\ claims' = << >>
        BY <1>8, <2>3 DEF apply_block
      <3> QED
        BY <1>3, <2>1, <2>2, <3>1
    <2>4. CASE ~(permit # NoPermit /\ permit.expiration <= now + s)
      <3>1. permit' = permit /\ claims' = claims
        BY <1>8, <2>4 DEF apply_block
      <3>2. PermitTypes'
        BY <2>1, <2>2, <3>1 DEF PermitInv, PermitTypes
      <3>3. ClaimsWithinLimit'
        BY <3>1, ZenonT(30) DEF PermitInv, ClaimsWithinLimit
      <3>4. AmountOf' = AmountOf /\ Since(permit.start)' = Since(permit.start)
        BY <3>1 DEF AmountOf, Since
      <3>5. ClaimedStands'
        <4> SUFFICES ASSUME permit # NoPermit, claims # << >>
                     PROVE  /\ \A j \in DOMAIN claims :
                                  claims[j].at <= now' /\ claims[j].at < permit.start + permit.period
                            /\ permit.start - permit.period < now'
                            /\ Sum(AmountOf, Since(permit.start)) <= permit.claimed
                            /\ now' < permit.start =>
                                 Sum(AmountOf, DOMAIN claims) <= permit.claimed
                            /\ permit.claimed <= permit.limit
          BY <3>1, <3>4 DEF ClaimedStands
        <4>1. /\ \A j \in DOMAIN claims :
                    claims[j].at <= now /\ claims[j].at < permit.start + permit.period
              /\ permit.start - permit.period < now
              /\ Sum(AmountOf, Since(permit.start)) <= permit.claimed
              /\ now < permit.start => Sum(AmountOf, DOMAIN claims) <= permit.claimed
              /\ permit.claimed <= permit.limit
          BY DEF PermitInv, ClaimedStands
        <4>2. \A j \in DOMAIN claims : claims[j].at \in Nat
          BY ClaimsFinite DEF PermitInv
        <4>3. permit.start \in Int /\ permit.period \in Nat
          BY DEF PermitInv, PermitTypes, Permit
        <4>4. \A j \in DOMAIN claims : claims[j].at <= now'
          <5>1. \A u \in Nat : u <= now => u <= now'
            BY <2>1, <2>2
          <5> QED
            BY <4>1, <4>2, <5>1, Zenon
        <4>5. /\ permit.start - permit.period < now'
              /\ now' < permit.start => now < permit.start
          <5>1. \A u \in Int : (u < now => u < now') /\ (now' < u => now < u)
            BY <2>1, <2>2
          <5>2. permit.start - permit.period \in Int
            BY <4>3, SMTT(20)
          <5> QED
            BY <4>1, <4>3, <5>1, <5>2, Zenon
        <4> QED
          BY <4>1, <4>4, <4>5, Zenon
      <3> QED
        BY <3>2, <3>3, <3>5 DEF PermitInv
    <2> QED
      BY <2>3, <2>4
  <1>9. ASSUME NEW n, NEW a, NEW to, NEW x, NEW p, NEW id, NEW g,
               \/ transfer(a, to, x, n) \/ override_transfer(a, to, x, n)
               \/ vesting_balance_create(a, to, x, n, p)
               \/ asset_reserve(a, x, n) \/ asset_fund_fee_pool(a, x, n)
               \/ asset_claim_fees(x, n) \/ asset_issue(x, to, n)
               \/ vesting_balance_withdraw(id, n) \/ balance_claim(g, to, n)
               \/ asset_create(x) \/ account_upgrade(a)
        PROVE  PermitInv'
    BY <1>1, <1>9, OthersKeep
  <1>10. CASE UNCHANGED vars
    BY <1>1, <1>10 DEF vars
  <1>11. CASE Next
    <2> USE <1>11
    <2>1. CASE \E n \in Amounts : withdraw_permission_claim(n)
      BY <1>4, <2>1
    <2>2. CASE \E x \in Assets, t \in Terms :
                  \/ withdraw_permission_update(x, t)
                  \/ \E a, to \in User : withdraw_permission_create(a, to, x, t)
      BY <1>5, <1>6, <2>2
    <2>3. CASE \E s \in Slots : apply_block(now + s)
      BY <1>8, <2>3
    <2>4. /\ \A n, a, to, x : transfer(a, to, x, n) => PermitInv'
          /\ \A n, a, to, x : override_transfer(a, to, x, n) => PermitInv'
          /\ \A n, a, to, x, p : vesting_balance_create(a, to, x, n, p) => PermitInv'
      BY <1>9, Zenon
    <2>5. /\ \A n, a, x : asset_reserve(a, x, n) => PermitInv'
          /\ \A n, a, x : asset_fund_fee_pool(a, x, n) => PermitInv'
          /\ \A n, x : asset_claim_fees(x, n) => PermitInv'
          /\ \A n, to, x : asset_issue(x, to, n) => PermitInv'
      BY <1>9, Zenon
    <2>6. /\ \A n, id : vesting_balance_withdraw(id, n) => PermitInv'
          /\ \A n, to, g : balance_claim(g, to, n) => PermitInv'
          /\ \A x : asset_create(x) => PermitInv'
          /\ \A a : account_upgrade(a) => PermitInv'
      BY <1>9, Zenon
    <2> QED
      BY <1>7, <2>1, <2>2, <2>3, <2>4, <2>5, <2>6 DEF Next
  <1> QED
    BY <1>10, <1>11

LEMMA PermitInvariant == Spec => []PermitInv
  <1>1. Init => PermitInv
    <2> SUFFICES ASSUME Init
                 PROVE  PermitInv
      OBVIOUS
    <2>1. permit = NoPermit /\ claims = << >> /\ now = 1
      BY DEF Init
    <2> QED
      BY <2>1 DEF PermitInv, PermitTypes, ClaimedStands, ClaimsWithinLimit
  <1>2. PermitInv /\ [Next]_vars => PermitInv'
    BY PermitSteps
  <1> QED
    BY <1>1, <1>2, PTL DEF Spec

\* Whatever the terms, the amounts, the fees and the times of the blocks, the
\* claims of a period never add up to more than its limit: not when they come
\* before the start, when the period moves by the truncating division of
\* withdraw_permission_claim_evaluator::do_apply, or when the terms change.
THEOREM LimitKept == Spec => []ClaimsWithinLimit
  <1>1. PermitInv => ClaimsWithinLimit
    BY DEF PermitInv
  <1> QED
    BY <1>1, PermitInvariant, PTL

-----------------------------------------------------------------------------
(* The invariant of the ledger *)

LedgerInv ==
    /\ Good(Db) /\ GenesisIs(genesis, now)
    /\ witness_budget \in Nat /\ last_budget \in Nat /\ last_budget <= now
    /\ cashback_period \in Periods /\ minted \in Nat
    /\ permit # NoPermit => permit.asset \in DOMAIN assets

\* What nobody holds is what is unclaimed and what the witnesses are to get.
\* The core units that were made are held and in no supply.
Balanced ==
    \A x \in DOMAIN assets :
        Gap(Db, x) = IF x = Core THEN Unclaimed(genesis) + witness_budget - minted ELSE 0

\* An operation that moves units, and nothing else of the ledger.
OnlyMoves ==
    /\ SameGaps(Db, Db')
    /\ UNCHANGED <<genesis, witness_budget, last_budget, cashback_period, now, minted>>

\* The operations that only move units, in three groups.
LEMMA FirstMoves ==
    ASSUME LedgerInv, NEW n \in Nat, NEW a \in User, NEW to \in User, NEW x,
           \/ transfer(a, to, x, n) \/ override_transfer(a, to, x, n)
           \/ \E p \in Policies : vesting_balance_create(a, to, x, n, p)
    PROVE  OnlyMoves
  <1>1. Good(Db)
    BY DEF LedgerInv
  <1>2. CASE transfer(a, to, x, n)
    <2>1. SameGaps(Db, Db')
      BY <1>1, <1>2, TransferStep
    <2> QED
      BY <1>2, <2>1 DEF OnlyMoves, transfer, Operation, OperationFor, blockUnchanged, unpermitted
  <1>3. CASE override_transfer(a, to, x, n)
    <2>1. SameGaps(Db, Db')
      BY <1>1, <1>3, OverrideStep
    <2> QED
      BY <1>3, <2>1 DEF OnlyMoves, override_transfer, Operation, OperationFor, blockUnchanged,
                        unpermitted
  <1>4. ASSUME NEW p \in Policies, vesting_balance_create(a, to, x, n, p)
        PROVE  OnlyMoves
    <2>1. SameGaps(Db, Db')
      BY <1>1, <1>4, CreateVestingStep
    <2> QED
      BY <1>4, <2>1 DEF OnlyMoves, vesting_balance_create, Operation, OperationFor,
                        blockUnchanged, unpermitted
  <1> QED
    BY <1>2, <1>3, <1>4

LEMMA SecondMoves ==
    ASSUME LedgerInv, NEW n \in Nat, NEW a \in User, NEW to \in User, NEW x,
           \/ asset_reserve(a, x, n) \/ asset_fund_fee_pool(a, x, n) \/ asset_claim_fees(x, n)
           \/ asset_issue(x, to, n)
    PROVE  OnlyMoves
  <1>1. Good(Db)
    BY DEF LedgerInv
  <1>2. CASE asset_reserve(a, x, n)
    <2>1. SameGaps(Db, Db')
      BY <1>1, <1>2, ReserveStep
    <2> QED
      BY <1>2, <2>1 DEF OnlyMoves, asset_reserve, Operation, OperationFor, blockUnchanged,
                        unpermitted
  <1>3. CASE asset_fund_fee_pool(a, x, n)
    <2>1. SameGaps(Db, Db')
      BY <1>1, <1>3, FundStep
    <2> QED
      BY <1>3, <2>1 DEF OnlyMoves, asset_fund_fee_pool, OperationFor, blockUnchanged, unpermitted
  <1>4. CASE asset_claim_fees(x, n)
    <2>1. SameGaps(Db, Db')
      BY <1>1, <1>4, ClaimFeesStep
    <2> QED
      BY <1>4, <2>1 DEF OnlyMoves, asset_claim_fees, Operation, OperationFor, blockUnchanged,
                        unpermitted
  <1>5. CASE asset_issue(x, to, n)
    <2>1. SameGaps(Db, Db')
      BY <1>1, <1>5, IssueStep
    <2> QED
      BY <1>5, <2>1 DEF OnlyMoves, asset_issue, Operation, OperationFor, blockUnchanged,
                        unpermitted
  <1> QED
    BY <1>2, <1>3, <1>4, <1>5

LEMMA ThirdMoves ==
    ASSUME LedgerInv, PermitTypes, NEW n \in Nat,
           \/ \E id \in DOMAIN vestings : vesting_balance_withdraw(id, n)
           \/ withdraw_permission_claim(n)
           \/ withdraw_permission_delete
           \/ \E x \in Assets, t \in Terms :
                \/ withdraw_permission_update(x, t)
                \/ \E a, to \in User : withdraw_permission_create(a, to, x, t)
           \/ \E a \in User : account_upgrade(a)
    PROVE  OnlyMoves
  <1>1. Good(Db) /\ PermitIs
    BY DEF LedgerInv, PermitIs, PermitTypes, Permit
  <1>2. ASSUME NEW id \in DOMAIN vestings, vesting_balance_withdraw(id, n)
        PROVE  OnlyMoves
    <2>1. SameGaps(Db, Db')
      BY <1>1, <1>2, DrawVestingStep
    <2> QED
      BY <1>2, <2>1 DEF OnlyMoves, vesting_balance_withdraw, Operation, OperationFor,
                        blockUnchanged, unpermitted
  <1>3. CASE withdraw_permission_claim(n)
    <2>1. SameGaps(Db, Db')
      BY <1>1, <1>3, ClaimStep
    <2> QED
      BY <1>3, <2>1 DEF OnlyMoves, withdraw_permission_claim, Operation, OperationFor,
                        blockUnchanged
  <1>4. CASE withdraw_permission_delete
    <2>1. SameGaps(Db, Db')
      BY <1>1, <1>4, TermsStep
    <2> QED
      BY <1>4, <2>1 DEF OnlyMoves, withdraw_permission_delete, Operation, OperationFor,
                        blockUnchanged
  <1>5. ASSUME NEW x \in Assets, NEW t \in Terms, withdraw_permission_update(x, t)
        PROVE  OnlyMoves
    <2>1. SameGaps(Db, Db')
      BY <1>1, <1>5, TermsStep
    <2> QED
      BY <1>5, <2>1 DEF OnlyMoves, withdraw_permission_update, Operation, OperationFor,
                        blockUnchanged
  <1>6. ASSUME NEW t \in Terms, NEW a \in User, NEW to \in User, NEW x \in Assets,
               withdraw_permission_create(a, to, x, t)
        PROVE  OnlyMoves
    <2>1. SameGaps(Db, Db')
      BY <1>1, <1>6, TermsStep
    <2> QED
      BY <1>6, <2>1 DEF OnlyMoves, withdraw_permission_create, Operation, OperationFor,
                        blockUnchanged
  <1>7. ASSUME NEW a \in User, account_upgrade(a)
        PROVE  OnlyMoves
    <2>1. cashback_period \in Nat
      BY LedgerAssumption DEF LedgerInv
    <2>2. SameGaps(Db, Db')
      BY <1>1, <1>7, <2>1, UpgradeStep
    <2> QED
      BY <1>7, <2>2 DEF OnlyMoves, account_upgrade, Operation, OperationFor, blockUnchanged,
                        unpermitted
  <1> QED
    BY <1>2, <1>3, <1>4, <1>5, <1>6, <1>7

\* The steps that do more.
ClaimsGenesis == \E n \in Int, to \in User : \E i \in DOMAIN genesis : balance_claim(i, to, n)
Creates == \E x \in Uias : asset_create(x)
AppliesBlock == \E t \in Nat : now <= t /\ apply_block(t)

\* Every step moves units, claims a balance of the genesis state, creates an
\* asset or applies a block.
LEMMA KindsOfSteps ==
    ASSUME LedgerInv, PermitTypes, [Next]_vars
    PROVE  OnlyMoves \/ ClaimsGenesis \/ Creates \/ AppliesBlock
  <1>1. Amounts \subseteq Nat /\ Slots \subseteq Nat /\ Claims \subseteq Int
    BY LedgerAssumption
  <1>2. CASE UNCHANGED vars
    <2>1. Db' = Db
          /\ UNCHANGED <<genesis, witness_budget, last_budget, cashback_period, now, minted>>
      BY <1>2 DEF vars, Db
    <2>2. SameGaps(Db, Db)
      BY DEF SameGaps, Inside, LedgerInv
    <2> QED
      BY <2>1, <2>2 DEF OnlyMoves
  <1>3. CASE Next
    <2>1. ASSUME NEW n \in Amounts, NEW a \in User, NEW x \in Assets,
                 \/ \E to \in User : \/ transfer(a, to, x, n)
                                     \/ override_transfer(a, to, x, n)
                                     \/ \E p \in Policies : vesting_balance_create(a, to, x, n, p)
                 \/ asset_reserve(a, x, n)
                 \/ asset_fund_fee_pool(a, x, n)
          PROVE  OnlyMoves
      <3>0. n \in Nat
        BY <1>1
      <3>1. ASSUME NEW to \in User,
                   \/ transfer(a, to, x, n) \/ override_transfer(a, to, x, n)
                   \/ \E p \in Policies : vesting_balance_create(a, to, x, n, p)
            PROVE  OnlyMoves
        BY <3>0, <3>1, FirstMoves
      <3>2. CASE asset_reserve(a, x, n) \/ asset_fund_fee_pool(a, x, n)
        BY <3>0, <3>2, SecondMoves
      <3> QED
        BY <2>1, <3>1, <3>2
    <2>2. ASSUME NEW n \in Amounts, NEW x \in Uias,
                 asset_claim_fees(x, n) \/ \E to \in User : asset_issue(x, to, n)
          PROVE  OnlyMoves
      <3>0. n \in Nat /\ Issuer[x] \in User
        BY <1>1, LedgerAssumption
      <3>1. CASE asset_claim_fees(x, n)
        BY <3>0, <3>1, SecondMoves
      <3>2. ASSUME NEW to \in User, asset_issue(x, to, n)
            PROVE  OnlyMoves
        BY <3>0, <3>2, SecondMoves
      <3> QED
        BY <2>2, <3>1, <3>2
    <2>3. ASSUME NEW n \in Amounts,
                 \/ \E id \in DOMAIN vestings : vesting_balance_withdraw(id, n)
                 \/ withdraw_permission_claim(n)
          PROVE  OnlyMoves
      BY <1>1, <2>3, ThirdMoves
    <2>4. ASSUME NEW i \in DOMAIN genesis, NEW to \in User, NEW n \in Claims, balance_claim(i, to, n)
          PROVE  ClaimsGenesis
      BY <1>1, <2>4 DEF ClaimsGenesis
    <2>5. ASSUME \/ withdraw_permission_delete
                 \/ \E x \in Assets, t \in Terms :
                      \/ withdraw_permission_update(x, t)
                      \/ \E a, to \in User : withdraw_permission_create(a, to, x, t)
                 \/ \E a \in User : account_upgrade(a)
          PROVE  OnlyMoves
      <3>1. 0 \in Nat
        OBVIOUS
      <3> QED
        BY <2>5, <3>1, ThirdMoves
    <2>6. ASSUME NEW k \in Slots, apply_block(now + k)
          PROVE  AppliesBlock
      <3> DEFINE t == now + k
      <3>1. now \in Nat /\ k \in Nat
        BY <1>1, DatabaseParts DEF LedgerInv, Db
      <3>2. t \in Nat /\ now <= t
        BY <3>1
      <3>3. apply_block(t)
        BY <2>6
      <3> HIDE DEF t
      <3> QED
        BY <3>2, <3>3 DEF AppliesBlock
    <2> QED
      BY <1>3, <2>1, <2>2, <2>3, <2>4, <2>5, <2>6 DEF Next, Creates
  <1> QED
    BY <1>2, <1>3

-----------------------------------------------------------------------------
(* The steps *)

\* The permission stands for an asset that exists.
LEMMA PermitAsset ==
    ASSUME PermitTypes, permit # NoPermit => permit.asset \in DOMAIN assets, [Next]_vars
    PROVE  permit' # NoPermit => permit'.asset \in DOMAIN assets
  <1>1. ASSUME permit' = permit
        PROVE  permit' # NoPermit => permit'.asset \in DOMAIN assets
    BY <1>1
  <1>2. ASSUME NEW n, withdraw_permission_claim(n)
        PROVE  permit'.asset \in DOMAIN assets
    <2> DEFINE k == Quotient(now - permit.start, permit.period)
               start == permit.start + k * permit.period
               claimed == IF k = 0 THEN permit.claimed + n ELSE n
    <2>1. permit # NoPermit /\ permit' = [permit EXCEPT !.start = start, !.claimed = claimed]
      BY <1>2 DEF withdraw_permission_claim
    <2> HIDE DEF start, claimed
    <2>2. permit'.asset = permit.asset
      BY <2>1 DEF PermitTypes, Permit
    <2> QED
      BY <2>1, <2>2
  <1>3. ASSUME NEW x \in Assets, NEW t \in Terms, withdraw_permission_update(x, t)
        PROVE  permit'.asset \in DOMAIN assets
    <2>1. permit # NoPermit /\ x \in DOMAIN assets
          /\ permit' = [permit EXCEPT !.asset = x, !.limit = t[1], !.period = t[2],
                                      !.start = t[3], !.expiration = Expiration(t)]
      BY <1>3 DEF withdraw_permission_update
    <2>2. permit'.asset = x
      BY <2>1 DEF PermitTypes, Permit
    <2> QED
      BY <2>1, <2>2
  <1>4. ASSUME NEW t \in Terms, NEW a, NEW to, NEW x, withdraw_permission_create(a, to, x, t)
        PROVE  permit'.asset \in DOMAIN assets
    BY <1>4 DEF withdraw_permission_create
  <1>5. ASSUME withdraw_permission_delete
        PROVE  permit' = NoPermit
    BY <1>5 DEF withdraw_permission_delete
  <1>6. ASSUME NEW t, apply_block(t)
        PROVE  permit' = NoPermit \/ permit' = permit
    BY <1>6 DEF apply_block
  <1>7. ASSUME NEW n, NEW a, NEW to, NEW x, NEW p, NEW id, NEW g,
               \/ transfer(a, to, x, n) \/ override_transfer(a, to, x, n)
               \/ vesting_balance_create(a, to, x, n, p)
               \/ asset_reserve(a, x, n) \/ asset_fund_fee_pool(a, x, n)
               \/ asset_claim_fees(x, n) \/ asset_issue(x, to, n)
               \/ vesting_balance_withdraw(id, n) \/ balance_claim(g, to, n)
               \/ asset_create(x) \/ account_upgrade(a)
        PROVE  permit' = permit
    BY <1>7, OthersKeep
  <1>8. CASE UNCHANGED vars
    BY <1>8 DEF vars
  <1>9. CASE Next
    <2> USE <1>9
    <2>1. CASE \E n \in Amounts : withdraw_permission_claim(n)
      BY <1>2, <2>1
    <2>2. CASE \E x \in Assets, t \in Terms :
                  \/ withdraw_permission_update(x, t)
                  \/ \E a, to \in User : withdraw_permission_create(a, to, x, t)
      BY <1>3, <1>4, <2>2
    <2>3. CASE \E s \in Slots : apply_block(now + s)
      BY <1>6, <2>3
    <2>4. /\ \A n, a, to, x : transfer(a, to, x, n) => permit' = permit
          /\ \A n, a, to, x : override_transfer(a, to, x, n) => permit' = permit
          /\ \A n, a, to, x, p : vesting_balance_create(a, to, x, n, p) => permit' = permit
      BY <1>7, Zenon
    <2>5. /\ \A n, a, x : asset_reserve(a, x, n) => permit' = permit
          /\ \A n, a, x : asset_fund_fee_pool(a, x, n) => permit' = permit
          /\ \A n, x : asset_claim_fees(x, n) => permit' = permit
          /\ \A n, to, x : asset_issue(x, to, n) => permit' = permit
      BY <1>7, Zenon
    <2>6. /\ \A n, id : vesting_balance_withdraw(id, n) => permit' = permit
          /\ \A n, to, g : balance_claim(g, to, n) => permit' = permit
          /\ \A x : asset_create(x) => permit' = permit
          /\ \A a : account_upgrade(a) => permit' = permit
      BY <1>7, Zenon
    <2> QED
      BY <1>5, <2>1, <2>2, <2>3, <2>4, <2>5, <2>6 DEF Next
  <1> QED
    BY <1>8, <1>9

\* Every step keeps the invariant and the balance.
LEMMA LedgerSteps ==
    ASSUME LedgerInv, PermitTypes, [Next]_vars
    PROVE  LedgerInv' /\ (Balanced => Balanced')
  <1>1. /\ Good(Db) /\ GenesisIs(genesis, now) /\ witness_budget \in Nat /\ last_budget \in Nat
        /\ last_budget <= now /\ cashback_period \in Periods /\ minted \in Nat
    BY DEF LedgerInv
  <1>2. permit' # NoPermit => permit'.asset \in DOMAIN assets
    BY PermitAsset DEF LedgerInv
  <1>3. /\ now \in Nat /\ Unclaimed(genesis) \in Nat
        /\ \A x \in DOMAIN assets : Gap(Db, x) \in Int
    BY <1>1, DatabaseParts, HeldParts, GenesisFinite DEF Db
  <1> DEFINE e == Db'
             b == Db
  <1>4. e.assets = assets' /\ b.assets = assets /\ e.now = now' /\ b.now = now
    BY DEF Db
  <1>5. CASE OnlyMoves
    <2>1. Good(e) /\ DOMAIN assets' = DOMAIN assets
          /\ (\A x \in DOMAIN assets : Gap(e, x) = Gap(b, x))
          /\ UNCHANGED <<genesis, witness_budget, last_budget, cashback_period, now, minted>>
      <3> HIDE DEF e, b
      <3>1. SameGaps(b, e)
        BY <1>5 DEF OnlyMoves, e, b
      <3> QED
        BY <1>4, <1>5, <3>1 DEF OnlyMoves, SameGaps, Inside
    <2>2. LedgerInv'
      BY <1>1, <1>2, <2>1 DEF LedgerInv
    <2>3. Balanced => Balanced'
      BY <2>1 DEF Balanced
    <2> QED
      BY <2>2, <2>3
  <1>6. CASE ClaimsGenesis
    <2>1. PICK n \in Int, to \in User : \E i \in DOMAIN genesis : balance_claim(i, to, n)
      BY <1>6 DEF ClaimsGenesis
    <2>2. PICK i \in DOMAIN genesis : balance_claim(i, to, n)
      BY <2>1
    <2>3. /\ Good(e) /\ assets' = assets /\ now' = now
          /\ GenesisIs(genesis', now)
          /\ \A y \in DOMAIN assets : Gap(e, y) = Gap(b, y) - IF y = Core THEN n ELSE 0
          /\ Unclaimed(genesis') = Unclaimed(genesis) - n
      BY <1>1, <2>2, BalanceClaimStep
    <2>4. UNCHANGED <<witness_budget, last_budget, cashback_period, minted>>
      BY <2>2 DEF balance_claim, blockUnchanged
    <2>5. LedgerInv'
      BY <1>1, <1>2, <2>3, <2>4 DEF LedgerInv
    <2>6. ASSUME Balanced, NEW y \in DOMAIN assets
          PROVE  Gap(e, y)
                   = IF y = Core THEN Unclaimed(genesis') + witness_budget - minted ELSE 0
      <3>1. Gap(b, y) = IF y = Core THEN Unclaimed(genesis) + witness_budget - minted ELSE 0
        BY <2>6 DEF Balanced
      <3>2. Gap(e, y) = Gap(b, y) - IF y = Core THEN n ELSE 0
        BY <2>3
      <3> HIDE DEF e, b
      <3> QED
        BY <1>1, <1>3, <2>3, <3>1, <3>2
    <2>7. Balanced => Balanced'
      BY <2>3, <2>4, <2>6 DEF Balanced
    <2> QED
      BY <2>5, <2>7
  <1>7. CASE Creates
    <2>1. PICK x \in Uias : asset_create(x)
      BY <1>7 DEF Creates
    <2> DEFINE k == minted'
    <2>2. /\ Good(e) /\ DOMAIN assets' = DOMAIN assets \cup {x}
          /\ Gap(e, x) = 0 /\ k \in Nat
          /\ \A y \in DOMAIN assets : Gap(e, y) = Gap(b, y) - IF y = Core THEN k - minted ELSE 0
      BY <1>1, <2>1, CreateStep
    <2>3. UNCHANGED <<genesis, witness_budget, last_budget, cashback_period, now>>
      BY <2>1 DEF asset_create, blockUnchanged, unpermitted
    <2>4. LedgerInv'
      BY <1>1, <1>2, <2>2, <2>3 DEF LedgerInv
    <2>5. ASSUME Balanced, NEW y \in DOMAIN assets
          PROVE  Gap(e, y) = IF y = Core THEN Unclaimed(genesis) + witness_budget - k ELSE 0
      <3>1. Gap(b, y) = IF y = Core THEN Unclaimed(genesis) + witness_budget - minted ELSE 0
        BY <2>5 DEF Balanced
      <3>2. Gap(e, y) = Gap(b, y) - IF y = Core THEN k - minted ELSE 0
        BY <2>2
      <3>3. k \in Nat
        BY <2>2
      <3> HIDE DEF e, b, k
      <3> QED
        BY <1>1, <1>3, <3>1, <3>2, <3>3
    <2>6. Balanced => Balanced'
      <3>1. x # Core
        BY LedgerAssumption
      <3> QED
        BY <2>2, <2>3, <2>5, <3>1 DEF Balanced
    <2> QED
      BY <2>4, <2>6
  <1>8. CASE AppliesBlock
    <2>1. PICK t \in Nat : now <= t /\ apply_block(t)
      BY <1>8 DEF AppliesBlock
    <2> DEFINE w == witness_budget'
    <2>2. /\ Good(e) /\ DOMAIN assets' = DOMAIN assets /\ now' = t
          /\ w \in Nat /\ last_budget' \in Nat /\ last_budget' <= t
          /\ cashback_period' \in Periods
          /\ \A x \in DOMAIN assets :
               Gap(e, x) = Gap(b, x) + IF x = Core THEN w - witness_budget ELSE 0
      BY <1>1, <2>1, BlockStep
    <2>3. genesis' = genesis /\ minted' = minted
      BY <2>1 DEF apply_block
    <2>4. GenesisIs(genesis, t)
      BY <1>1, <1>3, <2>1, GenesisLater
    <2>5. LedgerInv'
      BY <1>1, <1>2, <2>2, <2>3, <2>4 DEF LedgerInv
    <2>6. ASSUME Balanced, NEW y \in DOMAIN assets
          PROVE  Gap(e, y) = IF y = Core THEN Unclaimed(genesis) + w - minted ELSE 0
      <3>1. Gap(b, y) = IF y = Core THEN Unclaimed(genesis) + witness_budget - minted ELSE 0
        BY <2>6 DEF Balanced
      <3>2. Gap(e, y) = Gap(b, y) + (IF y = Core THEN w - witness_budget ELSE 0) /\ w \in Nat
        BY <2>2
      <3> HIDE DEF e, b, w
      <3> QED
        BY <1>1, <1>3, <3>1, <3>2
    <2>7. Balanced => Balanced'
      BY <2>2, <2>3, <2>6 DEF Balanced
    <2> QED
      BY <2>5, <2>7
  <1> QED
    BY <1>5, <1>6, <1>7, <1>8, KindsOfSteps

-----------------------------------------------------------------------------
(* The beginning *)

\* Only those who have something count.
LEMMA SumSupport ==
    ASSUME NEW S, NEW T \in SUBSET S, NEW f, \A s \in S \ T : f[s] = 0
    PROVE  Sum(f, S) = Sum(f, T)
  <1>1. \A s \in S \ T : {s} \X (1 .. f[s]) = {}
    OBVIOUS
  <1>2. Units(f, S) = Units(f, T)
    BY <1>1 DEF Units
  <1> QED
    BY <1>2 DEF Sum

\* The vesting balance of the worker, before it is paid.
LEMMA FirstVests ==
    LET b == VestingBalance(WorkerAccount, Core, 0, Cdd(PayPeriod, 0, 1, 0), 0, 1)
    IN  /\ b \in VBal /\ Vests(b, 1) /\ b.policy.kind = "cdd" /\ b.asset = Core /\ b.amount = 0
  <1>1. WorkerAccount \in Accounts /\ PayPeriod \in Nat /\ Core \in Assets
    BY LedgerAssumption DEF User, Assets
  <1> DEFINE P(b, t, n) == /\ b \in VBal /\ Vests(b, t) /\ b.policy.kind = "cdd"
                           /\ b.asset = Core /\ b.amount = n
  <1>2. ASSUME NEW w \in Accounts, NEW x \in Assets, x = Core, NEW s \in Nat, NEW n \in Nat,
               NEW t \in Nat, NEW e \in Nat, NEW f \in Nat, f <= n, AtMost(e, f, s),
               NEW k \in Nat
        PROVE  P(VestingBalance(w, x, n, Cdd(s, e, t, k), f, t), t, n)
    BY <1>2, NewCdd
  <1>3. AtMost(0, 0, PayPeriod) /\ 0 \in Nat /\ 1 \in Nat /\ 0 <= 0
    BY <1>1 DEF AtMost
  <1> HIDE DEF P
  <1>4. P(VestingBalance(WorkerAccount, Core, 0, Cdd(PayPeriod, 0, 1, 0), 0, 1), 1, 0)
    BY <1>1, <1>2, <1>3, Zenon
  <1> QED
    BY <1>4 DEF P

\* The sums that the initial supplies consist of.
LEMMA InitialTypes ==
    /\ \A a \in User, x \in Assets : Endowment[a][x] \in Nat
    /\ \A x \in Assets : Sum([a \in User |-> Endowment[a][x]], User) \in Nat
    /\ Sum([y \in Existing |-> Pool], Existing) \in Nat
    /\ GenesisIs(GenesisBalances, 1) /\ Unclaimed(GenesisBalances) \in Nat
    /\ \A x \in Assets : InitialSupply(x) =
          Sum([a \in User |-> Endowment[a][x]], User)
          + IF x # Core THEN 0
            ELSE Sum([y \in Existing |-> Pool], Existing) + Unclaimed(GenesisBalances)
  <1>1. \A a \in User, x \in Assets : Endowment[a][x] \in Nat
    BY LedgerAssumption
  <1>2. IsFiniteSet(User) /\ IsFiniteSet(Existing)
    BY GenesisAssumption, LedgerAssumption, FS_Subset DEF User
  <1>3. ASSUME NEW x \in Assets
        PROVE  Sum([a \in User |-> Endowment[a][x]], User) \in Nat
    <2> DEFINE f == [a \in User |-> Endowment[a][x]]
    <2>1. \A a \in User : f[a] \in Nat
      BY <1>1
    <2> HIDE DEF f
    <2>2. Sum(f, User) \in Nat
      BY <1>2, <2>1, SumType
    <2> QED
      BY <2>2 DEF f
  <1>4. Sum([y \in Existing |-> Pool], Existing) \in Nat
    <2> DEFINE f == [y \in Existing |-> Pool]
    <2>1. \A y \in Existing : f[y] \in Nat
      BY LedgerAssumption
    <2> HIDE DEF f
    <2>2. Sum(f, Existing) \in Nat
      BY <1>2, <2>1, SumType
    <2> QED
      BY <2>2 DEF f
  <1>5. GenesisIs(GenesisBalances, 1)
    <2>1. GenesisBalances \in Seq(GenesisBalance)
      BY GenesisAssumption DEF GenesisBalance
    <2>2. GenesisBalances = [i \in DOMAIN GenesisBalances |-> GenesisBalances[i]]
      BY <2>1
    <2>3. ASSUME NEW i \in DOMAIN GenesisBalances
          PROVE  GenesisOK(GenesisBalances[i], i, 1)
      <3> DEFINE g == GenesisBalances[i]
      <3>1. g \in GenesisBalance
        BY <2>1, ElementOfSeq
      <3>2. g.amount = g.paid_in
        BY GenesisAssumption
      <3>3. g.policy.kind = "linear" => Covered(g, 1)
        <4> HIDE DEF g
        <4> DEFINE u == Unvested(g, 1)
        <4> SUFFICES ASSUME g.policy.kind = "linear"
                     PROVE  g.amount >= Min({g.paid_in, u})
          BY DEF Covered
        <4>1. u \in Int
          <5>1. 1 \in Nat
            OBVIOUS
          <5>2. \A t \in Nat : Unvested(g, t) \in Int
            BY <3>1, UnvestedFacts
          <5> QED
            BY <5>1, <5>2, Zenon
        <4>2. g.paid_in \in Int /\ g.amount \in Int
          BY <3>1, GenesisParts
        <4> HIDE DEF u
        <4>3. Min({g.paid_in, u}) <= g.paid_in /\ Min({g.paid_in, u}) \in Int
          BY <4>1, <4>2, MinOfTwo
        <4> QED
          BY <3>2, <4>2, <4>3
      <3>4. GenesisOK(g, i, 1)
        BY <3>1, <3>3 DEF GenesisOK
      <3> QED
        BY <3>4
    <2> QED
      BY <2>2, <2>3 DEF GenesisIs
  <1>6. Unclaimed(GenesisBalances) \in Nat
    BY <1>5, GenesisFinite
  <1> QED
    BY <1>1, <1>3, <1>4, <1>5, <1>6 DEF InitialSupply, Unclaimed

\* The first state satisfies the invariant, and is balanced.
LEMMA InitGood ==
    ASSUME Init
    PROVE  Good(Db)
  <1> DEFINE X == Existing \cup {Core}
             b == VestingBalance(WorkerAccount, Core, 0, Cdd(PayPeriod, 0, 1, 0), 0, 1)
             vs == <<b>>
             bal(a) == [x \in Assets |-> IF a \in User THEN Endowment[a][x] ELSE 0]
             acc(a) == [balance |-> bal(a), pending |-> 0, vested |-> 0, cashback |-> 0, pay |-> 0,
                        lifetime |-> a \in Lifetime,
                        registrar |-> IF a \in User THEN Registrar[a] ELSE a,
                        lifetime_referrer |-> IF a \in User THEN LifetimeReferrer[a] ELSE a,
                        referrer |-> IF a \in User THEN Referrer[a] ELSE a]
             data(x) == [supply |-> InitialSupply(x), pool |-> IF x = Core THEN 0 ELSE Pool,
                         fees |-> 0]
  <1>1. /\ accounts = [a \in Accounts |-> acc(a)] /\ assets = [x \in X |-> data(x)]
        /\ vestings = vs /\ now = 1
    BY DEF Init
  <1>2. b \in VBal /\ Vests(b, 1) /\ b.policy.kind = "cdd" /\ b.asset = Core
    BY FirstVests
  <1> HIDE DEF b
  <1>3. vs \in Seq(VBal) /\ DOMAIN vs = {1} /\ vs[1] = b
    BY <1>2
  <1>4. X \subseteq Assets /\ Core \in X
    BY LedgerAssumption DEF Assets
  <1>5. ASSUME NEW a \in Accounts
        PROVE  AccountOK(acc(a), X, vs) /\ acc(a) \in Account
    <2> DEFINE balance == bal(a)
               registrar == IF a \in User THEN Registrar[a] ELSE a
               lifetime_referrer == IF a \in User THEN LifetimeReferrer[a] ELSE a
               referrer == IF a \in User THEN Referrer[a] ELSE a
               lifetime == a \in Lifetime
    <2>1. balance \in [Assets -> Nat]
      BY InitialTypes
    <2>2. registrar \in Accounts /\ lifetime_referrer \in Accounts /\ referrer \in Accounts
      BY LedgerAssumption DEF User
    <2>3. \A x \in Assets \ X : balance[x] = 0
      BY GenesisAssumption DEF Assets
    <2>4. lifetime \in BOOLEAN
      OBVIOUS
    <2>5. acc(a) = [balance |-> balance, pending |-> 0, vested |-> 0, cashback |-> 0, pay |-> 0,
                    lifetime |-> lifetime, registrar |-> registrar,
                    lifetime_referrer |-> lifetime_referrer, referrer |-> referrer]
      OBVIOUS
    <2> HIDE DEF balance, registrar, lifetime_referrer, referrer, lifetime, X
    <2>6. acc(a) \in Account /\ acc(a).balance = balance /\ acc(a).cashback = 0 /\ acc(a).pay = 0
      <3> HIDE DEF acc
      <3> QED
        BY <2>1, <2>2, <2>4, <2>5 DEF Account
    <2> HIDE DEF acc
    <2> QED
      BY <2>3, <2>6 DEF AccountOK, IsCoreId
  <1>6. ASSUME NEW x \in X
        PROVE  AssetOK(x, data(x))
    <2> DEFINE E == Sum([a \in User |-> Endowment[a][x]], User)
               P == Sum([y \in Existing |-> Pool], Existing)
               G == Unclaimed(GenesisBalances)
               I == InitialSupply(x)
    <2>0. x \in Assets
      BY <1>4
    <2>1. E \in Nat /\ P \in Nat /\ G \in Nat /\ I = E + IF x # Core THEN 0 ELSE P + G
      BY <2>0, InitialTypes
    <2>2. I <= MaxSupply[x]
      BY GenesisAssumption
    <2>3. Pool \in Nat
      BY LedgerAssumption
    <2> HIDE DEF E, P, G, I
    <2>4. I \in Nat
      BY <2>1
    <2>5. data(x) = [supply |-> I, pool |-> IF x = Core THEN 0 ELSE Pool, fees |-> 0]
      BY DEF I
    <2> HIDE DEF data
    <2> QED
      BY <2>2, <2>3, <2>4, <2>5 DEF AssetOK, AssetData
  <1> HIDE DEF acc, data, X, vs
  <1>7. /\ accounts \in [Accounts -> Account] /\ \A a \in Accounts : accounts[a] = acc(a)
    BY <1>1, <1>5
  <1>8. /\ assets \in AssetTables /\ DOMAIN assets = X /\ \A x \in X : assets[x] = data(x)
    <2>1. assets \in [X -> AssetData]
      BY <1>1, <1>6 DEF AssetOK
    <2> QED
      BY <1>1, <1>4, <2>1 DEF AssetTables
  <1> DEFINE d == Db
  <1>9. /\ d \in Databases /\ d.accounts = accounts /\ d.assets = assets
        /\ d.vestings = vs /\ d.now = 1
    BY <1>1, <1>3, <1>7, <1>8 DEF Db, Databases
  <1> HIDE DEF d
  <1>10. \A i \in DOMAIN vs : VestingOK(vs[i], X, 1)
    BY <1>2, <1>3, <1>4 DEF VestingOK
  <1>11. Good(d)
    BY <1>2, <1>3, <1>4, <1>5, <1>6, <1>7, <1>8, <1>9, <1>10 DEF Good, WorkerOK
  <1> QED
    BY <1>11 DEF d

LEMMA InitBalanced ==
    ASSUME Init
    PROVE  Balanced
  <1> DEFINE d == Db
             X == Existing \cup {Core}
  <1>1. /\ X \subseteq Assets /\ DOMAIN d.assets = X /\ Core \notin Existing
        /\ d.assets = assets /\ d.accounts = accounts /\ d.vestings = vestings
        /\ genesis = GenesisBalances /\ witness_budget = 0 /\ minted = 0
    BY LedgerAssumption DEF Init, Db, Assets
  <1>2. ASSUME NEW x \in X
        PROVE  /\ d.assets[x].supply = InitialSupply(x) /\ d.assets[x].fees = 0
               /\ d.assets[x].pool = IF x = Core THEN 0 ELSE Pool
    <2> DEFINE I == InitialSupply(x)
    <2>1. d.assets[x] = [supply |-> I, pool |-> IF x = Core THEN 0 ELSE Pool, fees |-> 0]
      BY DEF Init, Db
    <2> HIDE DEF I, d
    <2>2. d.assets[x].supply = I /\ d.assets[x].fees = 0
          /\ d.assets[x].pool = IF x = Core THEN 0 ELSE Pool
      BY <2>1
    <2> QED
      BY <2>2 DEF I
  <1>3. \A a \in Accounts :
           /\ d.accounts[a].balance = [x \in Assets |-> IF a \in User THEN Endowment[a][x] ELSE 0]
           /\ d.accounts[a].pending = 0 /\ d.accounts[a].vested = 0
    BY DEF Init, Db
  <1>4. ASSUME NEW x \in X
        PROVE  InBalances(d, x) = Sum([a \in User |-> Endowment[a][x]], User)
    <2> DEFINE f == [a \in Accounts |-> d.accounts[a].balance[x]]
               g == [a \in User |-> Endowment[a][x]]
    <2>1. User \in SUBSET Accounts
      BY DEF User
    <2>2. (\A a \in Accounts \ User : f[a] = 0) /\ \A a \in User : f[a] = g[a]
      <3>1. ASSUME NEW a \in Accounts
            PROVE  f[a] = IF a \in User THEN Endowment[a][x] ELSE 0
        <4>1. d.accounts[a].balance
                = [y \in Assets |-> IF a \in User THEN Endowment[a][y] ELSE 0]
          BY <1>3
        <4>2. x \in Assets
          BY <1>1
        <4> HIDE DEF d, X
        <4> QED
          BY <4>1, <4>2
      <3> HIDE DEF f
      <3> QED
        BY <2>1, <3>1
    <2> HIDE DEF f, g
    <2>3. Sum(f, Accounts) = Sum(f, User)
      BY <2>1, <2>2, SumSupport
    <2>4. Sum(f, User) = Sum(g, User)
      BY <2>2, SumEqual
    <2> QED
      BY <2>3, <2>4 DEF InBalances, f, g
  <1>5. \A x \in X : InVestings(d, x) = 0
    <2> DEFINE b == VestingBalance(WorkerAccount, Core, 0, Cdd(PayPeriod, 0, 1, 0), 0, 1)
    <2>1. d.vestings = <<b>>
      BY DEF Init, Db
    <2>2. b.amount = 0
      BY FirstVests
    <2> HIDE DEF b, d
    <2>3. \A i \in DOMAIN d.vestings : d.vestings[i].amount = 0
      BY <2>1, <2>2
    <2> TAKE x \in X
    <2> DEFINE f == [i \in DOMAIN d.vestings |->
                        IF d.vestings[i].asset = x THEN d.vestings[i].amount ELSE 0]
    <2>4. \A i \in DOMAIN d.vestings : f[i] = 0
      BY <2>3
    <2> HIDE DEF f
    <2>5. Sum(f, DOMAIN d.vestings) = 0
      BY <2>4, SumZero
    <2> QED
      BY <2>5 DEF InVestings, f
  <1>6. InPending(d) = 0
    <2> HIDE DEF d
    <2> DEFINE f == [a \in Accounts |-> d.accounts[a].pending + d.accounts[a].vested]
    <2>1. ASSUME NEW a \in Accounts
          PROVE  f[a] = 0
      <3>1. d.accounts[a].pending = 0 /\ d.accounts[a].vested = 0
        BY <1>3
      <3> QED
        BY <3>1
    <2> HIDE DEF f
    <2>2. Sum(f, Accounts) = 0
      BY <2>1, SumZero
    <2> QED
      BY <2>2 DEF InPending, f
  <1>7. InPools(d) = Sum([y \in Existing |-> Pool], Existing)
    <2> HIDE DEF d
    <2> DEFINE f == [y \in X |-> d.assets[y].pool]
               g == [y \in Existing |-> Pool]
    <2>1. Existing \in SUBSET X
      OBVIOUS
    <2>2. (\A y \in X \ Existing : f[y] = 0) /\ \A y \in Existing : f[y] = g[y]
      <3>1. ASSUME NEW y \in X
            PROVE  d.assets[y].pool = IF y = Core THEN 0 ELSE Pool
        BY <1>2
      <3> QED
        BY <1>1, <3>1
    <2>3. InPools(d) = Sum(f, X)
      BY <1>1 DEF InPools
    <2> HIDE DEF f, g, X
    <2>4. Sum(f, X) = Sum(f, Existing)
      BY <2>1, <2>2, SumSupport
    <2>5. Sum(f, Existing) = Sum(g, Existing)
      BY <2>2, SumEqual
    <2> QED
      BY <2>3, <2>4, <2>5 DEF g
  <1> HIDE DEF d
  <1>8. ASSUME NEW x \in X
        PROVE  Gap(d, x) = IF x = Core THEN Unclaimed(genesis) + witness_budget - minted ELSE 0
    <2> DEFINE E == Sum([a \in User |-> Endowment[a][x]], User)
               P == Sum([y \in Existing |-> Pool], Existing)
               G == Unclaimed(GenesisBalances)
    <2>1. E \in Nat /\ P \in Nat /\ G \in Nat
          /\ InitialSupply(x) = E + IF x # Core THEN 0 ELSE P + G
      BY <1>1, InitialTypes
    <2>2. d.assets[x].supply = InitialSupply(x) /\ d.assets[x].fees = 0
      BY <1>2, Zenon
    <2>3. InBalances(d, x) = E /\ InVestings(d, x) = 0 /\ InPending(d) = 0 /\ InPools(d) = P
      BY <1>4, <1>5, <1>6, <1>7
    <2>4. G = Unclaimed(genesis)
      BY <1>1
    <2> HIDE DEF E, P, G
    <2> QED
      BY <1>1, <2>1, <2>2, <2>3, <2>4, GapIs
  <1> QED
    BY <1>1, <1>8 DEF Balanced, d

-----------------------------------------------------------------------------
(* The theorems about the ledger *)

\* The state that the program starts with satisfies the invariant.
LEMMA InitLedger ==
    ASSUME Init
    PROVE  LedgerInv
  <1>1. Good(Db)
    BY InitGood
  <1>2. GenesisIs(genesis, now)
    <2>1. genesis = GenesisBalances /\ now = 1
      BY DEF Init
    <2> QED
      BY <2>1, InitialTypes
  <1>3. /\ witness_budget = 0 /\ last_budget = 0 /\ now = 1 /\ cashback_period = Period
        /\ permit = NoPermit /\ minted = 0
    BY DEF Init
  <1>4. cashback_period \in Periods
    BY <1>3, LedgerAssumption
  <1> QED
    BY <1>1, <1>2, <1>3, <1>4 DEF LedgerInv

\* The inductive invariant of the ledger.
LEMMA LedgerInvariant == Spec => []LedgerInv
  <1>1. Init => LedgerInv
    BY InitLedger
  <1>2. PermitInv => PermitTypes
    BY DEF PermitInv
  <1>3. LedgerInv /\ PermitTypes /\ [Next]_vars => LedgerInv'
    BY LedgerSteps
  <1> QED
    BY <1>1, <1>2, <1>3, PermitInvariant, PTL DEF Spec

\* However deposits, withdrawals, cashbacks, pays and changes of the period
\* follow each other, the assertions of the vesting policies hold for every
\* vesting balance and no money vests faster than its policy says
\* (vesting_balance_object.cpp); and whatever is claimed of the balances of the
\* genesis state, negative amounts included, what has not vested is still there.
THEOREM VestingKept == Spec => []VestingSound
  <1>1. ASSUME LedgerInv
        PROVE  VestingSound
    <2>1. now \in Nat /\ GenesisIs(genesis, now) /\ Good(Db)
      BY <1>1, DatabaseParts DEF LedgerInv, Db
    <2>2. ASSUME NEW i \in DOMAIN vestings
          PROVE  Vests(vestings[i], now)
      <3> DEFINE d == Db
      <3>1. Good(d) /\ d.vestings = vestings /\ d.now = now
        BY <2>1 DEF Db
      <3> HIDE DEF d
      <3>2. i \in DOMAIN d.vestings
        BY <3>1
      <3> QED
        BY <3>1, <3>2, VestingParts
    <2>3. ASSUME NEW i \in DOMAIN GenesisBalances, GenesisBalances[i].policy.kind = "linear"
          PROVE  Covered(Left(i), now)
      <3>1. GenesisOK(Left(i), i, now)
        BY <2>1 DEF GenesisIs, Left, Gone
      <3> QED
        BY <2>3, <3>1 DEF GenesisOK
    <2>4. ASSUME NEW i \in DOMAIN vestings
          PROVE  Sound(vestings[i], now) /\ Gradual(vestings[i], now)
      BY <2>1, <2>2, VestsIsSound
    <2> QED
      BY <2>3, <2>4 DEF VestingSound
  <1> QED
    BY <1>1, LedgerInvariant, PTL

\* No operation and no maintenance brings more units of an asset into being
\* than its maximum: asset_issue checks it, and process_budget spends no more
\* than the reserve.
THEOREM SupplyWithinMaximum == Spec => []SupplyBounded
  <1>1. ASSUME LedgerInv
        PROVE  SupplyBounded
    <2> DEFINE d == Db
    <2>1. Good(d) /\ d.assets = assets
      BY <1>1 DEF LedgerInv, Db
    <2> HIDE DEF d
    <2>2. ASSUME NEW x \in DOMAIN assets
          PROVE  assets[x].supply <= MaxSupply[x]
      <3>1. x \in DOMAIN d.assets
        BY <2>1
      <3> QED
        BY <2>1, <3>1, AssetParts
    <2> QED
      BY <2>2 DEF SupplyBounded
  <1> QED
    BY <1>1, LedgerInvariant, PTL

\* The units that nobody holds are the unclaimed ones and the budget.
LEMMA BalancedInvariant == Spec => []Balanced
  <1>1. Init => Balanced
    BY InitBalanced
  <1>2. PermitInv => PermitTypes
    BY DEF PermitInv
  <1>3. LedgerInv /\ PermitTypes /\ Balanced /\ [Next]_vars => Balanced'
    BY LedgerSteps
  <1> QED
    BY <1>1, <1>2, <1>3, PermitInvariant, LedgerInvariant, PTL DEF Spec

\* What nobody holds of an asset, and what of it is elsewhere.
LEMMA SupplyIs ==
    ASSUME LedgerInv, NEW x \in DOMAIN assets
    PROVE  /\ Held(Db, x) \in Nat /\ assets[x].supply = Gap(Db, x) + Held(Db, x)
           /\ Unclaimed(genesis) \in Nat /\ witness_budget \in Nat
           /\ Total(x) = Held(Db, x) + IF x # Core THEN 0 ELSE Unclaimed(genesis) + witness_budget
  <1> DEFINE d == Db
  <1>1. Good(d) /\ d.assets = assets /\ x \in DOMAIN d.assets
    BY DEF LedgerInv, Db
  <1>2. witness_budget \in Nat /\ Unclaimed(genesis) \in Nat
    BY GenesisFinite DEF LedgerInv
  <1>3. Total(x) = Held(d, x) + IF x # Core THEN 0 ELSE Unclaimed(genesis) + witness_budget
    BY DEF Total, Unclaimed
  <1> HIDE DEF d
  <1>4. Held(d, x) \in Nat
    <2>1. InBalances(d, x) \in Nat /\ InVestings(d, x) \in Nat
          /\ InPending(d) \in Nat /\ InPools(d) \in Nat
      BY <1>1, HeldParts
    <2>2. d.assets[x].fees \in Nat
      BY <1>1, AssetParts
    <2>3. Held(d, x) = InBalances(d, x) + d.assets[x].fees + InVestings(d, x)
                       + IF x # Core THEN 0 ELSE InPending(d) + InPools(d)
      BY DEF Held, InBalances, InVestings, InPending, InPools
    <2> QED
      BY <2>1, <2>2, <2>3
  <1>5. d.assets[x].supply \in Int
    BY <1>1, AssetParts
  <1>6. d.assets[x].supply = Gap(d, x) + Held(d, x)
    BY <1>4, <1>5 DEF Gap
  <1> QED
    BY <1>1, <1>2, <1>3, <1>4, <1>6 DEF d

\* What is balanced is exact.
LEMMA BalancedIsExact ==
    ASSUME LedgerInv, Balanced, NEW x \in DOMAIN assets
    PROVE  assets[x].supply + (IF x = Core THEN minted ELSE 0) = Total(x)
  <1>1. Gap(Db, x) = IF x = Core THEN Unclaimed(genesis) + witness_budget - minted ELSE 0
    BY DEF Balanced
  <1>2. minted \in Nat
    BY DEF LedgerInv
  <1> QED
    BY <1>1, <1>2, SupplyIs

\* The supply of every asset is within its maximum and is the sum of all its
\* units, but for the core units that asset_create made, after any operations,
\* fees, conversions, cashbacks, burns and budgets: what verify_asset_supplies
\* checks after each test.  Nothing but asset_create, which halves its fee with
\* rounding and before it is converted (asset_evaluator.cpp), parts the two.
THEOREM SupplyKept == Spec => []SupplyExact
  <1>1. LedgerInv /\ Balanced => SupplyMatches
    BY BalancedIsExact DEF SupplyMatches
  <1> QED
    BY <1>1, LedgerInvariant, BalancedInvariant, SupplyWithinMaximum, PTL DEF SupplyExact

\* The supply of every asset other than the core asset is exactly the sum of its
\* units: only core units come from the rounding of asset_create.
THEOREM OtherSuppliesKept ==
    Spec => [](\A x \in DOMAIN assets \ {Core} : assets[x].supply = Total(x))
  <1>1. ASSUME LedgerInv, Balanced
        PROVE  \A x \in DOMAIN assets \ {Core} : assets[x].supply = Total(x)
    <2> TAKE x \in DOMAIN assets \ {Core}
    <2>1. Gap(Db, x) = 0
      BY <1>1 DEF Balanced
    <2> QED
      BY <1>1, <2>1, SupplyIs
  <1> QED
    BY <1>1, LedgerInvariant, BalancedInvariant, PTL

\* Operations are counted.
LEMMA OpsCount ==
    ASSUME ops \in Nat, [Next]_vars
    PROVE  ops' \in Nat
  <1>1. ASSUME NEW d, NEW payer, NEW fee, Applied(d, payer, fee)
        PROVE  ops' \in Nat
    BY <1>1 DEF Applied
  <1>2. CASE UNCHANGED vars
    BY <1>2 DEF vars
  <1>3. ASSUME NEW n, NEW a, NEW to, NEW x, NEW p,
               \/ transfer(a, to, x, n) \/ override_transfer(a, to, x, n)
               \/ vesting_balance_create(a, to, x, n, p)
        PROVE  ops' \in Nat
    BY <1>1, <1>3 DEF transfer, override_transfer, vesting_balance_create, Operation,
                      OperationFor, Evaluate
  <1>4. ASSUME NEW n, NEW a, NEW to, NEW x,
               \/ asset_reserve(a, x, n) \/ asset_fund_fee_pool(a, x, n)
               \/ asset_claim_fees(x, n) \/ asset_issue(x, to, n)
        PROVE  ops' \in Nat
    BY <1>1, <1>4 DEF asset_reserve, asset_fund_fee_pool, asset_claim_fees, asset_issue,
                      Operation, OperationFor, Evaluate
  <1>5. ASSUME NEW n, NEW id, NEW i, NEW to,
               \/ vesting_balance_withdraw(id, n) \/ balance_claim(i, to, n)
               \/ withdraw_permission_claim(n)
        PROVE  ops' \in Nat
    BY <1>1, <1>5 DEF vesting_balance_withdraw, balance_claim, withdraw_permission_claim,
                      Operation, OperationFor, Evaluate
  <1>6. ASSUME NEW x, NEW t, NEW a, NEW to,
               \/ withdraw_permission_update(x, t) \/ withdraw_permission_create(a, to, x, t)
               \/ withdraw_permission_delete
        PROVE  ops' \in Nat
    BY <1>1, <1>6 DEF withdraw_permission_update, withdraw_permission_create,
                      withdraw_permission_delete, Operation, OperationFor, Evaluate
  <1>7. ASSUME NEW x, NEW a, asset_create(x) \/ account_upgrade(a)
        PROVE  ops' \in Nat
    <2>1. CASE asset_create(x)
      <3>1. \E d, payer, fee : Applied(d, payer, fee)
        BY <2>1 DEF asset_create, Evaluate
      <3> QED
        BY <1>1, <3>1
    <2>2. CASE account_upgrade(a)
      <3>1. \E d, payer, fee : Applied(d, payer, fee)
        BY <2>2 DEF account_upgrade, Operation, OperationFor, Evaluate
      <3> QED
        BY <1>1, <3>1
    <2> QED
      BY <1>7, <2>1, <2>2
  <1>8. ASSUME NEW t, apply_block(t)
        PROVE  ops' \in Nat
    BY <1>8 DEF apply_block
  <1> QED
    BY <1>2, <1>3, <1>4, <1>5, <1>6, <1>7, <1>8 DEF Next

\* The types of the state, that no pool, balance or vesting balance is ever
\* negative and that the ids in the accounts are ids of vesting balances
\* included.
THEOREM LedgerTypes == Spec => []TypeOK
  <1>1. ASSUME LedgerInv, ops \in Nat
        PROVE  TypeOK
    <2> DEFINE d == Db
    <2>1. Good(d) /\ d.assets = assets /\ d.accounts = accounts /\ d.vestings = vestings
          /\ d.now = now
      BY <1>1 DEF LedgerInv, Db
    <2> HIDE DEF d
    <2>2. DOMAIN accounts = Accounts /\ DOMAIN assets \in SUBSET Assets /\ now \in Nat
      BY <2>1, DatabaseParts
    <2>3. ASSUME NEW a \in Accounts
          PROVE  /\ accounts[a].balance \in [Assets -> Nat]
                 /\ {accounts[a].pending, accounts[a].vested} \subseteq Nat
                 /\ {accounts[a].cashback, accounts[a].pay} \subseteq {0} \cup DOMAIN vestings
                 /\ {accounts[a].referrer, accounts[a].registrar} \subseteq Accounts
      <3>1. AccountOK(accounts[a], DOMAIN assets, vestings)
        BY <2>1 DEF Good
      <3>2. accounts[a] \in Account /\ IsCoreId(accounts[a].cashback, vestings)
            /\ IsCoreId(accounts[a].pay, vestings)
        BY <3>1 DEF AccountOK
      <3> QED
        BY <3>2, AccountParts DEF IsCoreId
    <2>4. ASSUME NEW x \in DOMAIN assets
          PROVE  assets[x].supply \in Int /\ {assets[x].pool, assets[x].fees} \subseteq Nat
      <3>1. x \in DOMAIN d.assets
        BY <2>1
      <3>2. assets[x].supply \in Int /\ assets[x].pool \in Nat /\ assets[x].fees \in Nat
        BY <2>1, <3>1, AssetParts
      <3> QED
        BY <3>2
    <2>5. ASSUME NEW i \in DOMAIN vestings
          PROVE  vestings[i].amount \in Nat /\ vestings[i].owner \in Accounts
      <3>1. i \in DOMAIN d.vestings
        BY <2>1
      <3> QED
        BY <2>1, <3>1, VestingParts
    <2> QED
      BY <1>1, <2>2, <2>3, <2>4, <2>5 DEF TypeOK, LedgerInv
  <1>2. Init => ops \in Nat
    BY DEF Init
  <1>3. ops \in Nat /\ [Next]_vars => (ops \in Nat)'
    BY OpsCount
  <1>4. Spec => [](ops \in Nat)
    BY <1>2, <1>3, PTL DEF Spec
  <1> QED
    BY <1>1, <1>4, LedgerInvariant, PTL
=============================================================================
