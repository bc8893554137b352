------------------------------- MODULE Vesting -------------------------------
(***************************************************************************)
(* Vesting balances (vesting_balance_object.cpp): an amount that its owner *)
(* may withdraw little by little, by a linear policy or by coin seconds    *)
(* destroyed.  A balance is a record; the policies are functions of it and *)
(* of the time.                                                            *)
(*                                                                         *)
(* paid_in, free_in and since are history, which no operator reads: what   *)
(* was ever deposited, how much of it as vested, and since when.           *)
(***************************************************************************)
EXTENDS Integers, FiniteSetsExt

\* std::max(vesting_seconds, 1u)
Seconds(p) == IF p.seconds = 0 THEN 1 ELSE p.seconds

\* Mutant: the time of the last update is left at the epoch.
Cdd_epoch(seconds, earned, now, claim) ==
    [kind |-> "cdd", seconds |-> seconds, earned |-> earned, updated |-> 0,
     start_claim |-> claim]

Cdd(seconds, earned, now, claim) ==
    [kind |-> "cdd", seconds |-> seconds, earned |-> earned, updated |-> now,
     start_claim |-> claim]

Linear(begin, cliff, duration, amount) ==
    [kind |-> "linear", begin |-> begin, cliff |-> cliff, duration |-> duration,
     begin_balance |-> amount]

LinearPolicies ==
    [kind : {"linear"}, begin : Nat, cliff : Nat, duration : Nat, begin_balance : Nat]

VestingBalance(owner, asset, amount, policy, free, now) ==
    [owner |-> owner, asset |-> asset, amount |-> amount, policy |-> policy,
     paid_in |-> amount, free_in |-> free, since |-> now]

compute_coin_seconds_earned(b, now) ==
    Min({b.policy.earned + b.amount * (now - b.policy.updated),
         b.amount * Seconds(b.policy)})

update_coin_seconds_earned(b, now) ==
    [b EXCEPT !.policy.earned = compute_coin_seconds_earned(b, now),
              !.policy.updated = now]

LinearVested(p, elapsed) ==
    IF elapsed < p.duration THEN (p.begin_balance * elapsed) \div p.duration
    ELSE p.begin_balance

get_allowed_withdraw(b, now) ==
    LET p == b.policy
    IN  IF p.kind = "cdd"
        THEN IF now <= p.start_claim THEN 0
             ELSE compute_coin_seconds_earned(b, now) \div Seconds(p)
        ELSE IF now > p.begin /\ now - p.begin >= p.cliff
        THEN LinearVested(p, now - p.begin) - (p.begin_balance - b.amount)
        ELSE 0

\* deposit, and deposit_vested if the amount needs no vesting.  Only
\* balances by coin seconds receive deposits.
deposit(b, now, amount, vested) ==
    LET u == update_coin_seconds_earned(b, now)
        free == IF vested THEN amount ELSE 0
    IN  [u EXCEPT !.policy.earned = @ + free * Seconds(b.policy),
                  !.amount = @ + amount,
                  !.paid_in = @ + amount, !.free_in = @ + free]

withdraw(b, now, amount) ==
    LET u == update_coin_seconds_earned(b, now)
        rest == IF b.policy.kind = "cdd"
                THEN [u EXCEPT !.policy.earned = @ - amount * Seconds(b.policy)]
                ELSE b
    IN  [rest EXCEPT !.amount = @ - amount]

-----------------------------------------------------------------------------
\* What the assertions of the policies say: nobody may withdraw more than
\* there is, a balance never has more coin seconds than it can hold, and what
\* is left of a linear balance is no more than it began with
\* (withdrawn_already >= 0).
Sound(b, now) ==
    /\ get_allowed_withdraw(b, now) \in 0 .. b.amount
    /\ IF b.policy.kind = "cdd"
       THEN b.policy.earned \in 0 .. b.amount * Seconds(b.policy)
       ELSE b.amount <= b.policy.begin_balance

\* However deposits and withdrawals alternate, no more has been withdrawn
\* than what was deposited as vested and what the rest could earn since the
\* balance exists; of a linear balance, nothing before the cliff.
Gradual(b, now) ==
    LET p == b.policy
        drawn == b.paid_in - b.amount
    IN  IF p.kind = "cdd"
        THEN drawn * Seconds(p) <= b.free_in * Seconds(p) + b.paid_in * (now - b.since)
        ELSE /\ drawn * p.duration <= Max({0, p.begin_balance * (now - p.begin)})
             /\ drawn > 0 => now >= p.begin + p.cliff

\* The part of a linear balance that has not vested: all of it before the
\* cliff, and what begin_balance still lacks after it.
Unvested(b, now) ==
    LET p == b.policy
    IN  IF now > p.begin /\ now - p.begin >= p.cliff
        THEN p.begin_balance - LinearVested(p, now - p.begin)
        ELSE b.paid_in

\* What has not vested is still there, as far as it ever was: the amount and
\* begin_balance of a balance of the genesis state are given apart.
Covered(b, now) == b.amount >= Min({b.paid_in, Unvested(b, now)})
=============================================================================
