----------------------------- MODULE LockBalance -----------------------------
(***************************************************************************)
(* Locked balances and interest pools (lock_balance_evaluator.cpp): an     *)
(* account locks an amount for a period, the profit is taken from the      *)
(* interest pool of the asset at once, and both are paid out when the      *)
(* period is over.  A restart loads the objects from disk.                 *)
(*                                                                         *)
(* Amounts are integers and time counts days.  The interest formula is a   *)
(* parameter; fees are left out.                                           *)
(***************************************************************************)
EXTENDS Integers, Sequences, FiniteSets, Sums

CONSTANTS
    Accounts, Assets,
    Core,              \* asset_id_type()
    Issuer,            \* the issuer of each asset
    Endowment,         \* the balances at the beginning
    NoData,            \* an asset without lock_data_id
    Profit(_, _, _),   \* get_profit: of an amount, a period and the pool
    Amounts, Periods,  \* what operations ask for
    Donations,         \* what donations give: validate() does not look at the sign
    MaxPeriod,         \* asset_lock_data_object::max_period
    MaxHeld,           \* the most lock balances of an account in an asset: 50
    MaxDay, MaxLocks,  \* bounds: the last day and the number of locks of a run
    MaxPool            \* bound: how far from zero the pool of an asset goes in a run

LockData == [pool : Int, early : BOOLEAN]

Pools == -MaxPool .. MaxPool

\* What the accounts have of asset x when b are their balances.
InBalances(b, x) == Sum([a \in Accounts |-> b[a][x]], Accounts)

\* A profit is an amount times an interest, which is not negative, less the
\* amount.
ASSUME LockAssumption ==
    /\ IsFiniteSet(Accounts) /\ IsFiniteSet(Assets) /\ Core \in Assets
    /\ Issuer \in [Assets -> Accounts]
    /\ Endowment \in [Accounts -> [Assets -> Nat]]
    /\ Amounts \subseteq Nat \ {0} /\ Periods \subseteq Nat \ {0}
    /\ Donations \subseteq Int
    /\ \A a \in Amounts, d \in Periods, p \in Pools :
           Profit(a, d, p) \in Int /\ Profit(a, d, p) >= -a
    /\ NoData \notin LockData
    /\ {MaxPeriod, MaxHeld, MaxDay, MaxLocks, MaxPool} \subseteq Nat

VARIABLES
    balance,      \* account_balance_object::balance
    lockeds,      \* account_balance_object::lockeds
    locks,        \* the locked_balance_objects, by id
    lockData,     \* the asset_lock_data_object of each asset
    lockedSupply, \* asset_dynamic_data_object::locked_balance
    now           \* head_block_time

vars == <<balance, lockeds, locks, lockData, lockedSupply, now>>

Lock == [initial : Nat, locked : Nat, period : Nat, time : Nat,
         asset : Assets, finish : BOOLEAN]

Adjusted(a, x, delta) == [balance EXCEPT ![a][x] = @ + delta]

\* Mutant: forgets to take the profit out of the pool.
Pooled_only_in(x, delta) == [lockData EXCEPT ![x].pool = IF delta > 0 THEN @ + delta ELSE @]

Pooled(x, delta) == [lockData EXCEPT ![x].pool = @ + delta]

-----------------------------------------------------------------------------
\* The core asset has lock data from the genesis, with an empty pool.
Init ==
    /\ balance = Endowment
    /\ lockeds = [a \in Accounts |-> [x \in Assets |-> {}]]
    /\ locks = << >>
    /\ lockData = [x \in Assets |-> IF x = Core THEN [pool |-> 0, early |-> FALSE] ELSE NoData]
    /\ lockedSupply = [x \in Assets |-> 0]
    /\ now = 0

PoolCovers(x, profit) == lockData[x].pool >= profit

lock_balance(a, x, amount, period) ==
    LET profit == Profit(amount, period, lockData[x].pool)
        lock == [initial |-> amount, locked |-> profit + amount, period |-> period,
                 time |-> now, asset |-> x, finish |-> FALSE]
    IN /\ Len(locks) < MaxLocks
       /\ lockData[x] # NoData /\ lockData[x].pool \in Pools
       /\ balance[a][x] >= amount
       /\ period <= MaxPeriod
       /\ PoolCovers(x, profit)
       /\ Cardinality(lockeds[a][x]) < MaxHeld
       /\ locks' = Append(locks, lock)
       /\ balance' = Adjusted(a, x, -amount)
       /\ lockeds' = [lockeds EXCEPT ![a][x] = @ \cup {Len(locks) + 1}]
       /\ lockData' = Pooled(x, -profit)
       /\ lockedSupply' = [lockedSupply EXCEPT ![x] = @ + lock.locked]
       /\ UNCHANGED now

set_lock_data(a, x, pool, early) ==
    /\ lockData[x] = NoData
    /\ a = Issuer[x]
    /\ balance[a][x] >= pool
    /\ balance' = Adjusted(a, x, -pool)
    /\ lockData' = [lockData EXCEPT ![x] = [pool |-> pool, early |-> early]]
    /\ UNCHANGED <<lockeds, locks, lockedSupply, now>>

\* The checks of an unlock but for the time.  The lock has to be among those
\* of the account in the asset that the lock names.
Redeemable(a, id) ==
    /\ lockData[locks[id].asset] # NoData
    /\ locks[id].locked >= 0
    /\ ~locks[id].finish
    /\ id \in lockeds[a][locks[id].asset]

Matured(id, expired) == expired /\ now >= locks[id].time + locks[id].period

\* Mutant: only marks the lock as finished.
Finish_only(a, id) ==
    /\ locks' = [locks EXCEPT ![id].finish = TRUE]
    /\ UNCHANGED <<lockeds, lockedSupply, now>>

Finish(a, id) ==
    /\ locks' = [locks EXCEPT ![id].finish = TRUE]
    /\ lockeds' = [lockeds EXCEPT ![a][locks[id].asset] = @ \ {id}]
    /\ UNCHANGED <<lockedSupply, now>>

unlock_balance(a, id, expired) ==
    LET lock == locks[id]
    IN /\ Redeemable(a, id)
       /\ \/ /\ Matured(id, expired)
             /\ balance' = Adjusted(a, lock.asset, lock.locked)
             /\ UNCHANGED lockData
          \/ /\ ~Matured(id, expired)
             /\ lockData[lock.asset].early
             /\ balance' = Adjusted(a, lock.asset, lock.initial)
             /\ lockData' = Pooled(lock.asset, lock.locked - lock.initial)
       /\ Finish(a, id)

\* A negative amount moves units from the pool to the account, also when the
\* pool has fewer.
donation_balance(a, x, amount) ==
    /\ balance[a][x] >= amount
    /\ lockData[x] # NoData /\ lockData[x].pool + amount \in Pools
    /\ balance' = Adjusted(a, x, -amount)
    /\ lockData' = Pooled(x, amount)
    /\ UNCHANGED <<lockeds, locks, lockedSupply, now>>

\* Another block.
Day ==
    /\ now < MaxDay
    /\ now' = now + 1
    /\ UNCHANGED <<balance, lockeds, locks, lockData, lockedSupply>>

\* The objects are saved and loaded field by field, as FC_REFLECT lists them:
\* of a locked_balance_object neither the asset nor finish is among them.
Reloaded(lock) == [lock EXCEPT !.asset = Core, !.finish = FALSE]

restart ==
    /\ locks' = [id \in DOMAIN locks |-> Reloaded(locks[id])]
    /\ UNCHANGED <<balance, lockeds, lockData, lockedSupply, now>>

Next ==
    \/ \E a \in Accounts, x \in Assets, n \in Amounts, d \in Periods : lock_balance(a, x, n, d)
    \/ \E a \in Accounts, x \in Assets, n \in Amounts \cup {0}, e \in BOOLEAN :
            set_lock_data(a, x, n, e)
    \/ \E a \in Accounts, id \in DOMAIN locks, e \in BOOLEAN : unlock_balance(a, id, e)
    \/ \E a \in Accounts, x \in Assets, n \in Donations : donation_balance(a, x, n)
    \/ Day
    \/ restart

Spec == Init /\ [][Next]_vars

-----------------------------------------------------------------------------
(* Properties *)

TypeOK ==
    /\ balance \in [Accounts -> [Assets -> Nat]]
    /\ lockeds \in [Accounts -> [Assets -> SUBSET (1 .. Len(locks))]]
    /\ locks \in Seq(Lock)
    /\ lockData \in [Assets -> LockData \cup {NoData}]
    /\ lockedSupply \in [Assets -> Nat]
    /\ now \in Nat

Outstanding(x) ==
    UNION {{id \in lockeds[a][x] : ~locks[id].finish} : a \in Accounts}

InLocks(x) == Sum([id \in DOMAIN locks |-> locks[id].locked], Outstanding(x))

\* verify_asset_supplies of the tests: balances, locks that are not finished and
\* the interest pool of an asset always add up to its supply, so no lock pays
\* twice and no profit comes from nowhere, also across restarts and with
\* pools that negative donations have taken below zero.
SupplyConserved ==
    \A x \in Assets :
        InBalances(balance, x) + InLocks(x)
            + (IF lockData[x] = NoData THEN 0 ELSE lockData[x].pool)
        = InBalances(Endowment, x)

\* A lock belongs to one account and one of its balances, and that account can
\* redeem it: the checks of unlock_balance but for the time hold.
RedeemableIn(x) ==
    /\ \A a \in Accounts : \A id \in lockeds[a][x] : Redeemable(a, id)
    /\ \A a, b \in Accounts, y \in Assets :
            lockeds[a][x] \cap lockeds[b][y] # {} => a = b /\ x = y

\* Locks in the core asset stay redeemable whatever the node goes through, and
\* no lock of another asset becomes one of theirs when a restart makes it name
\* the core asset.
CoreLocksRedeemable == RedeemableIn(Core)
=============================================================================
