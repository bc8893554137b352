------------------------------- MODULE Ledger -------------------------------
(***************************************************************************)
(* Where the units of an asset are: account balances, fees and the pools   *)
(* that convert them, cashback, the budget of witnesses and workers,       *)
(* vesting balances, withdraw permissions and the balances of the genesis  *)
(* state (evaluator.cpp, transfer_evaluator.cpp, asset_evaluator.cpp,      *)
(* account_object.cpp, db_balance.cpp, db_maint.cpp and the evaluators of  *)
(* vesting balances, balances and withdraw permissions).  Orders and locks *)
(* have modules of their own.                                              *)
(*                                                                         *)
(* An operation is a function of the database d = [accounts, assets,       *)
(* vestings, now] that the fee is charged around; its conditions are the   *)
(* guard.  Assets other than the core asset are issued by hand and without *)
(* white lists.                                                            *)
(***************************************************************************)
EXTENDS Vesting, Sequences, FiniteSets, SequencesExt, Sums, TLC

CONSTANTS
    Core, Uias,             \* the core asset, and the others
    Accounts,               \* all accounts
    ChainAccounts,          \* the committee, witness, null and temp accounts
    ByName,                 \* the other accounts, in the order of their names
    NullAccount,            \* GRAPHENE_NULL_ACCOUNT
    Issuer,                 \* the issuer of each other asset
    Existing,               \* the ones that exist at the beginning
    Endowment, Pool,        \* the balances and the fee pool at the beginning
    Registrar, Referrer, LifetimeReferrer,   \* of each account
    Lifetime,               \* the lifetime members at the beginning
    Witness,                \* the account of the witness that signs the blocks
    Workers,                \* the sequences of active workers, by their votes, that occur
    WorkerAccount,          \* the owner of the workers
    MaxSupply,              \* options.max_supply of each asset
    Rate,                   \* core_exchange_rate: core units for units of the asset
    Hundred,                \* GRAPHENE_100_PERCENT
    NetworkFee, LifetimeFee, ReferrerReward,   \* percentages
    MinFee,                 \* the fee that the schedule requires
    Fees, CreateFees,       \* the fees that are paid: <<asset, amount>>
    Threshold,              \* cashback_vesting_threshold
    Periods, Period,        \* cashback_vesting_period_seconds: its values, the first one
    WitnessPay,             \* witness_pay_per_block
    PayPeriod,              \* witness_pay_vesting_seconds
    WorkerBudget,           \* worker_budget_per_day
    CycleRate, CycleUnit,   \* the part of the reserve that is spent per second
    Day, Interval,          \* seconds of a day, maintenance_interval
    Slots,                  \* how many slots the next block may be ahead
    Amounts,                \* what operations move
    Claims,                 \* what is claimed of the genesis balances
    Policies,               \* of vesting balances: <<kind, begin, cliff, seconds>>
    Terms,                  \* of permissions: <<limit, period, start, periods>>
    GenesisBalances,        \* the balance_objects of the genesis state, in the order of their ids
    NoPermit,
    MaxOps, MaxTime         \* bounds: operations and blocks

Assets == {Core} \cup Uias
User == Accounts \ ChainAccounts

ASSUME LedgerAssumption ==
    /\ Core \notin Uias /\ Existing \subseteq Uias /\ ChainAccounts \subseteq Accounts
    /\ Issuer \in [Uias -> User] /\ Registrar \in [User -> Accounts]
    /\ Referrer \in [User -> Accounts] /\ LifetimeReferrer \in [User -> Accounts]
    /\ \A a \in User : {Registrar[a], LifetimeReferrer[a]} \subseteq Lifetime
    /\ \A a \in User \cap Lifetime : {Registrar[a], LifetimeReferrer[a], Referrer[a]} = {a}
    /\ ChainAccounts \subseteq Lifetime /\ Lifetime \subseteq Accounts
    /\ NullAccount \in ChainAccounts /\ Witness \in User /\ WorkerAccount \in User
    /\ Endowment \in [User -> [Assets -> Nat]] /\ Pool \in Nat /\ MaxSupply \in [Assets -> Nat]
    /\ Rate \in (Nat \ {0}) \X (Nat \ {0})
    /\ {NetworkFee, LifetimeFee, ReferrerReward} \subseteq 0 .. Hundred
    /\ NetworkFee + LifetimeFee <= Hundred
    /\ {Hundred, CycleUnit, Day, Interval} \subseteq Nat \ {0}
    /\ {MinFee, Threshold, WitnessPay, PayPeriod, WorkerBudget, CycleRate, MaxOps, MaxTime}
           \cup Periods \subseteq Nat
    /\ Period \in Periods
    /\ Fees \cup CreateFees \subseteq Assets \X Nat /\ Amounts \cup Slots \subseteq Nat \ {0}
    /\ Claims \subseteq Int

\* What the asset has to begin with.
InitialSupply(x) ==
    Sum([a \in User |-> Endowment[a][x]], User)
    + IF x # Core THEN 0
      ELSE Sum([y \in Existing |-> Pool], Existing)
           + Sum([i \in DOMAIN GenesisBalances |-> GenesisBalances[i].amount],
                 DOMAIN GenesisBalances)

\* Nobody has units of an asset that does not exist.  The amount of a balance
\* of the genesis state that vests and its begin_balance are unrelated.
ASSUME GenesisAssumption ==
    /\ IsFiniteSet(Accounts) /\ IsFiniteSet(Uias)
    /\ ByName \in Seq(User) /\ Range(ByName) = User
    /\ \A a \in User, x \in Uias \ Existing : Endowment[a][x] = 0
    /\ GenesisBalances \in Seq([owner : User, asset : {Core}, amount : Nat,
                                policy : {[kind |-> "none"]} \cup LinearPolicies,
                                paid_in : Nat, free_in : {0}, since : Nat, last : Nat])
    /\ \A i \in DOMAIN GenesisBalances : GenesisBalances[i].amount = GenesisBalances[i].paid_in
    /\ \A x \in Existing \cup {Core} : InitialSupply(x) <= MaxSupply[x]

ASSUME InputsAssumption ==
    /\ Policies \subseteq {"cdd", "linear"} \X Nat \X Nat \X Nat
    /\ Workers \subseteq Seq([kind : {"refund", "burn", "vesting"}, pay : Nat])

\* withdraw_permission_create_operation::validate
ASSUME TermsAssumption == Terms \subseteq (Nat \ {0}) \X (Nat \ {0}) \X Nat \X (Nat \ {0})

VARIABLES
    accounts,        \* accounts, with their balances and their statistics
    assets,          \* asset_dynamic_data_object of each asset that exists
    vestings,        \* the vesting_balance_objects, in the order of their ids
    permit,          \* the withdraw_permission_object, if any
    genesis,         \* the balance_objects that are left
    witness_budget,
    last_budget,     \* last_budget_time
    cashback_period, \* cashback_vesting_period_seconds
    now,             \* head_block_time
    claims,          \* history: what was claimed, and when, under the terms in force
    minted,          \* history: the core units that asset_create made
    ops              \* operations so far

vars == <<accounts, assets, vestings, permit, genesis, witness_budget, last_budget,
          cashback_period, now, claims, minted, ops>>

Db == [accounts |-> accounts, assets |-> assets, vestings |-> vestings, now |-> now]

Becomes(d) == accounts' = d.accounts /\ assets' = d.assets /\ vestings' = d.vestings

-----------------------------------------------------------------------------
(* Balances and vesting balances *)

\* adjust_balance.  The conditions of the operations keep it from throwing.
adjust_balance(d, a, x, n) == [d EXCEPT !.accounts[a].balance[x] = @ + n]

Balance(a, x) == accounts[a].balance[x]

AddVesting(d, b) == [d EXCEPT !.vestings = Append(@, b)]

\* deposit_lazy_vesting: to the balance with this id if it belongs to the
\* owner and has the right period, or else to a new one.  The field of the
\* account that holds the id is kept up to date.
deposit_lazy_vesting(d, field, owner, n, seconds, vesting) ==
    LET id == d.accounts[owner][field]
        fits == /\ id # 0 /\ d.vestings[id].policy.kind = "cdd"
                /\ d.vestings[id].owner = owner /\ d.vestings[id].policy.seconds = seconds
        free == IF vesting THEN 0 ELSE n
        new == VestingBalance(owner, Core, n, Cdd(seconds, free * seconds, d.now, 0),
                              free, d.now)
    IN  IF n = 0 THEN d
        ELSE IF fits
        THEN [d EXCEPT !.vestings[id] = deposit(@, d.now, n, ~vesting)]
        ELSE [AddVesting(d, new) EXCEPT !.accounts[owner][field] = Len(d.vestings) + 1]

deposit_cashback(d, a, n, vesting) ==
    IF a \in ChainAccounts THEN [d EXCEPT !.assets[Core].supply = @ - n]
    ELSE deposit_lazy_vesting(d, "cashback", a, n, cashback_period, vesting)

-----------------------------------------------------------------------------
(* Fees *)

\* The core units for an amount of the asset.
ToCore(x, n) == IF x = Core THEN n ELSE (n * Rate[1]) \div Rate[2]

\* prepare_fee and the check of the fee schedule.
prepare_fee(fee, core) ==
    /\ fee[1] \in DOMAIN assets /\ core >= MinFee
    /\ fee[1] # Core => core <= assets[fee[1]].pool

convert_fee(d, fee, core) ==
    IF fee[1] = Core THEN d
    ELSE [d EXCEPT !.assets[fee[1]].fees = @ + fee[2], !.assets[fee[1]].pool = @ - core]

pay_fee(d, a, core) ==
    IF core > Threshold THEN [d EXCEPT !.accounts[a].pending = @ + core]
    ELSE [d EXCEPT !.accounts[a].vested = @ + core]

\* The evaluation of an operation: the fee is accounted for before, and taken
\* from the payer after the operation itself.  core is core_fee_paid as the
\* operation leaves it.
Charged(payer, fee, core) == pay_fee(convert_fee(Db, fee, core), payer, core)

Applied(d, payer, fee) ==
    LET done == adjust_balance(d, payer, fee[1], - fee[2])
    IN  /\ ops < MaxOps /\ ops' = ops + 1
        /\ done.accounts[payer].balance[fee[1]] >= 0
        /\ Becomes(done)

Evaluate(payer, fee, core, do_apply(_)) ==
    Applied(do_apply(Charged(payer, fee, core)), payer, fee)

blockUnchanged == UNCHANGED <<witness_budget, last_budget, cashback_period, now>>

OperationFor(fees, payer, do_apply(_)) ==
    /\ \E fee \in fees : /\ prepare_fee(fee, ToCore(fee[1], fee[2]))
                         /\ Evaluate(payer, fee, ToCore(fee[1], fee[2]), do_apply)
    /\ blockUnchanged /\ UNCHANGED minted

Operation(payer, do_apply(_)) == OperationFor(Fees, payer, do_apply)

unpermitted == UNCHANGED <<permit, claims, genesis>>

-----------------------------------------------------------------------------
Init ==
    /\ accounts = [a \in Accounts |->
         [balance |-> [x \in Assets |-> IF a \in User THEN Endowment[a][x] ELSE 0],
          pending |-> 0, vested |-> 0, cashback |-> 0, pay |-> 0,
          lifetime |-> a \in Lifetime,
          registrar |-> IF a \in User THEN Registrar[a] ELSE a,
          lifetime_referrer |-> IF a \in User THEN LifetimeReferrer[a] ELSE a,
          referrer |-> IF a \in User THEN Referrer[a] ELSE a]]
    /\ assets = [x \in Existing \cup {Core} |->
         [supply |-> InitialSupply(x), pool |-> IF x = Core THEN 0 ELSE Pool, fees |-> 0]]
    /\ vestings = <<VestingBalance(WorkerAccount, Core, 0, Cdd(PayPeriod, 0, 1, 0), 0, 1)>>
    /\ permit = NoPermit /\ genesis = GenesisBalances
    /\ witness_budget = 0 /\ last_budget = 0 /\ cashback_period = Period
    /\ now = 1 /\ claims = << >> /\ minted = 0 /\ ops = 0

-----------------------------------------------------------------------------
(* Transfers and assets *)

transfer(from, to, x, n) ==
    /\ from # to /\ x \in DOMAIN assets /\ Balance(from, x) >= n
    /\ Operation(from, LAMBDA d : adjust_balance(adjust_balance(d, from, x, - n), to, x, n))
    /\ unpermitted

override_transfer(from, to, x, n) ==
    /\ from # to /\ x \in DOMAIN assets \ {Core} /\ Balance(from, x) >= n
    /\ Operation(Issuer[x],
                 LAMBDA d : adjust_balance(adjust_balance(d, from, x, - n), to, x, n))
    /\ unpermitted

\* Half of the fee is the fee pool of the new asset.  core_fee_paid is cut
\* before the fee is converted and paid: the new pool and the fees share what
\* the payer gives only if that is an even number of core units.
asset_create(x) ==
    \E fee \in CreateFees :
        LET paid == ToCore(fee[1], fee[2])
            kept == paid - paid \div 2
            create(d) == [d EXCEPT !.assets =
                            [y \in DOMAIN @ \cup {x} |->
                               IF y = x THEN [supply |-> 0, pool |-> kept, fees |-> 0] ELSE @[y]]]
        IN  /\ x \notin DOMAIN assets
            /\ prepare_fee(fee, paid)
            /\ Evaluate(Issuer[x], fee, kept, create)
            /\ minted' = minted + (IF fee[1] = Core THEN 2 * kept - paid ELSE kept)
            /\ blockUnchanged /\ unpermitted

asset_issue(x, to, n) ==
    /\ x \in DOMAIN assets \ {Core} /\ assets[x].supply + n <= MaxSupply[x]
    /\ Operation(Issuer[x], LAMBDA d : [adjust_balance(d, to, x, n)
                                          EXCEPT !.assets[x].supply = @ + n])
    /\ unpermitted

asset_reserve(a, x, n) ==
    /\ x \in DOMAIN assets /\ assets[x].supply >= n /\ Balance(a, x) >= n
    /\ Operation(a, LAMBDA d : [adjust_balance(d, a, x, - n)
                                  EXCEPT !.assets[x].supply = @ - n])
    /\ unpermitted

\* The fee of this operation is always in the core asset.
asset_fund_fee_pool(a, x, n) ==
    /\ x \in DOMAIN assets /\ Balance(a, Core) >= n
    /\ OperationFor({fee \in Fees : fee[1] = Core}, a,
                    LAMBDA d : [adjust_balance(d, a, Core, - n)
                                  EXCEPT !.assets[x].pool = @ + n])
    /\ unpermitted

\* The fees of the operation itself can be claimed by it.
asset_claim_fees(x, n) ==
    LET claim(d) == [adjust_balance(d, Issuer[x], x, n) EXCEPT !.assets[x].fees = @ - n]
    IN  /\ x \in DOMAIN assets \ {Core}
        /\ Operation(Issuer[x], claim) /\ assets'[x].fees >= 0
        /\ unpermitted

-----------------------------------------------------------------------------
(* Vesting balances and the balances of the genesis state *)

Policy(p, n) ==
    IF p[1] = "cdd" THEN Cdd(p[4], 0, now, p[2]) ELSE Linear(p[2], p[3], p[4], n)

vesting_balance_create(a, owner, x, n, p) ==
    /\ x \in DOMAIN assets /\ Balance(a, x) >= n
    /\ Operation(a, LAMBDA d : AddVesting(adjust_balance(d, a, x, - n),
                                VestingBalance(owner, x, n, Policy(p, n), 0, now)))
    /\ unpermitted

vesting_balance_withdraw(id, n) ==
    LET b == vestings[id]
    IN  /\ n <= get_allowed_withdraw(b, now)
        /\ Operation(b.owner, LAMBDA d : [adjust_balance(d, b.owner, b.asset, n)
                                  EXCEPT !.vestings[id] = withdraw(@, now, n)])
        /\ unpermitted

\* A balance that vests may be claimed once a day, another one as a whole.
\* There is no fee.  The amount is not checked to be positive: a negative one
\* adds to a balance that vests, from the account.
balance_claim(i, to, n) ==
    LET g == genesis[i]
    IN  /\ IF g.policy.kind = "none" THEN n = g.amount
           ELSE n <= g.amount /\ n <= get_allowed_withdraw(g, now) /\ now - g.last >= Day
        /\ genesis' = IF n < g.amount
                      THEN [genesis EXCEPT ![i] = [g EXCEPT !.amount = @ - n, !.last = now]]
                      ELSE [j \in DOMAIN genesis \ {i} |-> genesis[j]]
        /\ Evaluate(to, <<Core, 0>>, 0, LAMBDA d : adjust_balance(d, to, Core, n))
        /\ blockUnchanged /\ UNCHANGED <<permit, claims, minted>>

-----------------------------------------------------------------------------
(* Withdraw permissions *)

Expiration(t) == t[3] + t[4] * t[2]

withdraw_permission_create(from, to, x, t) ==
    /\ permit = NoPermit /\ from # to /\ x \in DOMAIN assets
    /\ t[3] > now /\ Expiration(t) > now
    /\ permit' = [from |-> from, to |-> to, asset |-> x, claimed |-> 0, limit |-> t[1],
                  period |-> t[2], start |-> t[3], expiration |-> Expiration(t)]
    /\ claims' = << >>
    /\ Operation(from, LAMBDA d : d) /\ UNCHANGED genesis

\* Mutant: what was claimed before in the period is not looked at.
available_this_period_all(p) == p.limit

available_this_period(p) ==
    IF now >= p.start + p.period THEN p.limit ELSE Max({0, p.limit - p.claimed})

\* The quotient of the C++ division, which rounds towards zero.
Quotient(n, m) == IF n >= 0 THEN n \div m ELSE - ((- n) \div m)

\* The fee is paid by the account that withdraws.
withdraw_permission_claim(n) ==
    LET p == permit
        periods == Quotient(now - p.start, p.period)
    IN  /\ p # NoPermit /\ p.expiration > now /\ n <= available_this_period(p)
        /\ Balance(p.from, p.asset) >= n
        /\ permit' = [p EXCEPT !.start = @ + periods * p.period,
                               !.claimed = IF periods = 0 THEN @ + n ELSE n]
        /\ claims' = Append(claims, [at |-> now, amount |-> n])
        /\ Operation(p.to, LAMBDA d : adjust_balance(adjust_balance(d, p.from, p.asset, - n),
                                                     p.to, p.asset, n))
        /\ UNCHANGED genesis

\* The limit with its asset, the period and the start are replaced; what was
\* claimed in the period stays as it is.  The history begins anew with the terms.
withdraw_permission_update(x, t) ==
    /\ permit # NoPermit /\ x \in DOMAIN assets
    /\ t[3] >= now /\ Expiration(t) > now
    /\ permit' = [permit EXCEPT !.asset = x, !.limit = t[1], !.period = t[2], !.start = t[3],
                                !.expiration = Expiration(t)]
    /\ claims' = << >>
    /\ Operation(permit.from, LAMBDA d : d) /\ UNCHANGED genesis

withdraw_permission_delete ==
    /\ permit # NoPermit
    /\ permit' = NoPermit /\ claims' = << >>
    /\ Operation(permit.from, LAMBDA d : d) /\ UNCHANGED genesis

-----------------------------------------------------------------------------
(* The distribution of the fees *)

cut_fee(n, percent) == (n * percent) \div Hundred

\* pay_out_fees: to the network, to the lifetime referrer, to the referrer
\* and to the registrar.  A referrer that is no member is replaced for good.
pay_out_fees(d, a, total, vesting) ==
    LET c == d.accounts[a]
        referrer == IF d.accounts[c.referrer].lifetime THEN c.referrer
                    ELSE c.lifetime_referrer
        network == cut_fee(total, NetworkFee)
        lifetime == cut_fee(total, IF c.lifetime THEN Hundred - NetworkFee ELSE LifetimeFee)
        referral == total - network - lifetime
        reward == cut_fee(referral, ReferrerReward)
        taken == [d EXCEPT !.accounts[a].referrer = referrer,
                           !.assets[Core].fees = @ + network]
    IN  deposit_cashback(
            deposit_cashback(
                deposit_cashback(taken, c.lifetime_referrer, lifetime, vesting),
                referrer, reward, vesting),
            c.registrar, referral - reward, vesting)

\* Mutant: the fees are paid out and stay pending.
process_fees_keeps(d, a) ==
    IF d.accounts[a].pending + d.accounts[a].vested = 0 THEN d
    ELSE [pay_out_fees(pay_out_fees(d, a, d.accounts[a].pending, TRUE),
                       a, d.accounts[a].vested, FALSE)
             EXCEPT !.accounts[a].pending = 0]

process_fees(d, a) ==
    IF d.accounts[a].pending + d.accounts[a].vested = 0 THEN d
    ELSE [pay_out_fees(pay_out_fees(d, a, d.accounts[a].pending, TRUE),
                       a, d.accounts[a].vested, FALSE)
             EXCEPT !.accounts[a].pending = 0, !.accounts[a].vested = 0]

\* To lifetime member.  The fees so far, this one included, still go to the
\* former referrers.
account_upgrade(a) ==
    /\ ~accounts[a].lifetime
    /\ Operation(a, LAMBDA d : [process_fees(d, a) EXCEPT !.accounts[a].lifetime = TRUE,
                                  !.accounts[a].registrar = a, !.accounts[a].referrer = a,
                                  !.accounts[a].lifetime_referrer = a])
    /\ unpermitted

-----------------------------------------------------------------------------
(* Blocks and the maintenance *)

\* One worker gets what is left of the budget, at most what it asks for; once
\* there is nothing left, no worker is visited.  s = [d, budget, since].
pay_worker(s, w) ==
    LET pay == Min({s.budget, (w.pay * s.since) \div Day})
        d == s.d
    IN  IF s.budget = 0 THEN s ELSE
        [s EXCEPT !.budget = @ - pay,
                  !.d = CASE w.kind = "refund" -> [d EXCEPT !.assets[Core].supply = @ - pay]
                          [] w.kind = "burn" -> adjust_balance(d, NullAccount, Core, pay)
                          [] w.kind = "vesting" ->
                               [d EXCEPT !.vestings[1] = deposit(@, d.now, pay, FALSE)]]

\* initialize_budget_record: the reserve includes the accumulated fees and
\* what the witnesses left over.
TotalBudget(d, unused) ==
    LET reserve == MaxSupply[Core] - d.assets[Core].supply + d.assets[Core].fees + unused
    IN  IF last_budget = 0 \/ d.now <= last_budget THEN 0
        ELSE Min({reserve, (reserve * (d.now - last_budget) * CycleRate + CycleUnit - 1)
                               \div CycleUnit})

\* pay_workers, in the order of their votes.
pay_workers(start, order) ==
    LET run[n \in 0 .. Len(order)] == IF n = 0 THEN start ELSE pay_worker(run[n - 1], order[n])
    IN  run[Len(order)]

process_budget(d, unused, order, ahead) ==
    LET total == TotalBudget(d, unused)
        witnesses == Min({WitnessPay * ahead, total})
        workers == Min({(WorkerBudget * ahead) \div Day, total - witnesses})
        paid == pay_workers([d |-> d, budget |-> workers, since |-> d.now - last_budget], order)
    IN  [d |-> [paid.d EXCEPT !.assets[Core].supply =
                    @ + witnesses + workers - paid.budget - d.assets[Core].fees - unused,
                             !.assets[Core].fees = 0],
         budget |-> witnesses]

NextMaintenance(t) == (t \div Interval + 1) * Interval

\* The fees of all accounts, by their names.
process_all_fees(d) ==
    LET run[n \in 0 .. Len(ByName)] == IF n = 0 THEN d ELSE process_fees(run[n - 1], ByName[n])
    IN  run[Len(ByName)]

\* The fees of the accounts, the parameters that the committee has changed, and
\* the budget.
perform_chain_maintenance(d, unused) ==
    \E workers \in Workers :
        LET done == process_budget(process_all_fees(d), unused, workers,
                                   NextMaintenance(d.now) - d.now)
        IN  /\ Becomes(done.d) /\ witness_budget' = done.budget
            /\ last_budget' = d.now /\ cashback_period' \in Periods

\* The parts of _apply_block that concern the ledger.  Slots can be missed.
apply_block(t) ==
    LET pay == Min({WitnessPay, witness_budget})
        d == deposit_lazy_vesting([Db EXCEPT !.now = t], "pay", Witness, pay, PayPeriod, TRUE)
        expired == permit # NoPermit /\ permit.expiration <= t
    IN  /\ now' = t /\ t <= MaxTime
        /\ IF NextMaintenance(now) <= t
           THEN perform_chain_maintenance(d, witness_budget - pay)
           ELSE /\ Becomes(d) /\ witness_budget' = witness_budget - pay
                /\ UNCHANGED <<last_budget, cashback_period>>
        /\ permit' = IF expired THEN NoPermit ELSE permit
        /\ claims' = IF expired THEN << >> ELSE claims
        /\ UNCHANGED <<genesis, minted, ops>>

-----------------------------------------------------------------------------
Next ==
    \/ \E n \in Amounts :
        \/ \E a \in User : \E x \in Assets :
             \/ \E to \in User : \/ transfer(a, to, x, n)
                                 \/ override_transfer(a, to, x, n)
                                 \/ \E p \in Policies : vesting_balance_create(a, to, x, n, p)
             \/ asset_reserve(a, x, n)
             \/ asset_fund_fee_pool(a, x, n)
        \/ \E x \in Uias : asset_claim_fees(x, n) \/ \E to \in User : asset_issue(x, to, n)
        \/ \E id \in DOMAIN vestings : vesting_balance_withdraw(id, n)
        \/ withdraw_permission_claim(n)
    \/ \E i \in DOMAIN genesis, to \in User, n \in Claims : balance_claim(i, to, n)
    \/ \E x \in Uias : asset_create(x)
    \/ \E x \in Assets, t \in Terms :
         \/ withdraw_permission_update(x, t)
         \/ \E a, to \in User : withdraw_permission_create(a, to, x, t)
    \/ withdraw_permission_delete
    \/ \E a \in User : account_upgrade(a)
    \/ \E k \in Slots : apply_block(now + k)

Spec == Init /\ [][Next]_vars

-----------------------------------------------------------------------------
(* Properties *)

TypeOK ==
    /\ DOMAIN accounts = Accounts
    /\ \A a \in Accounts :
          /\ accounts[a].balance \in [Assets -> Nat]
          /\ {accounts[a].pending, accounts[a].vested} \subseteq Nat
          /\ {accounts[a].cashback, accounts[a].pay} \subseteq {0} \cup DOMAIN vestings
          /\ {accounts[a].referrer, accounts[a].registrar} \subseteq Accounts
    /\ DOMAIN assets \in SUBSET Assets
    /\ \A x \in DOMAIN assets :
          assets[x].supply \in Int /\ {assets[x].pool, assets[x].fees} \subseteq Nat
    /\ \A i \in DOMAIN vestings : vestings[i].amount \in Nat /\ vestings[i].owner \in Accounts
    /\ {witness_budget, last_budget, now, minted, ops} \subseteq Nat /\ cashback_period \in Periods

\* All units of an asset that accounts, pools, fees and vesting balances have.
Held(d, x) ==
    Sum([a \in Accounts |-> d.accounts[a].balance[x]], Accounts) + d.assets[x].fees
    + Sum([i \in DOMAIN d.vestings |-> IF d.vestings[i].asset = x THEN d.vestings[i].amount ELSE 0],
          DOMAIN d.vestings)
    + IF x # Core THEN 0
      ELSE Sum([a \in Accounts |-> d.accounts[a].pending + d.accounts[a].vested], Accounts)
           + Sum([y \in DOMAIN d.assets |-> d.assets[y].pool], DOMAIN d.assets)

\* All units, wherever they are.
Total(x) ==
    Held(Db, x) + IF x # Core THEN 0
                  ELSE Sum([i \in DOMAIN genesis |-> genesis[i].amount], DOMAIN genesis)
                       + witness_budget

\* Whatever is paid, converted, shared out with rounding, budgeted or burned,
\* the supply of every asset is the sum of its units, the check that
\* verify_asset_supplies makes after each test.  The core units that
\* asset_create makes out of nothing are in no supply.
SupplyMatches ==
    \A x \in DOMAIN assets : assets[x].supply + (IF x = Core THEN minted ELSE 0) = Total(x)

\* Neither issuing nor the budget of a maintenance brings more units into
\* being than the asset allows.
SupplyBounded == \A x \in DOMAIN assets : assets[x].supply <= MaxSupply[x]

\* The supply of every asset is within its maximum and exact up to the core
\* units that asset_create made, whatever the fees, pools, cashbacks, workers,
\* burns and budgets of the maintenances do to it (process_budget, pay_workers,
\* process_fees, the evaluators of assets).
SupplyExact == SupplyMatches /\ SupplyBounded

\* A balance of the genesis state, or what is left of it once it is removed.
Left(i) ==
    IF i \in DOMAIN genesis THEN genesis[i] ELSE [GenesisBalances[i] EXCEPT !.amount = 0]

\* The assertions of the vesting policies hold for every vesting balance after
\* any sequence of deposits, withdrawals and changes of the period, and nobody
\* gets at money faster than its policy lets it vest
\* (vesting_balance_object.cpp).  Of a balance of the genesis state, whose amount
\* may differ from begin_balance and which negative claims increase, so that
\* the assertion on withdrawn_already can fail, this much is true: what has
\* not vested is still there (balance_evaluator.cpp).
VestingSound ==
    /\ \A i \in DOMAIN vestings : Sound(vestings[i], now) /\ Gradual(vestings[i], now)
    /\ \A i \in DOMAIN GenesisBalances :
          GenesisBalances[i].policy.kind = "linear" => Covered(Left(i), now)

\* "Any number of withdrawals may be made so long as the total amount
\* withdrawn per period does not exceed the limit for any given period":
\* even if claims come early, the period moves or the terms change.
ClaimsWithinLimit ==
    permit # NoPermit =>
        \A i \in DOMAIN claims :
            LET period(c) == (c.at - permit.start) \div permit.period
                same == {j \in DOMAIN claims : period(claims[j]) = period(claims[i])}
            IN  Sum([j \in DOMAIN claims |-> claims[j].amount], same) <= permit.limit

=============================================================================
