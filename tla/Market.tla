------------------------------- MODULE Market -------------------------------
(***************************************************************************)
(* The market of one market issued asset (mia, "USD") against the asset    *)
(* that backs it: limit orders, call orders (debt positions), margin       *)
(* calls, the black swan, forced settlement and price feeds                *)
(* (db_market.cpp, market_evaluator.cpp, asset_evaluator.cpp,              *)
(* db_update.cpp).  The hard forks of the code all lie in the past, so     *)
(* only the newest branch of each test is here.                            *)
(*                                                                         *)
(* A handler is a function of the whole market, the record s that State    *)
(* names: s.ok is FALSE once it has thrown, and the operation then leaves  *)
(* nothing behind.  s.undefined is TRUE once the code has used an iterator *)
(* that designates no object; what follows is undefined and not modelled.  *)
(*                                                                         *)
(* A price of the code is a pair <<base, quote>>: base of the first asset  *)
(* for quote of the second.  Orders and positions are kept in the order of *)
(* their ids; only that order matters.                                     *)
(***************************************************************************)
EXTENDS Integers, Sequences, FiniteSets, FiniteSetsExt, SequencesExt

CONSTANTS
    Accounts, Issuer,       \* the accounts, and the one that issued the mia
    Core, Usd, Backing,     \* the core asset, the mia and its backing asset
    Producers,              \* the accounts that may publish feeds, by their ids
    ProducerSets,           \* the sets of producers that the issuer chooses
    Endowment,              \* the balances at the beginning
    Offers,                 \* what limit orders ask for: [sells, amount, price, life]
    Updates,                \* what positions change by: <<debt, collateral>>
    Settlements,            \* the amounts that holders ask to settle
    FeedPrices,             \* the settlement prices that are published
    MCR, MSSR,              \* the collateral ratios of the feeds, over Denom
    Denom,                  \* GRAPHENE_COLLATERAL_RATIO_DENOM
    FeePercent, MaxFee,     \* the market fee of each asset: a percentage and its cap
    OrderFee, CancelFee,    \* the fees of creating and of cancelling an order
    FeedLife, SettleDelay,  \* feed_lifetime_sec, force_settlement_delay_sec
    SettleOffset,           \* force_settlement_offset_percent
    SettleVolume,           \* maximum_force_settlement_volume, a percentage
    Null,                   \* price()
    MaxOps, MaxTime         \* bounds: operations and blocks of a run

Assets == {Core, Usd, Backing}

ASSUME MarketAssumption ==
    /\ Core # Usd /\ Backing # Usd /\ Issuer \in Accounts
    /\ Endowment \in [Accounts -> [Assets -> Nat]]
    /\ \A a \in Accounts : Endowment[a][Usd] = 0
    /\ Producers \subseteq Nat
    /\ \A o \in Offers : o.sells \in {Usd, Backing} /\ o.amount > 0 /\ o.life > 0
    /\ \A u \in Updates : u \in Int \X Int
    /\ FeePercent \in [Assets -> 0 .. 100] /\ MaxFee \in Nat
    /\ {MCR, MSSR} \subseteq Nat /\ MSSR >= Denom /\ MCR >= Denom
    /\ {OrderFee, CancelFee, FeedLife, SettleDelay, MaxOps, MaxTime} \subseteq Nat
    /\ SettleOffset \in 0 .. 100 /\ SettleVolume \in 0 .. 100

VARIABLES
    balance,       \* account_balance_object::balance
    in_orders,     \* account_statistics_object::total_core_in_orders
    limits,        \* the limit_order_objects
    calls,         \* the call_order_objects
    settles,       \* the force_settlement_objects
    supply,        \* current_supply of the mia
    fees,          \* accumulated_fees of each asset
    paid,          \* the fees of operations, in the core asset
    bit,           \* asset_bitasset_data_object
    now,           \* head_block_time
    undefined,     \* an iterator that designates no object was used
    ops            \* operations so far

vars == <<balance, in_orders, limits, calls, settles, supply, fees, paid, bit, now, undefined, ops>>

State == [balance |-> balance, in_orders |-> in_orders, limits |-> limits, calls |-> calls,
          settles |-> settles, supply |-> supply, fees |-> fees, paid |-> paid, bit |-> bit,
          now |-> now, undefined |-> undefined, ok |-> TRUE]

\* The objects of an index in the order of their ids.
Compact(f) == LET ids == SetToSortSeq(DOMAIN f, <)
              IN [i \in 1 .. Len(ids) |-> f[ids[i]]]

Becomes(s) ==
    /\ s.ok
    /\ balance' = s.balance /\ in_orders' = s.in_orders
    /\ limits' = Compact(s.limits) /\ calls' = Compact(s.calls) /\ settles' = Compact(s.settles)
    /\ supply' = s.supply /\ fees' = s.fees /\ paid' = s.paid /\ bit' = s.bit
    /\ now' = s.now /\ undefined' = s.undefined

Without(f, id) == [i \in DOMAIN f \ {id} |-> f[i]]

-----------------------------------------------------------------------------
(* Prices, protocol/asset.cpp. *)

Inv(p) == <<p[2], p[1]>>
LessPrice(p, q) == p[1] * q[2] < q[1] * p[2]
AtMost(p, q) == p[1] * q[2] <= q[1] * p[2]

\* asset * price rounds down.
Times(amount, p) == (amount * p[2]) \div p[1]

\* ~price::call_price: debt over collateral, scaled up by the maintenance ratio.
CallPrice(debt, collateral) == <<debt * MCR, collateral * Denom>>

max_short_squeeze_price(feed) == <<feed[1] * Denom, feed[2] * MSSR>>

\* The first id of ids in an index that sorts by Before and then by id.
First(ids, Before(_, _)) ==
    CHOOSE i \in ids : \A j \in ids \ {i} : Before(i, j) \/ (~Before(j, i) /\ i < j)

\* The greatest price comes first among the limit orders, and among the positions
\* the one whose (inverted) call price is greatest.
BestLimit(s, ids) == First(ids, LAMBDA i, j : LessPrice(s.limits[j].price, s.limits[i].price))
FirstCall(s) == First(DOMAIN s.calls, LAMBDA i, j : LessPrice(s.calls[j].cp, s.calls[i].cp))
LeastCollateral(s) ==
    First(DOMAIN s.calls, LAMBDA i, j : s.calls[i].collateral * s.calls[j].debt
                                          < s.calls[j].collateral * s.calls[i].debt)

Selling(s, asset) == {i \in DOMAIN s.limits : s.limits[i].sells = asset}
Other(asset) == IF asset = Usd THEN Backing ELSE Usd

-----------------------------------------------------------------------------
(* Balances and fees. *)

adjust_balance(s, a, x, delta) ==
    IF s.balance[a][x] + delta < 0 THEN [s EXCEPT !.ok = FALSE]
    ELSE [s EXCEPT !.balance[a][x] = @ + delta]

\* total_core_in_orders, for an amount of asset x.
CoreInOrders(s, a, x, delta) ==
    IF x = Core THEN [s EXCEPT !.in_orders[a] = @ + delta] ELSE s

calculate_market_fee(x, amount) ==
    Min({(amount * FeePercent[x]) \div 100, MaxFee})

\* The receiver gets what it receives less the fee of the issuer.
Receive(s, a, x, amount) ==
    LET fee == calculate_market_fee(x, amount)
    IN adjust_balance([s EXCEPT !.fees[x] = @ + fee], a, x, amount - fee)

-----------------------------------------------------------------------------
(* Cancelling and filling. *)

cancel_settle(s, id) ==
    LET o == s.settles[id]
    IN adjust_balance([s EXCEPT !.settles = Without(@, id)], o.owner, Usd, o.balance)

\* Mutant: forgets to take the order out of total_core_in_orders.
cancel_limit_keeps(s, id) ==
    LET o == s.limits[id]
        s1 == adjust_balance(s, o.seller, o.sells, o.for_sale)
    IN adjust_balance([s1 EXCEPT !.limits = Without(@, id)], o.seller, Core, o.deferred_fee)

cancel_limit(s, id) ==
    LET o == s.limits[id]
        s1 == CoreInOrders(s, o.seller, o.sells, -o.for_sale)
        s2 == adjust_balance(s1, o.seller, o.sells, o.for_sale)
    IN adjust_balance([s2 EXCEPT !.limits = Without(@, id)], o.seller, Core, o.deferred_fee)

maybe_cull_small_order(s, id) ==
    IF Times(s.limits[id].for_sale, s.limits[id].price) = 0 THEN cancel_limit(s, id) ELSE s

fill_limit(s, id, pays, receives, cull) ==
    LET o == s.limits[id]
        s1 == CoreInOrders(Receive(s, o.seller, Other(o.sells), receives), o.seller, o.sells, -pays)
        s2 == [s1 EXCEPT !.paid = @ + o.deferred_fee]
        s3 == [s2 EXCEPT !.limits[id].for_sale = @ - pays, !.limits[id].deferred_fee = 0]
    IN IF pays = o.for_sale THEN [s2 EXCEPT !.limits = Without(@, id)]
       ELSE IF cull THEN maybe_cull_small_order(s3, id) ELSE s3

\* A position whose debt is paid frees the rest of its collateral.  What is freed
\* leaves total_core_in_orders whatever the asset.
fill_call(s, id, pays, receives) ==
    LET o == s.calls[id]
        freed == o.collateral - pays
        s1 == CoreInOrders([s EXCEPT !.supply = @ - receives], o.borrower, Backing, -pays)
        s2 == adjust_balance([s1 EXCEPT !.in_orders[o.borrower] = @ - freed,
                                        !.calls = Without(@, id)], o.borrower, Backing, freed)
    IN IF pays > o.collateral THEN [s EXCEPT !.ok = FALSE]
       ELSE IF o.debt = receives THEN s2
       ELSE [s1 EXCEPT !.calls[id].debt = @ - receives, !.calls[id].collateral = @ - pays]

fill_settle(s, id, pays, receives) ==
    LET o == s.settles[id]
        s1 == IF pays < o.balance THEN [s EXCEPT !.settles[id].balance = @ - pays]
              ELSE [s EXCEPT !.settles = Without(@, id)]
    IN Receive(s1, o.owner, Backing, receives)

-----------------------------------------------------------------------------
(* Margin calls and the black swan. *)

HasSettlement(s) == s.bit.settlement # Null

\* Every position is closed at the price, and the collateral it pays goes to the
\* settlement fund; the supply stays what it was.
globally_settle_asset(s, price) ==
    LET Pays(id) == Min({Times(s.calls[id].debt, price), s.calls[id].collateral})
        gathered == MapThenSumSet(Pays, DOMAIN s.calls)
        Close(t, id) == fill_call(t, id, Pays(id), s.calls[id].debt)
        closed == FoldLeft(Close, s, SetToSeq(DOMAIN s.calls))
    IN IF HasSettlement(s) THEN [s EXCEPT !.ok = FALSE]
       ELSE [closed EXCEPT !.bit.settlement = <<s.supply, gathered>>,
                           !.bit.fund = gathered,
                           !.supply = s.supply]

HighestBid(s) ==
    LET bids == Selling(s, Usd)
        best == s.limits[BestLimit(s, bids)].price
    IN IF bids # {} /\ LessPrice(s.bit.feed, best) THEN best ELSE s.bit.feed

\* The position is judged by its debt and collateral, but it is the first by call
\* price, which a partial fill does not update.
check_for_blackswan(s, enable) ==
    LET least == s.calls[FirstCall(s)]
        swan == <<least.debt, least.collateral>>
    IN IF HasSettlement(s) \/ s.bit.feed = Null \/ DOMAIN s.calls = {} THEN s
       ELSE IF LessPrice(swan, HighestBid(s)) THEN s
       ELSE IF enable THEN globally_settle_asset(s, swan)
       ELSE [s EXCEPT !.ok = FALSE]

\* The loop of check_call_orders.  limits are the orders that limit_itr has not passed.
\* filled is filled_limit, which is never reset, so that once an order was filled the
\* iterator also passes orders that were not.  at is the order that limit_itr designates
\* after a step that did not pass it, which the fill may have culled.
RECURSIVE MarginCalls(_, _, _, _, _, _)
MarginCalls(s, limits_left, filled, at, called, enable) ==
    LET l == BestLimit(s, limits_left)
        c == FirstCall(s)
        limit == s.limits[l]
        call == s.calls[c]
        buys == Min({call.debt, limit.for_sale})
        pays == Times(buys, limit.price)
        passes == filled \/ call.debt >= limit.for_sale
        done == fill_limit(fill_call(s, c, pays, buys), l, buys, pays, TRUE)
    IN IF ~s.ok \/ HasSettlement(s) \/ DOMAIN s.calls = {} THEN [s |-> s, called |-> called]
       ELSE IF at # {} /\ at \cap DOMAIN s.limits = {} THEN [s |-> [s EXCEPT !.undefined = TRUE], called |-> called]
       ELSE IF limits_left = {} THEN [s |-> s, called |-> called]
       ELSE IF LessPrice(call.cp, s.bit.feed) \/ LessPrice(call.cp, limit.price)
         THEN [s |-> s, called |-> called]
       ELSE IF Times(call.debt, limit.price) > call.collateral
         THEN [s |-> IF enable THEN globally_settle_asset(s, s.bit.feed) ELSE [s EXCEPT !.ok = FALSE],
               called |-> TRUE]
       ELSE MarginCalls(check_for_blackswan(done, enable), IF passes THEN limits_left \ {l} ELSE limits_left,
                        passes, IF passes THEN {} ELSE {l}, TRUE, enable)

\* The bids that a margin call may be matched with.
Bids(s) == {i \in Selling(s, Usd) : AtMost(max_short_squeeze_price(s.bit.feed), s.limits[i].price)}

CallOrders(s, enable) ==
    IF ~s.ok \/ HasSettlement(s) \/ s.bit.feed = Null \/ Bids(s) = {}
    THEN [s |-> s, called |-> FALSE]
    ELSE MarginCalls(s, Bids(s), FALSE, {}, FALSE, enable)

check_call_orders(s, enable) == CallOrders(check_for_blackswan(s, enable), enable)

-----------------------------------------------------------------------------
(* Matching limit orders. *)

\* The new order and an older one trade at the price of the older one.
match(s, new, old) ==
    LET n == s.limits[new]
        o == s.limits[old]
        taken == Times(o.for_sale, o.price)
        pays == Min({n.for_sale, taken})
        receives == IF n.for_sale <= taken THEN Times(n.for_sale, Inv(o.price)) ELSE o.for_sale
    IN fill_limit(fill_limit(s, new, pays, receives, FALSE), old, receives, pays, TRUE)

\* Mutant: matches only better prices than its own.
Crosses_strictly(s, new, old) ==
    /\ s.limits[old].sells = Other(s.limits[new].sells)
    /\ LessPrice(Inv(s.limits[new].price), s.limits[old].price)

Crosses(s, new, old) ==
    /\ s.limits[old].sells = Other(s.limits[new].sells)
    /\ AtMost(Inv(s.limits[new].price), s.limits[old].price)

RECURSIVE MatchLoop(_, _)
MatchLoop(s, new) ==
    LET olds == {i \in DOMAIN s.limits : Crosses(s, new, i)}
        old == BestLimit(s, olds)
        t == match(s, new, old)
    IN IF olds = {} THEN s
       ELSE IF t.ok /\ new \in DOMAIN t.limits /\ old \notin DOMAIN t.limits
         THEN MatchLoop(t, new)
       ELSE t

\* What follows a step in which an order may be filled, unless it is or the step failed.
WhileListed(s, id, next(_)) ==
    IF ~s.ok \/ s.undefined \/ id \notin DOMAIN s.limits THEN s ELSE next(s)

\* The margin calls come first, then the book, then the margin calls again.
apply_order(s, id) ==
    WhileListed(check_call_orders(s, TRUE).s, id, LAMBDA t :
        WhileListed(check_call_orders(MatchLoop(t, id), TRUE).s, id, LAMBDA u :
            maybe_cull_small_order(u, id)))

-----------------------------------------------------------------------------
(* Price feeds. *)

\* The median of the feeds that are not too old, or no feed when there are too few.
update_median_feeds(s) ==
    LET current == {p \in DOMAIN s.bit.feeds : /\ s.bit.feeds[p].time # 0
                                               /\ s.now - s.bit.feeds[p].time < FeedLife}
        sorted == SetToSortSeq(current, LAMBDA p, q :
                      LET fp == s.bit.feeds[p].price
                          fq == s.bit.feeds[q].price
                      IN LessPrice(fp, fq) \/ (~LessPrice(fq, fp) /\ p < q))
        oldest == Min({s.now} \cup {s.bit.feeds[p].time : p \in current})
    IN IF Cardinality(current) < s.bit.minimum
       THEN [s EXCEPT !.bit.feed = Null, !.bit.published = s.now]
       ELSE [s EXCEPT !.bit.published = oldest,
                      !.bit.feed = s.bit.feeds[sorted[(Len(sorted) \div 2) + 1]].price]

feed_is_expired(s) == s.bit.published + FeedLife <= s.now

\* A feed that has expired is null then, and its base the core asset, so that the
\* check of margin calls finds nothing to do; after a new median it is done.
update_expired_feeds(s) ==
    LET t == update_median_feeds(s)
    IN IF ~feed_is_expired(s) THEN s
       ELSE IF t.bit.feed = Null THEN t ELSE check_call_orders(t, TRUE).s

-----------------------------------------------------------------------------
(* What a block does after its transactions. *)

\* limit_order_cancel_operation, by the seller or by clear_expired_orders.
Cancel(s, id, fee) ==
    LET a == s.limits[id].seller
        t == check_call_orders(cancel_limit([s EXCEPT !.paid = @ + fee], id), TRUE).s
    IN adjust_balance(t, a, Core, -fee)

\* Mutant: does not cap the fee at the deferred fee.
ExpiryFee_uncapped(o) == CancelFee

ExpiryFee(o) == Min({CancelFee, o.deferred_fee})

RECURSIVE ExpireLimits(_)
ExpireLimits(s) ==
    LET expired == {i \in DOMAIN s.limits : s.limits[i].expiration <= s.now}
        id == First(expired, LAMBDA i, j : s.limits[i].expiration < s.limits[j].expiration)
    IN IF ~s.ok \/ s.undefined \/ expired = {} THEN s
       ELSE ExpireLimits(Cancel(s, id, ExpiryFee(s.limits[id])))

max_force_settlement_volume(s) == ((s.supply + s.bit.volume) * SettleVolume) \div 100

\* One forced settlement against the positions with the least collateral, until it is
\* done, the volume is used up or a position cannot pay.
RECURSIVE SettleLoop(_, _, _, _)
SettleLoop(s, id, price, most) ==
    LET c == LeastCollateral(s)
        call == s.calls[c]
        receives == Min({s.settles[id].balance, most - s.bit.volume, call.debt})
        pays == Times(receives, price)
        t == fill_settle(fill_call(s, c, pays, receives), id, receives, pays)
    IN IF ~s.ok \/ s.bit.volume >= most \/ id \notin DOMAIN s.settles THEN s
       ELSE IF DOMAIN s.calls = {} THEN [s EXCEPT !.undefined = TRUE]
       ELSE IF s.settles[id].balance = 0 THEN cancel_settle(s, id)
       ELSE IF pays >= call.collateral THEN cancel_settle(s, id)
       ELSE SettleLoop([t EXCEPT !.bit.volume = @ + receives], id, price, most)

\* most is what may be settled of the asset, computed with the first settlement due.
RECURSIVE ExpireSettles(_, _)
ExpireSettles(s, most) ==
    LET id == First(DOMAIN s.settles, LAMBDA i, j : s.settles[i].date < s.settles[j].date)
        o == s.settles[id]
        receives == (Times(o.balance, s.bit.feed) * (100 - SettleOffset)) \div 100
    IN IF ~s.ok \/ s.undefined \/ DOMAIN s.settles = {} THEN s
       ELSE IF HasSettlement(s) THEN ExpireSettles(cancel_settle(s, id), most)
       ELSE IF o.date > s.now THEN s
       ELSE IF s.bit.feed = Null THEN ExpireSettles(cancel_settle(s, id), most)
       ELSE IF s.bit.volume >= most THEN s
       ELSE ExpireSettles(SettleLoop(s, id, <<o.balance, receives>>, most), most)

\* What follows a step, unless it failed.
Then(s, next(_)) == IF ~s.ok \/ s.undefined THEN s ELSE next(s)

clear_expired_orders(s) ==
    Then(ExpireLimits(s), LAMBDA t : ExpireSettles(t, max_force_settlement_volume(t)))

\* maint: the block is the first of a maintenance interval.
AfterBlock(s, maint) ==
    Then(clear_expired_orders([s EXCEPT !.now = @ + 1, !.bit.volume = IF maint THEN 0 ELSE @]),
         update_expired_feeds)

apply_block(maint) ==
    /\ now < MaxTime
    /\ Becomes(AfterBlock(State, maint))
    /\ UNCHANGED ops

-----------------------------------------------------------------------------
(* Operations of transactions. *)

Operation(s) ==
    /\ ops < MaxOps
    /\ Becomes(s)
    /\ ops' = ops + 1

limit_order_create(a, o, fill_or_kill) ==
    LET id == Len(limits) + 1
        order == [seller |-> a, sells |-> o.sells, for_sale |-> o.amount, price |-> o.price,
                  expiration |-> now + o.life, deferred_fee |-> OrderFee]
        s1 == CoreInOrders(State, a, o.sells, o.amount)
        s2 == adjust_balance(s1, a, o.sells, -o.amount)
    IN /\ balance[a][o.sells] >= o.amount
       /\ \E s3 \in {apply_order([s2 EXCEPT !.limits = Append(@, order)], id)} :
             /\ fill_or_kill => id \notin DOMAIN s3.limits
             /\ Operation(adjust_balance(s3, a, Core, -OrderFee))

limit_order_cancel(id) ==
    Operation(Cancel(State, id, CancelFee))

\* A position is opened, changed or closed.  The update may neither cause a black swan
\* nor leave a position of the account that is under its call price.
call_order_update(a, debt, collateral) ==
    LET mine == {i \in DOMAIN calls : calls[i].borrower = a}
        id == IF mine = {} THEN Len(calls) + 1 ELSE CHOOSE i \in mine : TRUE
        d == debt + IF mine = {} THEN 0 ELSE calls[id].debt
        c == collateral + IF mine = {} THEN 0 ELSE calls[id].collateral
        s1 == adjust_balance([State EXCEPT !.supply = @ + debt], a, Usd, debt)
        s2 == CoreInOrders(adjust_balance(s1, a, Backing, -collateral), a, Backing, collateral)
        call == [borrower |-> a, debt |-> d, collateral |-> c, cp |-> CallPrice(d, c)]
        s3 == [s2 EXCEPT !.calls = IF mine = {} THEN Append(@, call) ELSE [@ EXCEPT ![id] = call]]
    IN /\ ~HasSettlement(State) /\ bit.feed # Null
       /\ mine = {} => debt > 0 /\ collateral > 0
       /\ \/ /\ d = 0 /\ c = 0
             /\ Operation([s2 EXCEPT !.calls = Without(@, id)])
          \/ /\ d > 0 /\ c > 0
             /\ \E r \in {check_call_orders(s3, FALSE)} :
                   /\ \/ r.s.undefined
                      \/ r.called /\ id \notin DOMAIN r.s.calls
                      \/ ~r.called /\ LessPrice(call.cp, bit.feed)
                   /\ Operation(r.s)

\* Mutant: pays the fund out rounded up.
SettledAmount_up(n) ==
    (n * bit.settlement[2] + bit.settlement[1] - 1) \div bit.settlement[1]

SettledAmount(n) == Times(n, bit.settlement)

\* The checks of a settlement.  They ask for a feed even after a global settlement.
CanSettle(a, n) ==
    /\ bit.can_settle \/ HasSettlement(State)
    /\ bit.feed # Null
    /\ balance[a][Usd] >= n

asset_settle(a, n) ==
    LET s == adjust_balance(State, a, Usd, -n)
        settle == [owner |-> a, balance |-> n, date |-> now + SettleDelay]
    IN /\ CanSettle(a, n)
       /\ \/ /\ HasSettlement(State)
             /\ SettledAmount(n) <= bit.fund
             /\ Operation(adjust_balance([s EXCEPT !.bit.fund = @ - SettledAmount(n), !.supply = @ - n],
                                         a, Backing, SettledAmount(n)))
          \/ /\ ~HasSettlement(State)
             /\ Operation([s EXCEPT !.settles = Append(@, settle)])

\* The issuer settles everything.  The position is looked up before anything asks
\* whether there is one.
asset_global_settle(price) ==
    LET least == calls[LeastCollateral(State)]
    IN /\ supply > 0
       /\ \/ /\ calls = << >>
             /\ Operation([State EXCEPT !.undefined = TRUE])
          \/ /\ calls # << >>
             /\ Times(least.debt, price) <= least.collateral
             /\ Operation(globally_settle_asset(State, price))

asset_publish_feed(p, price) ==
    LET s == update_median_feeds([State EXCEPT !.bit.feeds[p] = [time |-> now, price |-> price]])
    IN /\ p \in DOMAIN bit.feeds
       /\ ~HasSettlement(State)
       /\ Operation(IF s.bit.feed = bit.feed THEN s ELSE check_call_orders(s, TRUE).s)

asset_update_feed_producers(producers) ==
    LET kept == [p \in producers |-> IF p \in DOMAIN bit.feeds THEN bit.feeds[p]
                                     ELSE [time |-> 0, price |-> Null]]
    IN Operation(check_call_orders(update_median_feeds([State EXCEPT !.bit.feeds = kept]), TRUE).s)

\* The number of feeds that a median needs; margin calls are not checked.
asset_update_bitasset(minimum) ==
    /\ ~HasSettlement(State)
    /\ minimum # bit.minimum
    /\ Operation(update_median_feeds([State EXCEPT !.bit.minimum = minimum]))

\* Forced settlement is switched off, which cancels what was asked for, or on.
asset_update(can_settle) ==
    LET cancelled == FoldLeft(cancel_settle, State, SetToSeq(DOMAIN settles))
        s == IF bit.can_settle /\ ~can_settle THEN cancelled ELSE State
    IN Operation([s EXCEPT !.bit.can_settle = can_settle])

asset_claim_fees(x, n) ==
    /\ n <= fees[x]
    /\ Operation(adjust_balance([State EXCEPT !.fees[x] = @ - n], Issuer, x, n))

-----------------------------------------------------------------------------
Init ==
    /\ balance = Endowment
    /\ in_orders = [a \in Accounts |-> 0]
    /\ limits = << >> /\ calls = << >> /\ settles = << >>
    /\ supply = 0 /\ paid = 0
    /\ fees = [x \in Assets |-> 0]
    /\ bit = [feeds |-> [p \in Producers |-> [time |-> 0, price |-> Null]], feed |-> Null,
              published |-> 0, minimum |-> 1, settlement |-> Null, fund |-> 0, volume |-> 0,
              can_settle |-> TRUE]
    /\ now = 1 /\ undefined = FALSE /\ ops = 0

Next ==
    /\ ~undefined
    /\ \/ \E a \in Accounts, o \in Offers, fok \in BOOLEAN : limit_order_create(a, o, fok)
       \/ \E id \in DOMAIN limits : limit_order_cancel(id)
       \/ \E a \in Accounts, u \in Updates : call_order_update(a, u[1], u[2])
       \/ \E a \in Accounts, n \in Settlements : asset_settle(a, n)
       \/ \E price \in FeedPrices : asset_global_settle(price)
       \/ \E p \in Producers, price \in FeedPrices : asset_publish_feed(p, price)
       \/ \E producers \in ProducerSets : asset_update_feed_producers(producers)
       \/ \E minimum \in 1 .. Cardinality(Producers) : asset_update_bitasset(minimum)
       \/ \E can_settle \in BOOLEAN : asset_update(can_settle)
       \/ \E x \in Assets : fees[x] > 0 /\ asset_claim_fees(x, fees[x])
       \/ \E maint \in BOOLEAN : apply_block(maint)

Spec == Init /\ [][Next]_vars

-----------------------------------------------------------------------------
(* Properties. *)

LimitOrder == [seller : Accounts, sells : {Usd, Backing}, for_sale : Nat \ {0}, price : Nat \X Nat,
               expiration : Nat, deferred_fee : Nat]
CallOrder == [borrower : Accounts, debt : Nat \ {0}, collateral : Nat, cp : Nat \X Nat]
ForceSettlement == [owner : Accounts, balance : Nat \ {0}, date : Nat]

\* The type of the market.  Among the rest: no balance, debt or collateral is negative,
\* and what is removed is gone.
TypeOK ==
    /\ balance \in [Accounts -> [Assets -> Nat]]
    /\ in_orders \in [Accounts -> Int]
    /\ limits \in Seq(LimitOrder) /\ calls \in Seq(CallOrder) /\ settles \in Seq(ForceSettlement)
    /\ {supply, paid, now, ops, bit.fund, bit.volume, bit.minimum} \subseteq Nat
    /\ fees \in [Assets -> Nat]
    /\ undefined \in BOOLEAN

Total(seq, value(_)) == MapThenSumSet(LAMBDA i : value(seq[i]), DOMAIN seq)

\* What there is of an asset: in balances, in orders, as collateral or in the fund, in
\* settlements, and in the fees.
Held(x) ==
      MapThenSumSet(LAMBDA a : balance[a][x], Accounts)
    + Total(limits, LAMBDA o : IF o.sells = x THEN o.for_sale ELSE 0)
    + fees[x]
    + (IF x = Core THEN paid + Total(limits, LAMBDA o : o.deferred_fee) ELSE 0)
    + (IF x = Backing THEN bit.fund + Total(calls, LAMBDA o : o.collateral) ELSE 0)
    + (IF x = Usd THEN Total(settles, LAMBDA o : o.balance) ELSE 0)

\* Orders, fills with their rounding, margin calls, settlements, fees and refunds only move
\* assets: of the mia there is exactly the supply, of the others what there was.
Conserved ==
    undefined \/ \A x \in Assets :
        Held(x) = IF x = Usd THEN supply ELSE MapThenSumSet(LAMBDA a : Endowment[a][x], Accounts)

\* Until a global settlement the mia is exactly the debt of the positions; after it there
\* are no positions and the fund pays every unit that is left.
Backed ==
    \/ undefined
    \/ ~HasSettlement(State) /\ supply = Total(calls, LAMBDA o : o.debt)
    \/ HasSettlement(State) /\ calls = << >> /\ Times(supply, bit.settlement) <= bit.fund

\* All the money is accounted for: no fill, cull, refund, margin call or settlement, with
\* any rounding, creates or loses a unit (fill_order, pay_order), and the mia stays backed
\* by the positions or, after a black swan, by the fund (globally_settle_asset).
MoneyAccounted == Conserved /\ Backed

\* total_core_in_orders, which counts as voting stake, is what the account has in orders
\* and positions, after any sequence of fills, culls and refunds.
CoreInOrdersExact ==
    undefined \/ \A a \in Accounts :
        in_orders[a] = Total(limits, LAMBDA o : IF o.seller = a /\ o.sells = Core THEN o.for_sale ELSE 0)
                     + Total(calls, LAMBDA o : IF o.borrower = a THEN o.collateral ELSE 0)

\* After an operation no two orders of the book could still trade with each other, and no
\* order asks for nothing in return.
BookSettled ==
    \/ undefined
    \/ /\ \A i, j \in DOMAIN limits :
             limits[i].sells # limits[j].sells => LessPrice(limits[j].price, Inv(limits[i].price))
       /\ \A i \in DOMAIN limits : Times(limits[i].for_sale, limits[i].price) > 0

\* The work of a block on expired orders, settlements and feeds never throws: it would make
\* every next block invalid and stop the chain.
BlocksApply ==
    undefined \/ \A maint \in BOOLEAN : AfterBlock(State, maint).ok
=============================================================================
