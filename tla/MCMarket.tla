------------------------------ MODULE MCMarket ------------------------------
(* Two accounts with positions in one mia that the core asset backs. *)
EXTENDS Market

CONSTANTS alice, bob, core, usd

MCEndowment == [a \in Accounts |-> [x \in Assets |-> IF x = usd THEN 0 ELSE 12]]
MCFeePercent == [x \in Assets |-> IF x = usd THEN 50 ELSE 0]

Offer(asset, n, p, t) == [sells |-> asset, amount |-> n, price |-> p, life |-> t]

\* Bids that a fill can leave with less than one unit to receive, and an ask.
MCOffers == {Offer(usd, 3, <<2, 1>>, 9), Offer(usd, 4, <<5, 2>>, 1), Offer(core, 2, <<1, 2>>, 1)}
MCUpdates == {<<6, 4>>, <<4, 3>>, <<-6, -4>>}

\* The second feed takes the positions below their call price, the third under water.
MCFeedPrices == {<<3, 1>>, <<2, 1>>, <<1, 1>>}
=============================================================================
