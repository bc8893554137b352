---------------------------- MODULE MCLockBalance ----------------------------
(* Two accounts, the core asset and one that an account issued. *)
EXTENDS LockBalance, TLC

CONSTANTS alice, bob, core, usd

MCIssuer == (core :> bob) @@ (usd :> alice)
MCEndowment == (alice :> (core :> 2 @@ usd :> 1)) @@ (bob :> (core :> 1 @@ usd :> 0))

MCDonations == {-1, 1}

\* Grows with each argument, and can ask for more than the pool holds.  Of a
\* pool below zero it is a loss, of the whole amount at worst.
MCProfit(amount, period, pool) ==
    LET profit == (amount * period * pool) \div 2
    IN  IF profit < -amount THEN -amount ELSE profit
=============================================================================
