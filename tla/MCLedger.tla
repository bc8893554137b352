------------------------------ MODULE MCLedger ------------------------------
(* A lifetime member that is witness and worker, and a basic account whose  *)
(* own membership, by which it was its referrer, has expired and which was  *)
(* registered by an account of the chain, as those of the genesis state are. *)
EXTENDS Ledger

CONSTANTS alice, bob, null, core, gold, silver

MCIssuer == [x \in Uias |-> bob]
MCEndowment == [a \in User |-> IF a = bob THEN core :> 9 @@ gold :> 2 @@ silver :> 0
                               ELSE core :> 0 @@ gold :> 2 @@ silver :> 0]
MCRegistrar == [a \in User |-> IF a = bob THEN null ELSE a]
ToAlice == [a \in User |-> alice]
MCReferrer == [a \in User |-> a]
Worker(kind, pay) == [kind |-> kind, pay |-> pay]
MCWorkers == {<<Worker("vesting", 1), Worker("refund", 1), Worker("burn", 1)>>}
MCMaxSupply == [x \in Assets |-> IF x = core THEN 22 ELSE 6]
MCRate == <<1, 1>>

\* Small fees are vested at once, large ones later.
MCFees == {<<core, 5>>, <<gold, 1>>}

\* Even and odd fees in the core asset, and one in another asset.
MCCreateFees == {<<core, 4>>, <<core, 3>>, <<gold, 2>>}

MCAmounts == {2}
\* A negative amount, a part, and the whole of the balances below.
MCClaims == {-1, 2, 4}
MCPolicies == {<<"cdd", 0, 0, 2>>, <<"linear", 2, 2, 3>>}
MCTerms == {<<3, 2, 4, 1>>}
MCByName == <<alice, bob>>
\* Two balances that vest, one of more than its begin_balance and one of less.
Handout(amount, policy) == VestingBalance(bob, core, amount, policy, 0, 1) @@ [last |-> 0]
MCGenesis ==
    <<Handout(4, Linear(1, 0, 4, 3)), Handout(1, Linear(1, 0, 4, 2)),
      Handout(2, [kind |-> "none"])>>
=============================================================================
