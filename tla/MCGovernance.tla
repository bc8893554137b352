---------------------------- MODULE MCGovernance ----------------------------
(* A small instance of Governance: the committee account is 0, and the key *)
(* of account n is n; account 4 is a witness with the key of account 3.    *)
EXTENDS Governance

Key(k) == [threshold |-> 1, keys |-> << <<k, 1>> >>, accounts |-> <<>>]

\* Two of its own key and two accounts, one of which may come to depend on 3 itself.
Shared == [threshold |-> 2, keys |-> << <<3, 1>> >>, accounts |-> << <<1, 1>>, <<2, 1>> >>]
OnThree == [threshold |-> 1, keys |-> <<>>, accounts |-> << <<3, 1>> >>]

MCActive == 0 :> NoAuthority @@ 1 :> Key(1) @@ 2 :> Key(2) @@ 3 :> Shared @@ 4 :> Key(3)
MCOwner == 0 :> NoAuthority @@ 1 :> Key(1) @@ 2 :> Key(2) @@ 3 :> Key(3) @@ 4 :> Key(3)
MCEndowment == 0 :> 1 @@ 1 :> 2 @@ 2 :> 2 @@ 3 :> 1 @@ 4 :> 0

Votable(k, a) == [kind |-> k, account |-> a]
MCVotables == << Votable("committee", 1), Votable("committee", 2), Votable("committee", 3),
                 Votable("witness", 1), Votable("witness", 2), Votable("witness", 3), Votable("witness", 4) >>
MCMinCount == [witness |-> 1, committee |-> 1]
NewMember == {Votable("committee", 4)}

Opt(votes, w, c, proxy) ==
    [votes |-> votes, num |-> [witness |-> w, committee |-> c], voting_account |-> proxy]
All == Opt(1..7, 4, 3, 1)
MCOptions == 0 :> Opt({}, 0, 0, 0) @@ 1 :> All @@ 2 :> Opt({2, 5, 6}, 2, 1, 2) @@ 3 :> Opt({}, 0, 0, 3) @@ 4 :> Opt({}, 0, 0, 4)

Params(max, review, depth) ==
    [maximum |-> [witness |-> max, committee |-> 3], count_non_member_votes |-> TRUE, depth |-> depth,
     committee_proposal_review_period |-> review, maximum_proposal_lifetime |-> 4]
MCParameters == Params(4, 2, 1)

Pay(a, b) == [type |-> "transfer", from |-> a, to |-> b]
MCProposed == { <<[type |-> "parameters", parameters |-> Params(2, 1, 2)]>>,
                <<Pay(3, 1), Pay(0, 2)>>, <<Pay(3, 1), Pay(3, 2)>>,
                <<[type |-> "owner", account |-> 3, authority |-> Key(1)]>> }
MCSent == { Pay(1, 3), Pay(0, 1), [type |-> "active", account |-> 2, authority |-> OnThree],
            [type |-> "options", account |-> 2, options |-> Opt({3, 6}, 0, 1, 2)],
            [type |-> "options", account |-> 3, options |-> Opt({}, 0, 0, 2)] }

None == [actives |-> {}, owners |-> {}, keys |-> {}]
Approve(a) == [payer |-> a, add |-> [None EXCEPT !.actives = {a}], remove |-> None]
Revoke(a) == [payer |-> a, add |-> None, remove |-> [None EXCEPT !.actives = {a}]]
ByKey(a, k) == [payer |-> a, add |-> [None EXCEPT !.keys = {k}], remove |-> None]
ByOwner(a) == [payer |-> a, add |-> [None EXCEPT !.owners = {a}], remove |-> None]
MCUpdates == {Approve(1), Approve(2), Revoke(1), ByKey(2, 2), ByOwner(3)}
=============================================================================
