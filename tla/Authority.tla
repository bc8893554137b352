------------------------------ MODULE Authority ------------------------------
(***************************************************************************)
(* Who has agreed: the check of signatures and approvals against the       *)
(* weighted, nested authorities of accounts (protocol/transaction.cpp,     *)
(* sign_state and verify_authority), next to what agreement means.         *)
(*                                                                         *)
(* An authority lists keys and accounts with their weights, in the order   *)
(* of the flat_map, which the early return makes visible: a signature that *)
(* comes after the threshold is reached counts as unused.  Accounts and    *)
(* keys are numbers, for that order.  address_auths, kept for old accounts *)
(* only, and GRAPHENE_TEMP_ACCOUNT, which always approves, are left out.   *)
(***************************************************************************)
EXTENDS Integers, Sequences, FiniteSets, FiniteSetsExt, SequencesExt

CONSTANTS Accounts, Keys, CommitteeAccount

ASSUME AuthorityAssumption ==
    Accounts \subseteq Nat /\ Keys \subseteq Nat /\ CommitteeAccount \in Accounts

Authorities == [threshold : Nat, keys : Seq(Keys \X Nat), accounts : Seq(Accounts \X Nat)]
NoAuthority == [threshold |-> 1, keys |-> <<>>, accounts |-> <<>>]
SignState == [used : SUBSET Keys, approved : SUBSET Accounts]

num_auths(au) == Len(au.keys) + Len(au.accounts)

Weight(s) == FoldLeft(LAMBDA sum, e : sum + e[2], 0, s)
is_impossible(au) == Weight(au.keys) + Weight(au.accounts) < au.threshold

\* One item of the authority au is signed or approved: the loop ends at the threshold.
Counted(t, weight, threshold) ==
    [t EXCEPT !.weight = @ + weight, !.ok = t.weight + weight >= threshold]

\* Mutant: an account is taken to approve before its own authority is checked.
Nested_cyclic(t, account) == [used |-> t.used, approved |-> t.approved \cup {account}]

\* The state of the check that the authority of an account is looked at with.
Nested(t, account) == [used |-> t.used, approved |-> t.approved]

(* sign_state::check_authority, with the signatures it used and the        *)
(* accounts it found to approve on the way, which later checks reuse.      *)
check_authority(au, s, sigs, active, max) ==
    LET check[x \in Authorities \X Nat \X SignState] ==
            LET a == x[1]
                Key(t, k) == IF t.ok \/ k[1] \notin sigs THEN t
                             ELSE Counted([t EXCEPT !.used = @ \cup {k[1]}], k[2], a.threshold)
                Account(t, c) ==
                    IF t.ok THEN t
                    ELSE IF c[1] \in t.approved THEN Counted(t, c[2], a.threshold)
                    ELSE IF x[2] = max THEN t
                    ELSE LET r == check[<<active[c[1]], x[2] + 1, Nested(t, c[1])>>]
                             u == [t EXCEPT !.used = r.used, !.approved = r.approved]
                         IN  IF r.ok THEN Counted([u EXCEPT !.approved = @ \cup {c[1]}], c[2], a.threshold)
                             ELSE u
                start == [weight |-> 0, ok |-> FALSE, used |-> x[3].used, approved |-> x[3].approved]
                end == FoldLeft(Account, FoldLeft(Key, start, a.keys), a.accounts)
            IN  [end EXCEPT !.ok = end.ok \/ end.weight >= a.threshold]
    IN  check[<<au, 0, s>>]

InOrder(S) == SetToSortSeq(S, <)

(* verify_authority: each demand in turn, with what the ones before it     *)
(* have shown, and no signature that is not needed.  An active authority   *)
(* may be given by an approval, found on the way or not, or by the owner   *)
(* authority; an owner authority by an approval as owner.                  *)
verify_authority(need, sigs, active, owner, max, allow_committee, actives, owners) ==
    LET demands == [n \in DOMAIN need.other |-> [type |-> "other", tries |-> <<need.other[n]>>]]
                   \o [n \in DOMAIN InOrder(need.active) |->
                          LET a == InOrder(need.active)[n]
                          IN  [type |-> "active", account |-> a, tries |-> <<active[a], owner[a]>>]]
                   \o [n \in DOMAIN InOrder(need.owner) |->
                          LET a == InOrder(need.owner)[n]
                          IN  [type |-> "owner", account |-> a, tries |-> <<owner[a]>>]]
        Given(s, q) == \/ q.type = "active" /\ q.account \in s.approved
                       \/ q.type = "owner" /\ q.account \in owners
        Try(s, au) ==
            LET r == check_authority(au, [used |-> s.used, approved |-> s.approved], sigs, active, max)
            IN  IF s.ok THEN s ELSE [ok |-> r.ok, used |-> r.used, approved |-> r.approved]
        Meet(s, q) == IF ~s.ok \/ Given(s, q) THEN s ELSE FoldLeft(Try, [s EXCEPT !.ok = FALSE], q.tries)
        end == FoldLeft(Meet, [ok |-> TRUE, used |-> {}, approved |-> actives \cup owners], demands)
    IN  /\ allow_committee \/ CommitteeAccount \notin need.active
        /\ end.ok /\ end.used = sigs

-----------------------------------------------------------------------------
(* What agreement means, whatever the order, the depth and the caches.     *)

\* The keys sigs and the accounts in S reach the threshold of au.
Reaches(au, sigs, S) ==
    Weight(SelectSeq(au.keys, LAMBDA k : k[1] \in sigs))
        + Weight(SelectSeq(au.accounts, LAMBDA c : c[1] \in S)) >= au.threshold

\* The accounts that follow from sigs and the approvals: the least set that is closed.
Consenting(sigs, approvals, active) ==
    LET closed == {T \in SUBSET Accounts : /\ approvals \subseteq T
                                           /\ \A a \in Accounts : Reaches(active[a], sigs, T) => a \in T}
    IN  {a \in Accounts : \A T \in closed : a \in T}

\* The ones that follow with at most max levels of accounts below their own authority.
ConsentingWithin(sigs, approvals, active, max) ==
    LET level[n \in Nat] == IF n = 0 THEN approvals
                            ELSE level[n - 1] \cup {a \in Accounts : Reaches(active[a], sigs, level[n - 1])}
    IN  level[max + 1]
=============================================================================
