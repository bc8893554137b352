----------------------------- MODULE Governance -----------------------------
(***************************************************************************)
(* Votes, elections and proposals (db_maint.cpp, vote_count.hpp,           *)
(* proposal_evaluator.cpp, proposal_object.cpp, push_proposal of           *)
(* db_block.cpp, clear_expired_proposals of db_update.cpp and the          *)
(* evaluators of account updates, witnesses and committee members).        *)
(*                                                                         *)
(* They belong together: the stake of accounts elects the committee, the   *)
(* election rewrites the authority of the committee account, and proposals *)
(* that wait for that authority are decided at the end of the same block,  *)
(* with the new one, and may change the parameters of the next election.   *)
(*                                                                         *)
(* The operations that are proposed or sent directly are a transfer of one *)
(* unit, an account update and the update of the parameters; d is the part *)
(* of the database they change.  Fees, orders and vesting balances, which  *)
(* count as stake too, have modules of their own; a proposal of a proposal *)
(* and special authorities are left out.  Hard forks are in the past.      *)
(***************************************************************************)
EXTENDS Authority, TLC

CONSTANTS
    InitialActive, InitialOwner, InitialOptions, Endowment,   \* of the accounts
    InitialVotables,        \* the witnesses and committee members: [kind, account]
    InitialParameters,
    Lifetime,               \* the lifetime members
    MinCount,               \* min_witness_count and min_committee_member_count
    WeightBits,             \* the bits of a weight: 16
    MaxMembership,          \* maximum_authority_membership
    MaintenanceInterval,
    Gaps,                   \* how far the next block may be ahead, in block intervals
    Proposed,               \* inputs: sequences of operations that are proposed,
    Sent,                   \* operations sent directly,
    Expirations, Reviews,   \* lifetimes and review periods of proposals,
    Signatures,             \* sets of keys that sign,
    Updates,                \* and contents of proposal_update operations
    NewVotables,
    NoReview, NoPending,
    MaxProposals, MaxSent, MaxTime    \* bounds: proposals, other operations, blocks

Kinds == {"witness", "committee"}

ASSUME GovernanceAssumption ==
    /\ InitialActive \in [Accounts -> Authorities] /\ InitialOwner \in [Accounts -> Authorities]
    /\ Endowment \in [Accounts -> Nat] /\ Lifetime \subseteq Accounts
    /\ Signatures \subseteq SUBSET Keys
    /\ MinCount \in [Kinds -> Nat \ {0}] /\ MaintenanceInterval \in Nat \ {0}
    /\ Gaps \subseteq Nat \ {0} /\ WeightBits \in Nat \ {0}
    /\ \A v \in Range(InitialVotables) \cup NewVotables : v.kind \in Kinds /\ v.account \in Accounts
    /\ IsInjective(InitialVotables)

\* Options of accounts, chain parameters, operations and approvals.
Options == [votes : SUBSET Nat, num : [Kinds -> Nat], voting_account : Accounts]
Parameters == [maximum : [Kinds -> Nat], count_non_member_votes : BOOLEAN, depth : Nat,
               committee_proposal_review_period : Nat, maximum_proposal_lifetime : Nat]
Operations == [type : {"transfer"}, from : Accounts, to : Accounts]
              \cup [type : {"parameters"}, parameters : Parameters]
              \cup [type : {"owner", "active"}, account : Accounts, authority : Authorities]
              \cup [type : {"options"}, account : Accounts, options : Options]
Approvals == [actives : SUBSET Accounts, owners : SUBSET Accounts, keys : SUBSET Keys]

ASSUME InputsAssumption ==
    /\ InitialOptions \in [Accounts -> Options] /\ InitialParameters \in Parameters
    /\ Proposed \subseteq Seq(Operations) /\ Sent \subseteq Operations
    /\ Reviews \subseteq Nat /\ NoReview \notin Int
    /\ Updates \subseteq [payer : Accounts, add : Approvals, remove : Approvals]

VARIABLES
    d,          \* balances, authorities and options of the accounts, parameters and pending_parameters
    votables,   \* the objects that can be voted for; the place in the sequence is the vote id
    elected,    \* active_witnesses and active_committee_members
    proposals,  \* the proposal objects
    now,        \* head_block_time, in block intervals
    maint,      \* next_maintenance_time
    created,    \* proposals created so far
    sent,       \* other operations so far
    executed,   \* history: the proposals whose transaction was applied
    reviewed,   \* history: the approvals of a proposal after the first block of its review period
    moved       \* history: what the applied operations added to each balance

vars == <<d, votables, elected, proposals, now, maint, created, sent, executed, reviewed, moved>>

-----------------------------------------------------------------------------
(* Elections.                                                              *)

Sum(f(_), S) == MapThenSumSet(f, S)
Ids(kind) == {i \in DOMAIN votables : votables[i].kind = kind}
MaxCount(kind) == d.parameters.maximum[kind]

\* Accounts whose stake votes, and whose opinion it follows: proxies are not followed twice.
Voters == {a \in Accounts : d.parameters.count_non_member_votes \/ a \in Lifetime}
Opinion(a) == d.options[d.options[a].voting_account]

\* _vote_tally_buffer
Tally == [i \in DOMAIN votables |-> Sum(LAMBDA a : d.balance[a], {a \in Voters : i \in Opinion(a).votes})]

\* The histogram of the number that is voted for; a number above the maximum is in no bin.
Histogram(kind, bin) ==
    Sum(LAMBDA a : d.balance[a], {a \in Voters : /\ Opinion(a).num[kind] <= MaxCount(kind)
                                                 /\ Opinion(a).num[kind] \div 2 = bin})

\* Half of the stake that has an opinion.  The committee uses the one on witnesses as well.
stake_target(kind) == (Sum(LAMBDA a : d.balance[a], Voters) - Histogram("witness", 0)) \div 2

\* Mutant: the loop stops at half of the stake, not above it.
CountVoted_half(kind) ==
    LET last == MaxCount(kind) \div 2
    IN  IF stake_target(kind) <= 0 \/ last = 0 THEN 0
        ELSE Min({k \in 1..last : \/ k = last
                                  \/ Sum(LAMBDA b : Histogram(kind, b), 1..k) >= stake_target(kind)})

\* The loops of update_active_witnesses and update_active_committee_members.
CountVoted(kind) ==
    LET last == MaxCount(kind) \div 2
    IN  IF stake_target(kind) <= 0 \/ last = 0 THEN 0
        ELSE Min({k \in 1..last : \/ k = last
                                  \/ Sum(LAMBDA b : Histogram(kind, b), 1..k) > stake_target(kind)})

\* sort_votable_objects: more votes first, then the lower id.
Before(votes, i, j) == votes[i] > votes[j] \/ (votes[i] = votes[j] /\ i < j)
Elected(kind, votes) ==
    LET count == Max({2 * CountVoted(kind) + 1, MinCount[kind]})
    IN  {i \in Ids(kind) : Cardinality({j \in Ids(kind) : Before(votes, j, i)}) < count}

Msb(n) == Max({k \in 0..n : 2 ^ k <= n})

\* The votes as weights of WeightBits bits, scaled by the most votes, and never 0.
Scaled(votes, voted) ==
    LET shift == Max({Msb(Max({votes[i] : i \in voted})) - (WeightBits - 1), 0})
    IN  [i \in voted |-> Max({votes[i] \div 2 ^ shift, 1})]

\* vote_counter: an authority stays as it is when nobody has votes.
vote_counter(ids, votes, au) ==
    LET voted == {i \in ids : votes[i] > 0}
        members == InOrder({votables[i].account : i \in voted})
        IdOf(a) == CHOOSE i \in voted : votables[i].account = a
    IN  IF voted = {} THEN au
        ELSE [threshold |-> Sum(LAMBDA i : Scaled(votes, voted)[i], voted) \div 2 + 1, keys |-> <<>>,
              accounts |-> [n \in DOMAIN members |-> <<members[n], Scaled(votes, voted)[IdOf(members[n])]>>]]

(* perform_chain_maintenance: elections under the old parameters, then the *)
(* pending ones.  Only the committee account has an authority here; the    *)
(* one of the witness account is written in the same way and used by none. *)
Maintained(votes) ==
    [d EXCEPT !.active[CommitteeAccount] = vote_counter(Elected("committee", votes), votes, @),
              !.parameters = IF d.pending = NoPending THEN @ ELSE d.pending,
              !.pending = NoPending]

-----------------------------------------------------------------------------
(* Operations.                                                             *)

\* operation_get_required_authorities: the payer of the fee is always one.
Required(op) ==
    CASE op.type = "transfer" -> [active |-> {op.from}, owner |-> {}, other |-> <<>>]
      [] op.type = "parameters" -> [active |-> {CommitteeAccount}, owner |-> {}, other |-> <<>>]
      [] op.type = "owner" -> [active |-> {op.account}, owner |-> {op.account}, other |-> <<>>]
      [] OTHER -> [active |-> {op.account}, owner |-> {}, other |-> <<>>]

AllRequired(ops) ==
    [active |-> UNION {Required(op).active : op \in Range(ops)},
     owner |-> UNION {Required(op).owner : op \in Range(ops)}, other |-> <<>>]

valid_authority(au) == num_auths(au) \in 1..MaxMembership /\ ~is_impossible(au)

\* account_options::validate and verify_account_votes.
verify_account_votes(o, db) ==
    /\ o.voting_account \in Accounts /\ o.votes \subseteq DOMAIN votables
    /\ \A k \in Kinds : /\ o.num[k] <= db.parameters.maximum[k]
                        /\ o.num[k] <= Cardinality({i \in o.votes : votables[i].kind = k})

\* The conditions of an operation; the parameters change through a proposal only.
Evaluates(op, db, proposed) ==
    CASE op.type = "transfer" -> db.balance[op.from] >= 1
      [] op.type = "parameters" -> proposed
      [] op.type \in {"owner", "active"} -> op.account # CommitteeAccount /\ valid_authority(op.authority)
      [] op.type = "options" -> op.account # CommitteeAccount /\ verify_account_votes(op.options, db)

\* A transfer of one unit.
Transferred(balance, from, to) ==
    [a \in DOMAIN balance |-> balance[a] + (IF a = to THEN 1 ELSE 0) - (IF a = from THEN 1 ELSE 0)]

Applied(op, db) ==
    CASE op.type = "transfer" -> [db EXCEPT !.balance = Transferred(@, op.from, op.to)]
      [] op.type = "parameters" -> [db EXCEPT !.pending = op.parameters]
      [] op.type = "owner" -> [db EXCEPT !.owner[op.account] = op.authority]
      [] op.type = "active" -> [db EXCEPT !.active[op.account] = op.authority]
      [] op.type = "options" -> [db EXCEPT !.options[op.account] = op.options]

\* Mutant: the operations before the one that fails are kept.
ApplyAll_kept(ops, db, proposed) ==
    FoldLeft(LAMBDA r, op : IF r.ok /\ Evaluates(op, r.d, proposed) THEN [r EXCEPT !.d = Applied(op, r.d)]
                            ELSE [r EXCEPT !.ok = FALSE],
             [ok |-> TRUE, d |-> db], ops)

\* A transaction under its undo session: all operations or none.
ApplyAll(ops, db, proposed) ==
    LET run[n \in 0 .. Len(ops)] ==
            IF n = 0 THEN [ok |-> TRUE, d |-> db]
            ELSE IF run[n - 1].ok /\ Evaluates(ops[n], run[n - 1].d, proposed)
            THEN [ok |-> TRUE, d |-> Applied(ops[n], run[n - 1].d)]
            ELSE [ok |-> FALSE, d |-> db]
    IN  run[Len(ops)]

\* What the transfers among ops add to the balance of a.
Net(ops, a) ==
    Cardinality({n \in DOMAIN ops : ops[n].type = "transfer" /\ ops[n].to = a})
        - Cardinality({n \in DOMAIN ops : ops[n].type = "transfer" /\ ops[n].from = a})

Verified(need, sigs) ==
    verify_authority(need, sigs, d.active, d.owner, d.parameters.depth, FALSE, {}, {})

is_authorized_to_execute(p, db) ==
    verify_authority(AllRequired(p.ops), p.keys, db.active, db.owner, db.parameters.depth, TRUE,
                     p.actives, p.owners)

-----------------------------------------------------------------------------
(* The state.                                                              *)

Init ==
    /\ d = [balance |-> Endowment, active |-> InitialActive, owner |-> InitialOwner,
            options |-> InitialOptions, parameters |-> InitialParameters, pending |-> NoPending]
    /\ votables = InitialVotables
    /\ elected = [k \in Kinds |-> {i \in DOMAIN InitialVotables : InitialVotables[i].kind = k}]
    /\ proposals = <<>> /\ reviewed = <<>>
    /\ now = 0 /\ maint = MaintenanceInterval
    /\ created = 0 /\ sent = 0 /\ executed = {} /\ moved = [a \in Accounts |-> 0]

With(f, x, v) == [y \in DOMAIN f \cup {x} |-> IF y = x THEN v ELSE f[y]]
Without(f, x) == [y \in DOMAIN f \ {x} |-> f[y]]
InReview(p, time) == p.review # NoReview /\ time >= p.review

-----------------------------------------------------------------------------
(* Transactions, applied at the time of the head block.                    *)

\* _apply_transaction of one operation that is signed by sigs.
send(op, sigs) ==
    LET r == ApplyAll(<<op>>, d, FALSE)
    IN  /\ sent < MaxSent /\ sent' = sent + 1
        /\ r.ok /\ Verified(Required(op), sigs)
        /\ d' = r.d
        /\ moved' = [a \in Accounts |-> moved[a] + Net(<<op>>, a)]
        /\ UNCHANGED <<votables, elected, proposals, now, maint, created, executed, reviewed>>

(* witness_create and committee_member_create.  The indices by account are *)
(* unique, so that a second one of an account throws.                      *)
create_votable(v) ==
    /\ v.account \in Lifetime
    /\ v \notin Range(votables)
    /\ sent < MaxSent /\ sent' = sent + 1
    /\ votables' = Append(votables, v)
    /\ UNCHANGED <<d, elected, proposals, now, maint, created, executed, reviewed, moved>>

ReviewSuffices(need, review, lifetime) ==
    /\ review # NoReview => review < lifetime
    /\ CommitteeAccount \in need.active \cup need.owner =>
           review # NoReview /\ review >= d.parameters.committee_proposal_review_period

\* Every account may propose.
proposal_create(ops, lifetime, review) ==
    LET need == AllRequired(ops)
    IN  /\ created < MaxProposals
        /\ lifetime \in 1..d.parameters.maximum_proposal_lifetime
        /\ ReviewSuffices(need, review, lifetime)
        /\ created' = created + 1
        /\ proposals' = With(proposals, created',
               [ops |-> ops, expiration |-> now + lifetime,
                review |-> IF review = NoReview THEN NoReview ELSE now + lifetime - review,
                required_active |-> need.active \ need.owner, required_owner |-> need.owner,
                actives |-> {}, owners |-> {}, keys |-> {}])
        /\ UNCHANGED <<d, votables, elected, now, maint, sent, executed, reviewed, moved>>

\* Mutant: approvals may still be added in the review period.
MayAdd_late(p, u) == TRUE

\* Only the approvals of accounts are looked at, not the ones of keys.
MayAdd(p, u) == InReview(p, now) => u.add.actives = {} /\ u.add.owners = {}

\* The authorities that a proposal_update needs: a key for every key approval.
UpdateNeeds(u) ==
    LET keys == InOrder(u.add.keys \cup u.remove.keys)
    IN  [active |-> {u.payer} \cup u.add.actives \cup u.remove.actives,
         owner |-> u.add.owners \cup u.remove.owners,
         other |-> <<[threshold |-> Len(keys), keys |-> [n \in DOMAIN keys |-> <<keys[n], 1>>],
                      accounts |-> <<>>]>>]

\* push_proposal: the proposal is gone only if all of its operations are applied.
push_proposal(i, p, kept) ==
    LET r == ApplyAll(p.ops, d, TRUE)
    IN  /\ d' = r.d
        /\ proposals' = IF r.ok THEN Without(kept, i) ELSE kept
        /\ executed' = IF r.ok THEN executed \cup {i} ELSE executed
        /\ moved' = [a \in Accounts |-> moved[a] + IF r.ok THEN Net(p.ops, a) ELSE 0]

\* A proposal with a review period is never executed before it expires.
proposal_update(i, u, sigs) ==
    LET p == proposals[i]
        q == [p EXCEPT !.actives = (@ \cup u.add.actives) \ u.remove.actives,
                       !.owners = (@ \cup u.add.owners) \ u.remove.owners,
                       !.keys = (@ \cup u.add.keys) \ u.remove.keys]
    IN  /\ MayAdd(p, u)
        /\ u.remove.actives \subseteq p.actives /\ u.remove.owners \subseteq p.owners
        /\ Verified(UpdateNeeds(u), sigs)
        /\ IF q.review = NoReview /\ is_authorized_to_execute(q, d)
           THEN push_proposal(i, q, [proposals EXCEPT ![i] = q])
           ELSE proposals' = [proposals EXCEPT ![i] = q] /\ UNCHANGED <<d, executed, moved>>
        /\ UNCHANGED <<votables, elected, now, maint, created, sent, reviewed>>

\* Every account that must approve may delete the proposal; its active authority is enough
\* also where using_owner_authority names it as an owner.
proposal_delete(i, a, using_owner_authority, sigs) ==
    LET p == proposals[i]
    IN  /\ a \in IF using_owner_authority THEN p.required_owner ELSE p.required_active
        /\ Verified([active |-> {a}, owner |-> {}, other |-> <<>>], sigs)
        /\ proposals' = Without(proposals, i)
        /\ UNCHANGED <<d, votables, elected, now, maint, created, sent, executed, reviewed, moved>>

-----------------------------------------------------------------------------
(* Blocks.                                                                 *)

\* The first proposal of by_expiration, among those in S.
FirstToExpire(S) ==
    CHOOSE i \in S : \A j \in S : \/ proposals[i].expiration < proposals[j].expiration
                                  \/ proposals[i].expiration = proposals[j].expiration /\ i <= j

\* One round of the loop: while proposals are left, the first is tried once
\* more, with what the ones before it have done, and is removed in any case.
\* s = [d, due, done, moved].
Retried(s) ==
    LET i == FirstToExpire(s.due)
        p == proposals[i]
        r == ApplyAll(p.ops, s.d, TRUE)
    IN  IF s.due = {} THEN s
        ELSE IF is_authorized_to_execute(p, s.d) /\ r.ok
        THEN [d |-> r.d, due |-> s.due \ {i}, done |-> s.done \cup {i},
              moved |-> [a \in Accounts |-> s.moved[a] + Net(p.ops, a)]]
        ELSE [d |-> s.d, due |-> s.due \ {i}, done |-> s.done, moved |-> s.moved]

clear_expired_proposals(db, time) ==
    LET expired == {i \in DOMAIN proposals : proposals[i].expiration <= time}
        run[n \in 0 .. Cardinality(expired)] ==
            IF n = 0 THEN [d |-> db, due |-> expired, done |-> {}, moved |-> moved]
            ELSE Retried(run[n - 1])
    IN  run[Cardinality(expired)]

\* _apply_block after its transactions: maintenance first, then the proposals that expire.
apply_block(gap) ==
    LET time == now + gap
        due == maint <= time
        votes == Tally
        r == clear_expired_proposals(IF due THEN Maintained(votes) ELSE d, time)
        left == {i \in DOMAIN proposals : proposals[i].expiration > time}
    IN  /\ time <= MaxTime
        /\ now' = time
        /\ elected' = IF due THEN [k \in Kinds |-> Elected(k, votes)] ELSE elected
        /\ maint' = IF due THEN maint + ((time - maint) \div MaintenanceInterval + 1) * MaintenanceInterval
                    ELSE maint
        /\ d' = r.d
        /\ proposals' = [i \in left |-> proposals[i]]
        /\ executed' = executed \cup r.done
        /\ moved' = r.moved
        /\ reviewed' = [i \in {j \in left : InReview(proposals[j], time)} |->
                            IF i \in DOMAIN reviewed THEN reviewed[i] ELSE proposals[i]]
        /\ UNCHANGED <<votables, created, sent>>

Next ==
    \/ \E op \in Sent, sigs \in Signatures : send(op, sigs)
    \/ \E v \in NewVotables : create_votable(v)
    \/ \E ops \in Proposed, lifetime \in Expirations, review \in Reviews \cup {NoReview} :
           proposal_create(ops, lifetime, review)
    \/ \E i \in DOMAIN proposals, u \in Updates, sigs \in Signatures : proposal_update(i, u, sigs)
    \/ \E i \in DOMAIN proposals, a \in Accounts, own \in BOOLEAN, sigs \in Signatures :
           proposal_delete(i, a, own, sigs)
    \/ \E gap \in Gaps : apply_block(gap)

Spec == Init /\ [][Next]_vars

-----------------------------------------------------------------------------
(* Properties.                                                             *)

(* A proposal is ready to be executed only if everybody it needs has       *)
(* consented: the accounts that approved and the keys that signed lead to  *)
(* the active authority, or the owner authority, of each account required. *)
(* Neither cycles of accounts nor the cache of approvals, the early return *)
(* or the elections that rewrite an authority can make up a consent; and   *)
(* where only accounts approved, every consent within the depth is found   *)
(* (sign_state::check_authority, is_authorized_to_execute).                *)
AuthorizedByConsent ==
    \A i \in DOMAIN proposals :
        LET p == proposals[i]
            need == AllRequired(p.ops)
            Agreed(S) == /\ \A a \in need.active : a \in S \/ Reaches(d.owner[a], p.keys, S)
                         /\ \A a \in need.owner : a \in p.owners \/ Reaches(d.owner[a], p.keys, S)
            authorized == is_authorized_to_execute(p, d)
        IN  /\ authorized =>
                   Agreed(Consenting(p.keys, p.actives \cup p.owners, d.active))
            /\ p.keys = {} /\ need.owner = {}
               /\ need.active \subseteq ConsentingWithin({}, p.actives \cup p.owners, d.active, d.parameters.depth)
                   => authorized

(* The committee account acts at the end of a block and never in a         *)
(* transaction, and when a proposal is executed in a block, every account  *)
(* whose approval counted had given it before the first block of the       *)
(* review period, so that it could be seen and taken back                  *)
(* (proposal_update_evaluator::do_evaluate and do_apply).                  *)
CommitteeActsAfterReview ==
    [][/\ now' = now => d'.pending = d.pending /\ d'.balance[CommitteeAccount] >= d.balance[CommitteeAccount]
       /\ \A i \in (executed' \ executed) \cap DOMAIN reviewed :
              /\ proposals[i].actives \subseteq reviewed[i].actives
              /\ proposals[i].owners \subseteq reviewed[i].owners]_vars

(* "This proposal is in its review period. No new approvals may be added." *)
(* The key approvals a proposal has when it is executed were there when    *)
(* its review period began (proposal_update_evaluator::do_evaluate).       *)
NoApprovalInReview ==
    [][\A i \in (executed' \ executed) \cap DOMAIN reviewed :
           proposals[i].keys \subseteq reviewed[i].keys]_vars

(* The operations of a transaction or a proposal are applied together or   *)
(* not at all, and a proposal that was applied is resolved for good: what  *)
(* the balances have gained is what the applied transactions moved, also   *)
(* when an operation fails after others of its proposal, and at expiration *)
(* after a first try (push_proposal, clear_expired_proposals).             *)
AppliedOnceAndWhole ==
    /\ \A a \in Accounts : d.balance[a] = Endowment[a] + moved[a]
    /\ executed \cap DOMAIN proposals = {}

(* An election gives as many witnesses as more than half of the stake that *)
(* has an opinion on the number votes for at most, with a number above the *)
(* maximum, which the committee may have lowered since the vote, counting  *)
(* as the maximum; the ones elected have the most votes                    *)
(* (update_active_witnesses, and its comment on the histogram).            *)
Supported(kind, n) ==
    LET last == MaxCount(kind) \div 2
        Half(a) == Min({Opinion(a).num[kind] \div 2, last})
        Stake(S) == Sum(LAMBDA a : d.balance[a], S)
        opinionated == {a \in Voters : Half(a) > 0}
        enough == {k \in 1..last : Stake({a \in opinionated : Half(a) <= k}) > Stake(opinionated) \div 2}
        half == IF Stake(opinionated) < 2 \/ enough = {} THEN 0 ELSE Min(enough)
    IN  n = Min({Max({2 * half + 1, MinCount[kind]}), Cardinality(Ids(kind))})

WitnessesByMajority ==
    [][maint' # maint =>
           /\ Supported("witness", Cardinality(elected'["witness"]))
           /\ \A i \in elected'["witness"], j \in Ids("witness") \ elected'["witness"] :
                  Tally[i] >= Tally[j]]_vars
=============================================================================
