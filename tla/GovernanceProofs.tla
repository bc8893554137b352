-------------------------- MODULE GovernanceProofs --------------------------
(***************************************************************************)
(* Proposals are executed once and as a whole, and the committee acts only *)
(* at the end of a block and after the review, for every set of accounts,  *)
(* operations, approvals and parameters.  What verify_authority decides is *)
(* left open but for the one check that it begins with.                    *)
(***************************************************************************)
EXTENDS Governance, SequenceTheorems, FiniteSetTheorems, TLAPS

Fold == INSTANCE FoldTheorems

-----------------------------------------------------------------------------
(* The operations *)

\* The database, with active authorities in A: an election makes new ones.
Database(A) ==
    [balance : [Accounts -> Int], active : [Accounts -> A], owner : [Accounts -> Authorities],
     options : [Accounts -> Options], parameters : Parameters,
     pending : Parameters \cup {NoPending}]

One(b) == IF b THEN 1 ELSE 0

LEMMA TransferredFacts ==
    ASSUME NEW b \in [Accounts -> Int], NEW from \in Accounts, NEW to \in Accounts
    PROVE  /\ Transferred(b, from, to) \in [Accounts -> Int]
           /\ \A a \in Accounts :
                 Transferred(b, from, to)[a] = b[a] + One(to = a) - One(from = a)
  BY DEF Transferred, One

\* What one operation does to balances and pending parameters.
LEMMA AppliedFacts ==
    ASSUME NEW op \in Operations, NEW A, Authorities \subseteq A, NEW db \in Database(A)
    PROVE  /\ Applied(op, db) \in Database(A)
           /\ \A a \in Accounts : Applied(op, db).balance[a] =
                 db.balance[a] + One(op.type = "transfer" /\ op.to = a)
                               - One(op.type = "transfer" /\ op.from = a)
           /\ op.type # "parameters" => Applied(op, db).pending = db.pending
  <1>1. CASE op \in [type : {"transfer"}, from : Accounts, to : Accounts]
    <2> DEFINE f == Transferred(db.balance, op.from, op.to)
    <2>1. Applied(op, db) = [db EXCEPT !.balance = f]
      BY <1>1 DEF Applied
    <2>2. db.balance \in [Accounts -> Int] /\ op.from \in Accounts /\ op.to \in Accounts
      BY <1>1 DEF Database
    <2>3. /\ f \in [Accounts -> Int]
          /\ \A a \in Accounts : f[a] = db.balance[a] + One(op.to = a) - One(op.from = a)
      BY <2>2, TransferredFacts
    <2> HIDE DEF f
    <2>4. /\ [db EXCEPT !.balance = f] \in Database(A)
          /\ [db EXCEPT !.balance = f].balance = f
          /\ [db EXCEPT !.balance = f].pending = db.pending
      BY <2>3 DEF Database
    <2>5. op.type = "transfer"
      BY <1>1
    <2> QED
      BY <2>1, <2>3, <2>4, <2>5 DEF One
  <1>2. CASE op \notin [type : {"transfer"}, from : Accounts, to : Accounts]
    <2>1. op.type # "transfer"
      BY <1>2 DEF Operations
    <2>2. db.balance \in [Accounts -> Int]
      BY DEF Database
    <2>3. /\ Applied(op, db) \in Database(A)
          /\ Applied(op, db).balance = db.balance
          /\ op.type # "parameters" => Applied(op, db).pending = db.pending
      <3>1. CASE op \in [type : {"parameters"}, parameters : Parameters]
        BY <3>1 DEF Applied, Database
      <3>2. CASE op \in [type : {"owner", "active"}, account : Accounts, authority : Authorities]
        <4>1. op.type = "owner" \/ op.type = "active"
          BY <3>2
        <4> DEFINE f == [db.owner EXCEPT ![op.account] = op.authority]
                   g == [db.active EXCEPT ![op.account] = op.authority]
        <4>2. f \in [Accounts -> Authorities] /\ g \in [Accounts -> A]
          BY <3>2 DEF Database
        <4>3. /\ op.type = "owner" => Applied(op, db) = [db EXCEPT !.owner = f]
              /\ op.type = "active" => Applied(op, db) = [db EXCEPT !.active = g]
          BY DEF Applied
        <4> HIDE DEF f, g
        <4> QED
          BY <4>1, <4>2, <4>3 DEF Database
      <3>3. CASE op \in [type : {"options"}, account : Accounts, options : Options]
        <4> DEFINE f == [db.options EXCEPT ![op.account] = op.options]
        <4>1. f \in [Accounts -> Options]
          BY <3>3 DEF Database
        <4>2. Applied(op, db) = [db EXCEPT !.options = f]
          BY <3>3 DEF Applied
        <4> HIDE DEF f
        <4> QED
          BY <4>1, <4>2 DEF Database
      <3> QED
        BY <1>2, <3>1, <3>2, <3>3 DEF Operations
    <2> QED
      BY <2>1, <2>2, <2>3 DEF One
  <1> QED
    BY <1>1, <1>2

-----------------------------------------------------------------------------
(* The transaction of a proposal *)

\* What the first n operations add to the balance of a.
NetUpTo(ops, n, a) ==
    Cardinality({m \in 1 .. n : ops[m].type = "transfer" /\ ops[m].to = a})
        - Cardinality({m \in 1 .. n : ops[m].type = "transfer" /\ ops[m].from = a})

\* One more element of a set of numbers, or not.
LEMMA CountOne ==
    ASSUME NEW n \in Nat \ {0}, NEW S
    PROVE  /\ Cardinality({m \in 1 .. n : m \in S})
                = Cardinality({m \in 1 .. n - 1 : m \in S}) + One(n \in S)
           /\ Cardinality({m \in 1 .. n : m \in S}) \in Nat
           /\ Cardinality({m \in 1 .. n - 1 : m \in S}) \in Nat
  <1> DEFINE T == {m \in 1 .. n - 1 : m \in S}
  <1>1. IsFiniteSet(1 .. n - 1)
    BY FS_Interval
  <1>2. T \subseteq 1 .. n - 1
    OBVIOUS
  <1>3. IsFiniteSet(T) /\ Cardinality(T) \in Nat
    BY <1>1, <1>2, FS_Subset, FS_CardinalityType
  <1>4. CASE n \in S
    <2>1. {m \in 1 .. n : m \in S} = T \cup {n} /\ n \notin T
      BY <1>4
    <2> HIDE DEF T
    <2>2. Cardinality(T \cup {n}) = Cardinality(T) + 1
      BY <1>3, <2>1, FS_AddElement
    <2>3. Cardinality({m \in 1 .. n : m \in S}) = Cardinality(T) + 1
      BY <2>1, <2>2, Zenon
    <2> QED
      BY <1>3, <1>4, <2>3 DEF T, One
  <1>5. CASE n \notin S
    <2>1. {m \in 1 .. n : m \in S} = T
      BY <1>5
    <2>2. Cardinality({m \in 1 .. n : m \in S}) = Cardinality(T)
      BY <2>1, Zenon
    <2> QED
      BY <1>3, <1>5, <2>2 DEF One
  <1> QED
    BY <1>4, <1>5

LEMMA NetNext ==
    ASSUME NEW ops, NEW n \in Nat \ {0}, NEW a
    PROVE  /\ NetUpTo(ops, n, a) = NetUpTo(ops, n - 1, a)
                  + One(ops[n].type = "transfer" /\ ops[n].to = a)
                  - One(ops[n].type = "transfer" /\ ops[n].from = a)
           /\ NetUpTo(ops, n, a) \in Int
  <1> DEFINE I == {m \in 1 .. n : ops[m].type = "transfer" /\ ops[m].to = a}
             O == {m \in 1 .. n : ops[m].type = "transfer" /\ ops[m].from = a}
  <1>1. /\ {m \in 1 .. n : ops[m].type = "transfer" /\ ops[m].to = a} = {m \in 1 .. n : m \in I}
        /\ {m \in 1 .. n - 1 : ops[m].type = "transfer" /\ ops[m].to = a}
              = {m \in 1 .. n - 1 : m \in I}
        /\ n \in I <=> ops[n].type = "transfer" /\ ops[n].to = a
    OBVIOUS
  <1>2. /\ {m \in 1 .. n : ops[m].type = "transfer" /\ ops[m].from = a} = {m \in 1 .. n : m \in O}
        /\ {m \in 1 .. n - 1 : ops[m].type = "transfer" /\ ops[m].from = a}
              = {m \in 1 .. n - 1 : m \in O}
        /\ n \in O <=> ops[n].type = "transfer" /\ ops[n].from = a
    OBVIOUS
  <1> HIDE DEF I, O
  <1>3. /\ Cardinality({m \in 1 .. n : m \in I})
             = Cardinality({m \in 1 .. n - 1 : m \in I}) + One(n \in I)
        /\ Cardinality({m \in 1 .. n : m \in I}) \in Nat
        /\ Cardinality({m \in 1 .. n - 1 : m \in I}) \in Nat
    BY CountOne
  <1>4. /\ Cardinality({m \in 1 .. n : m \in O})
             = Cardinality({m \in 1 .. n - 1 : m \in O}) + One(n \in O)
        /\ Cardinality({m \in 1 .. n : m \in O}) \in Nat
        /\ Cardinality({m \in 1 .. n - 1 : m \in O}) \in Nat
    BY CountOne
  <1>5. NetUpTo(ops, n, a)
          = Cardinality({m \in 1 .. n : m \in I}) - Cardinality({m \in 1 .. n : m \in O})
    BY <1>1, <1>2, Zenon DEF NetUpTo
  <1>6. NetUpTo(ops, n - 1, a)
          = Cardinality({m \in 1 .. n - 1 : m \in I}) - Cardinality({m \in 1 .. n - 1 : m \in O})
    BY <1>1, <1>2, Zenon DEF NetUpTo
  <1>7. /\ One(n \in I) = One(ops[n].type = "transfer" /\ ops[n].to = a)
        /\ One(n \in O) = One(ops[n].type = "transfer" /\ ops[n].from = a)
    BY <1>1, <1>2 DEF One
  <1>8. One(n \in I) \in Int /\ One(n \in O) \in Int
    BY DEF One
  <1> QED
    BY <1>3, <1>4, <1>5, <1>6, <1>7, <1>8

\* What an operation sequence moves is a number.
LEMMA NetType ==
    ASSUME NEW ops \in Seq(Operations), NEW a
    PROVE  Net(ops, a) \in Int
  <1> DEFINE I == {n \in DOMAIN ops : ops[n].type = "transfer" /\ ops[n].to = a}
             O == {n \in DOMAIN ops : ops[n].type = "transfer" /\ ops[n].from = a}
  <1>1. IsFiniteSet(DOMAIN ops) /\ I \subseteq DOMAIN ops /\ O \subseteq DOMAIN ops
    BY LenProperties, FS_Interval
  <1>2. Cardinality(I) \in Nat /\ Cardinality(O) \in Nat
    BY <1>1, FS_Subset, FS_CardinalityType
  <1> QED
    BY <1>2 DEF Net

\* The loop of ApplyAll.
IsRun(f, ops, db, proposed) ==
    f = [n \in 0 .. Len(ops) |->
            IF n = 0 THEN [ok |-> TRUE, d |-> db]
            ELSE IF f[n - 1].ok /\ Evaluates(ops[n], f[n - 1].d, proposed)
            THEN [ok |-> TRUE, d |-> Applied(ops[n], f[n - 1].d)]
            ELSE [ok |-> FALSE, d |-> db]]

Outcome(A) == [ok : BOOLEAN, d : Database(A)]

LEMMA RunExists ==
    ASSUME NEW ops \in Seq(Operations), NEW A, Authorities \subseteq A, NEW db \in Database(A),
           NEW proposed
    PROVE  \E f : IsRun(f, ops, db, proposed) /\ f \in [0 .. Len(ops) -> Outcome(A)]
  <1> DEFINE N == Len(ops)
             D == Outcome(A)
             start == [ok |-> TRUE, d |-> db]
             Body(n, t) == IF t.ok /\ Evaluates(ops[n], t.d, proposed)
                           THEN [ok |-> TRUE, d |-> Applied(ops[n], t.d)]
                           ELSE [ok |-> FALSE, d |-> db]
             F == [x \in (1 .. N) \X D |-> Body(x[1], x[2])]
  <1>1. N \in Nat /\ start \in D
    BY LenProperties DEF Outcome
  <1>2. ASSUME NEW n \in 1 .. N, NEW t \in D
        PROVE  Body(n, t) \in D
    <2>1. ops[n] \in Operations /\ t.d \in Database(A)
      BY ElementOfSeq DEF Outcome
    <2>2. Applied(ops[n], t.d) \in Database(A)
      BY <2>1, AppliedFacts
    <2> QED
      BY <2>2 DEF Outcome
  <1> HIDE DEF D, Body
  <1>3. /\ F \in [(1 .. N) \X D -> D]
        /\ \A n \in 1 .. N, t \in D : F[<<n, t>>] = Body(n, t)
    BY <1>2
  <1> HIDE DEF N, F, start
  <1>4. PICK f \in [0 .. N -> D] :
            f[0] = start /\ \A n \in 1 .. N : f[n] = F[<<n, f[n - 1]>>]
    <2>1. Fold!IsBody(F, N, D)
      BY <1>3 DEF Fold!IsBody
    <2>2. \E f : Fold!IsLoop(f, F, N, start, D)
      BY <1>1, <2>1, Fold!Iteration
    <2> QED
      BY <2>2 DEF Fold!IsLoop
  <1>5. \A n \in 0 .. N : f[n] = IF n = 0 THEN start ELSE Body(n, f[n - 1])
    <2> TAKE n \in 0 .. N
    <2>1. CASE n = 0
      BY <1>4, <2>1
    <2>2. CASE n # 0
      <3>1. n \in 1 .. N /\ n - 1 \in 0 .. N
        BY <1>1, <2>2
      <3>2. f[n - 1] \in D
        BY <3>1
      <3> QED
        BY <1>3, <1>4, <2>2, <3>1, <3>2
    <2> QED
      BY <2>1, <2>2
  <1>6. f = [n \in 0 .. N |-> f[n]]
    OBVIOUS
  <1>7. IsRun(f, ops, db, proposed)
    BY <1>5, <1>6 DEF IsRun, N, start, Body
  <1> QED
    BY <1>7 DEF N, D

\* A transaction is applied as a whole, or nothing of it is.
AllOrNothing(r, ops, A, db) ==
    /\ r \in Outcome(A)
    /\ ~r.ok => r.d = db
    /\ r.ok => \A a \in Accounts : r.d.balance[a] = db.balance[a] + Net(ops, a)
    /\ (\A n \in DOMAIN ops : ops[n].type # "parameters") => r.d.pending = db.pending

LEMMA ApplyAllFacts ==
    ASSUME NEW ops \in Seq(Operations), NEW A, Authorities \subseteq A, NEW db \in Database(A),
           NEW proposed
    PROVE  AllOrNothing(ApplyAll(ops, db, proposed), ops, A, db)
  <1> DEFINE N == Len(ops)
             f == CHOOSE g : IsRun(g, ops, db, proposed)
             D == Outcome(A)
  <1>1. IsRun(f, ops, db, proposed)
    BY RunExists
  <1>2. ApplyAll(ops, db, proposed) = f[N]
    BY DEF ApplyAll, IsRun
  <1>3. N \in Nat /\ DOMAIN ops = 1 .. N /\ \A n \in 1 .. N : ops[n] \in Operations
    BY LenProperties, ElementOfSeq
  <1> HIDE DEF f, N
  <1>4. \A n \in 0 .. N : f[n] =
            IF n = 0 THEN [ok |-> TRUE, d |-> db]
            ELSE IF f[n - 1].ok /\ Evaluates(ops[n], f[n - 1].d, proposed)
            THEN [ok |-> TRUE, d |-> Applied(ops[n], f[n - 1].d)]
            ELSE [ok |-> FALSE, d |-> db]
    BY <1>1, Zenon DEF IsRun, N
  <1> DEFINE Whole(n) == f[n].ok => \A a \in Accounts :
                            f[n].d.balance[a] = db.balance[a] + NetUpTo(ops, n, a)
             Same(n) == (\A m \in DOMAIN ops : ops[m].type # "parameters") =>
                            f[n].d.pending = db.pending
             Good(n) == f[n] \in D /\ (~f[n].ok => f[n].d = db) /\ Whole(n) /\ Same(n)
             S == {n \in 0 .. N : Good(n)}
  <1>5. 0 \in S
    <2>1. 0 \in 0 .. N
      BY <1>3
    <2>2. f[0] = [ok |-> TRUE, d |-> db]
      BY <1>4, <2>1, Zenon
    <2>3. \A a \in Accounts : NetUpTo(ops, 0, a) = 0 /\ db.balance[a] \in Int
      <3>1. {m \in 1 .. 0 : TRUE} = {}
        OBVIOUS
      <3> QED
        BY FS_EmptySet DEF NetUpTo, Database
    <2>4. f[0] \in D /\ f[0].ok = TRUE /\ f[0].d = db
      BY <2>2 DEF Outcome
    <2>5. Whole(0)
      BY <2>3, <2>4
    <2>6. Same(0)
      BY <2>4
    <2> HIDE DEF Whole, Same
    <2> QED
      BY <2>1, <2>4, <2>5, <2>6
  <1>6. ASSUME NEW n \in 1 .. N, n - 1 \in S
        PROVE  n \in S
    <2>1. Good(n - 1)
      <3> HIDE DEF Good
      <3> QED
        BY <1>6
    <2>2. n \in 0 .. N /\ n # 0 /\ n \in Nat \ {0} /\ ops[n] \in Operations /\ n \in DOMAIN ops
      BY <1>3
    <2> DEFINE t == f[n - 1]
               op == ops[n]
    <2>3. CASE t.ok /\ Evaluates(op, t.d, proposed)
      <3>1. f[n] = [ok |-> TRUE, d |-> Applied(op, t.d)]
        BY <1>4, <2>2, <2>3, Zenon
      <3>2. t.d \in Database(A)
        BY <2>1 DEF Outcome
      <3> HIDE DEF t, op
      <3>3. /\ Applied(op, t.d) \in Database(A)
            /\ \A a \in Accounts : Applied(op, t.d).balance[a] =
                  t.d.balance[a] + One(op.type = "transfer" /\ op.to = a)
                                 - One(op.type = "transfer" /\ op.from = a)
            /\ op.type # "parameters" => Applied(op, t.d).pending = t.d.pending
        BY <2>2, <3>2, AppliedFacts DEF op
      <3>4. f[n] \in D /\ f[n].ok /\ f[n].d = Applied(op, t.d)
        BY <3>1, <3>3 DEF Outcome
      <3>5. Whole(n)
        <4> SUFFICES ASSUME NEW a \in Accounts
                     PROVE  Applied(op, t.d).balance[a] = db.balance[a] + NetUpTo(ops, n, a)
          BY <3>4
        <4>1. t.d.balance[a] = db.balance[a] + NetUpTo(ops, n - 1, a)
          BY <2>1, <2>3 DEF t
        <4>2. /\ NetUpTo(ops, n, a) = NetUpTo(ops, n - 1, a)
                    + One(op.type = "transfer" /\ op.to = a)
                    - One(op.type = "transfer" /\ op.from = a)
              /\ NetUpTo(ops, n, a) \in Int
          BY <2>2, NetNext DEF op
        <4>3. t.d.balance[a] \in Int /\ db.balance[a] \in Int
          BY <3>2 DEF Database
        <4>4. NetUpTo(ops, n - 1, a) \in Int
          <5>1. CASE n = 1
            <6>1. n - 1 = 0 /\ {m \in 1 .. 0 : TRUE} = {}
              BY <5>1
            <6> QED
              BY <6>1, FS_EmptySet DEF NetUpTo
          <5>2. CASE n # 1
            <6>1. n - 1 \in Nat \ {0}
              BY <2>2, <5>2
            <6> QED
              BY <6>1, NetNext
          <5> QED
            BY <5>1, <5>2
        <4>5. /\ One(op.type = "transfer" /\ op.to = a) \in Int
              /\ One(op.type = "transfer" /\ op.from = a) \in Int
          BY DEF One
        <4> QED
          BY <3>3, <4>1, <4>2, <4>3, <4>4, <4>5
      <3>6. Same(n)
        BY <2>1, <2>2, <3>3, <3>4 DEF op, t
      <3> QED
        BY <2>2, <3>4, <3>5, <3>6
    <2>4. CASE ~(t.ok /\ Evaluates(op, t.d, proposed))
      <3>1. f[n] = [ok |-> FALSE, d |-> db]
        BY <1>4, <2>2, <2>4, Zenon
      <3>2. f[n] \in D /\ f[n].ok = FALSE /\ f[n].d = db
        BY <3>1 DEF Outcome
      <3>3. Whole(n) /\ Same(n)
        BY <3>2
      <3> HIDE DEF Whole, Same
      <3> QED
        BY <2>2, <3>2, <3>3
    <2> QED
      BY <2>3, <2>4
  <1>7. Good(N)
    <2> HIDE DEF S
    <2>1. \A n \in 0 .. N : n \in S
      BY <1>3, <1>5, <1>6, Fold!UpTo
    <2>2. N \in S
      BY <1>3, <2>1
    <2> QED
      BY <2>2 DEF S
  <1>8. \A a \in Accounts : NetUpTo(ops, N, a) = Net(ops, a)
    BY <1>3 DEF NetUpTo, Net
  <1> QED
    BY <1>2, <1>7, <1>8 DEF AllOrNothing

LEMMA PushFacts ==
    ASSUME NEW ops \in Seq(Operations), NEW A, Authorities \subseteq A, NEW db \in Database(A)
    PROVE  /\ AllOrNothing(ApplyAll(ops, db, TRUE), ops, A, db)
           /\ AllOrNothing(ApplyAll(ops, db, FALSE), ops, A, db)
  <1>1. \A proposed : AllOrNothing(ApplyAll(ops, db, proposed), ops, A, db)
    BY ApplyAllFacts
  <1> QED
    BY <1>1, Zenon

-----------------------------------------------------------------------------
(* The invariant *)

Proposal ==
    [ops : Seq(Operations), expiration : Nat, review : Int \cup {NoReview},
     required_active : SUBSET Accounts, required_owner : SUBSET Accounts,
     actives : SUBSET Accounts, owners : SUBSET Accounts, keys : SUBSET Keys]

Types ==
    /\ \E A : Authorities \subseteq A /\ d \in Database(A)
    /\ now \in Nat /\ created \in Nat /\ moved \in [Accounts -> Int]
    /\ proposals \in [DOMAIN proposals -> Proposal]
    /\ DOMAIN proposals \subseteq 1 .. created
    /\ executed \subseteq 1 .. created /\ DOMAIN reviewed \subseteq 1 .. created

NeedsCommittee(ops) ==
    CommitteeAccount \in AllRequired(ops).active \cup AllRequired(ops).owner

\* What needs the committee has a review period.
CommitteeReviewed ==
    \A i \in DOMAIN proposals : NeedsCommittee(proposals[i].ops) => proposals[i].review # NoReview

\* In its review period a proposal gets no more approvals of accounts.
ApprovedBefore ==
    \A i \in DOMAIN proposals \cap DOMAIN reviewed :
        /\ InReview(proposals[i], now)
        /\ proposals[i].actives \subseteq reviewed[i].actives
        /\ proposals[i].owners \subseteq reviewed[i].owners

IInv == Types /\ CommitteeReviewed /\ ApprovedBefore /\ AppliedOnceAndWhole

-----------------------------------------------------------------------------
(* Proposals that expire *)

LEMMA ProposalAt ==
    ASSUME Types, NEW i \in DOMAIN proposals
    PROVE  /\ proposals[i] \in Proposal /\ i \in Nat
           /\ proposals[i].ops \in Seq(Operations) /\ proposals[i].expiration \in Nat
  BY DEF Types, Proposal

LEMMA FirstExists ==
    ASSUME Types, NEW S \in SUBSET DOMAIN proposals, S # {}
    PROVE  FirstToExpire(S) \in S
  <1> DEFINE T == {proposals[i].expiration : i \in S}
  <1>1. T \subseteq Nat /\ T # {}
    BY ProposalAt
  <1>2. PICK e \in T : \A t \in T : e <= t
    BY <1>1, Fold!LeastNat
  <1> DEFINE U == {i \in S : proposals[i].expiration = e}
  <1>3. U \subseteq Nat /\ U # {}
    BY <1>2, ProposalAt
  <1>4. PICK i \in U : \A j \in U : i <= j
    BY <1>3, Fold!LeastNat
  <1>5. \A j \in S : \/ proposals[i].expiration < proposals[j].expiration
                     \/ proposals[i].expiration = proposals[j].expiration /\ i <= j
    <2> TAKE j \in S
    <2>1. /\ proposals[i].expiration = e /\ e <= proposals[j].expiration
          /\ e \in Nat /\ proposals[j].expiration \in Nat
      BY <1>2, <1>4, ProposalAt
    <2>2. CASE proposals[j].expiration = e
      BY <1>4, <2>1, <2>2
    <2>3. CASE proposals[j].expiration # e
      BY <2>1, <2>3
    <2> QED
      BY <2>2, <2>3
  <1>6. i \in S
    OBVIOUS
  <1> QED
    BY <1>5, <1>6, Zenon DEF FirstToExpire

\* What the loop goes through: proposals due or done, and balances that are
\* what the ones done have made them.
Rounds(E, A) ==
    {s \in [d : Database(A), due : SUBSET E, done : SUBSET E, moved : [Accounts -> Int]] :
        \A a \in Accounts : s.d.balance[a] = Endowment[a] + s.moved[a]}

LEMMA RetriedFacts ==
    ASSUME Types, NEW E \in SUBSET DOMAIN proposals, NEW A, Authorities \subseteq A,
           NEW s \in Rounds(E, A)
    PROVE  Retried(s) \in Rounds(E, A)
  <1>1. CASE s.due = {}
    BY <1>1 DEF Retried
  <1>2. CASE s.due # {}
    <2> DEFINE i == FirstToExpire(s.due)
               ops == proposals[i].ops
               r == ApplyAll(ops, s.d, TRUE)
               m == [a \in Accounts |-> s.moved[a] + Net(ops, a)]
    <2>1. /\ s.d \in Database(A) /\ s.due \in SUBSET E /\ s.done \in SUBSET E
          /\ s.moved \in [Accounts -> Int]
          /\ \A a \in Accounts : s.d.balance[a] = Endowment[a] + s.moved[a]
      BY DEF Rounds
    <2>2. i \in s.due /\ i \in DOMAIN proposals
      BY <1>2, <2>1, FirstExists
    <2>3. ops \in Seq(Operations)
      BY <2>2, ProposalAt
    <2>4. Retried(s) = IF is_authorized_to_execute(proposals[i], s.d) /\ r.ok
                       THEN [d |-> r.d, due |-> s.due \ {i}, done |-> s.done \cup {i}, moved |-> m]
                       ELSE [d |-> s.d, due |-> s.due \ {i}, done |-> s.done, moved |-> s.moved]
      BY <1>2 DEF Retried
    <2>5. /\ r \in Outcome(A)
          /\ r.ok => \A a \in Accounts : r.d.balance[a] = s.d.balance[a] + Net(ops, a)
      <3>1. AllOrNothing(r, ops, A, s.d)
        BY <2>1, <2>3, PushFacts
      <3> HIDE DEF r, ops
      <3> QED
        BY <3>1 DEF AllOrNothing
    <2> HIDE DEF r, ops
    <2>6. r.d \in Database(A)
      BY <2>5 DEF Outcome
    <2>7. \A a \in Accounts : Net(ops, a) \in Int
      BY <2>3, NetType
    <2>8. m \in [Accounts -> Int] /\ \A a \in Accounts : m[a] = s.moved[a] + Net(ops, a)
      BY <2>1, <2>7
    <2> HIDE DEF m, i
    <2>9. r.ok => \A a \in Accounts : r.d.balance[a] = Endowment[a] + m[a]
      BY <2>1, <2>5, <2>7, <2>8, GovernanceAssumption
    <2>10. CASE is_authorized_to_execute(proposals[i], s.d) /\ r.ok
      <3>1. Retried(s) = [d |-> r.d, due |-> s.due \ {i}, done |-> s.done \cup {i}, moved |-> m]
        BY <2>4, <2>10
      <3> QED
        BY <2>1, <2>2, <2>6, <2>8, <2>9, <2>10, <3>1 DEF Rounds
    <2>11. CASE ~(is_authorized_to_execute(proposals[i], s.d) /\ r.ok)
      <3>1. Retried(s) = [d |-> s.d, due |-> s.due \ {i}, done |-> s.done, moved |-> s.moved]
        BY <2>4, <2>11
      <3> QED
        BY <2>1, <3>1 DEF Rounds
    <2> QED
      BY <2>10, <2>11
  <1> QED
    BY <1>1, <1>2

\* The loop of clear_expired_proposals.
IsClearing(f, E, db) ==
    f = [n \in 0 .. Cardinality(E) |->
            IF n = 0 THEN [d |-> db, due |-> E, done |-> {}, moved |-> moved]
            ELSE Retried(f[n - 1])]

LEMMA ClearingFacts ==
    ASSUME Types, NEW time, NEW A, Authorities \subseteq A, NEW db \in Database(A),
           \A a \in Accounts : db.balance[a] = Endowment[a] + moved[a]
    PROVE  clear_expired_proposals(db, time)
             \in Rounds({i \in DOMAIN proposals : proposals[i].expiration <= time}, A)
  <1> DEFINE E == {i \in DOMAIN proposals : proposals[i].expiration <= time}
             N == Cardinality(E)
             D == Rounds(E, A)
             start == [d |-> db, due |-> E, done |-> {}, moved |-> moved]
             F == [x \in (1 .. N) \X D |-> Retried(x[2])]
             f == CHOOSE g : IsClearing(g, E, db)
  <1>1. E \in SUBSET DOMAIN proposals
    OBVIOUS
  <1>2. N \in Nat
    <2>1. IsFiniteSet(1 .. created) /\ E \subseteq 1 .. created
      BY FS_Interval DEF Types
    <2> QED
      BY <2>1, FS_Subset, FS_CardinalityType
  <1>3. clear_expired_proposals(db, time) = f[N]
    BY DEF clear_expired_proposals, IsClearing
  <1> HIDE DEF E
  <1>4. start \in D
    BY DEF Rounds, Types
  <1> HIDE DEF start, D, N, f
  <1>5. \A s \in D : Retried(s) \in D
    BY <1>1, RetriedFacts DEF D
  <1>6. /\ F \in [(1 .. N) \X D -> D]
        /\ \A n \in 1 .. N, s \in D : F[<<n, s>>] = Retried(s)
    BY <1>5
  <1> HIDE DEF F
  <1>7. PICK g \in [0 .. N -> D] :
            g[0] = start /\ \A n \in 1 .. N : g[n] = F[<<n, g[n - 1]>>]
    <2>1. Fold!IsBody(F, N, D)
      BY <1>6 DEF Fold!IsBody
    <2>2. \E g : Fold!IsLoop(g, F, N, start, D)
      BY <1>2, <1>4, <2>1, Fold!Iteration
    <2> QED
      BY <2>2 DEF Fold!IsLoop
  <1>8. \A n \in 0 .. N : g[n] = IF n = 0 THEN start ELSE Retried(g[n - 1])
    <2> TAKE n \in 0 .. N
    <2>1. CASE n = 0
      BY <1>7, <2>1
    <2>2. CASE n # 0
      <3>1. n \in 1 .. N /\ n - 1 \in 0 .. N
        BY <1>2, <2>2
      <3>2. g[n - 1] \in D
        BY <3>1
      <3> QED
        BY <1>6, <1>7, <2>2, <3>1, <3>2
    <2> QED
      BY <2>1, <2>2
  <1>9. IsClearing(g, E, db)
    <2>1. g = [n \in 0 .. N |-> g[n]]
      OBVIOUS
    <2> QED
      BY <1>8, <2>1 DEF IsClearing, N, start
  <1>10. IsClearing(f, E, db)
    BY <1>9 DEF f
  <1>11. \A n \in 0 .. N : f[n] = IF n = 0 THEN start ELSE Retried(f[n - 1])
    BY <1>10, Zenon DEF IsClearing, N, start
  <1> DEFINE S == {n \in 0 .. N : f[n] \in D}
  <1>12. 0 \in S
    BY <1>2, <1>4, <1>11
  <1>13. ASSUME NEW n \in 1 .. N, n - 1 \in S
         PROVE  n \in S
    BY <1>5, <1>11, <1>13
  <1> HIDE DEF S
  <1>14. \A n \in 0 .. N : n \in S
    BY <1>2, <1>12, <1>13, Fold!UpTo
  <1>15. f[N] \in D
    BY <1>2, <1>14 DEF S
  <1> QED
    BY <1>3, <1>15 DEF D, E

-----------------------------------------------------------------------------
(* The committee account *)

\* A transaction that does not need the committee takes nothing from it.
LEMMA WithoutCommittee ==
    ASSUME NEW ops \in Seq(Operations), CommitteeAccount \notin AllRequired(ops).active
    PROVE  /\ \A n \in DOMAIN ops : ops[n].type # "parameters"
           /\ Net(ops, CommitteeAccount) >= 0
  <1> DEFINE C == CommitteeAccount
             I == {n \in DOMAIN ops : ops[n].type = "transfer" /\ ops[n].to = C}
             O == {n \in DOMAIN ops : ops[n].type = "transfer" /\ ops[n].from = C}
  <1>1. \A n \in DOMAIN ops : C \notin Required(ops[n]).active
    <2>1. \A op \in Range(ops) : C \notin Required(op).active
      BY DEF AllRequired
    <2> QED
      BY <2>1 DEF Range
  <1>2. \A op : op.type = "parameters" => C \in Required(op).active
    BY DEF Required
  <1>3. \A op : op.type = "transfer" /\ op.from = C => C \in Required(op).active
    BY DEF Required
  <1>4. \A n \in DOMAIN ops : ops[n].type # "parameters"
    BY <1>1, <1>2
  <1>5. O = {}
    BY <1>1, <1>3
  <1>6. Cardinality(O) = 0
    BY <1>5, FS_EmptySet
  <1>7. IsFiniteSet(DOMAIN ops) /\ I \subseteq DOMAIN ops
    BY LenProperties, FS_Interval
  <1>8. Cardinality(I) \in Nat
    BY <1>7, FS_Subset, FS_CardinalityType
  <1>9. Net(ops, C) = Cardinality(I) - Cardinality(O)
    BY DEF Net
  <1> HIDE DEF I, O
  <1> QED
    BY <1>4, <1>6, <1>8, <1>9

\* verify_authority begins with the committee account, which signs nothing.
LEMMA CommitteeSignsNothing ==
    ASSUME NEW need, NEW sigs, Verified(need, sigs)
    PROVE  CommitteeAccount \notin need.active
  BY DEF Verified, verify_authority

LEMMA DatabaseGrows ==
    ASSUME NEW A, NEW B, A \subseteq B
    PROVE  Database(A) \subseteq Database(B)
  BY DEF Database

\* Maintenance leaves balances alone and elects the authority of the committee.
LEMMA MaintainedFacts ==
    ASSUME NEW A, Authorities \subseteq A, d \in Database(A), NEW votes
    PROVE  \E B : /\ Authorities \subseteq B /\ Maintained(votes) \in Database(B)
                  /\ Maintained(votes).balance = d.balance
  <1> DEFINE C == CommitteeAccount
             au == vote_counter(Elected("committee", votes), votes, d.active[C])
             active == [d.active EXCEPT ![C] = au]
             parameters == IF d.pending = NoPending THEN d.parameters ELSE d.pending
             B == A \cup {au}
  <1>1. Maintained(votes) = [d EXCEPT !.active = active, !.parameters = parameters,
                                      !.pending = NoPending]
    BY DEF Maintained
  <1> HIDE DEF au
  <1>2. /\ active \in [Accounts -> B] /\ parameters \in Parameters
        /\ Authorities \subseteq B
    BY AuthorityAssumption DEF Database
  <1> HIDE DEF active, parameters, B
  <1>3. /\ [d EXCEPT !.active = active, !.parameters = parameters, !.pending = NoPending]
               \in Database(B)
        /\ [d EXCEPT !.active = active, !.parameters = parameters, !.pending = NoPending].balance
               = d.balance
    BY <1>2 DEF Database
  <1> QED
    BY <1>1, <1>2, <1>3

-----------------------------------------------------------------------------
(* The steps *)

\* What CommitteeActsAfterReview says of one step.
Acts ==
    /\ now' = now =>
           d'.pending = d.pending /\ d'.balance[CommitteeAccount] >= d.balance[CommitteeAccount]
    /\ \A i \in (executed' \ executed) \cap DOMAIN reviewed :
           /\ proposals[i].actives \subseteq reviewed[i].actives
           /\ proposals[i].owners \subseteq reviewed[i].owners

\* The database is left alone by a step.
LEMMA DatabaseKept ==
    ASSUME Types, d' = d
    PROVE  d'.pending = d.pending /\ d'.balance[CommitteeAccount] >= d.balance[CommitteeAccount]
  <1>1. d.balance[CommitteeAccount] \in Int
    BY AuthorityAssumption DEF Types, Database
  <1> QED
    BY <1>1

\* A transaction of ops that does not need the committee is applied, or nothing is.
LEMMA TransactionStep ==
    ASSUME Types, AppliedOnceAndWhole, NEW ops \in Seq(Operations),
           CommitteeAccount \notin AllRequired(ops).active,
           NEW A, Authorities \subseteq A, d \in Database(A),
           NEW r, AllOrNothing(r, ops, A, d), d' = r.d,
           moved' = [a \in Accounts |-> moved[a] + IF r.ok THEN Net(ops, a) ELSE 0]
    PROVE  /\ d' \in Database(A) /\ moved' \in [Accounts -> Int]
           /\ \A a \in Accounts : d'.balance[a] = Endowment[a] + moved'[a]
           /\ d'.pending = d.pending
           /\ d'.balance[CommitteeAccount] >= d.balance[CommitteeAccount]
  <1>1. /\ \A n \in DOMAIN ops : ops[n].type # "parameters"
        /\ Net(ops, CommitteeAccount) >= 0
    BY WithoutCommittee
  <1>2. \A a \in Accounts : Net(ops, a) \in Int
    BY NetType
  <1>3. /\ r.d \in Database(A) /\ r.ok \in BOOLEAN
        /\ ~r.ok => r.d = d
        /\ r.ok => \A a \in Accounts : r.d.balance[a] = d.balance[a] + Net(ops, a)
        /\ r.d.pending = d.pending
    BY <1>1 DEF AllOrNothing, Outcome
  <1>4. \A a \in Accounts : /\ d.balance[a] \in Int /\ moved[a] \in Int
                            /\ d.balance[a] = Endowment[a] + moved[a] /\ Endowment[a] \in Int
    BY GovernanceAssumption DEF Database, Types, AppliedOnceAndWhole
  <1>5. CASE r.ok
    <2>1. moved' = [a \in Accounts |-> moved[a] + Net(ops, a)]
      BY <1>5
    <2>2. /\ moved' \in [Accounts -> Int]
          /\ \A a \in Accounts : moved'[a] = moved[a] + Net(ops, a)
      BY <1>2, <1>4, <2>1
    <2>3. \A a \in Accounts : d'.balance[a] = d.balance[a] + Net(ops, a)
      BY <1>3, <1>5
    <2>4. \A a \in Accounts : d'.balance[a] = Endowment[a] + moved'[a]
      BY <1>2, <1>4, <2>2, <2>3
    <2>5. d'.balance[CommitteeAccount] >= d.balance[CommitteeAccount]
      BY <1>1, <1>2, <1>4, <2>3, AuthorityAssumption
    <2> QED
      BY <1>3, <2>2, <2>4, <2>5
  <1>6. CASE ~r.ok
    <2>1. moved' = [a \in Accounts |-> moved[a] + 0]
      BY <1>6
    <2>2. moved' \in [Accounts -> Int] /\ \A a \in Accounts : moved'[a] = moved[a]
      BY <1>4, <2>1
    <2>3. d' = d
      BY <1>3, <1>6
    <2>4. \A a \in Accounts : d'.balance[a] = Endowment[a] + moved'[a]
      BY <1>4, <2>2, <2>3
    <2> QED
      BY <1>3, <2>2, <2>3, <2>4, DatabaseKept
  <1> QED
    BY <1>5, <1>6

LEMMA SendStep ==
    ASSUME IInv, NEW op \in Sent, NEW sigs, send(op, sigs)
    PROVE  IInv' /\ Acts
  <1> DEFINE ops == <<op>>
             r == ApplyAll(ops, d, FALSE)
  <1> USE DEF IInv
  <1>1. PICK A : Authorities \subseteq A /\ d \in Database(A)
    BY DEF Types
  <1>2. op \in Operations /\ ops \in Seq(Operations)
    BY InputsAssumption
  <1>3. AllOrNothing(r, ops, A, d)
    BY <1>1, <1>2, PushFacts
  <1>4. CommitteeAccount \notin AllRequired(ops).active
    <2>1. Verified(Required(op), sigs)
      BY DEF send
    <2>2. CommitteeAccount \notin Required(op).active
      BY <2>1, CommitteeSignsNothing
    <2>3. Range(ops) = {op}
      BY DEF Range
    <2> QED
      BY <2>2, <2>3 DEF AllRequired
  <1>5. /\ d' = r.d /\ r.ok
        /\ moved' = [a \in Accounts |-> moved[a] + Net(ops, a)]
        /\ UNCHANGED <<proposals, now, created, executed, reviewed>>
    BY DEF send
  <1> HIDE DEF r, ops
  <1>6. moved' = [a \in Accounts |-> moved[a] + IF r.ok THEN Net(ops, a) ELSE 0]
    BY <1>5
  <1>7. /\ d' \in Database(A) /\ moved' \in [Accounts -> Int]
        /\ \A a \in Accounts : d'.balance[a] = Endowment[a] + moved'[a]
        /\ d'.pending = d.pending
        /\ d'.balance[CommitteeAccount] >= d.balance[CommitteeAccount]
    BY <1>1, <1>2, <1>3, <1>4, <1>5, <1>6, TransactionStep
  <1>8. Types'
    BY <1>1, <1>5, <1>7 DEF Types
  <1>9. CommitteeReviewed' /\ ApprovedBefore'
    BY <1>5 DEF CommitteeReviewed, ApprovedBefore, InReview
  <1>10. AppliedOnceAndWhole'
    BY <1>5, <1>7 DEF AppliedOnceAndWhole
  <1>11. Acts
    BY <1>5, <1>7 DEF Acts
  <1> QED
    BY <1>8, <1>9, <1>10, <1>11

LEMMA VotableStep ==
    ASSUME IInv, NEW v, create_votable(v)
    PROVE  IInv' /\ Acts
  <1>1. UNCHANGED <<d, proposals, now, created, executed, reviewed, moved>>
    BY DEF create_votable
  <1>2. IInv'
    BY <1>1 DEF IInv, Types, CommitteeReviewed, ApprovedBefore, AppliedOnceAndWhole, InReview
  <1>3. Acts
    BY <1>1, DatabaseKept DEF Acts, IInv
  <1> QED
    BY <1>2, <1>3

\* Who an operation needs is an account.
LEMMA RequiredType ==
    ASSUME NEW ops \in Seq(Operations)
    PROVE  AllRequired(ops).active \subseteq Accounts /\ AllRequired(ops).owner \subseteq Accounts
  <1>1. \A op \in Operations : Required(op).active \subseteq Accounts /\ Required(op).owner \subseteq Accounts
    <2> TAKE op \in Operations
    <2>1. CASE op \in [type : {"transfer"}, from : Accounts, to : Accounts]
      BY <2>1 DEF Required
    <2>2. CASE op \in [type : {"parameters"}, parameters : Parameters]
      BY <2>2, AuthorityAssumption DEF Required
    <2>3. CASE op \in [type : {"owner", "active"}, account : Accounts, authority : Authorities]
      BY <2>3 DEF Required
    <2>4. CASE op \in [type : {"options"}, account : Accounts, options : Options]
      BY <2>4 DEF Required
    <2> QED
      BY <2>1, <2>2, <2>3, <2>4 DEF Operations
  <1>2. \A op \in Range(ops) : op \in Operations
    BY ElementOfSeq DEF Range
  <1> QED
    BY <1>1, <1>2 DEF AllRequired

LEMMA CreateStep ==
    ASSUME IInv, NEW ops \in Proposed, NEW lifetime, NEW review \in Reviews \cup {NoReview},
           proposal_create(ops, lifetime, review)
    PROVE  IInv' /\ Acts
  <1> DEFINE need == AllRequired(ops)
             k == created + 1
             begin == IF review = NoReview THEN NoReview ELSE now + lifetime - review
             p == [ops |-> ops, expiration |-> now + lifetime, review |-> begin,
                   required_active |-> need.active \ need.owner, required_owner |-> need.owner,
                   actives |-> {}, owners |-> {}, keys |-> {}]
  <1> USE DEF IInv
  <1>1. /\ lifetime \in 1 .. d.parameters.maximum_proposal_lifetime
        /\ ReviewSuffices(need, review, lifetime)
        /\ created' = k /\ proposals' = With(proposals, k, p)
        /\ UNCHANGED <<d, now, executed, reviewed, moved>>
    BY DEF proposal_create
  <1>2. ops \in Seq(Operations) /\ lifetime \in Nat /\ now \in Nat /\ created \in Nat
    BY <1>1, InputsAssumption DEF Types, Database, Parameters
  <1>3. begin \in Int \cup {NoReview} /\ (review # NoReview => begin # NoReview)
    BY <1>2, InputsAssumption
  <1>4. p \in Proposal
    <2>1. need.active \subseteq Accounts /\ need.owner \subseteq Accounts
      BY <1>2, RequiredType
    <2>2. now + lifetime \in Nat
      BY <1>2
    <2> HIDE DEF need, begin
    <2> QED
      BY <1>2, <1>3, <2>1, <2>2 DEF Proposal
  <1>5. p.ops = ops /\ p.review = begin
    OBVIOUS
  <1>6. NeedsCommittee(ops) => begin # NoReview
    BY <1>1, <1>3 DEF ReviewSuffices, NeedsCommittee
  <1>7. k \in 1 .. k /\ 1 .. created \subseteq 1 .. k /\ k \notin 1 .. created
    BY <1>2
  <1> HIDE DEF p, k, begin, need
  <1>8. proposals' = [i \in DOMAIN proposals \cup {k} |-> IF i = k THEN p ELSE proposals[i]]
    BY <1>1 DEF With
  <1>9. /\ DOMAIN proposals' = DOMAIN proposals \cup {k}
        /\ k \notin DOMAIN proposals /\ k \notin DOMAIN reviewed /\ k \notin executed
        /\ proposals'[k] = p
        /\ \A i \in DOMAIN proposals : proposals'[i] = proposals[i]
    BY <1>7, <1>8 DEF Types
  <1>10. Types'
    <2>1. proposals' \in [DOMAIN proposals' -> Proposal]
      BY <1>4, <1>8, <1>9, ProposalAt
    <2>2. /\ DOMAIN proposals' \subseteq 1 .. created'
          /\ executed' \subseteq 1 .. created' /\ DOMAIN reviewed' \subseteq 1 .. created'
          /\ created' \in Nat
      BY <1>1, <1>2, <1>7, <1>9 DEF Types, k
    <2> QED
      BY <1>1, <2>1, <2>2 DEF Types
  <1>11. CommitteeReviewed'
    BY <1>5, <1>6, <1>9 DEF CommitteeReviewed
  <1>12. ApprovedBefore'
    BY <1>1, <1>9 DEF ApprovedBefore, InReview
  <1>13. AppliedOnceAndWhole'
    BY <1>1, <1>9 DEF AppliedOnceAndWhole
  <1>14. Acts
    BY <1>1, DatabaseKept DEF Acts
  <1> QED
    BY <1>10, <1>11, <1>12, <1>13, <1>14

\* The proposals left are the old ones, and those in review have no new approvals of accounts.
Narrowed ==
    /\ proposals' \in [DOMAIN proposals' -> Proposal] /\ DOMAIN proposals' \subseteq DOMAIN proposals
    /\ \A j \in DOMAIN proposals' :
          /\ proposals'[j].ops = proposals[j].ops /\ proposals'[j].review = proposals[j].review
          /\ InReview(proposals[j], now) => /\ proposals'[j].actives \subseteq proposals[j].actives
                                            /\ proposals'[j].owners \subseteq proposals[j].owners

LEMMA NarrowedKeeps ==
    ASSUME CommitteeReviewed, ApprovedBefore, Narrowed, UNCHANGED <<now, reviewed>>
    PROVE  CommitteeReviewed' /\ ApprovedBefore'
  <1>1. CommitteeReviewed'
    BY DEF CommitteeReviewed, Narrowed
  <1>2. ApprovedBefore'
    <2> SUFFICES ASSUME NEW i \in DOMAIN proposals' \cap DOMAIN reviewed
                 PROVE  /\ InReview(proposals'[i], now)
                        /\ proposals'[i].actives \subseteq reviewed[i].actives
                        /\ proposals'[i].owners \subseteq reviewed[i].owners
      BY DEF ApprovedBefore, InReview
    <2>1. i \in DOMAIN proposals
      BY DEF Narrowed
    <2>2. /\ InReview(proposals[i], now)
          /\ proposals[i].actives \subseteq reviewed[i].actives
          /\ proposals[i].owners \subseteq reviewed[i].owners
      BY <2>1 DEF ApprovedBefore
    <2> QED
      BY <2>2 DEF Narrowed, InReview
  <1> QED
    BY <1>1, <1>2

LEMMA UpdateStep ==
    ASSUME IInv, NEW i \in DOMAIN proposals, NEW u \in Updates, NEW sigs,
           proposal_update(i, u, sigs)
    PROVE  IInv' /\ Acts
  <1> DEFINE p == proposals[i]
             q == [p EXCEPT !.actives = (@ \cup u.add.actives) \ u.remove.actives,
                            !.owners = (@ \cup u.add.owners) \ u.remove.owners,
                            !.keys = (@ \cup u.add.keys) \ u.remove.keys]
             kept == [proposals EXCEPT ![i] = q]
             pushes == q.review = NoReview /\ is_authorized_to_execute(q, d)
  <1> USE DEF IInv
  <1>1. /\ MayAdd(p, u)
        /\ IF pushes THEN push_proposal(i, q, kept)
           ELSE proposals' = kept /\ UNCHANGED <<d, executed, moved>>
        /\ UNCHANGED <<now, created, reviewed>>
    BY DEF proposal_update
  <1>2. p \in Proposal /\ p.ops \in Seq(Operations)
    BY ProposalAt
  <1>3. /\ u.add.actives \subseteq Accounts /\ u.add.owners \subseteq Accounts /\ u.add.keys \subseteq Keys
    BY InputsAssumption DEF Approvals
  <1>4. /\ q \in Proposal /\ q.ops = p.ops /\ q.review = p.review
        /\ q.actives = (p.actives \cup u.add.actives) \ u.remove.actives
        /\ q.owners = (p.owners \cup u.add.owners) \ u.remove.owners
    BY <1>2, <1>3 DEF Proposal
  <1>5. InReview(p, now) => q.actives \subseteq p.actives /\ q.owners \subseteq p.owners
    BY <1>1, <1>4 DEF MayAdd
  <1> HIDE DEF q
  <1>6. /\ kept \in [DOMAIN proposals -> Proposal] /\ kept[i] = q
        /\ \A j \in DOMAIN proposals \ {i} : kept[j] = proposals[j]
    BY <1>4 DEF Types
  <1> HIDE DEF kept
  <1>7. CASE ~pushes
    <2>1. proposals' = kept /\ UNCHANGED <<d, executed, moved>>
      BY <1>1, <1>7
    <2>2. Narrowed
      BY <1>4, <1>5, <1>6, <2>1 DEF Narrowed
    <2>3. DOMAIN proposals' = DOMAIN proposals /\ proposals' \in [DOMAIN proposals' -> Proposal]
      BY <1>6, <2>1
    <2>4. Types'
      BY <1>1, <2>1, <2>3 DEF Types
    <2>5. CommitteeReviewed' /\ ApprovedBefore'
      BY <1>1, <2>2, NarrowedKeeps
    <2>6. AppliedOnceAndWhole'
      BY <2>1, <2>3 DEF AppliedOnceAndWhole
    <2>7. Acts
      BY <1>1, <2>1, DatabaseKept DEF Acts
    <2> QED
      BY <2>4, <2>5, <2>6, <2>7
  <1>8. CASE pushes
    <2> DEFINE r == ApplyAll(p.ops, d, TRUE)
    <2>1. /\ d' = r.d
          /\ proposals' = IF r.ok THEN Without(kept, i) ELSE kept
          /\ executed' = IF r.ok THEN executed \cup {i} ELSE executed
          /\ moved' = [a \in Accounts |-> moved[a] + IF r.ok THEN Net(p.ops, a) ELSE 0]
      <3>1. push_proposal(i, q, kept)
        BY <1>1, <1>8
      <3> QED
        BY <1>4, <3>1 DEF push_proposal
    <2>2. PICK A : Authorities \subseteq A /\ d \in Database(A)
      BY DEF Types
    <2>3. AllOrNothing(r, p.ops, A, d)
      BY <1>2, <2>2, PushFacts
    <2>4. p.review = NoReview
      BY <1>4, <1>8
    <2>5. CommitteeAccount \notin AllRequired(p.ops).active
      BY <2>4 DEF CommitteeReviewed, NeedsCommittee
    <2>6. i \notin DOMAIN reviewed
      BY <2>4 DEF ApprovedBefore, InReview
    <2> HIDE DEF r
    <2>7. /\ d' \in Database(A) /\ moved' \in [Accounts -> Int]
          /\ \A a \in Accounts : d'.balance[a] = Endowment[a] + moved'[a]
          /\ d'.pending = d.pending
          /\ d'.balance[CommitteeAccount] >= d.balance[CommitteeAccount]
      BY <1>2, <2>1, <2>2, <2>3, <2>5, TransactionStep
    <2>8. /\ Narrowed /\ executed' \subseteq executed \cup {i}
          /\ executed' \cap DOMAIN proposals' = {}
      <3>1. CASE r.ok
        <4>1. proposals' = [j \in DOMAIN proposals \ {i} |-> kept[j]] /\ executed' = executed \cup {i}
          BY <1>6, <2>1, <3>1 DEF Without
        <4>2. DOMAIN proposals' = DOMAIN proposals \ {i}
          BY <4>1
        <4>3. \A j \in DOMAIN proposals' : proposals'[j] = proposals[j] /\ proposals[j] \in Proposal
          BY <1>6, <4>1, ProposalAt
        <4>4. Narrowed
          BY <4>1, <4>2, <4>3 DEF Narrowed
        <4> QED
          BY <4>1, <4>2, <4>4 DEF AppliedOnceAndWhole
      <3>2. CASE ~r.ok
        <4>1. proposals' = kept /\ executed' = executed
          BY <2>1, <3>2
        <4>2. Narrowed
          BY <1>4, <1>5, <1>6, <4>1 DEF Narrowed
        <4>3. DOMAIN proposals' = DOMAIN proposals
          BY <1>6, <4>1
        <4> QED
          BY <4>1, <4>2, <4>3 DEF AppliedOnceAndWhole
      <3> QED
        BY <3>1, <3>2
    <2>9. Types'
      BY <1>1, <2>2, <2>7, <2>8 DEF Types, Narrowed
    <2>10. CommitteeReviewed' /\ ApprovedBefore'
      BY <1>1, <2>8, NarrowedKeeps
    <2>11. AppliedOnceAndWhole'
      BY <2>7, <2>8 DEF AppliedOnceAndWhole
    <2>12. Acts
      BY <2>6, <2>7, <2>8 DEF Acts
    <2> QED
      BY <2>9, <2>10, <2>11, <2>12
  <1> QED
    BY <1>7, <1>8

LEMMA DeleteStep ==
    ASSUME IInv, NEW i \in DOMAIN proposals, NEW a, NEW own, NEW sigs,
           proposal_delete(i, a, own, sigs)
    PROVE  IInv' /\ Acts
  <1> USE DEF IInv
  <1>1. /\ proposals' = [j \in DOMAIN proposals \ {i} |-> proposals[j]]
        /\ UNCHANGED <<d, now, created, executed, reviewed, moved>>
    BY DEF proposal_delete, Without
  <1>2. /\ DOMAIN proposals' = DOMAIN proposals \ {i}
        /\ \A j \in DOMAIN proposals' : proposals'[j] = proposals[j] /\ proposals[j] \in Proposal
    BY <1>1, ProposalAt
  <1>3. Narrowed
    BY <1>1, <1>2 DEF Narrowed
  <1>4. Types'
    BY <1>1, <1>3 DEF Types, Narrowed
  <1>5. CommitteeReviewed' /\ ApprovedBefore'
    BY <1>1, <1>3, NarrowedKeeps
  <1>6. AppliedOnceAndWhole'
    BY <1>1, <1>2 DEF AppliedOnceAndWhole
  <1>7. Acts
    BY <1>1, DatabaseKept DEF Acts
  <1> QED
    BY <1>4, <1>5, <1>6, <1>7

\* A block: an election may come first, then the proposals that expire.
LEMMA BlockStep ==
    ASSUME IInv, NEW gap \in Gaps, apply_block(gap)
    PROVE  IInv' /\ Acts
  <1> DEFINE time == now + gap
             due == maint <= time
             db == IF due THEN Maintained(Tally) ELSE d
             r == clear_expired_proposals(db, time)
             E == {i \in DOMAIN proposals : proposals[i].expiration <= time}
             left == {i \in DOMAIN proposals : proposals[i].expiration > time}
             inReview == {j \in left : InReview(proposals[j], time)}
  <1> USE DEF IInv
  <1>1. /\ now' = time /\ d' = r.d /\ proposals' = [i \in left |-> proposals[i]]
        /\ executed' = executed \cup r.done /\ moved' = r.moved
        /\ reviewed' = [i \in inReview |-> IF i \in DOMAIN reviewed THEN reviewed[i] ELSE proposals[i]]
        /\ created' = created
    BY DEF apply_block
  <1>2. now \in Nat /\ gap \in Nat /\ gap >= 1 /\ time \in Nat /\ time # now
    BY GovernanceAssumption DEF Types
  <1>3. PICK A : Authorities \subseteq A /\ d \in Database(A)
    BY DEF Types
  <1>4. PICK B : Authorities \subseteq B /\ db \in Database(B) /\ db.balance = d.balance
    <2>1. CASE due
      BY <1>3, <2>1, MaintainedFacts
    <2>2. CASE ~due
      BY <1>3, <2>2
    <2> QED
      BY <2>1, <2>2
  <1> HIDE DEF db, due, time
  <1>5. r \in Rounds(E, B)
    <2>1. \A a \in Accounts : db.balance[a] = Endowment[a] + moved[a]
      BY <1>4 DEF AppliedOnceAndWhole
    <2> QED
      BY <1>4, <2>1, ClearingFacts
  <1> HIDE DEF r
  <1>6. /\ r.d \in Database(B) /\ r.done \subseteq E /\ r.moved \in [Accounts -> Int]
        /\ \A a \in Accounts : r.d.balance[a] = Endowment[a] + r.moved[a]
    BY <1>5 DEF Rounds
  <1>7. /\ E \subseteq DOMAIN proposals /\ left \subseteq DOMAIN proposals /\ E \cap left = {}
        /\ inReview \subseteq left
    BY <1>2, ProposalAt
  <1>8. \A j \in left : proposals[j] \in Proposal
    BY <1>7, ProposalAt
  <1>9. /\ DOMAIN proposals' = left /\ DOMAIN reviewed' = inReview
        /\ \A j \in left : proposals'[j] = proposals[j]
        /\ \A j \in inReview : reviewed'[j] = IF j \in DOMAIN reviewed THEN reviewed[j] ELSE proposals[j]
    BY <1>1
  <1>10. \A j \in inReview : InReview(proposals[j], time)
    OBVIOUS
  <1> HIDE DEF E, left, inReview
  <1>11. Types'
    <2>1. proposals' \in [DOMAIN proposals' -> Proposal]
      BY <1>1, <1>8, <1>9
    <2>2. /\ DOMAIN proposals' \subseteq 1 .. created' /\ DOMAIN reviewed' \subseteq 1 .. created'
          /\ executed' \subseteq 1 .. created'
      BY <1>1, <1>6, <1>7, <1>9 DEF Types
    <2>3. created' \in Nat
      BY <1>1 DEF Types
    <2> QED
      BY <1>1, <1>2, <1>4, <1>6, <2>1, <2>2, <2>3 DEF Types
  <1>12. CommitteeReviewed'
    BY <1>7, <1>9 DEF CommitteeReviewed
  <1>13. ApprovedBefore'
    <2> SUFFICES ASSUME NEW i \in DOMAIN proposals' \cap DOMAIN reviewed'
                 PROVE  /\ InReview(proposals'[i], now')
                        /\ proposals'[i].actives \subseteq reviewed'[i].actives
                        /\ proposals'[i].owners \subseteq reviewed'[i].owners
      BY DEF ApprovedBefore, InReview
    <2>1. i \in inReview /\ i \in left /\ i \in DOMAIN proposals /\ proposals'[i] = proposals[i]
      BY <1>7, <1>9
    <2>2. InReview(proposals'[i], now')
      BY <1>1, <1>10, <2>1 DEF InReview
    <2>3. CASE i \in DOMAIN reviewed
      <3>1. reviewed'[i] = reviewed[i]
        BY <1>9, <2>1, <2>3
      <3> QED
        BY <2>1, <2>2, <2>3, <3>1 DEF ApprovedBefore
    <2>4. CASE i \notin DOMAIN reviewed
      <3>1. reviewed'[i] = proposals[i]
        BY <1>9, <2>1, <2>4
      <3> QED
        BY <2>1, <2>2, <3>1
    <2> QED
      BY <2>3, <2>4
  <1>14. AppliedOnceAndWhole'
    BY <1>1, <1>6, <1>7, <1>9 DEF AppliedOnceAndWhole
  <1>15. Acts
    BY <1>1, <1>2, <1>6, <1>7 DEF Acts, ApprovedBefore
  <1> QED
    BY <1>11, <1>12, <1>13, <1>14, <1>15

-----------------------------------------------------------------------------
(* The theorems *)

LEMMA Initially ==
    ASSUME Init
    PROVE  IInv
  <1>1. DOMAIN proposals = {} /\ DOMAIN reviewed = {} /\ executed = {} /\ created = 0 /\ now = 0
    BY DEF Init
  <1>2. Types
    <2>1. d \in Database(Authorities)
      BY GovernanceAssumption, InputsAssumption DEF Init, Database
    <2>2. moved \in [Accounts -> Int]
      BY DEF Init
    <2>3. proposals \in [DOMAIN proposals -> Proposal]
      BY <1>1 DEF Init
    <2> QED
      BY <1>1, <2>1, <2>2, <2>3 DEF Types
  <1>3. CommitteeReviewed /\ ApprovedBefore
    BY <1>1 DEF CommitteeReviewed, ApprovedBefore
  <1>4. AppliedOnceAndWhole
    <2>1. d.balance = Endowment /\ moved = [a \in Accounts |-> 0]
      BY DEF Init
    <2> QED
      BY <1>1, <2>1, GovernanceAssumption DEF AppliedOnceAndWhole
  <1> QED
    BY <1>2, <1>3, <1>4 DEF IInv

LEMMA Step ==
    ASSUME IInv, [Next]_vars
    PROVE  IInv' /\ (vars' # vars => Acts)
  <1>1. CASE UNCHANGED vars
    BY <1>1 DEF vars, IInv, Types, CommitteeReviewed, ApprovedBefore, AppliedOnceAndWhole, InReview
  <1>2. ASSUME NEW op \in Sent, NEW sigs \in Signatures, send(op, sigs)
        PROVE  IInv' /\ Acts
    BY <1>2, SendStep
  <1>3. ASSUME NEW v \in NewVotables, create_votable(v)
        PROVE  IInv' /\ Acts
    BY <1>3, VotableStep
  <1>4. ASSUME NEW ops \in Proposed, NEW lifetime \in Expirations, NEW review \in Reviews \cup {NoReview},
               proposal_create(ops, lifetime, review)
        PROVE  IInv' /\ Acts
    BY <1>4, CreateStep
  <1>5. ASSUME NEW i \in DOMAIN proposals, NEW u \in Updates, NEW sigs \in Signatures,
               proposal_update(i, u, sigs)
        PROVE  IInv' /\ Acts
    BY <1>5, UpdateStep
  <1>6. ASSUME NEW i \in DOMAIN proposals, NEW a \in Accounts, NEW own \in BOOLEAN,
               NEW sigs \in Signatures, proposal_delete(i, a, own, sigs)
        PROVE  IInv' /\ Acts
    BY <1>6, DeleteStep
  <1>7. ASSUME NEW gap \in Gaps, apply_block(gap)
        PROVE  IInv' /\ Acts
    BY <1>7, BlockStep
  <1> QED
    BY <1>1, <1>2, <1>3, <1>4, <1>5, <1>6, <1>7 DEF Next

LEMMA Inductive ==
    Spec => []IInv
  <1>1. Init => IInv
    BY Initially
  <1>2. IInv /\ [Next]_vars => IInv'
    BY Step
  <1> QED
    BY <1>1, <1>2, PTL DEF Spec

(* A proposal is executed once and as a whole: balances are what the       *)
(* transactions that were applied have made them, and what was executed is *)
(* not there any more (push_proposal, clear_expired_proposals).            *)
THEOREM ExecutedOnceAndWhole ==
    Spec => []AppliedOnceAndWhole
  <1>1. IInv => AppliedOnceAndWhole
    BY DEF IInv
  <1> QED
    BY <1>1, Inductive, PTL

(* The committee account changes parameters and spends at the end of a     *)
(* block only, and with approvals of accounts that were there when the     *)
(* review period began (proposal_update_evaluator::do_evaluate, do_apply). *)
THEOREM CommitteeReviews ==
    Spec => CommitteeActsAfterReview
  <1> DEFINE Body ==
               /\ now' = now => /\ d'.pending = d.pending
                                /\ d'.balance[CommitteeAccount] >= d.balance[CommitteeAccount]
               /\ \A i \in (executed' \ executed) \cap DOMAIN reviewed :
                     /\ proposals[i].actives \subseteq reviewed[i].actives
                     /\ proposals[i].owners \subseteq reviewed[i].owners
  <1>1. IInv /\ [Next]_vars => [Body]_vars
    BY Step DEF Acts
  <1>2. Spec => [][Body]_vars
    BY <1>1, Inductive, PTL DEF Spec
  <1> QED
    BY <1>2, PTL DEF CommitteeActsAfterReview
=============================================================================
