------------------------- MODULE ChainDatabaseProofs -------------------------
(***************************************************************************)
(* For every tree of blocks, every set of invalid ones, every rule for the *)
(* irreversible block, all transactions and conflicts, and every sequence  *)
(* of pushes, fork switches, restarts and crashes: the pending             *)
(* transactions apply on the head block, none is dropped that still        *)
(* applies, and a fork switch that fails and can pop its blocks ends on    *)
(* the block it came from.                                                 *)
(***************************************************************************)
EXTENDS ChainDatabase, SequenceTheorems, TLAPS

Fold == INSTANCE FoldTheorems

Chain == Blocks \cup {Genesis}

-----------------------------------------------------------------------------
(* The paths of the block tree *)

\* What the definition of Path asks for.
IsPath(f) == f = [b \in Chain |-> IF b = Genesis THEN << >> ELSE Append(f[Parent[b]], b)]

\* The tree is finite in depth, so there is such a function.
LEMMA PathExists == \E f : IsPath(f)
  <1> DEFINE D(n) == {b \in Chain : Num[b] <= n}
             Ok(n, f) == \A b \in D(n) :
                            f[b] = IF b = Genesis THEN << >> ELSE Append(f[Parent[b]], b)
             S == {n \in 0 .. MaxNum : \E f : Ok(n, f)}
  <1>1. /\ MaxNum \in Nat /\ Genesis \notin Blocks /\ Num[Genesis] = 0
        /\ \A b \in Blocks : Parent[b] \in Chain /\ Num[b] = Num[Parent[b]] + 1
        /\ \A b \in Chain : Num[b] \in 0 .. MaxNum
    BY BlocksAssumption, SizesAssumption DEF Chain
  <1>2. 0 \in S
    <2> DEFINE f == [b \in D(0) |-> << >>]
    <2>1. \A b \in D(0) : b = Genesis
      BY <1>1 DEF Chain
    <2>2. \A b \in D(0) : f[b] = << >>
      OBVIOUS
    <2> HIDE DEF f
    <2>3. Ok(0, f) /\ 0 \in 0 .. MaxNum
      BY <1>1, <2>1, <2>2
    <2> QED
      BY <2>3
  <1>3. ASSUME NEW n \in 1 .. MaxNum, n - 1 \in S
        PROVE  n \in S
    <2>1. PICK f : Ok(n - 1, f)
      BY <1>3
    <2> DEFINE g == [b \in D(n) |-> IF Num[b] = n THEN Append(f[Parent[b]], b) ELSE f[b]]
    <2>2. \A b \in D(n) : Num[b] # n => b \in D(n - 1)
      BY <1>1
    <2>3. \A b \in D(n) : b # Genesis => b \in Blocks /\ Parent[b] \in D(n - 1)
      BY <1>1 DEF Chain
    <2>4. \A b \in D(n) : g[b] = IF Num[b] = n THEN Append(f[Parent[b]], b) ELSE f[b]
      OBVIOUS
    <2>5. \A b \in D(n - 1) : b \in D(n) /\ Num[b] # n
      BY <1>1
    <2> HIDE DEF g
    <2>6. \A b \in D(n - 1) : g[b] = f[b]
      BY <2>4, <2>5
    <2>7. ASSUME NEW b \in D(n)
          PROVE  g[b] = IF b = Genesis THEN << >> ELSE Append(g[Parent[b]], b)
      <3>1. b # Genesis => g[Parent[b]] = f[Parent[b]]
        BY <2>3, <2>6
      <3>2. CASE Num[b] = n
        BY <1>1, <2>4, <3>1, <3>2
      <3>3. CASE Num[b] # n
        BY <2>1, <2>2, <2>6, <3>1, <3>3
      <3> QED
        BY <3>2, <3>3
    <2>8. Ok(n, g) /\ n \in 0 .. MaxNum
      BY <2>7
    <2> QED
      BY <2>8
  <1>4. MaxNum \in S
    <2> HIDE DEF S
    <2>1. \A i \in 0 .. MaxNum : i \in S
      BY <1>1, <1>2, <1>3, Fold!UpTo
    <2> QED
      BY <1>1, <2>1
  <1>5. PICK f : Ok(MaxNum, f)
    BY <1>4
  <1> DEFINE g == [b \in Chain |-> f[b]]
  <1>6. \A b \in Chain : g[b] = f[b]
    OBVIOUS
  <1>7. \A b \in Chain : g[b] = IF b = Genesis THEN << >> ELSE Append(g[Parent[b]], b)
    <2> HIDE DEF g
    <2>1. \A b \in Chain : f[b] = IF b = Genesis THEN << >> ELSE Append(f[Parent[b]], b)
      BY <1>1, <1>5
    <2>2. \A b \in Chain : b # Genesis => g[Parent[b]] = f[Parent[b]]
      BY <1>1, <1>6 DEF Chain
    <2> QED
      BY <1>6, <2>1, <2>2
  <1>8. g = [b \in Chain |-> g[b]]
    OBVIOUS
  <1> HIDE DEF g
  <1>9. IsPath(g)
    BY <1>7, <1>8 DEF IsPath
  <1> QED
    BY <1>9

\* Induction along the tree, over a set.
LEMMA AlongTree ==
    ASSUME NEW S, Genesis \in S, \A b \in Blocks : Parent[b] \in S => b \in S
    PROVE  \A b \in Chain : b \in S
  <1> DEFINE T == {n \in 0 .. MaxNum : \A b \in Chain : Num[b] <= n => b \in S}
  <1>1. /\ MaxNum \in Nat /\ Genesis \notin Blocks /\ Num[Genesis] = 0
        /\ \A b \in Blocks : Parent[b] \in Chain /\ Num[b] = Num[Parent[b]] + 1
        /\ \A b \in Chain : Num[b] \in 0 .. MaxNum
    BY BlocksAssumption, SizesAssumption DEF Chain
  <1>2. 0 \in T
    BY <1>1 DEF Chain
  <1>3. ASSUME NEW n \in 1 .. MaxNum, n - 1 \in T
        PROVE  n \in T
    <2> SUFFICES ASSUME NEW b \in Chain, Num[b] <= n
                 PROVE  b \in S
      OBVIOUS
    <2>1. CASE Num[b] <= n - 1
      BY <1>3, <2>1
    <2>2. CASE ~(Num[b] <= n - 1)
      <3>1. b \in Blocks /\ Parent[b] \in Chain /\ Num[Parent[b]] <= n - 1
        BY <1>1, <2>2 DEF Chain
      <3> QED
        BY <1>3, <3>1
    <2> QED
      BY <2>1, <2>2
  <1> HIDE DEF T
  <1>4. MaxNum \in T
    <2>1. \A i \in 0 .. MaxNum : i \in T
      BY <1>1, <1>2, <1>3, Fold!UpTo
    <2> QED
      BY <1>1, <2>1
  <1> QED
    BY <1>1, <1>4 DEF T

\* The path to a block is the one to its parent, and the block.
LEMMA PathDef ==
    /\ fork_db!Path[Genesis] = << >>
    /\ \A b \in Blocks : fork_db!Path[b] = Append(fork_db!Path[Parent[b]], b)
  <1> DEFINE P == fork_db!Path
  <1>1. P = CHOOSE f : IsPath(f)
    BY DEF fork_db!Path, IsPath, Chain
  <1>2. IsPath(P)
    BY <1>1, PathExists
  <1> HIDE DEF P
  <1>3. \A b \in Chain : P[b] = IF b = Genesis THEN << >> ELSE Append(P[Parent[b]], b)
    BY <1>2, Zenon DEF IsPath
  <1>4. P[Genesis] = << >> /\ \A b \in Blocks : P[b] = Append(P[Parent[b]], b)
    BY <1>3, BlocksAssumption DEF Chain
  <1> QED
    BY <1>4 DEF P

\* The n-th block of a path has the number n and is the parent of the next one.
LEMMA PathBlocks ==
    ASSUME NEW b \in Chain
    PROVE  /\ fork_db!Path[b] \in Seq(Blocks) /\ Len(fork_db!Path[b]) = Num[b]
           /\ \A i \in 1 .. Num[b] :
                 /\ fork_db!Path[b][i] \in Blocks /\ Num[fork_db!Path[b][i]] = i
                 /\ Parent[fork_db!Path[b][i]] = IF i = 1 THEN Genesis ELSE fork_db!Path[b][i - 1]
           /\ b \in Blocks => Num[b] \in 1 .. MaxNum /\ fork_db!Path[b][Num[b]] = b
  <1> DEFINE P == fork_db!Path
             Ok(c) == /\ P[c] \in Seq(Blocks) /\ Len(P[c]) = Num[c]
                      /\ \A i \in 1 .. Num[c] :
                            /\ P[c][i] \in Blocks /\ Num[P[c][i]] = i
                            /\ Parent[P[c][i]] = IF i = 1 THEN Genesis ELSE P[c][i - 1]
                      /\ c \in Blocks => P[c][Num[c]] = c
             S == {c \in Chain : Ok(c)}
  <1>1. /\ Genesis \notin Blocks /\ Num[Genesis] = 0
        /\ \A c \in Blocks : Parent[c] \in Chain /\ Num[c] = Num[Parent[c]] + 1 /\ c \in Chain
        /\ \A c \in Chain : Num[c] \in 0 .. MaxNum
    BY BlocksAssumption DEF Chain
  <1>2. P[Genesis] = << >> /\ \A c \in Blocks : P[c] = Append(P[Parent[c]], c)
    BY PathDef
  <1> HIDE DEF P
  <1>3. Genesis \in S
    <2>1. << >> \in Seq(Blocks) /\ Len(<< >>) = 0 /\ \A i \in 1 .. 0 : FALSE
      OBVIOUS
    <2>2. Ok(Genesis)
      BY <1>1, <1>2, <2>1
    <2> QED
      BY <2>2 DEF Chain
  <1>4. ASSUME NEW c \in Blocks, Parent[c] \in S
        PROVE  c \in S
    <2> DEFINE d == Parent[c]
               n == Num[d]
    <2>1. d \in Chain /\ Ok(d) /\ n \in Nat /\ Num[c] = n + 1
      BY <1>1, <1>4
    <2>2. /\ P[c] = Append(P[d], c) /\ P[c] \in Seq(Blocks) /\ Len(P[c]) = n + 1
          /\ \A i \in 1 .. n : P[c][i] = P[d][i]
          /\ P[c][n + 1] = c
      <3>1. P[d] \in Seq(Blocks) /\ Len(P[d]) = n /\ P[c] = Append(P[d], c)
        BY <1>2, <2>1
      <3> HIDE DEF n, d
      <3> QED
        BY <3>1, AppendProperties
    <2>3. \A i \in 1 .. n : /\ P[c][i] \in Blocks /\ Num[P[c][i]] = i
                            /\ Parent[P[c][i]] = IF i = 1 THEN Genesis ELSE P[c][i - 1]
      <3> TAKE i \in 1 .. n
      <3>1. i # 1 => P[c][i - 1] = P[d][i - 1]
        BY <2>1, <2>2
      <3> QED
        BY <2>1, <2>2, <3>1
    <2>4. Parent[c] = IF n + 1 = 1 THEN Genesis ELSE P[c][n]
      <3>1. CASE n = 0
        <4>1. d = Genesis
          BY <1>1, <2>1, <3>1 DEF Chain
        <4> QED
          BY <3>1, <4>1
      <3>2. CASE n # 0
        <4>1. d \in Blocks /\ n \in 1 .. n
          BY <1>1, <2>1, <3>2 DEF Chain
        <4>2. P[d][n] = d
          BY <2>1, <4>1
        <4> QED
          BY <2>1, <2>2, <3>2, <4>1, <4>2
      <3> QED
        BY <3>1, <3>2
    <2> HIDE DEF d, n
    <2>5. \A i \in 1 .. Num[c] : /\ P[c][i] \in Blocks /\ Num[P[c][i]] = i
                                 /\ Parent[P[c][i]] = IF i = 1 THEN Genesis ELSE P[c][i - 1]
      <3> TAKE i \in 1 .. Num[c]
      <3>1. CASE i \in 1 .. n
        BY <2>3, <3>1
      <3>2. CASE i = n + 1
        <4>1. i - 1 = n
          BY <2>1, <3>2
        <4> QED
          BY <2>1, <2>2, <2>4, <3>2, <4>1
      <3> QED
        BY <2>1, <3>1, <3>2
    <2> QED
      BY <1>1, <2>1, <2>2, <2>5
  <1> HIDE DEF S
  <1>5. b \in S
    BY <1>3, <1>4, AlongTree
  <1>6. b \in Blocks => Num[b] \in 1 .. MaxNum
    BY <1>1
  <1> QED
    BY <1>5, <1>6 DEF S, P

\* A block adds its transactions to those of its parent.
LEMMA TxsOnBlock ==
    ASSUME NEW b \in Blocks
    PROVE  TxsOn(b) = TxsOn(Parent[b]) \cup Range(TxsOf[b])
  <1> DEFINE P == fork_db!Path
             d == Parent[b]
             n == Num[d]
  <1>1. d \in Chain /\ b \in Chain /\ n \in Nat /\ Num[b] = n + 1
    BY BlocksAssumption DEF Chain
  <1>2. P[d] \in Seq(Blocks) /\ Len(P[d]) = n /\ P[b] = Append(P[d], b)
    BY <1>1, PathBlocks, PathDef
  <1>3. /\ \A i \in 1 .. n : P[b][i] = P[d][i]
        /\ P[b][n + 1] = b /\ DOMAIN P[d] = 1 .. n /\ DOMAIN P[b] = 1 .. n + 1
    BY <1>2, AppendProperties, LenProperties
  <1> HIDE DEF P, d, n
  <1>4. \A i : i \in 1 .. n + 1 <=> i \in 1 .. n \/ i = n + 1
    BY <1>1
  <1>5. Range(P[b]) = Range(P[d]) \cup {b}
    BY <1>3, <1>4 DEF Range
  <1>6. /\ TxsOn(b) = UNION {Range(TxsOf[c]) : c \in Range(P[b])}
        /\ TxsOn(d) = UNION {Range(TxsOf[c]) : c \in Range(P[d])}
    BY DEF TxsOn, P
  <1>7. \A x : x \in TxsOn(b) <=> x \in TxsOn(d) \/ x \in Range(TxsOf[b])
    BY <1>5, <1>6
  <1> QED
    BY <1>7 DEF d

-----------------------------------------------------------------------------
(* Transactions that are pushed again *)

\* The transactions of s after the first k apply on top of block b.
Applying(b, s, k) ==
    \A i \in k + 1 .. Len(s) :
        Applies(s[i], TxsOn(b) \cup {s[j] : j \in k + 1 .. i - 1})

\* These transactions.
After(s, k) == {s[j] : j \in k + 1 .. Len(s)}

\* What does not apply after some transactions does not apply after more.
LEMMA AppliesLess ==
    ASSUME NEW tx, NEW S, NEW T, S \subseteq T, Applies(tx, T)
    PROVE  Applies(tx, S)
  BY DEF Applies

\* One more transaction that applies.
LEMMA ApplyingAppend ==
    ASSUME NEW b, NEW s \in Seq(Txs), NEW tx \in Txs, NEW k \in 0 .. Len(s), Applying(b, s, k),
           Applies(tx, TxsOn(b) \cup After(s, k))
    PROVE  /\ Append(s, tx) \in Seq(Txs) /\ Applying(b, Append(s, tx), k)
           /\ Range(Append(s, tx)) = Range(s) \cup {tx}
           /\ k \in 0 .. Len(Append(s, tx))
  <1> DEFINE n == Len(s)
             a == Append(s, tx)
  <1>1. /\ n \in Nat /\ DOMAIN s = 1 .. n /\ a \in Seq(Txs) /\ DOMAIN a = 1 .. n + 1
        /\ Len(a) = n + 1 /\ \A i \in 1 .. n : a[i] = s[i]
        /\ a[n + 1] = tx
    BY AppendProperties, LenProperties
  <1>0. /\ k \in 0 .. n /\ Applying(b, s, k)
        /\ Applies(tx, TxsOn(b) \cup {s[j] : j \in k + 1 .. n})
        /\ \A i \in k + 1 .. n :
              Applies(s[i], TxsOn(b) \cup {s[j] : j \in k + 1 .. i - 1})
    BY DEF Applying, After
  <1> HIDE DEF n, a
  <1>2. \A i : i \in 1 .. n + 1 <=> i \in 1 .. n \/ i = n + 1
    BY <1>1
  <1>3. Range(a) = Range(s) \cup {tx}
    BY <1>1, <1>2 DEF Range
  <1>4. ASSUME NEW i \in k + 1 .. n + 1
        PROVE  Applies(a[i], TxsOn(b) \cup {a[j] : j \in k + 1 .. i - 1})
    <2>1. \A j \in k + 1 .. i - 1 : j \in 1 .. n
      BY <1>0, <1>1
    <2>2. {a[j] : j \in k + 1 .. i - 1} = {s[j] : j \in k + 1 .. i - 1}
      BY <1>1, <2>1
    <2>3. CASE i \in k + 1 .. n
      <3>1. i \in 1 .. n
        BY <1>0, <2>3
      <3> QED
        BY <1>0, <1>1, <2>2, <2>3, <3>1
    <2>4. CASE i = n + 1
      <3>1. i - 1 = n
        BY <1>1, <2>4
      <3> QED
        BY <1>0, <1>1, <2>2, <2>4, <3>1
    <2>5. i \in k + 1 .. n \/ i = n + 1
      BY <1>0, <1>1
    <2> QED
      BY <2>3, <2>4, <2>5
  <1>5. Applying(b, a, k)
    BY <1>1, <1>4 DEF Applying
  <1>6. k \in 0 .. Len(a)
    BY <1>0, <1>1
  <1> QED
    BY <1>1, <1>3, <1>5, <1>6 DEF a

\* What the loop of Repushed computes.
IsAfter(b, txs, f) ==
    f = [i \in 0 .. Len(txs) |->
            IF i = 0 THEN << >>
            ELSE IF Applies(txs[i], TxsOn(b) \cup Range(f[i - 1]))
            THEN Append(f[i - 1], txs[i]) ELSE f[i - 1]]

\* The loop has a result.
LEMMA AfterExists ==
    ASSUME NEW b, NEW txs \in Seq(Txs)
    PROVE  \E f : IsAfter(b, txs, f)
  <1> DEFINE n == Len(txs)
             D == Seq(Txs)
             F == [x \in (1 .. n) \X D |->
                     IF Applies(txs[x[1]], TxsOn(b) \cup Range(x[2]))
                     THEN Append(x[2], txs[x[1]]) ELSE x[2]]
  <1>1. n \in Nat /\ << >> \in D /\ \A i \in 1 .. n : txs[i] \in Txs
    BY LenProperties, ElementOfSeq
  <1>2. \A x \in (1 .. n) \X D : Append(x[2], txs[x[1]]) \in D /\ x[2] \in D
    BY <1>1, AppendProperties
  <1>3. F \in [(1 .. n) \X D -> D]
    BY <1>2
  <1>4. \A i \in 1 .. n, s \in D :
           F[<<i, s>>] = IF Applies(txs[i], TxsOn(b) \cup Range(s)) THEN Append(s, txs[i]) ELSE s
    OBVIOUS
  <1> HIDE DEF n, D, F
  <1>5. PICK f \in [0 .. n -> D] :
            f[0] = << >> /\ \A i \in 1 .. n : f[i] = F[<<i, f[i - 1]>>]
    <2>1. Fold!IsBody(F, n, D)
      BY <1>3 DEF Fold!IsBody
    <2>2. \E f : Fold!IsLoop(f, F, n, << >>, D)
      BY <1>1, <2>1, Fold!Iteration
    <2> QED
      BY <2>2 DEF Fold!IsLoop
  <1>6. \A i \in 0 .. n : f[i] =
            IF i = 0 THEN << >>
            ELSE IF Applies(txs[i], TxsOn(b) \cup Range(f[i - 1]))
            THEN Append(f[i - 1], txs[i]) ELSE f[i - 1]
    <2> TAKE i \in 0 .. n
    <2>1. CASE i = 0
      BY <1>5, <2>1
    <2>2. CASE i # 0
      <3>1. i \in 1 .. n /\ i - 1 \in 0 .. n
        BY <1>1, <2>2
      <3>2. f[i - 1] \in D
        BY <3>1
      <3> QED
        BY <1>4, <1>5, <2>2, <3>1, <3>2
    <2> QED
      BY <2>1, <2>2
  <1>7. f = [i \in 0 .. n |-> f[i]]
    OBVIOUS
  <1>8. IsAfter(b, txs, f)
    BY <1>6, <1>7 DEF IsAfter, n
  <1> QED
    BY <1>8

\* What ~pending_transactions_restorer leaves applies on the block, and what it
\* leaves out does not apply on top of that.
LEMMA RepushedFacts ==
    ASSUME NEW b, NEW txs \in Seq(Txs)
    PROVE  /\ Repushed(b, txs) \in Seq(Txs) /\ Applying(b, Repushed(b, txs), 0)
           /\ \A tx \in Range(txs) : \/ tx \in Range(Repushed(b, txs))
                                     \/ ~Applies(tx, TxsOn(b) \cup Range(Repushed(b, txs)))
  <1> DEFINE n == Len(txs)
             f == CHOOSE g : IsAfter(b, txs, g)
  <1>1. IsAfter(b, txs, f)
    BY AfterExists
  <1>2. Repushed(b, txs) = f[n]
    BY DEF Repushed, IsAfter
  <1>3. n \in Nat /\ DOMAIN txs = 1 .. n /\ \A i \in 1 .. n : txs[i] \in Txs
    BY LenProperties, ElementOfSeq
  <1> HIDE DEF n, f
  <1>4. \A i \in 0 .. n : f[i] =
            IF i = 0 THEN << >>
            ELSE IF Applies(txs[i], TxsOn(b) \cup Range(f[i - 1]))
            THEN Append(f[i - 1], txs[i]) ELSE f[i - 1]
    BY <1>1, Zenon DEF IsAfter, n
  <1> DEFINE Ok(i) ==
               /\ f[i] \in Seq(Txs) /\ Applying(b, f[i], 0)
               /\ \A k \in 1 .. i : \/ txs[k] \in Range(f[i])
                                    \/ ~Applies(txs[k], TxsOn(b) \cup Range(f[i]))
             S == {i \in 0 .. n : Ok(i)}
  <1>5. 0 \in S
    <2>0. 0 \in 0 .. n
      BY <1>3
    <2>1. f[0] = << >>
      BY <1>4, <2>0, Zenon
    <2>2. << >> \in Seq(Txs) /\ Applying(b, << >>, 0)
      BY DEF Applying
    <2>3. \A k \in 1 .. 0 : FALSE
      OBVIOUS
    <2> QED
      BY <2>0, <2>1, <2>2, <2>3
  <1>6. ASSUME NEW i \in 1 .. n, i - 1 \in S
        PROVE  i \in S
    <2>0. Ok(i - 1)
      <3> HIDE DEF Ok
      <3> QED
        BY <1>6
    <2>1. Ok(i - 1) /\ i \in 0 .. n /\ i # 0 /\ txs[i] \in Txs
      <3>1. i \in 0 .. n /\ i # 0
        OBVIOUS
      <3> HIDE DEF Ok
      <3> QED
        BY <1>3, <2>0, <3>1
    <2>2. \A k \in 1 .. i : k = i \/ k \in 1 .. i - 1
      OBVIOUS
    <2>3. CASE Applies(txs[i], TxsOn(b) \cup Range(f[i - 1]))
      <3>1. f[i] = Append(f[i - 1], txs[i])
        BY <1>4, <2>1, <2>3
      <3>2. /\ f[i] \in Seq(Txs) /\ Applying(b, f[i], 0)
            /\ Range(f[i]) = Range(f[i - 1]) \cup {txs[i]}
        <4> DEFINE s == f[i - 1]
                   tx == txs[i]
        <4>1. s \in Seq(Txs) /\ Applying(b, s, 0) /\ tx \in Txs /\ Applies(tx, TxsOn(b) \cup Range(s))
          BY <2>1, <2>3
        <4> HIDE DEF s, tx
        <4>2. 0 \in 0 .. Len(s) /\ After(s, 0) = Range(s)
          BY <4>1, LenProperties DEF Range, After
        <4>3. Applies(tx, TxsOn(b) \cup After(s, 0))
          BY <4>1, <4>2, Zenon
        <4> DEFINE k == 0
        <4>4. k \in 0 .. Len(s) /\ Applying(b, s, k) /\ Applies(tx, TxsOn(b) \cup After(s, k))
          BY <4>1, <4>2, <4>3
        <4> HIDE DEF k
        <4>5. /\ Append(s, tx) \in Seq(Txs) /\ Applying(b, Append(s, tx), k)
              /\ Range(Append(s, tx)) = Range(s) \cup {tx}
          BY <4>1, <4>4, ApplyingAppend
        <4> QED
          BY <3>1, <4>5 DEF s, tx, k
      <3>3. \A k \in 1 .. i - 1 : \/ txs[k] \in Range(f[i])
                                  \/ ~Applies(txs[k], TxsOn(b) \cup Range(f[i]))
        <4> TAKE k \in 1 .. i - 1
        <4>1. TxsOn(b) \cup Range(f[i - 1]) \subseteq TxsOn(b) \cup Range(f[i])
          BY <3>2
        <4>2. \/ txs[k] \in Range(f[i - 1])
              \/ ~Applies(txs[k], TxsOn(b) \cup Range(f[i - 1]))
          BY <2>1
        <4> QED
          BY <3>2, <4>1, <4>2, AppliesLess
      <3> QED
        BY <2>1, <2>2, <3>2, <3>3
    <2>4. CASE ~Applies(txs[i], TxsOn(b) \cup Range(f[i - 1]))
      <3>1. f[i] = f[i - 1]
        BY <1>4, <2>1, <2>4
      <3> QED
        BY <2>1, <2>2, <2>4, <3>1
    <2> QED
      BY <2>3, <2>4
  <1>7. Ok(n)
    <2> HIDE DEF S
    <2>1. \A i \in 0 .. n : i \in S
      BY <1>3, <1>5, <1>6, Fold!UpTo
    <2>2. n \in S
      BY <1>3, <2>1
    <2> QED
      BY <2>2 DEF S
  <1> QED
    BY <1>2, <1>3, <1>7 DEF Range

-----------------------------------------------------------------------------
(* Least and greatest numbers *)

LEMMA MinNat ==
    ASSUME NEW S, S \subseteq Nat, S # {}
    PROVE  Min(S) \in S /\ Min(S) \in Nat
  <1>1. \E n \in S : \A m \in S : n <= m
    BY Fold!LeastNat
  <1> QED
    BY <1>1 DEF Min

LEMMA MaxNat ==
    ASSUME NEW S, NEW n \in Nat, S \subseteq 0 .. n, S # {}
    PROVE  Max(S) \in S /\ \A m \in S : m <= Max(S)
  <1> DEFINE T == {n - m : m \in S}
  <1>0. \A m \in S : n - m \in Nat
    OBVIOUS
  <1>1. T \subseteq Nat /\ T # {}
    BY <1>0
  <1>2. PICK t \in T : \A u \in T : t <= u
    BY <1>1, Fold!LeastNat
  <1>3. PICK k \in S : t = n - k
    BY <1>2
  <1>4. \A m \in S : n - k <= n - m
    BY <1>2, <1>3
  <1>5. \A m \in S : m <= k
    BY <1>3, <1>4
  <1> QED
    BY <1>3, <1>5 DEF Max

\* Trimming the undo stack for some transactions leaves a number of states.
LEMMA TrimmedNat ==
    ASSUME NEW n \in Nat, NEW size \in Nat, size >= 2, NEW txs
    PROVE  TrimmedFor(n, size, txs) \in Nat
  <1> DEFINE S == {n} \cup {size - Depth(tx) : tx \in txs}
  <1>1. \A tx : Depth(tx) \in {1, 2}
    BY DEF Depth
  <1>2. \A tx \in txs : size - Depth(tx) \in Nat
    BY <1>1
  <1>3. S \subseteq Nat /\ S # {}
    BY <1>2
  <1> HIDE DEF S
  <1>4. Min(S) \in Nat
    BY <1>3, MinNat
  <1> QED
    BY <1>4 DEF TrimmedFor, S

-----------------------------------------------------------------------------
(* The fork database *)

\* The parent of an item whose pointer can be locked is a block.
ForkOK(f) ==
    /\ f \in fork_db!ForkDb
    /\ \A b \in f.links : Parent[b] \in Blocks
    /\ f.head_linked => f.head \in Blocks /\ Parent[f.head] \in Blocks

LEMMA ForkErase ==
    ASSUME NEW f, ForkOK(f), NEW S
    PROVE  ForkOK(fork_db!Erase(f, S))
  BY DEF ForkOK, fork_db!Erase, fork_db!ForkDb

LEMMA ForkSetHead ==
    ASSUME NEW f, ForkOK(f), NEW b \in Blocks
    PROVE  ForkOK(fork_db!set_head(f, b))
  <1> DEFINE l == b \in f.links
             g == [f EXCEPT !.head = b, !.head_linked = l]
  <1>1. l \in BOOLEAN /\ (l => Parent[b] \in Blocks)
    BY DEF ForkOK
  <1>2. fork_db!set_head(f, b) = g
    BY DEF fork_db!set_head
  <1> HIDE DEF l
  <1>3. /\ g \in fork_db!ForkDb /\ g.links = f.links /\ g.head = b
        /\ g.head_linked = l
    BY <1>1 DEF ForkOK, fork_db!ForkDb
  <1> HIDE DEF g
  <1> QED
    BY <1>1, <1>2, <1>3 DEF ForkOK

LEMMA ForkPop ==
    ASSUME NEW f, ForkOK(f), ~fork_db!PopThrows(f)
    PROVE  ForkOK(fork_db!pop_block(f))
  <1>1. Parent[f.head] \in Blocks
    BY DEF ForkOK, fork_db!PopThrows, fork_db!ForkDb
  <1> QED
    BY <1>1, ForkSetHead DEF fork_db!pop_block

LEMMA ForkStart ==
    /\ ForkOK(fork_db!reset)
    /\ \A b \in Blocks : ForkOK(fork_db!start_block(b))
  BY DEF ForkOK, fork_db!reset, fork_db!start_block, fork_db!ForkDb

LEMMA ForkSized ==
    ASSUME NEW f, ForkOK(f), NEW n
    PROVE  ForkOK(fork_db!set_max_size(f, n))
  BY ForkErase DEF fork_db!set_max_size, fork_db!EraseBelow

LEMMA ForkPush ==
    ASSUME NEW f, ForkOK(f), NEW b \in Blocks, NEW n
    PROVE  /\ ForkOK(fork_db!push_block(f, b, n))
           /\ fork_db!push_block(f, b, n).head \in Blocks
  <1> DEFINE linked == f.head # NoBlock /\ Parent[b] \in f.index
             g == IF b \in f.index THEN f
                  ELSE [f EXCEPT !.index = @ \cup {b},
                                 !.links = IF linked THEN @ \cup {b} ELSE @]
             h1 == [g EXCEPT !.head = b, !.head_linked = FALSE]
             h2 == [g EXCEPT !.head = b, !.head_linked = linked]
             r == fork_db!push_block(f, b, n)
  <1>1. linked \in BOOLEAN /\ (linked => Parent[b] \in Blocks)
    BY DEF ForkOK, fork_db!ForkDb
  <1>2. ForkOK(g) /\ g.head = f.head
    BY <1>1 DEF ForkOK, fork_db!ForkDb
  <1>3. \/ r = h1
        \/ f.head # NoBlock /\ r = fork_db!EraseBelow(h2, Num[b] - n)
        \/ f.head # NoBlock /\ r = g
    BY DEF fork_db!push_block
  <1> HIDE DEF g, linked, r
  <1>4. ForkOK(h1) /\ ForkOK(h2) /\ h1.head = b /\ h2.head = b
    BY <1>1, <1>2 DEF ForkOK, fork_db!ForkDb
  <1>5. f.head # NoBlock => f.head \in Blocks
    BY DEF ForkOK, fork_db!ForkDb
  <1> HIDE DEF h1, h2
  <1>6. \A x : ForkOK(h2) => fork_db!EraseBelow(h2, x).head = h2.head
    BY DEF fork_db!EraseBelow, fork_db!Erase, ForkOK, fork_db!ForkDb
  <1>7. \A x : ForkOK(fork_db!EraseBelow(h2, x))
    BY <1>4, ForkErase DEF fork_db!EraseBelow
  <1> QED
    BY <1>2, <1>3, <1>4, <1>5, <1>6, <1>7 DEF r

-----------------------------------------------------------------------------
(* The branches of a fork switch *)

\* The blocks of s follow each other, and the first one follows base.
Above(s, base) ==
    /\ s # << >> /\ Parent[s[1]] = base
    /\ \A i \in 2 .. Len(s) : Parent[s[i]] = s[i - 1]

LEMMA MeetFacts ==
    ASSUME NEW a \in Blocks, NEW b \in Blocks
    PROVE  /\ fork_db!Meet(a, b) \in 1 .. Num[a] /\ fork_db!Meet(a, b) = fork_db!Meet(b, a)
           /\ Parent[fork_db!Path[a][fork_db!Meet(a, b)]]
                = Parent[fork_db!Path[b][fork_db!Meet(a, b)]]
  <1> DEFINE P == fork_db!Path
             M == {Num[a], Num[b]}
             S == {n \in 1 .. Min(M) : Parent[P[a][n]] = Parent[P[b][n]]}
             T == {n \in 1 .. Min(M) : Parent[P[b][n]] = Parent[P[a][n]]}
  <1>1. Num[a] \in 1 .. MaxNum /\ Num[b] \in 1 .. MaxNum /\ MaxNum \in Nat
    BY PathBlocks, SizesAssumption DEF Chain
  <1>2. 1 \in 1 .. Num[a] /\ 1 \in 1 .. Num[b]
    BY <1>1
  <1>3. Parent[P[a][1]] = Genesis /\ Parent[P[b][1]] = Genesis
    BY <1>2, PathBlocks DEF Chain
  <1> HIDE DEF P
  <1>4. Min(M) \in {Num[a], Num[b]} /\ Min(M) <= Num[a] /\ Min(M) \in Nat
    <2>1. M \subseteq Nat /\ M # {}
      BY <1>1
    <2>2. \E x \in M : \A y \in M : x <= y
      BY <1>1
    <2> QED
      BY <1>1, <2>1, <2>2 DEF Min
  <1>5. S \subseteq 0 .. MaxNum /\ 1 \in S
    BY <1>1, <1>3, <1>4
  <1>6. Max(S) \in S
    BY <1>1, <1>5, MaxNat
  <1>7. S = T
    OBVIOUS
  <1>9. fork_db!Meet(a, b) = Max(S)
    BY DEF fork_db!Meet, fork_db!Max, fork_db!Min, Max, Min, P
  <1>10. fork_db!Meet(b, a) = Max(T)
    <2> DEFINE N == {Num[b], Num[a]}
               U == {n \in 1 .. Min(N) : Parent[P[b][n]] = Parent[P[a][n]]}
    <2>1. fork_db!Meet(b, a) = Max(U)
      BY DEF fork_db!Meet, fork_db!Max, fork_db!Min, Max, Min, P
    <2>2. N = M
      OBVIOUS
    <2> HIDE DEF M, N
    <2>3. U = T
      BY <2>2
    <2> QED
      BY <2>1, <2>3
  <1>11. Max(S) \in 1 .. Num[a] /\ Parent[P[a][Max(S)]] = Parent[P[b][Max(S)]]
    <2> DEFINE k == Max(S)
    <2>1. k \in S
      BY <1>6
    <2> HIDE DEF k
    <2>2. k \in 1 .. Num[a] /\ Parent[P[a][k]] = Parent[P[b][k]]
      BY <1>1, <1>4, <2>1
    <2> QED
      BY <2>2 DEF k
  <1> HIDE DEF S, T
  <1> QED
    BY <1>7, <1>9, <1>10, <1>11 DEF P

\* The branches of fetch_branch_from(a, b) part at one block and lead to a and b.
LEMMA BranchFacts ==
    ASSUME NEW a \in Blocks, NEW b \in Blocks
    PROVE  /\ fork_db!Branch(a, b) \in Seq(Blocks)
           /\ Above(fork_db!Branch(a, b), Parent[fork_db!Path[a][fork_db!Meet(a, b)]])
           /\ Last(fork_db!Branch(a, b)) = a
  <1> DEFINE p == fork_db!Path[a]
             m == fork_db!Meet(a, b)
             n == Num[a]
             s == SubSeq(p, m, n)
  <1>1. /\ p \in Seq(Blocks) /\ Len(p) = n /\ n \in 1 .. MaxNum
        /\ \A i \in 1 .. n : /\ p[i] \in Blocks
                             /\ Parent[p[i]] = IF i = 1 THEN Genesis ELSE p[i - 1]
        /\ p[n] = a
    BY PathBlocks DEF Chain
  <1>2. m \in 1 .. n
    BY MeetFacts
  <1>3. fork_db!Branch(a, b) = s
    BY DEF fork_db!Branch
  <1> HIDE DEF p, m, n
  <1>4. n \in Nat /\ m \in Nat /\ n - m + 1 \in Nat /\ m >= 1 /\ m <= n
    BY <1>1, <1>2
  <1>5. /\ s \in Seq(Blocks) /\ Len(s) = n - m + 1
        /\ \A i \in 1 .. n - m + 1 : s[i] = p[m + i - 1]
    BY <1>1, <1>4, SubSeqProperties
  <1> HIDE DEF s
  <1>6. s[1] = p[m] /\ s # << >> /\ Last(s) = a
    <2>1. 1 \in 1 .. n - m + 1 /\ n - m + 1 \in 1 .. n - m + 1
      BY <1>4
    <2>2. m + 1 - 1 = m /\ m + (n - m + 1) - 1 = n
      BY <1>4
    <2>3. s[1] = p[m] /\ s[n - m + 1] = p[n]
      BY <1>5, <2>1, <2>2
    <2> QED
      BY <1>1, <1>4, <1>5, <2>3 DEF Last
  <1>7. ASSUME NEW i \in 2 .. Len(s)
        PROVE  Parent[s[i]] = s[i - 1]
    <2>1. i \in 1 .. n - m + 1 /\ i - 1 \in 1 .. n - m + 1
      BY <1>4, <1>5
    <2>2. m + i - 1 \in 1 .. n /\ m + i - 1 # 1 /\ (m + i - 1) - 1 = m + (i - 1) - 1
      BY <1>4, <2>1, <1>7, <1>5
    <2>3. s[i] = p[m + i - 1] /\ s[i - 1] = p[m + (i - 1) - 1]
      BY <1>5, <2>1
    <2> QED
      BY <1>1, <2>2, <2>3
  <1> QED
    BY <1>3, <1>5, <1>6, <1>7 DEF Above, p, m

\* Where a block of a branch is, going by its number.
LEMMA AboveNums ==
    ASSUME NEW s \in Seq(Blocks), NEW base \in Chain, Above(s, base)
    PROVE  \A i \in 1 .. Len(s) : s[i] \in Blocks /\ Num[s[i]] = Num[base] + i
  <1> DEFINE n == Len(s)
             S == {0} \cup {i \in 1 .. n : Num[s[i]] = Num[base] + i}
  <1>1. n \in Nat /\ \A i \in 1 .. n : s[i] \in Blocks
    BY LenProperties, ElementOfSeq
  <1>2. /\ \A b \in Blocks : Num[b] = Num[Parent[b]] + 1 /\ Num[b] \in Nat
        /\ Num[base] \in Nat
    BY BlocksAssumption DEF Chain
  <1>3. ASSUME NEW i \in 1 .. n, i - 1 \in S
        PROVE  i \in S
    <2>1. CASE i = 1
      BY <1>1, <1>2, <2>1 DEF Above
    <2>2. CASE i # 1
      <3>1. i \in 2 .. n /\ i - 1 \in 1 .. n /\ i - 1 # 0
        BY <1>1, <2>2
      <3>2. Parent[s[i]] = s[i - 1] /\ Num[s[i - 1]] = Num[base] + (i - 1)
        BY <1>3, <3>1 DEF Above
      <3>3. Num[s[i]] = Num[base] + i
        <4>1. Num[s[i]] = Num[s[i - 1]] + 1
          BY <1>1, <1>2, <3>2
        <4>2. Num[base] \in Nat /\ i \in Int
          BY <1>2
        <4>3. Num[s[i]] = (Num[base] + (i - 1)) + 1
          BY <3>2, <4>1
        <4> QED
          BY <4>2, <4>3
      <3> QED
        BY <3>3
    <2> QED
      BY <2>1, <2>2
  <1> HIDE DEF S
  <1>4. \A i \in 0 .. n : i \in S
    <2>1. 0 \in S
      BY DEF S
    <2> QED
      BY <1>1, <1>3, <2>1, Fold!UpTo
  <1>5. \A i \in 1 .. n : i \in S
    BY <1>1, <1>4
  <1> QED
    BY <1>1, <1>5 DEF S

-----------------------------------------------------------------------------
(* The invariant *)

Unflushed == [num : 0 .. MaxNum, entry : block_db!Entry, data : Blocks \cup {NoBlock}]

\* The databases.
DbOK ==
    /\ head \in Chain /\ final \in Chain \cup {NoBlock}
    /\ max_size \in Nat /\ max_size >= 2
    /\ ForkOK(fork) /\ file \in block_db!IndexFile /\ unflushed \in Unflushed
    /\ flushed \in Chain \cup {NoBlock} /\ restarts \in 0 .. MaxRestarts

\* The call in progress, and the transactions that it holds.
WorkOK ==
    /\ undo_size \in Nat /\ job \in Job
    /\ pending \in Seq(Txs) /\ unapplied \in 0 .. Len(pending)
    /\ popped \in Seq(Txs) /\ stash \in Seq(Txs)

Switching == {"pop", "apply", "unwind", "restore"}

\* The head is where the branches part, or one of the first n blocks of s.
On(s, n) == head = Base \/ \E i \in 1 .. n : head = s[i]

\* During a fork switch the head is on one of its two branches, at whose ends
\* the switch is over.
SwitchOnBranches ==
    job.stage \in Switching =>
        /\ job.new \in Blocks /\ Base \in Chain
        /\ Above(job.first, Base) /\ Above(job.second, Base)
        /\ job.stage = "pop" => On(job.second, Len(job.second))
        /\ job.stage \in {"apply", "unwind"} => On(job.first, Len(job.first) - 1)
        /\ job.stage = "restore" => On(job.second, Len(job.second) - 1)

\* Transactions are pending between two calls, and set aside during one.
TxsInPlace ==
    /\ job.stage = "idle" => job = Idle /\ popped = << >> /\ stash = << >>
    /\ job.stage = "down" => popped = << >> /\ stash = << >>
    /\ job.stage \in Switching \cup {"down"} => pending = << >>

IInv ==
    DbOK /\ WorkOK /\ SwitchOnBranches /\ TxsInPlace /\ PendingApplies

\* The step that NoTxDropped allows.
Keeps ==
    job'.stage \notin {"close", "down"} /\ job.stage \notin {"close", "down"}
        => \A tx \in Held : tx \in Held' \/ ~Applies(tx, Held')

LEMMA NoJob ==
    /\ Idle \in Job /\ Idle.stage = "idle"
    /\ Down \in Job /\ Down.stage = "down"
  <1>1. << >> \in Seq(Blocks) /\ 0 \in 0 .. MaxNum
    BY SizesAssumption
  <1> QED
    BY <1>1 DEF Job, Idle, Down

\* The call returns, with b for its head.
LEMMA Returned ==
    ASSUME NEW b \in Chain, NEW n \in Nat, NEW size \in Nat, size >= 2,
           NEW list \in Seq(Txs), ReturnWith(b, n, size, list), head' = b, DbOK',
           \A tx \in Held : tx \in TxsOn(b) \cup Range(list)
    PROVE  IInv' /\ Keeps
  <1>1. /\ pending' = Repushed(b, list) /\ popped' = << >> /\ stash' = << >> /\ job' = Idle
        /\ undo_size' \in Nat /\ unapplied' = 0
    BY TrimmedNat DEF ReturnWith
  <1>2. /\ pending' \in Seq(Txs) /\ Applying(b, pending', 0)
        /\ \A tx \in Range(list) : \/ tx \in Range(pending')
                                   \/ ~Applies(tx, TxsOn(b) \cup Range(pending'))
    BY <1>1, RepushedFacts
  <1>3. WorkOK'
    <2>1. << >> \in Seq(Txs) /\ unapplied' \in 0 .. Len(pending')
      BY <1>1, <1>2, LenProperties
    <2> QED
      BY <1>1, <1>2, <2>1, NoJob DEF WorkOK
  <1>4. job'.stage = "idle"
    BY <1>1, NoJob
  <1>5. SwitchOnBranches' /\ TxsInPlace'
    BY <1>1, <1>4 DEF SwitchOnBranches, TxsInPlace, Switching
  <1>6. PendingApplies'
    BY <1>1, <1>2 DEF PendingApplies, Applying
  <1>7. Range(popped') = {} /\ Range(stash') = {}
    BY <1>1 DEF Range
  <1>8. Held' = TxsOn(b) \cup Range(pending')
    BY <1>7 DEF Held
  <1>9. Keeps
    BY <1>2, <1>8 DEF Keeps
  <1> QED
    BY <1>3, <1>5, <1>6, <1>9 DEF IInv

-----------------------------------------------------------------------------
(* What the parts of the actions leave *)

LEMMA FinalisedInChain ==
    ASSUME NEW b \in Blocks
    PROVE  Finalised(b) \in Chain
  <1>1. Lib[b] \in 0 .. Num[b] /\ b \in Chain /\ Num[b] \in Nat
    BY LibAssumption, BlocksAssumption DEF Chain
  <1>2. Lib[b] # 0 => fork_db!Path[b][Lib[b]] \in Blocks
    BY <1>1, PathBlocks
  <1> QED
    BY <1>2 DEF Finalised, Chain

LEMMA SizeAfterNat ==
    ASSUME NEW b \in Blocks
    PROVE  SizeAfter(b) \in Nat /\ SizeAfter(b) >= 2
  <1>1. /\ Parent[b] \in Chain /\ Num[b] = Num[Parent[b]] + 1 /\ Num[Parent[b]] \in Nat
        /\ Lib[Parent[b]] \in Nat
    BY LibAssumption, BlocksAssumption DEF Chain
  <1>2. Lib[Parent[b]] <= Num[Parent[b]]
    BY <1>1, LibAssumption, BlocksAssumption DEF Chain
  <1> QED
    BY <1>1, <1>2 DEF SizeAfter

LEMMA ApplyFacts ==
    ASSUME DbOK, NEW b \in Blocks, NEW f, ForkOK(f), ApplyBlock(b, f)
    PROVE  /\ head' = b /\ b \in Chain
           /\ max_size' = SizeAfter(b) /\ max_size' \in Nat /\ max_size' >= 2
           /\ ForkOK(fork')
  BY SizeAfterNat, ForkSized DEF ApplyBlock, Chain

LEMMA StoreFacts ==
    ASSUME DbOK, NEW id \in Blocks, NEW b \in Blocks, StoreBlock(id, b)
    PROVE  /\ file' \in block_db!IndexFile /\ unflushed' \in Unflushed
           /\ final' \in Chain \cup {NoBlock}
  <1>1. Num[id] \in 1 .. MaxNum
    BY PathBlocks DEF Chain
  <1>2. file[Num[id]] \in block_db!Entry
    BY <1>1 DEF DbOK, block_db!IndexFile
  <1>3. final' \in Chain \cup {NoBlock}
    BY FinalisedInChain DEF StoreBlock, FinalAfter, DbOK
  <1> QED
    BY <1>1, <1>2, <1>3
       DEF StoreBlock, block_db!store, DbOK, block_db!IndexFile, block_db!Entry, Unflushed

LEMMA RemovedFile ==
    ASSUME DbOK, NEW id \in Blocks
    PROVE  block_db!remove(file, id) \in block_db!IndexFile
  <1>1. Num[id] \in 1 .. MaxNum
    BY PathBlocks DEF Chain
  <1>2. file \in block_db!IndexFile /\ file[Num[id]] \in block_db!Entry
    BY <1>1 DEF DbOK, block_db!IndexFile
  <1>3. [file[Num[id]] EXCEPT !.data = NoBlock] \in block_db!Entry
    BY <1>2 DEF block_db!Entry
  <1> QED
    BY <1>1, <1>2, <1>3 DEF block_db!remove, block_db!IndexFile

LEMMA RemoveFacts ==
    ASSUME DbOK, NEW id \in Blocks, RemoveBlock(id)
    PROVE  file' \in block_db!IndexFile /\ unflushed' \in Unflushed
  <1>1. file' \in block_db!IndexFile
    BY RemovedFile DEF RemoveBlock
  <1>2. Num[id] \in 0 .. MaxNum /\ file[Num[id]] \in block_db!Entry
    <2>1. Num[id] \in 1 .. MaxNum
      BY PathBlocks DEF Chain
    <2> QED
      BY <2>1, SizesAssumption DEF DbOK, block_db!IndexFile
  <1> QED
    BY <1>1, <1>2 DEF RemoveBlock, DbOK, Unflushed

LEMMA UndoAfterNat ==
    ASSUME DbOK, WorkOK, NEW b
    PROVE  UndoAfterApply(b) \in Nat
  <1> DEFINE S == {undo_size, max_size} \cup {max_size - 1 : tx \in Range(TxsOf[b]) \cap ProposalTxs}
  <1>1. S \subseteq Nat /\ S # {}
    BY DEF DbOK, WorkOK
  <1> HIDE DEF S
  <1>2. Min(S) \in Nat
    BY <1>1, MinNat
  <1> QED
    BY <1>2 DEF UndoAfterApply, S

LEMMA TrimNat ==
    ASSUME DbOK, WorkOK
    PROVE  Min({undo_size, max_size}) \in Nat
  BY MinNat DEF DbOK, WorkOK

-----------------------------------------------------------------------------
(* Pushing *)

\* Between two calls.
LEMMA IdleFacts ==
    ASSUME IInv, job = Idle
    PROVE  /\ head \in Chain /\ ForkOK(fork) /\ max_size \in Nat /\ max_size >= 2
           /\ undo_size \in Nat /\ pending \in Seq(Txs) /\ unapplied \in 0 .. Len(pending)
           /\ popped = << >> /\ stash = << >>
           /\ Held = TxsOn(head) \cup Range(pending)
  <1>1. popped = << >> /\ stash = << >>
    BY NoJob DEF IInv, TxsInPlace
  <1>2. Range(popped) = {} /\ Range(stash) = {}
    BY <1>1 DEF Range
  <1> QED
    BY <1>1, <1>2 DEF IInv, DbOK, WorkOK, Held

LEMMA push_transaction_step ==
    ASSUME IInv, NEW tx \in Txs, push_transaction(tx)
    PROVE  IInv' /\ Keeps
  <1>1. /\ job = Idle /\ job' = job /\ head' = head /\ popped' = popped /\ stash' = stash
        /\ unapplied' = unapplied
        /\ pending' = (IF Applies(tx, TxsOn(head) \cup InSession)
                       THEN Append(pending, tx) ELSE pending)
        /\ undo_size' = TrimmedFor(undo_size, max_size, {tx})
    BY DEF push_transaction
  <1>2. /\ undo_size \in Nat /\ max_size \in Nat /\ max_size >= 2 /\ pending \in Seq(Txs)
        /\ unapplied \in 0 .. Len(pending) /\ popped = << >> /\ stash = << >>
        /\ Held = TxsOn(head) \cup Range(pending)
    BY <1>1, IdleFacts
  <1>3. DbOK'
    BY DEF push_transaction, IInv, DbOK
  <1>4. undo_size' \in Nat
    BY <1>1, <1>2, TrimmedNat
  <1>5. Applying(head, pending, unapplied)
    BY <1>1 DEF IInv, PendingApplies, Applying
  <1>6. /\ pending' \in Seq(Txs) /\ Applying(head, pending', unapplied)
        /\ unapplied \in 0 .. Len(pending')
        /\ Range(pending) \subseteq Range(pending')
    <2>1. CASE Applies(tx, TxsOn(head) \cup InSession)
      <3>1. pending' = Append(pending, tx)
        BY <1>1, <2>1
      <3>2. /\ Append(pending, tx) \in Seq(Txs) /\ Applying(head, Append(pending, tx), unapplied)
            /\ Range(Append(pending, tx)) = Range(pending) \cup {tx}
            /\ unapplied \in 0 .. Len(Append(pending, tx))
        BY <1>2, <1>5, <2>1, ApplyingAppend DEF InSession, After
      <3> QED
        BY <3>1, <3>2
    <2>2. CASE ~Applies(tx, TxsOn(head) \cup InSession)
      BY <1>1, <1>2, <1>5, <2>2
    <2> QED
      BY <2>1, <2>2
  <1>7. WorkOK'
    BY <1>1, <1>4, <1>6 DEF WorkOK, IInv
  <1>8. SwitchOnBranches' /\ TxsInPlace'
    BY <1>1, <1>2, NoJob DEF SwitchOnBranches, TxsInPlace, Switching
  <1>9. PendingApplies'
    BY <1>1, <1>6 DEF PendingApplies, Applying
  <1>10. Keeps
    BY <1>1, <1>2, <1>6 DEF Keeps, Held
  <1> QED
    BY <1>3, <1>7, <1>8, <1>9, <1>10 DEF IInv

\* The pushes that leave the head where it is.
LEMMA StayingStep ==
    ASSUME IInv, job = Idle, NEW n \in Nat,
           ReturnWith(head, n, max_size, pending), KeepFile, ForkOK(fork'),
           UNCHANGED <<head, max_size, flushed, restarts, final>>
    PROVE  IInv' /\ Keeps
  <1>1. /\ head \in Chain /\ max_size \in Nat /\ max_size >= 2 /\ pending \in Seq(Txs)
        /\ Held = TxsOn(head) \cup Range(pending)
    BY IdleFacts
  <1>2. DbOK'
    BY DEF KeepFile, IInv, DbOK
  <1> QED
    BY <1>1, <1>2, Returned DEF ReturnWith

LEMMA push_block_step ==
    ASSUME IInv, NEW b \in Blocks, push_block(b)
    PROVE  IInv' /\ Keeps
  <1> DEFINE f == fork_db!push_block(fork, b, max_size)
  <1>1. /\ job = Idle
        /\ \/ push_rejected(b) \/ push_cached(b) \/ push_applied(b)
           \/ push_failed(b) \/ push_switch(b) \/ push_unfetchable(b)
    BY DEF push_block, push_rejected, push_cached, push_applied, push_failed, push_switch,
           push_unfetchable, Pushed
  <1>2. /\ head \in Chain /\ ForkOK(fork) /\ max_size \in Nat /\ max_size >= 2
        /\ undo_size \in Nat /\ pending \in Seq(Txs) /\ popped = << >> /\ stash = << >>
        /\ Held = TxsOn(head) \cup Range(pending) /\ DbOK /\ WorkOK
    BY <1>1, IdleFacts DEF IInv
  <1>3. ForkOK(f) /\ f.head \in Blocks
    BY <1>2, ForkPush
  <1> HIDE DEF f
  <1>4. CASE push_rejected(b)
    BY <1>1, <1>2, <1>4, StayingStep DEF push_rejected, ReturnWith, KeepFile
  <1>5. CASE push_cached(b) \/ push_unfetchable(b)
    BY <1>1, <1>2, <1>3, <1>5, StayingStep DEF push_cached, push_unfetchable, f, ReturnWith, KeepFile
  <1>6. CASE push_failed(b)
    <2>1. ForkOK(fork_db!remove(f, b)) /\ Min({undo_size, max_size}) \in Nat
      BY <1>2, <1>3, ForkErase, TrimNat DEF fork_db!remove
    <2> QED
      BY <1>1, <1>6, <2>1, StayingStep DEF push_failed, f, ReturnWith, KeepFile
  <1>7. CASE push_applied(b)
    <2>1. /\ Parent[b] = head /\ ApplyBlock(b, f) /\ StoreBlock(b, b)
          /\ ReturnWith(b, UndoAfterApply(b), SizeAfter(b), pending)
          /\ flushed' = flushed /\ restarts' = restarts
      BY <1>7 DEF push_applied, CanApply, f
    <2>2. /\ head' = b /\ b \in Chain
          /\ max_size' = SizeAfter(b) /\ max_size' \in Nat /\ max_size' >= 2
          /\ ForkOK(fork')
      BY <1>2, <1>3, <2>1, ApplyFacts DEF ApplyBlock
    <2>3. /\ file' \in block_db!IndexFile /\ unflushed' \in Unflushed
          /\ final' \in Chain \cup {NoBlock}
      BY <1>2, <2>1, StoreFacts
    <2>4. DbOK'
      BY <1>2, <2>1, <2>2, <2>3 DEF DbOK
    <2>5. UndoAfterApply(b) \in Nat
      BY <1>2, UndoAfterNat
    <2>6. \A tx \in Held : tx \in TxsOn(b) \cup Range(pending)
      BY <1>2, <2>1, TxsOnBlock
    <2> QED
      BY <1>2, <2>1, <2>2, <2>4, <2>5, <2>6, Returned DEF ReturnWith
  <1>8. CASE push_switch(b)
    <2> DEFINE first == fork_db!Branch(f.head, head)
               second == fork_db!Branch(head, f.head)
               base == Parent[fork_db!Path[head][fork_db!Meet(head, f.head)]]
    <2>1. /\ ~fork_db!FetchThrows(f, f.head, head) /\ fork' = f
          /\ job' = [Idle EXCEPT !.stage = "pop", !.new = b, !.first = first, !.second = second]
          /\ stash' = pending /\ pending' = << >> /\ unapplied' = 0
          /\ UNCHANGED <<head, undo_size, max_size, file, unflushed, popped,
                         flushed, restarts, final>>
      BY <1>8 DEF push_switch, f
    <2>2. head \in Blocks
      BY <1>3, <2>1 DEF fork_db!FetchThrows, ForkOK, fork_db!ForkDb
    <2>3. /\ first \in Seq(Blocks) /\ second \in Seq(Blocks)
          /\ Above(first, base) /\ Above(second, base) /\ Last(second) = head
      <3> DEFINE c == f.head
      <3>1. c \in Blocks /\ head \in Blocks
        BY <1>3, <2>2
      <3> HIDE DEF c
      <3>2. /\ fork_db!Branch(head, c) \in Seq(Blocks) /\ Last(fork_db!Branch(head, c)) = head
            /\ Above(fork_db!Branch(head, c), Parent[fork_db!Path[head][fork_db!Meet(head, c)]])
        BY <3>1, BranchFacts
      <3>3. /\ fork_db!Branch(c, head) \in Seq(Blocks)
            /\ Above(fork_db!Branch(c, head), Parent[fork_db!Path[c][fork_db!Meet(c, head)]])
        BY <3>1, BranchFacts
      <3>4. Parent[fork_db!Path[c][fork_db!Meet(c, head)]]
                = Parent[fork_db!Path[head][fork_db!Meet(head, c)]]
        <4>1. fork_db!Meet(c, head) = fork_db!Meet(head, c)
          BY <3>1, MeetFacts
        <4>2. Parent[fork_db!Path[c][fork_db!Meet(c, head)]]
                = Parent[fork_db!Path[head][fork_db!Meet(c, head)]]
          BY <3>1, MeetFacts
        <4> QED
          BY <4>1, <4>2
      <3> QED
        BY <3>2, <3>3, <3>4 DEF c
    <2>4. Parent[second[1]] = base /\ second[1] \in Blocks /\ base \in Chain
          /\ second[Len(second)] = head /\ Len(second) \in 1 .. Len(second)
      <3>1. second # << >> /\ Len(second) \in Nat
        BY <2>3, LenProperties DEF Above
      <3>2. Len(second) # 0
        BY <2>3, <3>1, EmptySeq
      <3>3. second[1] \in Blocks
        BY <2>3, <3>1, <3>2, ElementOfSeq
      <3> QED
        BY <2>3, <3>1, <3>2, <3>3, BlocksAssumption DEF Above, Last, Chain
    <2> HIDE DEF first, second, base
    <2>5. /\ job' \in Job /\ job'.stage = "pop" /\ job'.new = b
          /\ job'.first = first /\ job'.second = second
      BY <2>1, <2>3, NoJob DEF Job, Idle
    <2>6. DbOK'
      BY <1>2, <1>3, <2>1 DEF DbOK
    <2>7. WorkOK' /\ TxsInPlace' /\ PendingApplies'
      <3>1. << >> \in Seq(Txs) /\ Len(<< >>) = 0 /\ 0 \in 0 .. 0 /\ job' # Idle
        BY <2>5, NoJob
      <3> QED
        BY <1>2, <2>1, <2>5, <3>1 DEF WorkOK, TxsInPlace, PendingApplies
    <2>8. SwitchOnBranches'
      <3>1. Base' = base
        BY <2>4, <2>5 DEF Base
      <3> QED
        BY <2>1, <2>3, <2>4, <2>5, <3>1 DEF SwitchOnBranches, On
    <2>9. Keeps
      BY <1>2, <2>1 DEF Keeps, Held
    <2> QED
      BY <2>6, <2>7, <2>8, <2>9 DEF IInv
  <1> QED
    BY <1>1, <1>4, <1>5, <1>6, <1>7, <1>8

\* generate_block pushes the block that it has built.
LEMMA generate_block_step ==
    ASSUME IInv, NEW b \in Blocks, generate_block(b)
    PROVE  IInv' /\ Keeps
  BY push_block_step DEF generate_block

\* The pending transactions stay, but none of them is applied.
LEMMA generate_block_throws_step ==
    ASSUME IInv, generate_block_throws
    PROVE  IInv' /\ Keeps
  <1>1. /\ job = Idle /\ unapplied' = Len(pending)
        /\ undo_size' = TrimmedFor(undo_size, max_size, Range(pending))
        /\ UNCHANGED <<head, max_size, fork, file, unflushed, pending, popped, stash,
                       job, flushed, restarts, final>>
    BY DEF generate_block_throws
  <1>2. /\ DbOK /\ WorkOK /\ max_size \in Nat /\ max_size >= 2 /\ undo_size \in Nat
        /\ pending \in Seq(Txs) /\ popped = << >> /\ stash = << >>
    BY <1>1, IdleFacts DEF IInv
  <1>3. DbOK'
    BY <1>1, <1>2 DEF DbOK
  <1>4. undo_size' \in Nat /\ unapplied' \in 0 .. Len(pending) /\ Len(pending) \in Nat
    BY <1>1, <1>2, TrimmedNat, LenProperties
  <1>5. WorkOK'
    BY <1>1, <1>2, <1>4 DEF WorkOK
  <1>6. SwitchOnBranches' /\ TxsInPlace'
    BY <1>1, <1>2, NoJob DEF SwitchOnBranches, TxsInPlace, Switching
  <1>7. PendingApplies'
    <2>1. \A i \in unapplied' + 1 .. Len(pending') : FALSE
      BY <1>1, <1>4
    <2> QED
      BY <2>1 DEF PendingApplies
  <1>8. Keeps
    BY <1>1 DEF Keeps, Held
  <1> QED
    BY <1>3, <1>5, <1>6, <1>7, <1>8 DEF IInv

-----------------------------------------------------------------------------
(* Fork switches *)

LEMMA RangeConcat ==
    ASSUME NEW S, NEW s \in Seq(S), NEW t \in Seq(S)
    PROVE  s \o t \in Seq(S) /\ Range(s \o t) = Range(s) \cup Range(t)
  <1> DEFINE u == s \o t
             m == Len(s)
             n == Len(t)
  <1>1. /\ m \in Nat /\ n \in Nat /\ DOMAIN s = 1 .. m /\ DOMAIN t = 1 .. n
        /\ u \in Seq(S) /\ Len(u) = m + n /\ DOMAIN u = 1 .. m + n
        /\ \A i \in 1 .. m + n : u[i] = IF i <= m THEN s[i] ELSE t[i - m]
    BY ConcatProperties, LenProperties
  <1> HIDE DEF u, m, n
  <1>2. \A x \in Range(u) : x \in Range(s) \cup Range(t)
    <2> SUFFICES ASSUME NEW i \in 1 .. m + n
                 PROVE  u[i] \in Range(s) \cup Range(t)
      BY <1>1 DEF Range
    <2>1. i <= m => i \in 1 .. m
      BY <1>1
    <2>2. ~(i <= m) => i - m \in 1 .. n
      BY <1>1
    <2> QED
      BY <1>1, <2>1, <2>2 DEF Range
  <1>3. \A x \in Range(s) : x \in Range(u)
    <2> SUFFICES ASSUME NEW i \in 1 .. m
                 PROVE  s[i] \in Range(u)
      BY <1>1 DEF Range
    <2>1. i \in 1 .. m + n /\ i <= m
      BY <1>1
    <2> QED
      BY <1>1, <2>1 DEF Range
  <1>4. \A x \in Range(t) : x \in Range(u)
    <2> SUFFICES ASSUME NEW i \in 1 .. n
                 PROVE  t[i] \in Range(u)
      BY <1>1 DEF Range
    <2>1. m + i \in 1 .. m + n /\ ~(m + i <= m) /\ (m + i) - m = i
      BY <1>1
    <2> QED
      BY <1>1, <2>1 DEF Range
  <1> QED
    BY <1>1, <1>2, <1>3, <1>4 DEF u

\* During a fork switch.
LEMMA SwitchFacts ==
    ASSUME IInv, job.stage \in Switching
    PROVE  /\ DbOK /\ WorkOK /\ job \in Job /\ pending = << >>
           /\ job.first \in Seq(Blocks) /\ job.second \in Seq(Blocks)
           /\ Base \in Chain /\ head \in Chain /\ job.new \in Blocks
           /\ popped \o stash \in Seq(Txs)
           /\ Held = TxsOn(head) \cup Range(popped \o stash)
  <1>1. pending = << >> /\ DbOK /\ WorkOK
    BY DEF IInv, TxsInPlace
  <1>2. Range(pending) = {}
    BY <1>1 DEF Range
  <1>3. popped \o stash \in Seq(Txs) /\ Range(popped \o stash) = Range(popped) \cup Range(stash)
    BY <1>1, RangeConcat DEF WorkOK
  <1> QED
    BY <1>1, <1>2, <1>3 DEF IInv, SwitchOnBranches, DbOK, WorkOK, Job, Held

\* Where a pop leads.
LEMMA PoppedOn ==
    ASSUME NEW s \in Seq(Blocks), NEW n \in Int, n <= Len(s), Above(s, Base), head # Base, On(s, n)
    PROVE  Parent[head] = Base \/ \E i \in 1 .. n : Parent[head] = s[i]
  <1>1. PICK i \in 1 .. n : head = s[i]
    BY DEF On
  <1>2. CASE i = 1
    BY <1>1, <1>2 DEF Above
  <1>3. CASE i # 1
    <2>1. Len(s) \in Nat
      BY LenProperties
    <2>2. i \in 2 .. Len(s) /\ i - 1 \in 1 .. n
      BY <1>3, <2>1
    <2>3. Parent[head] = s[i - 1]
      BY <1>1, <2>2 DEF Above
    <2> QED
      BY <2>2, <2>3
  <1> QED
    BY <1>2, <1>3

LEMMA switch_pop_step ==
    ASSUME IInv, switch_pop
    PROVE  IInv' /\ Keeps
  <1>1. /\ job.stage \in {"pop", "unwind"} /\ head # Base /\ ~PopThrowsEarly /\ undo_size > 0
        /\ head' = Parent[head] /\ undo_size' = undo_size - 1 /\ RemoveBlock(head)
        /\ popped' = TxsOf[head] \o popped /\ fork' = fork_db!pop_block(fork)
        /\ UNCHANGED <<max_size, pending, unapplied, stash, job, flushed, restarts, final>>
    BY DEF switch_pop, PopBlock
  <1>2. /\ DbOK /\ WorkOK /\ job \in Job /\ pending = << >> /\ head \in Chain
        /\ job.first \in Seq(Blocks) /\ job.second \in Seq(Blocks) /\ Base \in Chain
    BY <1>1, SwitchFacts DEF Switching
  <1>3. /\ head \in Blocks /\ Parent[head] \in Chain /\ ForkOK(fork) /\ ~fork_db!PopThrows(fork)
        /\ TxsOf[head] \in Seq(Txs)
    BY <1>1, <1>2, BlocksAssumption, TxsAssumption DEF PopThrowsEarly, Chain, DbOK
  <1>4. ForkOK(fork')
    BY <1>1, <1>3, ForkPop
  <1>5. file' \in block_db!IndexFile /\ unflushed' \in Unflushed
    BY <1>1, <1>2, <1>3, RemoveFacts
  <1>6. DbOK'
    BY <1>1, <1>2, <1>3, <1>4, <1>5 DEF DbOK
  <1>7. popped' \in Seq(Txs) /\ Range(popped') = Range(TxsOf[head]) \cup Range(popped)
    BY <1>1, <1>2, <1>3, RangeConcat DEF WorkOK
  <1>8. WorkOK'
    BY <1>1, <1>2, <1>7 DEF WorkOK
  <1>9. TxsInPlace' /\ PendingApplies'
    BY <1>1, <1>2, NoJob DEF TxsInPlace, PendingApplies
  <1>10. SwitchOnBranches'
    <2>1. /\ job' = job /\ Base' = Base
          /\ Above(job.first, Base) /\ Above(job.second, Base) /\ job.new \in Blocks
      BY <1>1 DEF IInv, SwitchOnBranches, Switching, Base
    <2>2. Len(job.first) \in Nat /\ Len(job.second) \in Nat
      BY <1>2, LenProperties
    <2>3. CASE job.stage = "pop"
      <3>1. Parent[head] = Base \/ \E i \in 1 .. Len(job.second) : Parent[head] = job.second[i]
        <4>1. On(job.second, Len(job.second))
          BY <2>3 DEF IInv, SwitchOnBranches, Switching
        <4>2. Len(job.second) \in Int /\ Len(job.second) <= Len(job.second)
          BY <2>2
        <4> QED
          BY <1>1, <1>2, <2>1, <4>1, <4>2, PoppedOn
      <3> QED
        BY <1>1, <1>2, <2>1, <2>3, <3>1 DEF SwitchOnBranches, On
    <2>4. CASE job.stage = "unwind"
      <3>1. Parent[head] = Base \/ \E i \in 1 .. Len(job.first) - 1 : Parent[head] = job.first[i]
        <4>1. On(job.first, Len(job.first) - 1)
          BY <2>4 DEF IInv, SwitchOnBranches, Switching
        <4>2. Len(job.first) - 1 \in Int /\ Len(job.first) - 1 <= Len(job.first)
          BY <2>2
        <4> QED
          BY <1>1, <1>2, <2>1, <4>1, <4>2, PoppedOn
      <3> QED
        BY <1>1, <1>2, <2>1, <2>4, <3>1 DEF SwitchOnBranches, On
    <2> QED
      BY <1>1, <2>3, <2>4
  <1>11. Keeps
    <2>1. TxsOn(head) = TxsOn(head') \cup Range(TxsOf[head])
      BY <1>1, <1>3, TxsOnBlock
    <2> QED
      BY <1>1, <1>7, <2>1 DEF Keeps, Held
  <1> QED
    BY <1>6, <1>8, <1>9, <1>10, <1>11 DEF IInv

LEMMA switch_pop_throws_step ==
    ASSUME IInv, switch_pop_throws
    PROVE  IInv' /\ Keeps
  <1>1. /\ job.stage \in Switching /\ PopFails
        /\ ReturnWith(head, undo_size, max_size, popped \o stash)
        /\ head' = head /\ max_size' = max_size /\ final' \in {final, NoBlock}
        /\ flushed' = flushed /\ restarts' = restarts
    BY DEF switch_pop_throws, Switching, PopFails
  <1>2. /\ DbOK /\ WorkOK /\ head \in Chain /\ popped \o stash \in Seq(Txs)
        /\ Held = TxsOn(head) \cup Range(popped \o stash)
    BY <1>1, SwitchFacts
  <1>3. /\ ForkOK(fork') /\ file' \in block_db!IndexFile /\ unflushed' \in Unflushed
    <2>1. CASE PopThrowsEarly
      BY <1>1, <1>2, <2>1 DEF PopFails, KeepFile, DbOK
    <2>2. CASE ~PopThrowsEarly
      <3>1. head \in Blocks /\ ~fork_db!PopThrows(fork) /\ ForkOK(fork)
        BY <1>2, <2>2 DEF PopThrowsEarly, Chain, DbOK
      <3>2. fork' = fork_db!pop_block(fork) /\ RemoveBlock(head)
        BY <1>1, <2>2 DEF PopFails
      <3> QED
        BY <1>2, <3>1, <3>2, ForkPop, RemoveFacts
    <2> QED
      BY <2>1, <2>2
  <1>4. DbOK'
    BY <1>1, <1>2, <1>3 DEF DbOK
  <1>5. undo_size \in Nat /\ max_size \in Nat /\ max_size >= 2
    BY <1>2 DEF DbOK, WorkOK
  <1> QED
    BY <1>1, <1>2, <1>4, <1>5, Returned DEF ReturnWith

\* The head does not move, and the job goes on in another stage.
LEMMA StageStep ==
    ASSUME IInv, job.stage \in Switching, NEW stage \in Switching,
           job' = [job EXCEPT !.stage = stage],
           stage = "pop" => On(job.second, Len(job.second)),
           stage \in {"apply", "unwind"} => On(job.first, Len(job.first) - 1),
           stage = "restore" => On(job.second, Len(job.second) - 1),
           UNCHANGED <<head, max_size, file, unflushed, pending, unapplied, popped, stash,
                       flushed, restarts, final>>,
           ForkOK(fork'), undo_size' \in Nat
    PROVE  IInv' /\ Keeps
  <1>1. DbOK /\ WorkOK /\ job \in Job /\ pending = << >>
    BY SwitchFacts
  <1>2. /\ job' \in Job /\ job'.stage = stage /\ job'.new = job.new
        /\ job'.first = job.first /\ job'.second = job.second
    BY <1>1 DEF Job, Switching
  <1>3. DbOK' /\ WorkOK'
    BY <1>1, <1>2 DEF DbOK, WorkOK
  <1>4. TxsInPlace' /\ PendingApplies'
    BY <1>1, <1>2, NoJob DEF TxsInPlace, PendingApplies, Switching
  <1>5. Base' = Base
    BY <1>2 DEF Base
  <1>6. SwitchOnBranches'
    BY <1>2, <1>5 DEF IInv, SwitchOnBranches, On
  <1>7. Keeps
    BY DEF Keeps, Held
  <1> QED
    BY <1>3, <1>4, <1>6, <1>7 DEF IInv

LEMMA switch_popped_step ==
    ASSUME IInv, switch_popped
    PROVE  IInv' /\ Keeps
  <1> DEFINE stage == IF job.stage = "pop" THEN "apply" ELSE "restore"
  <1>1. /\ job.stage \in Switching /\ stage \in Switching /\ job' = [job EXCEPT !.stage = stage]
        /\ stage # "pop" /\ head = Base
        /\ UNCHANGED <<head, undo_size, max_size, fork, file, unflushed, pending,
                       unapplied, popped, stash, flushed, restarts, final>>
    BY DEF switch_popped, Switching
  <1>2. On(job.first, Len(job.first) - 1) /\ On(job.second, Len(job.second) - 1)
    BY <1>1 DEF On
  <1>3. undo_size' \in Nat /\ ForkOK(fork')
    BY <1>1 DEF IInv, WorkOK, DbOK
  <1> HIDE DEF stage
  <1> QED
    BY <1>1, <1>2, <1>3, StageStep

LEMMA switch_apply_fails_step ==
    ASSUME IInv, switch_apply_fails
    PROVE  IInv' /\ Keeps
  <1>1. /\ job.stage = "apply" /\ job.stage \in Switching /\ "unwind" \in Switching
        /\ job' = [job EXCEPT !.stage = "unwind"]
        /\ undo_size' = Min({undo_size, max_size})
        /\ fork' = fork_db!set_head(
                       fork_db!Erase(fork, {b \in Range(job.first) : Num[b] > Num[head]}),
                       Last(job.second))
        /\ UNCHANGED <<head, max_size, file, unflushed, pending, unapplied, popped, stash,
                       flushed, restarts, final>>
    BY DEF switch_apply_fails, Switching
  <1>2. DbOK /\ WorkOK /\ job.second \in Seq(Blocks)
    BY <1>1, SwitchFacts
  <1>3. undo_size' \in Nat
    BY <1>1, <1>2, TrimNat
  <1>4. Last(job.second) \in Blocks
    <2>1. job.second # << >>
      BY <1>1 DEF IInv, SwitchOnBranches, Above
    <2>2. Len(job.second) \in 1 .. Len(job.second)
      BY <1>2, <2>1, EmptySeq, LenProperties
    <2> QED
      BY <1>2, <2>2, ElementOfSeq DEF Last
  <1>5. ForkOK(fork')
    BY <1>1, <1>2, <1>4, ForkErase, ForkSetHead DEF DbOK
  <1>6. On(job.first, Len(job.first) - 1)
    BY <1>1 DEF IInv, SwitchOnBranches
  <1> QED
    BY <1>1, <1>3, <1>5, <1>6, StageStep

\* The next block of a branch is on the branch, and it is the last one or
\* leaves some to be applied.
LEMMA NextBlock ==
    ASSUME NEW s \in Seq(Blocks), Base \in Chain, Above(s, Base), On(s, Len(s) - 1)
    PROVE  /\ NextOf(s) \in Blocks
           /\ NextOf(s) # Last(s) => \E i \in 1 .. Len(s) - 1 : NextOf(s) = s[i]
  <1>1. Len(s) \in Nat /\ Len(s) # 0 /\ Num[Base] \in Nat
    BY LenProperties, EmptySeq, BlocksAssumption DEF Above, Chain
  <1>2. PICK i \in 0 .. Len(s) - 1 : Num[head] = Num[Base] + i
    <2>1. CASE head = Base
      <3>1. 0 \in 0 .. Len(s) - 1 /\ Num[Base] = Num[Base] + 0
        BY <1>1
      <3> QED
        BY <2>1, <3>1
    <2>2. CASE head # Base
      <3>1. PICK i \in 1 .. Len(s) - 1 : head = s[i]
        BY <2>2 DEF On
      <3>2. i \in 1 .. Len(s) /\ i \in 0 .. Len(s) - 1
        BY <1>1
      <3> QED
        BY <3>1, <3>2, AboveNums
    <2> QED
      BY <2>1, <2>2
  <1>3. Num[head] - ForkedAt + 1 = i + 1 /\ i + 1 \in 1 .. Len(s)
    BY <1>1, <1>2 DEF ForkedAt
  <1>4. NextOf(s) = s[i + 1]
    BY <1>3 DEF NextOf
  <1>5. s[i + 1] \in Blocks
    BY <1>3, ElementOfSeq
  <1>6. s[i + 1] # Last(s) => i + 1 \in 1 .. Len(s) - 1
    BY <1>1, <1>3 DEF Last
  <1> QED
    BY <1>4, <1>5, <1>6

\* One more block of branch s is applied and stored.
LEMMA SwitchToStep ==
    ASSUME IInv, job.stage \in Switching, NEW s \in Seq(Blocks), NEW id \in Blocks,
           \/ job.stage = "apply" /\ s = job.first
           \/ job.stage = "restore" /\ s = job.second,
           SwitchTo(NextOf(s), id, Last(s))
    PROVE  IInv' /\ Keeps
  <1> DEFINE b == NextOf(s)
  <1>1. /\ Parent[b] = head /\ ApplyBlock(b, fork) /\ StoreBlock(id, b)
        /\ flushed' = flushed /\ restarts' = restarts
        /\ \/ ReturnWith(b, UndoAfterApply(b), SizeAfter(b), popped \o stash)
           \/ /\ b # Last(s) /\ undo_size' = UndoAfterApply(b)
              /\ UNCHANGED <<pending, unapplied, popped, stash, job>>
    BY DEF SwitchTo, CanApply
  <1>2. /\ DbOK /\ WorkOK /\ job \in Job /\ pending = << >> /\ head \in Chain
        /\ Base \in Chain /\ popped \o stash \in Seq(Txs)
        /\ Held = TxsOn(head) \cup Range(popped \o stash)
    BY SwitchFacts
  <1>3. Above(s, Base) /\ On(s, Len(s) - 1)
    BY DEF IInv, SwitchOnBranches
  <1>4. b \in Blocks /\ (b # Last(s) => \E i \in 1 .. Len(s) - 1 : b = s[i])
    BY <1>2, <1>3, NextBlock
  <1> HIDE DEF b
  <1>5. /\ head' = b /\ b \in Chain
        /\ max_size' = SizeAfter(b) /\ max_size' \in Nat /\ max_size' >= 2
        /\ ForkOK(fork')
    BY <1>1, <1>2, <1>4, ApplyFacts DEF ApplyBlock, DbOK
  <1>6. /\ file' \in block_db!IndexFile /\ unflushed' \in Unflushed
        /\ final' \in Chain \cup {NoBlock}
    BY <1>1, <1>2, <1>4, StoreFacts DEF StoreBlock
  <1>7. DbOK'
    BY <1>1, <1>2, <1>5, <1>6 DEF DbOK
  <1>8. UndoAfterApply(b) \in Nat
    BY <1>2, UndoAfterNat
  <1>9. TxsOn(b) = TxsOn(head) \cup Range(TxsOf[b])
    BY <1>1, <1>4, TxsOnBlock
  <1>10. CASE ReturnWith(b, UndoAfterApply(b), SizeAfter(b), popped \o stash)
    <2>1. \A tx \in Held : tx \in TxsOn(b) \cup Range(popped \o stash)
      BY <1>2, <1>9
    <2> QED
      BY <1>2, <1>5, <1>7, <1>8, <1>10, <2>1, Returned DEF ReturnWith
  <1>11. CASE /\ b # Last(s) /\ undo_size' = UndoAfterApply(b)
              /\ UNCHANGED <<pending, unapplied, popped, stash, job>>
    <2>1. WorkOK'
      BY <1>2, <1>8, <1>11 DEF WorkOK
    <2>2. TxsInPlace' /\ PendingApplies'
      BY <1>2, <1>11, NoJob DEF TxsInPlace, PendingApplies, Switching
    <2>3. Base' = Base
      BY <1>11 DEF Base
    <2>4. SwitchOnBranches'
      BY <1>2, <1>4, <1>5, <1>11, <2>3 DEF IInv, SwitchOnBranches, On
    <2>5. Keeps
      BY <1>2, <1>5, <1>9, <1>11 DEF Keeps, Held
    <2> QED
      BY <1>7, <2>1, <2>2, <2>4, <2>5 DEF IInv
  <1> QED
    BY <1>1, <1>10, <1>11

LEMMA switch_apply_step ==
    ASSUME IInv, switch_apply
    PROVE  IInv' /\ Keeps
  <1>1. /\ job.stage = "apply" /\ job.stage \in Switching
        /\ SwitchTo(NextOf(job.first), NextOf(job.first), Last(job.first))
    BY DEF switch_apply, Switching
  <1>2. job.first \in Seq(Blocks) /\ Base \in Chain
    BY <1>1, SwitchFacts
  <1>3. NextOf(job.first) \in Blocks
    <2>1. Above(job.first, Base) /\ On(job.first, Len(job.first) - 1)
      BY <1>1 DEF IInv, SwitchOnBranches
    <2> QED
      BY <1>2, <2>1, NextBlock
  <1> QED
    BY <1>1, <1>2, <1>3, SwitchToStep DEF SwitchTo, ApplyBlock, StoreBlock, ReturnWith

LEMMA switch_restore_step ==
    ASSUME IInv, switch_restore
    PROVE  IInv' /\ Keeps
  <1>1. /\ job.stage = "restore" /\ job.stage \in Switching
        /\ SwitchTo(NextOf(job.second), job.new, Last(job.second))
    BY DEF switch_restore, Switching
  <1>2. job.second \in Seq(Blocks) /\ job.new \in Blocks
    BY <1>1, SwitchFacts
  <1> QED
    BY <1>1, <1>2, SwitchToStep DEF SwitchTo, ApplyBlock, StoreBlock, ReturnWith

-----------------------------------------------------------------------------
(* The process stops and starts *)

LEMMA close_step ==
    ASSUME IInv, close
    PROVE  IInv' /\ Keeps
  <1>1. /\ job = Idle /\ restarts < MaxRestarts
        /\ job' = [Idle EXCEPT !.stage = "close", !.cutoff = Lib[head]]
        /\ restarts' = restarts + 1 /\ pending' = << >> /\ unapplied' = 0
        /\ UNCHANGED <<head, undo_size, max_size, fork, file, unflushed, popped,
                       stash, flushed, final>>
    BY DEF close
  <1>2. /\ DbOK /\ WorkOK /\ Lib[head] \in 0 .. MaxNum
        /\ << >> \in Seq(Txs) /\ Len(<< >>) = 0 /\ 0 \in 0 .. 0
    BY LibAssumption DEF IInv, DbOK, Chain
  <1>3. job' \in Job /\ job'.stage = "close"
    BY <1>1, <1>2, NoJob DEF Job, Idle
  <1>4. DbOK'
    BY <1>1, <1>2, SizesAssumption DEF DbOK
  <1>5. WorkOK'
    BY <1>1, <1>2, <1>3 DEF WorkOK
  <1>6. SwitchOnBranches' /\ TxsInPlace' /\ PendingApplies' /\ Keeps
    BY <1>3, NoJob DEF SwitchOnBranches, TxsInPlace, PendingApplies, Switching, Keeps
  <1> QED
    BY <1>4, <1>5, <1>6 DEF IInv

LEMMA close_pop_step ==
    ASSUME IInv, close_pop
    PROVE  IInv' /\ Keeps
  <1>1. /\ job.stage = "close" /\ ~PopThrowsEarly /\ undo_size > 0
        /\ head' = Parent[head] /\ undo_size' = undo_size - 1 /\ RemoveBlock(head)
        /\ popped' = TxsOf[head] \o popped
        /\ fork' = fork_db!remove(fork_db!pop_block(fork), head)
        /\ UNCHANGED <<max_size, pending, unapplied, stash, job, flushed, restarts, final>>
    BY DEF close_pop, PopBlock
  <1>2. DbOK /\ WorkOK
    BY DEF IInv
  <1>3. /\ head \in Blocks /\ Parent[head] \in Chain /\ ForkOK(fork) /\ ~fork_db!PopThrows(fork)
        /\ TxsOf[head] \in Seq(Txs)
    BY <1>1, <1>2, BlocksAssumption, TxsAssumption DEF PopThrowsEarly, Chain, DbOK
  <1>4. ForkOK(fork')
    BY <1>1, <1>3, ForkPop, ForkErase DEF fork_db!remove
  <1>5. file' \in block_db!IndexFile /\ unflushed' \in Unflushed
    BY <1>1, <1>2, <1>3, RemoveFacts
  <1>6. DbOK'
    BY <1>1, <1>2, <1>3, <1>4, <1>5 DEF DbOK
  <1>7. popped' \in Seq(Txs)
    BY <1>1, <1>2, <1>3, RangeConcat DEF WorkOK
  <1>8. WorkOK'
    BY <1>1, <1>2, <1>7 DEF WorkOK
  <1>9. SwitchOnBranches' /\ TxsInPlace' /\ PendingApplies' /\ Keeps
    BY <1>1, NoJob DEF SwitchOnBranches, TxsInPlace, PendingApplies, Switching, Keeps
  <1> QED
    BY <1>6, <1>8, <1>9 DEF IInv

\* The process is gone.
LEMMA StoppedStep ==
    ASSUME IInv, NEW f \in block_db!IndexFile, NEW b \in Chain \cup {NoBlock},
           NEW e \in Chain \cup {NoBlock}, Stopped(f, b, e), restarts' \in 0 .. MaxRestarts
    PROVE  IInv' /\ Keeps
  <1>1. /\ head' = Genesis /\ undo_size' = 0 /\ max_size' = InitMaxSize
        /\ fork' = fork_db!reset /\ file' = f /\ unflushed' = NothingUnflushed
        /\ pending' = << >> /\ unapplied' = 0 /\ popped' = << >> /\ stash' = << >>
        /\ job' = Down /\ flushed' = b /\ final' = e
    BY DEF Stopped
  <1>2. NothingUnflushed \in Unflushed
    BY SizesAssumption DEF NothingUnflushed, Unflushed, block_db!NoEntry, block_db!Entry
  <1>3. DbOK'
    BY <1>1, <1>2, ForkStart, SizesAssumption DEF IInv, DbOK, Chain
  <1>4. /\ << >> \in Seq(Txs) /\ Len(<< >>) = 0 /\ 0 \in 0 .. 0
        /\ job' \in Job /\ job'.stage = "down" /\ job' # Idle
    BY <1>1, NoJob
  <1>5. WorkOK'
    BY <1>1, <1>4 DEF WorkOK
  <1>6. SwitchOnBranches' /\ TxsInPlace' /\ PendingApplies' /\ Keeps
    BY <1>1, <1>4 DEF SwitchOnBranches, TxsInPlace, PendingApplies, Switching, Keeps
  <1> QED
    BY <1>3, <1>5, <1>6 DEF IInv

LEMMA close_flush_step ==
    ASSUME IInv, close_flush
    PROVE  IInv' /\ Keeps
  <1>1. /\ DbOK /\ restarts' \in 0 .. MaxRestarts /\ head \in Chain
        /\ file \in block_db!IndexFile /\ final \in Chain \cup {NoBlock}
    BY DEF IInv, DbOK, close_flush
  <1>2. CASE Stopped(file, head, final)
    BY <1>1, <1>2, StoppedStep DEF Stopped
  <1>3. CASE ~PopThrowsEarly /\ Stopped(block_db!remove(file, head), head, NoBlock)
    <2>1. head \in Blocks
      BY <1>1, <1>3 DEF PopThrowsEarly, Chain
    <2>2. block_db!remove(file, head) \in block_db!IndexFile
      BY <1>1, <2>1, RemovedFile
    <2> QED
      BY <1>1, <1>3, <2>2, StoppedStep DEF Stopped
  <1> QED
    BY <1>2, <1>3 DEF close_flush

\* Every state of the disk after a crash is an index file.
LEMMA CrashFiles ==
    ASSUME DbOK, NEW f \in AfterCrash
    PROVE  f \in block_db!IndexFile
  <1> DEFINE g == [file EXCEPT ![unflushed.num] = unflushed.entry]
  <1>1. file \in block_db!IndexFile /\ unflushed.entry \in block_db!Entry
    BY DEF DbOK, Unflushed
  <1>2. g \in block_db!IndexFile
    BY <1>1 DEF block_db!IndexFile
  <1>3. ASSUME NEW h \in block_db!IndexFile, NEW b
        PROVE  block_db!Tear(h, b) \in block_db!IndexFile
    <2>1. \A n \in 1 .. MaxNum : /\ h[n] \in block_db!Entry
                                 /\ [h[n] EXCEPT !.data = Torn] \in block_db!Entry
      BY DEF block_db!IndexFile, block_db!Entry
    <2> QED
      BY <2>1 DEF block_db!Tear, block_db!IndexFile
  <1> HIDE DEF g
  <1>4. \E h \in {file, g} : f = h \/ \E b : f = block_db!Tear(h, b)
    BY DEF AfterCrash, g
  <1> QED
    BY <1>1, <1>2, <1>3, <1>4

LEMMA crash_step ==
    ASSUME IInv, crash
    PROVE  IInv' /\ Keeps
  <1>1. PICK f \in AfterCrash, e \in {final, NoBlock} : Stopped(f, NoBlock, e)
    BY DEF crash
  <1>2. f \in block_db!IndexFile /\ e \in Chain \cup {NoBlock}
    BY CrashFiles DEF IInv, DbOK
  <1>3. restarts' \in 0 .. MaxRestarts
    BY SizesAssumption DEF crash, IInv, DbOK
  <1> QED
    BY <1>1, <1>2, <1>3, StoppedStep DEF Stopped

\* The last block that can be read from disk.
LEMMA LastFacts ==
    ASSUME DbOK
    PROVE  block_db!last(file) \in Blocks \cup {NoBlock} /\ ForkOK(StartFork)
  <1> DEFINE S == {0} \cup {n \in 1 .. MaxNum : file[n].data # NoBlock}
             k == Max(S)
  <1>1. S \subseteq 0 .. MaxNum /\ S # {} /\ MaxNum \in Nat
    BY SizesAssumption
  <1>2. k \in S
    BY <1>1, MaxNat
  <1>3. block_db!LastNum(file) = k
    BY DEF block_db!LastNum, block_db!Max, Max
  <1> HIDE DEF k
  <1>4. k # 0 => k \in 1 .. MaxNum /\ file[k].data # NoBlock
    BY <1>2
  <1>5. k # 0 => file[k] \in block_db!Entry
    BY <1>4 DEF DbOK, block_db!IndexFile
  <1>6. block_db!last(file) \in Blocks \cup {NoBlock}
    BY <1>3, <1>4, <1>5 DEF block_db!last, block_db!Entry
  <1> QED
    BY <1>6, ForkStart DEF StartFork

\* The process is up again, on block head'.
LEMMA StartedStep ==
    ASSUME IInv, job = Down, job' = Idle, head' \in Chain, max_size' \in Nat, max_size' >= 2,
           fork' = StartFork, file' \in block_db!IndexFile, flushed' = NoBlock,
           UNCHANGED <<undo_size, unflushed, pending, unapplied, popped, stash, restarts, final>>
    PROVE  IInv' /\ Keeps
  <1>1. DbOK /\ WorkOK /\ ForkOK(StartFork)
    BY LastFacts DEF IInv
  <1>2. pending = << >> /\ popped = << >> /\ stash = << >>
    BY NoJob DEF IInv, TxsInPlace
  <1>3. DbOK'
    BY <1>1 DEF DbOK
  <1>4. WorkOK'
    BY <1>1, NoJob DEF WorkOK
  <1>5. job'.stage = "idle" /\ job.stage = "down"
    BY NoJob
  <1>6. SwitchOnBranches' /\ TxsInPlace' /\ Keeps
    BY <1>2, <1>5 DEF SwitchOnBranches, TxsInPlace, Switching, Keeps
  <1>7. PendingApplies'
    <2>1. pending' = << >> /\ Len(<< >>) = 0 /\ unapplied' \in 0 .. Len(pending')
      BY <1>2, <1>4 DEF WorkOK
    <2>2. \A i \in unapplied' + 1 .. Len(pending') : FALSE
      BY <2>1
    <2> QED
      BY <2>2 DEF PendingApplies
  <1> QED
    BY <1>3, <1>4, <1>6, <1>7 DEF IInv

LEMMA open_step ==
    ASSUME IInv, open
    PROVE  IInv' /\ Keeps
  <1>1. /\ flushed \in Chain /\ head' \in Chain /\ max_size' \in Nat /\ max_size' >= 2
        /\ file' \in block_db!IndexFile
    BY DEF open, Opens, IInv, DbOK
  <1> QED
    BY <1>1, StartedStep DEF open

\* reindex ends on a block that it has read.
LEMMA ReplayedBlock ==
    ASSUME DbOK
    PROVE  /\ ReplayEnd \in 0 .. MaxNum
           /\ ReplayEnd # 0 => file[ReplayEnd].data \in Blocks
  <1> DEFINE S == {n \in 0 .. LastBlockNum : \A i \in 1 .. n : block_db!Readable(file, i)}
             k == Max(S)
  <1>1. LastBlockNum \in 0 .. MaxNum /\ MaxNum \in Nat
    BY LastFacts, BlocksAssumption, SizesAssumption DEF LastBlockNum
  <1>2. S \subseteq 0 .. MaxNum /\ 0 \in S
    BY <1>1
  <1>3. k \in S
    BY <1>1, <1>2, MaxNat
  <1>4. ReplayEnd = k
    BY DEF ReplayEnd
  <1> HIDE DEF k
  <1>5. k \in 0 .. MaxNum /\ \A i \in 1 .. k : block_db!Readable(file, i)
    BY <1>2, <1>3
  <1>6. k # 0 => k \in 1 .. k /\ k \in 1 .. MaxNum
    BY <1>1, <1>5
  <1>7. k # 0 => file[k] \in block_db!Entry /\ block_db!Readable(file, k)
    BY <1>5, <1>6 DEF DbOK, block_db!IndexFile
  <1>8. k # 0 => file[k].data \in Blocks
    BY <1>7 DEF block_db!Entry, block_db!Readable
  <1> QED
    BY <1>4, <1>5, <1>8

LEMMA reindex_step ==
    ASSUME IInv, reindex
    PROVE  IInv' /\ Keeps
  <1>1. DbOK /\ (ReplayEnd # 0 => file[ReplayEnd].data \in Blocks)
    BY ReplayedBlock DEF IInv
  <1>2. /\ job = Down /\ job' = Idle /\ fork' = StartFork /\ flushed' = NoBlock
        /\ head' = (IF ReplayEnd = 0 THEN Genesis ELSE file[ReplayEnd].data)
        /\ max_size' = (IF ReplayEnd = 0 THEN InitMaxSize ELSE SizeAfter(head'))
        /\ file' = [n \in 1 .. MaxNum |->
                       IF AboveGap(n) THEN [file[n] EXCEPT !.data = NoBlock] ELSE file[n]]
        /\ UNCHANGED <<undo_size, unflushed, pending, unapplied, popped, stash, restarts, final>>
    BY DEF reindex
  <1>3. head' \in Chain
    BY <1>1, <1>2 DEF Chain
  <1>4. max_size' \in Nat /\ max_size' >= 2
    <2>1. CASE ReplayEnd = 0
      BY <1>2, <2>1, SizesAssumption
    <2>2. CASE ReplayEnd # 0
      <3> DEFINE b == file[ReplayEnd].data
      <3>1. b \in Blocks /\ head' = b /\ max_size' = SizeAfter(head')
        BY <1>1, <1>2, <2>2
      <3> HIDE DEF b
      <3>2. max_size' = SizeAfter(b)
        BY <3>1
      <3> QED
        BY <3>1, <3>2, SizeAfterNat
    <2> QED
      BY <2>1, <2>2
  <1>5. file' \in block_db!IndexFile
    <2>1. \A n \in 1 .. MaxNum : /\ file[n] \in block_db!Entry
                                 /\ [file[n] EXCEPT !.data = NoBlock] \in block_db!Entry
      BY <1>1 DEF DbOK, block_db!IndexFile, block_db!Entry
    <2> QED
      BY <1>2, <2>1 DEF block_db!IndexFile
  <1> QED
    BY <1>2, <1>3, <1>4, <1>5, StartedStep

-----------------------------------------------------------------------------
(* The theorems *)

LEMMA InitInv ==
    ASSUME Init
    PROVE  IInv
  <1>1. /\ block_db!EmptyFile \in block_db!IndexFile /\ NothingUnflushed \in Unflushed
        /\ << >> \in Seq(Txs) /\ Len(<< >>) = 0 /\ 0 \in 0 .. 0
    BY SizesAssumption DEF block_db!EmptyFile, block_db!IndexFile, block_db!NoEntry,
                           block_db!Entry, NothingUnflushed, Unflushed
  <1>2. DbOK
    BY <1>1, ForkStart, SizesAssumption DEF Init, DbOK, Chain
  <1>3. WorkOK /\ SwitchOnBranches /\ TxsInPlace
    BY <1>1, NoJob DEF Init, WorkOK, SwitchOnBranches, TxsInPlace, Switching
  <1>4. PendingApplies
    BY DEF Init, PendingApplies
  <1> QED
    BY <1>2, <1>3, <1>4 DEF IInv

LEMMA StepInv ==
    ASSUME IInv, [Next]_vars
    PROVE  IInv' /\ Keeps
  <1>1. CASE UNCHANGED vars
    <2>1. DbOK' /\ WorkOK' /\ TxsInPlace'
      BY <1>1 DEF vars, IInv, DbOK, WorkOK, TxsInPlace
    <2>2. SwitchOnBranches'
      BY <1>1 DEF vars, IInv, SwitchOnBranches, On, Base
    <2>3. PendingApplies'
      BY <1>1 DEF vars, IInv, PendingApplies
    <2>4. Keeps
      BY <1>1 DEF vars, Keeps, Held
    <2> QED
      BY <2>1, <2>2, <2>3, <2>4 DEF IInv
  <1>2. ASSUME NEW tx \in Txs, push_transaction(tx)
        PROVE  IInv' /\ Keeps
    BY <1>2, push_transaction_step
  <1>3. ASSUME NEW b \in Blocks, push_block(b) \/ generate_block(b)
        PROVE  IInv' /\ Keeps
    BY <1>3, push_block_step, generate_block_step
  <1>4. CASE Switch
    BY <1>4, switch_pop_step, switch_pop_throws_step, switch_popped_step, switch_apply_step,
       switch_apply_fails_step, switch_restore_step DEF Switch
  <1>7. CASE generate_block_throws
    BY <1>7, generate_block_throws_step
  <1>5. CASE close \/ close_pop \/ close_flush \/ crash
    BY <1>5, close_step, close_pop_step, close_flush_step, crash_step
  <1>6. CASE open \/ reindex
    BY <1>6, open_step, reindex_step
  <1> QED
    BY <1>1, <1>2, <1>3, <1>4, <1>5, <1>6, <1>7 DEF Next

\* Every reachable state satisfies the invariant.
LEMMA Invariant == Spec => []IInv
  <1>1. Init => IInv
    BY InitInv
  <1>2. IInv /\ [Next]_vars => IInv'
    BY StepInv
  <1> QED
    BY <1>1, <1>2, PTL DEF Spec

\* The databases, the block files and the state of a call always have their
\* types: no index outside the files, and no negative number of undo states or
\* database size, whatever the order of pushes, switches, restarts and crashes.
THEOREM TypeCorrect == Spec => []TypeOK
  <1>1. IInv => TypeOK
    BY DEF IInv, DbOK, WorkOK, ForkOK, Unflushed, Chain, TypeOK
  <1> QED
    BY <1>1, Invariant, PTL

\* Between two calls the pending transactions apply, in order, on the head
\* block: what _pending_tx_session holds is a state the chain could reach,
\* also after a generate_block that threw.
THEOREM PendingApply == Spec => []PendingApplies
  <1>1. IInv => PendingApplies
    BY DEF IInv
  <1> QED
    BY <1>1, Invariant, PTL

\* While the process runs, a transaction that is pending, or was in a block
\* that is popped, is dropped only when it no longer applies.
THEOREM NoneDropped == Spec => NoTxDropped
  <1>1. IInv /\ [Next]_vars =>
            [job'.stage \notin {"close", "down"} /\ job.stage \notin {"close", "down"}
               => \A tx \in Held : tx \in Held' \/ ~Applies(tx, Held')]_vars
    BY StepInv DEF Keeps
  <1> QED
    BY <1>1, Invariant, PTL DEF Spec, NoTxDropped

\* A fork switch that fails ends on the block it came from, unless pop_block
\* throws on the way: the one exception that nobody catches.  When it can is
\* what SwitchCanPop says, which depends on the sizes of the databases and is
\* checked by TLC.
THEOREM FailedUnwinds == Spec /\ []PopsSucceed => FailedSwitchUnwinds
  <1>1. ASSUME IInv, PopsSucceed, [Next]_vars, job.stage \in {"unwind", "restore"}, job' = Idle
        PROVE  head' = Last(job.second)
    <2>1. job' # job /\ job'.stage = "idle" /\ Idle # Down /\ job # Idle /\ job # Down
      BY <1>1, NoJob
    <2>2. job \in Job
      BY <1>1 DEF IInv, WorkOK
    <2>3. ~switch_pop_throws
      BY <1>1 DEF switch_pop_throws, PopsSucceed, PopFails
    <2>4. ~switch_popped
      BY <1>1, <2>1, <2>2 DEF switch_popped, Job
    <2>5. switch_restore
      BY <1>1, <2>1, <2>3, <2>4
         DEF Next, Switch, vars, push_transaction, push_block, generate_block, generate_block_throws, push_rejected,
             push_cached, push_applied, push_failed, push_switch, push_unfetchable, Pushed,
             switch_pop, switch_apply, switch_apply_fails, close, close_pop, close_flush,
             crash, Stopped, open, reindex
    <2> QED
      BY <2>1, <2>5 DEF switch_restore, SwitchTo, ApplyBlock
  <1>2. IInv /\ PopsSucceed /\ [Next]_vars =>
            [job.stage = "unwind" \/ job.stage = "restore"
               => (job' = Idle => head' = Last(job.second))]_vars
    BY <1>1
  <1> QED
    BY <1>2, Invariant, PTL DEF Spec, FailedSwitchUnwinds
=============================================================================
