-------------------------- MODULE LockBalanceProofs --------------------------
(***************************************************************************)
(* For every number of accounts, assets and locks, every interest formula  *)
(* that takes no more than the amount, donations of either sign and every  *)
(* sequence of operations and restarts: the supply of each asset is        *)
(* conserved and locks in the core asset stay redeemable.                  *)
(*                                                                         *)
(* A restart forgets which locks are finished and which asset they name,   *)
(* so the invariant rests on what it keeps: the sets lockeds of the        *)
(* accounts, which are disjoint and hold unfinished locks only.            *)
(***************************************************************************)
EXTENDS LockBalance, FoldTheorems, SequenceTheorems, TLAPS

\* A finished lock is in no set of an account ...
HeldUnfinished ==
    \A a \in Accounts, x \in Assets : \A id \in lockeds[a][x] : ~locks[id].finish

\* ... and no lock is in two of them.
HeldOnce ==
    \A a, b \in Accounts, x, y \in Assets :
        lockeds[a][x] \cap lockeds[b][y] # {} => a = b /\ x = y

\* The locks that are held in the core asset name it, before a restart and
\* after one.
CoreNamed ==
    /\ lockData[Core] # NoData
    /\ \A a \in Accounts : \A id \in lockeds[a][Core] : locks[id].asset = Core

Shape == TypeOK /\ HeldUnfinished /\ HeldOnce /\ CoreNamed

IInv == Shape /\ SupplyConserved

PoolOf(x) == IF lockData[x] = NoData THEN 0 ELSE lockData[x].pool

-----------------------------------------------------------------------------
(* Where the units are *)

\* Under the invariant the locks that are not finished are those that the
\* accounts hold.
LEMMA OutstandingHeld ==
    ASSUME HeldUnfinished, NEW x \in Assets
    PROVE  Outstanding(x) = UNION {lockeds[a][x] : a \in Accounts}
  BY DEF HeldUnfinished, Outstanding

\* They are finitely many, and each has an amount.
LEMMA OutstandingTyped ==
    ASSUME TypeOK, NEW x \in Assets
    PROVE  /\ Outstanding(x) \subseteq 1 .. Len(locks)
           /\ Len(locks) \in Nat /\ DOMAIN locks = 1 .. Len(locks)
           /\ IsFiniteSet(Outstanding(x))
           /\ \A id \in 1 .. Len(locks) : locks[id] \in Lock
  <1>1. Len(locks) \in Nat /\ DOMAIN locks = 1 .. Len(locks)
    BY LenProperties DEF TypeOK
  <1>2. \A id \in 1 .. Len(locks) : locks[id] \in Lock
    BY ElementOfSeq DEF TypeOK
  <1>3. Outstanding(x) \subseteq 1 .. Len(locks)
    BY DEF TypeOK, Outstanding
  <1>4. IsFiniteSet(1 .. Len(locks))
    BY <1>1, FS_Interval
  <1> QED
    BY <1>1, <1>2, <1>3, <1>4, FS_Subset

\* adjust_balance moves the sum of the balances by as much.
LEMMA AdjustedBalances ==
    ASSUME TypeOK, NEW a \in Accounts, NEW x \in Assets, NEW d \in Int,
           balance[a][x] + d \in Nat, NEW y \in Assets
    PROVE  /\ Adjusted(a, x, d) \in [Accounts -> [Assets -> Nat]]
           /\ InBalances(balance, y) \in Nat
           /\ InBalances(Adjusted(a, x, d), y)
                = InBalances(balance, y) + (IF x = y THEN d ELSE 0)
  <1> DEFINE f == [b \in Accounts |-> balance[b][y]]
             g == [b \in Accounts |-> Adjusted(a, x, d)[b][y]]
  <1>0. IsFiniteSet(Accounts)
    BY LockAssumption
  <1>1. Adjusted(a, x, d) \in [Accounts -> [Assets -> Nat]]
    BY DEF TypeOK, Adjusted
  <1>2. \A b \in Accounts : f[b] \in Nat /\ g[b] \in Nat
    BY <1>1 DEF TypeOK
  <1>3. \A b \in Accounts \ {a} : g[b] = f[b]
    BY DEF TypeOK, Adjusted
  <1>4. g[a] = f[a] + (IF x = y THEN d ELSE 0)
    BY DEF TypeOK, Adjusted
  <1> HIDE DEF f, g
  <1>5. Sum(f, Accounts) \in Nat
    BY <1>0, <1>2, SumType
  <1>6. Sum(g, Accounts) = Sum(f, Accounts) - f[a] + g[a]
    BY <1>0, <1>2, <1>3, SumChange
  <1>7. Sum(g, Accounts) = Sum(f, Accounts) + (IF x = y THEN d ELSE 0)
    BY <1>2, <1>4, <1>5, <1>6
  <1> QED
    BY <1>1, <1>5, <1>7 DEF f, g, InBalances

\* The sum of the locks is a number.
LEMMA InLocksType ==
    ASSUME TypeOK, NEW x \in Assets
    PROVE  InLocks(x) \in Nat
  BY OutstandingTyped, SumType DEF InLocks, Lock

-----------------------------------------------------------------------------
(* The initial state *)

LEMMA InitInv == Init => IInv
  <1> SUFFICES ASSUME Init PROVE IInv
    OBVIOUS
  <1> USE LockAssumption DEF Init
  <1>1. TypeOK
    <2>1. lockeds \in [Accounts -> [Assets -> SUBSET (1 .. Len(locks))]]
      OBVIOUS
    <2>2. lockData \in [Assets -> LockData \cup {NoData}]
      BY DEF LockData
    <2> QED
      BY <2>1, <2>2 DEF TypeOK
  <1>2. HeldUnfinished /\ HeldOnce
    BY DEF HeldUnfinished, HeldOnce
  <1>3. CoreNamed
    <2>1. lockData[Core] \in LockData
      BY DEF LockData
    <2> QED
      BY <2>1 DEF CoreNamed
  <1>4. SupplyConserved
    <2> SUFFICES ASSUME NEW x \in Assets
                 PROVE  InBalances(balance, x) + InLocks(x) + PoolOf(x)
                          = InBalances(Endowment, x)
      BY DEF SupplyConserved, PoolOf
    <2>1. InBalances(balance, x) = InBalances(Endowment, x)
      OBVIOUS
    <2>2. InBalances(Endowment, x) \in Nat
      <3>1. IsFiniteSet(Accounts) /\ \A a \in Accounts : Endowment[a][x] \in Nat
        OBVIOUS
      <3> QED
        BY <3>1, SumType DEF InBalances
    <2>3. Outstanding(x) = {}
      BY DEF Outstanding
    <2>4. InLocks(x) = 0
      BY <2>3, SumEmpty DEF InLocks
    <2>5. PoolOf(x) = 0
      BY DEF PoolOf
    <2> QED
      BY <2>1, <2>2, <2>4, <2>5
  <1> QED
    BY <1>1, <1>2, <1>3, <1>4 DEF IInv, Shape

-----------------------------------------------------------------------------
(* The steps *)

\* lock_balance takes the profit from the pool and puts it, with the amount,
\* into a lock with a new id.
LEMMA LockStep ==
    ASSUME IInv, NEW a \in Accounts, NEW x \in Assets, NEW n \in Amounts,
           NEW d \in Periods, lock_balance(a, x, n, d)
    PROVE  IInv'
  <1> DEFINE profit == Profit(n, d, lockData[x].pool)
             lock == [initial |-> n, locked |-> profit + n, period |-> d,
                      time |-> now, asset |-> x, finish |-> FALSE]
             new == Len(locks) + 1
  <1> USE DEF IInv, Shape
  <1>1. /\ lockData[x] # NoData /\ balance[a][x] >= n
        /\ locks' = Append(locks, lock) /\ balance' = Adjusted(a, x, -n)
        /\ lockeds' = [lockeds EXCEPT ![a][x] = @ \cup {new}]
        /\ lockData' = [lockData EXCEPT ![x].pool = @ - profit]
        /\ lockedSupply' = [lockedSupply EXCEPT ![x] = @ + (profit + n)] /\ now' = now
    <2>1. lockData' = [lockData EXCEPT ![x].pool = @ + (-profit)] /\ profit \in Int
      BY LockAssumption DEF lock_balance, Pooled
    <2>2. lockData[x] \in LockData
      BY DEF TypeOK, lock_balance
    <2>3. lockData' = [lockData EXCEPT ![x].pool = @ - profit]
      BY <2>1, <2>2 DEF TypeOK, LockData
    <2> QED
      BY <2>3 DEF lock_balance
  <1>2. profit \in Int /\ n \in Nat /\ d \in Nat /\ profit + n \in Nat
    <2>1. lockData[x].pool \in Pools
      BY DEF lock_balance
    <2>2. profit \in Int /\ profit >= -n
      BY <2>1, LockAssumption
    <2>3. n \in Nat /\ d \in Nat
      BY LockAssumption
    <2> HIDE DEF profit
    <2> QED
      BY <2>2, <2>3
  <1> HIDE DEF profit
  <1>3. lock \in Lock
    BY <1>2 DEF Lock, TypeOK
  <1>4. /\ Len(locks) \in Nat /\ DOMAIN locks = 1 .. Len(locks)
        /\ \A id \in 1 .. Len(locks) : locks[id] \in Lock
    BY OutstandingTyped
  <1>5. /\ locks' \in Seq(Lock) /\ Len(locks') = new /\ DOMAIN locks' = 1 .. new
        /\ \A id \in 1 .. Len(locks) : locks'[id] = locks[id]
        /\ locks'[new] = lock
    BY <1>1, <1>3, <1>4, AppendProperties DEF TypeOK
  <1> HIDE DEF lock
  <1>6. TypeOK'
    <2>1. balance' \in [Accounts -> [Assets -> Nat]]
      <3>1. -n \in Int /\ balance[a][x] + (-n) \in Nat
        BY <1>1, <1>2 DEF TypeOK
      <3> QED
        BY <1>1, <3>1, AdjustedBalances
    <2>2. lockeds' \in [Accounts -> [Assets -> SUBSET (1 .. Len(locks'))]]
      BY <1>1, <1>4, <1>5 DEF TypeOK
    <2>3. lockData' \in [Assets -> LockData \cup {NoData}]
      <3>1. lockData[x] \in LockData
        BY <1>1 DEF TypeOK
      <3>2. [lockData[x] EXCEPT !.pool = @ - profit] \in LockData
        BY <1>2, <3>1 DEF LockData
      <3> QED
        BY <1>1, <3>2 DEF TypeOK
    <2>4. lockedSupply' \in [Assets -> Nat]
      BY <1>1, <1>2 DEF TypeOK
    <2> QED
      BY <1>1, <1>5, <2>1, <2>2, <2>3, <2>4 DEF TypeOK
  <1>7. \A b \in Accounts, y \in Assets :
            /\ \A id : id \in lockeds'[b][y]
                          <=> id \in lockeds[b][y] \/ (b = a /\ y = x /\ id = new)
            /\ \A id \in lockeds[b][y] : id \in 1 .. Len(locks)
    BY <1>1 DEF TypeOK
  <1>8. lock.finish = FALSE /\ lock.asset = x /\ lock.locked = profit + n /\ lock.initial = n
    BY DEF lock
  <1>a. new \notin 1 .. Len(locks) /\ 1 .. new = (1 .. Len(locks)) \cup {new}
    BY <1>4
  <1> HIDE DEF new
  <1>9. HeldUnfinished'
    <2> SUFFICES ASSUME NEW b \in Accounts, NEW y \in Assets, NEW id \in lockeds'[b][y]
                 PROVE  ~locks'[id].finish
      BY DEF HeldUnfinished
    <2>1. CASE id = new
      BY <1>5, <1>8, <2>1
    <2>2. CASE id # new
      <3>1. id \in lockeds[b][y] /\ id \in 1 .. Len(locks)
        BY <1>7, <2>2
      <3> QED
        BY <1>5, <3>1 DEF HeldUnfinished
    <2> QED
      BY <2>1, <2>2
  <1>10. HeldOnce'
    <2> SUFFICES ASSUME NEW b \in Accounts, NEW c \in Accounts, NEW y \in Assets,
                        NEW z \in Assets, NEW id \in lockeds'[b][y] \cap lockeds'[c][z]
                 PROVE  b = c /\ y = z
      BY DEF HeldOnce
    <2>1. CASE id = new
      BY <1>7, <1>a, <2>1
    <2>2. CASE id # new
      BY <1>7, <2>2 DEF HeldOnce
    <2> QED
      BY <2>1, <2>2
  <1>12. \A y \in Assets : /\ lockData'[y] # NoData <=> lockData[y] # NoData
                           /\ PoolOf(y)' = PoolOf(y) - (IF x = y THEN profit ELSE 0)
    <2>1. lockData[x] \in LockData
      BY <1>1 DEF TypeOK
    <2>2. lockData'[x] \in LockData /\ lockData'[x].pool = lockData[x].pool - profit
      <3>1. lockData'[x] = [lockData[x] EXCEPT !.pool = @ - profit]
        BY <1>1 DEF TypeOK
      <3> QED
        BY <1>2, <2>1, <3>1 DEF LockData
    <2>3. \A y \in Assets \ {x} : lockData'[y] = lockData[y]
      BY <1>1 DEF TypeOK
    <2>4. \A y \in Assets : PoolOf(y) \in Int
      BY DEF PoolOf, TypeOK, LockData
    <2>5. lockData'[x] # NoData /\ lockData[x] # NoData
      BY <2>1, <2>2, LockAssumption
    <2> QED
      BY <1>2, <2>2, <2>3, <2>4, <2>5 DEF PoolOf
  <1>13. CoreNamed'
    <2>1. lockData'[Core] # NoData
      BY <1>12, LockAssumption DEF CoreNamed
    <2> SUFFICES ASSUME NEW b \in Accounts, NEW id \in lockeds'[b][Core]
                 PROVE  locks'[id].asset = Core
      BY <2>1 DEF CoreNamed
    <2>2. CASE id = new
      <3>1. x = Core
        BY <1>7, <1>a, <2>2, LockAssumption
      <3> QED
        BY <1>5, <1>8, <2>2, <3>1
    <2>3. CASE id # new
      <3>1. id \in lockeds[b][Core] /\ id \in 1 .. Len(locks)
        BY <1>7, <2>3, LockAssumption
      <3> QED
        BY <1>5, <3>1 DEF CoreNamed
    <2> QED
      BY <2>2, <2>3
  <1>15. SupplyConserved'
    <2> SUFFICES ASSUME NEW y \in Assets
                 PROVE  InBalances(balance', y) + InLocks(y)' + PoolOf(y)'
                          = InBalances(Endowment, y)
      BY DEF SupplyConserved, PoolOf
    <2>1. /\ InBalances(balance', y) = InBalances(balance, y) + (IF x = y THEN -n ELSE 0)
          /\ InBalances(balance, y) \in Nat
      <3>1. -n \in Int /\ balance[a][x] + (-n) \in Nat
        BY <1>1, <1>2 DEF TypeOK
      <3> QED
        BY <1>1, <3>1, AdjustedBalances
    <2> DEFINE f == [id \in DOMAIN locks |-> locks[id].locked]
               g == [id \in DOMAIN locks' |-> locks'[id].locked]
    <2>2. Outstanding(y)' = IF x = y THEN Outstanding(y) \cup {new} ELSE Outstanding(y)
      <3>1. Outstanding(y)' = UNION {lockeds'[b][y] : b \in Accounts}
        BY <1>9 DEF HeldUnfinished, Outstanding
      <3>2. Outstanding(y) = UNION {lockeds[b][y] : b \in Accounts}
        BY OutstandingHeld
      <3>3. CASE x = y
        BY <1>7, <3>1, <3>2, <3>3
      <3>4. CASE x # y
        BY <1>7, <3>1, <3>2, <3>4
      <3> QED
        BY <3>3, <3>4
    <2>3. /\ Outstanding(y) \subseteq 1 .. Len(locks) /\ IsFiniteSet(Outstanding(y))
          /\ new \notin Outstanding(y)
      BY <1>a, OutstandingTyped
    <2>4. /\ \A id \in 1 .. Len(locks) : f[id] \in Nat /\ g[id] = f[id]
          /\ g[new] = profit + n
      <3>1. \A id \in 1 .. Len(locks) : id \in 1 .. new
        BY <1>a
      <3>2. new \in 1 .. new
        BY <1>a
      <3> QED
        BY <1>4, <1>5, <1>8, <3>1, <3>2 DEF Lock
    <2> HIDE DEF f, g
    <2>5. Sum(f, Outstanding(y)) = Sum(g, Outstanding(y))
      BY <2>3, <2>4, SumEqual
    <2>6. Sum(g, Outstanding(y) \cup {new}) = Sum(g, Outstanding(y)) + (profit + n)
      <3>1. \A id \in Outstanding(y) \cup {new} : g[id] \in Nat
        BY <1>2, <2>3, <2>4
      <3>2. Sum(g, Outstanding(y) \cup {new}) = Sum(g, Outstanding(y)) + g[new]
        BY <2>3, <3>1, SumAdd
      <3> QED
        BY <2>4, <3>2
    <2>7. InLocks(y) = Sum(f, Outstanding(y)) /\ InLocks(y)' = Sum(g, Outstanding(y)')
      BY DEF InLocks, f, g
    <2>8. InLocks(y)' = InLocks(y) + (IF x = y THEN profit + n ELSE 0) /\ InLocks(y) \in Nat
      BY <2>2, <2>5, <2>6, <2>7, InLocksType
    <2>9. InBalances(balance, y) + InLocks(y) + PoolOf(y) = InBalances(Endowment, y)
      BY DEF SupplyConserved, PoolOf
    <2>10. PoolOf(y) \in Int
      BY DEF PoolOf, TypeOK, LockData
    <2> QED
      BY <1>2, <1>12, <2>1, <2>8, <2>9, <2>10
  <1> QED
    BY <1>6, <1>9, <1>10, <1>13, <1>15

\* Moving n units from a balance into a pool, or out of it for a negative n, as
\* set_lock_data and donation_balance do.
LEMMA FundStep ==
    ASSUME IInv, NEW a \in Accounts, NEW x \in Assets, NEW n \in Int,
           balance[a][x] >= n, balance' = Adjusted(a, x, -n),
           lockData' \in [Assets -> LockData \cup {NoData}],
           lockData'[x] \in LockData, lockData'[x].pool = PoolOf(x) + n,
           \A y \in Assets \ {x} : lockData'[y] = lockData[y],
           UNCHANGED <<lockeds, locks, lockedSupply, now>>
    PROVE  IInv'
  <1> USE DEF IInv, Shape
  <1>1. -n \in Int /\ balance[a][x] + (-n) \in Nat
    BY DEF TypeOK
  <1>2. TypeOK'
    <2>1. balance' \in [Accounts -> [Assets -> Nat]]
      BY <1>1, AdjustedBalances
    <2> QED
      BY <2>1 DEF TypeOK
  <1>3. HeldUnfinished' /\ HeldOnce'
    BY DEF HeldUnfinished, HeldOnce
  <1>4. lockData'[x] # NoData
    BY LockAssumption
  <1>5. CoreNamed'
    BY <1>4, LockAssumption DEF CoreNamed
  <1>6. \A y \in Assets : PoolOf(y) \in Int
    BY DEF PoolOf, TypeOK, LockData
  <1>7. \A y \in Assets : PoolOf(y)' = PoolOf(y) + (IF x = y THEN n ELSE 0)
    <2>1. PoolOf(x)' = PoolOf(x) + n
      BY <1>4 DEF PoolOf
    <2>2. \A y \in Assets \ {x} : PoolOf(y)' = PoolOf(y)
      BY DEF PoolOf
    <2> QED
      BY <1>6, <2>1, <2>2
  <1>9. SupplyConserved'
    <2> SUFFICES ASSUME NEW y \in Assets
                 PROVE  InBalances(balance', y) + InLocks(y)' + PoolOf(y)'
                          = InBalances(Endowment, y)
      BY DEF SupplyConserved, PoolOf
    <2>1. /\ InBalances(balance', y) = InBalances(balance, y) + (IF x = y THEN -n ELSE 0)
          /\ InBalances(balance, y) \in Nat
      BY <1>1, AdjustedBalances
    <2>2. InLocks(y)' = InLocks(y) /\ InLocks(y) \in Nat
      BY InLocksType DEF InLocks, Outstanding
    <2>3. InBalances(balance, y) + InLocks(y) + PoolOf(y) = InBalances(Endowment, y)
      BY DEF SupplyConserved, PoolOf
    <2> QED
      BY <1>6, <1>7, <2>1, <2>2, <2>3
  <1> QED
    BY <1>2, <1>3, <1>5, <1>9

\* set_lock_data fills the pool of an asset that had none.
LEMMA SetLockDataStep ==
    ASSUME IInv, NEW a \in Accounts, NEW x \in Assets, NEW n \in Amounts \cup {0},
           NEW e \in BOOLEAN, set_lock_data(a, x, n, e)
    PROVE  IInv'
  <1> USE DEF IInv, Shape
  <1>1. n \in Nat
    <2>1. Amounts \subseteq Nat
      BY LockAssumption
    <2> QED
      BY <2>1
  <1>2. /\ lockData[x] = NoData /\ balance[a][x] >= n /\ balance' = Adjusted(a, x, -n)
        /\ lockData' = [lockData EXCEPT ![x] = [pool |-> n, early |-> e]]
        /\ UNCHANGED <<lockeds, locks, lockedSupply, now>>
    BY DEF set_lock_data
  <1>3. [pool |-> n, early |-> e] \in LockData
    BY <1>1 DEF LockData
  <1>4. lockData' \in [Assets -> LockData \cup {NoData}] /\ lockData'[x] = [pool |-> n, early |-> e]
    BY <1>2, <1>3 DEF TypeOK
  <1>5. \A y \in Assets \ {x} : lockData'[y] = lockData[y]
    BY <1>2 DEF TypeOK
  <1>6. lockData'[x].pool = PoolOf(x) + n
    BY <1>1, <1>2, <1>4 DEF PoolOf
  <1> QED
    BY <1>1, <1>2, <1>3, <1>4, <1>5, <1>6, FundStep

\* donation_balance adds to the pool of an asset.
LEMMA DonationStep ==
    ASSUME IInv, NEW a \in Accounts, NEW x \in Assets, NEW n \in Donations,
           donation_balance(a, x, n)
    PROVE  IInv'
  <1> USE DEF IInv, Shape
  <1>1. n \in Int
    BY LockAssumption
  <1>2. /\ lockData[x] # NoData /\ balance[a][x] >= n /\ balance' = Adjusted(a, x, -n)
        /\ lockData' = [lockData EXCEPT ![x].pool = @ + n]
        /\ UNCHANGED <<lockeds, locks, lockedSupply, now>>
    BY DEF donation_balance, Pooled
  <1>3. lockData[x] \in LockData
    BY <1>2 DEF TypeOK
  <1>4. lockData'[x] = [lockData[x] EXCEPT !.pool = @ + n]
    BY <1>2 DEF TypeOK
  <1>5. lockData'[x] \in LockData /\ lockData'[x].pool = lockData[x].pool + n
    BY <1>1, <1>3, <1>4 DEF LockData
  <1>6. \A y \in Assets \ {x} : lockData'[y] = lockData[y]
    BY <1>2 DEF TypeOK
  <1>7. lockData' \in [Assets -> LockData \cup {NoData}]
    BY <1>2, <1>4, <1>5 DEF TypeOK
  <1>8. lockData'[x].pool = PoolOf(x) + n
    BY <1>2, <1>5 DEF PoolOf
  <1> QED
    BY <1>1, <1>2, <1>5, <1>6, <1>7, <1>8, FundStep

\* unlock_balance pays the lock to its holder; before the lock is mature the
\* profit goes back to the pool.
LEMMA UnlockStep ==
    ASSUME IInv, NEW a \in Accounts, NEW id \in DOMAIN locks, NEW e \in BOOLEAN,
           unlock_balance(a, id, e)
    PROVE  IInv'
  <1> DEFINE lock == locks[id]
             x == locks[id].asset
  <1> USE DEF IInv, Shape
  <1>0. /\ Len(locks) \in Nat /\ DOMAIN locks = 1 .. Len(locks)
        /\ \A i \in 1 .. Len(locks) : locks[i] \in Lock
    BY OutstandingTyped, LockAssumption
  <1>1. lock \in Lock /\ x \in Assets /\ lock.locked \in Nat /\ lock.initial \in Nat
    BY <1>0 DEF Lock
  <1>2. /\ lockData[x] # NoData /\ id \in lockeds[a][x]
        /\ locks' = [locks EXCEPT ![id].finish = TRUE]
        /\ lockeds' = [lockeds EXCEPT ![a][x] = @ \ {id}]
        /\ lockedSupply' = lockedSupply /\ now' = now
    BY DEF unlock_balance, Redeemable, Finish
  <1>3. PICK paid \in Nat, back \in Int :
            /\ paid + back = lock.locked
            /\ balance' = Adjusted(a, x, paid)
            /\ lockData' \in [Assets -> LockData \cup {NoData}]
            /\ lockData'[x] \in LockData /\ lockData'[x].pool = PoolOf(x) + back
            /\ \A y \in Assets \ {x} : lockData'[y] = lockData[y]
    <2>1. lockData[x] \in LockData /\ PoolOf(x) = lockData[x].pool /\ PoolOf(x) \in Int
      BY <1>1, <1>2 DEF TypeOK, PoolOf, LockData
    <2>2. CASE Matured(id, e)
      <3>1. balance' = Adjusted(a, x, lock.locked) /\ lockData' = lockData
        BY <2>2 DEF unlock_balance
      <3>2. lock.locked + 0 = lock.locked /\ PoolOf(x) = PoolOf(x) + 0
        BY <1>1, <2>1
      <3>3. lockData' \in [Assets -> LockData \cup {NoData}]
        BY <3>1 DEF TypeOK
      <3> QED
        BY <1>1, <2>1, <3>1, <3>2, <3>3
    <2>3. CASE ~Matured(id, e)
      <3> DEFINE back == lock.locked - lock.initial
      <3>1. /\ balance' = Adjusted(a, x, lock.initial)
            /\ lockData' = [lockData EXCEPT ![x].pool = @ + back]
        BY <2>3 DEF unlock_balance, Pooled
      <3>2. back \in Int /\ lock.initial + back = lock.locked
        BY <1>1
      <3> HIDE DEF back
      <3>3. lockData'[x] = [lockData[x] EXCEPT !.pool = @ + back]
        BY <1>1, <3>1 DEF TypeOK
      <3>4. lockData'[x] \in LockData /\ lockData'[x].pool = PoolOf(x) + back
        BY <2>1, <3>2, <3>3 DEF LockData
      <3>5. \A y \in Assets \ {x} : lockData'[y] = lockData[y]
        BY <3>1 DEF TypeOK
      <3>6. lockData' \in [Assets -> LockData \cup {NoData}]
        BY <1>1, <3>1, <3>3, <3>4 DEF TypeOK
      <3> QED
        BY <1>1, <3>1, <3>2, <3>4, <3>5, <3>6
    <2> QED
      BY <2>2, <2>3
  <1>4. /\ locks' \in Seq(Lock) /\ Len(locks') = Len(locks) /\ DOMAIN locks' = DOMAIN locks
        /\ \A i \in DOMAIN locks :
              /\ locks'[i].locked = locks[i].locked /\ locks'[i].initial = locks[i].initial
              /\ locks'[i].asset = locks[i].asset
              /\ i # id => locks'[i] = locks[i]
    <2>1. [lock EXCEPT !.finish = TRUE] \in Lock
      BY <1>1 DEF Lock
    <2>2. locks' = [locks EXCEPT ![id] = [lock EXCEPT !.finish = TRUE]]
      BY <1>2
    <2>3. locks' \in Seq(Lock) /\ Len(locks') = Len(locks)
      BY <1>0, <2>1, <2>2, ExceptSeq DEF TypeOK
    <2>4. \A i \in DOMAIN locks : i # id => locks'[i] = locks[i]
      BY <2>2
    <2>5. locks'[id] = [lock EXCEPT !.finish = TRUE] /\ DOMAIN locks' = DOMAIN locks
      BY <2>2
    <2> QED
      BY <1>0, <1>1, <2>3, <2>4, <2>5 DEF Lock
  <1> HIDE DEF lock, x
  <1>5. \A b \in Accounts, y \in Assets :
            /\ \A i : i \in lockeds'[b][y] <=> i \in lockeds[b][y] /\ ~(b = a /\ y = x /\ i = id)
            /\ \A i \in lockeds[b][y] : i \in 1 .. Len(locks)
    BY <1>1, <1>2 DEF TypeOK
  <1>6. \A b \in Accounts, y \in Assets :
            /\ id \notin lockeds'[b][y]
            /\ \A i \in lockeds'[b][y] : i \in lockeds[b][y] /\ i # id /\ i \in DOMAIN locks
    <2>1. \A b \in Accounts, y \in Assets : id \in lockeds[b][y] => b = a /\ y = x
      BY <1>1, <1>2 DEF HeldOnce
    <2> QED
      BY <1>0, <1>5, <2>1
  <1>7. TypeOK'
    <2>1. balance' \in [Accounts -> [Assets -> Nat]]
      <3>1. balance[a][x] + paid \in Nat
        BY <1>1 DEF TypeOK
      <3> QED
        BY <1>1, <1>3, <3>1, AdjustedBalances
    <2>2. lockeds' \in [Accounts -> [Assets -> SUBSET (1 .. Len(locks'))]]
      BY <1>1, <1>2, <1>4 DEF TypeOK
    <2> QED
      BY <1>2, <1>3, <1>4, <2>1, <2>2 DEF TypeOK
  <1>8. HeldUnfinished'
    BY <1>4, <1>6 DEF HeldUnfinished
  <1>9. HeldOnce'
    BY <1>6 DEF HeldOnce
  <1>11. lockData'[x] # NoData
    BY <1>3, LockAssumption
  <1>12. CoreNamed'
    <2>1. lockData'[Core] # NoData
      BY <1>3, <1>11, LockAssumption DEF CoreNamed
    <2> QED
      BY <1>4, <1>6, <2>1, LockAssumption DEF CoreNamed
  <1>13. \A y \in Assets : PoolOf(y) \in Int
    BY DEF PoolOf, TypeOK, LockData
  <1>14. \A y \in Assets : PoolOf(y)' = PoolOf(y) + (IF x = y THEN back ELSE 0)
    <2>1. \A y \in Assets : y = x => PoolOf(y)' = PoolOf(y) + back
      BY <1>3, <1>11 DEF PoolOf
    <2>2. \A y \in Assets \ {x} : PoolOf(y)' = PoolOf(y)
      BY <1>3 DEF PoolOf
    <2> QED
      BY <1>13, <2>1, <2>2
  <1>16. SupplyConserved'
    <2> SUFFICES ASSUME NEW y \in Assets
                 PROVE  InBalances(balance', y) + InLocks(y)' + PoolOf(y)'
                          = InBalances(Endowment, y)
      BY DEF SupplyConserved, PoolOf
    <2>1. /\ InBalances(balance', y) = InBalances(balance, y) + (IF x = y THEN paid ELSE 0)
          /\ InBalances(balance, y) \in Nat
      <3>1. balance[a][x] + paid \in Nat
        BY <1>1 DEF TypeOK
      <3> QED
        BY <1>1, <1>3, <3>1, AdjustedBalances
    <2> DEFINE f == [i \in DOMAIN locks |-> locks[i].locked]
               g == [i \in DOMAIN locks' |-> locks'[i].locked]
    <2>2. f = g
      BY <1>4
    <2>3. /\ Outstanding(y) \subseteq DOMAIN locks /\ IsFiniteSet(Outstanding(y))
          /\ \A i \in Outstanding(y) : f[i] \in Nat
      BY <1>0, OutstandingTyped DEF Lock
    <2>4. f[id] = lock.locked
      BY DEF lock
    <2> HIDE DEF f, g
    <2>5. Outstanding(y)' = UNION {lockeds'[b][y] : b \in Accounts}
      BY <1>8 DEF HeldUnfinished, Outstanding
    <2>6. Outstanding(y) = UNION {lockeds[b][y] : b \in Accounts}
      BY OutstandingHeld
    <2>7. InLocks(y) = Sum(f, Outstanding(y)) /\ InLocks(y)' = Sum(f, Outstanding(y)')
      BY <2>2 DEF InLocks, f, g
    <2>8. InLocks(y)' = InLocks(y) - (IF x = y THEN lock.locked ELSE 0) /\ InLocks(y) \in Nat
      <3>1. CASE x = y
        <4>1. id \in Outstanding(y) /\ Outstanding(y)' = Outstanding(y) \ {id}
          BY <1>2, <1>5, <1>6, <2>5, <2>6, <3>1
        <4>2. Sum(f, Outstanding(y) \ {id}) = Sum(f, Outstanding(y)) - f[id]
          BY <2>3, <4>1, SumRemove
        <4> QED
          BY <2>4, <2>7, <3>1, <4>1, <4>2, InLocksType
      <3>2. CASE x # y
        <4>1. Outstanding(y)' = Outstanding(y)
          BY <1>5, <2>5, <2>6, <3>2
        <4> QED
          BY <2>7, <3>2, <4>1, InLocksType
      <3> QED
        BY <3>1, <3>2
    <2>9. InBalances(balance, y) + InLocks(y) + PoolOf(y) = InBalances(Endowment, y)
      BY DEF SupplyConserved, PoolOf
    <2> QED
      BY <1>1, <1>3, <1>13, <1>14, <2>1, <2>8, <2>9
  <1> QED
    BY <1>7, <1>8, <1>9, <1>12, <1>16

\* A new block changes only the time.
LEMMA DayStep == IInv /\ Day => IInv'
  <1> SUFFICES ASSUME IInv, Day PROVE IInv'
    OBVIOUS
  <1> USE DEF IInv, Shape, Day
  <1>1. TypeOK'
    BY DEF TypeOK
  <1>2. HeldUnfinished' /\ HeldOnce' /\ CoreNamed'
    BY DEF HeldUnfinished, HeldOnce, CoreNamed
  <1>3. SupplyConserved'
    BY DEF SupplyConserved, InLocks, Outstanding
  <1> QED
    BY <1>1, <1>2, <1>3

\* A restart makes all locks unfinished locks of the core asset; the amounts and
\* the sets of the accounts stay.
LEMMA RestartStep == IInv /\ restart => IInv'
  <1> SUFFICES ASSUME IInv, restart PROVE IInv'
    OBVIOUS
  <1> USE DEF IInv, Shape
  <1>0. /\ Len(locks) \in Nat /\ DOMAIN locks = 1 .. Len(locks)
        /\ \A i \in 1 .. Len(locks) : locks[i] \in Lock
    BY OutstandingTyped, LockAssumption
  <1>1. /\ locks' = [id \in 1 .. Len(locks) |-> Reloaded(locks[id])]
        /\ UNCHANGED <<balance, lockeds, lockData, lockedSupply, now>>
    BY <1>0 DEF restart
  <1>2. \A id \in 1 .. Len(locks) :
            /\ Reloaded(locks[id]) \in Lock
            /\ Reloaded(locks[id]).locked = locks[id].locked
            /\ Reloaded(locks[id]).initial = locks[id].initial
            /\ Reloaded(locks[id]).asset = Core
            /\ Reloaded(locks[id]).finish = FALSE
    BY <1>0, LockAssumption DEF Reloaded, Lock
  <1>3. locks' \in Seq(Lock) /\ Len(locks') = Len(locks) /\ DOMAIN locks' = DOMAIN locks
    <2>1. locks' \in [1 .. Len(locks) -> Lock]
      BY <1>1, <1>2
    <2> QED
      BY <1>0, <2>1, SeqDef, LenProperties
  <1>4. \A id \in 1 .. Len(locks) :
            /\ locks'[id].locked = locks[id].locked /\ locks'[id].initial = locks[id].initial
            /\ locks'[id].asset = Core /\ locks'[id].finish = FALSE
    BY <1>1, <1>2
  <1>5. \A a \in Accounts, x \in Assets : lockeds[a][x] \subseteq 1 .. Len(locks)
    BY DEF TypeOK
  <1>6. TypeOK'
    BY <1>1, <1>3 DEF TypeOK
  <1>7. HeldUnfinished' /\ HeldOnce' /\ CoreNamed'
    BY <1>0, <1>1, <1>3, <1>4, <1>5, LockAssumption
    DEF HeldUnfinished, HeldOnce, CoreNamed
  <1>8. \A x \in Assets : InLocks(x)' = InLocks(x)
    <2> SUFFICES ASSUME NEW x \in Assets PROVE InLocks(x)' = InLocks(x)
      OBVIOUS
    <2>1. Outstanding(x)' = Outstanding(x)
      <3>1. Outstanding(x) = UNION {lockeds[a][x] : a \in Accounts}
        BY OutstandingHeld
      <3>2. Outstanding(x)' = UNION {lockeds'[a][x] : a \in Accounts}
        BY <1>7 DEF HeldUnfinished, Outstanding
      <3> QED
        BY <1>1, <3>1, <3>2
    <2>2. [id \in DOMAIN locks' |-> locks'[id].locked] = [id \in DOMAIN locks |-> locks[id].locked]
      BY <1>0, <1>3, <1>4
    <2> QED
      BY <2>1, <2>2 DEF InLocks
  <1>9. SupplyConserved'
    BY <1>1, <1>8 DEF SupplyConserved
  <1> QED
    BY <1>6, <1>7, <1>9

-----------------------------------------------------------------------------
(* The theorems *)

LEMMA StepInv == IInv /\ [Next]_vars => IInv'
  <1> SUFFICES ASSUME IInv, [Next]_vars PROVE IInv'
    OBVIOUS
  <1>1. CASE UNCHANGED vars
    <2> USE <1>1 DEF vars
    <2>1. TypeOK' /\ HeldUnfinished' /\ HeldOnce'
      BY DEF IInv, Shape, TypeOK, HeldUnfinished, HeldOnce
    <2>2. CoreNamed'
      BY DEF IInv, Shape, CoreNamed
    <2>3. SupplyConserved'
      BY DEF IInv, SupplyConserved, InLocks, Outstanding
    <2> QED
      BY <2>1, <2>2, <2>3 DEF IInv, Shape
  <1>2. CASE Next
    BY <1>2, LockStep, SetLockDataStep, UnlockStep, DonationStep, DayStep, RestartStep
    DEF Next
  <1> QED
    BY <1>1, <1>2

LEMMA Invariant == Spec => []IInv
  BY InitInv, StepInv, PTL DEF Spec

\* The objects keep their types; in particular no balance of an account and no
\* lock ever falls below zero, whereas a pool may: that is why the pools are
\* integers.
THEOREM TypeCorrect == Spec => []TypeOK
  BY Invariant, PTL DEF IInv, Shape

\* verify_asset_supplies for locked balances: whatever is locked, unlocked
\* early or in time, donated to a pool or out of it, and forgotten by restarts,
\* no unit of any asset is made or lost.
THEOREM Conserved == Spec => []SupplyConserved
  BY Invariant, PTL DEF IInv

\* The holder of a lock in the core asset, and nobody else, can always unlock it
\* once, also after restarts that have lost the names of all assets.
THEOREM CoreRedeemable == Spec => []CoreLocksRedeemable
  <1>1. ASSUME IInv PROVE CoreLocksRedeemable
    <2> USE <1>1 DEF IInv, Shape
    <2>1. \A a \in Accounts : \A id \in lockeds[a][Core] : locks[id].locked >= 0
      <3>1. \A id \in 1 .. Len(locks) : locks[id] \in Lock
        BY OutstandingTyped, LockAssumption
      <3>2. \A a \in Accounts : lockeds[a][Core] \subseteq 1 .. Len(locks)
        BY LockAssumption DEF TypeOK
      <3> QED
        BY <3>1, <3>2 DEF Lock
    <2> QED
      BY <2>1, LockAssumption
      DEF CoreLocksRedeemable, RedeemableIn, Redeemable, CoreNamed, HeldUnfinished,
          HeldOnce
  <1> QED
    BY <1>1, Invariant, PTL
=============================================================================
