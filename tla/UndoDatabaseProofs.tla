------------------------- MODULE UndoDatabaseProofs -------------------------
(***************************************************************************)
(* For every number of objects, keys, payloads and every nesting depth the *)
(* stack size allows: rolling back restores the saved versions exactly and *)
(* never throws, and the undo database implements VersionStore.            *)
(*                                                                         *)
(* The inductive invariant relates each undo state to the two versions it  *)
(* lies between (Link), object by object.                                  *)
(***************************************************************************)
EXTENDS UndoDatabase, SequenceTheorems, TLAPS

OptObject == Object \cup {NoObject}

\* A version of the index as create and remove leave it.
Sound(v) ==
    /\ UniqueKeys(v.objs)
    /\ \A id \in ObjectId : v.objs[id] # NoObject => id < v.next_id

\* What undo state st says of one object that was a in the older version and
\* is b in the newer one.
LinkAt(st, id, a, b, next) ==
    /\ id \in st.new_ids =>
          /\ a = NoObject /\ b # NoObject /\ next <= id
          /\ st.old_values[id] = NoObject /\ st.removed[id] = NoObject
    /\ st.old_values[id] # NoObject =>
          /\ a = st.old_values[id] /\ b # NoObject /\ b.key = a.key
          /\ st.removed[id] = NoObject
    /\ st.removed[id] # NoObject => a = st.removed[id] /\ b = NoObject
    /\ id \notin st.new_ids /\ st.old_values[id] = NoObject
       /\ st.removed[id] = NoObject => a = b

\* Undo state st lies between the older version v and the newer version w.
Link(v, w, st) ==
    /\ v.next_id <= w.next_id
    /\ IF st.old_index_next_ids = NoId
       THEN v.next_id = w.next_id
       ELSE st.old_index_next_ids = v.next_id
    /\ \A id \in ObjectId : LinkAt(st, id, v.objs[id], w.objs[id], v.next_id)

\* The saved versions sv, the undo states sk and the current version cur form
\* one chain.
After(sv, cur, i) == IF i = Len(sv) THEN cur ELSE sv[i + 1]

Chained(sv, sk, cur) ==
    /\ Sound(cur)
    /\ \A i \in 1 .. Len(sv) :
          Sound(sv[i]) /\ Link(sv[i], After(sv, cur, i), sk[i])

\* Only the outermost session can be one that has to disable tracking again,
\* and then every undo state on the stack belongs to a live session.
ForcedSessions ==
    \A i \in 1 .. Len(sessions) :
        sessions[i] => i = 1 /\ Len(stack) = Len(sessions)

IInv ==
    /\ TypeOK
    /\ SessionsHaveUndoStates
    /\ Len(sessions) <= MaxNesting
    /\ ForcedSessions
    /\ NoHistoryWhileDisabled
    /\ Chained(saved, stack, Current)

-----------------------------------------------------------------------------
(* Sequences *)

\* Dropping the last element keeps the others in place.
LEMMA FrontProps ==
    ASSUME NEW S, NEW s \in Seq(S), Len(s) >= 1
    PROVE  /\ AllButLast(s) \in Seq(S)
           /\ Len(AllButLast(s)) = Len(s) - 1
           /\ \A i \in 1 .. Len(s) - 1 : AllButLast(s)[i] = s[i]
  <1>1. Len(s) \in Nat /\ \A i \in 1 .. Len(s) - 1 : s[i] \in S
    BY LenProperties
  <1> DEFINE F == SubSeq(s, 1, Len(s) - 1)
  <1>2. /\ F \in Seq(S)
        /\ Len(F) = IF 1 <= Len(s) - 1 THEN (Len(s) - 1) - 1 + 1 ELSE 0
        /\ \A i \in 1 .. (Len(s) - 1) - 1 + 1 : F[i] = s[1 + i - 1]
    BY <1>1, SubSeqProperties
  <1> HIDE DEF F
  <1>3. Len(F) = Len(s) - 1
    <2>1. \A n \in Nat : n >= 1 =>
              n - 1 = IF 1 <= n - 1 THEN (n - 1) - 1 + 1 ELSE 0
      OBVIOUS
    <2> QED
      BY ONLY <1>1, <1>2, <2>1, Len(s) >= 1
  <1>4. ASSUME NEW i \in 1 .. Len(s) - 1 PROVE F[i] = s[i]
    BY <1>1, <1>2
  <1> QED
    BY <1>2, <1>3, <1>4 DEF F, AllButLast

\* start_undo_session's trimming keeps a suffix of the stack.
LEMMA TrimProps ==
    ASSUME NEW S, NEW s \in Seq(S), max_size \in Nat
    PROVE  /\ Trimmed(s) \in Seq(S)
           /\ Len(Trimmed(s)) = IF Len(s) > max_size THEN max_size ELSE Len(s)
           /\ \A i \in 1 .. Len(Trimmed(s)) :
                 Trimmed(s)[i] = s[i + (Len(s) - Len(Trimmed(s)))]
  <1>1. Len(s) \in Nat /\ \A i \in 1 .. Len(s) : s[i] \in S
    BY LenProperties
  <1>2. CASE Len(s) > max_size
    <2> DEFINE m == Len(s) - max_size + 1
    <2>1. m \in Int /\ m >= 1 /\ \A i \in m .. Len(s) : s[i] \in S
      BY <1>1, <1>2
    <2>2. /\ SubSeq(s, m, Len(s)) \in Seq(S)
          /\ Len(SubSeq(s, m, Len(s))) = IF m <= Len(s) THEN Len(s) - m + 1 ELSE 0
          /\ \A i \in 1 .. Len(s) - m + 1 :
                SubSeq(s, m, Len(s))[i] = s[m + i - 1]
      BY <1>1, <2>1, SubSeqProperties
    <2>3. Trimmed(s) = SubSeq(s, m, Len(s))
      BY <1>2 DEF Trimmed
    <2>4. Len(Trimmed(s)) = max_size
      BY <1>1, <1>2, <2>2, <2>3
    <2> QED
      BY <1>1, <1>2, <2>2, <2>3, <2>4
  <1>3. CASE ~(Len(s) > max_size)
    BY <1>1, <1>3 DEF Trimmed
  <1> QED
    BY <1>2, <1>3

-----------------------------------------------------------------------------
(* One undo state *)

\* An undo state between v and w turns w back into v.
LEMMA LinkUndone ==
    ASSUME NEW v \in Store, NEW w \in Store, NEW st \in undo_state,
           Link(v, w, st)
    PROVE  Undone(w, st) = v
  <1>1. \A id \in ObjectId : Undone(w, st).objs[id] = v.objs[id]
    BY DEF Undone, Reinsert, DropNew, RestoreOld, Link, LinkAt, Store,
           undo_state, ObjectMap
  <1>2. Undone(w, st).objs = v.objs
    BY <1>1 DEF Undone, Reinsert, Store, ObjectMap
  <1>3. Undone(w, st).next_id = v.next_id
    BY DEF Undone, Link
  <1> QED
    BY <1>2, <1>3 DEF Undone, Store

\* ... and none of the checks on the way fails.
LEMMA LinkAsserts ==
    ASSUME NEW v \in Store, NEW w \in Store, NEW st \in undo_state,
           Link(v, w, st), UniqueKeys(v.objs), UniqueKeys(w.objs)
    PROVE  UndoAsserts(w.objs, st)
  <1>1. Reinsert(DropNew(RestoreOld(w.objs, st), st), st) = v.objs
    BY LinkUndone DEF Undone
  <1>2. UniqueKeys(RestoreOld(w.objs, st))
    BY DEF UniqueKeys, RestoreOld, Link, LinkAt
  <1>3. \A id \in st.new_ids : RestoreOld(w.objs, st)[id] # NoObject
    BY DEF RestoreOld, Link, LinkAt, undo_state
  <1>4. \A id \in ObjectId : st.removed[id] # NoObject
            => DropNew(RestoreOld(w.objs, st), st)[id] = NoObject
    BY DEF DropNew, RestoreOld, Link, LinkAt
  <1>5. \A id \in ObjectId : st.old_values[id] # NoObject => w.objs[id] # NoObject
    BY DEF Link, LinkAt
  <1> QED
    BY <1>1, <1>2, <1>3, <1>4, <1>5 DEF UndoAsserts

\* merge() composes two adjacent undo states.
LEMMA LinkMerge ==
    ASSUME NEW u \in Store, NEW v \in Store, NEW w \in Store,
           NEW A \in undo_state, NEW B \in undo_state,
           Sound(u), Sound(v), Link(u, v, A), Link(v, w, B)
    PROVE  Link(u, w, MergedStates(A, B))
  <1> DEFINE M == MergedStates(A, B)
  <1>1. u.next_id <= w.next_id
    BY DEF Link, Store
  <1>2. IF M.old_index_next_ids = NoId
        THEN u.next_id = w.next_id ELSE M.old_index_next_ids = u.next_id
    BY DEF Link, MergedStates, MergedNewIds, MergedRemoved
  <1>3. ASSUME NEW id \in ObjectId
        PROVE  LinkAt(M, id, u.objs[id], w.objs[id], u.next_id)
    <2>1. /\ id \in M.new_ids <=>
                 id \in A.new_ids \cup B.new_ids /\ B.removed[id] = NoObject
          /\ MergedOld(A, B)[id] = IF B.old_values[id] # NoObject
                 /\ id \notin A.new_ids /\ A.old_values[id] = NoObject
              THEN B.old_values[id] ELSE A.old_values[id]
      BY DEF MergedStates, MergedNewIds, MergedRemoved, MergedOld,
             undo_state
    <2>2. /\ M.old_values[id] =
                IF B.removed[id] # NoObject /\ id \notin A.new_ids \cup B.new_ids
                THEN NoObject ELSE MergedOld(A, B)[id]
          /\ M.removed[id] =
                IF B.removed[id] = NoObject \/ id \in A.new_ids \cup B.new_ids
                THEN A.removed[id]
                ELSE IF MergedOld(A, B)[id] # NoObject
                     THEN MergedOld(A, B)[id] ELSE B.removed[id]
      BY DEF MergedStates, MergedNewIds, MergedRemoved
    <2>3. /\ LinkAt(A, id, u.objs[id], v.objs[id], u.next_id)
          /\ LinkAt(B, id, v.objs[id], w.objs[id], v.next_id)
          /\ u.next_id <= v.next_id
          /\ u.objs[id] # NoObject => id < u.next_id
      BY DEF Link, Sound
    <2>4. u.next_id \in Nat /\ v.next_id \in Nat /\ id \in Int
      BY BoundsAssumption DEF Store, ObjectId
    <2> HIDE DEF M
    <2> QED
      BY <2>1, <2>2, <2>3, <2>4 DEF LinkAt
  <1> QED
    BY <1>1, <1>2, <1>3 DEF Link

\* A session starts with nothing to undo.
LEMMA LinkEmpty ==
    ASSUME NEW v \in Store
    PROVE  EmptyUndo \in undo_state /\ Link(v, v, EmptyUndo)
  BY DEF EmptyUndo, undo_state, NoObjects, ObjectMap, Link, LinkAt, Store, NoId

\* The three tracking callbacks extend an undo state by one change of one
\* object, whatever that undo state already holds.
LEMMA LinkCreate ==
    ASSUME NEW v \in Store, NEW w \in Store, NEW st \in undo_state,
           Link(v, w, st), Sound(v), Sound(w), NEW obj \in Object,
           w.next_id \in ObjectId
    PROVE  /\ on_create(st, w.next_id) \in undo_state
           /\ Link(v, [objs |-> [w.objs EXCEPT ![w.next_id] = obj],
                       next_id |-> w.next_id + 1], on_create(st, w.next_id))
  <1> DEFINE n == w.next_id
             x == [objs |-> [w.objs EXCEPT ![n] = obj], next_id |-> n + 1]
             t == on_create(st, n)
  <1>1. /\ n \in Nat /\ v.next_id \in Nat /\ v.next_id <= n
        /\ w.objs[n] = NoObject /\ obj # NoObject
    BY NoObjectAssumption DEF Link, Store, Sound
  <1>2. /\ t \in undo_state
        /\ t.old_values = st.old_values /\ t.removed = st.removed
        /\ t.new_ids = st.new_ids \cup {n}
        /\ t.old_index_next_ids =
              IF st.old_index_next_ids = NoId THEN n ELSE st.old_index_next_ids
    BY <1>1 DEF on_create, undo_state
  <1>3. ASSUME NEW id \in ObjectId
        PROVE  LinkAt(t, id, v.objs[id], x.objs[id], v.next_id)
    <2>1. LinkAt(st, id, v.objs[id], w.objs[id], v.next_id)
      BY DEF Link
    <2>2. CASE id = n
      <3>1. x.objs[id] = obj
        BY <2>2 DEF Store, ObjectMap
      <3>2. st.removed[n] = NoObject
        <4>1. v.objs[n] # NoObject => n < v.next_id
          BY DEF Sound
        <4> QED
          BY <1>1, <2>1, <2>2, <4>1 DEF LinkAt
      <3> QED
        BY <1>1, <1>2, <2>1, <2>2, <3>1, <3>2 DEF LinkAt
    <2>3. CASE id # n
      <3>1. x.objs[id] = w.objs[id]
        BY <2>3 DEF Store, ObjectMap
      <3> QED
        BY <1>2, <2>1, <2>3, <3>1 DEF LinkAt
    <2> QED
      BY <2>2, <2>3
  <1>4. /\ v.next_id <= x.next_id
        /\ IF t.old_index_next_ids = NoId
           THEN v.next_id = x.next_id ELSE t.old_index_next_ids = v.next_id
    BY <1>1, <1>2 DEF Link, NoId
  <1> QED
    BY <1>2, <1>3, <1>4 DEF Link

LEMMA LinkModify ==
    ASSUME NEW v \in Store, NEW w \in Store, NEW st \in undo_state,
           Link(v, w, st), NEW k \in ObjectId, NEW payload \in Payloads,
           w.objs[k] # NoObject
    PROVE  /\ on_modify(st, k, w.objs[k]) \in undo_state
           /\ Link(v, [objs |-> [w.objs EXCEPT ![k] =
                          [key |-> w.objs[k].key, payload |-> payload]],
                       next_id |-> w.next_id], on_modify(st, k, w.objs[k]))
  <1> DEFINE obj == [key |-> w.objs[k].key, payload |-> payload]
             x == [objs |-> [w.objs EXCEPT ![k] = obj], next_id |-> w.next_id]
             t == on_modify(st, k, w.objs[k])
  <1>1. w.objs[k] \in Object /\ obj \in Object /\ obj # NoObject
        /\ obj.key = w.objs[k].key
    BY NoObjectAssumption DEF Store, ObjectMap, Object
  <1>2. /\ t \in undo_state
        /\ t.removed = st.removed /\ t.new_ids = st.new_ids
        /\ t.old_index_next_ids = st.old_index_next_ids
    BY <1>1 DEF on_modify, undo_state, ObjectMap
  <1>3. \A id \in ObjectId : t.old_values[id] =
            IF id = k /\ k \notin st.new_ids /\ st.old_values[k] = NoObject
            THEN w.objs[k] ELSE st.old_values[id]
    BY DEF on_modify, undo_state, ObjectMap
  <1>4. ASSUME NEW id \in ObjectId
        PROVE  LinkAt(t, id, v.objs[id], x.objs[id], v.next_id)
    <2>1. LinkAt(st, id, v.objs[id], w.objs[id], v.next_id)
      BY DEF Link
    <2>2. x.objs[id] = IF id = k THEN obj ELSE w.objs[id]
      BY DEF Store, ObjectMap
    <2> HIDE DEF x, t, obj
    <2>3. CASE id = k
      BY <1>1, <1>2, <1>3, <2>1, <2>2, <2>3 DEF LinkAt
    <2>4. CASE id # k
      BY <1>2, <1>3, <2>1, <2>2, <2>4 DEF LinkAt
    <2> QED
      BY <2>3, <2>4
  <1> QED
    BY <1>2, <1>4 DEF Link

LEMMA LinkRemove ==
    ASSUME NEW v \in Store, NEW w \in Store, NEW st \in undo_state,
           Link(v, w, st), NEW k \in ObjectId, w.objs[k] # NoObject
    PROVE  /\ on_remove(st, k, w.objs[k]) \in undo_state
           /\ Link(v, [objs |-> [w.objs EXCEPT ![k] = NoObject],
                       next_id |-> w.next_id], on_remove(st, k, w.objs[k]))
  <1> DEFINE x == [objs |-> [w.objs EXCEPT ![k] = NoObject],
                   next_id |-> w.next_id]
             t == on_remove(st, k, w.objs[k])
  <1>1. w.objs[k] \in Object
    BY DEF Store, ObjectMap
  <1>2. LinkAt(st, k, v.objs[k], w.objs[k], v.next_id)
    BY DEF Link
  <1>3. st.removed[k] = NoObject
    BY <1>2 DEF LinkAt
  <1>4. /\ t \in undo_state
        /\ t.new_ids = st.new_ids \ {k}
        /\ t.old_index_next_ids = st.old_index_next_ids
    BY <1>1, <1>3 DEF on_remove, undo_state, ObjectMap
  <1>5. \A id \in ObjectId :
            /\ t.old_values[id] =
                  IF id = k /\ k \notin st.new_ids THEN NoObject
                  ELSE st.old_values[id]
            /\ t.removed[id] =
                  IF id # k \/ k \in st.new_ids THEN st.removed[id]
                  ELSE IF st.old_values[k] # NoObject THEN st.old_values[k]
                  ELSE w.objs[k]
    BY <1>3 DEF on_remove, undo_state, ObjectMap
  <1>6. ASSUME NEW id \in ObjectId
        PROVE  LinkAt(t, id, v.objs[id], x.objs[id], v.next_id)
    <2>1. LinkAt(st, id, v.objs[id], w.objs[id], v.next_id)
      BY DEF Link
    <2>2. x.objs[id] = IF id = k THEN NoObject ELSE w.objs[id]
      BY DEF Store, ObjectMap
    <2> HIDE DEF x, t
    <2>3. CASE id = k
      BY <1>3, <1>4, <1>5, <2>1, <2>2, <2>3 DEF LinkAt
    <2>4. CASE id # k
      BY <1>4, <1>5, <2>1, <2>2, <2>4 DEF LinkAt
    <2> QED
      BY <2>3, <2>4
  <1> QED
    BY <1>4, <1>6 DEF Link

LEMMA MergedType ==
    ASSUME NEW A \in undo_state, NEW B \in undo_state
    PROVE  MergedStates(A, B) \in undo_state
  <1>1. MergedOld(A, B) \in ObjectMap
    BY DEF MergedOld, ObjectMap, undo_state
  <1> QED
    BY <1>1 DEF MergedStates, MergedNewIds, MergedRemoved,
                ObjectMap, undo_state

-----------------------------------------------------------------------------
(* The whole stack *)

\* A tracked change replaces the newest undo state and the current version.
LEMMA ChainTrack ==
    ASSUME NEW sv \in Seq(Store), NEW sk \in Seq(undo_state),
           NEW cur \in Store, NEW x \in Store, NEW st \in undo_state,
           Len(sv) = Len(sk), Len(sk) >= 1, Chained(sv, sk, cur),
           Sound(x), Link(sv[Len(sv)], x, st)
    PROVE  /\ [sk EXCEPT ![Len(sk)] = st] \in Seq(undo_state)
           /\ Len([sk EXCEPT ![Len(sk)] = st]) = Len(sk)
           /\ Chained(sv, [sk EXCEPT ![Len(sk)] = st], x)
  <1>1. Len(sk) \in Nat /\ Len(sk) \in 1 .. Len(sk)
    BY LenProperties
  <1> DEFINE tk == [sk EXCEPT ![Len(sk)] = st]
  <1>2. /\ tk \in Seq(undo_state)
        /\ Len(tk) = Len(sk)
        /\ \A i \in 1 .. Len(sk) : tk[i] = IF i = Len(sk) THEN st ELSE sk[i]
    BY <1>1, ExceptSeq
  <1> HIDE DEF tk
  <1>3. ASSUME NEW i \in 1 .. Len(sv)
        PROVE  Sound(sv[i]) /\ Link(sv[i], After(sv, x, i), tk[i])
    <2>1. Sound(sv[i]) /\ Link(sv[i], After(sv, cur, i), sk[i])
      BY DEF Chained
    <2>2. CASE i = Len(sv)
      BY <1>2, <2>1, <2>2 DEF After
    <2>3. CASE i # Len(sv)
      BY <1>2, <2>1, <2>3 DEF After
    <2> QED
      BY <2>2, <2>3
  <1>4. Chained(sv, tk, x)
    BY <1>3 DEF Chained
  <1> QED
    BY <1>2, <1>4 DEF tk

\* Taking the newest undo state off the stack leaves the chain that ends in
\* its version.
LEMMA ChainFront ==
    ASSUME NEW sv \in Seq(Store), NEW sk \in Seq(undo_state),
           NEW cur \in Store,
           Len(sv) = Len(sk), Len(sv) >= 1, Chained(sv, sk, cur)
    PROVE  /\ Chained(AllButLast(sv), AllButLast(sk), sv[Len(sv)])
           /\ Sound(sv[Len(sv)])
           /\ Link(sv[Len(sv)], cur, sk[Len(sv)])
  <1>1. Len(sv) \in Nat /\ Len(sv) \in 1 .. Len(sv)
    BY LenProperties
  <1>2. /\ Len(AllButLast(sv)) = Len(sv) - 1
        /\ \A i \in 1 .. Len(sv) - 1 :
              AllButLast(sv)[i] = sv[i] /\ AllButLast(sk)[i] = sk[i]
    BY FrontProps
  <1> DEFINE fv == AllButLast(sv)
             fk == AllButLast(sk)
             l == sv[Len(sv)]
  <1>3. ASSUME NEW i \in 1 .. Len(sv) - 1
        PROVE  Sound(fv[i]) /\ Link(fv[i], After(fv, l, i), fk[i])
    <2>1. i \in 1 .. Len(sv) /\ i # Len(sv)
          /\ (i # Len(sv) - 1 => i + 1 \in 1 .. Len(sv) - 1)
      BY <1>1
    <2>2. Sound(sv[i]) /\ Link(sv[i], sv[i + 1], sk[i])
      BY <2>1 DEF Chained, After
    <2>3. After(fv, l, i) = sv[i + 1]
      BY <1>1, <1>2, <2>1 DEF After
    <2> QED
      BY <1>2, <2>2, <2>3
  <1>4. Sound(l) /\ Link(l, cur, sk[Len(sv)])
    BY <1>1 DEF Chained, After
  <1> QED
    BY <1>2, <1>3, <1>4 DEF Chained

\* A new session on a trimmed stack.
LEMMA ChainBegin ==
    ASSUME NEW sv \in Seq(Store), NEW sk \in Seq(undo_state),
           NEW cur \in Store, max_size \in Nat,
           Len(sv) = Len(sk), Chained(sv, sk, cur)
    PROVE  Chained(Append(Trimmed(sv), cur), Append(Trimmed(sk), EmptyUndo), cur)
  <1> DEFINE tv == Trimmed(sv)
             tk == Trimmed(sk)
             av == Append(tv, cur)
             ak == Append(tk, EmptyUndo)
             n == Len(tv)
             d == Len(sv) - n
  <1>1. /\ tv \in Seq(Store) /\ tk \in Seq(undo_state)
        /\ Len(tk) = n /\ n \in Nat /\ d \in Nat /\ Len(sv) = n + d
        /\ \A i \in 1 .. n : tv[i] = sv[i + d] /\ tk[i] = sk[i + d]
    <2>1. /\ tv \in Seq(Store)
          /\ Len(tv) = IF Len(sv) > max_size THEN max_size ELSE Len(sv)
          /\ \A i \in 1 .. Len(tv) : tv[i] = sv[i + (Len(sv) - Len(tv))]
      BY TrimProps
    <2>2. /\ tk \in Seq(undo_state)
          /\ Len(tk) = IF Len(sk) > max_size THEN max_size ELSE Len(sk)
          /\ \A i \in 1 .. Len(tk) : tk[i] = sk[i + (Len(sk) - Len(tk))]
      BY TrimProps
    <2>3. Len(sv) \in Nat
      BY LenProperties
    <2> HIDE DEF tv, tk
    <2>4. Len(tk) = Len(tv)
      BY <2>1, <2>2
    <2>5. \A a, m \in Nat : \A b : b = (IF a > m THEN m ELSE a) =>
              b \in Nat /\ a - b \in Nat /\ a = b + (a - b)
      OBVIOUS
    <2>6. n \in Nat /\ d \in Nat /\ Len(sv) = n + d
      BY ONLY <2>1, <2>3, <2>5, max_size \in Nat
    <2> QED
      BY <2>1, <2>2, <2>4, <2>6
  <1>2. EmptyUndo \in undo_state /\ Link(cur, cur, EmptyUndo)
    BY LinkEmpty
  <1>3. /\ Len(av) = n + 1
        /\ \A i \in 1 .. n : av[i] = tv[i] /\ ak[i] = tk[i]
        /\ av[n + 1] = cur /\ ak[n + 1] = EmptyUndo
    BY <1>1, <1>2, AppendProperties
  <1> HIDE DEF tv, tk, av, ak, n, d
  <1>4. ASSUME NEW i \in 1 .. n + 1
        PROVE  Sound(av[i]) /\ Link(av[i], After(av, cur, i), ak[i])
    <2>1. CASE i = n + 1
      BY <1>2, <1>3, <2>1 DEF Chained, After
    <2>2. CASE i # n + 1
      <3>1. /\ i \in 1 .. n /\ i # Len(av) /\ i + 1 \in 1 .. n + 1
            /\ i + d \in 1 .. Len(sv) /\ (i = n <=> i + d = Len(sv))
            /\ (i + 1) + d = (i + d) + 1
            /\ (i # n => i + 1 \in 1 .. n)
        BY <1>1, <1>3, <2>2
      <3>2. /\ Sound(sv[i + d])
            /\ Link(sv[i + d], After(sv, cur, i + d), sk[i + d])
        BY <3>1 DEF Chained
      <3>3. After(av, cur, i) = After(sv, cur, i + d)
        <4>1. CASE i = n
          BY <1>3, <3>1, <4>1 DEF After
        <4>2. CASE i # n
          <5>1. av[i + 1] = sv[(i + d) + 1]
            BY <1>1, <1>3, <3>1, <4>2
          <5> QED
            BY <3>1, <4>2, <5>1 DEF After
        <4> QED
          BY <4>1, <4>2
      <3> QED
        BY <1>1, <1>3, <3>1, <3>2, <3>3
    <2> QED
      BY <2>1, <2>2
  <1>5. Sound(cur)
    BY DEF Chained
  <1>6. Chained(av, ak, cur)
    BY <1>3, <1>4, <1>5 DEF Chained
  <1> QED
    BY <1>6 DEF av, ak, tv, tk

\* Merging the two newest undo states.
LEMMA ChainMerge ==
    ASSUME NEW sv \in Seq(Store), NEW sk \in Seq(undo_state),
           NEW cur \in Store,
           Len(sv) = Len(sk), Len(sv) >= 2, Chained(sv, sk, cur),
           NEW M, M = MergedStates(sk[Len(sk) - 1], sk[Len(sk)])
    PROVE  /\ [AllButLast(sk) EXCEPT ![Len(sk) - 1] = M] \in Seq(undo_state)
           /\ Len([AllButLast(sk) EXCEPT ![Len(sk) - 1] = M]) = Len(sk) - 1
           /\ Chained(AllButLast(sv), [AllButLast(sk) EXCEPT ![Len(sk) - 1] = M], cur)
  <1> DEFINE fv == AllButLast(sv)
             fk == AllButLast(sk)
             n == Len(sv)
  <1>1. /\ n \in Nat /\ n - 1 \in 1 .. n - 1 /\ n - 1 \in 1 .. n /\ n \in 1 .. n
        /\ sv[n - 1] \in Store /\ sv[n] \in Store
        /\ sk[n - 1] \in undo_state /\ sk[n] \in undo_state
    BY LenProperties
  <1>2. /\ fv \in Seq(Store) /\ fk \in Seq(undo_state)
        /\ Len(fv) = n - 1 /\ Len(fk) = n - 1 /\ fv[n - 1] = sv[n - 1]
    BY <1>1, FrontProps
  <1>3. Chained(fv, fk, sv[n]) /\ Sound(sv[n]) /\ Link(sv[n], cur, sk[n])
    BY ChainFront
  <1>4. Sound(sv[n - 1]) /\ Link(sv[n - 1], sv[n], sk[n - 1])
    BY <1>1 DEF Chained, After
  <1>5. M \in undo_state /\ Link(fv[Len(fv)], cur, M)
    BY <1>1, <1>2, <1>3, <1>4, LinkMerge, MergedType
  <1>6. Sound(cur)
    BY DEF Chained
  <1> HIDE DEF fv, fk
  <1>7. Len(fk) >= 1
    BY <1>1, <1>2
  <1>8. /\ [fk EXCEPT ![Len(fk)] = M] \in Seq(undo_state)
        /\ Len([fk EXCEPT ![Len(fk)] = M]) = Len(fk)
        /\ Chained(fv, [fk EXCEPT ![Len(fk)] = M], cur)
    BY <1>1, <1>2, <1>3, <1>5, <1>6, <1>7, ChainTrack
  <1> QED
    BY <1>2, <1>8 DEF fv, fk

-----------------------------------------------------------------------------
(* The steps *)

\* The current version is one of the versions.
LEMMA CurrentStore ==
    ASSUME TypeOK
    PROVE  Current \in Store /\ next_id \in Nat
  BY BoundsAssumption DEF TypeOK, Current, Store

\* Every change of the index is recorded by one call of the tracking code.
LEMMA TrackStep ==
    ASSUME IInv, NEW x \in Store, NEW st \in undo_state,
           objs' = x.objs, next_id' = x.next_id, x.next_id \in 0 .. MaxId + 1,
           Sound(x),
           \A v \in Store : Sound(v) /\ Link(v, Current, Top) => Link(v, x, st),
           Track(st)
    PROVE  IInv'
  <1>1. Current \in Store /\ Current' = x
    BY CurrentStore DEF IInv, Current, Store
  <1>2. /\ stack \in Seq(undo_state) /\ saved \in Seq(Store)
        /\ Len(saved) = Len(stack) /\ Len(stack) \in Nat /\ Len(sessions) \in Nat
        /\ Chained(saved, stack, Current) /\ Len(sessions) <= Len(stack)
    BY LenProperties DEF IInv, TypeOK, SessionsHaveUndoStates
  <1>3. /\ stack' \in Seq(undo_state) /\ saved' \in Seq(Store)
        /\ Len(saved') = Len(stack') /\ Len(stack') >= Len(stack)
        /\ (disabled => stack' = stack)
        /\ (Len(stack) >= 1 => Len(stack') = Len(stack))
        /\ Chained(saved', stack', x)
    <2>1. CASE disabled
      <3>1. Len(saved) = 0 /\ stack' = stack /\ saved' = saved /\ stack = << >>
        BY <1>2, <2>1 DEF IInv, NoHistoryWhileDisabled, Track
      <3> QED
        BY <1>2, <2>1, <3>1 DEF Chained
    <2>2. CASE ~disabled /\ stack = << >>
      <3>1. stack' = << st >> /\ saved' = << Current >> /\ Top = EmptyUndo
        BY <2>2 DEF Track, Top
      <3>2. Sound(Current) /\ Link(Current, x, st)
        BY <1>1, <1>2, <3>1, LinkEmpty DEF Chained
      <3>3. /\ stack' \in Seq(undo_state) /\ saved' \in Seq(Store)
            /\ Len(stack') = 1 /\ Len(saved') = 1
            /\ stack'[1] = st /\ saved'[1] = Current /\ Len(stack) = 0
        BY <1>1, <2>2, <3>1
      <3>4. Chained(saved', stack', x)
        BY <3>2, <3>3 DEF Chained, After
      <3> QED
        BY <2>2, <3>3, <3>4
    <2>3. CASE ~disabled /\ stack # << >>
      <3>1. /\ stack' = [stack EXCEPT ![Len(stack)] = st] /\ saved' = saved
            /\ Top = stack[Len(stack)] /\ Len(stack) >= 1
        BY <1>2, <2>3, EmptySeq DEF Track, Top
      <3>2. /\ Sound(saved[Len(saved)])
            /\ Link(saved[Len(saved)], Current, Top)
            /\ saved[Len(saved)] \in Store
        BY <1>1, <1>2, <3>1, ChainFront, LenProperties
      <3>3. Link(saved[Len(saved)], x, st)
        BY <3>2
      <3>4. /\ stack' \in Seq(undo_state) /\ Len(stack') = Len(stack)
            /\ Chained(saved', stack', x)
        <4>1. /\ [stack EXCEPT ![Len(stack)] = st] \in Seq(undo_state)
              /\ Len([stack EXCEPT ![Len(stack)] = st]) = Len(stack)
              /\ Chained(saved, [stack EXCEPT ![Len(stack)] = st], x)
          BY <1>1, <1>2, <3>1, <3>3, ChainTrack
        <4> QED
          BY <3>1, <4>1
      <3> QED
        BY <1>2, <2>3, <3>1, <3>4
    <2> QED
      BY <2>1, <2>2, <2>3
  <1>4. TypeOK'
    BY <1>3 DEF IInv, TypeOK, Track, Store
  <1>5. SessionsHaveUndoStates' /\ Len(sessions') <= MaxNesting
    BY <1>2, <1>3, LenProperties DEF IInv, SessionsHaveUndoStates, Track
  <1>6. ForcedSessions'
    <2>1. sessions' = sessions
      BY DEF Track
    <2>2. CASE Len(stack) >= 1
      BY <1>3, <2>1, <2>2 DEF IInv, ForcedSessions
    <2>3. CASE ~(Len(stack) >= 1)
      BY <1>2, <2>1, <2>3 DEF ForcedSessions
    <2> QED
      BY <2>2, <2>3
  <1>7. NoHistoryWhileDisabled'
    BY <1>3 DEF IInv, NoHistoryWhileDisabled, Track
  <1> QED
    BY <1>1, <1>3, <1>4, <1>5, <1>6, <1>7 DEF IInv

\* Applying the newest undo state brings its version back.
LEMMA ApplyTopStep ==
    ASSUME IInv, Len(stack) >= 1, ApplyTop
    PROVE  /\ Current' = saved[Len(saved)]
           /\ objs' \in ObjectMap /\ next_id' \in 0 .. MaxId + 1
           /\ stack' \in Seq(undo_state) /\ saved' \in Seq(Store)
           /\ Len(stack') = Len(stack) - 1 /\ Len(saved') = Len(stack')
           /\ Chained(saved', stack', Current')
  <1>1. /\ stack \in Seq(undo_state) /\ saved \in Seq(Store)
        /\ Len(saved) = Len(stack) /\ Current \in Store
        /\ Chained(saved, stack, Current)
    BY CurrentStore DEF IInv, TypeOK
  <1>2. /\ Top = stack[Len(stack)] /\ Top \in undo_state
        /\ saved[Len(saved)] \in Store
    BY <1>1, LenProperties DEF Top
  <1>3. /\ Link(saved[Len(saved)], Current, Top)
        /\ Chained(AllButLast(saved), AllButLast(stack), saved[Len(saved)])
    BY <1>1, <1>2, ChainFront
  <1>4. Undone(Current, Top) = saved[Len(saved)]
    BY <1>1, <1>2, <1>3, LinkUndone
  <1>5. Current' = saved[Len(saved)] /\ objs' \in ObjectMap /\ next_id' \in Nat
    BY <1>2, <1>4 DEF ApplyTop, Current, Store
  <1>6. next_id' <= next_id
    BY <1>3, <1>5 DEF Link, Current
  <1>7. next_id' \in 0 .. MaxId + 1
    BY <1>5, <1>6, BoundsAssumption DEF IInv, TypeOK
  <1> QED
    BY <1>1, <1>3, <1>5, <1>7, FrontProps DEF ApplyTop

\* The end of a session other than by commit, together with its undo state.
LEMMA EndSessionStep ==
    ASSUME IInv, sessions # << >>, EndSession, Len(stack') = Len(stack) - 1
    PROVE  /\ sessions' \in Seq(BOOLEAN) /\ active_sessions' \in Nat
           /\ disabled' \in BOOLEAN
           /\ SessionsHaveUndoStates' /\ Len(sessions') <= MaxNesting
           /\ ForcedSessions' /\ (disabled' => Len(stack') = 0 /\ sessions' = << >>)
  <1>1. /\ sessions \in Seq(BOOLEAN) /\ Len(sessions) \in Nat
        /\ Len(sessions) >= 1 /\ Len(stack) \in Nat /\ Len(sessions) <= Len(stack)
        /\ active_sessions = Len(sessions) /\ Len(sessions) <= MaxNesting
        /\ MaxNesting \in Nat
    BY LenProperties, EmptySeq, BoundsAssumption
       DEF IInv, TypeOK, SessionsHaveUndoStates
  <1>2. /\ sessions' \in Seq(BOOLEAN) /\ Len(sessions') = Len(sessions) - 1
        /\ \A i \in 1 .. Len(sessions) - 1 : sessions'[i] = sessions[i]
    BY <1>1, FrontProps DEF EndSession
  <1>3. SessionsHaveUndoStates' /\ active_sessions' \in Nat
        /\ Len(sessions') <= MaxNesting
    BY <1>1, <1>2 DEF EndSession, SessionsHaveUndoStates
  <1>4. ForcedSessions'
    <2> SUFFICES ASSUME NEW i \in 1 .. Len(sessions'), sessions'[i]
                 PROVE  i = 1 /\ Len(stack') = Len(sessions')
      BY DEF ForcedSessions
    <2>1. i \in 1 .. Len(sessions) /\ i \in 1 .. Len(sessions) - 1
      BY <1>1, <1>2
    <2>2. sessions[i]
      BY <1>2, <2>1
    <2> QED
      BY <1>1, <1>2, <2>1, <2>2 DEF IInv, ForcedSessions
  <1>5. disabled' = sessions[Len(sessions)] /\ disabled' \in BOOLEAN
    BY <1>1, LenProperties DEF EndSession
  <1>6. ASSUME disabled' PROVE Len(stack') = 0 /\ sessions' = << >>
    <2>1. Len(sessions) = 1 /\ Len(stack) = Len(sessions)
      <3>1. Len(sessions) \in 1 .. Len(sessions) /\ sessions[Len(sessions)]
        BY <1>1, <1>5, <1>6
      <3> QED
        BY <3>1 DEF IInv, ForcedSessions
    <2>2. Len(sessions') = 0
      BY <1>2, <2>1
    <2> QED
      BY <1>2, <2>1, <2>2, EmptySeq
  <1> QED
    BY <1>2, <1>3, <1>4, <1>5, <1>6

LEMMA TopType ==
    ASSUME TypeOK
    PROVE  Top \in undo_state
  <1>1. CASE stack = << >>
    BY <1>1, LinkEmpty, CurrentStore DEF Top
  <1>2. CASE stack # << >>
    BY <1>2, EmptySeq, LenProperties DEF Top, TypeOK
  <1> QED
    BY <1>1, <1>2

LEMMA CreateStep ==
    ASSUME IInv, NEW obj \in Object, create(obj)
    PROVE  IInv'
  <1> DEFINE x == [objs |-> [objs EXCEPT ![next_id] = obj],
                   next_id |-> next_id + 1]
             st == on_create(Top, next_id)
  <1>1. /\ Current \in Store /\ Top \in undo_state /\ Sound(Current)
        /\ next_id \in ObjectId /\ next_id \in Nat
        /\ Current.objs = objs /\ Current.next_id = next_id
    BY CurrentStore, TopType DEF IInv, Chained, create, Current
  <1>2. x \in Store /\ x.next_id \in 0 .. MaxId + 1
    BY <1>1, BoundsAssumption DEF Store, ObjectMap, IInv, TypeOK, ObjectId
  <1>3. Sound(x)
    <2>1. \A id \in ObjectId : x.objs[id] # NoObject => id < x.next_id
      BY <1>1, BoundsAssumption DEF Sound, ObjectId, ObjectMap, IInv, TypeOK
    <2> QED
      BY <2>1 DEF create, Sound
  <1>4. \A v \in Store : Sound(v) /\ Link(v, Current, Top) => Link(v, x, st)
    BY <1>1, LinkCreate
  <1>5. st \in undo_state
    BY <1>1 DEF on_create, undo_state
  <1>6. objs' = x.objs /\ next_id' = x.next_id /\ Track(st)
    BY DEF create
  <1> HIDE DEF x, st
  <1> QED
    BY <1>2, <1>3, <1>4, <1>5, <1>6, TrackStep

LEMMA ModifyStep ==
    ASSUME IInv, NEW id \in ObjectId, NEW payload \in Payloads,
           modify(id, payload)
    PROVE  IInv'
  <1> DEFINE obj == [key |-> objs[id].key, payload |-> payload]
             x == [objs |-> [objs EXCEPT ![id] = obj], next_id |-> next_id]
             st == on_modify(Top, id, objs[id])
  <1>1. /\ Current \in Store /\ Top \in undo_state /\ Sound(Current)
        /\ next_id \in Nat /\ objs \in ObjectMap /\ objs[id] # NoObject
        /\ Current.objs = objs /\ Current.next_id = next_id
    BY CurrentStore, TopType DEF IInv, TypeOK, Chained, modify, Current
  <1>2. objs[id] \in Object /\ obj \in Object /\ obj # NoObject
        /\ obj.key = objs[id].key
    BY <1>1, NoObjectAssumption DEF ObjectMap, Object
  <1>3. x \in Store /\ x.next_id \in 0 .. MaxId + 1
    BY <1>1, <1>2 DEF Store, ObjectMap, IInv, TypeOK
  <1>4. Sound(x)
    <2>1. \A k \in ObjectId : x.objs[k] = IF k = id THEN obj ELSE objs[k]
      BY <1>1 DEF ObjectMap
    <2>2. UniqueKeys(objs) /\ \A k \in ObjectId : objs[k] # NoObject => k < next_id
      BY <1>1 DEF Sound
    <2> HIDE DEF obj
    <2>3. UniqueKeys(x.objs)
      BY <1>1, <1>2, <2>1, <2>2 DEF UniqueKeys
    <2>4. \A k \in ObjectId : x.objs[k] # NoObject => k < x.next_id
      BY <1>1, <2>1, <2>2
    <2> QED
      BY <2>3, <2>4 DEF Sound
  <1>5. \A v \in Store : Sound(v) /\ Link(v, Current, Top) => Link(v, x, st)
    BY <1>1, LinkModify
  <1>6. st \in undo_state
    BY <1>1, <1>2 DEF on_modify, undo_state, ObjectMap
  <1>7. objs' = x.objs /\ next_id' = x.next_id /\ Track(st)
    BY DEF modify
  <1> HIDE DEF x, st
  <1> QED
    BY <1>3, <1>4, <1>5, <1>6, <1>7, TrackStep

LEMMA RemoveStep ==
    ASSUME IInv, NEW id \in ObjectId, remove(id)
    PROVE  IInv'
  <1> DEFINE x == [objs |-> [objs EXCEPT ![id] = NoObject], next_id |-> next_id]
             st == on_remove(Top, id, objs[id])
  <1>1. /\ Current \in Store /\ Top \in undo_state /\ Sound(Current)
        /\ next_id \in Nat /\ objs \in ObjectMap /\ objs[id] # NoObject
        /\ Current.objs = objs /\ Current.next_id = next_id
    BY CurrentStore, TopType DEF IInv, TypeOK, Chained, remove, Current
  <1>2. objs[id] \in Object
    BY <1>1 DEF ObjectMap
  <1>3. x \in Store /\ x.next_id \in 0 .. MaxId + 1
    BY <1>1 DEF Store, ObjectMap, IInv, TypeOK
  <1>4. Sound(x)
    BY <1>1 DEF Sound, UniqueKeys, ObjectMap
  <1>5. \A v \in Store : Sound(v) /\ Link(v, Current, Top) => Link(v, x, st)
    BY <1>1, LinkRemove
  <1>6. st \in undo_state
    BY <1>1, <1>2 DEF on_remove, undo_state, ObjectMap
  <1>7. objs' = x.objs /\ next_id' = x.next_id /\ Track(st)
    BY DEF remove
  <1> HIDE DEF x, st
  <1> QED
    BY <1>3, <1>4, <1>5, <1>6, <1>7, TrackStep

\* The trimming never reaches the undo state of a live session: this is where
\* the bound on the nesting depth is needed.
LEMMA BeginStep ==
    ASSUME IInv, NEW force \in BOOLEAN, start_undo_session(force)
    PROVE  IInv'
  <1>1. /\ stack \in Seq(undo_state) /\ saved \in Seq(Store)
        /\ sessions \in Seq(BOOLEAN) /\ disabled \in BOOLEAN
        /\ Len(saved) = Len(stack) /\ Current \in Store
        /\ Chained(saved, stack, Current)
        /\ EmptyUndo \in undo_state
    BY CurrentStore, LinkEmpty DEF IInv, TypeOK
  <1>2. /\ Len(stack) \in Nat /\ Len(sessions) \in Nat /\ max_size \in Nat
        /\ Len(sessions) <= Len(stack) /\ Len(sessions) < MaxNesting
        /\ MaxNesting \in Nat
        /\ Len(sessions) <= max_size
    <2>1. /\ Len(stack) \in Nat /\ Len(sessions) \in Nat
          /\ Len(sessions) <= Len(stack) /\ Len(sessions) < MaxNesting
      BY <1>1, LenProperties DEF IInv, SessionsHaveUndoStates, start_undo_session
    <2>2. max_size \in Nat /\ MinMaxSize <= max_size
      BY BoundsAssumption DEF IInv, TypeOK
    <2> QED
      BY <2>1, <2>2, BoundsAssumption, NestingAssumption
  <1> DEFINE tv == Trimmed(saved)
             tk == Trimmed(stack)
  <1>3. /\ tv \in Seq(Store) /\ tk \in Seq(undo_state)
        /\ Len(tk) = IF Len(stack) > max_size THEN max_size ELSE Len(stack)
        /\ Len(tv) = Len(tk)
    BY <1>1, <1>2, TrimProps
  <1> HIDE DEF tv, tk
  <1>4. /\ Len(tk) \in Nat /\ Len(sessions) <= Len(tk)
        /\ (Len(stack) = Len(sessions) => Len(tk) = Len(sessions))
    BY <1>2, <1>3
  <1>5. /\ stack' = Append(tk, EmptyUndo) /\ saved' = Append(tv, Current)
        /\ sessions' = Append(sessions, disabled)
        /\ Current' = Current
    BY DEF start_undo_session, tk, tv, Current
  <1>6. /\ stack' \in Seq(undo_state) /\ saved' \in Seq(Store)
        /\ sessions' \in Seq(BOOLEAN)
        /\ Len(stack') = Len(tk) + 1 /\ Len(saved') = Len(tv) + 1
        /\ Len(sessions') = Len(sessions) + 1
        /\ \A i \in 1 .. Len(sessions) : sessions'[i] = sessions[i]
        /\ sessions'[Len(sessions) + 1] = disabled
    BY <1>1, <1>3, <1>5, AppendProperties
  <1>7. Chained(saved', stack', Current')
    BY <1>1, <1>2, <1>5, ChainBegin DEF tv, tk
  <1>8. TypeOK'
    <2>1. /\ objs' = objs /\ next_id' = next_id /\ max_size' = max_size
          /\ active_sessions' \in Nat
      BY DEF IInv, TypeOK, start_undo_session
    <2>3. disabled' \in BOOLEAN
      BY DEF start_undo_session
    <2>2. Len(saved') = Len(stack')
      BY <1>3, <1>6
    <2> QED
      BY <1>6, <2>1, <2>2, <2>3 DEF IInv, TypeOK
  <1>9. SessionsHaveUndoStates' /\ Len(sessions') <= MaxNesting
    BY <1>2, <1>4, <1>6 DEF IInv, SessionsHaveUndoStates, start_undo_session
  <1>10. ForcedSessions'
    <2> SUFFICES ASSUME NEW i \in 1 .. Len(sessions'), sessions'[i]
                 PROVE  i = 1 /\ Len(stack') = Len(sessions')
      BY DEF ForcedSessions
    <2>1. CASE i = Len(sessions) + 1
      <3>1. disabled
        BY <1>6, <2>1
      <3>2. Len(stack) = 0 /\ Len(sessions) = 0
        BY <3>1 DEF IInv, NoHistoryWhileDisabled
      <3> QED
        BY <1>2, <1>4, <1>6, <2>1, <3>2
    <2>2. CASE i # Len(sessions) + 1
      <3>1. i \in 1 .. Len(sessions)
        BY <1>2, <1>6, <2>2
      <3>2. sessions[i]
        BY <1>6, <3>1
      <3> QED
        BY <1>4, <1>6, <3>1, <3>2 DEF IInv, ForcedSessions
    <2> QED
      BY <2>1, <2>2
  <1>11. NoHistoryWhileDisabled'
    BY DEF NoHistoryWhileDisabled, start_undo_session
  <1> QED
    BY <1>7, <1>8, <1>9, <1>10, <1>11 DEF IInv

LEMMA UndoStep ==
    ASSUME IInv, undo
    PROVE  IInv'
  <1>1. Len(stack) \in Nat /\ Len(stack) >= 1
    BY LenProperties, EmptySeq
       DEF undo, IInv, TypeOK, SessionsHaveUndoStates
  <1>2. /\ objs' \in ObjectMap /\ next_id' \in 0 .. MaxId + 1
        /\ stack' \in Seq(undo_state) /\ saved' \in Seq(Store)
        /\ Len(stack') = Len(stack) - 1 /\ Len(saved') = Len(stack')
        /\ Chained(saved', stack', Current')
    BY <1>1, ApplyTopStep DEF undo
  <1>3. /\ sessions' \in Seq(BOOLEAN) /\ active_sessions' \in Nat
        /\ disabled' \in BOOLEAN
        /\ SessionsHaveUndoStates' /\ Len(sessions') <= MaxNesting
        /\ ForcedSessions' /\ (disabled' => Len(stack') = 0 /\ sessions' = << >>)
    BY <1>2, EndSessionStep DEF undo
  <1>4. TypeOK'
    BY <1>2, <1>3 DEF undo, IInv, TypeOK
  <1>5. NoHistoryWhileDisabled'
    BY <1>2, <1>3, EmptySeq DEF NoHistoryWhileDisabled
  <1> QED
    BY <1>2, <1>3, <1>4, <1>5 DEF IInv

LEMMA MergeStep ==
    ASSUME IInv, merge
    PROVE  IInv'
  <1>1. /\ stack \in Seq(undo_state) /\ saved \in Seq(Store)
        /\ Len(saved) = Len(stack) /\ Current \in Store
        /\ Chained(saved, stack, Current) /\ Sound(Current)
        /\ Current' = Current
    BY CurrentStore DEF IInv, TypeOK, Chained, merge, Current
  <1>2. Len(stack) \in Nat /\ Len(stack) >= 1
    BY LenProperties, EmptySeq
       DEF merge, IInv, TypeOK, SessionsHaveUndoStates
  <1>3. saved' \in Seq(Store) /\ Len(saved') = Len(stack) - 1
        /\ saved' = AllButLast(saved)
    BY <1>1, <1>2, FrontProps DEF merge
  <1>4. /\ stack' \in Seq(undo_state) /\ Len(stack') = Len(stack) - 1
        /\ Chained(saved', stack', Current)
    <2>1. CASE active_sessions = 1 /\ Len(stack) = 1
      <3>1. stack' = << >>
        BY <2>1 DEF merge
      <3> QED
        BY <1>1, <1>3, <2>1, <3>1 DEF Chained
    <2>2. CASE ~(active_sessions = 1 /\ Len(stack) = 1)
      <3> DEFINE M == MergedStates(stack[Len(stack) - 1], stack[Len(stack)])
      <3>1. /\ Len(stack) >= 2
            /\ stack' = [AllButLast(stack) EXCEPT ![Len(stack) - 1] = M]
        <4>1. stack # << >>
          BY <1>2
        <4> QED
          BY <2>2, <4>1 DEF merge, Top
      <3> HIDE DEF M
      <3>2. /\ [AllButLast(stack) EXCEPT ![Len(stack) - 1] = M] \in Seq(undo_state)
            /\ Len([AllButLast(stack) EXCEPT ![Len(stack) - 1] = M]) = Len(stack) - 1
            /\ Chained(AllButLast(saved),
                   [AllButLast(stack) EXCEPT ![Len(stack) - 1] = M], Current)
        BY <1>1, <3>1, ChainMerge DEF M
      <3> QED
        BY <1>3, <3>1, <3>2
    <2> QED
      BY <2>1, <2>2
  <1>5. /\ sessions' \in Seq(BOOLEAN) /\ active_sessions' \in Nat
        /\ disabled' \in BOOLEAN
        /\ SessionsHaveUndoStates' /\ Len(sessions') <= MaxNesting
        /\ ForcedSessions' /\ (disabled' => Len(stack') = 0 /\ sessions' = << >>)
    BY <1>4, EndSessionStep DEF merge
  <1>6. TypeOK'
    BY <1>3, <1>4, <1>5 DEF merge, IInv, TypeOK
  <1>7. NoHistoryWhileDisabled'
    BY <1>4, <1>5, EmptySeq DEF NoHistoryWhileDisabled
  <1> QED
    BY <1>1, <1>4, <1>5, <1>6, <1>7 DEF IInv

\* A committed undo state stays on the stack.
LEMMA CommitStep ==
    ASSUME IInv, commit
    PROVE  IInv'
  <1>1. sessions = << FALSE >> /\ Len(sessions) = 1 /\ sessions[1] = FALSE
    BY DEF commit
  <1>2. sessions' \in Seq(BOOLEAN) /\ Len(sessions') = 0
    <2>1. sessions \in Seq(BOOLEAN) /\ Len(sessions) >= 1
      BY <1>1 DEF IInv, TypeOK
    <2>2. sessions' = AllButLast(sessions)
      BY DEF commit, EndSession
    <2>3. /\ AllButLast(sessions) \in Seq(BOOLEAN)
          /\ Len(AllButLast(sessions)) = Len(sessions) - 1
      BY <2>1, FrontProps
    <2> QED
      BY <1>1, <2>2, <2>3
  <1>3. disabled' = FALSE /\ active_sessions' = 0 /\ Current' = Current
    BY <1>1 DEF commit, EndSession, IInv, SessionsHaveUndoStates, Current
  <1>4. TypeOK'
    BY <1>2, <1>3 DEF IInv, TypeOK, commit
  <1>5. SessionsHaveUndoStates' /\ Len(sessions') <= MaxNesting
    BY <1>2, <1>3, LenProperties, BoundsAssumption
       DEF IInv, TypeOK, SessionsHaveUndoStates, commit
  <1>6. ForcedSessions' /\ NoHistoryWhileDisabled'
    BY <1>2, <1>3 DEF ForcedSessions, NoHistoryWhileDisabled
  <1> QED
    BY <1>3, <1>4, <1>5, <1>6 DEF IInv, commit

LEMMA PopCommitStep ==
    ASSUME IInv, pop_commit
    PROVE  IInv'
  <1>1. /\ Len(stack) \in Nat /\ Len(stack) >= 1
        /\ Len(sessions) = 0 /\ sessions' = sessions
    BY LenProperties, EmptySeq
       DEF pop_commit, IInv, TypeOK, SessionsHaveUndoStates
  <1>2. /\ objs' \in ObjectMap /\ next_id' \in 0 .. MaxId + 1
        /\ stack' \in Seq(undo_state) /\ saved' \in Seq(Store)
        /\ Len(stack') = Len(stack) - 1 /\ Len(saved') = Len(stack')
        /\ Chained(saved', stack', Current')
    BY <1>1, ApplyTopStep DEF pop_commit
  <1>3. TypeOK'
    BY <1>2 DEF pop_commit, IInv, TypeOK
  <1>4. SessionsHaveUndoStates' /\ Len(sessions') <= MaxNesting
    BY <1>1, <1>2 DEF pop_commit, IInv, SessionsHaveUndoStates
  <1>5. ForcedSessions' /\ NoHistoryWhileDisabled'
    BY <1>1 DEF ForcedSessions, NoHistoryWhileDisabled, pop_commit
  <1> QED
    BY <1>2, <1>3, <1>4, <1>5 DEF IInv

LEMMA SwitchStep ==
    ASSUME IInv, \/ \E n \in MinMaxSize .. MaxMaxSize : set_max_size(n)
                 \/ disable \/ enable
    PROVE  IInv'
  <1>1. /\ objs' = objs /\ next_id' = next_id /\ stack' = stack
        /\ active_sessions' = active_sessions /\ sessions' = sessions
        /\ saved' = saved /\ Current' = Current
        /\ max_size' \in MinMaxSize .. MaxMaxSize /\ disabled' \in BOOLEAN
    BY DEF set_max_size, disable, enable, IInv, TypeOK, Current
  <1>2. TypeOK' /\ SessionsHaveUndoStates' /\ ForcedSessions'
    BY <1>1 DEF IInv, TypeOK, SessionsHaveUndoStates, ForcedSessions
  <1>3. NoHistoryWhileDisabled'
    BY DEF IInv, NoHistoryWhileDisabled, set_max_size, disable, enable
  <1> QED
    BY <1>1, <1>2, <1>3 DEF IInv

-----------------------------------------------------------------------------
(* The theorems *)

LEMMA InitIInv == Init => IInv
  <1> SUFFICES ASSUME Init PROVE IInv
    OBVIOUS
  <1>1. /\ stack = << >> /\ saved = << >> /\ sessions = << >>
        /\ Len(saved) = 0 /\ Len(stack) = 0 /\ Len(sessions) = 0
    BY DEF Init
  <1>2. TypeOK
    <2>1. objs \in ObjectMap
      BY DEF Init, NoObjects, ObjectMap
    <2>2. /\ next_id \in 0 .. MaxId + 1 /\ active_sessions \in Nat
          /\ max_size \in MinMaxSize .. MaxMaxSize
      BY BoundsAssumption DEF Init
    <2>4. disabled \in BOOLEAN
      BY DEF Init
    <2>3. /\ stack \in Seq(undo_state) /\ sessions \in Seq(BOOLEAN)
          /\ saved \in Seq(Store)
      BY <1>1, EmptySeq
    <2> QED
      BY <1>1, <2>1, <2>2, <2>3, <2>4 DEF TypeOK
  <1>3. SessionsHaveUndoStates /\ Len(sessions) <= MaxNesting
    BY <1>1, BoundsAssumption DEF Init, SessionsHaveUndoStates
  <1>4. ForcedSessions /\ NoHistoryWhileDisabled
    BY <1>1 DEF ForcedSessions, NoHistoryWhileDisabled
  <1>5. Sound(Current)
    BY DEF Init, Sound, Current, UniqueKeys, NoObjects
  <1>6. Chained(saved, stack, Current)
    BY <1>1, <1>5 DEF Chained
  <1> QED
    BY <1>2, <1>3, <1>4, <1>6 DEF IInv

LEMMA NextIInv == IInv /\ [Next]_vars => IInv'
  <1> SUFFICES ASSUME IInv, [Next]_vars PROVE IInv'
    OBVIOUS
  <1>1. ASSUME NEW obj \in Object, create(obj) PROVE IInv'
    BY <1>1, CreateStep
  <1>2. ASSUME NEW id \in ObjectId, NEW payload \in Payloads, modify(id, payload)
        PROVE  IInv'
    BY <1>2, ModifyStep
  <1>3. ASSUME NEW id \in ObjectId, remove(id) PROVE IInv'
    BY <1>3, RemoveStep
  <1>4. ASSUME NEW force \in BOOLEAN, start_undo_session(force) PROVE IInv'
    BY <1>4, BeginStep
  <1>5. CASE undo
    BY <1>5, UndoStep
  <1>6. CASE merge
    BY <1>6, MergeStep
  <1>7. CASE commit
    BY <1>7, CommitStep
  <1>8. CASE pop_commit
    BY <1>8, PopCommitStep
  <1>9. CASE \/ \E n \in MinMaxSize .. MaxMaxSize : set_max_size(n)
             \/ disable \/ enable
    BY <1>9, SwitchStep
  <1>10. CASE UNCHANGED vars
    <2>1. Current' = Current
      BY <1>10 DEF vars, Current
    <2> QED
      BY <1>10, <2>1 DEF vars, IInv, TypeOK, SessionsHaveUndoStates,
                         ForcedSessions, NoHistoryWhileDisabled
  <1> QED
    BY <1>1, <1>2, <1>3, <1>4, <1>5, <1>6, <1>7, <1>8, <1>9, <1>10 DEF Next

LEMMA Inductive == Spec => []IInv
  BY InitIInv, NextIInv, PTL DEF Spec

\* Every variable of the undo database keeps its type, and there is one saved
\* version for each undo state.
THEOREM TypeCorrect == Spec => []TypeOK
  <1>1. IInv => TypeOK
    BY DEF IInv
  <1> QED
    BY <1>1, Inductive, PTL

\* Facts about the chain for one position of the stack.
LEMMA LinkOfStack ==
    ASSUME IInv, NEW i \in 1 .. Len(stack)
    PROVE  /\ saved[i] \in Store /\ VersionAfter(i) \in Store
           /\ stack[i] \in undo_state
           /\ Link(saved[i], VersionAfter(i), stack[i])
           /\ UniqueKeys(saved[i].objs) /\ UniqueKeys(VersionAfter(i).objs)
  <1>1. /\ saved \in Seq(Store) /\ stack \in Seq(undo_state)
        /\ Len(saved) = Len(stack) /\ Len(stack) \in Nat
        /\ Current \in Store /\ Chained(saved, stack, Current)
    BY CurrentStore, LenProperties DEF IInv, TypeOK
  <1>2. saved[i] \in Store /\ stack[i] \in undo_state
    BY <1>1, LenProperties
  <1>3. VersionAfter(i) = After(saved, Current, i)
    BY DEF VersionAfter, After
  <1>4. Sound(saved[i]) /\ Link(saved[i], VersionAfter(i), stack[i])
    BY <1>1, <1>3 DEF Chained
  <1>5. VersionAfter(i) \in Store /\ Sound(VersionAfter(i))
    <2>1. CASE i = Len(saved)
      BY <1>1, <2>1 DEF VersionAfter, Chained
    <2>2. CASE i # Len(saved)
      <3>1. i + 1 \in 1 .. Len(saved)
        BY <1>1, <2>2
      <3>2. saved[i + 1] \in Store
        BY <1>1, <3>1, LenProperties
      <3> QED
        BY <1>1, <2>2, <3>1, <3>2 DEF VersionAfter, Chained
    <2> QED
      BY <2>1, <2>2
  <1> QED
    BY <1>2, <1>4, <1>5 DEF Sound

\* Whatever was created, changed, removed, merged and committed, unwinding the
\* stack restores each saved version exactly.
THEOREM RestoresVersions == Spec => []UndoRestoresVersions
  <1>1. IInv => UndoRestoresVersions
    BY LinkOfStack, LinkUndone DEF UndoRestoresVersions
  <1> QED
    BY <1>1, Inductive, PTL

\* undo() and pop_commit() never meet a missing object, an occupied id or a
\* duplicate key.
THEOREM NeverThrows == Spec => []UndoNeverThrows
  <1>1. IInv => UndoNeverThrows
    BY LinkOfStack, LinkAsserts DEF UndoNeverThrows
  <1> QED
    BY <1>1, Inductive, PTL

\* As long as sessions nest no deeper than the stack is allowed to be (plus
\* one), trimming never takes the undo state of a live session.
THEOREM SessionsKept == Spec => []SessionsHaveUndoStates
  <1>1. IInv => SessionsHaveUndoStates
    BY DEF IInv
  <1> QED
    BY <1>1, Inductive, PTL

\* No change escapes tracking while there is something it could be undone to.
THEOREM DisabledHasNoHistory == Spec => []NoHistoryWhileDisabled
  <1>1. IInv => NoHistoryWhileDisabled
    BY DEF IInv
  <1> QED
    BY <1>1, Inductive, PTL

-----------------------------------------------------------------------------
(* The refinement *)

\* A change of the index is a change of the abstract store.
LEMMA TrackRefines ==
    ASSUME IInv, IInv', NEW st, Track(st)
    PROVE  Versions!Change
  <1>1. Current' \in Store
    <2>1. TypeOK'
      BY DEF IInv
    <2>2. objs' \in ObjectMap /\ next_id' \in Nat
      BY <2>1, BoundsAssumption DEF TypeOK
    <2> QED
      BY <2>2 DEF Current, Store
  <1>2. CASE ~disabled /\ stack = << >>
    <2>1. saved = << >>
      BY <1>2, EmptySeq DEF IInv, TypeOK
    <2>2. saved' = << Current >>
      BY <1>2 DEF Track
    <2> QED
      BY <1>1, <2>1, <2>2 DEF Versions!Change
  <1>3. CASE ~(~disabled /\ stack = << >>)
    <2>1. saved' = saved
      BY <1>3 DEF Track
    <2> QED
      BY <1>1, <2>1 DEF Versions!Change
  <1> QED
    BY <1>2, <1>3

\* Trimming the stack gives up the oldest saved versions.
LEMMA BeginRefines ==
    ASSUME IInv, NEW force, start_undo_session(force)
    PROVE  Versions!Begin
  <1>1. /\ saved \in Seq(Store) /\ Len(saved) \in Nat /\ max_size \in Nat
    BY LenProperties, BoundsAssumption DEF IInv, TypeOK
  <1>2. Current' = Current /\ saved' = Append(Trimmed(saved), Current)
    BY DEF start_undo_session, Current
  <1>3. \E k \in 0 .. Len(saved) : Trimmed(saved) = SubSeq(saved, k + 1, Len(saved))
    <2>1. CASE Len(saved) > max_size
      <3>1. Len(saved) - max_size \in 0 .. Len(saved)
        BY <1>1, <2>1
      <3>2. Trimmed(saved) = SubSeq(saved, (Len(saved) - max_size) + 1, Len(saved))
        BY <2>1 DEF Trimmed
      <3> QED
        BY <3>1, <3>2
    <2>2. CASE ~(Len(saved) > max_size)
      <3>1. saved = SubSeq(saved, 0 + 1, Len(saved))
        BY <1>1, SubSeqFull
      <3>2. 0 \in 0 .. Len(saved)
        BY <1>1
      <3> QED
        BY <2>2, <3>1, <3>2 DEF Trimmed
    <2> QED
      BY <2>1, <2>2
  <1> QED
    BY <1>2, <1>3 DEF Versions!Begin

\* The undo database, which remembers only differences, implements a store
\* with a stack of whole versions.
THEOREM UndoRefinesVersionStore == Spec => ImplementsVersionStore
  <1>1. Init => Versions!Init
    BY DEF Init, Versions!Init, Current
  <1>2. IInv /\ IInv' /\ [Next]_vars => [Versions!Next]_<<Current, saved>>
    <2> SUFFICES ASSUME IInv, IInv', [Next]_vars
                 PROVE  [Versions!Next]_<<Current, saved>>
      OBVIOUS
    <2>1. ASSUME NEW st, Track(st) PROVE Versions!Next
      BY <2>1, TrackRefines DEF Versions!Next
    <2>2. ASSUME NEW force, start_undo_session(force) PROVE Versions!Next
      BY <2>2, BeginRefines DEF Versions!Next
    <2>3. ASSUME Len(stack) >= 1 PROVE saved # << >>
      BY <2>3 DEF IInv, TypeOK
    <2>4. ASSUME ApplyTop, Len(stack) >= 1 PROVE Versions!Next
      BY <2>3, <2>4, ApplyTopStep
         DEF Versions!Next, Versions!Rollback, Versions!Newest,
             Versions!OlderVersions, ApplyTop, AllButLast
    <2>5. CASE undo \/ pop_commit
      <3>1. Len(stack) >= 1
        BY <2>5, LenProperties, EmptySeq
           DEF undo, pop_commit, IInv, TypeOK, SessionsHaveUndoStates
      <3> QED
        BY <2>4, <2>5, <3>1 DEF undo, pop_commit
    <2>6. CASE merge
      <3>1. Len(stack) >= 1
        BY <2>6, LenProperties, EmptySeq
           DEF merge, IInv, TypeOK, SessionsHaveUndoStates
      <3>2. saved' = AllButLast(saved) /\ Current' = Current
        BY <2>6 DEF merge, Current
      <3> QED
        BY <2>3, <3>1, <3>2 DEF Versions!Next, Versions!Release,
                                Versions!OlderVersions, AllButLast
    <2>7. CASE commit \/ disable \/ enable
               \/ \E n \in MinMaxSize .. MaxMaxSize : set_max_size(n)
      BY <2>7 DEF commit, disable, enable, set_max_size, Current
    <2>8. CASE UNCHANGED vars
      BY <2>8 DEF vars, Current
    <2> QED
      BY <2>1, <2>2, <2>5, <2>6, <2>7, <2>8
         DEF Next, create, modify, remove
  <1> QED
    BY <1>1, <1>2, Inductive, PTL DEF Spec, ImplementsVersionStore, Versions!Spec
=============================================================================
