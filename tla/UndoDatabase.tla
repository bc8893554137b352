---------------------------- MODULE UndoDatabase ----------------------------
(***************************************************************************)
(* The undo database (libraries/db/undo_database) together with the index  *)
(* operations that feed it (libraries/db index, object_database).          *)
(*                                                                         *)
(* One index is modelled: objects are created with the next instance       *)
(* number, carry a unique secondary key that is fixed at creation (the     *)
(* by_name, by_symbol, by_account_asset ... indices of the chain) and a    *)
(* payload.  Each undo_state on stack records the difference between two  *)
(* versions of the index.  The history variable saved keeps the versions   *)
(* themselves, so that the properties can say what a rollback owes.        *)
(***************************************************************************)
EXTENDS Integers, Sequences

CONSTANTS
    MaxId,        \* bound: the largest instance number a run creates
    Keys,         \* values of the unique secondary key
    Payloads,     \* values of the other fields
    NoObject,     \* "there is no object under this id"
    MaxNesting,   \* bound: how deeply undo sessions nest
    MinMaxSize,   \* the least and
    MaxMaxSize    \* the greatest argument of set_max_size

ObjectId == 0 .. MaxId
Object == [key : Keys, payload : Payloads]
NoId == -1

ASSUME BoundsAssumption ==
    /\ MaxId \in Nat
    /\ MaxNesting \in Nat
    /\ MinMaxSize \in Nat
    /\ MaxMaxSize \in Nat
    /\ MinMaxSize <= MaxMaxSize

ASSUME NoObjectAssumption == NoObject \notin Object

\* start_undo_session trims the stack to max_size before it pushes, so a
\* session can lose its own undo_state when sessions nest deeper than this.
ASSUME NestingAssumption == MaxNesting <= MinMaxSize + 1

VARIABLES
    objs,              \* the objects of the index, by instance number
    next_id,           \* primary_index::_next_id
    stack,            \* the undo states, oldest first
    active_sessions,
    disabled,
    max_size,
    sessions,          \* the live session objects: their _disable_on_exit
    saved              \* history: the version at the start of each undo state

vars == <<objs, next_id, stack, active_sessions, disabled, max_size,
          sessions, saved>>

-----------------------------------------------------------------------------
(* Undo states *)

ObjectMap == [ObjectId -> Object \cup {NoObject}]
Store == [objs : ObjectMap, next_id : Nat]

undo_state == [old_values         : ObjectMap,
               old_index_next_ids : Nat \cup {NoId},
               new_ids            : SUBSET ObjectId,
               removed            : ObjectMap]

NoObjects == [id \in ObjectId |-> NoObject]

EmptyUndo == [old_values         |-> NoObjects,
              old_index_next_ids |-> NoId,
              new_ids            |-> {},
              removed            |-> NoObjects]

\* The first creation of a session also remembers the instance number that
\* was about to be used.
on_create(st, id) ==
    [st EXCEPT !.old_index_next_ids = IF @ = NoId THEN id ELSE @,
               !.new_ids = @ \cup {id}]

on_modify(st, id, obj) ==
    IF id \in st.new_ids \/ st.old_values[id] # NoObject
    THEN st
    ELSE [st EXCEPT !.old_values[id] = obj]

on_remove(st, id, obj) ==
    IF id \in st.new_ids
    THEN [st EXCEPT !.new_ids = @ \ {id}]
    ELSE IF st.old_values[id] # NoObject
    THEN [st EXCEPT !.removed[id] = st.old_values[id],
                    !.old_values[id] = NoObject]
    ELSE IF st.removed[id] # NoObject
    THEN st
    ELSE [st EXCEPT !.removed[id] = obj]

-----------------------------------------------------------------------------
(* Applying an undo state: undo() and pop_commit() restore the modified    *)
(* objects, drop the new ones, reset the next id and insert the removed    *)
(* ones, in this order.                                                    *)

RestoreOld(m, st) ==
    [id \in ObjectId |->
        IF st.old_values[id] # NoObject THEN st.old_values[id] ELSE m[id]]

DropNew(m, st) ==
    [id \in ObjectId |-> IF id \in st.new_ids THEN NoObject ELSE m[id]]

\* Mutant: the removed objects are forgotten.
Reinsert_nothing(m, st) == m

Reinsert(m, st) ==
    [id \in ObjectId |->
        IF st.removed[id] # NoObject THEN st.removed[id] ELSE m[id]]

Undone(v, st) ==
    [objs    |-> Reinsert(DropNew(RestoreOld(v.objs, st), st), st),
     next_id |-> IF st.old_index_next_ids = NoId
                 THEN v.next_id ELSE st.old_index_next_ids]

UniqueKeys(m) ==
    \A i, j \in ObjectId :
        m[i] # NoObject /\ m[j] # NoObject /\ m[i].key = m[j].key => i = j

\* The checks that _db.get_object, modify, remove and insert make while an
\* undo state is applied; an exception here leaves the index half restored.
UndoAsserts(m, st) ==
    /\ \A id \in ObjectId : st.old_values[id] # NoObject => m[id] # NoObject
    /\ UniqueKeys(RestoreOld(m, st))
    /\ \A id \in st.new_ids : RestoreOld(m, st)[id] # NoObject
    /\ \A id \in ObjectId :
          st.removed[id] # NoObject
              => DropNew(RestoreOld(m, st), st)[id] = NoObject
    /\ UniqueKeys(Reinsert(DropNew(RestoreOld(m, st), st), st))

\* merge(): A is prev_state and B is state; the loops over B's old_values,
\* new_ids, old_index_next_ids and removed, in this order.
MergedOld(A, B) ==
    [id \in ObjectId |->
        IF B.old_values[id] # NoObject
           /\ id \notin A.new_ids /\ A.old_values[id] = NoObject
        THEN B.old_values[id] ELSE A.old_values[id]]

\* Mutant: an object that was created and then removed stays in new_ids.
MergedNewIds_all(A, B) == A.new_ids \cup B.new_ids

MergedNewIds(A, B) ==
    {id \in A.new_ids \cup B.new_ids : B.removed[id] = NoObject}

\* Mutant: a removed object is kept as the inner session found it, although
\* the outer one had changed it before.
MergedRemoved_inner(A, B) ==
    [id \in ObjectId |->
        IF B.removed[id] = NoObject \/ id \in A.new_ids \cup B.new_ids
        THEN A.removed[id] ELSE B.removed[id]]

MergedRemoved(A, B) ==
    [id \in ObjectId |->
        IF B.removed[id] = NoObject \/ id \in A.new_ids \cup B.new_ids
        THEN A.removed[id]
        ELSE IF MergedOld(A, B)[id] # NoObject
        THEN MergedOld(A, B)[id] ELSE B.removed[id]]

MergedStates(A, B) ==
    [old_values |->
        [id \in ObjectId |->
            IF B.removed[id] # NoObject /\ id \notin A.new_ids \cup B.new_ids
            THEN NoObject ELSE MergedOld(A, B)[id]],
     old_index_next_ids |->
        IF A.old_index_next_ids = NoId
        THEN B.old_index_next_ids ELSE A.old_index_next_ids,
     new_ids |-> MergedNewIds(A, B),
     removed |-> MergedRemoved(A, B)]

-----------------------------------------------------------------------------
(* The actions *)

Current == [objs |-> objs, next_id |-> next_id]
Top == IF stack = << >> THEN EmptyUndo ELSE stack[Len(stack)]
AllButLast(s) == SubSeq(s, 1, Len(s) - 1)

\* on_create, on_modify and on_remove: nothing when disabled, and an undo
\* state of its own for a change made outside every session.
Track(st) ==
    /\ stack' = IF disabled THEN stack
                 ELSE IF stack = << >> THEN << st >>
                 ELSE [stack EXCEPT ![Len(stack)] = st]
    /\ saved' = IF ~disabled /\ stack = << >> THEN << Current >> ELSE saved
    /\ UNCHANGED <<active_sessions, disabled, max_size, sessions>>

Init ==
    /\ objs = NoObjects
    /\ next_id = 0
    /\ stack = << >>
    /\ active_sessions = 0
    /\ disabled = FALSE
    /\ max_size = MaxMaxSize
    /\ sessions = << >>
    /\ saved = << >>

create(obj) ==
    /\ next_id \in ObjectId
    /\ UniqueKeys([objs EXCEPT ![next_id] = obj])
    /\ objs' = [objs EXCEPT ![next_id] = obj]
    /\ next_id' = next_id + 1
    /\ Track(on_create(Top, next_id))

modify(id, payload) ==
    /\ objs[id] # NoObject
    /\ objs' = [objs EXCEPT ![id] = [key |-> objs[id].key, payload |-> payload]]
    /\ next_id' = next_id
    /\ Track(on_modify(Top, id, objs[id]))

remove(id) ==
    /\ objs[id] # NoObject
    /\ objs' = [objs EXCEPT ![id] = NoObject]
    /\ next_id' = next_id
    /\ Track(on_remove(Top, id, objs[id]))

\* Mutant: room is made for the new undo state.
Trimmed_one_more(s) ==
    IF Len(s) >= max_size THEN SubSeq(s, Len(s) - max_size + 2, Len(s)) ELSE s

Trimmed(s) ==
    IF Len(s) > max_size THEN SubSeq(s, Len(s) - max_size + 1, Len(s)) ELSE s

\* Sessions started while disabled are forced (push_proposal); an unforced one
\* would be an inert object that no caller creates.
start_undo_session(force_enable) ==
    /\ Len(sessions) < MaxNesting
    /\ disabled => force_enable
    /\ stack' = Append(Trimmed(stack), EmptyUndo)
    /\ saved' = Append(Trimmed(saved), Current)
    /\ active_sessions' = active_sessions + 1
    /\ disabled' = FALSE
    /\ sessions' = Append(sessions, disabled)
    /\ UNCHANGED <<objs, next_id, max_size>>

\* The innermost session object ends and takes its undo state with it.
EndSession ==
    /\ active_sessions' = active_sessions - 1
    /\ sessions' = AllButLast(sessions)
    /\ disabled' = sessions[Len(sessions)]

ApplyTop ==
    /\ objs' = Undone(Current, Top).objs
    /\ next_id' = Undone(Current, Top).next_id
    /\ stack' = AllButLast(stack)
    /\ saved' = AllButLast(saved)

undo ==
    /\ sessions # << >>
    /\ ~disabled /\ active_sessions > 0
    /\ ApplyTop
    /\ EndSession
    /\ UNCHANGED max_size

merge ==
    /\ sessions # << >>
    /\ active_sessions > 0
    /\ \/ /\ active_sessions = 1 /\ Len(stack) = 1
          /\ stack' = << >>
       \/ /\ ~(active_sessions = 1 /\ Len(stack) = 1)
          /\ Len(stack) >= 2
          /\ stack' = [AllButLast(stack) EXCEPT ![Len(stack) - 1] =
                           MergedStates(stack[Len(stack) - 1], Top)]
    /\ saved' = AllButLast(saved)
    /\ EndSession
    /\ UNCHANGED <<objs, next_id, max_size>>

\* Only the session of a whole block is committed: it is the outermost one,
\* and it is not forced.
commit ==
    /\ sessions = << FALSE >>
    /\ active_sessions > 0
    /\ EndSession
    /\ UNCHANGED <<objs, next_id, stack, max_size, saved>>

pop_commit ==
    /\ active_sessions = 0
    /\ stack # << >>
    /\ ApplyTop
    /\ disabled' = FALSE
    /\ UNCHANGED <<active_sessions, max_size, sessions>>

set_max_size(n) ==
    /\ max_size' = n
    /\ UNCHANGED <<objs, next_id, stack, active_sessions, disabled,
                   sessions, saved>>

\* init_genesis and reindex switch tracking off on a database that has no undo
\* history, and on again when they are done.
disable ==
    /\ ~disabled /\ stack = << >> /\ sessions = << >>
    /\ disabled' = TRUE
    /\ UNCHANGED <<objs, next_id, stack, active_sessions, max_size,
                   sessions, saved>>

enable ==
    /\ disabled /\ sessions = << >>
    /\ disabled' = FALSE
    /\ UNCHANGED <<objs, next_id, stack, active_sessions, max_size,
                   sessions, saved>>

Next ==
    \/ \E obj \in Object : create(obj)
    \/ \E id \in ObjectId, payload \in Payloads : modify(id, payload)
    \/ \E id \in ObjectId : remove(id)
    \/ \E force \in BOOLEAN : start_undo_session(force)
    \/ undo \/ merge \/ commit \/ pop_commit
    \/ \E n \in MinMaxSize .. MaxMaxSize : set_max_size(n)
    \/ disable \/ enable

Spec == Init /\ [][Next]_vars

-----------------------------------------------------------------------------
(* Properties *)

TypeOK ==
    /\ objs \in ObjectMap
    /\ next_id \in 0 .. MaxId + 1
    /\ stack \in Seq(undo_state)
    /\ active_sessions \in Nat
    /\ disabled \in BOOLEAN
    /\ max_size \in MinMaxSize .. MaxMaxSize
    /\ sessions \in Seq(BOOLEAN)
    /\ saved \in Seq(Store)
    /\ Len(saved) = Len(stack)

\* The version that followed the start of undo state i.
VersionAfter(i) == IF i = Len(saved) THEN Current ELSE saved[i + 1]

\* Applying the undo states from the newest to the oldest brings back, one
\* after the other, exactly the versions at which they were started: objects
\* created, changed and removed in any order, sessions merged or committed in
\* between, and the next object id included (undo_database.cpp undo, merge,
\* pop_commit).
UndoRestoresVersions ==
    \A i \in 1 .. Len(stack) : Undone(VersionAfter(i), stack[i]) = saved[i]

\* None of the lookups, uniqueness checks and insertions that undo() and
\* pop_commit() make can throw, for any undo state on the stack: a throw in
\* the middle would leave the object database half restored (and, in
\* ~session, terminate the node).
UndoNeverThrows ==
    \A i \in 1 .. Len(stack) : UndoAsserts(VersionAfter(i).objs, stack[i])

\* Every live session has its undo state on the stack although
\* start_undo_session trims the stack from the front: otherwise undo() would
\* take back the changes of an enclosing session, or read an empty deque, and
\* merge() would fail its assertion on the size of the stack.
SessionsHaveUndoStates ==
    /\ active_sessions = Len(sessions)
    /\ Len(sessions) <= Len(stack)

\* While tracking is off there is no undo state that an untracked change could
\* invalidate, and a session that switched it on switches it off again
\* (start_undo_session with force_enable, _disable_on_exit).
NoHistoryWhileDisabled == disabled => stack = << >> /\ sessions = << >>

\* The undo database implements a stack of whole versions.
Versions == INSTANCE VersionStore
    WITH Stores <- Store, EmptyStore <- [objs |-> NoObjects, next_id |-> 0],
         store <- Current

ImplementsVersionStore == Versions!Spec
=============================================================================
