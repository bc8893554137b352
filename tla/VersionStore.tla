---------------------------- MODULE VersionStore ----------------------------
(***************************************************************************)
(* What the object database promises to the code that applies blocks and   *)
(* transactions: a store whose older versions are kept on a stack.  A      *)
(* session saves the current version, a rollback brings the most recent    *)
(* saved version back exactly, and a release forgets it.  Nothing here     *)
(* says how a version is remembered; UndoDatabase remembers only what      *)
(* changed.                                                                *)
(***************************************************************************)
EXTENDS Naturals, Sequences

CONSTANTS Stores,     \* the values the whole store can have
          EmptyStore  \* the store of a node that has no objects yet

VARIABLES store,  \* the current version
          saved   \* the versions that can still be brought back, oldest first

Newest == saved[Len(saved)]
OlderVersions == SubSeq(saved, 1, Len(saved) - 1)

Init == store = EmptyStore /\ saved = << >>

\* The store changes.  A change made outside every session with no saved
\* version is itself undoable.
Change ==
    /\ store' \in Stores
    /\ \/ saved' = saved
       \/ saved = << >> /\ saved' = << store >>

\* A session starts: the version is saved, and any number of the oldest
\* saved versions are given up.
Begin ==
    /\ store' = store
    /\ \E k \in 0 .. Len(saved) :
          saved' = Append(SubSeq(saved, k + 1, Len(saved)), store)

Rollback ==
    /\ saved # << >>
    /\ store' = Newest
    /\ saved' = OlderVersions

Release ==
    /\ saved # << >>
    /\ store' = store
    /\ saved' = OlderVersions

Next == Change \/ Begin \/ Rollback \/ Release

Spec == Init /\ [][Next]_<<store, saved>>
=============================================================================
