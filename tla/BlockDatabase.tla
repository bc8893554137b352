--------------------------- MODULE BlockDatabase ---------------------------
(***************************************************************************)
(* block_database: the blocks on disk, one index entry per block number.   *)
(* An entry names a block id and the place of a packed block; removing a   *)
(* block sets the size in its entry to zero (data = NoBlock) and keeps the *)
(* id.  Data that was still in the stream when the process stopped is Torn:*)
(* the entry has a size, but what it points to does not unpack.            *)
(* Each operator takes the index file as a function of block numbers.      *)
(***************************************************************************)
EXTENDS Integers, FiniteSetsExt

CONSTANTS Blocks, NoBlock,
          Torn,     \* block data that never reached the disk
          Num,      \* block_header::num_from_id
          MaxNum    \* bound: the highest block number of a run

Entry == [id : Blocks \cup {NoBlock}, data : Blocks \cup {NoBlock, Torn}]
IndexFile == [1 .. MaxNum -> Entry]

NoEntry == [id |-> NoBlock, data |-> NoBlock]
EmptyFile == [n \in 1 .. MaxNum |-> NoEntry]

\* store( id, block ): the place in the index comes from the id argument.
store(file, id, b) == [file EXCEPT ![Num[id]] = [id |-> id, data |-> b]]

remove(file, id) ==
    IF file[Num[id]].id = id
    THEN [file EXCEPT ![Num[id]].data = NoBlock] ELSE file

contains(file, id) == file[Num[id]].id = id /\ file[Num[id]].data # NoBlock

\* fetch_by_number checks that the packed block has the id of the entry.
Readable(file, n) == file[n].data # NoBlock /\ file[n].data = file[n].id
fetch_by_number(file, n) == IF Readable(file, n) THEN file[n].data ELSE NoBlock

fetch_optional(file, id) ==
    IF file[Num[id]].id = id THEN fetch_by_number(file, Num[id]) ELSE NoBlock

\* The data of block b is lost.
Tear(file, b) ==
    [n \in 1 .. MaxNum |->
        IF b # NoBlock /\ file[n].data = b THEN [file[n] EXCEPT !.data = Torn]
        ELSE file[n]]

IsTorn(file) == \E n \in 1 .. MaxNum : file[n].data = Torn

\* last() and last_id(): the last entry with a nonzero size.  last() returns
\* nothing when that one does not unpack, and does not compare ids.
LastNum(file) == Max({0} \cup {n \in 1 .. MaxNum : file[n].data # NoBlock})
last(file) ==
    IF LastNum(file) = 0 \/ file[LastNum(file)].data = Torn THEN NoBlock
    ELSE file[LastNum(file)].data
last_id(file) == IF LastNum(file) = 0 THEN NoBlock ELSE file[LastNum(file)].id
=============================================================================
