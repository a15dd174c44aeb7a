------------------------ MODULE EasCollectionStore ------------------------
(***************************************************************************)
(* Where a collection's held set (the ServerIds a device holds) is kept:   *)
(* on the state row while it is small, in EasCollectionChunk rows once it  *)
(* has outgrown the row (src/src/EasCollectionStore.ts).                   *)
(*                                                                         *)
(* The chunk rows of one collection are a function from chunkIndex to the  *)
(* set of ids of the row, {} where there is no row: saveHeldSet deletes a  *)
(* chunk it empties, so no row is ever empty.  The order of the ids inside *)
(* a row decides nothing but which ids are written where, and the order of *)
(* a JavaScript Set is the order of its insertions: the plan of a save     *)
(* takes the order in which the new ids are placed as a parameter.         *)
(***************************************************************************)
EXTENDS Integers, FiniteSets, Sequences

CONSTANTS
    Items,           \* ServerIds
    MaxChunk,        \* bound: the largest chunkIndex that is represented
    InlineHeldLimit, \* largest held set kept on the state row
    HeldChunkSize    \* most ids in one chunk row

ASSUME StoreAssumption ==
    /\ MaxChunk \in Nat
    /\ InlineHeldLimit \in Nat
    /\ HeldChunkSize \in Nat \ {0}
    /\ IsFiniteSet(Items)

ChunkIndex == 0..MaxChunk
ChunkRows == [ChunkIndex -> SUBSET Items]

NoChunks == [i \in ChunkIndex |-> {}]
Rows(c) == {i \in ChunkIndex : c[i] # {}}

\* loadHeldSet: the row's own ids, or the union of every chunk row there is.
LoadHeldSet(chunked, inline, c) ==
    IF chunked THEN UNION {c[i] : i \in ChunkIndex} ELSE inline

\* Whether a save of `ids` leaves the chunk rows alone.
StaysInline(wasChunked, ids) ==
    ~wasChunked /\ Cardinality(ids) <= InlineHeldLimit

\* What chunk i keeps of what it was loaded with: ids still held and not
\* already placed by an earlier chunk.
Kept(loaded, ids, i) ==
    (loaded[i] \cap ids) \ UNION {loaded[j] : j \in 0..(i - 1)}

Pending(loaded, ids) == ids \ UNION {loaded[i] : i \in ChunkIndex}

\* Mutant of Free: an existing chunk is filled as if it were empty.
FreeWhole(loaded, ids, i) ==
    IF loaded[i] # {} \/ \A j \in Rows(loaded) : j < i THEN HeldChunkSize ELSE 0

\* Free space of chunk i: what an existing chunk has left after dropping, a
\* whole row past the last loaded one, nothing in a gap between loaded ones.
Free(loaded, ids, i) ==
    CASE loaded[i] # {}                   -> HeldChunkSize - Cardinality(Kept(loaded, ids, i))
      [] \A j \in Rows(loaded) : j < i    -> HeldChunkSize
      [] OTHER                            -> 0

\* The free places of the chunks before i, each a chunk and a number.
Places(loaded, ids, i) ==
    {s \in ChunkIndex \X (1..HeldChunkSize) : s[1] < i /\ s[2] <= Free(loaded, ids, s[1])}

FreeBefore(loaded, ids, i) == Cardinality(Places(loaded, ids, i))

\* Bound: no chunkIndex above MaxChunk is needed to place every pending id.
Fits(loaded, ids) ==
    Cardinality(Pending(loaded, ids)) <= FreeBefore(loaded, ids, MaxChunk + 1)

\* The chunk rows a save of `ids` ends with: `order` lists the pending ids.
Plan(loaded, ids, order) ==
    [i \in ChunkIndex |->
        LET from == FreeBefore(loaded, ids, i)
            upto == from + Free(loaded, ids, i)
        IN  Kept(loaded, ids, i)
              \cup {order[k] : k \in {n \in DOMAIN order : from < n /\ n <= upto}}]

\* The rows a save rewrites, in the order saveHeldSet writes them.
Changed(loaded, plan) == {i \in ChunkIndex : loaded[i] # plan[i]}
===========================================================================
