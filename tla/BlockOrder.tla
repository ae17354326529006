----------------------------- MODULE BlockOrder -----------------------------
(***************************************************************************)
(* Placement in one block log (kaijutsu-crdt/src/block_store.rs): which    *)
(* order key and which timeline tick a block receives, how a move changes  *)
(* them, and what a restart from a snapshot does to them.                  *)
(*                                                                         *)
(* The text and the metadata of the blocks are left to BlockReplicas.  The *)
(* kernel mints for several principals in one store: every operation sets  *)
(* the store's principal first, and its 4-character suffix ends the key.   *)
(***************************************************************************)
EXTENDS OrderKey, FiniteSets

CONSTANTS
    Principal,      \* authors, in their BlockId order (a set of naturals)
    Suffix,         \* agent_order_suffix of each principal
    SnapTick,       \* ticks a caller of insert_from_snapshot may carry, or NoTick
    MaxBlocks,      \* bound: ids ever minted
    MaxMoves        \* bound: calls of move_block

NoTick == -1

ASSUME OrderAssumption ==
    /\ Principal \subseteq Nat
    /\ Suffix \in [Principal -> Key]
    /\ SnapTick \subseteq Nat \cup {NoTick}
    /\ MaxBlocks \in Nat /\ MaxMoves \in Nat

NoBlock == <<>>
Id == Principal \X Nat

VARIABLES
    blocks,     \* the BTreeMap: id -> [key, tick, deleted]
    seqLanes,   \* next seq of each principal
    nextTick,   \* the store's tick high-water mark
    minted,     \* ids minted so far (for the bound)
    moves       \* calls of move_block so far (for the bound)

vars == <<blocks, seqLanes, nextTick, minted, moves>>

Live(bs) == {id \in DOMAIN bs : ~bs[id].deleted}

\* The order of BlockIds of one context: principal, then seq.
IdLess(i, j) == i[1] < j[1] \/ (i[1] = j[1] /\ i[2] < j[2])

SortsBefore(bs, i, j) ==
    \/ KeyLess(bs[i].key, bs[j].key)
    \/ bs[i].key = bs[j].key /\ IdLess(i, j)

(***************************************************************************)
(* The sorted list block_ids_ordered(), by its first and last element, by  *)
(* the element after a given one and by the position of an element.        *)
(***************************************************************************)
FirstBlock(bs) == CHOOSE i \in Live(bs) : \A j \in Live(bs) \ {i} : SortsBefore(bs, i, j)
LastBlock(bs) == CHOOSE i \in Live(bs) : \A j \in Live(bs) \ {i} : SortsBefore(bs, j, i)
FollowersOf(bs, id) == {j \in Live(bs) : SortsBefore(bs, id, j)}
NextBlock(bs, id) ==
    CHOOSE i \in FollowersOf(bs, id) : \A j \in FollowersOf(bs, id) \ {i} : SortsBefore(bs, i, j)
Position(bs, id) == Cardinality({j \in Live(bs) : SortsBefore(bs, j, id)})

----------------------------------------------------------------------------
order_key_for_tick(t, p) == <<V>> \o base62_encode_padded(t) \o Suffix[p]

\* The append arms: the successor of the tail when the block carries a tick,
\* otherwise the tail extended by "V".
AppendKey(bs, tick, p) ==
    CASE Live(bs) = {} /\ tick # NoTick -> order_key_for_tick(tick, p)
      [] Live(bs) = {} /\ tick = NoTick -> <<V>> \o Suffix[p]
      [] Live(bs) # {} /\ tick # NoTick -> order_key_successor(bs[LastBlock(bs)].key, Suffix[p])
      [] Live(bs) # {} /\ tick = NoTick -> bs[LastBlock(bs)].key \o <<V>> \o Suffix[p]

PrependKey(bs, p) ==
    IF Live(bs) = {}
    THEN <<V>> \o Suffix[p]
    ELSE order_midpoint(<<>>, bs[FirstBlock(bs)].key) \o Suffix[p]

BetweenKey(bs, after, p) ==
    order_midpoint(bs[after].key, bs[NextBlock(bs, after)].key) \o Suffix[p]

\* A block that was deleted or never existed is not in the ordered list, and
\* the key is an append key.
calc_order_key(bs, after, tick, p) ==
    CASE after = NoBlock /\ tick # NoTick -> AppendKey(bs, tick, p)
      [] after = NoBlock /\ tick = NoTick -> PrependKey(bs, p)
      [] after # NoBlock ->
            IF after \notin Live(bs) \/ after = LastBlock(bs)
            THEN AppendKey(bs, tick, p)
            ELSE BetweenKey(bs, after, p)

----------------------------------------------------------------------------
Init ==
    /\ blocks = << >>
    /\ seqLanes = [p \in Principal |-> 0]
    /\ nextTick = 0
    /\ minted = 0
    /\ moves = 0

Put(id, b) == [i \in DOMAIN blocks \cup {id} |-> IF i = id THEN b ELSE blocks[i]]

NextId(p) == <<p, seqLanes[p]>>
Mint(p) == seqLanes' = [seqLanes EXCEPT ![p] = @ + 1]
observe_seq(lanes, id) == [lanes EXCEPT ![id[1]] = Max({@, id[2] + 1})]

CountMinted == minted < MaxBlocks /\ minted' = minted + 1

(***************************************************************************)
(* insert_block and the other inserts that mint their own position.  The   *)
(* id is minted before the references are validated, so a refused insert   *)
(* leaves a gap in the lane.                                               *)
(***************************************************************************)
InsertBlock(p, after) ==
    /\ CountMinted
    /\ after = NoBlock \/ after \in Live(blocks)
    /\ Mint(p)
    /\ nextTick' = nextTick + 1
    /\ blocks' = Put(NextId(p), [key     |-> calc_order_key(blocks, after, nextTick, p),
                                 tick    |-> nextTick,
                                 deleted |-> FALSE])
    /\ UNCHANGED moves

InsertBlockRefused(p, after) ==
    /\ CountMinted
    /\ after # NoBlock /\ after \notin Live(blocks)
    /\ Mint(p)
    /\ UNCHANGED <<blocks, nextTick, moves>>

(***************************************************************************)
(* reserve_block_id then insert_from_snapshot: the caller's tick (a beat   *)
(* cell's coordinate, or none) is kept, and moves the high-water mark.  An *)
(* id the log already holds is refused (DuplicateBlock); a reserved id     *)
(* never is, by LaneAheadOfLog.                                            *)
(***************************************************************************)
InsertFromSnapshot(p, after, tick) ==
    /\ CountMinted
    /\ NextId(p) \notin DOMAIN blocks
    /\ seqLanes' = observe_seq(seqLanes, NextId(p))
    /\ nextTick' = IF tick = NoTick THEN nextTick ELSE Max({nextTick, tick + 1})
    /\ blocks' = Put(NextId(p), [key     |-> calc_order_key(blocks, after, tick, p),
                                 tick    |-> tick,
                                 deleted |-> FALSE])
    /\ UNCHANGED moves

\* move_block keeps the tick and re-keys the block on the legacy path.
MoveBlock(p, id, after) ==
    /\ id \in Live(blocks)
    /\ after = NoBlock \/ after \in Live(blocks)
    /\ moves < MaxMoves
    /\ moves' = moves + 1
    /\ blocks' = [blocks EXCEPT ![id].key = calc_order_key(blocks, after, NoTick, p)]
    /\ UNCHANGED <<seqLanes, nextTick, minted>>

DeleteBlock(id) ==
    /\ id \in DOMAIN blocks
    /\ blocks' = [blocks EXCEPT ![id].deleted = TRUE]
    /\ UNCHANGED <<seqLanes, nextTick, minted, moves>>

----------------------------------------------------------------------------

(***************************************************************************)
(* Restart: from_snapshot of the store's own snapshot, under the kernel's  *)
(* principal p.  Live blocks keep their keys, tombstones are rebuilt with  *)
(* key "Z" and no tick, the lanes are derived from every restored id, and  *)
(* normalize_timeline runs last.                                           *)
(***************************************************************************)
Restored ==
    [id \in DOMAIN blocks |->
        IF blocks[id].deleted
        THEN [key |-> <<35>>, tick |-> NoTick, deleted |-> TRUE]
        ELSE blocks[id]]

\* Mutant: only live blocks are observed.
RestoredLanes_LiveOnly ==
    [p \in Principal |-> Max({0} \cup {id[2] + 1 : id \in {i \in Live(blocks) : i[1] = p}})]

RestoredLanes ==
    [p \in Principal |-> Max({0} \cup {id[2] + 1 : id \in {i \in DOMAIN blocks : i[1] = p}})]

\* Mutant: the blocks are numbered in the order of their ids.
RekeyInOrder_ById(bs, p) ==
    [id \in DOMAIN bs |->
        LET n == Cardinality({j \in Live(bs) : IdLess(j, id)})
        IN  IF bs[id].deleted THEN bs[id]
            ELSE [bs[id] EXCEPT !.key = order_key_for_tick(n, p), !.tick = n]]

RekeyInOrder(bs, p) ==
    [id \in DOMAIN bs |->
        IF bs[id].deleted THEN bs[id]
        ELSE [bs[id] EXCEPT !.key  = order_key_for_tick(Position(bs, id), p),
                            !.tick = Position(bs, id)]]

normalize_timeline(bs, p) ==
    IF \E id \in Live(bs) : bs[id].tick = NoTick
    THEN /\ blocks' = RekeyInOrder(bs, p)
         /\ nextTick' = Cardinality(Live(bs))
    ELSE /\ blocks' = bs
         /\ nextTick' = Max({0} \cup {bs[id].tick + 1 : id \in Live(bs)})

Restart(p) ==
    /\ seqLanes' = RestoredLanes
    /\ normalize_timeline(Restored, p)
    /\ UNCHANGED <<minted, moves>>

Next ==
    \/ \E p \in Principal, after \in DOMAIN blocks \cup {NoBlock} :
            \/ InsertBlock(p, after)
            \/ InsertBlockRefused(p, after)
            \/ \E tick \in SnapTick : InsertFromSnapshot(p, after, tick)
            \/ \E id \in DOMAIN blocks : MoveBlock(p, id, after)
    \/ \E id \in DOMAIN blocks : DeleteBlock(id)
    \/ \E p \in Principal : Restart(p)

Spec == Init /\ [][Next]_vars

----------------------------------------------------------------------------
(* The log, the lanes and the tick mark keep their shape; keys are digits. *)
TypeOK ==
    /\ DOMAIN blocks \subseteq Id
    /\ \A id \in DOMAIN blocks :
            /\ blocks[id].key \in Key
            /\ blocks[id].tick \in Nat \cup {NoTick}
            /\ blocks[id].deleted \in BOOLEAN
    /\ seqLanes \in [Principal -> Nat]
    /\ nextTick \in Nat
    /\ minted \in 0..MaxBlocks
    /\ moves \in 0..MaxMoves

(***************************************************************************)
(* "Equals max persisted seq for principal + 1 after any restore": a lane  *)
(* is past every block of its principal, tombstones included, so that no   *)
(* id is ever minted twice, before or after a restart.                     *)
(***************************************************************************)
LaneAheadOfLog == \A id \in DOMAIN blocks : id[2] < seqLanes[id[1]]

(***************************************************************************)
(* move_block with no predecessor puts the block first, however often      *)
(* blocks were moved to the front before.                                  *)
(***************************************************************************)
MoveToFrontLandsFirst ==
    [][\A p \in Principal, id \in DOMAIN blocks :
            MoveBlock(p, id, NoBlock) => FirstBlock(blocks') = id]_vars

(***************************************************************************)
(* An insert without a place is an append: the block is last afterwards,   *)
(* whoever wrote the tail and also when its number can no longer grow.     *)
(***************************************************************************)
AppendLandsLast ==
    [][\A p \in Principal : InsertBlock(p, NoBlock) => LastBlock(blocks') = NextId(p)]_vars

(***************************************************************************)
(* A restart shows the blocks in the order they had, also when blocks      *)
(* without a tick make normalize_timeline re-key the whole log.            *)
(***************************************************************************)
RestartKeepsOrder ==
    [][\A p \in Principal :
            Restart(p) =>
                /\ Live(blocks') = Live(blocks)
                /\ \A i, j \in Live(blocks) :
                        SortsBefore(blocks', i, j) <=> SortsBefore(blocks, i, j)]_vars

(***************************************************************************)
(* "A genuine insert-between keeps a fractional order_midpoint so          *)
(* placement is preserved": a block inserted after another one is its      *)
(* immediate successor.                                                    *)
(***************************************************************************)
InsertBetweenLandsNext ==
    [][\A p \in Principal, after \in DOMAIN blocks :
            InsertBlock(p, after) =>
                /\ SortsBefore(blocks', after, NextId(p))
                /\ NextBlock(blocks', after) = NextId(p)]_vars
=============================================================================
