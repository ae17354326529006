------------------------------ MODULE BlockLog ------------------------------
(***************************************************************************)
(* One block log as a value (kaijutsu-crdt/src/block_store.rs and          *)
(* content.rs): its blocks, the payload it sends a peer, the merge of such *)
(* a payload, and what a snapshot preserves.                               *)
(*                                                                         *)
(* A block is its birth (kind, role, author: fixed at insertion), its      *)
(* position in the log, the data that is not in its header (stderr, output,*)
(* signature, tool_use_id), a tombstone flag, last-writer-wins header      *)
(* fields with a Lamport timestamp each, and a text.  The text CRDT is a   *)
(* library (diamond-types-extended): its history is the set of edits       *)
(* merged so far, the one that created the text included, a frontier is    *)
(* such a set, and a merge is the union, or an error if the receiver lacks *)
(* an edit that the merged ones build on.                                  *)
(*                                                                         *)
(* The header's updated_at is left out: in a live block it is always the   *)
(* largest field timestamp, and a tombstone's header is neither sent nor   *)
(* saved.                                                                  *)
(***************************************************************************)
EXTENDS Naturals, FiniteSets

CONSTANTS
    Replica,     \* the stores; each mints ids under a principal of its own
    Birth,       \* what a block is born as (kind, role, parent, author)
    PlainText,   \* the birth of a block built with no other data than its id
    Field,       \* header fields: "status", "excluded", "exit_code", ...
    MaxVal,      \* the values of a field are 0..MaxVal, in their Ord order
    MaxPos,      \* positions (order keys) are 0..MaxPos
    MaxAside     \* values of the data beside the header are 0..MaxAside

ASSUME LogAssumption ==
    /\ PlainText \in Birth
    /\ MaxVal \in Nat /\ MaxPos \in Nat /\ MaxAside \in Nat

Val == 0..MaxVal
Pos == 0..MaxPos
Aside == 0..MaxAside
Id == Replica \X Nat
Edit == Replica \X Nat
Created(r) == <<r, 0>>       \* the edit that creates a text
Creation == {Created(r) : r \in Replica}

(***************************************************************************)
(* set_status and set_collapsed refuse a tombstone, the other setters do   *)
(* not.  exit_code is in the tool_meta cluster, whose ties are decided by  *)
(* tool_kind: a value that no setter changes, so a tie is never broken.    *)
(***************************************************************************)
LiveOnlyField == {"status", "collapsed"}
ToolMetaField == {"exit_code"}
TieKey(f, v) == IF f \in ToolMetaField THEN 0 ELSE v

Block == [birth : Birth, pos : Pos, aside : Aside, deleted : BOOLEAN,
          val : [Field -> Val], ts : [Field -> Nat], text : SUBSET Edit]

Live(bs) == {id \in DOMAIN bs : ~bs[id].deleted}
Stamps(b) == {b.ts[f] : f \in Field}

Put(bs, id, b) == [i \in DOMAIN bs \cup {id} |-> IF i = id THEN b ELSE bs[i]]

NewBlock(birth, pos, v, ts, by) ==
    [birth |-> birth, pos |-> pos, aside |-> 0, deleted |-> FALSE,
     val |-> [f \in Field |-> v], ts |-> [f \in Field |-> ts], text |-> {Created(by)}]

WithField(b, f, v, ts) ==
    [b EXCEPT !.val = [@ EXCEPT ![f] = v], !.ts = [@ EXCEPT ![f] = ts]]

WithEdit(b, e) == [b EXCEPT !.text = @ \cup {e}]

----------------------------------------------------------------------------
(***************************************************************************)
(* ops_since: what a store sends to a peer whose frontier is front.  A     *)
(* tombstone is named only if the peer knows the block; a known live block *)
(* is sent as text delta and header, an unknown one as a full snapshot.    *)
(***************************************************************************)
frontier(bs) == [id \in DOMAIN bs |-> bs[id].text]

\* Mutant: deletions are not sent.
ops_since_NoTombstones(bs, front) ==
    LET known == Live(bs) \cap DOMAIN front
        fresh == Live(bs) \ DOMAIN front
    IN  [sent    |-> TRUE,
         new     |-> [id \in fresh |-> [bs[id] EXCEPT !.text = {}]],
         headers |-> [id \in known |-> [val |-> bs[id].val, ts |-> bs[id].ts]],
         ops     |-> [id \in Live(bs) |->
                        IF id \in fresh THEN bs[id].text ELSE bs[id].text \ front[id]],
         deleted |-> {},
         front   |-> frontier(bs)]

ops_since(bs, front) ==
    LET known == Live(bs) \cap DOMAIN front
        fresh == Live(bs) \ DOMAIN front
    IN  [sent    |-> TRUE,
         new     |-> [id \in fresh |-> [bs[id] EXCEPT !.text = {}]],
         headers |-> [id \in known |-> [val |-> bs[id].val, ts |-> bs[id].ts]],
         ops     |-> [id \in Live(bs) |->
                        IF id \in fresh THEN bs[id].text ELSE bs[id].text \ front[id]],
         deleted |-> (DOMAIN bs \ Live(bs)) \cap DOMAIN front,
         front   |-> frontier(bs)]

\* Mutant: of two writes with the same timestamp the last to arrive wins.
field_wins_LastArrival(f, h, b) == h.ts[f] >= b.ts[f]

(***************************************************************************)
(* merge_ops.  A snapshot of a block that is already present is skipped,   *)
(* header fields are merged last-writer-wins with the value as tie-break,  *)
(* text of an unknown block is skipped, tombstones only ever get set.      *)
(***************************************************************************)
field_wins(f, h, b) ==
    \/ h.ts[f] > b.ts[f]
    \/ h.ts[f] = b.ts[f] /\ TieKey(f, h.val[f]) > TieKey(f, b.val[f])

merge_header(b, h) ==
    [b EXCEPT !.val = [f \in Field |-> IF field_wins(f, h, b) THEN h.val[f] ELSE b.val[f]],
              !.ts  = [f \in Field |-> IF field_wins(f, h, b) THEN h.ts[f] ELSE b.ts[f]]]

TextFor(p, id) == IF id \in DOMAIN p.ops THEN p.ops[id] ELSE {}

\* from_snapshot_for_sync leaves the text to the edits of the payload; without
\* any, from_snapshot makes an empty one.
SnapshotText(by, p, id) == IF TextFor(p, id) = {} THEN {Created(by)} ELSE {}

\* The block after the snapshots and the headers of the payload.
ReceivedBlock(by, bs, p, id) ==
    IF id \notin DOMAIN bs THEN [p.new[id] EXCEPT !.text = SnapshotText(by, p, id)]
    ELSE IF id \in DOMAIN p.headers THEN merge_header(bs[id], p.headers[id])
    ELSE bs[id]

\* Mutant: the tombstone flag is taken from the payload.
MergedBlock_Revive(by, bs, p, id) ==
    [ReceivedBlock(by, bs, p, id) EXCEPT !.text    = @ \cup TextFor(p, id),
                                         !.deleted = id \in p.deleted]

MergedBlock(by, bs, p, id) ==
    [ReceivedBlock(by, bs, p, id) EXCEPT !.text    = @ \cup TextFor(p, id),
                                         !.deleted = @ \/ id \in p.deleted]

MergedBlocks(by, bs, p) ==
    [id \in DOMAIN bs \cup DOMAIN p.new |-> MergedBlock(by, bs, p, id)]

(***************************************************************************)
(* A text delta that builds on edits the receiver lacks is an error, and   *)
(* merge_ops returns there: snapshots, headers and the texts of the blocks *)
(* before it (done) are in the store, the tombstones and the clock are not *)
(* seen to.                                                                *)
(***************************************************************************)
Base(p, id) == p.front[id] \ p.ops[id]

BaseMissing(bs, p) ==
    {id \in DOMAIN p.ops \cap DOMAIN bs : p.ops[id] # {} /\ ~(Base(p, id) \subseteq bs[id].text)}

PartlyMergedBlock(by, bs, p, done, id) ==
    [ReceivedBlock(by, bs, p, id) EXCEPT !.text = @ \cup (IF id \in done THEN TextFor(p, id) ELSE {})]

PartlyMerged(by, bs, p, done) ==
    [id \in DOMAIN bs \cup DOMAIN p.new |-> PartlyMergedBlock(by, bs, p, done, id)]

\* The timestamps merge_ops looks at: those of every header, and those of
\* the snapshots it did not skip.
RemoteStamps(bs, p) ==
    (UNION {Stamps(p.headers[id]) : id \in DOMAIN p.headers})
      \cup (UNION {Stamps(p.new[id]) : id \in DOMAIN p.new \ DOMAIN bs})

HadTextMerges(bs, p) == \E id \in DOMAIN bs \cup DOMAIN p.new : TextFor(p, id) # {}

\* Mutant: the clock does not look at the timestamps merged.
MergedClock_LocalOnly(c, bs, p, m) == c + Cardinality(p.deleted)

\* One tick per tombstone, then merge_clock with the largest remote stamp m.
MergedClock(c, bs, p, m) ==
    LET ticked == c + Cardinality(p.deleted)
    IN  IF m > 0 \/ HadTextMerges(bs, p)
        THEN (IF ticked >= m THEN ticked ELSE m) + 1
        ELSE ticked

IsMax(m, S) == m \in S /\ \A x \in S : x <= m

----------------------------------------------------------------------------
(***************************************************************************)
(* snapshot and from_snapshot.  A tombstone comes back bare, as a text     *)
(* block with a new, empty text; the clock is the largest timestamp of a   *)
(* live block and the lane one past every seq of the principal, tombstones *)
(* included.                                                               *)
(***************************************************************************)
RestoredBlock(by, b) ==
    IF b.deleted THEN [NewBlock(PlainText, 0, 0, 0, by) EXCEPT !.deleted = TRUE]
    ELSE IF b.text = {} THEN [b EXCEPT !.text = {Created(by)}]
    ELSE b

RestoredStore(by, bs) == [id \in DOMAIN bs |-> RestoredBlock(by, bs[id])]
LiveStamps(bs) == UNION {Stamps(bs[id]) : id \in Live(bs)}
\* Mutant: a tombstone's seq is free again.
OwnSeqs_LiveOnly(r, bs) == {id[2] + 1 : id \in {i \in Live(bs) : i[1] = r}}

OwnSeqs(r, bs) == {id[2] + 1 : id \in {i \in DOMAIN bs : i[1] = r}}

----------------------------------------------------------------------------
\* Well-formed stores and payloads.
HeaderType == [val : [Field -> Val], ts : [Field -> Nat]]

PayloadOK(p) ==
    /\ DOMAIN p.new \subseteq Id /\ IsFiniteSet(DOMAIN p.new)
    /\ \A id \in DOMAIN p.new : p.new[id] \in Block
    /\ DOMAIN p.headers \subseteq Id /\ \A id \in DOMAIN p.headers : p.headers[id] \in HeaderType
    /\ DOMAIN p.ops \subseteq Id /\ \A id \in DOMAIN p.ops : p.ops[id] \subseteq Edit
    /\ p.deleted \subseteq Id /\ IsFiniteSet(p.deleted)

StoreOK(bs) ==
    /\ DOMAIN bs \subseteq Id /\ IsFiniteSet(DOMAIN bs)
    /\ \A id \in DOMAIN bs : bs[id] \in Block

\* No timestamp of the store is ahead of the clock c.
BelowClock(bs, c) == \A id \in DOMAIN bs : \A f \in Field : bs[id].ts[f] <= c
=============================================================================
