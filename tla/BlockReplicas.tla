---------------------------- MODULE BlockReplicas ----------------------------
(***************************************************************************)
(* Replicas of one block log (kaijutsu-crdt/src/block_store.rs) that       *)
(* mutate it and exchange sync payloads over links that lose messages and  *)
(* acknowledgements (push_new_ops of kaijutsu-mcp/src/doc_task.rs).        *)
(*                                                                         *)
(* Every replica mints ids under a principal of its own, as the kernel and *)
(* each MCP session do.                                                    *)
(***************************************************************************)
EXTENDS BlockLog

CONSTANTS
    Author,      \* the replicas that insert blocks
    MaxSeq,      \* bound: blocks minted by a replica
    MaxClock,    \* bound: Lamport clock of a replica that still acts
    MaxEdits     \* bound: text edits of a replica

ASSUME ReplicaAssumption ==
    /\ Author \subseteq Replica
    /\ MaxSeq \in Nat /\ MaxClock \in Nat /\ MaxEdits \in Nat

VARIABLES
    blocks,     \* replica -> (id -> block)
    clock,      \* replica -> lamport_clock
    lane,       \* replica -> the next seq of its principal
    edits,      \* replica -> text edits made (for the bound and for fresh edits)
    pushed,     \* sender -> receiver -> pushed_frontier: id -> text known to be there
    inflight,   \* sender -> receiver -> payload on its way, or NoMsg
    torn        \* the replicas in which a merge has failed since they started

vars == <<blocks, clock, lane, edits, pushed, inflight, torn>>

NoMsg == [sent |-> FALSE]

Init ==
    /\ blocks = [r \in Replica |-> << >>]
    /\ clock = [r \in Replica |-> 0]
    /\ lane = [r \in Replica |-> 0]
    /\ edits = [r \in Replica |-> 0]
    /\ pushed = [s \in Replica |-> [r \in Replica |-> << >>]]
    /\ inflight = [s \in Replica |-> [r \in Replica |-> NoMsg]]
    /\ torn = {}

MayTick(r) == clock[r] < MaxClock

----------------------------------------------------------------------------
(***************************************************************************)
(* Local mutations.                                                        *)
(***************************************************************************)
\* insert_block, insert_tool_call, insert_tool_result_block: every field is
\* stamped with a fresh Lamport time.
InsertBlock(r, birth, pos, v) ==
    /\ r \in Author /\ MayTick(r) /\ lane[r] < MaxSeq
    /\ clock' = [clock EXCEPT ![r] = @ + 1]
    /\ lane' = [lane EXCEPT ![r] = @ + 1]
    /\ blocks' = [blocks EXCEPT ![r] = Put(@, <<r, lane[r]>>, NewBlock(birth, pos, v, clock[r] + 1, r))]
    /\ UNCHANGED <<edits, pushed, inflight, torn>>

\* insert_drift_block, insert_file_block, insert_error_block,
\* insert_notification_block, insert_resource_block: built from a snapshot
\* whose timestamps are zero, without a tick of the clock.
InsertUnstamped(r, birth, pos) ==
    /\ r \in Author /\ lane[r] < MaxSeq
    /\ lane' = [lane EXCEPT ![r] = @ + 1]
    /\ blocks' = [blocks EXCEPT ![r] = Put(@, <<r, lane[r]>>, NewBlock(birth, pos, 0, 0, r))]
    /\ UNCHANGED <<clock, edits, pushed, inflight, torn>>

\* set_status, set_collapsed, set_ephemeral, set_excluded, set_compacted,
\* set_content_type, set_exit_code.  The clock ticks even when the block is
\* refused.
SetField(r, id, f, v) ==
    /\ MayTick(r)
    /\ clock' = [clock EXCEPT ![r] = @ + 1]
    /\ blocks' = IF blocks[r][id].deleted /\ f \in LiveOnlyField
                 THEN blocks
                 ELSE [blocks EXCEPT ![r] = Put(@, id, WithField(@[id], f, v, clock[r] + 1))]
    /\ UNCHANGED <<lane, edits, pushed, inflight, torn>>

\* edit_text and append_text: the text only, no clock.  A block whose text has
\* not been created yet takes no edit.
EditText(r, id) ==
    /\ edits[r] < MaxEdits
    /\ ~blocks[r][id].deleted /\ blocks[r][id].text # {}
    /\ edits' = [edits EXCEPT ![r] = @ + 1]
    /\ blocks' = [blocks EXCEPT ![r] = Put(@, id, WithEdit(@[id], <<r, edits[r] + 1>>))]
    /\ UNCHANGED <<clock, lane, pushed, inflight, torn>>

\* move_block: a new position, no clock and no timestamp.
MoveBlock(r, id, pos) ==
    /\ ~blocks[r][id].deleted
    /\ blocks' = [blocks EXCEPT ![r] = Put(@, id, [@[id] EXCEPT !.pos = pos])]
    /\ UNCHANGED <<clock, lane, edits, pushed, inflight, torn>>

\* set_stderr, set_output, set_signature, set_tool_use_id: no clock either.
SetAside(r, id, a) ==
    /\ ~blocks[r][id].deleted
    /\ blocks' = [blocks EXCEPT ![r] = Put(@, id, [@[id] EXCEPT !.aside = a])]
    /\ UNCHANGED <<clock, lane, edits, pushed, inflight, torn>>

DeleteBlock(r, id) ==
    /\ MayTick(r)
    /\ clock' = [clock EXCEPT ![r] = @ + 1]
    /\ blocks' = [blocks EXCEPT ![r] = Put(@, id, [@[id] EXCEPT !.deleted = TRUE])]
    /\ UNCHANGED <<lane, edits, pushed, inflight, torn>>

----------------------------------------------------------------------------
merge_ops(r, p) ==
    /\ MayTick(r)
    /\ BaseMissing(blocks[r], p) = {}
    /\ \E m \in RemoteStamps(blocks[r], p) \cup {0} :
            /\ IsMax(m, RemoteStamps(blocks[r], p) \cup {0})
            /\ clock' = [clock EXCEPT ![r] = MergedClock(@, blocks[r], p, m)]
    /\ blocks' = [blocks EXCEPT ![r] = MergedBlocks(r, @, p)]
    /\ UNCHANGED torn

\* Which texts come before the one that fails depends on the order of the ids.
merge_ops_fails(r, p) ==
    /\ BaseMissing(blocks[r], p) # {}
    /\ \E done \in SUBSET (DOMAIN p.ops \ BaseMissing(blocks[r], p)) :
            blocks' = [blocks EXCEPT ![r] = PartlyMerged(r, @, p, done)]
    /\ torn' = torn \cup {r}
    /\ UNCHANGED clock

----------------------------------------------------------------------------
(***************************************************************************)
(* push_new_ops: one payload in flight per link, computed against the      *)
(* frontier of the last acknowledged push.  A push can fail before the     *)
(* peer merged it, in the merge, or after it (the answer is lost); the     *)
(* frontier then stays and the next push carries the same operations       *)
(* again.  A payload with nothing in it (no live block and no tombstone to *)
(* name) is not sent.                                                      *)
(***************************************************************************)
Push(s, r) ==
    /\ s # r
    /\ inflight[s][r] = NoMsg
    /\ Live(blocks[s]) # {} \/ DOMAIN blocks[s] \cap DOMAIN pushed[s][r] # {}
    /\ inflight' = [inflight EXCEPT ![s][r] = ops_since(blocks[s], pushed[s][r])]
    /\ UNCHANGED <<blocks, clock, lane, edits, pushed, torn>>

DeliverPush(s, r) ==
    /\ inflight[s][r] # NoMsg
    /\ merge_ops(r, inflight[s][r])
    /\ pushed' = [pushed EXCEPT ![s][r] = inflight[s][r].front]
    /\ inflight' = [inflight EXCEPT ![s][r] = NoMsg]
    /\ UNCHANGED <<lane, edits>>

DeliverPushAnswerLost(s, r) ==
    /\ inflight[s][r] # NoMsg
    /\ merge_ops(r, inflight[s][r])
    /\ inflight' = [inflight EXCEPT ![s][r] = NoMsg]
    /\ UNCHANGED <<lane, edits, pushed>>

DeliverPushFails(s, r) ==
    /\ inflight[s][r] # NoMsg
    /\ merge_ops_fails(r, inflight[s][r])
    /\ inflight' = [inflight EXCEPT ![s][r] = NoMsg]
    /\ UNCHANGED <<lane, edits, pushed>>

LosePush(s, r) ==
    /\ inflight[s][r] # NoMsg
    /\ inflight' = [inflight EXCEPT ![s][r] = NoMsg]
    /\ UNCHANGED <<blocks, clock, lane, edits, pushed, torn>>

----------------------------------------------------------------------------

(***************************************************************************)
(* Restart: the store is rebuilt from its own snapshot.  Nothing remembers *)
(* what had been pushed.                                                   *)
(***************************************************************************)
Restart(r) ==
    /\ blocks' = [blocks EXCEPT ![r] = RestoredStore(r, @)]
    /\ \E m \in LiveStamps(blocks[r]) \cup {0} :
            /\ IsMax(m, LiveStamps(blocks[r]) \cup {0})
            /\ clock' = [clock EXCEPT ![r] = m]
    /\ \E n \in OwnSeqs(r, blocks[r]) \cup {0} :
            /\ IsMax(n, OwnSeqs(r, blocks[r]) \cup {0})
            /\ lane' = [lane EXCEPT ![r] = n]
    /\ pushed' = [pushed EXCEPT ![r] = [q \in Replica |-> << >>]]
    /\ inflight' = [inflight EXCEPT ![r] = [q \in Replica |-> NoMsg]]
    /\ torn' = torn \ {r}
    /\ UNCHANGED edits

LocalStep(r) ==
    \/ \E birth \in Birth, pos \in Pos : InsertUnstamped(r, birth, pos)
    \/ \E birth \in Birth, pos \in Pos, v \in Val : InsertBlock(r, birth, pos, v)
    \/ \E id \in DOMAIN blocks[r] :
            \/ \E f \in Field, v \in Val : SetField(r, id, f, v)
            \/ EditText(r, id)
            \/ \E pos \in Pos : MoveBlock(r, id, pos)
            \/ \E a \in Aside : SetAside(r, id, a)
            \/ DeleteBlock(r, id)

LinkStep(s, r) ==
    \/ Push(s, r)
    \/ DeliverPush(s, r)
    \/ DeliverPushAnswerLost(s, r)
    \/ DeliverPushFails(s, r)
    \/ LosePush(s, r)

Next ==
    \/ \E r \in Replica : LocalStep(r) \/ Restart(r)
    \/ \E s, r \in Replica : LinkStep(s, r)

Spec == Init /\ [][Next]_vars

----------------------------------------------------------------------------
(* Stores, clocks, lanes and payloads in flight keep their shape.           *)
TypeOK ==
    /\ blocks = [r \in Replica |-> blocks[r]] /\ \A r \in Replica : StoreOK(blocks[r])
    /\ clock \in [Replica -> Nat]
    /\ lane \in [Replica -> Nat]
    /\ edits \in [Replica -> Nat]
    /\ inflight = [s \in Replica |-> [r \in Replica |-> inflight[s][r]]]
    /\ \A s, r \in Replica : inflight[s][r] # NoMsg => PayloadOK(inflight[s][r])
    /\ torn \subseteq Replica

(***************************************************************************)
(* No timestamp in a store is ahead of its Lamport clock, so that the next *)
(* local set_* is newer than everything the store has seen, across merges, *)
(* lost answers and restarts, as long as no merge failed midway.           *)
(***************************************************************************)
ClockDominates ==
    \A r \in Replica \ torn : \A id \in DOMAIN blocks[r] : \A f \in Field :
        blocks[r][id].ts[f] <= clock[r]

(***************************************************************************)
(* An id names the same block everywhere: no replica mints an id twice,    *)
(* not even after a restart, so all live copies agree on what they were    *)
(* born as (parent, role, kind and author never change).                   *)
(***************************************************************************)
SameBirth ==
    \A r, s \in Replica : \A id \in Live(blocks[r]) \cap Live(blocks[s]) :
        blocks[r][id].birth = blocks[s][id].birth

(***************************************************************************)
(* Why it holds.  The replica that minted an id keeps a block for it as    *)
(* long as any copy is about, so that no restart forgets the seq; and all  *)
(* copies, live in a store or on their way in a payload, were born alike.  *)
(***************************************************************************)
OriginKept ==
    /\ \A r \in Replica : \A id \in DOMAIN blocks[r] : id \in DOMAIN blocks[id[1]]
    /\ \A s, r \in Replica : inflight[s][r] # NoMsg =>
            \A id \in DOMAIN inflight[s][r].new : id \in DOMAIN blocks[id[1]]

LaneAhead == \A r \in Replica : \A id \in DOMAIN blocks[r] : id[1] = r => id[2] < lane[r]

IsCopy(id, x) ==
    \/ \E r \in Replica : id \in Live(blocks[r]) /\ x = blocks[r][id].birth
    \/ \E s, r \in Replica :
            /\ inflight[s][r] # NoMsg
            /\ id \in DOMAIN inflight[s][r].new
            /\ x = inflight[s][r].new[id].birth

CopiesAgree ==
    \A o \in Replica : \A id \in DOMAIN blocks[o] : \A x, y \in Birth :
        IsCopy(id, x) /\ IsCopy(id, y) => x = y

ReplicaInv == TypeOK /\ ClockDominates /\ OriginKept /\ LaneAhead /\ CopiesAgree

(***************************************************************************)
(* A tombstone is for ever: no late snapshot, header, text or restart      *)
(* brings a deleted block back to life.                                    *)
(***************************************************************************)
TombstonesStay ==
    [][\A r \in Replica : \A id \in DOMAIN blocks[r] :
            blocks[r][id].deleted => id \in DOMAIN blocks'[r] /\ blocks'[r][id].deleted]_vars

(***************************************************************************)
(* Last writer wins: the write a live block shows for a field is never     *)
(* replaced by an older one, whatever order payloads arrive in, also by    *)
(* the merge that fails (the writes after it are another matter).          *)
(***************************************************************************)
NoOlderWrite ==
    [][\A r \in Replica \ torn : \A id \in Live(blocks[r]) : \A f \in Field :
            \/ blocks'[r][id].ts[f] > blocks[r][id].ts[f]
            \/ /\ blocks'[r][id].ts[f] = blocks[r][id].ts[f]
               /\ blocks'[r][id].val[f] >= blocks[r][id].val[f]]_vars

(***************************************************************************)
(* Exchange: what two stores hold after each merged the other's operations *)
(* since its own frontier.  Each is sent just the edits it lacks, so that  *)
(* neither merge fails.                                                    *)
(***************************************************************************)
AfterPull(r, s) == MergedBlocks(r, blocks[r], ops_since(blocks[s], frontier(blocks[r])))
AfterExchange(r, s) ==
    LET r1 == AfterPull(r, s)
    IN  <<r1, MergedBlocks(s, blocks[s], ops_since(r1, frontier(blocks[s])))>>

Shown(b) == b.text \ Creation

AgreeOn(P(_), bs1, bs2) ==
    /\ Live(bs1) = Live(bs2)
    /\ \A id \in Live(bs1) : P(bs1[id]) = P(bs2[id])

(***************************************************************************)
(* "Both peers independently compute the same result, guaranteeing         *)
(* convergence": from any states two replicas can get into, one exchange   *)
(* leaves them with the same live blocks, texts and header fields.  Not so *)
(* for the tool_meta cluster: a tie between two exit codes is not broken.  *)
(***************************************************************************)
ExchangeConverges ==
    \A r, s \in Replica :
        AgreeOn(LAMBDA b : <<Shown(b), [f \in Field \ ToolMetaField |-> b.val[f]]>>,
                AfterExchange(r, s)[1], AfterExchange(r, s)[2])

(***************************************************************************)
(* "journaling so peers receive ops": after an exchange two replicas show  *)
(* the blocks at the same positions, moves included.                       *)
(***************************************************************************)
ExchangeConvergesOnOrder ==
    \A r, s \in Replica :
        AgreeOn(LAMBDA b : b.pos, AfterExchange(r, s)[1], AfterExchange(r, s)[2])

(***************************************************************************)
(* "the next push naturally retries the same ops (plus anything new)": a   *)
(* push that is acknowledged left the receiver with every header field at  *)
(* least as new as the payload's.                                          *)
(***************************************************************************)
AckedPushApplied ==
    [][\A s, r \in Replica :
            DeliverPush(s, r) =>
                \A id \in DOMAIN inflight[s][r].new \ DOMAIN inflight[s][r].headers :
                    \A f \in Field : blocks'[r][id].ts[f] >= inflight[s][r].new[id].ts[f]]_vars
=============================================================================
