---------------------------- MODULE KernelJournal ----------------------------
(***************************************************************************)
(* One document of the kernel's BlockStore: the block log in memory, the   *)
(* oplog and the snapshot in the database, the live_status cache, and the  *)
(* threads that mutate the document at the same time                       *)
(* (kaijutsu-kernel/src/block_store.rs, kernel_db.rs).                     *)
(*                                                                         *)
(* A mutator changes the log under the write lock of the map entry and     *)
(* takes the operations it made with it; everything after that, journal_op *)
(* and compact_document, runs without that lock, one short critical        *)
(* section per step below.  The kernel can be killed between any two.      *)
(* The events a mutator emits to subscribers and the activity time stamp   *)
(* written after the row are not part of this module.                      *)
(***************************************************************************)
EXTENDS BlockLog

CONSTANTS
    Kernel, Peer,             \* the replicas whose principals mint ids here
    Thread,
    COMPACTION_OP_THRESHOLD,
    ForkStamp,                \* timestamps of the block a forked document starts with
    MaxSeq,                   \* bound: blocks minted by the kernel
    MaxClock,                 \* bound: Lamport clock of a document that is mutated
    MaxEdits,                 \* bound: text edits
    MaxOps,                   \* bound: journal numbers given out before a new mutation
    MaxFails,                 \* bound: database writes that fail
    MaxCrashes                \* bound: kills of the kernel

ASSUME JournalAssumption ==
    /\ Kernel \in Replica /\ Peer \in Replica /\ Kernel # Peer
    /\ Replica \subseteq Nat
    /\ COMPACTION_OP_THRESHOLD \in Nat /\ ForkStamp \subseteq Nat
    /\ MaxSeq \in Nat /\ MaxClock \in Nat /\ MaxEdits \in Nat
    /\ MaxOps \in Nat /\ MaxFails \in Nat /\ MaxCrashes \in Nat

VARIABLES
    doc,        \* the DocumentEntry's log: [blocks, clock, lane], or Absent
    nextSeq,    \* its next_journal_seq
    count,      \* its uncompacted_count
    cache,      \* live_status of the document: a status, or Unknown
    oplog,      \* table oplog: seq -> payload
    snapshot,   \* table doc_snapshots: [seq, blocks]; no row is seq 0 and no block
    task,       \* thread -> where it is in its call, and what it carries
    edits, fails, crashes

mem == <<doc, nextSeq, count, cache>>
disk == <<oplog, snapshot>>
vars == <<mem, disk, task, edits, fails, crashes>>

Absent == [blocks |-> << >>]
Unknown == 99
Idle == [pc |-> "idle"]
Quiet == \A t \in Thread : task[t] = Idle

Pending == 0
Running == 1
Error == 2

IdLess(i, j) == i[1] < j[1] \/ (i[1] = j[1] /\ i[2] < j[2])

\* The last block of the log in document order.
IsTail(bs, i) ==
    /\ i \in Live(bs)
    /\ \A j \in Live(bs) \ {i} :
            bs[j].pos < bs[i].pos \/ (bs[j].pos = bs[i].pos /\ IdLess(j, i))

derive_context_live_status(bs) ==
    IF \E id \in Live(bs) : bs[id].val["status"] = Running THEN Running
    ELSE IF \E id \in Live(bs) : IsTail(bs, id) /\ bs[id].val["status"] = Error THEN Error
    ELSE Pending

----------------------------------------------------------------------------
(***************************************************************************)
(* A new document, or one that fork_document made: the live blocks of its  *)
(* source with their timestamps, a Lamport clock of zero, and an initial   *)
(* snapshot with journal number zero.                                      *)
(***************************************************************************)
fork(bs) == [blocks |-> bs, clock |-> 0, lane |-> Cardinality(DOMAIN bs)]

EmptyDocument == [blocks |-> << >>, clock |-> 0, lane |-> 0]

Init ==
    /\ \/ doc = EmptyDocument
       \/ \E ts \in ForkStamp :
            doc = fork([id \in {<<Kernel, 0>>} |-> NewBlock(PlainText, 0, 0, ts, Kernel)])
    /\ snapshot = [seq |-> 0, blocks |-> doc.blocks]
    /\ oplog = << >>
    /\ nextSeq = 0 /\ count = 0
    /\ cache = Unknown
    /\ task = [t \in Thread |-> Idle]
    /\ edits = 0 /\ fails = 0 /\ crashes = 0

----------------------------------------------------------------------------
(***************************************************************************)
(* Mutators.  Each takes the frontier, changes the log and computes the    *)
(* operations since that frontier, all under the write lock.               *)
(***************************************************************************)
MayMutate(t) == task[t] = Idle /\ doc # Absent /\ nextSeq < MaxOps
MayTick == doc.clock < MaxClock

\* Mutant: the frontier is taken after the change.
Mutated_LateFrontier(t, bs, c, l) ==
    /\ doc' = [blocks |-> bs, clock |-> c, lane |-> l]
    /\ task' = [task EXCEPT ![t] = [pc |-> "mutated", ops |-> ops_since(bs, frontier(bs))]]
    /\ UNCHANGED <<nextSeq, count, cache, disk, fails, crashes>>

Mutated(t, bs, c, l) ==
    /\ doc' = [blocks |-> bs, clock |-> c, lane |-> l]
    /\ task' = [task EXCEPT ![t] = [pc |-> "mutated", ops |-> ops_since(bs, frontier(doc.blocks))]]
    /\ UNCHANGED <<nextSeq, count, cache, disk, fails, crashes>>

insert_block_as(t, birth, pos, v) ==
    /\ MayMutate(t) /\ MayTick /\ doc.lane < MaxSeq
    /\ Mutated(t, Put(doc.blocks, <<Kernel, doc.lane>>, NewBlock(birth, pos, v, doc.clock + 1, Kernel)),
               doc.clock + 1, doc.lane + 1)
    /\ UNCHANGED edits

\* set_status, set_excluded, set_collapsed, ...
set_field(t, id, f, v) ==
    /\ MayMutate(t) /\ MayTick
    /\ ~(doc.blocks[id].deleted /\ f \in LiveOnlyField)
    /\ Mutated(t, Put(doc.blocks, id, WithField(doc.blocks[id], f, v, doc.clock + 1)),
               doc.clock + 1, doc.lane)
    /\ UNCHANGED edits

\* A refused set_status has ticked the clock; nothing is journaled.
set_field_refused(t, id, f) ==
    /\ MayMutate(t) /\ MayTick
    /\ doc.blocks[id].deleted /\ f \in LiveOnlyField
    /\ doc' = [blocks |-> doc.blocks, clock |-> doc.clock + 1, lane |-> doc.lane]
    /\ UNCHANGED <<nextSeq, count, cache, disk, task, edits, fails, crashes>>

\* edit_text, append_text
edit_text(t, id) ==
    /\ MayMutate(t) /\ edits < MaxEdits
    /\ ~doc.blocks[id].deleted
    /\ edits' = edits + 1
    /\ Mutated(t, Put(doc.blocks, id, WithEdit(doc.blocks[id], <<Kernel, edits + 1>>)),
               doc.clock, doc.lane)

move_block(t, id, pos) ==
    /\ MayMutate(t)
    /\ ~doc.blocks[id].deleted
    /\ Mutated(t, Put(doc.blocks, id, [doc.blocks[id] EXCEPT !.pos = pos]), doc.clock, doc.lane)
    /\ UNCHANGED edits

\* set_stderr, set_output, set_signature, set_tool_use_id
set_aside(t, id, a) ==
    /\ MayMutate(t)
    /\ ~doc.blocks[id].deleted
    /\ Mutated(t, Put(doc.blocks, id, [doc.blocks[id] EXCEPT !.aside = a]), doc.clock, doc.lane)
    /\ UNCHANGED edits

delete_block(t, id) ==
    /\ MayMutate(t) /\ MayTick
    /\ Mutated(t, Put(doc.blocks, id, [doc.blocks[id] EXCEPT !.deleted = TRUE]),
               doc.clock + 1, doc.lane)
    /\ UNCHANGED edits

\* merge_ops: here a client pushes a block of its own.
PushedOps(v) == ops_since([id \in {<<Peer, 0>>} |-> NewBlock(PlainText, 0, v, 1, Peer)], << >>)

merge_ops(t, p) ==
    /\ MayMutate(t) /\ MayTick
    /\ \E m \in RemoteStamps(doc.blocks, p) \cup {0} :
            /\ IsMax(m, RemoteStamps(doc.blocks, p) \cup {0})
            /\ Mutated(t, MergedBlocks(Kernel, doc.blocks, p),
                       MergedClock(doc.clock, doc.blocks, p, m), doc.lane)
    /\ UNCHANGED edits

Mutator(t) ==
    \/ \E birth \in Birth, pos \in Pos, v \in Val : insert_block_as(t, birth, pos, v)
    \/ \E v \in Val : merge_ops(t, PushedOps(v))
    \/ \E id \in DOMAIN doc.blocks :
            \/ \E f \in Field, v \in Val : set_field(t, id, f, v)
            \/ \E f \in Field : set_field_refused(t, id, f)
            \/ edit_text(t, id)
            \/ \E pos \in Pos : move_block(t, id, pos)
            \/ \E a \in Aside : set_aside(t, id, a)
            \/ delete_block(t, id)

----------------------------------------------------------------------------
(***************************************************************************)
(* journal_op: refresh the live_status cache, take a journal number, write *)
(* the row; compact when the count says so.                                *)
(***************************************************************************)
At(t, pc) == task[t].pc = pc
Goto(t, next) == task' = [task EXCEPT ![t] = next]

ReadStatuses(t) ==
    /\ At(t, "mutated")
    /\ Goto(t, [pc |-> "statuses", ops |-> task[t].ops,
                status |-> derive_context_live_status(doc.blocks)])
    /\ UNCHANGED <<mem, disk, edits, fails, crashes>>

\* Mutant: a filled cache is left alone.
recompute_live_status_Once(t) ==
    /\ At(t, "statuses")
    /\ cache' = IF cache = Unknown THEN task[t].status ELSE cache
    /\ Goto(t, [pc |-> "cached", ops |-> task[t].ops])
    /\ UNCHANGED <<doc, nextSeq, count, disk, edits, fails, crashes>>

recompute_live_status(t) ==
    /\ At(t, "statuses")
    /\ cache' = task[t].status
    /\ Goto(t, [pc |-> "cached", ops |-> task[t].ops])
    /\ UNCHANGED <<doc, nextSeq, count, disk, edits, fails, crashes>>

TakeSeq(t) ==
    /\ At(t, "cached")
    /\ nextSeq' = nextSeq + 1
    /\ Goto(t, [pc |-> "counting", ops |-> task[t].ops, seq |-> nextSeq + 1])
    /\ UNCHANGED <<doc, count, cache, disk, edits, fails, crashes>>

CountOp(t) ==
    /\ At(t, "counting")
    /\ count' = count + 1
    /\ Goto(t, [pc |-> "append", ops |-> task[t].ops, seq |-> task[t].seq,
                full |-> count + 1 >= COMPACTION_OP_THRESHOLD])
    /\ UNCHANGED <<doc, nextSeq, cache, disk, edits, fails, crashes>>

append_op(t) ==
    /\ At(t, "append")
    /\ task[t].seq \notin DOMAIN oplog
    /\ oplog' = Put(oplog, task[t].seq, task[t].ops)
    /\ Goto(t, IF task[t].full THEN [pc |-> "compact"] ELSE Idle)
    /\ UNCHANGED <<mem, snapshot, edits, fails, crashes>>

\* The row, or the activity stamp after it, could not be written: the call
\* returns an error and the log in memory keeps the change.
AppendFails(t) ==
    /\ At(t, "append")
    /\ fails < MaxFails \/ task[t].seq \in DOMAIN oplog
    /\ fails' = fails + 1
    /\ \/ oplog' = oplog
       \/ task[t].seq \notin DOMAIN oplog /\ oplog' = Put(oplog, task[t].seq, task[t].ops)
    /\ Goto(t, Idle)
    /\ UNCHANGED <<mem, snapshot, edits, crashes>>

(***************************************************************************)
(* compact_document: snapshot and journal number are read together under   *)
(* the read lock, written in one transaction later.                        *)
(***************************************************************************)
CompactRead(t) ==
    /\ At(t, "compact")
    /\ Goto(t, [pc |-> "write", snap |-> [seq |-> nextSeq, blocks |-> doc.blocks]])
    /\ UNCHANGED <<mem, disk, edits, fails, crashes>>

\* Mutant: the oplog is cut at the number that is current at the write.
write_snapshot_and_truncate_LateSeq(t) ==
    /\ At(t, "write")
    /\ snapshot' = task[t].snap
    /\ oplog' = [n \in {k \in DOMAIN oplog : k > nextSeq} |-> oplog[n]]
    /\ Goto(t, [pc |-> "reset"])
    /\ UNCHANGED <<mem, edits, fails, crashes>>

\* Mutant: the row is updated with the new number but keeps its old state.
write_snapshot_and_truncate_Keep(t) ==
    /\ At(t, "write")
    /\ snapshot' = [snapshot EXCEPT !.seq = task[t].snap.seq]
    /\ oplog' = [n \in {k \in DOMAIN oplog : k > task[t].snap.seq} |-> oplog[n]]
    /\ Goto(t, [pc |-> "reset"])
    /\ UNCHANGED <<mem, edits, fails, crashes>>

write_snapshot_and_truncate(t) ==
    /\ At(t, "write")
    /\ snapshot' = task[t].snap
    /\ oplog' = [n \in {k \in DOMAIN oplog : k > task[t].snap.seq} |-> oplog[n]]
    /\ Goto(t, [pc |-> "reset"])
    /\ UNCHANGED <<mem, edits, fails, crashes>>

CompactFails(t) ==
    /\ At(t, "write")
    /\ fails < MaxFails
    /\ fails' = fails + 1
    /\ Goto(t, Idle)
    /\ UNCHANGED <<mem, disk, edits, crashes>>

ResetCount(t) ==
    /\ At(t, "reset")
    /\ count' = 0
    /\ Goto(t, Idle)
    /\ UNCHANGED <<doc, nextSeq, cache, disk, edits, fails, crashes>>

\* live_status on a cold cache: the scan, then the insertion.
live_status(t) ==
    /\ task[t] = Idle /\ cache = Unknown /\ doc # Absent
    /\ Goto(t, [pc |-> "fill", status |-> derive_context_live_status(doc.blocks)])
    /\ UNCHANGED <<mem, disk, edits, fails, crashes>>

FillCache(t) ==
    /\ At(t, "fill")
    /\ cache' = task[t].status
    /\ Goto(t, Idle)
    /\ UNCHANGED <<doc, nextSeq, count, disk, edits, fails, crashes>>

----------------------------------------------------------------------------
(***************************************************************************)
(* The kernel is killed; load_from_db starts from the snapshot and replays *)
(* the rows after it in the order of their numbers.  A text delta whose    *)
(* base is missing is an error, and the document is then left out.         *)
(***************************************************************************)
Crash ==
    /\ doc # Absent
    /\ crashes < MaxCrashes
    /\ crashes' = crashes + 1
    /\ doc' = Absent
    /\ nextSeq' = 0 /\ count' = 0 /\ cache' = Unknown
    /\ task' = [t \in Thread |-> Idle]
    /\ UNCHANGED <<disk, edits, fails>>

ReplayRow(s, p) ==
    IF ~s.ok \/ BaseMissing(s.blocks, p) # {}
    THEN [s EXCEPT !.ok = FALSE]
    ELSE [ok |-> TRUE, blocks |-> MergedBlocks(Kernel, s.blocks, p),
          clock |-> LET stamps == RemoteStamps(s.blocks, p) \cup {0}
                    IN  MergedClock(s.clock, s.blocks, p, CHOOSE m \in stamps : IsMax(m, stamps))]

\* The state after the rows of the log up to number n.
ReplayedFrom(snap, log) ==
    LET stamps == LiveStamps(snap.blocks) \cup {0}
        Start == [ok |-> TRUE, blocks |-> RestoredStore(Kernel, snap.blocks),
                 clock |-> CHOOSE m \in stamps : IsMax(m, stamps)]
        After[n \in Nat] ==
            IF n <= snap.seq THEN Start
            ELSE IF n \in DOMAIN log THEN ReplayRow(After[n - 1], log[n])
            ELSE After[n - 1]
    IN  After

Replayed == ReplayedFrom(snapshot, oplog)

Rows == {n \in DOMAIN oplog : n > snapshot.seq}
LastRow == CHOOSE n \in Rows \cup {snapshot.seq} : IsMax(n, Rows \cup {snapshot.seq})
Recovered == Replayed[LastRow]

\* Mutant: numbering goes on from the snapshot, not from the last row.
load_from_db_BaseSeq ==
    /\ doc = Absent
    /\ Recovered.ok
    /\ doc' = [blocks |-> Recovered.blocks, clock |-> Recovered.clock,
               lane |-> LET seqs == OwnSeqs(Kernel, Recovered.blocks) \cup {0}
                        IN  CHOOSE n \in seqs : IsMax(n, seqs)]
    /\ nextSeq' = snapshot.seq
    /\ count' = Cardinality(Rows)
    /\ UNCHANGED <<cache, disk, task, edits, fails, crashes>>

load_from_db ==
    /\ doc = Absent
    /\ Recovered.ok
    /\ doc' = [blocks |-> Recovered.blocks, clock |-> Recovered.clock,
               lane |-> LET seqs == OwnSeqs(Kernel, Recovered.blocks) \cup {0}
                        IN  CHOOSE n \in seqs : IsMax(n, seqs)]
    /\ \E last \in Rows \cup {snapshot.seq} :
            IsMax(last, Rows \cup {snapshot.seq}) /\ nextSeq' = last
    /\ count' = Cardinality(Rows)
    /\ UNCHANGED <<cache, disk, task, edits, fails, crashes>>

Next ==
    \/ \E t \in Thread :
            \/ Mutator(t)
            \/ ReadStatuses(t) \/ recompute_live_status(t)
            \/ TakeSeq(t) \/ CountOp(t) \/ append_op(t) \/ AppendFails(t)
            \/ CompactRead(t) \/ write_snapshot_and_truncate(t) \/ CompactFails(t) \/ ResetCount(t)
            \/ live_status(t) \/ FillCache(t)
    \/ Crash
    \/ load_from_db

Spec == Init /\ [][Next]_vars

----------------------------------------------------------------------------
(* The document, the rows, the snapshot and the calls keep their shape.     *)
TypeOK ==
    /\ StoreOK(doc.blocks)
    /\ doc # Absent => doc.clock \in Nat /\ doc.lane \in Nat
    /\ nextSeq \in Nat /\ count \in Nat
    /\ cache \in {Pending, Running, Error, Unknown}
    /\ DOMAIN oplog \subseteq Nat /\ \A n \in DOMAIN oplog : PayloadOK(oplog[n])
    /\ snapshot.seq \in Nat /\ StoreOK(snapshot.blocks)
    /\ edits \in Nat /\ fails \in Nat /\ crashes \in Nat

\* What a reader of the document sees of a live block, its place and the
\* data beside the header left out.
Shown(bs) ==
    [id \in Live(bs) |-> <<bs[id].birth, bs[id].val, bs[id].ts, bs[id].text>>]

(***************************************************************************)
(* "Whatever was committed must survive in the on-disk files alone": when  *)
(* no call is under way and no write failed, a kill followed by            *)
(* load_from_db brings back every block, text and header field, and no     *)
(* deleted block.  (Its position after a move, and the data beside the     *)
(* header, are in no row: only the next snapshot has them.)                *)
(***************************************************************************)
Durable ==
    doc # Absent /\ Quiet /\ fails = 0 =>
        LET back == Recovered
        IN  /\ back.ok
            /\ DOMAIN back.blocks = DOMAIN doc.blocks
            /\ Shown(back.blocks) = Shown(doc.blocks)

(***************************************************************************)
(* Compaction, appends and restarts only ever add to what the database     *)
(* would bring back: no step makes a block, a tombstone, an edit or the    *)
(* newest write of a field unrecoverable.                                  *)
(***************************************************************************)
RecoveredOnlyGrows ==
    [][LET old == Recovered
           new == Recovered'
       IN  fails' = 0 =>
            /\ old.ok => new.ok
            /\ DOMAIN old.blocks \subseteq DOMAIN new.blocks
            /\ \A id \in DOMAIN old.blocks :
                \/ new.blocks[id].deleted
                \/ /\ ~old.blocks[id].deleted
                   /\ old.blocks[id].text \subseteq new.blocks[id].text
                   /\ \A f \in Field : old.blocks[id].ts[f] <= new.blocks[id].ts[f]]_disk

Numbered(t) == task[t].pc \in {"counting", "append"}

(***************************************************************************)
(* A journal number is given out once: no row is there under the number a  *)
(* thread is about to write, and no other thread holds it, even after      *)
(* failed writes and restarts (the number starts again at the last row).   *)
(***************************************************************************)
NumbersFresh ==
    \A t \in Thread : Numbered(t) =>
        /\ task[t].seq \notin DOMAIN oplog
        /\ \A u \in Thread \ {t} : Numbered(u) => task[u].seq # task[t].seq

(***************************************************************************)
(* Why it holds: while the document is loaded the number last given out is *)
(* not behind any row, the snapshot, or any number a thread still carries; *)
(* while it is not loaded, no thread carries one.                          *)
(***************************************************************************)
Carried(t) == Numbered(t) \/ At(t, "write")
CarriedSeq(t) == IF Numbered(t) THEN task[t].seq ELSE task[t].snap.seq

JournalInv ==
    /\ nextSeq \in Nat /\ snapshot.seq \in Nat /\ DOMAIN oplog \subseteq Nat
    /\ task = [t \in Thread |-> task[t]]
    /\ \/ doc = Absent /\ Quiet
       \/ /\ doc # Absent
          /\ snapshot.seq <= nextSeq
          /\ \A n \in DOMAIN oplog : n <= nextSeq
    /\ \A t \in Thread : Carried(t) => CarriedSeq(t) \in 0..nextSeq
    /\ NumbersFresh

Holds(bs, p) ==
    /\ DOMAIN p.new \subseteq DOMAIN bs
    /\ \A id \in p.deleted \cap DOMAIN bs : bs[id].deleted
    /\ \A id \in DOMAIN p.ops \cap Live(bs) : p.ops[id] \subseteq bs[id].text
    /\ \A id \in DOMAIN p.headers \cap Live(bs) : \A f \in Field :
            p.headers[id].ts[f] <= bs[id].ts[f]

(***************************************************************************)
(* write_snapshot_and_truncate deletes no operation that its snapshot does *)
(* not hold, whatever other threads did since the snapshot was taken.  (A  *)
(* kill may lose a block whose id is then minted again, and from then on   *)
(* an id does not tell which block an operation was about.)                *)
(***************************************************************************)
TruncationCovered ==
    [][\A n \in DOMAIN oplog \ DOMAIN oplog' :
            crashes = 0 => Holds(snapshot'.blocks, oplog[n])]_vars

(***************************************************************************)
(* recompute_live_status: "the cache can never silently drift from the     *)
(* CRDT state no matter which of the ~20 mutator functions was the actual  *)
(* caller".  When no call is under way the cache, if filled, is what the   *)
(* blocks say.                                                             *)
(***************************************************************************)
CacheExact ==
    doc # Absent /\ Quiet /\ cache # Unknown => cache = derive_context_live_status(doc.blocks)
=============================================================================
