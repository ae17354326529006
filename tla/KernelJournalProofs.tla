------------------------ MODULE KernelJournalProofs ------------------------
(***************************************************************************)
(* Theorems about the kernel's journal, for any number of blocks, failed   *)
(* writes, compactions and restarts: journal numbers are never given out   *)
(* twice, whatever the threads do; the cached live status never drifts     *)
(* from the document while one thread runs; compaction deletes no row its  *)
(* snapshot does not contain; and what one thread has written, a kill and  *)
(* load_from_db bring back.                                                *)
(***************************************************************************)
EXTENDS KernelJournal, BlockLogProofs, NaturalsInduction

\* A loaded document is not the absent one.
LEMMA Loaded == \A b, c, l : [blocks |-> b, clock |-> c, lane |-> l] # Absent
<1> SUFFICES ASSUME NEW b, NEW c, NEW l PROVE [blocks |-> b, clock |-> c, lane |-> l] # Absent
    OBVIOUS
<1>1. "clock" \in DOMAIN [blocks |-> b, clock |-> c, lane |-> l]
    OBVIOUS
<1>2. "clock" \notin DOMAIN Absent
    BY DEF Absent
<1> QED
    BY <1>1, <1>2

\* One more tick, or one more number.
LEMMA OneMore ==
    ASSUME NEW n \in Nat
    PROVE  n + 1 \in Nat /\ n <= n /\ n <= n + 1 /\ n + 1 <= n + 1 /\ n < n + 1 /\ ~(n + 1 <= n)
OBVIOUS

\* What is not ahead of a number is not ahead of the next one.
LEMMA StillBelow == ASSUME NEW m \in Nat, NEW n \in Nat, m <= n PROVE m <= n + 1
OBVIOUS

\* A number in a range.
LEMMA InRange == ASSUME NEW n \in Nat, NEW m \in 0..n PROVE m \in Nat /\ m <= n
OBVIOUS

\* A number that was not given out yet is ahead of those that were.
LEMMA Ahead == ASSUME NEW m \in Nat, NEW n \in Nat, m <= n PROVE ~(n + 1 <= m)
OBVIOUS

\* Two numbers, one not ahead of the other.
LEMMA NotAhead == ASSUME NEW m \in Nat, NEW n \in Nat, ~(n > m) PROVE n <= m
OBVIOUS

\* The invariant holds in a new or forked document.
LEMMA InitJournal == ASSUME Init PROVE JournalInv
<1>1. \A t \in Thread : task[t].pc = "idle"
    BY DEF Init, Idle
<1>2. \A t \in Thread : ~Numbered(t) /\ ~Carried(t)
    BY <1>1 DEF Numbered, Carried, At
<1>3. nextSeq = 0 /\ snapshot.seq = 0 /\ DOMAIN oplog = {}
    BY DEF Init
<1>4. task = [t \in Thread |-> task[t]]
    BY DEF Init
<1>5. doc # Absent
    BY Loaded DEF Init, EmptyDocument, fork
<1> QED
    BY <1>2, <1>3, <1>4, <1>5 DEF JournalInv, NumbersFresh

\* A step that leaves numbers, rows and snapshot alone, in which a thread
\* goes on without a number it did not carry before.
LEMMA MoveOn ==
    ASSUME JournalInv, NEW t \in Thread, NEW next,
           task' = [task EXCEPT ![t] = next],
           nextSeq' = nextSeq, disk' = disk, doc # Absent, doc' # Absent,
           \/ next.pc \notin {"counting", "append", "write"}
           \/ /\ next.pc \in {"counting", "append"} /\ Numbered(t) /\ next.seq = task[t].seq
           \/ next.pc = "write" /\ next.snap.seq = nextSeq
    PROVE  JournalInv'
<1>1. oplog' = oplog /\ snapshot' = snapshot
    BY DEF disk
<1>2. /\ task'[t] = next
      /\ \A u \in Thread \ {t} : task'[u] = task[u]
      /\ task' = [u \in Thread |-> task'[u]]
    BY DEF JournalInv
<1>3. /\ \A u \in Thread \ {t} : /\ Numbered(u)' <=> Numbered(u)
                                 /\ Carried(u)' <=> Carried(u)
                                 /\ CarriedSeq(u)' = CarriedSeq(u)
      /\ Numbered(t)' => Numbered(t) /\ task'[t].seq = task[t].seq
    BY <1>2 DEF Numbered, Carried, CarriedSeq, At
<1>4. Carried(t)' => CarriedSeq(t)' \in 0..nextSeq
    BY <1>2 DEF Numbered, Carried, CarriedSeq, At, JournalInv
<1>5. NumbersFresh'
    BY <1>1, <1>2, <1>3 DEF NumbersFresh, JournalInv
<1> QED
    BY <1>1, <1>2, <1>3, <1>4, <1>5 DEF JournalInv

\* A mutator changes the log and carries the operations, or it is a setter
\* that refuses a tombstone.
LEMMA MutatorCases ==
    ASSUME NEW t, Mutator(t)
    PROVE  /\ doc # Absent
           /\ \/ \E bs, c, l : Mutated(t, bs, c, l)
              \/ \E id, f : set_field_refused(t, id, f)
<1> DEFINE Goal == \/ \E bs, c, l : Mutated(t, bs, c, l)
                   \/ \E id, f : set_field_refused(t, id, f)
<1>1. doc # Absent
    BY Zenon DEF Mutator, insert_block_as, merge_ops, set_field, set_field_refused, edit_text,
           move_block, set_aside, delete_block, MayMutate
<1>2. CASE \E birth \in Birth, pos \in Pos, v \in Val : insert_block_as(t, birth, pos, v)
    BY <1>1, <1>2 DEF insert_block_as
<1>3. CASE \E v \in Val : merge_ops(t, PushedOps(v))
    BY <1>1, <1>3 DEF merge_ops
<1>4. ASSUME NEW id \in DOMAIN doc.blocks,
             \/ \E f \in Field, v \in Val : set_field(t, id, f, v)
             \/ \E f \in Field : set_field_refused(t, id, f)
             \/ edit_text(t, id)
             \/ \E pos \in Pos : move_block(t, id, pos)
             \/ \E a \in Aside : set_aside(t, id, a)
             \/ delete_block(t, id)
      PROVE  Goal
    BY <1>4, Zenon DEF set_field, edit_text, move_block, set_aside, delete_block
<1> QED BY <1>1, <1>2, <1>3, <1>4, SMTT(30) DEF Mutator

\* Every mutator leaves the journal alone and its thread without a number.
LEMMA MutatorKeeps ==
    ASSUME JournalInv, NEW t \in Thread, Mutator(t)
    PROVE  JournalInv'
<1>1. doc # Absent
    BY MutatorCases
<1>2. CASE \E bs, c, l : Mutated(t, bs, c, l)
    <2>1. PICK ops : task' = [task EXCEPT ![t] = [pc |-> "mutated", ops |-> ops]]
        BY <1>2, Zenon DEF Mutated
    <2>2. nextSeq' = nextSeq /\ disk' = disk /\ doc' # Absent
        BY <1>2, Loaded DEF Mutated
    <2> QED
        BY <1>1, <2>1, <2>2, MoveOn, Zenon
<1>3. CASE \E id, f : set_field_refused(t, id, f)
    <2>1. UNCHANGED <<nextSeq, disk, task>> /\ doc' # Absent
        BY <1>3, Loaded DEF set_field_refused
    <2> QED
        BY <1>1, <2>1 DEF disk, JournalInv, NumbersFresh, Numbered, Carried, CarriedSeq, At
<1> QED
    BY <1>2, <1>3, MutatorCases

\* A thread that is in a call finds the document loaded.
LEMMA BusyLoaded ==
    ASSUME JournalInv, NEW t \in Thread, task[t].pc # "idle"
    PROVE  doc # Absent
BY DEF Quiet, Idle, JournalInv

\* The steps of a call that neither number nor write.
LEMMA PassingKeeps ==
    ASSUME JournalInv, NEW t \in Thread,
           \/ ReadStatuses(t) \/ recompute_live_status(t) \/ CountOp(t)
           \/ CompactRead(t) \/ CompactFails(t) \/ ResetCount(t)
           \/ live_status(t) \/ FillCache(t)
    PROVE  JournalInv'
<1> USE DEF Goto, mem, At
<1>1. CASE ReadStatuses(t)
    BY <1>1, MoveOn, BusyLoaded, Zenon DEF ReadStatuses
<1>2. CASE recompute_live_status(t)
    BY <1>2, MoveOn, BusyLoaded, Zenon DEF recompute_live_status
<1>3. CASE CountOp(t)
    BY <1>3, MoveOn, BusyLoaded, Zenon DEF CountOp, Numbered
<1>4. CASE CompactRead(t)
    BY <1>4, MoveOn, BusyLoaded, Zenon DEF CompactRead
<1>5. CASE CompactFails(t)
    BY <1>5, MoveOn, BusyLoaded, Zenon DEF CompactFails, Idle
<1>6. CASE ResetCount(t)
    BY <1>6, MoveOn, BusyLoaded, Zenon DEF ResetCount, Idle
<1>7. CASE live_status(t)
    BY <1>7, MoveOn, Zenon DEF live_status
<1>8. CASE FillCache(t)
    BY <1>8, MoveOn, BusyLoaded, Zenon DEF FillCache, Idle
<1> QED
    BY <1>1, <1>2, <1>3, <1>4, <1>5, <1>6, <1>7, <1>8, SMTT(30)

\* A new number is past everything there is.
LEMMA TakeSeqKeeps ==
    ASSUME JournalInv, NEW t \in Thread, TakeSeq(t)
    PROVE  JournalInv'
<1> DEFINE next == [pc |-> "counting", ops |-> task[t].ops, seq |-> nextSeq + 1]
<1>1. /\ task' = [task EXCEPT ![t] = next] /\ nextSeq' = nextSeq + 1
      /\ oplog' = oplog /\ snapshot' = snapshot
    BY DEF TakeSeq, Goto, disk
<1>2. doc # Absent /\ doc' # Absent
    BY BusyLoaded DEF TakeSeq, At
<1>3. /\ task'[t] = next
      /\ \A u \in Thread \ {t} : task'[u] = task[u]
      /\ task' = [u \in Thread |-> task'[u]]
    BY <1>1 DEF JournalInv
<1>4. /\ \A u \in Thread \ {t} : /\ Numbered(u)' <=> Numbered(u)
                                 /\ Carried(u)' <=> Carried(u)
                                 /\ CarriedSeq(u)' = CarriedSeq(u)
      /\ Numbered(t)' /\ task'[t].seq = nextSeq + 1 /\ CarriedSeq(t)' = nextSeq + 1
    BY <1>3 DEF Numbered, Carried, CarriedSeq, At
<1>5. nextSeq + 1 \notin DOMAIN oplog
    BY <1>2 DEF JournalInv
<1>6. \A u \in Thread : Numbered(u) => task[u].seq \in 0..nextSeq
    BY DEF JournalInv, Carried, CarriedSeq
<1>7. NumbersFresh'
    <2> HIDE DEF next
    <2>1. nextSeq \in Nat /\ NumbersFresh
        BY DEF JournalInv
    <2>2. ASSUME NEW u \in Thread, Numbered(u)'
          PROVE  task'[u].seq \notin DOMAIN oplog'
        BY <1>1, <1>3, <1>4, <1>5, <2>1, <2>2, Zenon DEF NumbersFresh
    <2>3. ASSUME NEW u \in Thread, NEW v \in Thread \ {u}, Numbered(u)', Numbered(v)'
          PROVE  task'[u].seq # task'[v].seq
        BY <1>3, <1>4, <1>6, <2>1, <2>3, SMTT(30) DEF NumbersFresh
    <2> QED
        BY <2>2, <2>3 DEF NumbersFresh
<1>8. \A u \in Thread : Carried(u)' => CarriedSeq(u)' \in 0..(nextSeq + 1)
    <2> HIDE DEF next
    <2> QED
        BY <1>4 DEF JournalInv
<1> QED
    BY <1>1, <1>2, <1>3, <1>7, <1>8, SMTT(30) DEF JournalInv

\* A row is written under the thread's own number, or not at all.
LEMMA AppendKeeps ==
    ASSUME JournalInv, NEW t \in Thread, append_op(t) \/ AppendFails(t)
    PROVE  JournalInv'
<1>1. PICK next \in {[pc |-> "compact"], Idle} : task' = [task EXCEPT ![t] = next]
    BY SMTT(30) DEF append_op, AppendFails, Goto
<1>2. Numbered(t) /\ task[t].pc # "idle"
    BY SMTT(30) DEF append_op, AppendFails, At, Numbered
<1>3. doc # Absent /\ doc' # Absent
    BY <1>2, BusyLoaded, SMTT(30) DEF append_op, AppendFails, mem
<1>4. nextSeq' = nextSeq /\ snapshot' = snapshot
    BY DEF append_op, AppendFails, mem
<1>5. DOMAIN oplog' \subseteq DOMAIN oplog \cup {task[t].seq}
    BY DEF append_op, AppendFails, Put
<1>6. task[t].seq \in 0..nextSeq
    BY <1>2 DEF JournalInv, Carried, CarriedSeq
<1>7. next.pc \in {"compact", "idle"}
    BY DEF Idle
<1>8. /\ task'[t] = next
      /\ \A u \in Thread \ {t} : task'[u] = task[u]
      /\ task' = [u \in Thread |-> task'[u]]
    BY <1>1, SMTT(30) DEF JournalInv
<1>9. /\ \A u \in Thread \ {t} : /\ Numbered(u)' <=> Numbered(u)
                                 /\ Carried(u)' <=> Carried(u)
                                 /\ CarriedSeq(u)' = CarriedSeq(u)
      /\ ~Numbered(t)' /\ ~Carried(t)'
    BY <1>7, <1>8, SMTT(30) DEF Numbered, Carried, CarriedSeq, At
<1>10. NumbersFresh'
    <2>1. NumbersFresh
        BY DEF JournalInv
    <2>2. ASSUME NEW u \in Thread, Numbered(u)'
          PROVE  /\ task'[u].seq \notin DOMAIN oplog'
                 /\ \A v \in Thread \ {u} : Numbered(v)' => task'[v].seq # task'[u].seq
        BY <1>2, <1>5, <1>8, <1>9, <2>1, <2>2, ZenonT(40) DEF NumbersFresh
    <2> QED
        BY <2>2 DEF NumbersFresh
<1> QED
    BY <1>3, <1>4, <1>5, <1>6, <1>8, <1>9, <1>10, SMTT(30) DEF JournalInv

\* Compaction removes rows, and its snapshot carries a number given out before.
LEMMA CompactKeeps ==
    ASSUME JournalInv, NEW t \in Thread, write_snapshot_and_truncate(t)
    PROVE  JournalInv'
<1>1. /\ task' = [task EXCEPT ![t] = [pc |-> "reset"]] /\ nextSeq' = nextSeq
      /\ snapshot' = task[t].snap /\ DOMAIN oplog' \subseteq DOMAIN oplog
      /\ task[t].pc = "write"
    BY DEF write_snapshot_and_truncate, Goto, mem, At
<1>2. doc # Absent /\ doc' # Absent
    BY <1>1, BusyLoaded DEF write_snapshot_and_truncate, mem
<1>3. snapshot'.seq \in 0..nextSeq
    BY <1>1 DEF JournalInv, Carried, CarriedSeq, Numbered, At
<1>4. /\ task'[t].pc = "reset"
      /\ \A u \in Thread \ {t} : task'[u] = task[u]
      /\ task' = [u \in Thread |-> task'[u]]
    BY <1>1 DEF JournalInv
<1>5. /\ \A u \in Thread \ {t} : /\ Numbered(u)' <=> Numbered(u)
                                 /\ Carried(u)' <=> Carried(u)
                                 /\ CarriedSeq(u)' = CarriedSeq(u)
      /\ ~Numbered(t)' /\ ~Carried(t)'
    BY <1>4 DEF Numbered, Carried, CarriedSeq, At
<1>6. NumbersFresh'
    BY <1>1, <1>4, <1>5, Zenon DEF NumbersFresh, JournalInv
<1> QED
    BY <1>1, <1>2, <1>3, <1>4, <1>5, <1>6, SMTT(30) DEF JournalInv

\* A kill takes the threads with it.
LEMMA CrashKeeps == ASSUME JournalInv, Crash PROVE JournalInv'
<1>1. /\ nextSeq' = 0 /\ doc' = Absent /\ oplog' = oplog /\ snapshot' = snapshot
      /\ task' = [t \in Thread |-> Idle]
    BY DEF Crash, disk
<1>2. \A t \in Thread : ~Numbered(t)' /\ ~Carried(t)'
    BY <1>1 DEF Numbered, Carried, At, Idle
<1> QED
    BY <1>1, <1>2, SMTT(30) DEF JournalInv, NumbersFresh, Quiet

\* After a load the numbering goes on from the last row or the snapshot.
LEMMA LoadKeeps == ASSUME JournalInv, load_from_db PROVE JournalInv'
<1>1. /\ doc = Absent /\ task' = task /\ oplog' = oplog /\ snapshot' = snapshot
      /\ nextSeq' \in Rows \cup {snapshot.seq} /\ IsMax(nextSeq', Rows \cup {snapshot.seq})
    BY DEF load_from_db, disk
<1>2. /\ nextSeq' \in Nat /\ snapshot.seq <= nextSeq'
      /\ \A n \in DOMAIN oplog : n <= nextSeq'
    BY <1>1, SMTT(30) DEF JournalInv, Rows, IsMax
<1>3. Quiet /\ doc' # Absent
    BY <1>1, Loaded, SMTT(30) DEF JournalInv, load_from_db
<1>4. \A t \in Thread : ~Numbered(t)' /\ ~Carried(t)'
    BY <1>1, <1>3 DEF Quiet, Numbered, Carried, At, Idle
<1> QED
    BY <1>1, <1>2, <1>3, <1>4, Zenon DEF JournalInv, NumbersFresh

\* The invariant is inductive.
LEMMA NextKeeps == ASSUME JournalInv, [Next]_vars PROVE JournalInv'
<1>1. CASE UNCHANGED vars
    BY <1>1 DEF vars, mem, disk, JournalInv, NumbersFresh, Numbered, Carried, CarriedSeq, At, Quiet
<1>2. ASSUME NEW t \in Thread, Mutator(t)
      PROVE  JournalInv'
    BY <1>2, MutatorKeeps
<1>3. ASSUME NEW t \in Thread,
             \/ ReadStatuses(t) \/ recompute_live_status(t) \/ TakeSeq(t) \/ CountOp(t)
             \/ append_op(t) \/ AppendFails(t)
             \/ CompactRead(t) \/ write_snapshot_and_truncate(t) \/ CompactFails(t) \/ ResetCount(t)
             \/ live_status(t) \/ FillCache(t)
      PROVE  JournalInv'
    BY <1>3, PassingKeeps, TakeSeqKeeps, AppendKeeps, CompactKeeps
<1>4. CASE Crash
    BY <1>4, CrashKeeps
<1>5. CASE load_from_db
    BY <1>5, LoadKeeps
<1> QED
    BY <1>1, <1>2, <1>3, <1>4, <1>5, Zenon DEF Next

(***************************************************************************)
(* No journal number is given out twice (next_journal_seq.fetch_add, the   *)
(* max_seq of load_from_db): a thread's INSERT never meets a row of its    *)
(* number, and no two threads hold the same one.                           *)
(***************************************************************************)
THEOREM JournalNumbersFresh == Spec => []NumbersFresh
<1>1. Init => JournalInv
    BY InitJournal
<1>2. JournalInv /\ [Next]_vars => JournalInv'
    BY NextKeeps
<1>3. JournalInv => NumbersFresh
    BY DEF JournalInv
<1> QED
    BY <1>1, <1>2, <1>3, PTL DEF Spec

----------------------------------------------------------------------------
(***************************************************************************)
(* The live_status cache, for a document that one thread works on.  From   *)
(* the mutation to recompute_live_status the cache may be behind; the      *)
(* status that the thread has read in between is that of the blocks.       *)
(***************************************************************************)
CacheInv ==
    /\ doc = Absent => cache = Unknown
    /\ \A t \in Thread :
        /\ task[t].pc \in {"statuses", "fill"} => task[t].status = derive_context_live_status(doc.blocks)
        /\ task[t].pc \notin {"mutated", "statuses", "fill"} /\ cache # Unknown
             => cache = derive_context_live_status(doc.blocks)

\* The cache is cold at first.
LEMMA InitCache == ASSUME Init PROVE CacheInv
<1>1. \A t \in Thread : task[t].pc = "idle"
    BY DEF Init, Idle
<1> QED BY <1>1, SMTT(30) DEF Init, CacheInv

\* After a mutation the cache may say anything; a refused one leaves the
\* blocks alone.
LEMMA MutatorCache ==
    ASSUME JournalInv, CacheInv, NEW t, Thread = {t}, Mutator(t)
    PROVE  CacheInv'
<1>1. /\ cache' = cache /\ doc' # Absent
      /\ \/ task'[t].pc = "mutated"
         \/ task' = task /\ doc'.blocks = doc.blocks
    <2>1. ASSUME NEW bs, NEW c, NEW l, Mutated(t, bs, c, l)
          PROVE  cache' = cache /\ doc' # Absent /\ task'[t].pc = "mutated"
        BY <2>1, Loaded DEF Mutated, JournalInv
    <2>2. ASSUME NEW id, NEW f, set_field_refused(t, id, f)
          PROVE  cache' = cache /\ doc' # Absent /\ task' = task /\ doc'.blocks = doc.blocks
        BY <2>2, Loaded, Zenon DEF set_field_refused
    <2> QED
        BY <2>1, <2>2, MutatorCases, Zenon
<1> QED BY <1>1 DEF CacheInv

\* A status has been read from the blocks: the call carries it.
LEMMA StatusRead ==
    ASSUME NEW t, Thread = {t}, doc # Absent, doc' = doc, task'[t].pc \in {"statuses", "fill"},
           task'[t].status = derive_context_live_status(doc.blocks)
    PROVE  CacheInv'
BY DEF CacheInv

\* The status carried is stored, and the cache is what the blocks say.
LEMMA StatusStored ==
    ASSUME CacheInv, NEW t, Thread = {t}, doc # Absent, doc' = doc,
           task[t].pc \in {"statuses", "fill"}, cache' = task[t].status,
           task'[t].pc \notin {"mutated", "statuses", "fill"}
    PROVE  CacheInv'
BY DEF CacheInv

\* Between calls, and in the rest of one, the cache stays what the blocks say.
LEMMA CacheRests ==
    ASSUME CacheInv, NEW t, Thread = {t}, doc # Absent, doc' = doc, cache' = cache,
           task[t].pc \notin {"mutated", "statuses", "fill"},
           task'[t].pc \notin {"mutated", "statuses", "fill"}
    PROVE  CacheInv'
BY DEF CacheInv

\* The steps of a call: the status read is the one that is stored.
LEMMA CallCache ==
    ASSUME JournalInv, CacheInv, NEW t, Thread = {t},
           \/ ReadStatuses(t) \/ recompute_live_status(t) \/ TakeSeq(t) \/ CountOp(t)
           \/ append_op(t) \/ AppendFails(t)
           \/ CompactRead(t) \/ write_snapshot_and_truncate(t) \/ CompactFails(t) \/ ResetCount(t)
           \/ live_status(t) \/ FillCache(t)
    PROVE  CacheInv'
<1>1. doc # Absent /\ doc' = doc
    BY BusyLoaded, ZenonT(40) DEF ReadStatuses, recompute_live_status, TakeSeq, CountOp, append_op, AppendFails,
       CompactRead, write_snapshot_and_truncate, CompactFails, ResetCount, live_status, FillCache, mem, At
<1>2. \A next : Goto(t, next) => task'[t] = next
    BY Zenon DEF Goto, JournalInv
<1>3. CASE ReadStatuses(t)
    <2>1. task'[t].pc = "statuses" /\ task'[t].status = derive_context_live_status(doc.blocks)
        <3>1. task'[t] = [pc |-> "statuses", ops |-> task[t].ops,
                          status |-> derive_context_live_status(doc.blocks)]
            BY <1>2, <1>3, Zenon DEF ReadStatuses
        <3> QED BY <3>1
    <2> QED BY <1>1, <2>1, StatusRead, ZenonT(40)
<1>4. CASE recompute_live_status(t)
    <2>1. task'[t].pc = "cached" /\ task[t].pc = "statuses" /\ cache' = task[t].status
        BY <1>2, <1>4, SMTT(30) DEF recompute_live_status, At
    <2> QED BY <1>1, <2>1, StatusStored, ZenonT(40)
<1>5. CASE TakeSeq(t) \/ CountOp(t)
    <2>1. /\ cache' = cache /\ task[t].pc \in {"cached", "counting"}
          /\ task'[t].pc \in {"counting", "append"}
        BY <1>2, <1>5, SMTT(30) DEF TakeSeq, CountOp, At
    <2> QED BY <1>1, <2>1, CacheRests, ZenonT(40)
<1>6. CASE append_op(t) \/ AppendFails(t)
    <2>1. cache' = cache /\ task[t].pc = "append"
        BY <1>6, Zenon DEF append_op, AppendFails, At, mem
    <2>2. task'[t] \in {[pc |-> "compact"], Idle}
        BY <1>2, <1>6, ZenonT(40) DEF append_op, AppendFails
    <2>3. task'[t].pc \in {"compact", "idle"}
        BY <2>2, SMTT(30) DEF Idle
    <2> QED BY <1>1, <2>1, <2>3, CacheRests, Zenon
<1>7. CASE CompactRead(t) \/ write_snapshot_and_truncate(t) \/ CompactFails(t) \/ ResetCount(t)
    <2>1. cache' = cache /\ task[t].pc \in {"compact", "write", "reset"}
        BY <1>7, Zenon DEF CompactRead, write_snapshot_and_truncate, CompactFails, ResetCount, At, mem
    <2>2. task'[t].pc \in {"write", "reset", "idle"}
        <3>1. CASE CompactRead(t)
            <4>1. task'[t] = [pc |-> "write", snap |-> [seq |-> nextSeq, blocks |-> doc.blocks]]
                BY <1>2, <3>1, ZenonT(40) DEF CompactRead
            <4> QED BY <4>1, SMTT(30)
        <3>2. CASE write_snapshot_and_truncate(t)
            <4>1. task'[t] = [pc |-> "reset"]
                BY <1>2, <3>2, Zenon DEF write_snapshot_and_truncate
            <4> QED BY <4>1, SMTT(30)
        <3>3. CASE CompactFails(t) \/ ResetCount(t)
            <4>1. task'[t] = Idle
                BY <1>2, <3>3, Zenon DEF CompactFails, ResetCount
            <4> QED BY <4>1 DEF Idle
        <3> QED BY <1>7, <3>1, <3>2, <3>3, ZenonT(40)
    <2> QED BY <1>1, <2>1, <2>2, CacheRests, Zenon
<1>8. CASE live_status(t)
    <2>1. task'[t].pc = "fill" /\ task'[t].status = derive_context_live_status(doc.blocks)
        BY <1>2, <1>8 DEF live_status
    <2> QED BY <1>1, <2>1, StatusRead, Zenon
<1>9. CASE FillCache(t)
    <2>1. task'[t].pc = "idle" /\ task[t].pc = "fill" /\ cache' = task[t].status
        BY <1>2, <1>9 DEF FillCache, At, Idle
    <2> QED BY <1>1, <2>1, StatusStored, Zenon
<1> QED BY <1>3, <1>4, <1>5, <1>6, <1>7, <1>8, <1>9, ZenonT(40)

\* A kill clears the cache, and load_from_db leaves it cold.
LEMMA RestartCache ==
    ASSUME JournalInv, CacheInv, Crash \/ load_from_db
    PROVE  CacheInv'
<1>1. CASE Crash
    BY <1>1 DEF Crash, CacheInv, Idle
<1>2. CASE load_from_db
    <2>1. cache' = Unknown /\ doc' # Absent /\ task' = task /\ \A t \in Thread : task[t].pc = "idle"
        BY <1>2, Loaded DEF load_from_db, CacheInv, JournalInv, Quiet, Idle
    <2> QED BY <2>1, Zenon DEF CacheInv
<1> QED BY <1>1, <1>2, SMTT(30)

(***************************************************************************)
(* recompute_live_status: with one thread at work on the document, the     *)
(* cache, whenever no call is under way and it is filled, is what the      *)
(* blocks say, through every mutator, failed write, compaction and         *)
(* restart.  (With two threads a status list read early can be stored      *)
(* late.)                                                                  *)
(***************************************************************************)
THEOREM CacheNeverDrifts ==
    ASSUME NEW t, Thread = {t}
    PROVE  Spec => []CacheExact
<1>1. Init => JournalInv /\ CacheInv
    BY InitJournal, InitCache, SMTT(30)
<1>2. JournalInv /\ CacheInv /\ [Next]_vars => JournalInv' /\ CacheInv'
    <2> SUFFICES ASSUME JournalInv, CacheInv, [Next]_vars PROVE CacheInv'
        BY NextKeeps, Zenon
    <2>1. CASE UNCHANGED vars
        BY <2>1 DEF vars, mem, CacheInv
    <2>2. CASE Mutator(t)
        BY <2>2, MutatorCache, SMTT(30)
    <2>3. CASE \/ ReadStatuses(t) \/ recompute_live_status(t) \/ TakeSeq(t) \/ CountOp(t)
               \/ append_op(t) \/ AppendFails(t)
               \/ CompactRead(t) \/ write_snapshot_and_truncate(t) \/ CompactFails(t) \/ ResetCount(t)
               \/ live_status(t) \/ FillCache(t)
        BY <2>3, CallCache
    <2>4. CASE Crash \/ load_from_db
        BY <2>4, RestartCache
    <2> QED BY <2>1, <2>2, <2>3, <2>4 DEF Next
<1>3. CacheInv => CacheExact
    BY SMTT(30) DEF CacheInv, CacheExact, Quiet, Idle
<1> QED BY <1>1, <1>2, <1>3, PTL DEF Spec

----------------------------------------------------------------------------
(***************************************************************************)
(* What compaction may delete.  Until a kill, the log in memory covers     *)
(* every row and every operation a thread still carries; a snapshot that   *)
(* is about to be written covers those numbered up to its own number, for  *)
(* they were in the log when it was taken.  Everything rests on the log    *)
(* only growing: no id is minted twice, and no write is older than the one *)
(* it replaces.                                                            *)
(***************************************************************************)
Covers(bs, p) ==
    /\ PayloadOK(p)
    /\ Holds(bs, p)
    /\ p.deleted \subseteq DOMAIN bs /\ DOMAIN p.ops \subseteq DOMAIN bs
    /\ DOMAIN p.headers \subseteq DOMAIN bs

LogOK(bs, c, l) ==
    /\ c \in Nat /\ l \in Nat
    /\ StoreOK(bs) /\ BelowClock(bs, c)
    /\ \A id \in DOMAIN bs : id[1] = Kernel => id[2] < l

Carrying == {"mutated", "statuses", "cached", "counting", "append"}
HasNumber(k) == k.pc \in {"counting", "append"}

RowsCovered(bs, log) == \A n \in DOMAIN log : Covers(bs, log[n])
CallsCovered(bs, tk) == \A t \in Thread : tk[t].pc \in Carrying => Covers(bs, tk[t].ops)

SnapCovers(s, log, tk) ==
    /\ \A n \in DOMAIN log : n <= s.seq => Covers(s.blocks, log[n])
    /\ \A t \in Thread : HasNumber(tk[t]) /\ tk[t].seq <= s.seq => Covers(s.blocks, tk[t].ops)

SnapsCover(log, tk) == \A t \in Thread : tk[t].pc = "write" => SnapCovers(tk[t].snap, log, tk)

CoverInv ==
    /\ crashes \in Nat /\ edits \in Nat
    /\ crashes = 0 =>
        /\ doc # Absent /\ LogOK(doc.blocks, doc.clock, doc.lane)
        /\ RowsCovered(doc.blocks, oplog) /\ CallsCovered(doc.blocks, task)
        /\ SnapsCover(oplog, task)

\* One store has all that another has, and nothing older.
Grew(bs, ns) ==
    /\ DOMAIN bs \subseteq DOMAIN ns
    /\ \A id \in DOMAIN bs :
        /\ bs[id].deleted => ns[id].deleted
        /\ bs[id].text \subseteq ns[id].text
        /\ \A f \in Field : bs[id].ts[f] <= ns[id].ts[f]

\* A store that was left alone grew, too.
LEMMA GrewSelf == ASSUME NEW bs, StoreOK(bs) PROVE Grew(bs, bs)
BY DEF StoreOK, Block, Grew

\* What a store covers, a store that grew from it covers.
LEMMA GrewCovers ==
    ASSUME NEW bs, NEW ns, NEW p, StoreOK(bs), StoreOK(ns), Grew(bs, ns), Covers(bs, p)
    PROVE  Covers(ns, p)
<1>1. \A id \in p.deleted \cap DOMAIN ns : ns[id].deleted
    BY SMTT(30) DEF Covers, Holds, Grew
<1>2. Live(ns) \cap DOMAIN bs \subseteq Live(bs)
    BY DEF Live, Grew
<1>3. \A id \in DOMAIN p.ops \cap Live(ns) : p.ops[id] \subseteq ns[id].text
    BY <1>2, Zenon DEF Covers, Holds, Grew
<1>4. ASSUME NEW id \in DOMAIN p.headers \cap Live(ns), NEW f \in Field
      PROVE  p.headers[id].ts[f] <= ns[id].ts[f]
    <2>1. id \in DOMAIN bs /\ id \in Live(bs) /\ id \in DOMAIN ns
        BY <1>2, Zenon DEF Covers, Live
    <2>2. p.headers[id].ts[f] <= bs[id].ts[f] /\ bs[id].ts[f] <= ns[id].ts[f]
        BY <2>1, Zenon DEF Covers, Holds, Grew
    <2>3. bs[id].ts[f] \in Nat /\ ns[id].ts[f] \in Nat
        BY <2>1, Zenon DEF StoreOK, Block
    <2>4. p.headers[id].ts[f] \in Nat
        BY Zenon DEF Covers, PayloadOK, HeaderType
    <2> QED BY <2>2, <2>3, <2>4, SMTT(30)
<1> QED BY <1>1, <1>3, <1>4, Zenon DEF Covers, Holds, Grew

\* A store covers the operations that ops_since computes from it.
LEMMA OwnOpsCovered ==
    ASSUME NEW bs, NEW front, StoreOK(bs)
    PROVE  Covers(bs, ops_since(bs, front))
<1> DEFINE p == ops_since(bs, front)
<1>1. PayloadOK(p)
    BY OpsSincePayload
<1>2. /\ DOMAIN p.new = Live(bs) \ DOMAIN front
      /\ DOMAIN p.headers = Live(bs) \cap DOMAIN front
      /\ DOMAIN p.ops = Live(bs)
      /\ p.deleted = (DOMAIN bs \ Live(bs)) \cap DOMAIN front
    BY DEF ops_since
<1>3. /\ \A id \in DOMAIN p.ops : p.ops[id] \subseteq bs[id].text
      /\ \A id \in DOMAIN p.headers : p.headers[id].ts = bs[id].ts
    BY DEF ops_since
<1>4. \A id \in Live(bs) : \A f \in Field : bs[id].ts[f] \in Nat
    BY DEF Live, StoreOK, Block
<1>5. \A id \in DOMAIN bs \ Live(bs) : bs[id].deleted
    BY DEF Live
<1>6. Live(bs) \subseteq DOMAIN bs
    BY Zenon DEF Live
<1> HIDE DEF p
<1>7. Holds(bs, p)
    BY <1>2, <1>3, <1>4, <1>5, <1>6, SMTT(30) DEF Holds
<1> QED BY <1>1, <1>2, <1>6, <1>7, SMTT(30) DEF Covers, p

\* Storing a block under an id: the log grows if the block does, and stays
\* in order if no timestamp of it is past the clock.
LEMMA PutGrows ==
    ASSUME NEW bs, NEW c \in Nat, NEW l \in Nat, LogOK(bs, c, l),
           NEW id \in Id, NEW b \in Block, NEW d \in Nat, NEW k \in Nat,
           c <= d, l <= k, \A f \in Field : b.ts[f] <= d, id[1] = Kernel => id[2] < k,
           id \in DOMAIN bs => /\ bs[id].deleted => b.deleted
                               /\ bs[id].text \subseteq b.text
                               /\ \A f \in Field : bs[id].ts[f] <= b.ts[f]
    PROVE  LogOK(Put(bs, id, b), d, k) /\ Grew(bs, Put(bs, id, b))
<1> DEFINE ns == Put(bs, id, b)
<1>1. StoreOK(ns)
    BY PutStore, Zenon DEF LogOK
<1>2. DOMAIN ns = DOMAIN bs \cup {id} /\ ns[id] = b /\ \A i \in DOMAIN bs \ {id} : ns[i] = bs[i]
    BY Zenon DEF Put
<1>3. \A i \in DOMAIN bs : /\ bs[i] \in Block /\ i[2] \in Nat
                           /\ \A f \in Field : bs[i].ts[f] \in Nat /\ bs[i].ts[f] <= c
    BY Zenon DEF LogOK, StoreOK, Block, BelowClock, Id
<1> HIDE DEF ns
<1>4. BelowClock(ns, d)
    <2> SUFFICES ASSUME NEW i \in DOMAIN ns, NEW f \in Field PROVE ns[i].ts[f] <= d
        BY SMTT(30) DEF BelowClock
    <2> QED BY <1>2, <1>3, SMTT(30)
<1>5. ASSUME NEW i \in DOMAIN ns, i[1] = Kernel PROVE i[2] < k
    BY <1>2, <1>3, <1>5, SMTT(30) DEF LogOK
<1>6. Grew(bs, ns)
    BY <1>2, <1>3 DEF Grew
<1>7. LogOK(ns, d, k)
    BY <1>1, <1>4, <1>5, Zenon DEF LogOK
<1> QED BY <1>6, <1>7, Zenon DEF ns

\* What the client pushes: one new block of its own.
LEMMA PushedParts ==
    ASSUME NEW v \in Val
    PROVE  LET p == PushedOps(v)
           IN  /\ PayloadOK(p)
               /\ DOMAIN p.new = {<<Peer, 0>>} /\ DOMAIN p.headers = {} /\ p.deleted = {}
<1> DEFINE bs == [id \in {<<Peer, 0>>} |-> NewBlock(PlainText, 0, v, 1, Peer)]
<1>1. NewBlock(PlainText, 0, v, 1, Peer) \in Block
    BY NewBlockType, LogAssumption, JournalAssumption, SMTT(30) DEF Pos
<1>2. IsFiniteSet({<<Peer, 0>>}) /\ <<Peer, 0>> \in Id
    BY FS_Singleton, JournalAssumption DEF Id
<1>3. StoreOK(bs)
    BY <1>1, <1>2, Zenon DEF StoreOK
<1>4. Live(bs) = {<<Peer, 0>>}
    BY DEF Live, NewBlock
<1>5. DOMAIN << >> = {}
    OBVIOUS
<1> HIDE DEF bs
<1>6. /\ DOMAIN ops_since(bs, << >>).new = {<<Peer, 0>>}
      /\ DOMAIN ops_since(bs, << >>).headers = {}
      /\ ops_since(bs, << >>).deleted = {}
    BY <1>4, <1>5 DEF ops_since
<1>7. PushedOps(v) = ops_since(bs, << >>)
    BY Zenon DEF PushedOps, bs
<1> QED BY <1>3, <1>6, <1>7, OpsSincePayload, Zenon

\* A push adds the block and leaves the others what they are.
LEMMA PushGrows ==
    ASSUME NEW bs, NEW c \in Nat, NEW l \in Nat, LogOK(bs, c, l), NEW p, PayloadOK(p),
           DOMAIN p.new = {<<Peer, 0>>}, DOMAIN p.headers = {}, p.deleted = {},
           NEW m, IsMax(m, RemoteStamps(bs, p) \cup {0})
    PROVE  /\ LogOK(MergedBlocks(Kernel, bs, p), MergedClock(c, bs, p, m), l)
           /\ Grew(bs, MergedBlocks(Kernel, bs, p))
<1> DEFINE ns == MergedBlocks(Kernel, bs, p)
           k == MergedClock(c, bs, p, m)
<1>0. Kernel \in Replica /\ StoreOK(bs)
    BY JournalAssumption, Zenon DEF LogOK
<1>1. m \in Nat /\ \A x \in RemoteStamps(bs, p) : x <= m
    BY <1>0, RemoteStampsNat, SMTT(30) DEF IsMax
<1>2. k \in Nat
    BY <1>1, MergedClockBounds, SMTT(30)
<1>3. StoreOK(ns)
    BY <1>0, MergedStore, Zenon DEF TakesUp
<1>4. BelowClock(ns, k)
    BY <1>0, <1>1, MergedBelowClock, Zenon DEF LogOK
<1>5. DOMAIN ns = DOMAIN bs \cup {<<Peer, 0>>}
    BY Zenon DEF MergedBlocks
<1>6. \A id \in DOMAIN ns : id[1] = Kernel => id[2] < l
    BY <1>5, JournalAssumption DEF LogOK
<1>7. ASSUME NEW id \in DOMAIN bs
      PROVE  /\ bs[id].deleted => ns[id].deleted
             /\ bs[id].text \subseteq ns[id].text
             /\ \A f \in Field : bs[id].ts[f] <= ns[id].ts[f]
    <2>1. bs[id] \in Block
        BY <1>0 DEF StoreOK
    <2>2. ns[id] = [bs[id] EXCEPT !.text = @ \cup TextFor(p, id), !.deleted = @ \/ id \in p.deleted]
        BY <1>5 DEF MergedBlocks, MergedBlock, ReceivedBlock
    <2>3. /\ ns[id].ts = bs[id].ts /\ ns[id].text = bs[id].text \cup TextFor(p, id)
          /\ ns[id].deleted = (bs[id].deleted \/ id \in p.deleted)
        BY <2>1, <2>2, WithTextParts, SMTT(30)
    <2>4. \A f \in Field : bs[id].ts[f] \in Nat
        BY <2>1 DEF Block
    <2> HIDE DEF ns
    <2>5. bs[id].deleted => ns[id].deleted
        BY <2>3, Zenon
    <2>6. bs[id].text \subseteq ns[id].text
        BY <2>3, Zenon
    <2>7. \A f \in Field : bs[id].ts[f] <= ns[id].ts[f]
        BY <2>3, <2>4
    <2> QED BY <2>5, <2>6, <2>7, Zenon
<1> HIDE DEF ns, k
<1>8. LogOK(ns, k, l)
    BY <1>2, <1>3, <1>4, <1>6, Zenon DEF LogOK
<1>9. Grew(bs, ns)
    BY <1>5, <1>7, Zenon DEF Grew
<1> QED BY <1>8, <1>9, Zenon DEF ns, k

(***************************************************************************)
(* How far a store may go from another in one mutation, for its operations *)
(* to be all that was changed: a block stays what it was born as, a field  *)
(* has a new timestamp if it has a new value, and a new block is live and  *)
(* has a text.                                                             *)
(***************************************************************************)
Kept(b, n) ==
    /\ n.birth = b.birth
    /\ \A f \in Field : n.ts[f] = b.ts[f] => n.val[f] = b.val[f]

Follows(bs, ns) ==
    /\ \A id \in DOMAIN bs : Kept(bs[id], ns[id])
    /\ \A id \in DOMAIN ns \ DOMAIN bs : ~ns[id].deleted /\ ns[id].text # {}

\* Storing a block that is new, or what a block became.
LEMMA PutFollows ==
    ASSUME NEW bs, NEW id, NEW b, id \in DOMAIN bs => Kept(bs[id], b),
           id \notin DOMAIN bs => ~b.deleted /\ b.text # {}
    PROVE  Follows(bs, Put(bs, id, b))
<1>1. \A c : Kept(c, c)
    BY Zenon DEF Kept
<1>2. /\ DOMAIN Put(bs, id, b) = DOMAIN bs \cup {id} /\ Put(bs, id, b)[id] = b
      /\ \A i \in DOMAIN bs : i # id => Put(bs, id, b)[i] = bs[i]
    BY Zenon DEF Put
<1> QED BY <1>1, <1>2, Zenon DEF Follows

\* What a push makes of a store.
LEMMA PushFollows ==
    ASSUME NEW bs, StoreOK(bs), NEW v \in Val
    PROVE  Follows(bs, MergedBlocks(Kernel, bs, PushedOps(v)))
<1> DEFINE p == PushedOps(v)
           ns == MergedBlocks(Kernel, bs, p)
           peer == <<Peer, 0>>
<1>1. PayloadOK(p) /\ DOMAIN p.new = {peer} /\ DOMAIN p.headers = {} /\ p.deleted = {}
    BY PushedParts, SMTT(30)
<1>2. DOMAIN p.ops = {peer} /\ p.ops[peer] = {Created(Peer)} /\ ~p.new[peer].deleted
    <2> DEFINE b == NewBlock(PlainText, 0, v, 1, Peer)
               os == [id \in {peer} |-> b]
    <2>1. b.deleted = FALSE /\ b.text = {Created(Peer)} /\ [b EXCEPT !.text = {}].deleted = FALSE
        BY DEF NewBlock
    <2>2. DOMAIN << >> = {} /\ p = ops_since(os, << >>)
        BY DEF PushedOps
    <2> HIDE DEF b
    <2>3. DOMAIN os = {peer} /\ os[peer] = b /\ Live(os) = {peer}
        BY <2>1 DEF Live
    <2> HIDE DEF os, p, peer
    <2>4. /\ DOMAIN p.ops = Live(os) /\ p.ops[peer] = os[peer].text
          /\ p.new[peer] = [os[peer] EXCEPT !.text = {}]
        BY <2>2, <2>3, SMTT(30) DEF ops_since
    <2> QED BY <2>1, <2>3, <2>4, SMTT(30)
<1>3. DOMAIN ns = DOMAIN bs \cup {peer}
    BY <1>1, Zenon DEF MergedBlocks
<1>4. ASSUME NEW id \in DOMAIN bs PROVE Kept(bs[id], ns[id])
    <2>1. bs[id] \in Block
        BY DEF StoreOK
    <2>2. ns[id] = [bs[id] EXCEPT !.text = @ \cup TextFor(p, id), !.deleted = @ \/ id \in p.deleted]
        BY <1>1 DEF MergedBlocks, MergedBlock, ReceivedBlock
    <2>3. ns[id].birth = bs[id].birth /\ ns[id].ts = bs[id].ts /\ ns[id].val = bs[id].val
        BY <2>1, <2>2, WithTextParts
    <2> QED BY <2>3, Zenon DEF Kept
<1>5. ASSUME peer \notin DOMAIN bs PROVE ~ns[peer].deleted /\ ns[peer].text # {}
    <2> DEFINE b == [p.new[peer] EXCEPT !.text = SnapshotText(Kernel, p, peer)]
    <2>1. p.new[peer] \in Block /\ TextFor(p, peer) = {Created(Peer)} /\ peer \notin p.deleted
        BY <1>1, <1>2, SMTT(30) DEF PayloadOK, TextFor
    <2>2. SnapshotText(Kernel, p, peer) = {}
        BY <2>1, SMTT(30) DEF SnapshotText
    <2>3. b \in Block /\ ~b.deleted
        BY SMTT(30), <1>2, <2>1, <2>2 DEF Block
    <2>4. ns[peer] = [b EXCEPT !.text = @ \cup TextFor(p, peer), !.deleted = @ \/ peer \in p.deleted]
        BY <1>1, <1>5, SMTT(30) DEF MergedBlocks, MergedBlock, ReceivedBlock
    <2> HIDE DEF b, ns, p, peer
    <2>5. /\ ns[peer].text = b.text \cup TextFor(p, peer)
          /\ ns[peer].deleted = (b.deleted \/ peer \in p.deleted)
        BY <2>3, <2>4, WithTextParts, SMTT(30)
    <2>6. ~ns[peer].deleted
        BY <2>1, <2>3, <2>5, Zenon
    <2> QED BY <2>1, <2>5, <2>6, ZenonT(40)
<1> HIDE DEF ns, p, peer
<1>6. Follows(bs, ns)
    BY <1>3, <1>4, <1>5, Zenon DEF Follows
<1> QED BY <1>6, Zenon DEF ns, p

\* What a mutator may make of the log.
Advances(t) ==
    \/ \E bs, c, l : /\ Mutated(t, bs, c, l) /\ LogOK(bs, c, l)
                     /\ Grew(doc.blocks, bs) /\ Follows(doc.blocks, bs)
    \/ \E id, f : set_field_refused(t, id, f)

\* A mutator of one block: what it stores is the block, grown.
LEMMA StoreGrows ==
    ASSUME LogOK(doc.blocks, doc.clock, doc.lane), NEW t, NEW id \in DOMAIN doc.blocks,
           NEW b \in Block, NEW c \in {doc.clock, doc.clock + 1},
           Mutated(t, Put(doc.blocks, id, b), c, doc.lane),
           doc.blocks[id].deleted => b.deleted, doc.blocks[id].text \subseteq b.text,
           \A f \in Field : doc.blocks[id].ts[f] <= b.ts[f] /\ b.ts[f] <= c,
           Kept(doc.blocks[id], b)
    PROVE  Advances(t)
<1>1. id \in Id /\ doc.clock \in Nat /\ doc.lane \in Nat /\ (id[1] = Kernel => id[2] < doc.lane)
    BY SMTT(30) DEF LogOK, StoreOK
<1>2. c \in Nat /\ doc.clock <= c /\ doc.lane <= doc.lane
    <2>1. /\ doc.clock + 1 \in Nat /\ doc.clock <= doc.clock /\ doc.clock <= doc.clock + 1
          /\ doc.lane <= doc.lane
        BY <1>1, OneMore, Zenon
    <2> QED BY <1>1, <2>1, Zenon
<1>3. LogOK(Put(doc.blocks, id, b), c, doc.lane) /\ Grew(doc.blocks, Put(doc.blocks, id, b))
    BY <1>1, <1>2, PutGrows, Zenon
<1>4. Follows(doc.blocks, Put(doc.blocks, id, b))
    BY PutFollows, Zenon
<1> QED BY <1>3, <1>4, ZenonT(40) DEF Advances

\* Every mutator lets the log grow, or refuses.
LEMMA MutatorGrows ==
    ASSUME LogOK(doc.blocks, doc.clock, doc.lane), edits \in Nat, NEW t, Mutator(t)
    PROVE  Advances(t) /\ edits' \in Nat
<1>0. doc.clock \in Nat /\ doc.lane \in Nat
    BY Zenon DEF LogOK
<1>1. ASSUME NEW birth \in Birth, NEW pos \in Pos, NEW v \in Val, insert_block_as(t, birth, pos, v)
      PROVE  Advances(t) /\ edits' \in Nat
    <2> DEFINE id == <<Kernel, doc.lane>>
               b == NewBlock(birth, pos, v, doc.clock + 1, Kernel)
    <2>1. b \in Block /\ id \in Id /\ id[1] = Kernel /\ id[2] = doc.lane
        BY <1>0, NewBlockType, JournalAssumption, SMTT(30) DEF Id
    <2>2. \A f \in Field : b.ts[f] <= doc.clock + 1
        <3>1. \A f \in Field : b.ts[f] = doc.clock + 1
            BY DEF NewBlock
        <3>2. doc.clock + 1 <= doc.clock + 1
            BY <1>0, OneMore, ZenonT(40)
        <3> QED BY <3>1, <3>2, Zenon
    <2>3. id \notin DOMAIN doc.blocks
        BY <1>0, <2>1, SMTT(30) DEF LogOK
    <2>4. Mutated(t, Put(doc.blocks, id, b), doc.clock + 1, doc.lane + 1) /\ edits' = edits
        BY <1>1, SMTT(30) DEF insert_block_as
    <2> HIDE DEF id, b
    <2>5. PICK c \in Nat, l \in Nat : c = doc.clock + 1 /\ l = doc.lane + 1
        BY <1>0
    <2>6. doc.clock <= c /\ doc.lane <= l /\ (id[1] = Kernel => id[2] < l)
        BY <1>0, <2>1, <2>5, OneMore, Zenon
    <2>7. LogOK(Put(doc.blocks, id, b), c, l) /\ Grew(doc.blocks, Put(doc.blocks, id, b))
        BY <1>0, <2>1, <2>2, <2>3, <2>5, <2>6, PutGrows, Zenon
    <2>8. ~b.deleted /\ b.text # {}
        BY DEF NewBlock, b
    <2>9. Follows(doc.blocks, Put(doc.blocks, id, b))
        BY <2>3, <2>8, PutFollows, Zenon
    <2> QED BY <2>4, <2>5, <2>7, <2>9, Zenon DEF Advances
<1>2. ASSUME NEW v \in Val, merge_ops(t, PushedOps(v))
      PROVE  Advances(t) /\ edits' \in Nat
    <2> DEFINE p == PushedOps(v)
    <2>1. PICK m : /\ IsMax(m, RemoteStamps(doc.blocks, p) \cup {0})
                   /\ Mutated(t, MergedBlocks(Kernel, doc.blocks, p),
                              MergedClock(doc.clock, doc.blocks, p, m), doc.lane)
                   /\ edits' = edits
        BY SMTT(30), <1>2 DEF merge_ops
    <2>2. PayloadOK(p) /\ DOMAIN p.new = {<<Peer, 0>>} /\ DOMAIN p.headers = {} /\ p.deleted = {}
        BY PushedParts, SMTT(30)
    <2>4. Follows(doc.blocks, MergedBlocks(Kernel, doc.blocks, p))
        BY PushFollows, Zenon DEF LogOK
    <2> HIDE DEF p
    <2>3. /\ LogOK(MergedBlocks(Kernel, doc.blocks, p), MergedClock(doc.clock, doc.blocks, p, m), doc.lane)
          /\ Grew(doc.blocks, MergedBlocks(Kernel, doc.blocks, p))
        BY <1>0, <2>1, <2>2, PushGrows, ZenonT(40)
    <2> QED BY <2>1, <2>3, <2>4, ZenonT(40) DEF Advances
<1>3. ASSUME NEW id \in DOMAIN doc.blocks
      PROVE  /\ doc.blocks[id] \in Block
             /\ \A f \in Field : /\ doc.blocks[id].ts[f] \in Nat
                                 /\ doc.blocks[id].ts[f] <= doc.clock
                                 /\ doc.blocks[id].ts[f] <= doc.clock + 1
    BY <1>0 DEF LogOK, StoreOK, Block, BelowClock
<1>4. ASSUME NEW id \in DOMAIN doc.blocks, NEW f \in Field, NEW v \in Val, set_field(t, id, f, v)
      PROVE  Advances(t) /\ edits' \in Nat
    <2> DEFINE b == WithField(doc.blocks[id], f, v, doc.clock + 1)
    <2>1. b \in Block
        BY <1>0, <1>3, WithFieldType, SMTT(30)
    <2>2. /\ b.deleted = doc.blocks[id].deleted /\ b.text = doc.blocks[id].text
          /\ b.ts = [doc.blocks[id].ts EXCEPT ![f] = doc.clock + 1]
        BY <1>3, ZenonT(40) DEF WithField, Block
    <2>3. doc.blocks[id].ts \in [Field -> Nat]
        BY <1>3 DEF Block
    <2>4. Mutated(t, Put(doc.blocks, id, b), doc.clock + 1, doc.lane) /\ edits' = edits
        BY <1>4, Zenon DEF set_field
    <2> HIDE DEF b
    <2>5. \A g \in Field : doc.blocks[id].ts[g] <= b.ts[g] /\ b.ts[g] <= doc.clock + 1
        <3>1. SUFFICES ASSUME NEW g \in Field
                       PROVE  doc.blocks[id].ts[g] <= b.ts[g] /\ b.ts[g] <= doc.clock + 1
            OBVIOUS
        <3>2. doc.blocks[id].ts[g] \in Nat /\ doc.blocks[id].ts[g] <= doc.clock
            BY <1>3, <2>3, Zenon
        <3>3. b.ts[g] \in {doc.blocks[id].ts[g], doc.clock + 1}
            BY <2>2, <2>3, Zenon
        <3>4. doc.blocks[id].ts[g] <= doc.blocks[id].ts[g] /\ doc.blocks[id].ts[g] <= doc.clock + 1
            BY <1>0, <3>2, OneMore, StillBelow, Zenon
        <3>5. doc.clock + 1 <= doc.clock + 1
            BY <1>0, OneMore, Zenon
        <3> QED BY <3>3, <3>4, <3>5, ZenonT(40)
    <2>6. Kept(doc.blocks[id], b)
        <3>1. /\ b.birth = doc.blocks[id].birth /\ b.val = [doc.blocks[id].val EXCEPT ![f] = v]
              /\ doc.blocks[id].val \in [Field -> Val]
            BY <1>3, Zenon DEF WithField, Block, b
        <3>2. ASSUME NEW g \in Field, b.ts[g] = doc.blocks[id].ts[g]
              PROVE  b.val[g] = doc.blocks[id].val[g]
            <4>1. g # f
                <5>1. ~(doc.clock + 1 <= doc.clock) /\ doc.blocks[id].ts[f] <= doc.clock
                    BY <1>0, <1>3, OneMore, Zenon
                <5>2. b.ts[f] = doc.clock + 1
                    BY <2>2, <2>3, Zenon
                <5> QED BY <3>2, <5>1, <5>2, Zenon
            <4> QED BY <3>1, <4>1, Zenon
        <3> QED BY <3>1, <3>2, Zenon DEF Kept
    <2> QED BY <2>1, <2>2, <2>4, <2>5, <2>6, StoreGrows, ZenonT(40)
<1>5. ASSUME NEW id \in DOMAIN doc.blocks, edit_text(t, id)
      PROVE  Advances(t) /\ edits' \in Nat
    <2> DEFINE b == WithEdit(doc.blocks[id], <<Kernel, edits + 1>>)
    <2>1. <<Kernel, edits + 1>> \in Edit
        BY JournalAssumption DEF Edit
    <2>2. b \in Block
        BY <1>3, <2>1, Zenon DEF WithEdit, Block
    <2>3. /\ b.deleted = doc.blocks[id].deleted /\ doc.blocks[id].text \subseteq b.text
          /\ b.ts = doc.blocks[id].ts /\ Kept(doc.blocks[id], b)
        <3>1. b.val = doc.blocks[id].val /\ b.birth = doc.blocks[id].birth
            BY <1>3, Zenon DEF WithEdit, Block
        <3>2. /\ b.deleted = doc.blocks[id].deleted /\ doc.blocks[id].text \subseteq b.text
              /\ b.ts = doc.blocks[id].ts
            BY <1>3, Zenon DEF WithEdit, Block
        <3> HIDE DEF b
        <3> QED BY <3>1, <3>2, Zenon DEF Kept
    <2>4. Mutated(t, Put(doc.blocks, id, b), doc.clock, doc.lane) /\ edits' = edits + 1
        BY <1>5 DEF edit_text
    <2> HIDE DEF b
    <2>5. edits' \in Nat
        BY <2>4, OneMore, Zenon
    <2>6. \A g \in Field : doc.blocks[id].ts[g] <= b.ts[g] /\ b.ts[g] <= doc.clock
        <3>1. SUFFICES ASSUME NEW g \in Field
                       PROVE  doc.blocks[id].ts[g] <= b.ts[g] /\ b.ts[g] <= doc.clock
            OBVIOUS
        <3>2. doc.blocks[id].ts[g] \in Nat /\ doc.blocks[id].ts[g] <= doc.clock
            BY <1>3, Zenon DEF Block
        <3> QED BY <2>3, <3>2, OneMore, Zenon
    <2> QED BY <2>2, <2>3, <2>4, <2>5, <2>6, StoreGrows, Zenon
<1>6. ASSUME NEW id \in DOMAIN doc.blocks, NEW b \in Block, NEW c \in {doc.clock, doc.clock + 1},
             b.text = doc.blocks[id].text, b.ts = doc.blocks[id].ts,
             b.val = doc.blocks[id].val, b.birth = doc.blocks[id].birth,
             b.deleted = doc.blocks[id].deleted \/ b.deleted = TRUE,
             Mutated(t, Put(doc.blocks, id, b), c, doc.lane), edits' = edits
      PROVE  Advances(t) /\ edits' \in Nat
    <2>1. \A f \in Field : doc.blocks[id].ts[f] <= b.ts[f] /\ b.ts[f] <= c
        BY <1>0, <1>3, <1>6
    <2>2. Kept(doc.blocks[id], b)
        BY <1>6, Zenon DEF Kept
    <2> QED BY <1>6, <2>1, <2>2, StoreGrows, ZenonT(40)
<1>7. ASSUME NEW id \in DOMAIN doc.blocks, NEW pos \in Pos, move_block(t, id, pos)
      PROVE  Advances(t) /\ edits' \in Nat
    <2>1. PICK b : b = [doc.blocks[id] EXCEPT !.pos = pos]
        BY Zenon
    <2>2. /\ b \in Block /\ b.text = doc.blocks[id].text /\ b.ts = doc.blocks[id].ts
          /\ b.deleted = doc.blocks[id].deleted
          /\ b.val = doc.blocks[id].val /\ b.birth = doc.blocks[id].birth
        BY <1>3, <2>1, Zenon DEF Block
    <2>3. Mutated(t, Put(doc.blocks, id, b), doc.clock, doc.lane) /\ edits' = edits
        BY <1>7, <2>1, Zenon DEF move_block
    <2> QED BY <1>6, <2>2, <2>3, Zenon
<1>8. ASSUME NEW id \in DOMAIN doc.blocks, NEW a \in Aside, set_aside(t, id, a)
      PROVE  Advances(t) /\ edits' \in Nat
    <2>1. PICK b : b = [doc.blocks[id] EXCEPT !.aside = a]
        BY Zenon
    <2>2. /\ b \in Block /\ b.text = doc.blocks[id].text /\ b.ts = doc.blocks[id].ts
          /\ b.deleted = doc.blocks[id].deleted
          /\ b.val = doc.blocks[id].val /\ b.birth = doc.blocks[id].birth
        BY <1>3, <2>1, SMTT(30) DEF Block
    <2>3. Mutated(t, Put(doc.blocks, id, b), doc.clock, doc.lane) /\ edits' = edits
        BY <1>8, <2>1 DEF set_aside
    <2> QED BY <1>6, <2>2, <2>3, Zenon
<1>9. ASSUME NEW id \in DOMAIN doc.blocks, delete_block(t, id)
      PROVE  Advances(t) /\ edits' \in Nat
    <2>1. PICK b : b = [doc.blocks[id] EXCEPT !.deleted = TRUE]
        BY Zenon
    <2>2. /\ b \in Block /\ b.text = doc.blocks[id].text /\ b.ts = doc.blocks[id].ts
          /\ b.deleted = TRUE
          /\ b.val = doc.blocks[id].val /\ b.birth = doc.blocks[id].birth
        BY <1>3, <2>1, Zenon DEF Block
    <2>3. Mutated(t, Put(doc.blocks, id, b), doc.clock + 1, doc.lane) /\ edits' = edits
        BY <1>9, <2>1, Zenon DEF delete_block
    <2> QED BY <1>6, <2>2, <2>3, Zenon
<1>10. ASSUME NEW id, NEW f, set_field_refused(t, id, f)
       PROVE  Advances(t) /\ edits' \in Nat
    BY <1>10, Zenon DEF set_field_refused, Advances
<1> HIDE DEF Advances
<1> QED BY <1>1, <1>2, <1>4, <1>5, <1>7, <1>8, <1>9, <1>10, Zenon DEF Mutator

\* A new document, or a fork whose block has no timestamp past its clock.
LEMMA InitCover == ASSUME ForkStamp \subseteq {0}, Init PROVE CoverInv
<1>1. \A t \in Thread : task[t].pc = "idle"
    BY DEF Init, Idle
<1>2. crashes = 0 /\ edits = 0 /\ DOMAIN oplog = {}
    BY DEF Init
<1>3. RowsCovered(doc.blocks, oplog) /\ CallsCovered(doc.blocks, task) /\ SnapsCover(oplog, task)
    BY <1>1, <1>2, Zenon DEF RowsCovered, CallsCovered, SnapsCover, Carrying
<1>4. doc # Absent
    BY Loaded DEF Init, EmptyDocument, fork
<1>5. CASE doc = EmptyDocument
    <2>1. DOMAIN doc.blocks = {} /\ doc.clock = 0 /\ doc.lane = 0
        BY <1>5 DEF EmptyDocument
    <2>2. LogOK(doc.blocks, doc.clock, doc.lane)
        BY <2>1, FS_EmptySet DEF LogOK, StoreOK, BelowClock
    <2> QED BY <1>2, <1>3, <1>4, <2>2, Zenon DEF CoverInv
<1>6. ASSUME NEW ts \in ForkStamp,
             doc = fork([id \in {<<Kernel, 0>>} |-> NewBlock(PlainText, 0, 0, ts, Kernel)])
      PROVE  CoverInv
    <2>1. PICK b : b = NewBlock(PlainText, 0, 0, ts, Kernel)
        OBVIOUS
    <2>2. ts = 0
        OBVIOUS
    <2>3. b \in Block
        BY <2>1, <2>2, NewBlockType, LogAssumption, JournalAssumption, SMTT(30) DEF Pos, Val
    <2>4. \A f \in Field : b.ts[f] <= 0
        BY <2>1, <2>2 DEF NewBlock
    <2>5. IsFiniteSet({<<Kernel, 0>>}) /\ Cardinality({<<Kernel, 0>>}) = 1 /\ <<Kernel, 0>> \in Id
        BY FS_Singleton, JournalAssumption, Zenon DEF Id
    <2>6. /\ doc.blocks = [id \in {<<Kernel, 0>>} |-> b] /\ doc.clock = 0
          /\ doc.lane = Cardinality(DOMAIN doc.blocks)
        BY <1>6, <2>1, Zenon DEF fork
    <2>7. DOMAIN doc.blocks = {<<Kernel, 0>>} /\ doc.blocks[<<Kernel, 0>>] = b /\ doc.lane = 1
        BY <2>5, <2>6, Zenon
    <2>8. StoreOK(doc.blocks)
        BY <2>3, <2>5, <2>7, Zenon DEF StoreOK
    <2>9. BelowClock(doc.blocks, doc.clock)
        BY <2>4, <2>6, <2>7, Zenon DEF BelowClock
    <2>10. LogOK(doc.blocks, doc.clock, doc.lane)
        BY <2>6, <2>7, <2>8, <2>9, SMTT(30) DEF LogOK
    <2> QED BY <1>2, <1>3, <1>4, <2>10, Zenon DEF CoverInv
<1> QED BY <1>5, <1>6, Zenon DEF Init

\* A step of a thread that writes no row: the log grows or stays, what the
\* thread now carries is covered, a number is kept or new, and a snapshot is
\* taken of the log as it is.
LEMMA StepCover ==
    ASSUME JournalInv, CoverInv, crashes = 0, NEW t \in Thread, NEW next,
           task' = [task EXCEPT ![t] = next], crashes' = crashes, edits' \in Nat, oplog' = oplog,
           doc' # Absent, LogOK(doc'.blocks, doc'.clock, doc'.lane), Grew(doc.blocks, doc'.blocks),
           next.pc \in Carrying => Covers(doc'.blocks, next.ops),
           HasNumber(next) => \/ HasNumber(task[t]) /\ next.seq = task[t].seq /\ next.ops = task[t].ops
                              \/ next.seq = nextSeq + 1,
           next.pc = "write" => next.snap.seq = nextSeq /\ next.snap.blocks = doc.blocks
    PROVE  CoverInv'
<1>1. task'[t] = next /\ \A u \in Thread \ {t} : task'[u] = task[u]
    BY DEF JournalInv
<1>2. /\ LogOK(doc.blocks, doc.clock, doc.lane) /\ RowsCovered(doc.blocks, oplog)
      /\ CallsCovered(doc.blocks, task) /\ SnapsCover(oplog, task)
    BY Zenon DEF CoverInv
<1>3. \A p : Covers(doc.blocks, p) => Covers(doc'.blocks, p)
    BY <1>2, GrewCovers, Zenon DEF LogOK
<1>4. RowsCovered(doc'.blocks, oplog)
    BY <1>2, <1>3, Zenon DEF RowsCovered
<1>5. CallsCovered(doc'.blocks, task')
    BY <1>1, <1>2, <1>3, Zenon DEF CallsCovered
<1>6. ASSUME NEW u \in Thread \ {t}, task'[u].pc = "write"
      PROVE  SnapCovers(task'[u].snap, oplog, task')
    <2>1. PICK s : s = task[u].snap
        BY SMTT(30)
    <2>2. SnapCovers(s, oplog, task) /\ task'[u].snap = s
        BY <1>1, <1>2, <1>6, <2>1, Zenon DEF SnapsCover
    <2>3. s.seq \in Nat /\ s.seq <= nextSeq /\ nextSeq \in Nat
        <3>1. task[u].pc = "write" /\ u \in Thread
            BY <1>1, <1>6, Zenon
        <3>2. nextSeq \in Nat /\ (Carried(u) => CarriedSeq(u) \in 0..nextSeq)
            BY <3>1, Zenon DEF JournalInv
        <3>3. Carried(u) /\ CarriedSeq(u) = s.seq
            BY <2>1, <3>1 DEF Carried, CarriedSeq, Numbered, At
        <3> QED BY <3>2, <3>3, InRange, Zenon
    <2>4. ASSUME HasNumber(next), next.seq <= s.seq
          PROVE  HasNumber(task[t]) /\ next.seq = task[t].seq /\ next.ops = task[t].ops
        BY <2>3, <2>4, Ahead, Zenon
    <2>5. ASSUME NEW w \in Thread, HasNumber(task'[w]), task'[w].seq <= s.seq
          PROVE  Covers(s.blocks, task'[w].ops)
        BY <1>1, <2>2, <2>4, <2>5, ZenonT(40) DEF SnapCovers
    <2> QED BY <2>2, <2>5, Zenon DEF SnapCovers
<1>7. ASSUME next.pc = "write"
      PROVE  SnapCovers(next.snap, oplog, task')
    <2>1. ASSUME NEW w \in Thread, HasNumber(task'[w])
          PROVE  Covers(doc.blocks, task'[w].ops)
        BY <1>1, <1>2, <1>7, <2>1, Zenon DEF HasNumber, CallsCovered, Carrying
    <2> QED BY <1>2, <1>7, <2>1, ZenonT(40) DEF SnapCovers, RowsCovered
<1>8. SnapsCover(oplog, task')
    BY <1>1, <1>6, <1>7, Zenon DEF SnapsCover
<1> QED BY <1>4, <1>5, <1>8, Zenon DEF CoverInv

\* The mutators.
LEMMA MutatorCover ==
    ASSUME JournalInv, CoverInv, NEW t \in Thread, Mutator(t)
    PROVE  CoverInv'
<1>1. CASE crashes # 0
    <2>1. edits' \in Nat /\ crashes' = crashes
        <3>1. \A bs, c, l : Mutated(t, bs, c, l) => crashes' = crashes
            BY DEF Mutated
        <3>2. crashes' = crashes
            BY <3>1, MutatorCases DEF set_field_refused
        <3>3. edits' = edits \/ edits' = edits + 1
            BY Zenon DEF Mutator, insert_block_as, merge_ops, set_field, set_field_refused, edit_text,
                   move_block, set_aside, delete_block
        <3> QED BY <3>2, <3>3 DEF CoverInv
    <2> QED BY <1>1, <2>1 DEF CoverInv
<1>2. CASE crashes = 0
    <2>1. Advances(t) /\ edits' \in Nat
        BY <1>2, MutatorGrows DEF CoverInv
    <2>2. ASSUME NEW bs, NEW c, NEW l, Mutated(t, bs, c, l), LogOK(bs, c, l), Grew(doc.blocks, bs)
          PROVE  CoverInv'
        <3>1. PICK ops : ops = ops_since(bs, frontier(doc.blocks))
            OBVIOUS
        <3>2. PICK next : next = [pc |-> "mutated", ops |-> ops]
            BY ZenonT(40)
        <3>3. /\ task' = [task EXCEPT ![t] = next] /\ crashes' = crashes /\ oplog' = oplog
              /\ doc'.blocks = bs /\ doc'.clock = c /\ doc'.lane = l /\ doc' # Absent
            BY <2>2, <3>1, <3>2, Loaded, Zenon DEF Mutated, disk
        <3>4. Covers(bs, ops)
            BY <2>2, <3>1, OwnOpsCovered, Zenon DEF LogOK
        <3>5. next.pc = "mutated" /\ next.ops = ops /\ ~HasNumber(next)
            BY <3>2 DEF HasNumber
        <3> QED BY <1>2, <2>1, <2>2, <3>3, <3>4, <3>5, StepCover, Zenon
    <2>3. ASSUME NEW id, NEW f, set_field_refused(t, id, f)
          PROVE  CoverInv'
        <3>1. /\ task' = task /\ crashes' = crashes /\ oplog' = oplog /\ edits' = edits
              /\ doc'.blocks = doc.blocks /\ doc'.clock = doc.clock + 1 /\ doc'.lane = doc.lane
              /\ doc' # Absent
            BY <2>3, Loaded DEF set_field_refused, disk
        <3>2. LogOK(doc.blocks, doc.clock, doc.lane)
            BY <1>2, Zenon DEF CoverInv
        <3>3. \A i \in DOMAIN doc.blocks : \A g \in Field :
                    doc.blocks[i].ts[g] \in Nat /\ doc.blocks[i].ts[g] <= doc.clock
            BY <3>2, SMTT(30) DEF LogOK, StoreOK, Block, BelowClock
        <3>4. BelowClock(doc.blocks, doc.clock + 1) /\ doc.clock + 1 \in Nat
            <4>1. doc.clock \in Nat
                BY <3>2, Zenon DEF LogOK
            <4> QED BY <3>3, <4>1, OneMore, StillBelow, Zenon DEF BelowClock
        <3>5. LogOK(doc'.blocks, doc'.clock, doc'.lane)
            BY <3>1, <3>2, <3>4, Zenon DEF LogOK
        <3> QED BY <1>2, <3>1, <3>5, Zenon DEF CoverInv
    <2> QED BY <2>1, <2>2, <2>3, Zenon DEF Advances
<1> QED BY <1>1, <1>2, Zenon

\* The steps of a call that write nothing.
LEMMA PassingCover ==
    ASSUME JournalInv, CoverInv, NEW t \in Thread,
           \/ ReadStatuses(t) \/ recompute_live_status(t) \/ TakeSeq(t) \/ CountOp(t)
           \/ CompactRead(t) \/ CompactFails(t) \/ ResetCount(t)
           \/ live_status(t) \/ FillCache(t)
    PROVE  CoverInv'
<1>1. crashes' = crashes /\ edits' = edits /\ doc' = doc /\ oplog' = oplog
    BY Zenon DEF ReadStatuses, recompute_live_status, TakeSeq, CountOp, CompactRead, CompactFails,
           ResetCount, live_status, FillCache, mem, disk
<1>2. CASE crashes # 0
    BY <1>1, <1>2 DEF CoverInv
<1>3. CASE crashes = 0
    <2>1. /\ doc # Absent /\ LogOK(doc.blocks, doc.clock, doc.lane)
          /\ CallsCovered(doc.blocks, task) /\ edits \in Nat
        BY <1>3, Zenon DEF CoverInv
    <2>2. Grew(doc.blocks, doc.blocks)
        BY <2>1, GrewSelf, Zenon DEF LogOK
    <2>3. ASSUME NEW next, Goto(t, next),
                 next.pc \in Carrying => task[t].pc \in Carrying /\ next.ops = task[t].ops,
                 HasNumber(next) => \/ HasNumber(task[t]) /\ next.seq = task[t].seq
                                    \/ next.seq = nextSeq + 1,
                 next.pc = "write" => next.snap.seq = nextSeq /\ next.snap.blocks = doc.blocks
          PROVE  CoverInv'
        <3>1. next.pc \in Carrying => Covers(doc.blocks, next.ops)
            BY <2>1, <2>3, Zenon DEF CallsCovered
        <3>2. HasNumber(next) => next.pc \in Carrying
            BY SMTT(30) DEF HasNumber, Carrying
        <3> QED BY <1>1, <1>3, <2>1, <2>2, <2>3, <3>1, <3>2, StepCover, Zenon DEF Goto
    <2> USE DEF At, Idle, HasNumber, Carrying
    <2>4. CASE ReadStatuses(t)
        BY <2>3, <2>4, ZenonT(40) DEF ReadStatuses
    <2>5. CASE recompute_live_status(t)
        BY <2>3, <2>5, ZenonT(40) DEF recompute_live_status
    <2>6. CASE TakeSeq(t)
        BY <2>3, <2>6, Zenon DEF TakeSeq
    <2>7. CASE CountOp(t)
        BY <2>3, <2>7, ZenonT(40) DEF CountOp
    <2>8. CASE CompactRead(t)
        BY <2>3, <2>8, ZenonT(40) DEF CompactRead
    <2>9. CASE CompactFails(t) \/ ResetCount(t) \/ FillCache(t)
        BY <2>3, <2>9, ZenonT(40) DEF CompactFails, ResetCount, FillCache
    <2>10. CASE live_status(t)
        BY <2>3, <2>10, Zenon DEF live_status
    <2> QED BY <2>4, <2>5, <2>6, <2>7, <2>8, <2>9, <2>10, Zenon
<1> QED BY <1>2, <1>3, Zenon

\* The row that is written was covered when the thread carried it.
LEMMA AppendCover ==
    ASSUME JournalInv, CoverInv, NEW t \in Thread, append_op(t) \/ AppendFails(t)
    PROVE  CoverInv'
<1>1. PICK next \in {[pc |-> "compact"], Idle} : task' = [task EXCEPT ![t] = next]
    BY DEF append_op, AppendFails, Goto
<1>2. next.pc \in {"compact", "idle"}
    BY DEF Idle
<1>3. task'[t] = next /\ \A u \in Thread \ {t} : task'[u] = task[u]
    BY <1>1, Zenon DEF JournalInv
<1>4. crashes' = crashes /\ edits' = edits /\ doc' = doc
    BY Zenon DEF append_op, AppendFails, mem
<1>5. HasNumber(task[t]) /\ task[t].pc \in Carrying
    BY Zenon DEF append_op, AppendFails, At, HasNumber, Carrying
<1>6. \A n \in DOMAIN oplog' : \/ n \in DOMAIN oplog /\ oplog'[n] = oplog[n]
                               \/ n = task[t].seq /\ oplog'[n] = task[t].ops
    BY DEF append_op, AppendFails, Put
<1>7. CASE crashes # 0
    BY <1>4, <1>7, Zenon DEF CoverInv
<1>8. CASE crashes = 0
    <2>1. /\ RowsCovered(doc.blocks, oplog) /\ CallsCovered(doc.blocks, task) /\ SnapsCover(oplog, task)
        BY <1>8, Zenon DEF CoverInv
    <2>2. RowsCovered(doc.blocks, oplog')
        BY <1>5, <1>6, <2>1, Zenon DEF RowsCovered, CallsCovered
    <2>3. CallsCovered(doc.blocks, task')
        BY <1>2, <1>3, <2>1, Zenon DEF CallsCovered, Carrying
    <2>4. ASSUME NEW u \in Thread, task'[u].pc = "write"
          PROVE  SnapCovers(task'[u].snap, oplog', task')
        <3>1. u # t /\ task'[u] = task[u] /\ SnapCovers(task[u].snap, oplog, task)
            BY <1>2, <1>3, <2>1, <2>4, ZenonT(40) DEF SnapsCover
        <3>2. \A w \in Thread : HasNumber(task'[w]) => task'[w] = task[w]
            BY <1>2, <1>3, Zenon DEF HasNumber
        <3> QED BY <1>5, <1>6, <3>1, <3>2, Zenon DEF SnapCovers
    <2>5. SnapsCover(oplog', task')
        BY <2>4, Zenon DEF SnapsCover
    <2> QED BY <1>4, <1>8, <2>2, <2>3, <2>5, Zenon DEF CoverInv
<1> QED BY <1>7, <1>8, Zenon

\* Compaction deletes rows, and its snapshot holds each of them.
LEMMA CompactCover ==
    ASSUME JournalInv, CoverInv, NEW t \in Thread, write_snapshot_and_truncate(t)
    PROVE  /\ CoverInv'
           /\ \A n \in DOMAIN oplog \ DOMAIN oplog' :
                    crashes = 0 => Holds(snapshot'.blocks, oplog[n])
<1>1. /\ task' = [task EXCEPT ![t] = [pc |-> "reset"]] /\ task[t].pc = "write"
      /\ crashes' = crashes /\ edits' = edits /\ doc' = doc
    BY DEF write_snapshot_and_truncate, Goto, At, mem
<1>2. snapshot' = task[t].snap
    BY Zenon DEF write_snapshot_and_truncate
<1>3. /\ DOMAIN oplog' = {k \in DOMAIN oplog : k > task[t].snap.seq}
      /\ \A n \in DOMAIN oplog' : oplog'[n] = oplog[n]
    BY Zenon DEF write_snapshot_and_truncate
<1>4. task'[t].pc = "reset" /\ \A u \in Thread \ {t} : task'[u] = task[u]
    BY <1>1, SMTT(30) DEF JournalInv
<1>5. CASE crashes # 0
    BY <1>1, <1>5, Zenon DEF CoverInv
<1>6. CASE crashes = 0
    <2>1. /\ RowsCovered(doc.blocks, oplog) /\ CallsCovered(doc.blocks, task) /\ SnapsCover(oplog, task)
        BY <1>6, Zenon DEF CoverInv
    <2>2. RowsCovered(doc.blocks, oplog')
        BY <1>3, <2>1, Zenon DEF RowsCovered
    <2>3. CallsCovered(doc.blocks, task')
        BY <1>4, <2>1, ZenonT(40) DEF CallsCovered, Carrying
    <2>4. ASSUME NEW u \in Thread, task'[u].pc = "write"
          PROVE  SnapCovers(task'[u].snap, oplog', task')
        <3>1. u # t /\ task'[u] = task[u] /\ SnapCovers(task[u].snap, oplog, task)
            BY <1>4, <2>1, <2>4, Zenon DEF SnapsCover
        <3>2. \A w \in Thread : HasNumber(task'[w]) => task'[w] = task[w]
            BY <1>4, Zenon DEF HasNumber
        <3> QED BY <1>3, <3>1, <3>2, Zenon DEF SnapCovers
    <2>5. SnapsCover(oplog', task')
        BY <2>4, SMTT(30) DEF SnapsCover
    <2>6. CoverInv'
        BY <1>1, <1>6, <2>2, <2>3, <2>5, Zenon DEF CoverInv
    <2>7. task[t].snap.seq \in Nat /\ DOMAIN oplog \subseteq Nat
        BY <1>1, SMTT(30) DEF JournalInv, Carried, CarriedSeq, Numbered, At
    <2>8. ASSUME NEW n \in DOMAIN oplog \ DOMAIN oplog'
          PROVE  Holds(snapshot'.blocks, oplog[n])
        <3>1. n <= task[t].snap.seq
            BY <1>3, <2>7, <2>8, NotAhead, Zenon
        <3> QED BY <1>1, <1>2, <2>1, <3>1, Zenon DEF SnapsCover, SnapCovers, Covers
    <2> QED BY <2>6, <2>8, Zenon
<1> QED BY <1>5, <1>6, Zenon

\* One step: the invariant is kept, and only compaction deletes rows.
LEMMA NextCovers ==
    ASSUME JournalInv, CoverInv, [Next]_vars
    PROVE  /\ CoverInv'
           /\ \A n \in DOMAIN oplog \ DOMAIN oplog' :
                    crashes = 0 => Holds(snapshot'.blocks, oplog[n])
<1>1. CASE UNCHANGED vars
    BY <1>1 DEF vars, mem, disk, CoverInv
<1>2. ASSUME NEW t \in Thread, Mutator(t)
      PROVE  CoverInv' /\ oplog' = oplog
    <2>1. \A bs, c, l : Mutated(t, bs, c, l) => oplog' = oplog
        BY DEF Mutated, disk
    <2>2. oplog' = oplog
        BY <1>2, <2>1, MutatorCases, Zenon DEF set_field_refused, disk
    <2> QED BY <1>2, <2>2, MutatorCover, Zenon
<1>3. ASSUME NEW t \in Thread,
             \/ ReadStatuses(t) \/ recompute_live_status(t) \/ TakeSeq(t) \/ CountOp(t)
             \/ CompactRead(t) \/ CompactFails(t) \/ ResetCount(t)
             \/ live_status(t) \/ FillCache(t)
      PROVE  CoverInv' /\ oplog' = oplog
    BY <1>3, PassingCover, ZenonT(40) DEF ReadStatuses, recompute_live_status, TakeSeq, CountOp, CompactRead,
       CompactFails, ResetCount, live_status, FillCache, disk
<1>4. ASSUME NEW t \in Thread, append_op(t) \/ AppendFails(t)
      PROVE  CoverInv' /\ DOMAIN oplog \subseteq DOMAIN oplog'
    BY <1>4, AppendCover, Zenon DEF append_op, AppendFails, Put
<1>5. ASSUME NEW t \in Thread, write_snapshot_and_truncate(t)
      PROVE  /\ CoverInv'
             /\ \A n \in DOMAIN oplog \ DOMAIN oplog' :
                      crashes = 0 => Holds(snapshot'.blocks, oplog[n])
    BY <1>5, CompactCover, Zenon
<1>6. CASE Crash
    BY <1>6, SMTT(30) DEF Crash, CoverInv, disk
<1>7. CASE load_from_db
    BY <1>7, Zenon DEF load_from_db, CoverInv, disk
<1> QED BY <1>1, <1>2, <1>3, <1>4, <1>5, <1>6, <1>7, Zenon DEF Next

(***************************************************************************)
(* write_snapshot_and_truncate deletes no row that its snapshot does not   *)
(* hold, for any number of threads between the read of the snapshot and    *)
(* its write, and any number of failed writes, until a kill.  A fork       *)
(* starts here with a block that is not past its clock; one that is past   *)
(* it may be overwritten with an older stamp.                              *)
(***************************************************************************)
THEOREM CompactionLosesNothing ==
    ASSUME ForkStamp \subseteq {0}
    PROVE  Spec => TruncationCovered
<1>1. Init => JournalInv /\ CoverInv
    BY InitJournal, InitCover, Zenon
<1>2. JournalInv /\ CoverInv /\ [Next]_vars => JournalInv' /\ CoverInv'
    BY NextKeeps, NextCovers, Zenon
<1>3. JournalInv /\ CoverInv /\ [Next]_vars =>
        [\A n \in DOMAIN oplog \ DOMAIN oplog' :
            crashes = 0 => Holds(snapshot'.blocks, oplog[n])]_vars
    BY NextCovers
<1> QED BY <1>1, <1>2, <1>3, PTL DEF Spec, TruncationCovered

----------------------------------------------------------------------------
(***************************************************************************)
(* What the database brings back.  The replay is a recursive function over *)
(* the journal numbers.  That there is one is shown with a least element:  *)
(* two replays up to a row are the same, and a least number up to which    *)
(* there is none would have one.                                           *)
(***************************************************************************)

\* A set of numbers that is not empty has a least one.
LEMMA LeastNumber ==
    ASSUME NEW T, T \subseteq Nat, T # {}
    PROVE  \E x \in T : \A y \in T : x <= y
<1>1. PICK x \in T : \A y \in T : ~(<<y, x>> \in OpToRel(<, Nat))
    BY NatLessThanWellFounded, WFMin, Zenon
<1>2. \A y \in T : ~(y < x)
    BY <1>1, Zenon DEF OpToRel
<1> QED BY <1>2

\* One with a bound has a greatest one.
LEMMA Greatest ==
    ASSUME NEW T, T \subseteq Nat, T # {}, NEW b \in Nat, \A y \in T : y <= b
    PROVE  \E m : IsMax(m, T)
<1> DEFINE B == {n \in Nat : \A y \in T : y <= n}
<1>1. PICK m \in B : \A n \in B : m <= n
    <2>1. B \subseteq Nat /\ b \in B
        BY Zenon
    <2> QED BY <2>1, LeastNumber, Zenon
<1>2. m \in T
    <2>1. SUFFICES ASSUME m \notin T PROVE FALSE
        OBVIOUS
    <2>2. m \in Nat /\ \A y \in T : y \in Nat /\ y <= m /\ y # m
        BY <1>1, <2>1, Zenon
    <2>3. m - 1 \in Nat /\ \A y \in T : y <= m - 1
        <3>1. \A y \in Nat : y <= m /\ y # m => m - 1 \in Nat /\ y <= m - 1
            BY <2>2
        <3> QED BY <2>2, <3>1, Zenon
    <2>4. m <= m - 1
        BY <1>1, <2>3, Zenon
    <2> QED BY <2>2, <2>4
<1> QED BY <1>1, <1>2 DEF IsMax

\* The state that the snapshot alone brings back.
From(snap) ==
    LET stamps == LiveStamps(snap.blocks) \cup {0}
    IN  [ok |-> TRUE, blocks |-> RestoredStore(Kernel, snap.blocks),
         clock |-> CHOOSE m \in stamps : IsMax(m, stamps)]

\* What row n makes of the state s before it.
Step(snap, log, s, n) ==
    IF n <= snap.seq THEN From(snap)
    ELSE IF n \in DOMAIN log THEN ReplayRow(s, log[n])
    ELSE s

\* g is the replay up to row n.
UpTo(snap, log, g, n) == \A k \in 0..n : g[k] = Step(snap, log, g[k - 1], k)

\* Two replays do not differ.
LEMMA UpToSame ==
    ASSUME NEW snap, snap.seq \in Nat, NEW log, NEW g, NEW h, NEW n \in Nat,
           UpTo(snap, log, g, n), UpTo(snap, log, h, n)
    PROVE  \A k \in 0..n : g[k] = h[k]
<1> DEFINE D == {k \in 0..n : g[k] # h[k]}
<1>1. SUFFICES ASSUME D # {} PROVE FALSE
    BY Zenon
<1>2. D \subseteq Nat
    OBVIOUS
<1>3. PICK k \in D : \A j \in D : k <= j
    BY <1>1, <1>2, LeastNumber, Zenon
<1>4. k \in Nat /\ k <= n /\ g[k] # h[k]
    BY <1>3, SMTT(30)
<1>5. g[k] = Step(snap, log, g[k - 1], k) /\ h[k] = Step(snap, log, h[k - 1], k)
    BY <1>4 DEF UpTo
<1>6. ~(k <= snap.seq)
    BY <1>4, <1>5, Zenon DEF Step
<1>7. k - 1 \in 0..n /\ ~(k <= k - 1)
    BY <1>4, <1>6
<1>8. g[k - 1] = h[k - 1]
    BY <1>3, <1>7, Zenon
<1> QED BY <1>4, <1>5, <1>8, Zenon

\* Nor, then, at row n.
LEMMA UpToEnd ==
    ASSUME NEW snap, snap.seq \in Nat, NEW log, NEW g, NEW h, NEW n \in Nat,
           UpTo(snap, log, g, n), UpTo(snap, log, h, n)
    PROVE  g[n] = h[n]
<1>1. n \in 0..n
    OBVIOUS
<1>2. \A k \in 0..n : g[k] = h[k]
    BY UpToSame
<1> QED BY <1>1, <1>2, Zenon

\* There is a replay up to every row.
LEMMA UpToExists ==
    ASSUME NEW snap, snap.seq \in Nat, NEW log, NEW n \in Nat
    PROVE  \E g : UpTo(snap, log, g, n)
<1> DEFINE D == {k \in Nat : ~\E g : UpTo(snap, log, g, k)}
<1>1. SUFFICES ASSUME D # {} PROVE FALSE
    BY Zenon
<1>2. PICK m \in D : \A j \in D : m <= j
    BY <1>1, LeastNumber, Zenon
<1>3. m \in Nat /\ ~\E g : UpTo(snap, log, g, m)
    BY <1>2, Zenon
<1>4. CASE m = 0
    <2> DEFINE g == [k \in {0} |-> From(snap)]
    <2>1. \A k \in 0..m : g[k] = Step(snap, log, g[k - 1], k)
        BY <1>4 DEF Step
    <2> QED BY <1>3, <2>1, Zenon DEF UpTo
<1>5. CASE m # 0
    <2>1. m - 1 \in Nat /\ ~(m <= m - 1) /\ \A k \in 0..m : k = m \/ (k \in 0..(m - 1) /\ k # m)
        BY <1>3, <1>5
    <2>2. m - 1 \notin D
        BY <1>2, <2>1, Zenon
    <2>3. PICK h : UpTo(snap, log, h, m - 1)
        BY <2>1, <2>2, Zenon
    <2> DEFINE g == [k \in (-1)..m |-> IF k = m THEN Step(snap, log, h[m - 1], m) ELSE h[k]]
    <2>4. \A k \in 0..(m - 1) : k - 1 \in (-1)..m /\ k - 1 # m /\ k \in (-1)..m /\ k # m
        BY <1>3, <1>5
    <2>5. \A k \in 0..(m - 1) : g[k] = h[k] /\ g[k - 1] = h[k - 1]
        BY <2>4, Zenon
    <2>6. m \in (-1)..m /\ m - 1 \in (-1)..m /\ m - 1 # m
        BY <1>3, <1>5
    <2>7. g[m] = Step(snap, log, h[m - 1], m) /\ g[m - 1] = h[m - 1]
        BY <2>6, Zenon
    <2> HIDE DEF g
    <2>8. \A k \in 0..m : g[k] = Step(snap, log, g[k - 1], k)
        <3>1. SUFFICES ASSUME NEW k \in 0..m PROVE g[k] = Step(snap, log, g[k - 1], k)
            BY Zenon
        <3>2. CASE k = m
            BY <2>7, <3>2, Zenon
        <3>3. CASE k # m
            BY <2>1, <2>3, <2>5, <3>3, Zenon DEF UpTo
        <3> QED BY <3>2, <3>3, Zenon
    <2> QED BY <1>3, <2>8, Zenon DEF UpTo
<1> QED BY <1>4, <1>5, Zenon

\* The replay is the function that its recursive definition describes.
LEMMA ReplayIs ==
    ASSUME NEW snap, snap.seq \in Nat, NEW log
    PROVE  \A n \in Nat : ReplayedFrom(snap, log)[n] = Step(snap, log, ReplayedFrom(snap, log)[n - 1], n)
<1> DEFINE G(n) == CHOOSE g : UpTo(snap, log, g, n)
           R == [n \in Nat |-> G(n)[n]]
           Def(g) == g = [n \in Nat |-> IF n <= snap.seq THEN From(snap)
                                        ELSE IF n \in DOMAIN log THEN ReplayRow(g[n - 1], log[n])
                                        ELSE g[n - 1]]
<1>1. \A n \in Nat : UpTo(snap, log, G(n), n)
    BY UpToExists, Zenon
<1>2. ASSUME NEW n \in Nat PROVE R[n] = Step(snap, log, R[n - 1], n)
    <2>1. G(n)[n] = Step(snap, log, G(n)[n - 1], n)
        <3>1. n \in 0..n
            OBVIOUS
        <3> QED BY <1>1, <3>1, Zenon DEF UpTo
    <2>2. CASE n <= snap.seq
        BY <2>1, <2>2, Zenon DEF Step
    <2>3. CASE ~(n <= snap.seq)
        <3>1. n - 1 \in Nat /\ n - 1 \in 0..(n - 1) /\ \A k \in 0..(n - 1) : k \in 0..n
            BY <2>3
        <3>2. UpTo(snap, log, G(n), n - 1)
            BY <1>1, <3>1, Zenon DEF UpTo
        <3>3. UpTo(snap, log, G(n - 1), n - 1)
            BY <1>1, <3>1, Zenon
        <3> HIDE DEF G
        <3>4. G(n)[n - 1] = G(n - 1)[n - 1]
            <4>1. PICK g, h, m : g = G(n) /\ h = G(n - 1) /\ m = n - 1
                BY Zenon
            <4>2. m \in Nat /\ UpTo(snap, log, g, m) /\ UpTo(snap, log, h, m)
                BY <3>1, <3>2, <3>3, <4>1, SMTT(30)
            <4>3. g[m] = h[m]
                BY <4>2, UpToEnd, SMT
            <4> QED BY <4>1, <4>3, Zenon
        <3>5. R[n] = G(n)[n] /\ R[n - 1] = G(n - 1)[n - 1]
            BY <3>1, Zenon
        <3> QED BY <2>1, <3>4, <3>5, Zenon
    <2> QED BY <2>2, <2>3, Zenon
<1> HIDE DEF G, R
<1>3. Def(R)
    <2>1. R = [n \in Nat |-> R[n]]
        BY Zenon DEF R
    <2> QED BY <1>2, <2>1, Zenon DEF Step
<1>4. ReplayedFrom(snap, log) = CHOOSE g : Def(g)
    BY DEF ReplayedFrom, From
<1>5. Def(ReplayedFrom(snap, log))
    <2> HIDE DEF Def
    <2> QED BY <1>3, <1>4, Zenon
<1> QED BY <1>5, Zenon DEF Step

\* No row has a number after m and up to n.
NoRows(log, m, n) == \A k \in DOMAIN log : k \in Nat /\ k <= n => k <= m

\* Two logs have the same rows up to number m.
Agree(log, more, m) ==
    \A k \in Nat : k <= m => /\ k \in DOMAIN log <=> k \in DOMAIN more
                             /\ k \in DOMAIN log => log[k] = more[k]

\* Where there is no row, the replay stands still.
LEMMA ReplayRests ==
    ASSUME NEW snap, snap.seq \in Nat, NEW log, NEW m \in Nat, NEW n \in Nat, snap.seq <= m, m <= n,
           NoRows(log, m, n)
    PROVE  ReplayedFrom(snap, log)[n] = ReplayedFrom(snap, log)[m]
<1> DEFINE R == ReplayedFrom(snap, log)
           D == {k \in Nat : m <= k /\ k <= n /\ R[k] # R[m]}
<1>0. \A k \in Nat : R[k] = Step(snap, log, R[k - 1], k)
    BY ReplayIs, Zenon
<1> HIDE DEF R
<1>1. SUFFICES ASSUME D # {} PROVE FALSE
    BY OneMore, Zenon DEF R
<1>2. PICK k \in D : \A j \in D : k <= j
    BY <1>1, LeastNumber, Zenon
<1>3. k \in Nat /\ m <= k /\ k <= n /\ R[k] # R[m]
    BY <1>2, Zenon
<1>4. k # m
    BY <1>3, Zenon
<1>5. ~(k <= snap.seq) /\ ~(k <= m) /\ k - 1 \in Nat /\ m <= k - 1 /\ k - 1 <= n /\ ~(k <= k - 1)
    BY <1>3, <1>4
<1>6. k \notin DOMAIN log
    BY <1>3, <1>5, Zenon DEF NoRows
<1>7. R[k] = R[k - 1]
    BY <1>0, <1>3, <1>5, <1>6, Zenon DEF Step
<1>8. R[k - 1] = R[m]
    BY <1>2, <1>5, Zenon
<1> QED BY <1>3, <1>7, <1>8, Zenon

\* Rows after number m do not matter to the replay up to it.
LEMMA ReplayAgrees ==
    ASSUME NEW snap, snap.seq \in Nat, NEW log, NEW more, NEW m \in Nat, Agree(log, more, m)
    PROVE  ReplayedFrom(snap, more)[m] = ReplayedFrom(snap, log)[m]
<1> DEFINE R == ReplayedFrom(snap, log)
           Q == ReplayedFrom(snap, more)
           D == {k \in Nat : k <= m /\ Q[k] # R[k]}
<1>a. \A k \in Nat : R[k] = Step(snap, log, R[k - 1], k)
    BY ReplayIs, ZenonT(40)
<1>b. \A k \in Nat : Q[k] = Step(snap, more, Q[k - 1], k)
    BY ReplayIs, ZenonT(40)
<1> HIDE DEF R, Q
<1>1. SUFFICES ASSUME D # {} PROVE FALSE
    BY OneMore, Zenon DEF R, Q
<1>2. PICK k \in D : \A j \in D : k <= j
    BY <1>1, LeastNumber, Zenon
<1>3. k \in Nat /\ k <= m /\ Q[k] # R[k]
    BY <1>2, Zenon
<1>c. R[k] = Step(snap, log, R[k - 1], k) /\ Q[k] = Step(snap, more, Q[k - 1], k)
    BY <1>a, <1>b, <1>3, Zenon
<1>4. ~(k <= snap.seq)
    <2>1. k <= snap.seq => R[k] = From(snap) /\ Q[k] = From(snap)
        BY <1>c, Zenon DEF Step
    <2> QED BY <1>3, <2>1, Zenon
<1>5. k - 1 \in Nat /\ k - 1 <= m /\ ~(k <= k - 1)
    BY <1>3, <1>4
<1>6. Q[k - 1] = R[k - 1]
    BY <1>2, <1>5, Zenon
<1>7. Step(snap, more, Q[k - 1], k) = Step(snap, log, Q[k - 1], k)
    BY <1>3, Zenon DEF Step, Agree
<1> QED BY <1>c, <1>3, <1>6, <1>7, Zenon

----------------------------------------------------------------------------
\* Two stores that a reader cannot tell apart, positions and the data beside the
\* header left out.
SameBlock(b, n) ==
    /\ b.deleted <=> n.deleted
    /\ ~b.deleted => b.birth = n.birth /\ b.val = n.val /\ b.ts = n.ts /\ b.text = n.text

Same(bs, ns) ==
    /\ DOMAIN bs = DOMAIN ns
    /\ \A id \in DOMAIN bs : SameBlock(bs[id], ns[id])

Texted(bs) == \A id \in Live(bs) : bs[id].text # {}

\* What is sent depends on the frontier only where the blocks are live.
LEMMA SinceSame ==
    ASSUME NEW bs, NEW front, NEW other, DOMAIN front = DOMAIN other,
           \A id \in Live(bs) : id \in DOMAIN front => front[id] = other[id]
    PROVE  ops_since(bs, front) = ops_since(bs, other)
<1> DEFINE sent(fr) == [id \in Live(bs) |->
                          IF id \in Live(bs) \ DOMAIN fr THEN bs[id].text ELSE bs[id].text \ fr[id]]
<1>1. sent(front) = sent(other)
    OBVIOUS
<1> QED BY <1>1, Zenon DEF ops_since

\* A row holds what a store took since the frontier of another; a store that
\* shows the same as that one receives it as its own.
LEMMA RowIsPull ==
    ASSUME NEW rs, NEW bs, NEW ns, Same(rs, bs), Grew(bs, ns)
    PROVE  ops_since(ns, frontier(bs)) = ops_since(ns, frontier(rs))
<1>1. DOMAIN frontier(bs) = DOMAIN bs /\ DOMAIN frontier(rs) = DOMAIN bs
    BY Zenon DEF frontier, Same
<1>2. ASSUME NEW id \in Live(ns), id \in DOMAIN bs
      PROVE  frontier(bs)[id] = frontier(rs)[id]
    <2>1. ~bs[id].deleted
        BY <1>2, Zenon DEF Live, Grew
    <2>2. id \in DOMAIN rs /\ rs[id].text = bs[id].text
        BY <1>2, <2>1, Zenon DEF Same, SameBlock
    <2> QED BY <1>2, <2>2, Zenon DEF frontier
<1> QED BY <1>1, <1>2, SinceSame, Zenon

\* The text of a block that the receiver does not have arrives whole.
LEMMA FreshText ==
    ASSUME NEW by \in Replica, NEW bs, NEW os, StoreOK(os), NEW id \in Live(os), id \notin DOMAIN bs,
           os[id].text # {}
    PROVE  Pull(by, bs, os)[id].text = os[id].text
<1> DEFINE p == ops_since(os, frontier(bs))
           n == [p.new[id] EXCEPT !.text = SnapshotText(by, p, id)]
<1>1. os[id] \in Block
    BY DEF StoreOK, Live
<1>2. p.new[id] = [os[id] EXCEPT !.text = {}] /\ TextFor(p, id) = os[id].text
    BY DEF ops_since, frontier, TextFor
<1>3. SnapshotText(by, p, id) = {}
    BY <1>2, SMTT(30) DEF SnapshotText
<1>4. Pull(by, bs, os)[id] = MergedBlock(by, bs, p, id)
    BY PullBlock
<1>5. Pull(by, bs, os)[id] = [n EXCEPT !.text = @ \cup TextFor(p, id), !.deleted = @ \/ id \in p.deleted]
    BY <1>4 DEF MergedBlock, ReceivedBlock
<1>6. n \in Block /\ n.text = {}
    BY <1>1, <1>2, <1>3, Zenon DEF Block
<1> HIDE DEF p, n
<1>7. Pull(by, bs, os)[id].text = n.text \cup TextFor(p, id)
    BY <1>5, <1>6, WithTextParts
<1> QED BY <1>2, <1>6, <1>7, SMTT(30)

\* No text of such a row builds on an edit that the receiver lacks.
LEMMA NoBaseMissing ==
    ASSUME NEW bs, NEW os
    PROVE  BaseMissing(bs, ops_since(os, frontier(bs))) = {}
<1> DEFINE p == ops_since(os, frontier(bs))
<1>1. ASSUME NEW id \in DOMAIN p.ops \cap DOMAIN bs
      PROVE  Base(p, id) \subseteq bs[id].text
    <2>1. id \in Live(os) /\ id \in DOMAIN os
        BY DEF ops_since, Live
    <2>2. p.ops[id] = os[id].text \ bs[id].text /\ p.front[id] = os[id].text
        BY <2>1, SMTT(30) DEF ops_since, frontier
    <2> QED BY <2>2 DEF Base
<1> QED BY <1>1, Zenon DEF BaseMissing

\* A field written no earlier in n than in r, and to the same value if at the same time.
FieldNotOlder(f, r, n) ==
    /\ r.ts[f] \in Nat /\ n.ts[f] \in Nat /\ n.val[f] \in Int /\ r.ts[f] <= n.ts[f]
    /\ n.ts[f] = r.ts[f] => n.val[f] = r.val[f]

\* q has the field as n has it.
HasField(f, q, n) == q.val[f] = n.val[f] /\ q.ts[f] = n.ts[f]

\* A field of a block that both have: the newer value, or the one value.
LEMMA FieldTaken ==
    ASSUME NEW f \in Field, NEW r, NEW n, NEW q, FieldNotOlder(f, r, n), Pulled(q, r, n)
    PROVE  HasField(f, q, n)
<1>1. \/ field_wins(f, n, r) /\ q.val[f] = n.val[f] /\ q.ts[f] = n.ts[f]
      \/ ~field_wins(f, n, r) /\ q.val[f] = r.val[f] /\ q.ts[f] = r.ts[f]
    BY SMTT(30) DEF Pulled
<1>2. CASE r.ts[f] < n.ts[f]
    <2>1. field_wins(f, n, r)
        BY <1>2, SMTT(30) DEF field_wins, FieldNotOlder
    <2> QED BY <1>1, <2>1, Zenon DEF HasField
<1>3. CASE r.ts[f] = n.ts[f]
    BY <1>1, <1>3, Zenon DEF FieldNotOlder, HasField
<1>4. r.ts[f] < n.ts[f] \/ r.ts[f] = n.ts[f]
    BY SMTT(30) DEF FieldNotOlder
<1> QED BY <1>2, <1>3, <1>4, Zenon

\* A block that both have and that is live in the sender's store.
LEMMA KnownTaken ==
    ASSUME NEW rs, NEW ns, StoreOK(rs), StoreOK(ns), NEW id \in DOMAIN rs, id \in Live(ns),
           ~rs[id].deleted, rs[id].text \subseteq ns[id].text, Kept(rs[id], ns[id]),
           \A f \in Field : rs[id].ts[f] <= ns[id].ts[f]
    PROVE  SameBlock(Pull(Kernel, rs, ns)[id], ns[id])
<1> DEFINE q == Pull(Kernel, rs, ns)[id]
<1>0. Kernel \in Replica
    BY JournalAssumption, Zenon
<1>1. rs[id] \in Block /\ ns[id] \in Block /\ ~ns[id].deleted /\ id \in DOMAIN ns
    BY Zenon DEF StoreOK, Live
<1>2. Pulled(q, rs[id], ns[id])
    BY <1>0, PullKnown, Zenon
<1>3. q \in Block /\ q.birth = rs[id].birth
    <2>1. TakesUp(rs, ops_since(ns, frontier(rs)), Pull(Kernel, rs, ns))
        BY <1>0, OpsSincePayload, MergedStore, Zenon DEF Pull
    <2> QED BY <2>1, Zenon DEF TakesUp, StoreOK, Evolves, BlockEvolves
<1> HIDE DEF q
<1>4. ASSUME NEW f \in Field PROVE q.val[f] = ns[id].val[f] /\ q.ts[f] = ns[id].ts[f]
    <2>1. rs[id].ts[f] \in Nat /\ ns[id].ts[f] \in Nat
        BY <1>1, Zenon DEF Block
    <2>2. ns[id].val[f] \in Int
        BY <1>1, FieldTypes DEF Block
    <2>3. ns[id].ts[f] = rs[id].ts[f] => ns[id].val[f] = rs[id].val[f]
        BY Zenon DEF Kept
    <2>4. PICK r, n : r = rs[id] /\ n = ns[id]
        BY Zenon
    <2>5. FieldNotOlder(f, r, n)
        BY <2>1, <2>2, <2>3, <2>4, Zenon DEF FieldNotOlder
    <2>6. Pulled(q, r, n)
        BY <1>2, <2>4, Zenon
    <2>7. HasField(f, q, n)
        BY <2>5, <2>6, FieldTaken, Zenon
    <2> QED BY <2>4, <2>7, Zenon DEF HasField
<1>5. q.val = ns[id].val /\ q.ts = ns[id].ts
    BY <1>1, <1>3, <1>4 DEF Block
<1>6. q.text = ns[id].text
    <2>1. q.text = rs[id].text \cup ns[id].text
        BY <1>2, Zenon DEF Pulled
    <2> QED BY <2>1, Zenon
<1>7. q.birth = ns[id].birth /\ ~q.deleted
    BY <1>2, <1>3, Zenon DEF Kept, Pulled
<1>8. SameBlock(q, ns[id])
    BY <1>1, <1>5, <1>6, <1>7, Zenon DEF SameBlock
<1> QED BY <1>8, Zenon DEF q

\* After the row, the receiver shows what the sender shows.
LEMMA RowTaken ==
    ASSUME NEW rs, NEW bs, NEW ns, StoreOK(rs), StoreOK(bs), StoreOK(ns),
           Same(rs, bs), Grew(bs, ns), Follows(bs, ns)
    PROVE  Same(Pull(Kernel, rs, ns), ns)
<1> DEFINE qs == Pull(Kernel, rs, ns)
<1>0. Kernel \in Replica
    BY JournalAssumption, Zenon
<1>1. DOMAIN rs = DOMAIN bs /\ DOMAIN bs \subseteq DOMAIN ns
    BY Zenon DEF Same, Grew
<1>2. \A id \in DOMAIN ns \ DOMAIN bs : id \in Live(ns) /\ ns[id].text # {}
    BY Zenon DEF Follows, Live
<1>3. DOMAIN qs = DOMAIN rs \cup Live(ns)
    BY <1>0, PullDomain
<1>4. DOMAIN qs = DOMAIN ns
    BY <1>1, <1>2, <1>3, Zenon DEF Live
<1>5. ASSUME NEW id \in DOMAIN ns, id \in DOMAIN bs, id \notin Live(ns)
      PROVE  SameBlock(qs[id], ns[id])
    <2>1. qs[id].deleted
        BY <1>0, <1>1, <1>5, PullDeleted
    <2>2. ns[id].deleted
        BY <1>5, Zenon DEF Live
    <2> QED BY <2>1, <2>2, Zenon DEF SameBlock
<1>6. ASSUME NEW id \in DOMAIN ns, id \in DOMAIN bs, id \in Live(ns)
      PROVE  SameBlock(qs[id], ns[id])
    <2>1. ~bs[id].deleted
        BY <1>6, Zenon DEF Grew, Live
    <2>2. /\ ~rs[id].deleted /\ rs[id].birth = bs[id].birth /\ rs[id].val = bs[id].val
          /\ rs[id].ts = bs[id].ts /\ rs[id].text = bs[id].text
        BY <1>1, <1>6, <2>1, Zenon DEF Same, SameBlock
    <2>3. Kept(bs[id], ns[id])
        BY <1>6, Zenon DEF Follows
    <2>4. Kept(rs[id], ns[id])
        BY <2>2, <2>3, Zenon DEF Kept
    <2>5. /\ rs[id].text \subseteq ns[id].text
          /\ \A f \in Field : rs[id].ts[f] <= ns[id].ts[f]
        BY <1>6, <2>2, Zenon DEF Grew
    <2> QED BY <1>1, <1>6, <2>2, <2>4, <2>5, KnownTaken, Zenon
<1>7. ASSUME NEW id \in DOMAIN ns, id \notin DOMAIN bs
      PROVE  SameBlock(qs[id], ns[id])
    <2>1. id \in Live(ns) /\ ns[id].text # {} /\ id \notin DOMAIN rs
        BY <1>1, <1>2, <1>7, ZenonT(40)
    <2>2. ~qs[id].deleted /\ qs[id].val = ns[id].val /\ qs[id].ts = ns[id].ts
        BY SMTT(30), <1>0, <2>1, PullFresh
    <2>3. qs[id].text = ns[id].text
        BY <1>0, <2>1, FreshText, SMTT(30)
    <2>4. qs[id].birth = ns[id].birth
        <3>1. TakesUp(rs, ops_since(ns, frontier(rs)), qs)
            BY <1>0, OpsSincePayload, MergedStore, Zenon DEF Pull
        <3>2. qs[id].birth = ops_since(ns, frontier(rs)).new[id].birth
            BY <1>4, <2>1, <3>1, Zenon DEF TakesUp
        <3>3. ops_since(ns, frontier(rs)).new[id] = [ns[id] EXCEPT !.text = {}]
            BY <2>1 DEF ops_since, frontier
        <3>4. ns[id] \in Block
            BY Zenon DEF StoreOK
        <3> HIDE DEF qs
        <3> QED BY <3>2, <3>3, <3>4 DEF Block
    <2>5. ~ns[id].deleted
        BY <2>1, Zenon DEF Live
    <2> HIDE DEF qs
    <2> QED BY <2>2, <2>3, <2>4, <2>5, Zenon DEF SameBlock
<1> HIDE DEF qs
<1>8. Same(qs, ns)
    BY <1>4, <1>5, <1>6, <1>7, Zenon DEF Same
<1> QED BY <1>8, Zenon DEF qs

\* The timestamps of a row are timestamps of the store it was computed from.
LEMMA SinceStamps ==
    ASSUME NEW rs, NEW ns, NEW front, NEW c, BelowClock(ns, c), StoreOK(ns)
    PROVE  \A x \in RemoteStamps(rs, ops_since(ns, front)) : x <= c
<1> DEFINE p == ops_since(ns, front)
<1>1. ASSUME NEW id \in DOMAIN p.headers PROVE id \in DOMAIN ns /\ p.headers[id].ts = ns[id].ts
    BY DEF ops_since, Live
<1>2. ASSUME NEW id \in DOMAIN p.new PROVE id \in DOMAIN ns /\ p.new[id].ts = ns[id].ts
    <2>1. id \in DOMAIN ns /\ p.new[id] = [ns[id] EXCEPT !.text = {}]
        BY DEF ops_since, Live
    <2>2. ns[id] \in Block
        BY <2>1 DEF StoreOK
    <2> HIDE DEF p
    <2> QED BY <2>1, <2>2 DEF Block
<1> HIDE DEF p
<1>3. ASSUME NEW x \in RemoteStamps(rs, p) PROVE x <= c
    <2>1. \/ \E id \in DOMAIN p.headers : x \in Stamps(p.headers[id])
          \/ \E id \in DOMAIN p.new : x \in Stamps(p.new[id])
        BY Zenon DEF RemoteStamps
    <2>2. \E id \in DOMAIN ns : \E f \in Field : x = ns[id].ts[f]
        BY <1>1, <1>2, <2>1, Zenon DEF Stamps
    <2> QED BY <2>2, Zenon DEF BelowClock
<1> QED BY <1>3, Zenon DEF p

(***************************************************************************)
(* A state that load_from_db can start a document from.                    *)
(***************************************************************************)
Good(s) == s.ok /\ Texted(s.blocks) /\ \E l \in Nat : LogOK(s.blocks, s.clock, l)

\* Live blocks that show a text in one store show it in one that shows the same.
LEMMA SameTexted ==
    ASSUME NEW bs, NEW ns, Same(bs, ns), Texted(ns)
    PROVE  Texted(bs)
BY Zenon DEF Same, SameBlock, Texted, Live

\* A store shows what it shows.
LEMMA SameSelf == ASSUME NEW bs PROVE Same(bs, bs)
BY Zenon DEF Same, SameBlock

\* Replaying the row of a mutation on a state that shows what the log showed
\* before it leaves one that shows the log.
LEMMA RowReplayed ==
    ASSUME NEW s, Good(s), NEW bs, NEW ns, NEW c, NEW l, LogOK(ns, c, l), StoreOK(bs), Texted(ns),
           Same(s.blocks, bs), Grew(bs, ns), Follows(bs, ns)
    PROVE  LET q == ReplayRow(s, ops_since(ns, frontier(bs)))
           IN  Good(q) /\ Same(q.blocks, ns)
<1> DEFINE p == ops_since(ns, frontier(s.blocks))
           stamps == RemoteStamps(s.blocks, p) \cup {0}
           m == CHOOSE x \in stamps : IsMax(x, stamps)
           k == MergedClock(s.clock, s.blocks, p, m)
           qs == Pull(Kernel, s.blocks, ns)
           q == ReplayRow(s, p)
<1>0. /\ Kernel \in Replica /\ s.ok /\ s.clock \in Nat /\ StoreOK(s.blocks) /\ BelowClock(s.blocks, s.clock)
      /\ StoreOK(ns) /\ BelowClock(ns, c) /\ c \in Nat /\ l \in Nat
    BY JournalAssumption, Zenon DEF Good, LogOK
<1>1. ops_since(ns, frontier(bs)) = p
    BY RowIsPull, Zenon
<1>2. PayloadOK(p)
    BY <1>0, OpsSincePayload, Zenon
<1>3. m \in stamps /\ IsMax(m, stamps)
    <2>1. RemoteStamps(s.blocks, p) \subseteq Nat
        BY <1>0, <1>2, RemoteStampsNat
    <2>2. \A x \in RemoteStamps(s.blocks, p) : x <= c
        BY <1>0, SinceStamps, Zenon
    <2> HIDE DEF p
    <2>3. stamps \subseteq Nat /\ stamps # {} /\ \A x \in stamps : x <= c
        BY <1>0, <2>1, <2>2
    <2> HIDE DEF stamps
    <2>4. \E x : IsMax(x, stamps)
        BY <1>0, <2>3, Greatest, Zenon
    <2>5. \E x \in stamps : IsMax(x, stamps)
        BY <2>4, Zenon DEF IsMax
    <2> QED BY <2>5, Zenon
<1> HIDE DEF m
<1>4. m \in Nat /\ \A x \in RemoteStamps(s.blocks, p) : x <= m
    <2>1. RemoteStamps(s.blocks, p) \subseteq Nat
        BY <1>0, <1>2, RemoteStampsNat
    <2> HIDE DEF p
    <2> QED BY SMTT(30), <1>3, <2>1 DEF IsMax
<1>5. BaseMissing(s.blocks, p) = {}
    BY NoBaseMissing, Zenon
<1>6. q = [ok |-> TRUE, blocks |-> qs, clock |-> k]
    <2>1. qs = MergedBlocks(Kernel, s.blocks, p)
        BY Zenon DEF Pull
    <2> HIDE DEF p, qs
    <2> QED BY <1>0, <1>5, <2>1, Zenon DEF ReplayRow, m
<1>7. q.ok /\ q.blocks = qs /\ q.clock = k
    <2> HIDE DEF qs, k, q
    <2> QED BY <1>6
<1>8. Same(qs, ns)
    BY <1>0, RowTaken, Zenon
<1>9. StoreOK(qs)
    BY <1>0, PullStore, Zenon
<1>10. k \in Nat /\ BelowClock(qs, k)
    <2>1. k \in Nat
        <3> HIDE DEF p
        <3> QED BY <1>0, <1>2, <1>4, MergedClockBounds, Zenon
    <2>2. BelowClock(MergedBlocks(Kernel, s.blocks, p), k)
        <3> HIDE DEF p
        <3> QED BY <1>0, <1>2, <1>4, MergedBelowClock, Zenon
    <2> QED BY <2>1, <2>2, Zenon DEF Pull
<1>11. \A id \in DOMAIN qs : id[1] = Kernel => id[2] < l
    BY <1>8, Zenon DEF Same, LogOK
<1> HIDE DEF p, qs, k, q
<1>12. LogOK(qs, k, l)
    BY <1>0, <1>9, <1>10, <1>11, Zenon DEF LogOK
<1>13. Texted(qs)
    BY <1>8, SameTexted, Zenon
<1>14. Good(q) /\ Same(q.blocks, ns)
    BY <1>0, <1>7, <1>8, <1>12, <1>13, Zenon DEF Good
<1> QED BY <1>1, <1>14, Zenon DEF q

\* A restored block shows what the block showed, unless it had no text.
LEMMA RestoredSame ==
    ASSUME NEW b \in Block, ~b.deleted => b.text # {}
    PROVE  SameBlock(RestoredBlock(Kernel, b), b)
<1>1. CASE b.deleted
    <2>1. RestoredBlock(Kernel, b).deleted
        BY <1>1, RestoredParts, JournalAssumption, SMTT(30)
    <2> QED BY <1>1, <2>1, Zenon DEF SameBlock
<1>2. CASE ~b.deleted
    <2>1. RestoredBlock(Kernel, b) = b
        BY <1>2, Zenon DEF RestoredBlock
    <2> QED BY <2>1, Zenon DEF SameBlock
<1> QED BY <1>1, <1>2, Zenon

\* The snapshot of a log in order, all of whose live blocks have a text, is a
\* state that shows the log.
LEMMA Restored ==
    ASSUME NEW snap, NEW c, NEW l, LogOK(snap.blocks, c, l), Texted(snap.blocks)
    PROVE  Good(From(snap)) /\ Same(From(snap).blocks, snap.blocks)
<1> DEFINE bs == snap.blocks
           stamps == LiveStamps(bs) \cup {0}
           m == CHOOSE x \in stamps : IsMax(x, stamps)
           qs == RestoredStore(Kernel, bs)
<1>0. Kernel \in Replica /\ c \in Nat /\ l \in Nat /\ StoreOK(bs) /\ BelowClock(bs, c) /\ Texted(bs)
    BY JournalAssumption, Zenon DEF LogOK
<1>1. From(snap) = [ok |-> TRUE, blocks |-> qs, clock |-> m]
    BY Zenon DEF From
<1>2. From(snap).ok /\ From(snap).blocks = qs /\ From(snap).clock = m
    <2> HIDE DEF qs, m
    <2> QED BY <1>1
<1>3. \A id \in DOMAIN bs : id[1] = Kernel => id[2] < l
    BY Zenon DEF LogOK
<1> HIDE DEF bs
<1>4. \A id \in Live(bs) : \A f \in Field : bs[id].ts[f] \in Nat /\ bs[id].ts[f] <= c
    BY <1>0, Zenon DEF Live, StoreOK, Block, BelowClock
<1>5. \A x \in LiveStamps(bs) : \E id \in Live(bs) : \E f \in Field : x = bs[id].ts[f]
    BY Zenon DEF LiveStamps, Stamps
<1>6. stamps \subseteq Nat /\ stamps # {} /\ \A x \in stamps : x <= c
    <2>1. \A x \in LiveStamps(bs) : x \in Nat /\ x <= c
        BY <1>4, <1>5, Zenon
    <2>2. 0 \in Nat /\ 0 <= c
        BY <1>0
    <2> QED BY <2>1, <2>2, Zenon
<1>7. m \in stamps /\ IsMax(m, stamps)
    <2> HIDE DEF stamps
    <2>1. \E x : IsMax(x, stamps)
        BY <1>0, <1>6, Greatest, Zenon
    <2>2. \E x \in stamps : IsMax(x, stamps)
        BY <2>1, Zenon DEF IsMax
    <2> QED BY <2>2, Zenon
<1> HIDE DEF m
<1>8. m \in Nat /\ \A id \in Live(bs) : \A f \in Field : bs[id].ts[f] <= m
    <2>1. m \in Nat
        BY <1>6, <1>7, Zenon
    <2>2. ASSUME NEW id \in Live(bs), NEW f \in Field PROVE bs[id].ts[f] \in stamps
        <3>1. bs[id].ts[f] \in Stamps(bs[id])
            BY Zenon DEF Stamps
        <3>2. bs[id].ts[f] \in LiveStamps(bs)
            BY <3>1, Zenon DEF LiveStamps
        <3> QED BY <3>2, Zenon
    <2> QED BY <1>7, <2>1, <2>2, Zenon DEF IsMax
<1>9. BelowClock(qs, m)
    BY <1>0, <1>8, RestoredBelowClock, Zenon
<1>10. StoreOK(qs)
    BY <1>0, RestoredEvolves
<1>11. Same(qs, bs)
    <2>1. DOMAIN qs = DOMAIN bs /\ \A id \in DOMAIN bs : qs[id] = RestoredBlock(Kernel, bs[id])
        BY Zenon DEF RestoredStore
    <2> HIDE DEF qs
    <2>2. \A id \in DOMAIN bs : bs[id] \in Block /\ (~bs[id].deleted => bs[id].text # {})
        BY <1>0, Zenon DEF StoreOK, Texted, Live
    <2> QED BY <2>1, <2>2, RestoredSame, Zenon DEF Same
<1> HIDE DEF qs
<1>12. Texted(qs)
    BY <1>0, <1>11, SameTexted, Zenon
<1>13. LogOK(qs, m, l)
    BY <1>0, <1>3, <1>8, <1>9, <1>10, <1>11, Zenon DEF LogOK, Same
<1> QED BY <1>0, <1>2, <1>11, <1>12, <1>13, Zenon DEF Good, bs

\* The lane of a loaded document is past every seq of the kernel.
LEMMA LaneIsFree ==
    ASSUME NEW bs, NEW c, NEW l, LogOK(bs, c, l)
    PROVE  LET seqs == OwnSeqs(Kernel, bs) \cup {0}
           IN  LogOK(bs, c, CHOOSE n \in seqs : IsMax(n, seqs))
<1> DEFINE seqs == OwnSeqs(Kernel, bs) \cup {0}
           n == CHOOSE x \in seqs : IsMax(x, seqs)
<1>1. \A id \in DOMAIN bs : id[2] \in Nat /\ (id[1] = Kernel => id[2] < l)
    BY Zenon DEF LogOK, StoreOK, Id
<1>2. \A x \in OwnSeqs(Kernel, bs) : \E id \in DOMAIN bs : id[1] = Kernel /\ x = id[2] + 1
    BY Zenon DEF OwnSeqs
<1>3. \A id \in DOMAIN bs : id[1] = Kernel => id[2] + 1 \in OwnSeqs(Kernel, bs)
    BY Zenon DEF OwnSeqs
<1>4. l \in Nat /\ c \in Nat /\ StoreOK(bs) /\ BelowClock(bs, c)
    BY Zenon DEF LogOK
<1>5. seqs \subseteq Nat /\ seqs # {} /\ \A x \in seqs : x <= l
    <2>1. \A x \in OwnSeqs(Kernel, bs) : x \in Nat /\ x <= l
        BY <1>1, <1>2, <1>4, SMTT(30)
    <2>2. 0 \in Nat /\ 0 <= l
        BY <1>4
    <2> QED BY <2>1, <2>2, Zenon
<1>6. n \in seqs /\ IsMax(n, seqs)
    <2> HIDE DEF seqs
    <2>1. \E x : IsMax(x, seqs)
        BY <1>4, <1>5, Greatest, Zenon
    <2>2. \E x \in seqs : IsMax(x, seqs)
        BY <2>1, Zenon DEF IsMax
    <2> QED BY <2>2, Zenon
<1> HIDE DEF n
<1>7. n \in Nat
    BY <1>5, <1>6, Zenon
<1>8. ASSUME NEW id \in DOMAIN bs, id[1] = Kernel PROVE id[2] < n
    <2>1. id[2] + 1 <= n /\ id[2] \in Nat
        BY <1>1, <1>3, <1>6, <1>8, Zenon DEF IsMax
    <2> QED BY <1>7, <2>1
<1>9. LogOK(bs, c, n)
    BY <1>4, <1>7, <1>8, Zenon DEF LogOK
<1> QED BY <1>9, Zenon DEF n

----------------------------------------------------------------------------
(***************************************************************************)
(* What is on disk: the rows after the snapshot, the number of the last    *)
(* one, and the document they bring back.                                  *)
(***************************************************************************)
RowsAfter(snap, log) == {n \in DOMAIN log : n > snap.seq} \cup {snap.seq}
LastOf(snap, log) == CHOOSE n \in RowsAfter(snap, log) : IsMax(n, RowsAfter(snap, log))
Brought(snap, log) == ReplayedFrom(snap, log)[LastOf(snap, log)]

DiskOK(snap, log) ==
    /\ snap.seq \in Nat /\ DOMAIN log \subseteq Nat
    /\ IsMax(LastOf(snap, log), RowsAfter(snap, log))

\* There is one greatest number.
LEMMA OneMax ==
    ASSUME NEW S, S \subseteq Nat, NEW m, IsMax(m, S)
    PROVE  (CHOOSE n \in S : IsMax(n, S)) = m
<1>1. \A n \in S : IsMax(n, S) => n = m
    BY DEF IsMax
<1>2. m \in S
    BY DEF IsMax
<1> QED BY <1>1, <1>2, Zenon

\* The rows are numbered, too.
LEMMA RowsNat ==
    ASSUME NEW snap, NEW log, snap.seq \in Nat, DOMAIN log \subseteq Nat
    PROVE  RowsAfter(snap, log) \subseteq Nat
BY Zenon DEF RowsAfter

\* The database holds the greatest number of its rows as last one.
LEMMA LastIs ==
    ASSUME NEW snap, NEW log, snap.seq \in Nat, DOMAIN log \subseteq Nat,
           NEW m, IsMax(m, RowsAfter(snap, log))
    PROVE  LastOf(snap, log) = m /\ DiskOK(snap, log)
<1>1. LastOf(snap, log) = m
    BY RowsNat, OneMax, Zenon DEF LastOf
<1> QED BY <1>1, Zenon DEF DiskOK

\* The replay of more up to m is that of log up to last.
SameAt(snap, log, last, more, m) == ReplayedFrom(snap, more)[m] = ReplayedFrom(snap, log)[last]

\* After number last and up to m, neither a row nor a new one makes a difference.
LEMMA ReplayPast ==
    ASSUME NEW snap, NEW log, NEW more, NEW last \in Nat, NEW m \in Nat, snap.seq \in Nat,
           snap.seq <= last, last <= m, NoRows(log, last, m), Agree(log, more, m)
    PROVE  SameAt(snap, log, last, more, m)
<1>1. ReplayedFrom(snap, more)[m] = ReplayedFrom(snap, log)[m]
    BY ReplayAgrees, SMTT(30)
<1>2. ReplayedFrom(snap, log)[m] = ReplayedFrom(snap, log)[last]
    BY ReplayRests, ZenonT(40)
<1> QED BY <1>1, <1>2, Zenon DEF SameAt

\* A row with a number past the last one is replayed after all others.
LEMMA RowAppended ==
    ASSUME NEW snap, NEW log, DiskOK(snap, log), NEW n \in Nat, LastOf(snap, log) < n, NEW p,
           NEW more, more = Put(log, n, p)
    PROVE  DiskOK(snap, more) /\ Brought(snap, more) = ReplayRow(Brought(snap, log), p)
<1> DEFINE last == LastOf(snap, log)
<1>1. /\ snap.seq \in Nat /\ DOMAIN log \subseteq Nat /\ last \in Nat /\ snap.seq <= last
      /\ \A k \in DOMAIN log : k > snap.seq => k <= last
    <2>1. snap.seq \in Nat /\ DOMAIN log \subseteq Nat /\ IsMax(last, RowsAfter(snap, log))
        BY Zenon DEF DiskOK
    <2>2. last \in Nat
        BY <2>1, RowsNat, Zenon DEF IsMax
    <2> QED BY <2>1, <2>2, Zenon DEF IsMax, RowsAfter
<1> HIDE DEF last
<1>2. last < n
    BY Zenon DEF last
<1>3. DOMAIN more = DOMAIN log \cup {n} /\ more[n] = p /\ \A k \in DOMAIN log : k # n => more[k] = log[k]
    BY Zenon DEF Put
<1>4. \A k \in DOMAIN log : k <= last
    BY <1>1
<1>5. DOMAIN more \subseteq Nat
    BY <1>1, <1>3, Zenon
<1>6. IsMax(n, RowsAfter(snap, more))
    <2>1. n > snap.seq /\ n <= n /\ snap.seq <= n /\ \A k \in DOMAIN log : k <= n
        BY <1>1, <1>2, <1>4
    <2> QED BY <1>3, <2>1, Zenon DEF IsMax, RowsAfter
<1>7. LastOf(snap, more) = n /\ DiskOK(snap, more)
    BY <1>1, <1>5, <1>6, LastIs, Zenon
<1>8. ~(n <= snap.seq) /\ n - 1 \in Nat /\ last <= n - 1
    BY <1>1, <1>2
<1>9. ReplayedFrom(snap, more)[n] = ReplayRow(ReplayedFrom(snap, more)[n - 1], p)
    <2>1. ReplayedFrom(snap, more)[n] = Step(snap, more, ReplayedFrom(snap, more)[n - 1], n)
        BY <1>1, ReplayIs, Zenon
    <2>2. n \in DOMAIN more
        BY <1>3, Zenon
    <2> QED BY <1>3, <1>8, <2>1, <2>2, Zenon DEF Step
<1>10. ReplayedFrom(snap, more)[n - 1] = ReplayedFrom(snap, log)[last]
    <2>1. \A k \in Nat : k <= n - 1 => k # n
        OBVIOUS
    <2>2. Agree(log, more, n - 1)
        BY <1>3, <2>1, Zenon DEF Agree
    <2>3. NoRows(log, last, n - 1)
        BY <1>4, Zenon DEF NoRows
    <2>4. snap.seq \in Nat /\ n - 1 \in Nat /\ last \in Nat /\ snap.seq <= last /\ last <= n - 1
        BY <1>1, <1>8, Zenon
    <2>5. SameAt(snap, log, last, more, n - 1)
        BY <2>2, <2>3, <2>4, ReplayPast, Zenon
    <2> QED BY <2>5, Zenon DEF SameAt
<1>11. Brought(snap, more) = ReplayRow(Brought(snap, log), p)
    BY <1>7, <1>9, <1>10, Zenon DEF Brought, last
<1> QED BY <1>7, <1>11, Zenon

\* With no row after the snapshot, the snapshot is what is brought back.
LEMMA RowsCut ==
    ASSUME NEW snap, NEW log, snap.seq \in Nat, DOMAIN log \subseteq Nat, \A n \in DOMAIN log : ~(n > snap.seq)
    PROVE  DiskOK(snap, log) /\ LastOf(snap, log) = snap.seq /\ Brought(snap, log) = From(snap)
<1>1. IsMax(snap.seq, RowsAfter(snap, log))
    BY DEF IsMax, RowsAfter
<1>2. LastOf(snap, log) = snap.seq /\ DiskOK(snap, log)
    BY <1>1, LastIs, Zenon
<1>3. snap.seq <= snap.seq
    OBVIOUS
<1>4. ReplayedFrom(snap, log)[snap.seq] = Step(snap, log, ReplayedFrom(snap, log)[snap.seq - 1], snap.seq)
    BY ReplayIs, ZenonT(40)
<1> QED BY <1>2, <1>3, <1>4, Zenon DEF Brought, Step

----------------------------------------------------------------------------
(***************************************************************************)
(* What one thread finds while no write has failed.  The database brings   *)
(* back a document in order; while the thread carries operations that are  *)
(* not in a row yet, replaying them after the rows gives what the log in   *)
(* memory shows, and otherwise the rows alone do.  A snapshot about to be  *)
(* written is the log, and the number the thread holds is past every row.  *)
(***************************************************************************)
DocOK(d) == LogOK(d.blocks, d.clock, d.lane) /\ Texted(d.blocks)

\* Nothing that a store shows is gone or older in another.
Onward(bs, ns) ==
    /\ DOMAIN bs \subseteq DOMAIN ns
    /\ \A id \in DOMAIN bs :
        \/ ns[id].deleted
        \/ /\ ~bs[id].deleted
           /\ bs[id].text \subseteq ns[id].text
           /\ \A f \in Field : bs[id].ts[f] <= ns[id].ts[f]

InStep(back, last, d, n, k) ==
    /\ k.pc \in Carrying => /\ Good(ReplayRow(back, k.ops))
                            /\ Same(ReplayRow(back, k.ops).blocks, d.blocks)
                            /\ Onward(back.blocks, ReplayRow(back, k.ops).blocks)
    /\ k.pc \notin Carrying => Same(back.blocks, d.blocks)
    /\ k.pc = "write" => k.snap.seq = n /\ k.snap.blocks = d.blocks
    /\ HasNumber(k) => k.seq = n /\ last < n

Restorable(snap, log) == DiskOK(snap, log) /\ Good(Brought(snap, log))

CallsInStep(snap, log, d, n, tk) ==
    \A t \in Thread : InStep(Brought(snap, log), LastOf(snap, log), d, n, tk[t])

DurableInv ==
    /\ edits \in Nat /\ fails \in Nat
    /\ fails = 0 =>
        /\ Restorable(snapshot, oplog)
        /\ doc # Absent => DocOK(doc) /\ CallsInStep(snapshot, oplog, doc, nextSeq, task)

\* What load_from_db computes from the tables.
LEMMA RecoveredIs == Recovered = Brought(snapshot, oplog) /\ LastRow = LastOf(snapshot, oplog)
BY Zenon DEF Recovered, Replayed, LastRow, Rows, Brought, LastOf, RowsAfter

\* A step that writes nothing to the database.
LEMMA StepDurable ==
    ASSUME JournalInv, DurableInv, NEW t, Thread = {t}, NEW next, task' = [task EXCEPT ![t] = next],
           disk' = disk, fails' = fails, edits' \in Nat,
           fails = 0 => /\ DocOK(doc')
                        /\ InStep(Brought(snapshot, oplog), LastOf(snapshot, oplog), doc', nextSeq', next)
    PROVE  DurableInv'
<1>1. oplog' = oplog /\ snapshot' = snapshot
    BY DEF disk
<1>2. task'[t] = next
    BY DEF JournalInv
<1>3. fails \in Nat /\ (fails = 0 => Restorable(snapshot, oplog))
    BY Zenon DEF DurableInv
<1>4. fails = 0 => CallsInStep(snapshot, oplog, doc', nextSeq', task')
    BY <1>2, Zenon DEF CallsInStep
<1> QED BY <1>1, <1>3, <1>4, Zenon DEF DurableInv

\* The last row is not past the number last given out.
LEMMA LastGiven ==
    ASSUME JournalInv, doc # Absent, DiskOK(snapshot, oplog)
    PROVE  /\ LastOf(snapshot, oplog) \in Nat /\ LastOf(snapshot, oplog) < nextSeq + 1
           /\ nextSeq \in Nat /\ snapshot.seq \in Nat /\ \A n \in DOMAIN oplog : n \in Nat /\ n <= nextSeq
<1>1. /\ nextSeq \in Nat /\ snapshot.seq \in Nat /\ snapshot.seq <= nextSeq
      /\ \A n \in DOMAIN oplog : n \in Nat /\ n <= nextSeq
    BY Zenon DEF JournalInv
<1>2. LastOf(snapshot, oplog) \in RowsAfter(snapshot, oplog)
    BY Zenon DEF DiskOK, IsMax
<1>3. LastOf(snapshot, oplog) \in Nat /\ LastOf(snapshot, oplog) <= nextSeq
    BY <1>1, <1>2, Zenon DEF RowsAfter
<1>4. \A x, y \in Nat : x <= y => x < y + 1
    OBVIOUS
<1> QED BY <1>1, <1>3, <1>4, Zenon

\* live_status is asked between two calls.
LEMMA AskedIdle == ASSUME NEW t, live_status(t) PROVE task[t].pc = "idle"
<1>1. task[t] = Idle
    BY Zenon DEF live_status
<1> QED BY <1>1 DEF Idle

\* The steps of a call that write nothing.
LEMMA PassingDurable ==
    ASSUME JournalInv, DurableInv, NEW t, Thread = {t},
           \/ ReadStatuses(t) \/ recompute_live_status(t) \/ TakeSeq(t) \/ CountOp(t)
           \/ CompactRead(t) \/ ResetCount(t) \/ live_status(t) \/ FillCache(t)
    PROVE  DurableInv'
<1>1. fails' = fails /\ edits' = edits /\ doc' = doc /\ disk' = disk
    BY Zenon DEF ReadStatuses, recompute_live_status, TakeSeq, CountOp, CompactRead,
           ResetCount, live_status, FillCache, mem
<1>2. t \in Thread /\ edits' \in Nat
    BY <1>1, Zenon DEF DurableInv
<1>3. doc # Absent
    BY <1>2, BusyLoaded, Zenon DEF ReadStatuses, recompute_live_status, TakeSeq, CountOp, CompactRead,
           ResetCount, live_status, FillCache, At
<1> DEFINE back == Brought(snapshot, oplog)
           last == LastOf(snapshot, oplog)
<1>4. fails = 0 => DocOK(doc) /\ InStep(back, last, doc, nextSeq, task[t]) /\ DiskOK(snapshot, oplog)
    BY <1>2, <1>3, Zenon DEF DurableInv, CallsInStep, Restorable
<1>5. fails = 0 => last < nextSeq + 1
    BY <1>3, <1>4, LastGiven, Zenon
<1>6. ASSUME NEW next, task' = [task EXCEPT ![t] = next],
             next.pc \in Carrying <=> task[t].pc \in Carrying,
             next.pc \in Carrying => next.ops = task[t].ops,
             HasNumber(next) => \/ HasNumber(task[t]) /\ next.seq = task[t].seq /\ nextSeq' = nextSeq
                                \/ next.seq = nextSeq + 1 /\ nextSeq' = nextSeq + 1,
             next.pc = "write" => next.snap.seq = nextSeq' /\ next.snap.blocks = doc.blocks
      PROVE  DurableInv'
    <2> HIDE DEF back, last
    <2>1. fails = 0 => InStep(back, last, doc, nextSeq', next)
        BY <1>4, <1>5, <1>6, Zenon DEF InStep
    <2> QED BY <1>1, <1>2, <1>4, <1>6, <2>1, StepDurable, Zenon DEF back, last
<1> HIDE DEF back, last
<1> USE DEF At, Idle, HasNumber, Carrying, Goto, mem
<1>7. CASE ReadStatuses(t)
    BY <1>6, <1>7, ZenonT(40) DEF ReadStatuses
<1>8. CASE recompute_live_status(t)
    BY <1>6, <1>8, ZenonT(40) DEF recompute_live_status
<1>9. CASE TakeSeq(t)
    BY <1>6, <1>9, ZenonT(40) DEF TakeSeq
<1>10. CASE CountOp(t)
    BY <1>6, <1>10, ZenonT(40) DEF CountOp
<1>11. CASE CompactRead(t)
    BY <1>6, <1>11, ZenonT(40) DEF CompactRead
<1>12. CASE ResetCount(t) \/ FillCache(t)
    BY <1>6, <1>12, ZenonT(40) DEF ResetCount, FillCache
<1>13. CASE live_status(t)
    <2>1. task[t].pc = "idle"
        BY <1>13, AskedIdle, Zenon
    <2> QED BY <1>6, <1>13, <2>1, ZenonT(40) DEF live_status
<1> QED BY <1>7, <1>8, <1>9, <1>10, <1>11, <1>12, <1>13, Zenon

\* A log that grew, seen through two stores that show it before and after.
LEMMA GrewOnward ==
    ASSUME NEW rs, NEW bs, NEW ns, NEW qs, Same(rs, bs), Grew(bs, ns), Same(qs, ns)
    PROVE  Onward(rs, qs)
<1>1. DOMAIN rs = DOMAIN bs /\ DOMAIN bs \subseteq DOMAIN ns /\ DOMAIN qs = DOMAIN ns
    BY Zenon DEF Same, Grew
<1>2. ASSUME NEW id \in DOMAIN rs, ~qs[id].deleted
      PROVE  /\ ~rs[id].deleted /\ rs[id].text \subseteq qs[id].text
             /\ \A f \in Field : rs[id].ts[f] <= qs[id].ts[f]
    <2>1. id \in DOMAIN bs /\ id \in DOMAIN ns /\ id \in DOMAIN qs
        BY <1>1, <1>2, Zenon
    <2>2. ~ns[id].deleted /\ qs[id].text = ns[id].text /\ qs[id].ts = ns[id].ts
        BY <1>2, <2>1, Zenon DEF Same, SameBlock
    <2>3. /\ ~bs[id].deleted /\ bs[id].text \subseteq ns[id].text
          /\ \A f \in Field : bs[id].ts[f] <= ns[id].ts[f]
        BY <2>1, <2>2, Zenon DEF Grew
    <2>4. ~rs[id].deleted /\ rs[id].text = bs[id].text /\ rs[id].ts = bs[id].ts
        BY <1>2, <2>3, Zenon DEF Same, SameBlock
    <2> QED BY <2>2, <2>3, <2>4, Zenon
<1> QED BY <1>1, <1>2, Zenon DEF Onward

\* A mutation: the thread now carries what was done since the rows.
LEMMA MutatorDurable ==
    ASSUME JournalInv, DurableInv, NEW t, Thread = {t}, Mutator(t)
    PROVE  DurableInv'
<1>1. fails' = fails /\ disk' = disk /\ doc # Absent
    <2>1. \A bs, c, l : Mutated(t, bs, c, l) => fails' = fails /\ disk' = disk
        BY DEF Mutated
    <2>2. \A id, f : set_field_refused(t, id, f) => fails' = fails /\ disk' = disk
        BY DEF set_field_refused
    <2> QED BY <2>1, <2>2, MutatorCases, Zenon
<1>2. t \in Thread /\ fails \in Nat /\ edits \in Nat
    BY Zenon DEF DurableInv
<1>3. edits' \in Nat
    <2>1. edits' = edits \/ edits' = edits + 1
        BY Zenon DEF Mutator, insert_block_as, merge_ops, set_field, set_field_refused, edit_text,
               move_block, set_aside, delete_block
    <2> QED BY <1>2, <2>1
<1>4. CASE fails # 0
    BY <1>1, <1>2, <1>3, <1>4, Zenon DEF DurableInv
<1>5. CASE fails = 0
    <2> DEFINE back == Brought(snapshot, oplog)
               last == LastOf(snapshot, oplog)
    <2>1. /\ DocOK(doc) /\ InStep(back, last, doc, nextSeq, task[t]) /\ Good(back)
          /\ Restorable(snapshot, oplog)
        BY <1>1, <1>2, <1>5, Zenon DEF DurableInv, CallsInStep, Restorable
    <2> HIDE DEF back, last
    <2>2. task[t] = Idle
        BY Zenon DEF Mutator, insert_block_as, merge_ops, set_field, set_field_refused, edit_text,
               move_block, set_aside, delete_block, MayMutate
    <2>3. Same(back.blocks, doc.blocks)
        <3>1. task[t].pc = "idle"
            BY <2>2 DEF Idle
        <3>2. task[t].pc \notin Carrying
            BY <3>1, Zenon DEF Carrying
        <3> QED BY <2>1, <3>2, Zenon DEF InStep
    <2>4. Advances(t)
        BY <1>2, <2>1, MutatorGrows, Zenon DEF DocOK
    <2>5. ASSUME NEW bs, NEW c, NEW l, Mutated(t, bs, c, l), LogOK(bs, c, l),
                 Grew(doc.blocks, bs), Follows(doc.blocks, bs)
          PROVE  DurableInv'
        <3>1. PICK ops : ops = ops_since(bs, frontier(doc.blocks))
            OBVIOUS
        <3>2. PICK next : next = [pc |-> "mutated", ops |-> ops]
            BY ZenonT(40)
        <3>3. task' = [task EXCEPT ![t] = next] /\ doc'.blocks = bs /\ doc'.clock = c /\ doc'.lane = l
            BY <2>5, <3>1, <3>2, Zenon DEF Mutated
        <3>4. next.pc = "mutated" /\ next.ops = ops /\ ~HasNumber(next)
            BY <3>2 DEF HasNumber
        <3>5. Texted(bs)
            <4>1. ASSUME NEW id \in Live(bs), id \in DOMAIN doc.blocks
                  PROVE  bs[id].text # {}
                <5>1. id \in Live(doc.blocks) /\ doc.blocks[id].text \subseteq bs[id].text
                    BY <2>5, <4>1, Zenon DEF Grew, Live
                <5>2. doc.blocks[id].text # {}
                    BY <2>1, <5>1, Zenon DEF DocOK, Texted
                <5> QED BY <5>1, <5>2, Zenon
            <4>2. ASSUME NEW id \in Live(bs), id \notin DOMAIN doc.blocks
                  PROVE  bs[id].text # {}
                BY <2>5, <4>2, Zenon DEF Follows, Live
            <4> QED BY <4>1, <4>2, Zenon DEF Texted
        <3>6. DocOK(doc')
            BY <2>5, <3>3, <3>5, Zenon DEF DocOK
        <3>7. StoreOK(doc.blocks)
            BY <2>1, Zenon DEF DocOK, LogOK
        <3>8. Good(ReplayRow(back, ops)) /\ Same(ReplayRow(back, ops).blocks, bs)
            BY <2>1, <2>3, <2>5, <3>1, <3>5, <3>7, RowReplayed, Zenon
        <3>9. InStep(back, last, doc', nextSeq', next)
            <4>1. next.pc \in Carrying /\ next.pc # "write"
                BY <3>4, Zenon DEF Carrying
            <4>2. Onward(back.blocks, ReplayRow(back, ops).blocks)
                BY <2>3, <2>5, <3>8, GrewOnward, Zenon
            <4> QED BY <3>3, <3>4, <3>8, <4>1, <4>2, Zenon DEF InStep
        <3> QED BY <1>1, <1>3, <3>3, <3>6, <3>9, StepDurable, Zenon DEF back, last
    <2>6. ASSUME NEW id, NEW f, set_field_refused(t, id, f)
          PROVE  DurableInv'
        <3>1. /\ task' = task /\ nextSeq' = nextSeq
              /\ doc'.blocks = doc.blocks /\ doc'.clock = doc.clock + 1 /\ doc'.lane = doc.lane
            BY <2>6, Zenon DEF set_field_refused
        <3>2. LogOK(doc.blocks, doc.clock, doc.lane) /\ Texted(doc.blocks) /\ doc.clock \in Nat
            BY <2>1, Zenon DEF DocOK, LogOK
        <3>3. \A i \in DOMAIN doc.blocks : \A g \in Field :
                    doc.blocks[i].ts[g] \in Nat /\ doc.blocks[i].ts[g] <= doc.clock
            BY <3>2, Zenon DEF LogOK, StoreOK, Block, BelowClock
        <3>4. BelowClock(doc.blocks, doc.clock + 1) /\ doc.clock + 1 \in Nat
            BY <3>2, <3>3, OneMore, StillBelow, Zenon DEF BelowClock
        <3>5. DocOK(doc')
            BY <3>1, <3>2, <3>4, Zenon DEF DocOK, LogOK
        <3>6. InStep(back, last, doc', nextSeq', task[t])
            BY <2>1, <3>1, Zenon DEF InStep
        <3>7. CallsInStep(snapshot, oplog, doc', nextSeq', task')
            BY <3>1, <3>6, Zenon DEF CallsInStep, back, last
        <3>8. oplog' = oplog /\ snapshot' = snapshot
            BY <1>1, Zenon DEF disk
        <3> QED BY <1>1, <1>2, <1>3, <2>1, <3>5, <3>7, <3>8, Zenon DEF DurableInv
    <2> QED BY <2>4, <2>5, <2>6, Zenon DEF Advances
<1> QED BY <1>4, <1>5, Zenon

\* The row that is written brings the database up to the log.
LEMMA AppendDurable ==
    ASSUME JournalInv, DurableInv, NEW t, Thread = {t}, append_op(t)
    PROVE  /\ DurableInv'
           /\ fails = 0 => Onward(Brought(snapshot, oplog).blocks, Brought(snapshot', oplog').blocks)
<1>1. /\ oplog' = Put(oplog, task[t].seq, task[t].ops) /\ snapshot' = snapshot
      /\ doc' = doc /\ nextSeq' = nextSeq /\ fails' = fails /\ edits' = edits
    BY Zenon DEF append_op, mem
<1>2. PICK next \in {[pc |-> "compact"], Idle} : task' = [task EXCEPT ![t] = next]
    BY Zenon DEF append_op, Goto
<1>3. next.pc \in {"compact", "idle"}
    BY <1>2, SMTT(30) DEF Idle
<1>4. task'[t] = next
    BY <1>2, Zenon DEF JournalInv
<1>5. task[t].pc = "append" /\ t \in Thread
    BY Zenon DEF append_op, At
<1>6. doc # Absent
    <2>1. task[t].pc # "idle"
        BY <1>5
    <2> QED BY <1>5, <2>1, BusyLoaded, Zenon
<1>7. CASE fails # 0
    BY <1>1, <1>7, Zenon DEF DurableInv
<1>8. CASE fails = 0
    <2> DEFINE back == Brought(snapshot, oplog)
               last == LastOf(snapshot, oplog)
               ops == task[t].ops
    <2>1. /\ DocOK(doc) /\ InStep(back, last, doc, nextSeq, task[t]) /\ DiskOK(snapshot, oplog)
          /\ nextSeq \in Nat
        BY <1>5, <1>6, <1>8, Zenon DEF DurableInv, CallsInStep, Restorable, JournalInv
    <2>2. task[t].pc \in Carrying /\ HasNumber(task[t])
        BY <1>5, Zenon DEF Carrying, HasNumber
    <2>3. /\ Good(ReplayRow(back, ops)) /\ Same(ReplayRow(back, ops).blocks, doc.blocks)
          /\ task[t].seq = nextSeq /\ last < nextSeq
          /\ Onward(back.blocks, ReplayRow(back, ops).blocks)
        BY <2>1, <2>2, Zenon DEF InStep
    <2>4. oplog' = Put(oplog, nextSeq, ops)
        BY <1>1, <2>3, Zenon
    <2>5. DiskOK(snapshot, oplog') /\ Brought(snapshot, oplog') = ReplayRow(back, ops)
        <3>1. PICK log, more, n : log = oplog /\ more = oplog' /\ n = nextSeq
            BY Zenon
        <3>2. DiskOK(snapshot, log) /\ n \in Nat /\ LastOf(snapshot, log) < n /\ more = Put(log, n, ops)
            BY <2>1, <2>3, <2>4, <3>1, Zenon
        <3> HIDE DEF ops
        <3>3. DiskOK(snapshot, more) /\ Brought(snapshot, more) = ReplayRow(Brought(snapshot, log), ops)
            BY <3>2, RowAppended, SMTT(30)
        <3> QED BY <3>1, <3>3, Zenon
    <2> HIDE DEF back, last, ops
    <2>6. Restorable(snapshot, oplog')
        BY <2>3, <2>5, Zenon DEF Restorable
    <2>7. next.pc \notin Carrying /\ next.pc # "write" /\ ~HasNumber(next)
        BY <1>3, Zenon DEF Carrying, HasNumber
    <2>8. InStep(Brought(snapshot, oplog'), LastOf(snapshot, oplog'), doc, nextSeq, next)
        BY <2>3, <2>5, <2>7, Zenon DEF InStep
    <2>9. CallsInStep(snapshot, oplog', doc, nextSeq, task')
        BY <1>4, <2>8, Zenon DEF CallsInStep
    <2>10. DurableInv'
        BY <1>1, <1>8, <2>1, <2>6, <2>9, Zenon DEF DurableInv
    <2>11. Onward(back.blocks, Brought(snapshot', oplog').blocks)
        BY <1>1, <2>3, <2>5, Zenon
    <2> QED BY <2>10, <2>11, Zenon DEF back
<1> QED BY <1>7, <1>8, Zenon

\* A failed write ends what is promised.
LEMMA FailedDurable ==
    ASSUME DurableInv, NEW t, AppendFails(t) \/ CompactFails(t)
    PROVE  DurableInv' /\ fails' # 0
<1>1. fails' = fails + 1 /\ edits' = edits
    BY Zenon DEF AppendFails, CompactFails
<1>2. fails \in Nat /\ edits \in Nat
    BY Zenon DEF DurableInv
<1>3. fails' \in Nat /\ fails' # 0
    BY <1>1, <1>2
<1> QED BY <1>1, <1>2, <1>3, Zenon DEF DurableInv

\* The snapshot that replaces the rows is the log.
LEMMA CompactDurable ==
    ASSUME JournalInv, DurableInv, NEW t, Thread = {t}, write_snapshot_and_truncate(t)
    PROVE  /\ DurableInv'
           /\ fails = 0 => Onward(Brought(snapshot, oplog).blocks, Brought(snapshot', oplog').blocks)
<1>1. /\ snapshot' = task[t].snap /\ DOMAIN oplog' = {k \in DOMAIN oplog : k > task[t].snap.seq}
      /\ doc' = doc /\ nextSeq' = nextSeq /\ fails' = fails /\ edits' = edits
    BY Zenon DEF write_snapshot_and_truncate, mem
<1>2. PICK next : next = [pc |-> "reset"]
    BY ZenonT(40)
<1>3. task'[t] = next /\ next.pc = "reset"
    BY <1>2, Zenon DEF JournalInv, write_snapshot_and_truncate, Goto
<1>4. task[t].pc = "write" /\ t \in Thread
    BY Zenon DEF write_snapshot_and_truncate, At
<1>5. doc # Absent
    <2>1. task[t].pc # "idle"
        BY <1>4
    <2> QED BY <1>4, <2>1, BusyLoaded, Zenon
<1>6. CASE fails # 0
    BY <1>1, <1>6, Zenon DEF DurableInv
<1>7. CASE fails = 0
    <2> DEFINE back == Brought(snapshot, oplog)
               last == LastOf(snapshot, oplog)
               new == Brought(snapshot', oplog')
    <2>1. DocOK(doc) /\ InStep(back, last, doc, nextSeq, task[t]) /\ DiskOK(snapshot, oplog)
        BY <1>4, <1>5, <1>7, Zenon DEF DurableInv, CallsInStep, Restorable
    <2>2. task[t].pc \notin Carrying
        BY <1>4, Zenon DEF Carrying
    <2>3. Same(back.blocks, doc.blocks) /\ snapshot'.seq = nextSeq /\ snapshot'.blocks = doc.blocks
        BY <1>1, <1>4, <2>1, <2>2, Zenon DEF InStep
    <2>4. nextSeq \in Nat /\ \A n \in DOMAIN oplog : n \in Nat /\ n <= nextSeq
        BY <1>5, <2>1, LastGiven, Zenon
    <2>5. /\ snapshot'.seq \in Nat /\ DOMAIN oplog' \subseteq Nat
          /\ \A n \in DOMAIN oplog' : ~(n > snapshot'.seq)
        <3>1. \A n \in DOMAIN oplog' : n \in DOMAIN oplog
            BY <1>1, Zenon
        <3>2. \A n \in Nat : n <= nextSeq => ~(n > nextSeq)
            BY <2>4
        <3> QED BY <2>3, <2>4, <3>1, <3>2, Zenon
    <2>6. DiskOK(snapshot', oplog') /\ new = From(snapshot')
        BY <2>5, RowsCut, Zenon
    <2>7. Good(From(snapshot')) /\ Same(From(snapshot').blocks, snapshot'.blocks)
        BY <2>1, <2>3, Restored, Zenon DEF DocOK
    <2> HIDE DEF back, last, new
    <2>8. Good(new) /\ Same(new.blocks, doc.blocks)
        BY <2>3, <2>6, <2>7, Zenon
    <2>9. next.pc \notin Carrying /\ next.pc # "write" /\ ~HasNumber(next)
        BY <1>3, Zenon DEF Carrying, HasNumber
    <2>10. InStep(new, LastOf(snapshot', oplog'), doc, nextSeq, next)
        BY <2>8, <2>9, Zenon DEF InStep
    <2>11. CallsInStep(snapshot', oplog', doc, nextSeq, task') /\ Restorable(snapshot', oplog')
        BY <1>3, <2>6, <2>8, <2>10, Zenon DEF CallsInStep, Restorable, new
    <2>12. DurableInv'
        BY <1>1, <1>7, <2>1, <2>11, Zenon DEF DurableInv
    <2>13. Onward(back.blocks, new.blocks)
        <3>1. Grew(doc.blocks, doc.blocks)
            BY <2>1, GrewSelf, Zenon DEF DocOK, LogOK
        <3> QED BY <2>3, <2>8, <3>1, GrewOnward, Zenon
    <2> QED BY <2>12, <2>13, Zenon DEF new, back
<1> QED BY <1>6, <1>7, Zenon

\* A kill leaves the tables alone.
LEMMA CrashDurable == ASSUME DurableInv, Crash PROVE DurableInv'
<1>1. doc' = Absent /\ oplog' = oplog /\ snapshot' = snapshot /\ edits' = edits /\ fails' = fails
    BY Zenon DEF Crash, disk
<1> QED BY <1>1, Zenon DEF DurableInv

\* load_from_db starts with what the tables bring back.
LEMMA LoadDurable ==
    ASSUME JournalInv, DurableInv, load_from_db
    PROVE  DurableInv'
<1> DEFINE back == Brought(snapshot, oplog)
           seqs == OwnSeqs(Kernel, back.blocks) \cup {0}
           lane == CHOOSE n \in seqs : IsMax(n, seqs)
<1>1. /\ oplog' = oplog /\ snapshot' = snapshot /\ edits' = edits /\ fails' = fails /\ task' = task
      /\ doc = Absent
    BY Zenon DEF load_from_db, disk
<1>2. doc' = [blocks |-> back.blocks, clock |-> back.clock, lane |-> lane]
    BY RecoveredIs, Zenon DEF load_from_db
<1> HIDE DEF lane, back
<1>3. doc'.blocks = back.blocks /\ doc'.clock = back.clock /\ doc'.lane = lane
    BY <1>2, Zenon
<1>4. CASE fails # 0
    BY <1>1, <1>4, Zenon DEF DurableInv
<1>5. CASE fails = 0
    <2>1. Restorable(snapshot, oplog) /\ Good(back)
        BY <1>5, Zenon DEF DurableInv, Restorable, back
    <2>2. PICK l \in Nat : LogOK(back.blocks, back.clock, l)
        BY <2>1, Zenon DEF Good
    <2>3. LogOK(back.blocks, back.clock, lane)
        BY <2>2, LaneIsFree, Zenon DEF lane
    <2>4. DocOK(doc')
        BY <1>3, <2>1, <2>3, Zenon DEF DocOK, Good
    <2>5. ASSUME NEW t \in Thread
          PROVE  InStep(back, LastOf(snapshot, oplog), doc', nextSeq', task[t])
        <3>1. task[t] = Idle
            BY <1>1, Zenon DEF JournalInv, Quiet
        <3>2. task[t].pc = "idle"
            BY <3>1 DEF Idle
        <3>3. task[t].pc \notin Carrying /\ task[t].pc # "write" /\ ~HasNumber(task[t])
            BY <3>2, Zenon DEF Carrying, HasNumber
        <3>4. Same(back.blocks, doc'.blocks)
            BY <1>3, SameSelf, Zenon
        <3> QED BY <3>3, <3>4, Zenon DEF InStep
    <2>6. CallsInStep(snapshot, oplog, doc', nextSeq', task)
        BY <2>5, Zenon DEF CallsInStep, back
    <2> QED BY <1>1, <2>1, <2>4, <2>6, Zenon DEF DurableInv
<1> QED BY <1>4, <1>5, Zenon

\* A new document, or a fork with an initial snapshot.
LEMMA InitDurable == ASSUME ForkStamp \subseteq {0}, Init PROVE DurableInv
<1>1. /\ edits = 0 /\ fails = 0 /\ crashes = 0 /\ oplog = << >>
      /\ snapshot = [seq |-> 0, blocks |-> doc.blocks]
    BY Zenon DEF Init
<1>2. LogOK(doc.blocks, doc.clock, doc.lane)
    BY <1>1, InitCover, Zenon DEF CoverInv
<1>3. Texted(doc.blocks)
    <2>1. CASE doc = EmptyDocument
        <3>1. DOMAIN doc.blocks = {}
            BY <2>1 DEF EmptyDocument
        <3> QED BY <3>1, Zenon DEF Texted, Live
    <2>2. ASSUME NEW ts \in ForkStamp,
                 doc = fork([id \in {<<Kernel, 0>>} |-> NewBlock(PlainText, 0, 0, ts, Kernel)])
          PROVE  Texted(doc.blocks)
        <3>1. PICK b : b = NewBlock(PlainText, 0, 0, ts, Kernel)
            OBVIOUS
        <3>2. b.text # {}
            BY <3>1 DEF NewBlock
        <3>3. doc.blocks = [id \in {<<Kernel, 0>>} |-> b]
            BY <2>2, <3>1, Zenon DEF fork
        <3>4. \A id \in DOMAIN doc.blocks : doc.blocks[id] = b
            BY <3>3, Zenon
        <3> QED BY <3>2, <3>4, Zenon DEF Texted, Live
    <2> QED BY <2>1, <2>2, Zenon DEF Init
<1>4. snapshot.seq = 0 /\ snapshot.blocks = doc.blocks
    BY <1>1, Zenon
<1>5. DOMAIN oplog = {}
    BY <1>1
<1>6. snapshot.seq \in Nat /\ DOMAIN oplog \subseteq Nat /\ \A n \in DOMAIN oplog : ~(n > snapshot.seq)
    <2>1. 0 \in Nat
        OBVIOUS
    <2> QED BY <1>4, <1>5, <2>1, Zenon
<1>7. DiskOK(snapshot, oplog) /\ Brought(snapshot, oplog) = From(snapshot)
    BY <1>6, RowsCut, Zenon
<1>8. Good(From(snapshot)) /\ Same(From(snapshot).blocks, doc.blocks)
    BY <1>2, <1>3, <1>4, Restored, Zenon
<1>9. ASSUME NEW t \in Thread
      PROVE  InStep(Brought(snapshot, oplog), LastOf(snapshot, oplog), doc, nextSeq, task[t])
    <2>1. task[t] = Idle
        BY Zenon DEF Init
    <2>2. task[t].pc = "idle"
        BY <2>1 DEF Idle
    <2>3. task[t].pc \notin Carrying /\ task[t].pc # "write" /\ ~HasNumber(task[t])
        BY <2>2, Zenon DEF Carrying, HasNumber
    <2> QED BY <1>7, <1>8, <2>3, Zenon DEF InStep
<1>10. Restorable(snapshot, oplog) /\ CallsInStep(snapshot, oplog, doc, nextSeq, task) /\ DocOK(doc)
    BY <1>2, <1>3, <1>7, <1>8, <1>9, Zenon DEF Restorable, CallsInStep, DocOK
<1>11. edits \in Nat /\ fails \in Nat
    BY <1>1
<1> QED BY <1>10, <1>11, Zenon DEF DurableInv

\* The invariant is inductive for one thread.
LEMMA NextDurable ==
    ASSUME JournalInv, DurableInv, NEW thr, Thread = {thr}, [Next]_vars
    PROVE  DurableInv'
<1>1. CASE UNCHANGED vars
    <2>1. /\ doc' = doc /\ nextSeq' = nextSeq /\ oplog' = oplog /\ snapshot' = snapshot /\ task' = task
          /\ edits' = edits /\ fails' = fails
        BY <1>1, Zenon DEF vars, mem, disk
    <2> QED BY <2>1, Zenon DEF DurableInv
<1>2. ASSUME NEW t \in Thread, Mutator(t)
      PROVE  DurableInv'
    BY <1>2, MutatorDurable, Zenon
<1>3. ASSUME NEW t \in Thread,
             \/ ReadStatuses(t) \/ recompute_live_status(t) \/ TakeSeq(t) \/ CountOp(t)
             \/ CompactRead(t) \/ ResetCount(t) \/ live_status(t) \/ FillCache(t)
      PROVE  DurableInv'
    BY <1>3, PassingDurable, Zenon
<1>4. ASSUME NEW t \in Thread, append_op(t)
      PROVE  DurableInv'
    BY <1>4, AppendDurable, Zenon
<1>5. ASSUME NEW t \in Thread, AppendFails(t) \/ CompactFails(t)
      PROVE  DurableInv'
    BY <1>5, FailedDurable, Zenon
<1>6. ASSUME NEW t \in Thread, write_snapshot_and_truncate(t)
      PROVE  DurableInv'
    BY <1>6, CompactDurable, Zenon
<1>7. CASE Crash
    BY <1>7, CrashDurable, Zenon
<1>8. CASE load_from_db
    BY <1>8, LoadDurable, Zenon
<1> QED BY <1>1, <1>2, <1>3, <1>4, <1>5, <1>6, <1>7, <1>8, Zenon DEF Next

(***************************************************************************)
(* What was committed survives in the tables alone: for a document that    *)
(* one thread works on and any number of kills, when no call is under way  *)
(* and no write has failed, load_from_db would bring back every block,     *)
(* text and header field, and no deleted block.  With two threads the rows *)
(* may be numbered in another order than the mutations they were computed  *)
(* from, and a fork whose blocks are past its clock may be overwritten     *)
(* with older stamps that the replay then drops: both assumptions are      *)
(* needed.                                                                 *)
(***************************************************************************)
THEOREM JournalDurable ==
    ASSUME ForkStamp \subseteq {0}, NEW thr, Thread = {thr}
    PROVE  Spec => []Durable
<1>1. Init => JournalInv /\ DurableInv
    BY InitJournal, InitDurable, Zenon
<1>2. JournalInv /\ DurableInv /\ [Next]_vars => JournalInv' /\ DurableInv'
    BY NextKeeps, NextDurable, Zenon
<1>3. JournalInv /\ DurableInv => Durable
    <2>1. SUFFICES ASSUME DurableInv, doc # Absent, Quiet, fails = 0
                   PROVE  /\ Recovered.ok /\ DOMAIN Recovered.blocks = DOMAIN doc.blocks
                          /\ Shown(Recovered.blocks) = Shown(doc.blocks)
        BY Zenon DEF Durable
    <2> DEFINE back == Brought(snapshot, oplog)
               last == LastOf(snapshot, oplog)
    <2>2. Good(back) /\ InStep(back, last, doc, nextSeq, task[thr])
        BY <2>1, Zenon DEF DurableInv, Restorable, CallsInStep
    <2>3. Recovered = back
        BY RecoveredIs, Zenon
    <2> HIDE DEF back, last
    <2>4. task[thr].pc \notin Carrying
        <3>1. task[thr] = Idle
            BY <2>1, Zenon DEF Quiet
        <3>2. task[thr].pc = "idle"
            BY <3>1 DEF Idle
        <3> QED BY <3>2, Zenon DEF Carrying
    <2>5. Same(back.blocks, doc.blocks)
        BY <2>2, <2>4, Zenon DEF InStep
    <2>6. Live(back.blocks) = Live(doc.blocks)
        BY <2>5, Zenon DEF Same, SameBlock, Live
    <2>7. ASSUME NEW id \in Live(doc.blocks)
          PROVE  /\ back.blocks[id].birth = doc.blocks[id].birth /\ back.blocks[id].val = doc.blocks[id].val
                 /\ back.blocks[id].ts = doc.blocks[id].ts /\ back.blocks[id].text = doc.blocks[id].text
        BY <2>5, <2>6, Zenon DEF Same, SameBlock, Live
    <2>8. Shown(back.blocks) = Shown(doc.blocks)
        BY <2>6, <2>7, Zenon DEF Shown
    <2> QED BY <2>2, <2>3, <2>5, <2>8, Zenon DEF Good, Same
<1> QED BY <1>1, <1>2, <1>3, PTL DEF Spec

(***************************************************************************)
(* No append, compaction or restart makes a block, a tombstone, an edit or *)
(* the newest write of a field unrecoverable (append_op,                   *)
(* write_snapshot_and_truncate), under the same assumptions.               *)
(***************************************************************************)
THEOREM RecoveryOnlyGrows ==
    ASSUME ForkStamp \subseteq {0}, NEW thr, Thread = {thr}
    PROVE  Spec => RecoveredOnlyGrows
<1> DEFINE Grows == LET old == Recovered
                        new == Recovered'
                    IN  fails' = 0 =>
                         /\ old.ok => new.ok
                         /\ DOMAIN old.blocks \subseteq DOMAIN new.blocks
                         /\ \A id \in DOMAIN old.blocks :
                             \/ new.blocks[id].deleted
                             \/ /\ ~old.blocks[id].deleted
                                /\ old.blocks[id].text \subseteq new.blocks[id].text
                                /\ \A f \in Field : old.blocks[id].ts[f] <= new.blocks[id].ts[f]
<1>1. Init => JournalInv /\ DurableInv
    BY InitJournal, InitDurable, Zenon
<1>2. JournalInv /\ DurableInv /\ [Next]_vars => JournalInv' /\ DurableInv'
    BY NextKeeps, NextDurable, Zenon
<1>3. JournalInv /\ DurableInv /\ DurableInv' /\ [Next]_vars => [Grows]_disk
    <2>1. SUFFICES ASSUME JournalInv, DurableInv, DurableInv', [Next]_vars, fails' = 0, disk' # disk
                   PROVE  /\ Recovered'.ok
                          /\ Onward(Recovered.blocks, Recovered'.blocks)
        BY Zenon DEF Onward
    <2>2. Recovered = Brought(snapshot, oplog) /\ Recovered' = Brought(snapshot', oplog')
        <3>1. Recovered' = Brought(snapshot', oplog')
            BY Zenon DEF Recovered, Replayed, LastRow, Rows, Brought, LastOf, RowsAfter
        <3> QED BY <3>1, RecoveredIs, Zenon
    <2>3. Recovered'.ok
        BY <2>1, <2>2, Zenon DEF DurableInv, Restorable, Good
    <2>4. ASSUME NEW t \in Thread, Mutator(t) PROVE FALSE
        <3>1. \A bs, c, l : Mutated(t, bs, c, l) => disk' = disk
            BY DEF Mutated
        <3>2. \A id, f : set_field_refused(t, id, f) => disk' = disk
            BY DEF set_field_refused
        <3> QED BY <2>1, <2>4, <3>1, <3>2, MutatorCases, Zenon
    <2>5. ASSUME NEW t \in Thread,
                 \/ ReadStatuses(t) \/ recompute_live_status(t) \/ TakeSeq(t) \/ CountOp(t)
                 \/ CompactRead(t) \/ ResetCount(t) \/ live_status(t) \/ FillCache(t)
          PROVE  FALSE
        BY <2>1, <2>5, Zenon DEF ReadStatuses, recompute_live_status, TakeSeq, CountOp, CompactRead,
               ResetCount, live_status, FillCache
    <2>6. ASSUME NEW t \in Thread, AppendFails(t) \/ CompactFails(t) PROVE FALSE
        BY <2>1, <2>6, FailedDurable, Zenon
    <2>7. ASSUME NEW t \in Thread, append_op(t) \/ write_snapshot_and_truncate(t)
          PROVE  Onward(Recovered.blocks, Recovered'.blocks)
        <3>1. fails = 0
            BY <2>1, <2>7, Zenon DEF append_op, write_snapshot_and_truncate
        <3> QED BY <2>1, <2>2, <2>7, <3>1, AppendDurable, CompactDurable, Zenon
    <2>8. ~UNCHANGED vars /\ ~Crash /\ ~load_from_db
        BY <2>1, Zenon DEF vars, Crash, load_from_db
    <2> QED BY <2>1, <2>3, <2>4, <2>5, <2>6, <2>7, <2>8, Zenon DEF Next
<1> QED BY <1>1, <1>2, <1>3, PTL DEF Spec, RecoveredOnlyGrows
=============================================================================
