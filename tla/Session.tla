------------------------------- MODULE Session -------------------------------
(***************************************************************************)
(* A session's replica of one document of the kernel, and the task that is *)
(* its sole writer (kaijutsu-mcp/src/doc_task.rs, kaijutsu-client/src/     *)
(* synced_document.rs and sync.rs).                                        *)
(*                                                                         *)
(* The kernel changes the document under its lock and sends the event      *)
(* afterwards, to one bounded channel per topic; the server forwards them  *)
(* in any order of the topics to the client's bounded broadcast, and a     *)
(* bridge turns them into commands of the task.  The task applies events,  *)
(* authors blocks and pushes them, and resyncs: it takes what is queued,   *)
(* pushes, fetches a snapshot, and replaces the replica by it.  While a    *)
(* call is on its way the task takes no command, and the kernel goes on.   *)
(*                                                                         *)
(* Outputs, metadata and moves travel like header fields, and are left     *)
(* out; so is SyncReset, which the kernel never sends.                     *)
(***************************************************************************)
EXTENDS BlockLog, SequencesExt

CONSTANTS
    Kernel, Me,        \* the two replicas
    Thread,            \* threads of the kernel that mutate; "rpc" merges pushes
    Caller,            \* callers that ask for a resync and wait for it
    Batch,             \* what a command authors: "text", or "tool" (call and result)
    TopicCap,          \* topic_capacity
    RingCap,           \* EVENT_BROADCAST_CAPACITY
    QueueCap,          \* DOC_TASK_CHANNEL_CAPACITY
    MaxPendingBlocks,  \* MAX_PENDING_BLOCKS
    MaxPendingEvents,  \* MAX_EVENTS_PER_BLOCK
    MaxPendingOps,     \* MAX_PENDING_OPS
    MaxWrites,         \* bound: mutations by the kernel's threads
    MaxBatches,        \* bound: commands to author
    MaxOutages,        \* bound: connections lost
    MaxTimeouts,       \* bound: calls given up while the connection lives
    MaxInputs          \* bound: all of these, and resyncs asked for, together

ASSUME SessionAssumption ==
    /\ Replica = {Kernel, Me} /\ Kernel # Me
    /\ "rpc" \notin Thread /\ Batch \subseteq {"text", "tool"} /\ "status" \in Field
    /\ \A n \in {TopicCap, RingCap, QueueCap} : n \in Nat \ {0}
    /\ Field \cap {"inserted", "text_ops", "deleted"} = {}

VARIABLES
    kernel,     \* [doc, clock, lane, writes]: the kernel's document
    unsent,     \* thread -> events of its mutation that it has not sent yet
    bus,        \* topic -> events the server has not forwarded yet
    connected,
    up,         \* transitions to Connected the bridge has not read
    queue,      \* the commands of the task, and behind them the client's broadcast
    client,     \* [doc, clock, lane, synced, pending_events, pending_ops]
    task,       \* [at, net, out, reply, dones]: where the task is
    pushed,     \* pushed_frontier
    late,       \* payloads nobody waits for that the kernel may still merge
    asks,       \* caller -> what became of its resync
    spent,      \* [batches, outages, timeouts], for the bounds
    acked,      \* history: ids of the blocks acknowledged to their author
    want,       \* history: caller -> the kernel's blocks when it asked
    behind,     \* history: an event was lost, and no snapshot makes up for it
    asOf        \* history: the kernel's clock at the snapshot last applied

vars == <<kernel, unsent, bus, connected, up, queue, client, task,
          pushed, late, asks, spent, acked, want, behind, asOf>>

kernelVars == <<kernel, unsent, bus>>
callVars == <<connected, late, spent>>
history == <<acked, want, behind, asOf>>

Topic == {"inserted", "text_ops", "deleted"} \cup Field

\* Events, named by their topic; at is the kernel's clock at the write.
Inserted(id, p) == [kind |-> "inserted", id |-> id, ops |-> p]
TextOps(id, p) == [kind |-> "text_ops", id |-> id, ops |-> p]
FieldChanged(id, f, v, at) == [kind |-> f, id |-> id, v |-> v, at |-> at]
Deleted(id) == [kind |-> "deleted", id |-> id]

\* Commands.
ApplyEvent(e) == [type |-> "event", event |-> e]
AuthorBlocks(b) == [type |-> "author", batch |-> b]
Resync(dones) == [type |-> "resync", dones |-> dones]

----------------------------------------------------------------------------
(***************************************************************************)
(* merge_ops of a store.  A delta whose base is missing stops it; in the   *)
(* payloads of this module at most one text is then left to merge.         *)
(***************************************************************************)
Mergeable(st, p) == BaseMissing(st.doc, p) = {}

Merged(r, st, p) ==
    IF Mergeable(st, p)
    THEN [st EXCEPT !.doc   = MergedBlocks(r, @, p),
                    !.clock = MergedClock(@, st.doc, p, Max(RemoteStamps(st.doc, p) \cup {0})),
                    !.lane  = Max({@} \cup OwnSeqs(r, MergedBlocks(r, st.doc, p)))]
    ELSE [st EXCEPT !.doc   = PartlyMerged(r, @, p, {}),
                    !.lane  = Max({@} \cup OwnSeqs(r, PartlyMerged(r, st.doc, p, {})))]

\* insert_block of a store: every field stamped with a new Lamport time.
Inserting(r, st) ==
    [st EXCEPT !.doc   = Put(@, <<r, st.lane>>, NewBlock(PlainText, 0, 0, st.clock + 1, r)),
               !.clock = @ + 1,
               !.lane  = @ + 1]

\* set_status and its like: the clock ticks whether or not the block is there.
Setting(st, id, f, v) ==
    LET refused == id \notin DOMAIN st.doc \/ (st.doc[id].deleted /\ f \in LiveOnlyField)
    IN  [st EXCEPT !.clock = @ + 1,
                   !.doc   = IF refused THEN @ ELSE Put(@, id, WithField(@[id], f, v, st.clock + 1))]

Deleting(st, id) ==
    [st EXCEPT !.clock = @ + 1,
               !.doc   = IF id \in DOMAIN @ THEN Put(@, id, [@[id] EXCEPT !.deleted = TRUE]) ELSE @]

----------------------------------------------------------------------------
(***************************************************************************)
(* SyncManager.  synced is frontier.is_some(): text deltas are skipped     *)
(* without it, and every merge sets or resets it.                          *)
(***************************************************************************)
do_incremental_merge(c, p) == [Merged(Me, c, p) EXCEPT !.synced = Mergeable(c, p)]

buffer_failed_ops(c, p) ==
    IF Len(c.pending_ops) >= MaxPendingOps
    THEN [c EXCEPT !.pending_ops = << >>, !.synced = FALSE]
    ELSE [c EXCEPT !.pending_ops = Append(@, p)]

replay_pending_ops(c) ==
    LET Retry(d, p) == IF Mergeable(d, p)
                       THEN do_incremental_merge(d, p)
                       ELSE [do_incremental_merge(d, p) EXCEPT !.pending_ops = Append(@, p)]
    IN  FoldLeft(Retry, [c EXCEPT !.pending_ops = << >>], c.pending_ops)

apply_block_inserted(c, e) ==
    IF e.id \in Live(c.doc) THEN c
    ELSE IF Mergeable(c, e.ops) THEN replay_pending_ops(do_incremental_merge(c, e.ops))
    ELSE IF c.synced THEN do_incremental_merge(c, e.ops)
    ELSE buffer_failed_ops(do_incremental_merge(c, e.ops), e.ops)

apply_text_ops(c, p) ==
    IF ~c.synced THEN c
    ELSE IF Mergeable(c, p) THEN replay_pending_ops(do_incremental_merge(c, p))
    ELSE buffer_failed_ops(do_incremental_merge(c, p), p)

\* Mutant: the next seq is taken from the live blocks of the snapshot.
apply_initial_state_LiveLane(c, snap) ==
    replay_pending_ops(
        [c EXCEPT !.doc    = RestoredStore(Me, snap),
                  !.clock  = Max(LiveStamps(snap) \cup {0}),
                  !.lane   = Max(OwnSeqs(Me, [id \in Live(snap) |-> snap[id]]) \cup {0}),
                  !.synced = TRUE])

apply_initial_state(c, snap) ==
    replay_pending_ops(
        [c EXCEPT !.doc    = RestoredStore(Me, snap),
                  !.clock  = Max(LiveStamps(snap) \cup {0}),
                  !.lane   = Max(OwnSeqs(Me, snap) \cup {0}),
                  !.synced = TRUE])

(***************************************************************************)
(* SyncedDocument.  An event for a block that is not there waits in        *)
(* pending_events for its BlockInserted.                                   *)
(***************************************************************************)
Without(pend, id) == [i \in DOMAIN pend \ {id} |-> pend[i]]
Waiting(pend, id) == IF id \in DOMAIN pend THEN pend[id] ELSE << >>

PendingFull(c, id) ==
    \/ Cardinality(DOMAIN c.pending_events) >= MaxPendingBlocks /\ id \notin DOMAIN c.pending_events
    \/ Len(Waiting(c.pending_events, id)) >= MaxPendingEvents

buffer_event(c, e) ==
    IF PendingFull(c, e.id) THEN c
    ELSE [c EXCEPT !.pending_events = Put(@, e.id, Append(Waiting(@, e.id), e))]

ApplyToBlock(c, e) ==
    CASE e.kind = "text_ops" -> apply_text_ops(c, e.ops)
      [] e.kind = "deleted"  -> [Deleting(c, e.id) EXCEPT !.pending_events = Without(@, e.id)]
      [] OTHER               -> Setting(c, e.id, e.kind, e.v)

replay_pending(c, id) ==
    FoldLeft(ApplyToBlock, [c EXCEPT !.pending_events = Without(@, id)],
             Waiting(c.pending_events, id))

Unknown(c, e) == e.kind # "inserted" /\ e.id \notin Live(c.doc)

\* Mutant: an event for a block that is not there is dropped.
apply_event_NoBuffer(c, e) ==
    IF Unknown(c, e) THEN c
    ELSE IF e.kind = "inserted" THEN apply_block_inserted(c, e)
    ELSE ApplyToBlock(c, e)

apply_event(c, e) ==
    IF Unknown(c, e) THEN buffer_event(c, e)
    ELSE IF e.kind = "inserted" THEN replay_pending(apply_block_inserted(c, e), e.id)
    ELSE ApplyToBlock(c, e)

apply_sync_state(c, snap) ==
    [apply_initial_state(c, snap) EXCEPT !.pending_events = << >>]

\* author_blocks_sync: a text block, or call and result with the call's final
\* status set last.
author_blocks_sync(c, b) ==
    IF b = "text" THEN Inserting(Me, c)
    ELSE Setting(Inserting(Me, Inserting(Me, c)), <<Me, c.lane>>, "status", MaxVal)

----------------------------------------------------------------------------
Idle == [at |-> "idle", net |-> "none", out |-> << >>, reply |-> << >>, dones |-> {}]

\* The document has a block, and the session was seeded with it.
Init ==
    /\ kernel = Inserting(Kernel, [doc |-> << >>, clock |-> 0, lane |-> 0, writes |-> 0])
    /\ unsent = [t \in Thread \cup {"rpc"} |-> << >>]
    /\ bus = [t \in Topic |-> << >>]
    /\ connected = TRUE
    /\ up = 0
    /\ queue = << >>
    /\ client = apply_sync_state([doc |-> << >>, clock |-> 0, lane |-> 0, synced |-> FALSE,
                                  pending_events |-> << >>, pending_ops |-> << >>], kernel.doc)
    /\ task = Idle
    /\ pushed = frontier(client.doc)
    /\ late = {}
    /\ asks = [w \in Caller |-> "off"]
    /\ spent = [batches |-> 0, outages |-> 0, timeouts |-> 0]
    /\ acked = {}
    /\ want = [w \in Caller |-> {}]
    /\ behind = FALSE
    /\ asOf = kernel.clock

----------------------------------------------------------------------------
\* The bound on what comes from outside.
Inputs == kernel.writes + spent.batches + spent.outages + spent.timeouts
            + Cardinality({w \in Caller : asks[w] # "off"})
More == Inputs < MaxInputs

(***************************************************************************)
(* The kernel.  A mutator changes the document in one step, and sends its  *)
(* events later, one by one.                                               *)
(***************************************************************************)
Mutate(t, k, events) ==
    /\ unsent[t] = << >>
    /\ kernel.writes < MaxWrites /\ More
    /\ kernel' = [k EXCEPT !.writes = @ + 1]
    /\ unsent' = [unsent EXCEPT ![t] = events]
    /\ UNCHANGED <<bus, up, callVars, queue, client, task, pushed, asks, history>>

\* The operations a mutation of the kernel's document to doc amounts to.
NewOps(doc) == ops_since(doc, frontier(kernel.doc))

insert_block(t) ==
    LET k == Inserting(Kernel, kernel)
    IN  Mutate(t, k, <<Inserted(<<Kernel, kernel.lane>>, NewOps(k.doc))>>)

\* A refused call only ticks the clock, and is left out.
set_status(t, id, f, v) ==
    /\ id \in Live(kernel.doc)
    /\ Mutate(t, Setting(kernel, id, f, v), <<FieldChanged(id, f, v, kernel.clock + 1)>>)

edit_text(t, id) ==
    LET doc == Put(kernel.doc, id, WithEdit(kernel.doc[id], <<Kernel, kernel.writes + 1>>))
    IN  /\ id \in Live(kernel.doc) /\ kernel.doc[id].text # {}
        /\ Mutate(t, [kernel EXCEPT !.doc = doc], <<TextOps(id, NewOps(doc))>>)

delete_block(t, id) ==
    /\ id \in DOMAIN kernel.doc
    /\ Mutate(t, Deleting(kernel, id), <<Deleted(id)>>)

\* diff_block_events: a changed flag that is not status or collapsed is not told.
diff_block_events(before, after, at, ops) ==
    LET Each(S, Tell(_)) == LET ids == SetToSortSeq(S, LAMBDA i, j : i[2] < j[2])
                            IN  FlattenSeq([n \in DOMAIN ids |-> Tell(ids[n])])
        Flags(id) == {f \in Field \cap {"status", "collapsed"} : before[id].val[f] # after[id].val[f]}
        Changes(id) ==
            SetToSeq({FieldChanged(id, f, after[id].val[f], at) : f \in Flags(id)})
              \o (IF before[id].text # after[id].text THEN <<TextOps(id, ops)>> ELSE << >>)
    IN  Each(Live(after) \ Live(before), LAMBDA id : <<Inserted(id, ops)>>)
          \o Each(Live(before) \ Live(after), LAMBDA id : <<Deleted(id)>>)
          \o Each(Live(before) \cap Live(after), Changes)

\* push_ops of the server, with merge_ops.
MergePush(p) ==
    LET k == Merged(Kernel, kernel, p)
    IN  /\ unsent["rpc"] = << >>
        /\ kernel' = k
        /\ unsent' = [unsent EXCEPT !["rpc"] =
                        IF Mergeable(kernel, p)
                        THEN diff_block_events(kernel.doc, k.doc, k.clock, NewOps(k.doc))
                        ELSE << >>]

\* publish: a full topic loses its oldest event, and no subscription takes
\* none.
Emit(t) ==
    /\ unsent[t] # << >>
    /\ LET e == Head(unsent[t])
           full == Len(bus[e.kind]) >= TopicCap
       IN  /\ bus' = IF connected
                     THEN [bus EXCEPT ![e.kind] = Append(IF full THEN Tail(@) ELSE @, e)]
                     ELSE bus
           /\ behind' = (behind \/ full \/ ~connected)
    /\ unsent' = [unsent EXCEPT ![t] = Tail(@)]
    /\ UNCHANGED <<kernel, up, callVars, queue, client, task, pushed, asks, acked, want, asOf>>

----------------------------------------------------------------------------
(***************************************************************************)
(* From the kernel to the task.                                            *)
(***************************************************************************)
\* The bridge is prompt: an event waits in the broadcast only while the task's
\* channel is full.  A full broadcast overwrites its oldest event, and where
\* that was the bridge reads Lagged, which it makes a resync of.
Overwritten(q) ==
    LET lag == IF q[QueueCap + 1] = Resync({}) THEN QueueCap + 2 ELSE QueueCap + 1
    IN  SubSeq(q, 1, QueueCap) \o <<Resync({})>> \o SubSeq(q, lag + 1, Len(q))

Lagging == Len(queue) > QueueCap /\ queue[QueueCap + 1] = Resync({})
Full == Len(queue) >= QueueCap + RingCap + (IF Lagging THEN 1 ELSE 0)

\* The server's subscription task takes a topic that has something, the
\* client's forwarder broadcasts it, spawn_event_bridge makes a command of it.
Forward(topic) ==
    /\ connected
    /\ bus[topic] # << >>
    /\ bus' = [bus EXCEPT ![topic] = Tail(@)]
    /\ queue' = (IF Full THEN Overwritten(Append(queue, ApplyEvent(Head(bus[topic]))))
                         ELSE Append(queue, ApplyEvent(Head(bus[topic]))))
    /\ behind' = (behind \/ Full)
    /\ UNCHANGED <<kernel, unsent, up, callVars, client, task, pushed, asks, acked, want, asOf>>

\* A sender waits for room.  That it gets in before an event which waits in
\* the broadcast is the case in which that event is forwarded later.
Send(cmd) ==
    /\ Len(queue) < QueueCap
    /\ queue' = Append(queue, cmd)

BridgeConnected ==
    /\ up > 0
    /\ Send(Resync({}))
    /\ up' = up - 1
    /\ UNCHANGED <<kernelVars, callVars, client, task, pushed, asks, history>>

\* DocTaskHandle::author_blocks and resync.
author_blocks(b) ==
    /\ spent.batches < MaxBatches /\ More
    /\ Send(AuthorBlocks(b))
    /\ spent' = [spent EXCEPT !.batches = @ + 1]
    /\ UNCHANGED <<kernelVars, up, connected, late, client, task, pushed, asks, history>>

resync(w) ==
    /\ asks[w] = "off" /\ More
    /\ Send(Resync({w}))
    /\ asks' = [asks EXCEPT ![w] = "waiting"]
    /\ want' = [want EXCEPT ![w] = DOMAIN kernel.doc]
    /\ UNCHANGED <<kernelVars, up, callVars, client, task, pushed, acked, behind, asOf>>

\* The connection is lost with the subscription and the calls on it; a push
\* that was sent may still be merged.
IsPush == task.at \in {"push", "flush"}

Abandoned == IF IsPush /\ task.net = "sent" THEN {task.out} ELSE {}

Disconnect ==
    /\ connected /\ spent.outages < MaxOutages /\ More
    /\ connected' = FALSE
    /\ spent' = [spent EXCEPT !.outages = @ + 1]
    /\ bus' = [t \in Topic |-> << >>]
    /\ late' = late \cup Abandoned
    /\ task' = IF task.net = "none" THEN task ELSE [task EXCEPT !.net = "gone"]
    /\ behind' = TRUE
    /\ UNCHANGED <<kernel, unsent, up, queue, client, pushed, asks, acked, want, asOf>>

\* The stream is subscribed to again before Connected is told.
Reconnect ==
    /\ ~connected
    /\ connected' = TRUE
    /\ up' = up + 1
    /\ UNCHANGED <<kernelVars, late, spent, queue, client, task, pushed, asks, history>>

----------------------------------------------------------------------------
(***************************************************************************)
(* The task.  Between two calls it takes one command after the other; a    *)
(* resync first takes all that are queued ("drain").                       *)
(***************************************************************************)
Free == task.at \in {"idle", "drain"} /\ queue # << >>

TakeEvent ==
    /\ Free /\ Head(queue).type = "event"
    /\ queue' = Tail(queue)
    /\ client' = apply_event(client, Head(queue).event)
    /\ behind' = (behind \/ (Unknown(client, Head(queue).event)
                              /\ PendingFull(client, Head(queue).event.id)))
    /\ UNCHANGED <<kernelVars, up, callVars, task, pushed, asks, acked, want, asOf>>

\* push_new_ops sends what the doc has beyond pushed.
Sending(at, doc) == [task EXCEPT !.at = at, !.net = "sent", !.out = ops_since(doc, pushed)]

\* The author is answered before the push; in a drain the flush will push.
TakeBatch ==
    /\ Free /\ Head(queue).type = "author"
    /\ queue' = Tail(queue)
    /\ client' = author_blocks_sync(client, Head(queue).batch)
    /\ acked' = acked \cup (DOMAIN client'.doc \ DOMAIN client.doc)
    /\ task' = IF task.at = "idle" THEN Sending("push", client'.doc) ELSE task
    /\ UNCHANGED <<kernelVars, up, callVars, pushed, asks, want, behind, asOf>>

TakeResync ==
    /\ Free /\ Head(queue).type = "resync"
    /\ queue' = Tail(queue)
    /\ task' = [task EXCEPT !.at = "drain", !.dones = @ \cup Head(queue).dones]
    /\ UNCHANGED <<kernelVars, up, callVars, client, pushed, asks, history>>

Fetching == [task EXCEPT !.at = "fetch", !.net = "sent", !.out = << >>]

\* Nothing to say is success.
Flush ==
    /\ task.at = "drain" /\ queue = << >>
    /\ task' = IF Live(client.doc) = {} /\ DOMAIN client.doc \cap DOMAIN pushed = {}
               THEN Fetching
               ELSE Sending("flush", client.doc)
    /\ UNCHANGED <<kernelVars, up, callVars, queue, client, pushed, asks, history>>

\* Mutant: also those who asked while it ran are answered.
AnswerAll(result) == [w \in Caller |-> IF asks[w] = "waiting" THEN result ELSE asks[w]]

\* The end of a resync: everybody it was run for gets the same answer.
Answer(result) == [w \in Caller |-> IF w \in task.dones THEN result ELSE asks[w]]

PushReturns ==
    /\ IsPush /\ task.net = "done" /\ unsent["rpc"] = << >>
    /\ pushed' = task.out.front
    /\ task' = IF task.at = "flush" THEN Fetching ELSE Idle
    /\ UNCHANGED <<kernelVars, up, callVars, queue, client, asks, history>>

\* A call fails with its connection, for want of one, or by its timeout.
CallFails ==
    /\ task.net # "none"
    /\ IF task.net = "gone" \/ (task.net = "sent" /\ ~connected)
       THEN UNCHANGED spent
       ELSE /\ spent.timeouts < MaxTimeouts /\ More
            /\ spent' = [spent EXCEPT !.timeouts = @ + 1]

\* Mutant: a resync fetches although its flush failed.
PushFailsFetches ==
    /\ IsPush /\ CallFails
    /\ task' = IF task.at = "flush" THEN Fetching ELSE Idle
    /\ late' = late \cup Abandoned
    /\ UNCHANGED <<kernelVars, up, connected, queue, client, pushed, asks, history>>

\* A resync whose flush failed is over: no fetch, and pushed stays.
PushFails ==
    /\ IsPush /\ CallFails
    /\ task' = Idle
    /\ late' = late \cup Abandoned
    /\ asks' = Answer("err")
    /\ UNCHANGED <<kernelVars, up, connected, queue, client, pushed, history>>

FetchReturns ==
    /\ task.at = "fetch" /\ task.net = "done"
    /\ client' = apply_sync_state(client, task.reply.doc)
    /\ pushed' = frontier(client'.doc)
    /\ task' = Idle
    /\ asks' = Answer("ok")
    /\ asOf' = task.reply.clock
    /\ UNCHANGED <<kernelVars, up, callVars, queue, acked, want, behind>>

FetchFails ==
    /\ task.at = "fetch" /\ CallFails
    /\ task' = Idle
    /\ asks' = Answer("err")
    /\ behind' = (behind \/ (task.reply # << >> /\ task.reply.behind))
    /\ UNCHANGED <<kernelVars, up, connected, late, queue, client, pushed, acked, want, asOf>>

----------------------------------------------------------------------------
(***************************************************************************)
(* The kernel's side of the calls.                                         *)
(***************************************************************************)
push_ops ==
    /\ connected /\ IsPush /\ task.net = "sent"
    /\ MergePush(task.out)
    /\ task' = [task EXCEPT !.net = IF Mergeable(kernel, task.out) THEN "done" ELSE "gone"]
    /\ UNCHANGED <<bus, up, callVars, queue, client, pushed, asks, history>>

LatePush(p) ==
    /\ MergePush(p)
    /\ late' = late \ {p}
    /\ UNCHANGED <<bus, up, connected, spent, queue, client, task, pushed, asks, history>>

LosePush(p) ==
    /\ late' = late \ {p}
    /\ UNCHANGED <<kernelVars, up, connected, spent, queue, client, task, pushed, asks, history>>

\* context_sync_state; the snapshot makes up for what was lost before it.
get_context_sync ==
    /\ connected /\ task.at = "fetch" /\ task.net = "sent"
    /\ task' = [task EXCEPT !.net = "done",
                           !.reply = [doc |-> kernel.doc, clock |-> kernel.clock, behind |-> behind]]
    /\ behind' = FALSE
    /\ UNCHANGED <<kernelVars, up, callVars, queue, client, pushed, asks, acked, want, asOf>>

----------------------------------------------------------------------------
KernelWrites ==
    \E t \in Thread :
        \/ insert_block(t)
        \/ \E id \in DOMAIN kernel.doc :
                \/ \E f \in Field, v \in Val : set_status(t, id, f, v)
                \/ edit_text(t, id)
                \/ delete_block(t, id)

Serve == push_ops \/ get_context_sync
Sends == \E t \in Thread \cup {"rpc"} : Emit(t)
Deliver == \/ \E topic \in Topic : Forward(topic)
           \/ BridgeConnected
TaskStep == \/ TakeEvent \/ TakeBatch \/ TakeResync \/ Flush
            \/ PushReturns \/ PushFails \/ FetchReturns \/ FetchFails

Next ==
    \/ KernelWrites
    \/ Serve \/ Sends \/ Deliver \/ TaskStep
    \/ \E b \in Batch : author_blocks(b)
    \/ \E w \in Caller : resync(w)
    \/ \E p \in late : LatePush(p) \/ LosePush(p)
    \/ Disconnect \/ Reconnect

Spec == Init /\ [][Next]_vars

(***************************************************************************)
(* The task's loop, the kernel's threads and its server run; nothing is    *)
(* assumed of callers, of the connection, or of events being forwarded.    *)
(***************************************************************************)
FairSpec == Spec /\ WF_vars(TaskStep) /\ WF_vars(Serve) /\ WF_vars(Sends)

----------------------------------------------------------------------------
(***************************************************************************)
(* A block that was acknowledged to its author is in the session's replica *)
(* or in the kernel, whatever fails: the replica is never replaced by a    *)
(* snapshot taken before its blocks were pushed.                           *)
(***************************************************************************)
AckedKept == acked \subseteq DOMAIN client.doc \cup DOMAIN kernel.doc

OwnIds(S) == {id \in S : id[1] = Me}

(***************************************************************************)
(* No id is minted twice: the session's next seq is past every block of    *)
(* its own that the kernel has, or may still get from a push given up.     *)
(***************************************************************************)
SeqFresh ==
    \A id \in acked \cup OwnIds(DOMAIN kernel.doc) \cup UNION {OwnIds(DOMAIN p.new) : p \in late} :
        id[2] < client.lane

Quiet ==
    /\ connected /\ up = 0 /\ ~behind
    /\ task = Idle /\ queue = << >> /\ late = {}
    /\ \A t \in Topic : bus[t] = << >>
    /\ \A t \in Thread \cup {"rpc"} : unsent[t] = << >>

(***************************************************************************)
(* When all events have been applied, and none has been lost since the     *)
(* last snapshot, the session has exactly the kernel's blocks, and its own *)
(* that it could not push, with the kernel's texts: in whatever order the  *)
(* topics were forwarded, as long as one thread of the kernel mutates.     *)
(***************************************************************************)
QuietSame ==
    Quiet => /\ Live(kernel.doc) \subseteq Live(client.doc)
             /\ Live(client.doc) \ Live(kernel.doc) \subseteq OwnIds(DOMAIN client.doc \ DOMAIN kernel.doc)
             /\ \A id \in Live(kernel.doc) : client.doc[id].text = kernel.doc[id].text

(***************************************************************************)
(* A resync that succeeds is as new as the request: the replica then has   *)
(* every block the kernel had when the caller asked, and the kernel has    *)
(* every block acknowledged so far.  Requests that came during the fetch   *)
(* are not answered by it.                                                 *)
(***************************************************************************)
ResyncCovers ==
    [][\A w \in Caller : asks[w] = "waiting" /\ asks'[w] = "ok" =>
            want[w] \subseteq DOMAIN client'.doc /\ acked \subseteq DOMAIN kernel.doc]_vars

(***************************************************************************)
(* Whoever asks for a resync gets an answer.                               *)
(***************************************************************************)
ResyncAnswered ==
    \A w \in Caller : asks[w] = "waiting" ~> asks[w] \in {"ok", "err"}

(***************************************************************************)
(* A change of a header field that the task applies is newer than the      *)
(* snapshot it last applied.  The comment of do_coalesced_resync says so;  *)
(* of events that came while the fetch was on its way it is not true.      *)
(***************************************************************************)
NoStaleReplay ==
    [][TakeEvent /\ Head(queue).event.kind \in Field => Head(queue).event.at > asOf]_vars
=============================================================================
