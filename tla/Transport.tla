----------------------------- MODULE Transport ------------------------------
(***************************************************************************)
(* The beat scheduler (kaijutsu-server/src/beat.rs): tracks, the contexts  *)
(* attached to them, the timer heap that beats them, the rows of kernel_db *)
(* a restart recovers them from, and the page turn that forks a player.    *)
(*                                                                         *)
(* The scheduler is one task: a command is one step, and so is each turn   *)
(* of the loop of fire_due (firing says that the loop has more to pop, and *)
(* nothing else runs then).  A caller of kj transport attach reads the     *)
(* rows first and sends its command later, so these are two steps.  A due  *)
(* time is counted from now: Tick lets time pass.  Clocks are system       *)
(* clocks; the rows are written without fail, except by delete; the OODA   *)
(* arm and the pulse of a binding, which nothing else depends on, are left *)
(* out.                                                                    *)
(***************************************************************************)
EXTENDS Integers, FiniteSets

CONSTANTS
    Track, Context,
    Founder,         \* the contexts that exist at first; the rest are forks
    LaneOf,          \* the track a founder's label names
    Period,          \* beat periods, in steps of Tick
    BeatsPerPhrase,
    RotateEvery,     \* phrases between two page turns, for those that rotate
    GridReseed,      \* GRID_RESEED_AFTER_PERIODS
    MaxTick,         \* bound: playheads stay there
    MaxPlays,        \* bound: generation
    MaxScores,       \* bound: score contexts minted
    MaxCrashes,      \* bound: restarts
    MaxCommands      \* bound: commands of the operator, and blocks authored

ASSUME TransportAssumption ==
    /\ Founder \subseteq Context /\ LaneOf \in [Founder -> Track]
    /\ Period \subseteq Nat \ {0} /\ BeatsPerPhrase \in Nat \ {0}
    /\ RotateEvery \in Nat \ {0}
    /\ GridReseed \in Nat /\ MaxTick \in Nat /\ MaxPlays \in Nat
    /\ MaxScores \in Nat /\ MaxCrashes \in Nat
    /\ MaxCommands \in Nat

VARIABLES
    \* the scheduler's memory
    tracks,          \* TrackId -> TrackState, for the live tracks
    index,           \* context_track: Context -> Track, a partial function
    heap,            \* <<due, track, generation>> -> copies of this entry
    firing,
    burst,           \* beats of each track in the last pass of fire_due
    \* kernel_db
    trackRow,        \* Track -> row, for the tracks that have one
    bindRow,         \* attachment rows: [track, context, rotate]
    label,           \* tracks whose label score-<track> is held by a context
    scores,          \* score contexts minted so far
    \* the contexts and their callers
    born,            \* contexts that exist
    maxTick,         \* BlockStore::max_tick of each context
    asked,           \* attach commands resolved and not applied yet
    pages,           \* page turns under way: [parent, child, next]
    reborn,          \* tracks deleted since the kernel started
    crashes,
    commands

mem == <<tracks, index, heap, firing, burst>>
db == <<trackRow, bindRow, label, scores>>
vars == <<mem, db, born, maxTick, asked, pages, reborn, crashes, commands>>

Live == DOMAIN tracks
Attached(t) == DOMAIN tracks[t].attached
(* beat_count is kept modulo Cycle: the cadences see no more of it. *)
Cycle == BeatsPerPhrase * RotateEvery

(* Mutant of Up: the beat does not move the playhead. *)
UpNot(n) == n

(* playhead + STEP *)
Up(n) == IF n < MaxTick THEN n + 1 ELSE n
Larger(a, b) == IF a > b THEN a ELSE b
Without(f, x) == [y \in DOMAIN f \ {x} |-> f[y]]
With(f, x, v) == [y \in DOMAIN f \cup {x} |-> IF y = x THEN v ELSE f[y]]

(* push and pop of the timer heap. *)
Pushed(h, e) == With(h, e, IF e \in DOMAIN h THEN h[e] + 1 ELSE 1)
Popped(h, e) == IF h[e] = 1 THEN Without(h, e) ELSE With(h, e, h[e] - 1)

(* persist_track; the score context of a row is written once. *)
RowOf(st) == [playhead |-> st.playhead, playing |-> st.playing,
              period |-> st.period, score |-> st.score]
PersistTrack(rows, t, st) ==
    With(rows, t, [RowOf(st) EXCEPT !.score =
                      IF t \in DOMAIN rows THEN rows[t].score ELSE st.score])

RowsOf(t) == {b \in bindRow : b.track = t}
Binding(t, c, rotate) == [track |-> t, context |-> c, rotate |-> rotate]
PersistBinding(rows, b) ==
    {r \in rows : <<r.track, r.context>> # <<b.track, b.context>>} \cup {b}

Init ==
    /\ tracks = << >> /\ index = << >> /\ heap = << >>
    /\ firing = FALSE /\ burst = [t \in Track |-> 0]
    /\ trackRow = << >> /\ bindRow = {} /\ label = {} /\ scores = 0
    /\ born = Founder /\ maxTick = [c \in Context |-> 0]
    /\ asked = {} /\ pages = {} /\ reborn = {}
    /\ crashes = 0 /\ commands = 0

-----------------------------------------------------------------------------
(* kj transport attach: beat_attach_payload reads the rows, the command    *)
(* follows.  Without --track, the one row of the context names the track;  *)
(* a context with no row takes the track of its label; two rows refuse.    *)

Resolutions(c) ==
    LET rows == {b \in bindRow : b.context = c}
    IN  IF rows = {} THEN {LaneOf[f] : f \in {c} \cap Founder}
        ELSE IF Cardinality(rows) = 1 THEN {b.track : b \in rows} ELSE {}

Request(c, t, rotate) ==
    LET old == {b \in bindRow : b.track = t /\ b.context = c}
    IN  [context |-> c, track |-> t,
         rotate |-> rotate \/ \E b \in old : b.rotate]

AskAttach(c, t, rotate) ==
    /\ ~firing /\ c \in born /\ \A q \in asked : q.context # c
    /\ asked' = asked \cup {Request(c, t, rotate)}
    /\ UNCHANGED <<mem, db, born, maxTick, pages, reborn, crashes>>

(***************************************************************************)
(* detach: live only, the attachment row stays; the track row takes the    *)
(* playhead; the reverse index follows.                                    *)
(***************************************************************************)
Unbind(ts, t, c) ==
    IF t \in DOMAIN ts THEN [ts EXCEPT ![t].attached = Without(@, c)] ELSE ts

(* Mutant of Reindex: a context detached from one track keeps its entry. *)
ReindexStale(ix, ts, t, c) == ix
Reindex(ix, ts, t, c) ==
    LET others == {u \in DOMAIN ts \ {t} : c \in DOMAIN ts[u].attached}
    IN  IF others = {} THEN Without(ix, c)
        ELSE With(ix, c, CHOOSE u \in others : TRUE)

Persisted(rows, ts, t) ==
    IF t \in DOMAIN ts THEN PersistTrack(rows, t, ts[t]) ELSE rows

Detach(c, t) ==
    /\ ~firing /\ c \in born
    /\ tracks' = Unbind(tracks, t, c)
    /\ index' = Reindex(index, tracks', t, c)
    /\ trackRow' = Persisted(trackRow, tracks', t)
    /\ UNCHANGED <<heap, firing, burst, bindRow, label, scores, born, maxTick,
                   asked, pages, reborn, crashes>>

(* Mutant of NewTrack: seeded from the context alone. *)
SeedFromContext(t, c, period) ==
    [playing |-> FALSE, gen |-> 0, beats |-> 0, attached |-> << >>,
     playhead |-> maxTick[c], period |-> period,
     score |-> IF t \in DOMAIN trackRow THEN trackRow[t].score ELSE scores + 1]

(***************************************************************************)
(* attach.  A context that rides another track leaves it first, row and    *)
(* all.  A track that is not live is created, stopped, its position and    *)
(* tempo recovered from the row if there is one; without a row a score     *)
(* context is minted, and this fails when the label score-<track> is held, *)
(* with the context already off its old track.                             *)
(***************************************************************************)
NewTrack(t, c, period) ==
    LET row == trackRow[t]
        kept == t \in DOMAIN trackRow
    IN  [playing |-> FALSE, gen |-> 0, beats |-> 0, attached |-> << >>,
         playhead |-> Larger(maxTick[c], IF kept THEN row.playhead ELSE 0),
         period |-> IF kept THEN row.period ELSE period,
         score |-> IF kept THEN row.score ELSE scores + 1]

Attach(q, period) ==
    LET c == q.context
        t == q.track
        moved == IF c \in DOMAIN index /\ index[c] # t THEN {index[c]} ELSE {}
        off == [u \in Live |-> IF u \in moved
                   THEN [tracks[u] EXCEPT !.attached = Without(@, c)]
                   ELSE tracks[u]]
        offRow == [u \in DOMAIN trackRow |-> IF u \in moved
                      THEN PersistTrack(trackRow, u, off[u])[u] ELSE trackRow[u]]
        offBind == {b \in bindRow : ~(b.context = c /\ b.track \in moved)}
        mint == t \notin Live /\ t \notin DOMAIN trackRow
        st == IF t \in Live THEN off[t] ELSE NewTrack(t, c, period)
        on == [st EXCEPT !.playhead = Larger(@, maxTick[c]),
                         !.attached = With(@, c, q.rotate)]
    IN  /\ ~firing /\ asked' = asked \ {q}
        /\ \/ /\ mint /\ t \in label
              /\ tracks' = off
              /\ index' = IF moved = {} THEN index ELSE Without(index, c)
              /\ trackRow' = offRow /\ bindRow' = offBind
              /\ UNCHANGED <<label, scores>>
           \/ /\ ~(mint /\ t \in label)
              /\ mint => scores < MaxScores
              /\ tracks' = With(off, t, on)
              /\ index' = With(index, c, t)
              /\ trackRow' = PersistTrack(offRow, t, on)
              /\ bindRow' = PersistBinding(offBind, Binding(t, c, q.rotate))
              /\ label' = IF mint THEN label \cup {t} ELSE label
              /\ scores' = IF mint THEN scores + 1 ELSE scores
        /\ UNCHANGED <<heap, firing, burst, born, maxTick, pages, reborn, crashes>>

-----------------------------------------------------------------------------
(* The clock of a track.                                                   *)

(* A command that changes the state of track t, and mirrors it in its row. *)
Apply(t, st) ==
    /\ ~firing /\ t \in Live
    /\ tracks' = [tracks EXCEPT ![t] = st]
    /\ trackRow' = PersistTrack(trackRow, t, st)
    /\ UNCHANGED <<index, firing, burst, bindRow, label, scores, born, maxTick,
                   asked, reborn, crashes>>

(* Mutant of PlayTrack: no new generation. *)
PlaySameGeneration(t) ==
    LET st == [tracks[t] EXCEPT !.playing = TRUE, !.gen = Larger(@, 1)]
    IN  /\ t \in Live /\ ~tracks[t].playing
        /\ Apply(t, st)
        /\ heap' = Pushed(heap, <<st.period, t, st.gen>>)

(* play: a running track is left alone. *)
PlayTrack(t) ==
    LET st == [tracks[t] EXCEPT !.playing = TRUE, !.gen = @ + 1]
    IN  /\ t \in Live /\ ~tracks[t].playing /\ tracks[t].gen < MaxPlays
        /\ Apply(t, st)
        /\ heap' = Pushed(heap, <<st.period, t, st.gen>>)

Play(t) == PlayTrack(t) /\ UNCHANGED pages

(* hold, for pause and stop: the entry in the heap stays. *)
Hold(t) ==
    /\ t \in Live
    /\ Apply(t, [tracks[t] EXCEPT !.playing = FALSE])
    /\ UNCHANGED <<heap, pages>>

(* set_tempo: the entry in the heap keeps its time. *)
SetTempo(t, p) ==
    /\ t \in Live
    /\ Apply(t, [tracks[t] EXCEPT !.period = p])
    /\ UNCHANGED <<heap, pages>>

(* set_rotate, for an attached context; otherwise no change. *)
SetRotate(t, c, rotate) ==
    /\ ~firing /\ t \in Live /\ c \in Attached(t)
    /\ tracks' = [tracks EXCEPT ![t].attached[c] = rotate]
    /\ bindRow' = PersistBinding(bindRow, Binding(t, c, rotate))
    /\ UNCHANGED <<index, heap, firing, burst, trackRow, label, scores, born,
                   maxTick, asked, pages, reborn, crashes>>

-----------------------------------------------------------------------------
(***************************************************************************)
(* delete: stop, detach every context and delete its row, sweep the rows   *)
(* left by earlier detaches, rename the track's row aside, forget the      *)
(* track.  The entry in the heap stays.  A track that is only a row is     *)
(* deleted in the database alone (delete_cold).                            *)
(***************************************************************************)
DropIndex(cs) == [c \in DOMAIN index \ cs |-> index[c]]

(* Mutant of Delete: the rows left by earlier detaches are not swept. *)
DeleteAttached(t) ==
    /\ ~firing /\ t \in Live
    /\ tracks' = Without(tracks, t)
    /\ index' = DropIndex(Attached(t))
    /\ bindRow' = {b \in bindRow : ~(b.track = t /\ b.context \in Attached(t))}
    /\ trackRow' = Without(trackRow, t)
    /\ reborn' = reborn \cup {t}
    /\ UNCHANGED <<heap, firing, burst, label, scores, born, maxTick, asked,
                   pages, crashes>>

Delete(t) ==
    /\ ~firing /\ t \in Live \cup DOMAIN trackRow
    /\ tracks' = Without(tracks, t)
    /\ index' = IF t \in Live THEN DropIndex(Attached(t)) ELSE index
    /\ bindRow' = bindRow \ RowsOf(t)
    /\ trackRow' = Without(trackRow, t)
    /\ reborn' = reborn \cup {t}
    /\ UNCHANGED <<heap, firing, burst, label, scores, born, maxTick, asked,
                   pages, crashes>>

(***************************************************************************)
(* delete when the database fails on the way: the contexts gone are off,   *)
(* and the rows done are deleted.  A live track stays listed, stopped.     *)
(* The rows of detached contexts go one by one with them, the rest only    *)
(* when all are detached.                                                  *)
(***************************************************************************)
DeleteFails(t, gone, done) ==
    /\ ~firing /\ t \in Live \cup DOMAIN trackRow
    /\ done \subseteq RowsOf(t)
    /\ IF t \in Live
       THEN LET st == [tracks[t] EXCEPT !.playing = FALSE,
                         !.attached = [c \in Attached(t) \ gone |-> @[c]]]
                mine == {b \in RowsOf(t) : b.context \in gone}
            IN  /\ gone \subseteq Attached(t)
                /\ \/ done \subseteq mine /\ Cardinality(mine \ done) = 1
                   \/ gone = Attached(t) /\ mine \subseteq done
                /\ tracks' = [tracks EXCEPT ![t] = st]
                /\ index' = DropIndex(gone)
                /\ trackRow' = PersistTrack(trackRow, t, st)
       ELSE gone = {} /\ UNCHANGED <<tracks, index, trackRow>>
    /\ bindRow' = bindRow \ done
    /\ UNCHANGED <<heap, firing, burst, label, scores, born, maxTick, asked,
                   pages, reborn, crashes>>

-----------------------------------------------------------------------------
(* The timer.                                                              *)

Latest == -(GridReseed * (CHOOSE p \in Period : \A q \in Period : q <= p)) - 1

(* An entry a moment later, and a moment earlier. *)
Later(e) == <<e[1] - 1, e[2], e[3]>>
Earlier(e) == <<e[1] + 1, e[2], e[3]>>

(* Time passes, whether or not the scheduler is ready to wake; how late an *)
(* entry is matters up to Latest only.                                     *)
Aged(h) ==
    LET late == {e \in DOMAIN h : e[1] <= Latest}
        ageing == DOMAIN h \ late
    IN  [e \in {Later(d) : d \in ageing} \cup late |->
            (IF Earlier(e) \in ageing THEN h[Earlier(e)] ELSE 0)
              + (IF e \in late THEN h[e] ELSE 0)]

Tick ==
    /\ ~firing /\ \E e \in DOMAIN heap : e[1] > Latest
    /\ heap' = Aged(heap)
    /\ burst' = [t \in Track |-> 0]
    /\ UNCHANGED <<tracks, index, firing, db, born, maxTick, asked,
                   pages, reborn, crashes>>

(* The entry fire_due pops next. *)
Top(e) == /\ e \in DOMAIN heap /\ e[1] <= 0
          /\ \A d \in DOMAIN heap : e[1] <= d[1]

(* What the loop honours; an entry it does not is stale. *)
Honoured(e) == /\ e[2] \in Live
               /\ tracks[e[2]].playing
               /\ tracks[e[2]].gen = e[3]

(* The loop goes on while an entry is due. *)
Loops == firing' = \E e \in DOMAIN heap' : e[1] <= 0

DropStale ==
    \E e \in DOMAIN heap :
        /\ Top(e) /\ ~Honoured(e)
        /\ heap' = Popped(heap, e)
        /\ Loops
        /\ burst' = IF firing THEN burst ELSE [t \in Track |-> 0]
        /\ UNCHANGED <<tracks, index, db, born, maxTick, asked, pages, reborn,
                       crashes>>

(* Mutant of Scheduled: every missed beat is caught up. *)
NeverReseeded(due, period) == due

(* fire_due: too late, and the grid starts again from now. *)
Scheduled(due, period) == IF -due > GridReseed * period THEN 0 ELSE due

(* The next entry, one period after the scheduled time, same generation. *)
Rearmed(e, st) == <<Scheduled(e[1], st.period) + st.period, e[2], e[3]>>

(* A phrase boundary, of a phrase that is a multiple of the cadence. *)
RotateDue(beats) ==
    /\ beats % BeatsPerPhrase = 0
    /\ (beats \div BeatsPerPhrase) % RotateEvery = 0

(***************************************************************************)
(* fire_due and process_track for a live entry.  At a phrase boundary the  *)
(* contexts that rotate are detached and their page turn begins.           *)
(***************************************************************************)
Beat ==
    \E e \in DOMAIN heap :
        LET t == e[2]
            st == tracks[t]
            turning == {c \in Attached(t) :
                           st.attached[c] /\ RotateDue(st.beats + 1)}
            after == [st EXCEPT
                         !.playhead = Up(@), !.beats = (@ + 1) % Cycle,
                         !.attached = [c \in Attached(t) \ turning |-> @[c]]]
        IN  /\ Top(e) /\ Honoured(e)
            /\ tracks' = [tracks EXCEPT ![t] = after]
            /\ index' = DropIndex(turning)
            /\ trackRow' = IF turning = {} THEN trackRow
                           ELSE PersistTrack(trackRow, t, after)
            /\ heap' = Pushed(Popped(heap, e), Rearmed(e, st))
            /\ Loops
            /\ burst' = [u \in Track |-> (IF firing THEN burst[u] ELSE 0)
                                         + (IF u = t THEN 1 ELSE 0)]
            /\ pages' = pages \cup {[parent |-> c, child |-> c, next |-> "fork"] :
                                       c \in turning}
            /\ UNCHANGED <<bindRow, label, scores, born, maxTick, asked, reborn,
                           crashes>>

(* One turn of the loop of fire_due. *)
Fire == DropStale \/ Beat

-----------------------------------------------------------------------------
(* The page turn: rc/musician/rotate runs fork && attach && play.          *)

(* insert_forked_context: the child has its parent's attachment rows. *)
Fork(pg, child) ==
    /\ ~firing /\ pg.next = "fork" /\ child \notin born
    /\ born' = born \cup {child}
    /\ bindRow' = bindRow \cup {[b EXCEPT !.context = child] :
                                   b \in {r \in bindRow : r.context = pg.parent}}
    /\ pages' = (pages \ {pg}) \cup {[pg EXCEPT !.child = child, !.next = "attach"]}
    /\ UNCHANGED <<mem, trackRow, label, scores, maxTick, asked, reborn, crashes>>

(* The child's attach is resolved and applied; its answer lets play follow. *)
PageAttach(pg) ==
    /\ ~firing /\ pg.next = "attach" /\ \A q \in asked : q.context # pg.child
    /\ \E t \in Resolutions(pg.child) :
          /\ asked' = asked \cup {Request(pg.child, t, FALSE)}
          /\ pages' = (pages \ {pg}) \cup {[pg EXCEPT !.next = "play"]}
    /\ UNCHANGED <<mem, db, born, maxTick, reborn, crashes>>

(* play resolves its track from the row attach wrote; already playing is fine. *)
PagePlay(pg) ==
    /\ ~firing /\ pg.next = "play" /\ \A q \in asked : q.context # pg.child
    /\ pages' = pages \ {pg}
    /\ LET live == Resolutions(pg.child) \cap Live
       IN  \/ \E t \in live : PlayTrack(t)
           \/ /\ \A t \in live : tracks[t].playing \/ tracks[t].gen = MaxPlays
              /\ UNCHANGED <<mem, db, born, maxTick, asked, reborn, crashes>>

(* A step of the script fails: the rest is not run. *)
PageStops(pg) ==
    /\ ~firing /\ pages' = pages \ {pg}
    /\ UNCHANGED <<mem, db, born, maxTick, asked, reborn, crashes>>

-----------------------------------------------------------------------------
(* A block is added to a context. *)
Author(c) ==
    /\ ~firing /\ c \in born /\ maxTick[c] < MaxTick
    /\ maxTick' = [maxTick EXCEPT ![c] = @ + 1]
    /\ UNCHANGED <<mem, db, born, asked, pages, reborn, crashes>>

(* The score context of a deleted track is given another label. *)
Relabel(t) ==
    /\ ~firing /\ t \in label /\ t \notin DOMAIN trackRow
    /\ label' = label \ {t}
    /\ UNCHANGED <<mem, trackRow, bindRow, scores, born, maxTick, asked, pages,
                   reborn, crashes>>

(* The kernel stops and starts; no track is armed until it is attached to. *)
Crash ==
    /\ crashes < MaxCrashes /\ crashes' = crashes + 1
    /\ tracks' = << >> /\ index' = << >> /\ heap' = << >>
    /\ firing' = FALSE /\ burst' = [t \in Track |-> 0]
    /\ asked' = {} /\ pages' = {} /\ reborn' = {}
    /\ UNCHANGED <<db, born, maxTick>>

(* What the operator, and the players, do from outside. *)
Command ==
    /\ commands < MaxCommands /\ commands' = commands + 1
    /\ \/ \E c \in Context, t \in Track, r \in BOOLEAN : AskAttach(c, t, r)
       \/ \E c \in Context, t \in Track : Detach(c, t)
       \/ \E t \in Track : Play(t)
       \/ \E t \in Track : Hold(t)
       \/ \E t \in Track, p \in Period : SetTempo(t, p)
       \/ \E t \in Track, c \in Context, r \in BOOLEAN : SetRotate(t, c, r)
       \/ \E t \in Track : Delete(t)
       \/ \E t \in Track, gone \in SUBSET Context : \E done \in SUBSET RowsOf(t) :
             DeleteFails(t, gone, done)
       \/ \E c \in Context : Author(c)
       \/ \E t \in Track : Relabel(t)

(* What the kernel does by itself. *)
Step ==
    /\ \/ \E q \in asked, p \in Period : Attach(q, p)
       \/ \E pg \in pages, c \in Context : Fork(pg, c)
       \/ \E pg \in pages : PageAttach(pg)
       \/ \E pg \in pages : PagePlay(pg)
       \/ \E pg \in pages : PageStops(pg)
       \/ Tick
       \/ Fire
       \/ Crash
    /\ UNCHANGED commands

Next == Command \/ Step
Spec == Init /\ [][Next]_vars

(***************************************************************************)
(* Time passes, and the timer arm of the scheduler's loop is taken at last *)
(* when it stays ready: the arms before it drain, since every caller of    *)
(* the ingress waits for its answer.  Tick alone cannot go on forever.     *)
(***************************************************************************)
FairSpec == Spec /\ WF_vars((Tick \/ Fire) /\ UNCHANGED commands)

-----------------------------------------------------------------------------
Entries(t, g) == {e \in DOMAIN heap : e[2] = t /\ e[3] = g}
One(t, g) == \E e \in Entries(t, g) : Entries(t, g) = {e} /\ heap[e] = 1
None(t, g) == Entries(t, g) = {}

(* The variables hold values of the types the structs and tables declare. *)
TypeOK ==
    /\ Live \subseteq Track /\ DOMAIN trackRow \subseteq Track
    /\ \A t \in Live : /\ tracks[t].playhead \in 0..MaxTick
                        /\ tracks[t].beats \in 0..(Cycle - 1)
                        /\ tracks[t].period \in Period
    /\ \A b \in bindRow : b.track \in Track /\ b.context \in born
    /\ \A e \in DOMAIN heap : e[2] \in Track /\ e[3] \in 1..MaxPlays

(***************************************************************************)
(* A playing track has exactly one entry in the heap that fire_due will    *)
(* honour, and a held one at most one: whatever was held, played, retimed  *)
(* or detached meanwhile, the clock neither stops nor beats twice.  A name *)
(* deleted and attached again since the kernel started is left out.        *)
(***************************************************************************)
OneEntry ==
    \A t \in Live \ reborn :
        One(t, tracks[t].gen) \/ (~tracks[t].playing /\ None(t, tracks[t].gen))

(* The same for every track: stale entries of a deleted track clean themselves. *)
BeatsOnce == \A t \in Live : One(t, tracks[t].gen) \/ None(t, tracks[t].gen)

(***************************************************************************)
(* The reverse index and the attached sets agree, and so no context rides  *)
(* two tracks at a time.                                                   *)
(***************************************************************************)
IndexHonest ==
    /\ DOMAIN index = UNION {Attached(t) : t \in Live}
    /\ \A t \in Live, c \in Context :
          c \in Attached(t) <=> c \in DOMAIN index /\ index[c] = t

(***************************************************************************)
(* No attachment row is left without its track: delete and its failures,   *)
(* forks and late attaches never leave one behind.                         *)
(***************************************************************************)
NoOrphanRow == \A b \in bindRow : b.track \in DOMAIN trackRow

(***************************************************************************)
(* However late the scheduler wakes, and whatever the tempo was set to     *)
(* meanwhile, one pass beats a track GRID_RESEED_AFTER_PERIODS + 1 times   *)
(* at most: no unbounded burst to catch up.                                *)
(***************************************************************************)
BurstBounded == \A t \in Track \ reborn : burst[t] <= GridReseed + 1

(***************************************************************************)
(* The position of a track moves forward, in memory and in its row, across *)
(* restarts too, and its score context stays the same; only delete ends it.*)
(***************************************************************************)
NoRewind ==
    [][/\ \A t \in DOMAIN trackRow \cap DOMAIN trackRow' :
             /\ trackRow'[t].playhead >= trackRow[t].playhead
             /\ trackRow'[t].score = trackRow[t].score
       /\ \A t \in Live \cap DOMAIN tracks' :
             tracks'[t].playhead >= tracks[t].playhead]_vars

Waiting(t) ==
    t \in Live /\ tracks[t].playing /\ tracks[t].playhead = MaxTick - 1

(***************************************************************************)
(* A playing track beats again, unless it is held or deleted or the kernel *)
(* stops: no order of commands makes the clock lose its entry.  It is      *)
(* stated one position before the bound, where an attach may start it too. *)
(***************************************************************************)
KeepsBeating == \A t \in Track : Waiting(t) ~> ~Waiting(t)

(***************************************************************************)
(* An attach to a name that has neither a row nor a live track makes a     *)
(* fresh track, a deleted name included.                                   *)
(***************************************************************************)
FreshAfterDelete ==
    [][\A q \in asked :
          (\E p \in Period : Attach(q, p)) => q.track \in DOMAIN tracks']_vars
=============================================================================
