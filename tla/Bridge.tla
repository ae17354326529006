------------------------------- MODULE Bridge -------------------------------
(***************************************************************************)
(* The bridge from a track's committed log to its score: what              *)
(* process_track does at every beat after the playhead has moved           *)
(* (materialize_track, publish_render_cues, drain_track_failures in        *)
(* kaijutsu-server/src/beat.rs, materialize_committed and                  *)
(* MaterializeCursor in kaijutsu-kernel/src/hyoushigi/mod.rs).             *)
(*                                                                         *)
(* The beat runs on the scheduler's task, but the score is a document that *)
(* other writers append to between two of its inserts.  A cell is known by *)
(* its number; an ABC cell has two artifacts, its source and the derived   *)
(* MIDI, a clip cell one.  A block is what it is for: [cell, by, art,     *)
(* parent], parent being a position in the score, and cell 0 another       *)
(* writer's block.  A restart keeps the score and nothing else.            *)
(***************************************************************************)
EXTENDS Integers, Sequences, FiniteSets

CONSTANTS
    Context,         \* the contexts that may be attached to the track
    Founders,        \* those attached at the start; the others have rotated out
    Player,          \* the principal each of them plays under
    Beat,            \* PrincipalId::beat(), who plays the fallbacks
    Score,           \* the score context
    Kind,            \* of each cell: "abc" or "clip"
    Sink,            \* some sink subscribes to block.render_cue
    Budget,          \* MATERIALIZE_RETRY_BUDGET
    MaxCells,        \* bound: cells committed
    MaxFailures,     \* bound: events in the failure ledger
    MaxForeign,      \* bound: blocks of other writers
    MaxMoves,        \* bound: contexts attached or detached
    MaxCrashes       \* bound: restarts of the kernel

ASSUME BridgeAssumption ==
    /\ Kind \in [1..MaxCells -> {"abc", "clip"}]
    /\ Founders \subseteq Context /\ Score \notin Context /\ Beat \notin {Player[c] : c \in Context}
    /\ Sink \in BOOLEAN /\ Budget \in Nat \ {0}
    /\ {MaxCells, MaxFailures, MaxForeign, MaxMoves, MaxCrashes} \subseteq Nat

VARIABLES
    phase,           \* "idle", or where the beat is: "bridge", "drain"
    committed,       \* the timeline's committed log: [cell, by]
    ledger,          \* the timeline's failure ledger: [event, by]
    cursor,          \* MaterializeCursor: [high, done, source]
    before,          \* hw_before
    failures,        \* materialize_failures
    water,           \* failure_water
    attached,        \* contexts attached
    produced,        \* those whose producer_principal is recorded
    score,           \* the score document
    cues,            \* RenderCues published: cells
    notices,         \* Error blocks inserted: [about, by, to]
    \* history
    made, raised,    \* cells committed and events raised so far
    authors,         \* principals that have scheduled a phrase
    tries,           \* failed attempts on the head cell
    skipped,         \* cells given up
    lost,            \* notices whose insert failed
    moves, crashes

track == <<cursor, before, failures, water>>
lane == <<committed, ledger, made, raised>>
binding == <<attached, produced, authors, moves>>
output == <<score, cues, notices, lost, skipped>>
vars == <<phase, track, lane, binding, output, tries, crashes>>

Cells == 1..MaxCells
NewCursor(n) == [high |-> n, done |-> 0, source |-> 0]
Artifacts(cell) == IF Kind[cell.cell] = "abc" THEN 2 ELSE 1
HeadCell == committed[cursor.high + 1]
Behind == cursor.high < Len(committed)

Init ==
    /\ phase = "idle" /\ committed = << >> /\ ledger = << >>
    /\ cursor = NewCursor(0) /\ before = 0 /\ failures = 0 /\ water = 0
    /\ attached = Founders /\ produced = Founders /\ authors = {Player[c] : c \in Context}
    /\ score = << >> /\ cues = << >> /\ notices = << >> /\ lost = {}
    /\ made = 0 /\ raised = 0 /\ tries = 0
    /\ skipped = {} /\ moves = 0 /\ crashes = 0

-----------------------------------------------------------------------------
(* Contexts.                                                               *)

AttachContext(c) ==
    /\ phase = "idle" /\ c \notin attached
    /\ moves < MaxMoves /\ moves' = moves + 1
    /\ attached' = attached \cup {c}
    /\ UNCHANGED <<phase, track, lane, produced, authors, output, tries, crashes>>

DetachContext(c) ==
    /\ phase = "idle" /\ c \in attached
    /\ moves < MaxMoves /\ moves' = moves + 1
    /\ attached' = attached \ {c} /\ produced' = produced \ {c}
    /\ UNCHANGED <<phase, track, lane, authors, output, tries, crashes>>

(* A turn ends with a phrase: its player is recorded and it is scheduled. *)
SchedulePhrase(c) ==
    /\ phase = "idle" /\ c \in attached \ produced
    /\ produced' = produced \cup {c} /\ authors' = authors \cup {Player[c]}
    /\ UNCHANGED <<phase, track, lane, attached, moves, output, tries, crashes>>

-----------------------------------------------------------------------------
(* The beat.                                                               *)

(***************************************************************************)
(* materialize_track: advance_to, in which cells of authors or of the beat *)
(* itself commit and phrases fail; then the cursor is copied.              *)
(***************************************************************************)
Commits ==
    \/ UNCHANGED <<committed, made>>
    \/ /\ made < MaxCells /\ made' = made + 1
       /\ \E by \in authors \cup {Beat} :
            committed' = Append(committed, [cell |-> made', by |-> by])
Fails ==
    \/ UNCHANGED <<ledger, raised>>
    \/ /\ raised < MaxFailures /\ raised' = raised + 1
       /\ \E by \in authors : ledger' = Append(ledger, [event |-> raised', by |-> by])

(* Mutant: a beat that commits nothing does not look at the cursor. *)
BeginOnlyNew ==
    /\ phase = "idle" /\ phase' = "bridge"
    /\ Commits /\ Fails /\ made' > made
    /\ before' = cursor.high
    /\ UNCHANGED <<cursor, failures, water, binding, output, tries, crashes>>

BeginBeat ==
    /\ phase = "idle" /\ phase' = "bridge"
    /\ Commits /\ Fails
    /\ before' = cursor.high
    /\ UNCHANGED <<cursor, failures, water, binding, output, tries, crashes>>

(* Mutant: the parent is looked for at the tail of the log. *)
BlockAtTail(art) == [cell |-> HeadCell.cell, by |-> HeadCell.by, art |-> art,
                     parent |-> IF art = 0 THEN 0 ELSE Len(score)]

(* The next artifact of the head cell is inserted; a derived block's parent *)
(* is the source block, remembered in the cursor across a failed beat.      *)
Block(art) == [cell |-> HeadCell.cell, by |-> HeadCell.by, art |-> art,
               parent |-> IF art = 0 THEN 0 ELSE cursor.source]

Land ==
    LET art == cursor.done
    IN  /\ phase = "bridge" /\ Behind
        /\ score' = Append(score, Block(art))
        /\ cursor' = IF art + 1 = Artifacts(HeadCell)
                     THEN NewCursor(cursor.high + 1)
                     ELSE [cursor EXCEPT !.done = art + 1,
                                         !.source = IF art = 0 THEN Len(score') ELSE @]
        /\ tries' = IF cursor'.high > cursor.high THEN 0 ELSE tries
        /\ UNCHANGED <<phase, before, failures, water, lane, binding, cues,
                       notices, lost, skipped, crashes>>

(* Mutant: the whole log is cued again. *)
CrossedAll == [i \in 1..cursor.high |-> committed[i].cell]

(* Every cell has crossed: the count is cleared and the sinks are cued. *)
Crossed == [i \in 1..(cursor.high - before) |-> committed[before + i].cell]

EndBridge ==
    /\ phase = "bridge" /\ ~Behind
    /\ phase' = "drain" /\ failures' = 0
    /\ cues' = IF Sink THEN cues \o Crossed ELSE cues
    /\ UNCHANGED <<cursor, before, water, lane, binding, score, notices, lost,
                   skipped, tries, crashes>>

(* producer_ctx_for, or the score context for an orphan. *)
Routes(by) ==
    LET own == {c \in produced : Player[c] = by}
    IN  IF own # {} THEN own
        ELSE IF Cardinality(attached) = 1 THEN attached
        ELSE {Score}

(* An Error block in the conversation of whoever is to know; its insert    *)
(* may fail, which is only logged.                                         *)
Notify(about, by) ==
    \/ \E to \in Routes(by) :
         notices' = Append(notices, [about |-> about, by |-> by, to |-> to]) /\ UNCHANGED lost
    \/ lost' = lost \cup {about} /\ UNCHANGED notices

(* Mutant: a retry starts over with the cell's first artifact. *)
FaultForgets ==
    LET cell == HeadCell
    IN  /\ phase = "bridge" /\ Behind
        /\ phase' = "drain"
        /\ IF cursor.high > before
           THEN failures' = 0 /\ UNCHANGED <<cursor, skipped, notices, lost>>
           ELSE IF failures + 1 < Budget
           THEN failures' = failures + 1 /\ cursor' = NewCursor(cursor.high)
                /\ UNCHANGED <<skipped, notices, lost>>
           ELSE /\ failures' = 0 /\ cursor' = NewCursor(cursor.high + 1)
                /\ skipped' = skipped \cup {cell.cell}
                /\ Notify(<<"cell", cell.cell>>, cell.by)
        /\ tries' = IF cursor'.high > cursor.high THEN 0 ELSE tries + 1
        /\ UNCHANGED <<before, water, lane, binding, score, cues, crashes>>

(* Mutant: the skipped cell is only logged. *)
FaultSilent ==
    LET cell == HeadCell
    IN  /\ phase = "bridge" /\ Behind
        /\ phase' = "drain"
        /\ IF cursor.high > before
           THEN failures' = 0 /\ UNCHANGED <<cursor, skipped, notices, lost>>
           ELSE IF failures + 1 < Budget
           THEN failures' = failures + 1 /\ UNCHANGED <<cursor, skipped, notices, lost>>
           ELSE /\ failures' = 0 /\ cursor' = NewCursor(cursor.high + 1)
                /\ skipped' = skipped \cup {cell.cell}
                /\ UNCHANGED <<notices, lost>>
        /\ tries' = IF cursor'.high > cursor.high THEN 0 ELSE tries + 1
        /\ UNCHANGED <<before, water, lane, binding, score, cues, crashes>>

(* Mutant: every failed beat clears the count. *)
FaultForgives ==
    LET cell == HeadCell
    IN  /\ phase = "bridge" /\ Behind
        /\ phase' = "drain"
        /\ IF cursor.high > before
           THEN failures' = 0 /\ UNCHANGED <<cursor, skipped, notices, lost>>
           ELSE IF failures + 1 < Budget
           THEN failures' = 0 /\ UNCHANGED <<cursor, skipped, notices, lost>>
           ELSE /\ failures' = 0 /\ cursor' = NewCursor(cursor.high + 1)
                /\ skipped' = skipped \cup {cell.cell}
                /\ Notify(<<"cell", cell.cell>>, cell.by)
        /\ tries' = IF cursor'.high > cursor.high THEN 0 ELSE tries + 1
        /\ UNCHANGED <<before, water, lane, binding, score, cues, crashes>>

(***************************************************************************)
(* The head cell could not be read, derived, stored or inserted.  After    *)
(* progress the count starts over; else it grows, and at the budget the    *)
(* cell is skipped and its player told.                                    *)
(***************************************************************************)
Fault ==
    LET cell == HeadCell
    IN  /\ phase = "bridge" /\ Behind
        /\ phase' = "drain"
        /\ IF cursor.high > before
           THEN failures' = 0 /\ UNCHANGED <<cursor, skipped, notices, lost>>
           ELSE IF failures + 1 < Budget
           THEN failures' = failures + 1 /\ UNCHANGED <<cursor, skipped, notices, lost>>
           ELSE /\ failures' = 0 /\ cursor' = NewCursor(cursor.high + 1)
                /\ skipped' = skipped \cup {cell.cell}
                /\ Notify(<<"cell", cell.cell>>, cell.by)
        /\ tries' = IF cursor'.high > cursor.high THEN 0 ELSE tries + 1
        /\ UNCHANGED <<before, water, lane, binding, score, cues, crashes>>

(* drain_track_failures: one event; the water passes it in any case. *)
Drain ==
    /\ phase = "drain" /\ water < Len(ledger)
    /\ water' = water + 1
    /\ Notify(<<"event", ledger[water'].event>>, ledger[water'].by)
    /\ UNCHANGED <<phase, cursor, before, failures, lane, binding, score, cues,
                   skipped, tries, crashes>>

EndBeat ==
    /\ phase = "drain" /\ water = Len(ledger)
    /\ phase' = "idle" /\ before' = 0
    /\ UNCHANGED <<cursor, failures, water, lane, binding, output, tries, crashes>>

-----------------------------------------------------------------------------
(* Around it.                                                              *)

(* A model's output, a capture or an Error block lands in the score. *)
Foreign == [cell |-> 0, by |-> Beat, art |-> 0, parent |-> 0]
OtherWrites ==
    /\ Cardinality({i \in 1..Len(score) : score[i].cell = 0}) < MaxForeign
    /\ score' = Append(score, Foreign)
    /\ UNCHANGED <<phase, track, lane, binding, cues, notices, lost, skipped, tries, crashes>>

(***************************************************************************)
(* A restart, up to the attaches that create the track again: the          *)
(* committed log is rebuilt from the ABC blocks of the score, and the      *)
(* cursor starts past them.                                                *)
(***************************************************************************)
IsSource(b) == b.cell # 0 /\ b.art = 0
Sources == {i \in 1..Len(score) : IsSource(score[i]) /\ Kind[score[i].cell] = "abc"}
Nth(k) == CHOOSE i \in Sources : Cardinality({j \in Sources : j <= i}) = k
Rebuilt == [k \in 1..Cardinality(Sources) |->
               [cell |-> score[Nth(k)].cell, by |-> score[Nth(k)].by]]

Restart ==
    /\ crashes < MaxCrashes /\ crashes' = crashes + 1
    /\ phase' = "idle"
    /\ committed' = Rebuilt /\ ledger' = << >>
    /\ cursor' = NewCursor(Len(Rebuilt)) /\ before' = 0 /\ failures' = 0 /\ water' = 0 /\ tries' = 0
    /\ attached' = Founders /\ produced' = {} /\ authors' = {}
    /\ UNCHANGED <<moves, output, made, raised>>

Next ==
    \/ \E c \in Context : AttachContext(c)
    \/ \E c \in Context : DetachContext(c)
    \/ \E c \in Context : SchedulePhrase(c)
    \/ BeginBeat \/ Land \/ EndBridge \/ Fault \/ Drain \/ EndBeat
    \/ OtherWrites \/ Restart

Spec == Init /\ [][Next]_vars

(* A rolling track beats again and again, and a beat that has begun is run *)
(* to its end.  Nothing is assumed of how often an insert fails.           *)
FairSpec ==
    /\ Spec
    /\ WF_vars((BeginBeat /\ UNCHANGED lane) \/ Land \/ EndBridge \/ Fault \/ Drain \/ EndBeat)

-----------------------------------------------------------------------------
(* Properties.                                                             *)

CellType == [cell : Cells, by : {Player[c] : c \in Context} \cup {Beat}]
InLog(n) == \E i \in 1..Len(committed) : committed[i].cell = n
Landed(n, art) == {i \in 1..Len(score) : score[i].cell = n /\ score[i].art = art}

(* The type invariant. *)
TypeOK ==
    /\ phase \in {"idle", "bridge", "drain"}
    /\ committed \in Seq(CellType)
    /\ cursor.high \in 0..Len(committed) /\ before \in 0..Len(committed)
    /\ cursor.done \in 0..1 /\ cursor.source \in 0..Len(score)
    /\ failures \in 0..(Budget - 1) /\ water \in 0..Len(ledger)
    /\ produced \subseteq attached /\ attached \subseteq Context
    /\ \A i \in 1..Len(score) : score[i].parent \in 0..(i - 1)

(* The resume point is that of the head cell: a source is remembered       *)
(* exactly while the group is incomplete ("`Some` iff `artifacts_done >=   *)
(* 1`"), and it is the head cell's own source block.                       *)
CursorHonest ==
    /\ cursor.source # 0 <=> cursor.done >= 1
    /\ cursor.done >= 1 =>
         /\ Behind /\ score[cursor.source].cell = HeadCell.cell
         /\ score[cursor.source].art = 0

(* No artifact is inserted twice, over retries, skips and restarts.        *)
OnceEach == \A n \in Cells, art \in 0..1 : Cardinality(Landed(n, art)) <= 1

(* A derived block hangs under its own cell's source, whoever else wrote   *)
(* to the score between the failed beat and the retry.                     *)
ParentTrue ==
    \A i \in 1..Len(score) : score[i].art = 1 =>
        score[i].parent \in Landed(score[i].cell, 0)

Told(about) == Cardinality({i \in 1..Len(notices) : notices[i].about = about})

(* A cell the cursor has passed is in the score, or was given up; and one  *)
(* given up was said so, once, unless that insert failed too.              *)
NothingSilent ==
    /\ \A i \in 1..cursor.high :
         Landed(committed[i].cell, 0) # {} \/ committed[i].cell \in skipped
    /\ \A n \in Cells : Told(<<"cell", n>>)
         = IF n \in skipped /\ <<"cell", n>> \notin lost THEN 1 ELSE 0

(* Each resolve failure is told once: never twice, and never passed over.  *)
FailuresToldOnce ==
    /\ \A e \in 1..MaxFailures :
         Told(<<"event", e>>) + (IF <<"event", e>> \in lost THEN 1 ELSE 0) <= 1
    /\ \A i \in 1..water :
         \/ Told(<<"event", ledger[i].event>>) = 1
         \/ <<"event", ledger[i].event>> \in lost

(* A sink is cued for a cell at most once and only for what is in the      *)
(* score, in the order of the log.                                         *)
CuedOnce ==
    /\ \A i, j \in 1..Len(cues) : i < j => cues[i] < cues[j]
    /\ \A i \in 1..Len(cues) : Landed(cues[i], 0) # {}

(* A poison cell holds up the others for a bounded number of beats: the    *)
(* budget, and one more when it first failed behind a cell that crossed.   *)
BoundedRetries == tries <= Budget

(* Every committed cell gets past the bridge, however often inserts fail,  *)
(* unless a restart takes it.                                              *)
NoWedge == \A n \in Cells :
    InLog(n) ~> (~InLog(n) \/ Landed(n, 0) # {} \/ n \in skipped)

(* "Publish a wire `RenderCue` for every cell that crossed the write       *)
(* barrier this beat" (publish_render_cues): with a sink listening, a cell *)
(* that crossed in a beat is cued when the beat is over.                   *)
CuedWhenCrossed ==
    Sink /\ phase = "drain" =>
        \A i \in (before + 1)..cursor.high :
            committed[i].cell \in skipped \/ \E k \in 1..Len(cues) : cues[k] = committed[i].cell

=============================================================================
