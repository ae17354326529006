------------------------------ MODULE Timeline ------------------------------
(***************************************************************************)
(* The speculative timeline of one track (kaijutsu-hyoushigi/src/engine.rs *)
(* and cell.rs): cells are scheduled ahead of the playhead, resolved       *)
(* against a predicted context, and, when the playhead arrives, committed  *)
(* to an append-only log if the prediction held, squashed and recovered if *)
(* it did not.                                                             *)
(*                                                                         *)
(* A call of advance_to is one step AdvanceTo or Pump, one step Fire for   *)
(* each turn of its loop, and one step Arrive; target # NoTarget says that *)
(* the call is running, and nothing else runs then: the timeline is behind *)
(* a mutex.  Wall-clock time is counted in seconds, the tempo in half      *)
(* ticks per second; every resolver estimates one second.  Bytes in the    *)
(* content store are not modelled: a content is its hash.                  *)
(***************************************************************************)
EXTENDS Integers, Sequences, FiniteSets

CONSTANTS
    Lane,            \* TrackId
    Player,          \* PrincipalId of the players
    Ambient,         \* values the ambient context can take
    Recipe,          \* the recipes in use: pairs <<resolver, fallback>>
    Emitter,         \* the resolvers whose resolutions emit a cell
    Speed,           \* tempos, in half ticks per second
    CommitMargin,
    MaxCells,        \* bound: cells scheduled or emitted
    MaxTick,         \* bound: ticks
    MaxReading       \* bound: wall-clock readings of pump

Resolver == {"cas_commit", "ambient", "history"}

ASSUME TimelineAssumption ==
    /\ Speed \subseteq Nat /\ CommitMargin \in Nat
    /\ MaxCells \in Nat /\ MaxTick \in Nat /\ MaxReading \in Nat
    /\ Recipe \subseteq Resolver \X {"Skip", "UseLastGood", "Literal"}
    /\ Emitter \subseteq Resolver

VARIABLES
    playhead,
    speed,           \* clock.ticks_per_sec
    ambient,
    future,          \* the open future: a set of Scheduled
    committed,       \* the committed log: a sequence of concrete cells
    squashes,        \* the squash ledger
    failures,        \* the failure ledger
    lastPump,
    phase,           \* pump_phase_frac, in half ticks
    target,          \* argument of the advance_to that is running, or NoTarget
    entered,         \* the playhead its caller saw; the playhead when none runs
    made,            \* number of cells scheduled so far: names the next one
    holes,           \* cells whose fallback was Skip, or had nothing to repeat
    integral         \* half ticks the playhead has been asked to move in all

vars == <<playhead, speed, ambient, future, committed, squashes, failures,
          lastPump, phase, target, entered, made, holes, integral>>

NoTarget == -1
Running == target # NoTarget
Beat == "beat"                \* PrincipalId::beat()
Literal == <<"literal", 0>>
Nothing == <<"nothing", 0>>   \* None
NoCell == [body |-> "none", start |-> 0]
CeilDiv(n, d) == (n + d - 1) \div d

(***************************************************************************)
(* TickClock: one second of work in ticks, and that times safety_factor    *)
(* 1.5, both rounded up.                                                   *)
(***************************************************************************)
EstCost(s) == CeilDiv(s, 2)
Lead(s) == CeilDiv(3 * s, 4)

(* Scheduled::next_at; a cell of the open future is Pending or Speculated. *)
NextAt(c) ==
    IF c.state = "Pending" THEN c.speculateAt
    ELSE IF c.finalAttempt THEN c.start
    ELSE c.commitDeadline

(* The latest of the committed cells ks by start, the last one of a tie. *)
Latest(ks) ==
    CHOOSE k \in ks : \A j \in ks :
        \/ committed[j].start < committed[k].start
        \/ committed[j].start = committed[k].start /\ j <= k

ContentOf(ks) == IF ks = {} THEN Nothing ELSE committed[Latest(ks)].content

(* CommittedCtx::content_before: across all lanes. *)
ContentBefore(t) ==
    ContentOf({k \in DOMAIN committed : committed[k].start <= t})

(* Timeline::last_committed_content_in: in one lane. *)
LastCommittedIn(lane, before) ==
    ContentOf({k \in DOMAIN committed :
                  /\ committed[k].start <= before
                  /\ committed[k].lane = lane})

(***************************************************************************)
(* Resolver::compute_basis: the slice of the context the resolution is     *)
(* valid for.  cas_commit reads nothing but its parameters; the other two  *)
(* stand for a resolver that reads the ambient context, or the past.       *)
(***************************************************************************)
Basis(c) ==
    CASE c.resolver = "cas_commit" -> <<"cas", c.id>>
      [] c.resolver = "ambient"    -> <<"ambient", ambient>>
      [] c.resolver = "history"    -> ContentBefore(c.start)

(* Resolver::resolve produces content from the same slice; what it may emit. *)
Emissions(c) ==
    {NoCell} \cup
    IF c.resolver \in Emitter
    THEN {[body |-> "Concrete", start |-> c.start],
          [body |-> "Deferred", start |-> c.start],
          [body |-> "Deferred", start |-> c.start + 1]}
    ELSE {}

Concrete(id, start, lane, by, content) ==
    [id |-> id, start |-> start, lane |-> lane, by |-> by, content |-> content]

NewScheduled(id, start, lane, by, resolver, fallback) ==
    [id |-> id, start |-> start, lane |-> lane, by |-> by,
     resolver |-> resolver, fallback |-> fallback, state |-> "Pending",
     speculateAt |-> start - Lead(speed), commitDeadline |-> start - CommitMargin,
     estCost |-> EstCost(speed), predicted |-> Nothing, content |-> Nothing,
     emitted |-> NoCell, finalAttempt |-> FALSE]

Init ==
    /\ playhead = 0 /\ entered = 0 /\ target = NoTarget
    /\ speed \in Speed /\ ambient \in Ambient
    /\ future = {} /\ committed = << >>
    /\ squashes = << >> /\ failures = << >>
    /\ lastPump = 0 /\ phase = 0
    /\ made = 0 /\ holes = {} /\ integral = 0

-----------------------------------------------------------------------------
(* Calls between two runs of advance_to.                                   *)

SetClock(s) ==
    /\ ~Running /\ speed' = s
    /\ UNCHANGED <<playhead, ambient, future, committed, squashes, failures,
                   lastPump, phase, target, entered, made, holes, integral>>

SetAmbient(a) ==
    /\ ~Running /\ ambient' = a
    /\ UNCHANGED <<playhead, speed, future, committed, squashes, failures,
                   lastPump, phase, target, entered, made, holes, integral>>

(* Mutant of SeedPlayhead: a timeline that has moved is seeded again. *)
SeedAgain(t) ==
    /\ ~Running /\ future = {}
    /\ playhead' = t /\ entered' = t /\ integral' = 2 * t + phase
    /\ UNCHANGED <<speed, ambient, future, committed, squashes, failures,
                   lastPump, phase, target, made, holes>>

(* Timeline::seed_playhead; on any other timeline it refuses. *)
SeedPlayhead(t) ==
    /\ ~Running /\ playhead = 0 /\ future = {} /\ committed = << >>
    /\ playhead' = t /\ entered' = t /\ integral' = integral + 2 * t
    /\ UNCHANGED <<speed, ambient, future, committed, squashes, failures,
                   lastPump, phase, target, made, holes>>

(***************************************************************************)
(* Timeline::rehydrate_committed, with one cell of durable history; the    *)
(* caller has seeded the playhead at or after it.                          *)
(***************************************************************************)
RehydrateCommitted(t, lane, p, content) ==
    /\ ~Running /\ committed = << >> /\ t <= playhead /\ made < MaxCells
    /\ made' = made + 1
    /\ committed' = <<Concrete(made', t, lane, p, content)>>
    /\ UNCHANGED <<playhead, speed, ambient, future, squashes, failures,
                   lastPump, phase, target, entered, holes, integral>>

(* Timeline::schedule; a start at or behind the playhead is refused. *)
Schedule(start, lane, p, resolver, fallback) ==
    /\ ~Running /\ made < MaxCells
    /\ start > playhead
    /\ made' = made + 1
    /\ future' = future \cup
                   {NewScheduled(made', start, lane, p, resolver, fallback)}
    /\ UNCHANGED <<playhead, speed, ambient, committed, squashes, failures,
                   lastPump, phase, target, entered, holes, integral>>

(* Timeline::advance_to up to its loop; a target that is not ahead returns. *)
AdvanceTo(t) ==
    /\ ~Running /\ t > playhead
    /\ target' = t /\ integral' = integral + 2 * (t - playhead)
    /\ UNCHANGED <<playhead, speed, ambient, future, committed, squashes,
                   failures, lastPump, phase, entered, made, holes>>

(* Mutant of Pump: the part of a tick is dropped. *)
PumpDropsPhase(reading) ==
    LET whole == ((reading - lastPump) * speed) \div 2
    IN  /\ ~Running /\ reading > lastPump
        /\ playhead + whole <= MaxTick
        /\ lastPump' = reading /\ phase' = 0
        /\ target' = IF whole > 0 THEN playhead + whole ELSE NoTarget
        /\ integral' = integral + (reading - lastPump) * speed
        /\ UNCHANGED <<playhead, speed, ambient, future, committed, squashes,
                       failures, entered, made, holes>>

(***************************************************************************)
(* Timeline::pump: the time since the last reading, at the tempo in force  *)
(* now, plus the part of a tick left over from the last time.              *)
(***************************************************************************)
Pump(reading) ==
    LET moved == (reading - lastPump) * speed + phase
        whole == moved \div 2
    IN  /\ ~Running /\ reading > lastPump
        /\ playhead + whole <= MaxTick
        /\ lastPump' = reading /\ phase' = moved % 2
        /\ target' = IF whole > 0 THEN playhead + whole ELSE NoTarget
        /\ integral' = integral + (reading - lastPump) * speed
        /\ UNCHANGED <<playhead, speed, ambient, future, committed, squashes,
                       failures, entered, made, holes>>

-----------------------------------------------------------------------------
(* The loop of advance_to.                                                 *)

(* Mutant of Due: the tick of the target itself is left to the next call. *)
DueBefore == {c \in future : NextAt(c) < target}

Due == {c \in future : NextAt(c) <= target}
Earliest(c) == c \in Due /\ \A d \in Due : NextAt(c) <= NextAt(d)

(***************************************************************************)
(* Timeline::speculate, for the cell old of the open future as c: the      *)
(* basis and the content are taken from the context as it is now.  A       *)
(* resolver that fails goes to the ledger and its cell leaves the future.  *)
(***************************************************************************)
Speculate(old, c) ==
    \/ \E e \in Emissions(c) :
          /\ future' = (future \ {old}) \cup
                 {[c EXCEPT !.state = "Speculated", !.predicted = Basis(c),
                            !.content = Basis(c), !.emitted = e]}
          /\ UNCHANGED failures
    \/ /\ future' = future \ {old}
       /\ failures' = Append(failures, [id |-> c.id, at |-> playhead',
                                        start |-> c.start, by |-> c.by])

(* The first turn of a cell: Pending, its lead begins. *)
Begin(c) ==
    /\ c.state = "Pending"
    /\ Speculate(c, c)
    /\ UNCHANGED <<committed, squashes, made, holes>>

(***************************************************************************)
(* Timeline::commit, and absorb_emitted for the cell the resolution emits, *)
(* in the lane of its parent and played by its player.  A deferred         *)
(* emission that does not start after the playhead is refused by schedule; *)
(* past MaxCells an emission is left out, which bounds the model only.     *)
(***************************************************************************)
Commit(c) ==
    LET log == Append(committed, Concrete(c.id, c.start, c.lane, c.by, c.content))
        rest == future \ {c}
        e == c.emitted
        cut == \/ e = NoCell
               \/ made = MaxCells
               \/ e.body = "Deferred" /\ e.start <= playhead'
    IN  \/ /\ cut
           /\ committed' = log /\ future' = rest
           /\ UNCHANGED made
        \/ /\ ~cut /\ e.body = "Concrete"
           /\ made' = made + 1
           /\ committed' = Append(log, Concrete(made', e.start, c.lane, c.by, c.content))
           /\ future' = rest
        \/ /\ ~cut /\ e.body = "Deferred"
           /\ made' = made + 1
           /\ committed' = log
           /\ future' = rest \cup {NewScheduled(made', e.start, c.lane, c.by,
                                                c.resolver, c.fallback)}

(* Mutant of FireFallback: the cell stays open. *)
FallbackKeepsCell(c) ==
    LET content == CASE c.fallback = "Skip"        -> Nothing
                     [] c.fallback = "Literal"     -> Literal
                     [] c.fallback = "UseLastGood" ->
                            LastCommittedIn(c.lane, c.start)
    IN  /\ future' = (future \ {c}) \cup {[c EXCEPT !.start = target + 1]}
        /\ IF content = Nothing
           THEN holes' = holes \cup {c.id} /\ UNCHANGED committed
           ELSE /\ committed' = Append(committed,
                                  Concrete(c.id, c.start, c.lane, Beat, content))
                /\ UNCHANGED holes

(***************************************************************************)
(* Timeline::fire_fallback: played by the transport, in the cell's lane.   *)
(***************************************************************************)
FireFallback(c) ==
    LET content == CASE c.fallback = "Skip"        -> Nothing
                     [] c.fallback = "Literal"     -> Literal
                     [] c.fallback = "UseLastGood" ->
                            LastCommittedIn(c.lane, c.start)
    IN  /\ future' = future \ {c}
        /\ IF content = Nothing
           THEN holes' = holes \cup {c.id} /\ UNCHANGED committed
           ELSE /\ committed' = Append(committed,
                                  Concrete(c.id, c.start, c.lane, Beat, content))
                /\ UNCHANGED holes

(* commit_or_squash: one more try if it still fits before start, and only one. *)
CanRespeculate(c) == ~c.finalAttempt /\ c.start - playhead' >= c.estCost

(* Mutant of CommitOrSquash: the prediction is not checked again. *)
CommitUnchecked(c) ==
    /\ c.state = "Speculated"
    /\ Commit(c)
    /\ UNCHANGED <<squashes, failures, holes>>

CommitOrSquash(c) ==
    /\ c.state = "Speculated"
    /\ \/ /\ Basis(c) = c.predicted
          /\ Commit(c)
          /\ UNCHANGED <<squashes, failures, holes>>
       \/ /\ Basis(c) # c.predicted
          /\ squashes' = Append(squashes,
                 [id |-> c.id, at |-> playhead',
                  recovery |-> IF CanRespeculate(c) THEN "ReSpeculated"
                                                    ELSE "FellBack"])
          /\ IF CanRespeculate(c)
             THEN /\ Speculate(c, [c EXCEPT !.finalAttempt = TRUE])
                  /\ UNCHANGED <<committed, holes>>
             ELSE FireFallback(c) /\ UNCHANGED failures
          /\ UNCHANGED made

(* One turn of the loop: the playhead is set to the tick the action is due at. *)
Fire(c) ==
    /\ Running /\ Earliest(c)
    /\ playhead' = NextAt(c)
    /\ Begin(c) \/ CommitOrSquash(c)
    /\ UNCHANGED <<speed, ambient, lastPump, phase, target, entered, integral>>

(* Mutant of Arrive: the loop leaves only when the future is empty. *)
ArriveWhenEmpty ==
    /\ Running /\ future = {}
    /\ playhead' = target /\ entered' = target /\ target' = NoTarget
    /\ UNCHANGED <<speed, ambient, future, committed, squashes, failures,
                   lastPump, phase, made, holes, integral>>

(* The loop finds nothing due: advance_to returns. *)
Arrive ==
    /\ Running /\ Due = {}
    /\ playhead' = target /\ entered' = target /\ target' = NoTarget
    /\ UNCHANGED <<speed, ambient, future, committed, squashes, failures,
                   lastPump, phase, made, holes, integral>>

Next ==
    \/ \E s \in Speed : SetClock(s)
    \/ \E a \in Ambient : SetAmbient(a)
    \/ \E t \in 1..MaxTick : SeedPlayhead(t)
    \/ \E t \in 1..MaxTick, lane \in Lane, p \in Player :
          RehydrateCommitted(t, lane, p, <<"old", 0>>)
    \/ \E start \in 1..MaxTick, lane \in Lane, p \in Player,
          r \in Recipe : Schedule(start, lane, p, r[1], r[2])
    \/ \E t \in 1..MaxTick : AdvanceTo(t)
    \/ \E w \in 1..MaxReading : Pump(w)
    \/ \E c \in future : Fire(c)
    \/ Arrive

Spec == Init /\ [][Next]_vars

(* advance_to is a plain function: once called, its loop runs to the end. *)
Loop == (\E c \in future : Fire(c)) \/ Arrive
FairSpec == Spec /\ WF_vars(Loop)

-----------------------------------------------------------------------------
Ids == 1..MaxCells
Fates(i) ==
    Cardinality({c \in future : c.id = i})
    + Cardinality({k \in DOMAIN committed : committed[k].id = i})
    + Cardinality({k \in DOMAIN failures : failures[k].id = i})
    + (IF i \in holes THEN 1 ELSE 0)

(* The variables hold values of the types the structs declare. *)
TypeOK ==
    /\ playhead \in Int /\ entered \in 0..MaxTick /\ target \in -1..MaxTick
    /\ speed \in Speed /\ ambient \in Ambient /\ phase \in 0..1
    /\ made \in 0..MaxCells /\ holes \subseteq Ids
    /\ \A c \in future : c.id \in Ids /\ c.state \in {"Pending", "Speculated"}
    /\ \A k \in DOMAIN committed : committed[k].by \in Player \cup {Beat}

(***************************************************************************)
(* The playhead never passes an unsettled cell: when advance_to has        *)
(* returned, every cell still open starts after the playhead.              *)
(***************************************************************************)
NoZombie == ~Running => \A c \in future : c.start > playhead

(***************************************************************************)
(* A cell has one fate: it is open, or committed once (by its player or by *)
(* the fallback), or in the failure ledger, or a hole; never two of these, *)
(* never lost.                                                             *)
(***************************************************************************)
OneFate == \A i \in 1..made : Fates(i) = 1

(***************************************************************************)
(* Stale content is never committed: a cell committed for its player has   *)
(* the content its resolver would produce from the context of that moment. *)
(***************************************************************************)
CommitsFresh ==
    [][\A c \in future : \A k \in DOMAIN committed' \ DOMAIN committed :
          (committed'[k].id = c.id /\ committed'[k].by # Beat)
              => committed'[k].content = Basis(c)]_vars

(***************************************************************************)
(* pump neither drops nor counts twice a part of a tick, and a change of   *)
(* tempo acts on later time only: where the playhead is, or is going, is   *)
(* the sum over all intervals of their length times their own tempo.       *)
(***************************************************************************)
PhaseExact ==
    2 * (IF Running THEN target ELSE playhead) + phase = integral

(* A call of advance_to returns: the loop never fires the same cell forever. *)
AdvanceReturns == Running ~> ~Running

Promise == INSTANCE Score WITH
    now <- entered, count <- made, log <- committed,
    open <- {[id |-> c.id, start |-> c.start] : c \in future}

(***************************************************************************)
(* The timeline implements Score: seen from its callers, time goes forward *)
(* only, the log only grows, and a beat waits for no open cell.            *)
(***************************************************************************)
ImplementsScore == Promise!Spec
=============================================================================
