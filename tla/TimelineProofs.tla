-------------------------- MODULE TimelineProofs ----------------------------
(***************************************************************************)
(* Theorems about the timeline, for any lanes, players, recipes, tempos    *)
(* and any number of cells, ticks and readings: every cell has one fate,   *)
(* none is overtaken, stale content is not committed, no part of a tick is *)
(* lost, and the timeline implements Score.                                *)
(***************************************************************************)
EXTENDS Timeline, FiniteSetTheorems, TLAPS

(* A cell of the open future: no turn of it is due after its start, and a  *)
(* speculated one holds the content of its prediction.                     *)
CellOK(c) ==
    /\ {"state", "predicted", "content", "emitted", "finalAttempt"} \subseteq DOMAIN c
    /\ c.start \in Int /\ c.speculateAt \in Int /\ c.commitDeadline \in Int
    /\ c.speculateAt <= c.start /\ c.commitDeadline <= c.start
    /\ c.emitted.start \in Int
    /\ c.state = "Speculated" => c.content = c.predicted

(* A ledger is a sequence. *)
IsLog(s) == Len(s) \in Nat /\ DOMAIN s = 1..Len(s)

(* The ids in a set of cells, and in a ledger. *)
SetIds(f) == {c.id : c \in f}
LogIds(s) == {s[k].id : k \in DOMAIN s}
Once(s) == \A j, k \in DOMAIN s : s[j].id = s[k].id => j = k

(* Of n cells each one is in one place, once: open in f, played in p,      *)
(* failed in x, or a hole in h.                                            *)
Placed(f, p, x, h, n) ==
    /\ \A c, d \in f : c.id = d.id => c = d
    /\ Once(p) /\ Once(x)
    /\ SetIds(f) \cup LogIds(p) \cup LogIds(x) \cup h = 1..n
    /\ SetIds(f) \cap (LogIds(p) \cup LogIds(x) \cup h) = {}
    /\ LogIds(p) \cap (LogIds(x) \cup h) = {}
    /\ LogIds(x) \cap h = {}

(* The clock, and the call of advance_to that runs. *)
ClockOK ==
    /\ playhead \in Int /\ entered \in Nat /\ target \in Nat \cup {NoTarget}
    /\ speed \in Nat /\ lastPump \in Nat /\ phase \in 0..1 /\ integral \in Int
    /\ ~Running => playhead = entered
    /\ Running => target > entered

(* The inductive invariant. *)
TimelineInv ==
    /\ ClockOK /\ PhaseExact /\ NoZombie
    /\ made \in Nat /\ IsLog(committed) /\ IsLog(failures)
    /\ \A c \in future : CellOK(c)
    /\ Placed(future, committed, failures, holes, made)

(* Appending to a ledger. *)
LEMMA Appended ==
    ASSUME NEW s, IsLog(s), NEW x
    PROVE  /\ IsLog(Append(s, x)) /\ Len(Append(s, x)) = Len(s) + 1
           /\ Append(s, x)[Len(s) + 1] = x
           /\ \A k \in 1..Len(s) : Append(s, x)[k] = s[k]
BY DEF IsLog

(* A lead is not negative. *)
LEMMA LeadIsNat ==
    ASSUME NEW s \in Nat
    PROVE  Lead(s) \in Nat
BY DEF Lead, CeilDiv

(* A cell just scheduled. *)
LEMMA NewScheduledOK ==
    ASSUME speed \in Nat, NEW id, NEW start \in Int, NEW lane, NEW by, NEW resolver, NEW fallback
    PROVE  LET n == NewScheduled(id, start, lane, by, resolver, fallback)
           IN  CellOK(n) /\ n.id = id /\ n.start = start
<1> DEFINE n == NewScheduled(id, start, lane, by, resolver, fallback)
           lead == Lead(speed)
<1>1. lead \in Nat /\ CommitMargin \in Nat
  BY LeadIsNat, TimelineAssumption
<1>2. n = [id |-> id, start |-> start, lane |-> lane, by |-> by,
           resolver |-> resolver, fallback |-> fallback, state |-> "Pending",
           speculateAt |-> start - lead, commitDeadline |-> start - CommitMargin,
           estCost |-> EstCost(speed), predicted |-> Nothing, content |-> Nothing,
           emitted |-> NoCell, finalAttempt |-> FALSE]
  BY DEF NewScheduled
<1> HIDE DEF lead
<1>3. n.start = start /\ n.speculateAt = start - lead /\ n.commitDeadline = start - CommitMargin
  BY <1>2
<1>4. n.emitted.start \in Int /\ n.state = "Pending" /\ n.id = id
  BY <1>2 DEF NoCell
<1>5. {"state", "predicted", "content", "emitted", "finalAttempt"} \subseteq DOMAIN n
  BY <1>2
<1> HIDE DEF n
<1>6. CellOK(n)
  BY <1>1, <1>3, <1>4, <1>5, SMTT(30) DEF CellOK
<1> QED BY <1>3, <1>4, <1>6 DEF n

(***************************************************************************)
(* What a turn of the loop may do to the cell c it fires.                  *)
(***************************************************************************)
Tries(c, n) ==          \* the resolver runs: the cell stays open
    /\ CellOK(n) /\ n.id = c.id /\ n.start = c.start
    /\ future' = (future \ {c}) \cup {n}
    /\ UNCHANGED <<committed, failures, holes, made>>

Fails(c, r) ==          \* the resolver fails
    /\ r.id = c.id
    /\ future' = future \ {c} /\ failures' = Append(failures, r)
    /\ UNCHANGED <<committed, holes, made>>

Skips(c) ==             \* the fallback plays nothing
    /\ future' = future \ {c} /\ holes' = holes \cup {c.id}
    /\ UNCHANGED <<committed, failures, made>>

Fresh(c, r) == r.id = c.id /\ (r.by = Beat \/ r.content = Basis(c))

Plays(c, r) ==          \* committed, by its player or by the fallback
    /\ Fresh(c, r)
    /\ future' = future \ {c} /\ committed' = Append(committed, r)
    /\ UNCHANGED <<failures, holes, made>>

PlaysTwo(c, r, q) ==    \* committed with the cell it emits
    /\ Fresh(c, r) /\ made' = made + 1 /\ q.id = made'
    /\ future' = future \ {c} /\ committed' = Append(Append(committed, r), q)
    /\ UNCHANGED <<failures, holes>>

PlaysOpens(c, r, n) ==  \* committed, and the cell it emits is scheduled
    /\ Fresh(c, r) /\ made' = made + 1 /\ n.id = made' /\ CellOK(n)
    /\ future' = (future \ {c}) \cup {n} /\ committed' = Append(committed, r)
    /\ UNCHANGED <<failures, holes>>

Turn(c) ==
    \/ \E n : Tries(c, n)
    \/ \E r : Fails(c, r)
    \/ Skips(c)
    \/ \E r : Plays(c, r)
    \/ \E r, q : PlaysTwo(c, r, q)
    \/ \E r, n : PlaysOpens(c, r, n)

(* speculate keeps the cell open or gives it up. *)
LEMMA SpeculateIs ==
    ASSUME NEW old, NEW c, CellOK(c), c.id = old.id, c.start = old.start,
           Speculate(old, c), UNCHANGED <<committed, holes, made>>
    PROVE  (\E n : Tries(old, n)) \/ (\E r : Fails(old, r))
<1>1. ASSUME NEW e \in Emissions(c),
             future' = (future \ {old}) \cup
                 {[c EXCEPT !.state = "Speculated", !.predicted = Basis(c),
                            !.content = Basis(c), !.emitted = e]},
             UNCHANGED failures
      PROVE  \E n : Tries(old, n)
  <2> DEFINE b == Basis(c)
             n == [c EXCEPT !.state = "Speculated", !.predicted = b, !.content = b, !.emitted = e]
  <2>1. e.start \in Int
    BY DEF Emissions, NoCell, CellOK
  <2> HIDE DEF b
  <2>2. CellOK(n) /\ n.id = c.id /\ n.start = c.start
    BY <2>1 DEF CellOK
  <2>3. future' = (future \ {old}) \cup {n}
    BY <1>1 DEF b
  <2> HIDE DEF n
  <2>4. Tries(old, n)
    BY <1>1, <2>2, <2>3 DEF Tries
  <2> QED BY <2>4
<1>2. ASSUME future' = future \ {old},
             failures' = Append(failures, [id |-> c.id, at |-> playhead',
                                           start |-> c.start, by |-> c.by])
      PROVE  \E r : Fails(old, r)
  <2> DEFINE r == [id |-> c.id, at |-> playhead', start |-> c.start, by |-> c.by]
  <2>1. r.id = old.id
    OBVIOUS
  <2>2. Fails(old, r)
    BY <1>2, <2>1 DEF Fails
  <2> QED BY <2>2
<1> QED BY <1>1, <1>2, Zenon DEF Speculate

(* commit plays the cell, with what it emits. *)
LEMMA CommitIs ==
    ASSUME speed \in Nat, NEW c, CellOK(c), c.content = Basis(c), Commit(c),
           UNCHANGED <<failures, holes>>
    PROVE  Turn(c)
<1> DEFINE r == Concrete(c.id, c.start, c.lane, c.by, c.content)
           e == c.emitted
<1>1. Fresh(c, r)
  BY DEF Fresh, Concrete
<1> HIDE DEF r
<1>2. CASE committed' = Append(committed, r) /\ future' = future \ {c} /\ UNCHANGED made
  BY <1>1, <1>2 DEF Turn, Plays
<1>3. CASE /\ made' = made + 1 /\ future' = future \ {c}
           /\ committed' = Append(Append(committed, r), Concrete(made', e.start, c.lane, c.by, c.content))
  <2> DEFINE q == Concrete(made', e.start, c.lane, c.by, c.content)
  <2>1. q.id = made'
    BY DEF Concrete
  <2> HIDE DEF q
  <2>2. PlaysTwo(c, r, q)
    BY <1>1, <1>3, <2>1 DEF PlaysTwo, q
  <2> QED BY <2>2 DEF Turn
<1>4. CASE /\ made' = made + 1 /\ committed' = Append(committed, r)
           /\ future' = (future \ {c}) \cup {NewScheduled(made', e.start, c.lane, c.by, c.resolver, c.fallback)}
  <2> DEFINE n == NewScheduled(made', e.start, c.lane, c.by, c.resolver, c.fallback)
  <2>1. e.start \in Int
    BY DEF CellOK
  <2>2. CellOK(n) /\ n.id = made'
    BY <2>1, NewScheduledOK
  <2> HIDE DEF n
  <2>3. PlaysOpens(c, r, n)
    BY <1>1, <1>4, <2>2 DEF PlaysOpens, n
  <2> QED BY <2>3 DEF Turn
<1> QED BY <1>2, <1>3, <1>4 DEF Commit, r

(* Every turn of the loop is one of these. *)
LEMMA FireIsTurn ==
    ASSUME TimelineInv, NEW c \in future, Fire(c)
    PROVE  Turn(c)
<1>1. CellOK(c)
  BY DEF TimelineInv
<1>2. CASE Begin(c)
  BY <1>1, <1>2, SpeculateIs DEF Begin, Turn
<1>3. CASE CommitOrSquash(c)
  <2>1. CASE Basis(c) = c.predicted /\ Commit(c) /\ UNCHANGED <<squashes, failures, holes>>
    <3>1. c.content = Basis(c)
      BY <1>1, <1>3, <2>1 DEF CellOK, CommitOrSquash
    <3> QED BY <1>1, <2>1, <3>1, CommitIs DEF TimelineInv, ClockOK
  <2>2. CASE Speculate(c, [c EXCEPT !.finalAttempt = TRUE]) /\ UNCHANGED <<committed, holes, made>>
    <3> DEFINE d == [c EXCEPT !.finalAttempt = TRUE]
    <3>1. CellOK(d) /\ d.id = c.id /\ d.start = c.start
      BY <1>1 DEF CellOK
    <3> HIDE DEF d
    <3> QED BY <2>2, <3>1, SpeculateIs, Zenon DEF Turn, d
  <2>3. CASE FireFallback(c) /\ UNCHANGED <<failures, made>>
    <3>1. CASE future' = future \ {c} /\ holes' = holes \cup {c.id} /\ UNCHANGED committed
      BY <2>3, <3>1 DEF Turn, Skips
    <3>2. ASSUME NEW content, future' = future \ {c}, UNCHANGED holes,
                 committed' = Append(committed, Concrete(c.id, c.start, c.lane, Beat, content))
          PROVE  Turn(c)
      <4> DEFINE r == Concrete(c.id, c.start, c.lane, Beat, content)
      <4>1. Fresh(c, r)
        BY DEF Fresh, Concrete
      <4> HIDE DEF r
      <4>2. Plays(c, r)
        BY <2>3, <3>2, <4>1 DEF Plays, r
      <4> QED BY <4>2 DEF Turn
    <3> QED BY <2>3, <3>1, <3>2 DEF FireFallback
  <2> QED BY <1>3, <2>1, <2>2, <2>3, SMTT(30) DEF CommitOrSquash
<1> QED BY <1>2, <1>3 DEF Fire

-----------------------------------------------------------------------------
(* One fate for every cell.                                                *)

(* A ledger with one entry more. *)
LEMMA AppendedIds ==
    ASSUME NEW s, IsLog(s), NEW x
    PROVE  /\ LogIds(Append(s, x)) = LogIds(s) \cup {x.id}
           /\ Once(s) /\ x.id \notin LogIds(s) => Once(Append(s, x))
<1>1. /\ DOMAIN s = 1..Len(s) /\ Len(s) \in Nat
      /\ DOMAIN Append(s, x) = 1..(Len(s) + 1)
      /\ Append(s, x)[Len(s) + 1] = x
      /\ \A k \in 1..Len(s) : Append(s, x)[k] = s[k]
  BY Appended DEF IsLog
<1>2. 1..(Len(s) + 1) = (1..Len(s)) \cup {Len(s) + 1} /\ Len(s) + 1 \notin 1..Len(s)
  BY <1>1
<1>3. PICK t : t = Append(s, x)
  BY Zenon
<1> QED BY <1>1, <1>2, <1>3 DEF LogIds, Once

(* A cell leaves the open future. *)
LEMMA SetIdsLess ==
    ASSUME NEW f, \A c, d \in f : c.id = d.id => c = d, NEW c \in f
    PROVE  SetIds(f \ {c}) = SetIds(f) \ {c.id} /\ c.id \in SetIds(f)
BY DEF SetIds

(* It comes back changed: nothing else moves. *)
LEMMA Reopens ==
    ASSUME NEW f, NEW p, NEW x, NEW h, NEW n, Placed(f, p, x, h, n),
           NEW c \in f, NEW d, d.id = c.id
    PROVE  Placed((f \ {c}) \cup {d}, p, x, h, n)
<1> DEFINE g == (f \ {c}) \cup {d}
<1>1. \A a, b \in g : a.id = b.id => a = b
  BY DEF Placed
<1>2. SetIds(g) = SetIds(f)
  BY DEF SetIds
<1> HIDE DEF g
<1>3. Placed(g, p, x, h, n)
  BY <1>1, <1>2 DEF Placed
<1> QED BY <1>3 DEF g

(* It is played. *)
LEMMA MovesToLog ==
    ASSUME NEW f, NEW p, NEW x, NEW h, NEW n, Placed(f, p, x, h, n), IsLog(p),
           NEW c \in f, NEW r, r.id = c.id
    PROVE  Placed(f \ {c}, Append(p, r), x, h, n)
<1>1. SetIds(f \ {c}) = SetIds(f) \ {c.id} /\ c.id \in SetIds(f)
  BY SetIdsLess, Zenon DEF Placed
<1>2. c.id \notin LogIds(p)
  BY <1>1 DEF Placed
<1>3. LogIds(Append(p, r)) = LogIds(p) \cup {c.id} /\ Once(Append(p, r))
  BY <1>2, AppendedIds DEF Placed
<1>4. \A a, b \in f \ {c} : a.id = b.id => a = b
  BY DEF Placed
<1> DEFINE g == f \ {c}
           q == Append(p, r)
<1> HIDE DEF g, q
<1>5. Placed(g, q, x, h, n)
  BY <1>1, <1>3, <1>4 DEF Placed, g, q
<1> QED BY <1>5 DEF g, q

(* Its resolver failed. *)
LEMMA MovesToFailures ==
    ASSUME NEW f, NEW p, NEW x, NEW h, NEW n, Placed(f, p, x, h, n), IsLog(x),
           NEW c \in f, NEW r, r.id = c.id
    PROVE  Placed(f \ {c}, p, Append(x, r), h, n)
<1>1. SetIds(f \ {c}) = SetIds(f) \ {c.id} /\ c.id \in SetIds(f)
  BY SetIdsLess, SMTT(30) DEF Placed
<1>2. c.id \notin LogIds(x)
  BY <1>1 DEF Placed
<1>3. LogIds(Append(x, r)) = LogIds(x) \cup {c.id} /\ Once(Append(x, r))
  BY <1>2, AppendedIds DEF Placed
<1>4. \A a, b \in f \ {c} : a.id = b.id => a = b
  BY DEF Placed
<1> DEFINE g == f \ {c}
           q == Append(x, r)
<1> HIDE DEF g, q
<1>5. /\ SetIds(g) \cup LogIds(p) \cup LogIds(q) \cup h = 1..n
      /\ SetIds(g) \cap (LogIds(p) \cup LogIds(q) \cup h) = {}
  <2>1. SetIds(g) = SetIds(f) \ {c.id} /\ LogIds(q) = LogIds(x) \cup {c.id} /\ c.id \in SetIds(f)
    BY <1>1, <1>3, Zenon DEF g, q
  <2>2. /\ SetIds(f) \cup LogIds(p) \cup LogIds(x) \cup h = 1..n
        /\ SetIds(f) \cap (LogIds(p) \cup LogIds(x) \cup h) = {}
    BY Zenon DEF Placed
  <2>3. SetIds(g) \cup LogIds(p) \cup LogIds(q) \cup h = SetIds(f) \cup LogIds(p) \cup LogIds(x) \cup h
    BY <2>1
  <2>4. SetIds(g) \cap (LogIds(p) \cup LogIds(q) \cup h) = {}
    BY <2>1, <2>2
  <2> QED BY <2>2, <2>3, <2>4, Zenon
<1>6. LogIds(p) \cap (LogIds(q) \cup h) = {} /\ LogIds(q) \cap h = {}
  BY <1>1, <1>3 DEF Placed, q
<1>7. Placed(g, p, q, h, n)
  BY <1>3, <1>4, <1>5, <1>6 DEF Placed, g, q
<1> QED BY <1>7 DEF g, q

(* Its fallback played nothing. *)
LEMMA MovesToHoles ==
    ASSUME NEW f, NEW p, NEW x, NEW h, NEW n, Placed(f, p, x, h, n), NEW c \in f
    PROVE  Placed(f \ {c}, p, x, h \cup {c.id}, n)
<1>1. SetIds(f \ {c}) = SetIds(f) \ {c.id} /\ c.id \in SetIds(f)
  BY SetIdsLess, Zenon DEF Placed
<1>2. \A a, b \in f \ {c} : a.id = b.id => a = b
  BY DEF Placed
<1> DEFINE g == f \ {c}
<1> HIDE DEF g
<1>3. /\ SetIds(g) \cup LogIds(p) \cup LogIds(x) \cup (h \cup {c.id}) = 1..n
      /\ SetIds(g) \cap (LogIds(p) \cup LogIds(x) \cup (h \cup {c.id})) = {}
  <2>1. SetIds(g) = SetIds(f) \ {c.id} /\ c.id \in SetIds(f)
    BY <1>1, Zenon DEF g
  <2>2. /\ SetIds(f) \cup LogIds(p) \cup LogIds(x) \cup h = 1..n
        /\ SetIds(f) \cap (LogIds(p) \cup LogIds(x) \cup h) = {}
    BY Zenon DEF Placed
  <2>3. SetIds(g) \cup LogIds(p) \cup LogIds(x) \cup (h \cup {c.id})
          = SetIds(f) \cup LogIds(p) \cup LogIds(x) \cup h
    BY <2>1
  <2>4. SetIds(g) \cap (LogIds(p) \cup LogIds(x) \cup (h \cup {c.id})) = {}
    BY <2>1, <2>2
  <2> QED BY <2>2, <2>3, <2>4, Zenon
<1>4. LogIds(p) \cap (LogIds(x) \cup (h \cup {c.id})) = {} /\ LogIds(x) \cap (h \cup {c.id}) = {}
  BY <1>1 DEF Placed
<1>5. Placed(g, p, x, h \cup {c.id}, n)
  BY <1>2, <1>3, <1>4, Zenon DEF Placed, g
<1> QED BY <1>5 DEF g

(* A new cell is named, and opened. *)
LEMMA NewIsOpen ==
    ASSUME NEW f, NEW p, NEW x, NEW h, NEW n \in Nat, Placed(f, p, x, h, n),
           NEW d, d.id = n + 1
    PROVE  Placed(f \cup {d}, p, x, h, n + 1)
<1>1. 1..(n + 1) = (1..n) \cup {n + 1} /\ n + 1 \notin 1..n
  OBVIOUS
<1>2. SetIds(f \cup {d}) = SetIds(f) \cup {n + 1}
  BY DEF SetIds
<1>3. \A a, b \in f \cup {d} : a.id = b.id => a = b
  <2>1. \A a \in f : a.id # n + 1
    BY <1>1 DEF Placed, SetIds
  <2> QED BY <2>1 DEF Placed
<1> DEFINE g == f \cup {d}
           m == n + 1
<1> HIDE DEF g, m
<1>4. SetIds(g) \cup LogIds(p) \cup LogIds(x) \cup h = 1..m
  BY <1>1, <1>2 DEF Placed, g, m
<1>5. SetIds(g) \cap (LogIds(p) \cup LogIds(x) \cup h) = {}
  BY <1>1, <1>2, ZenonT(40) DEF Placed, g, m
<1>6. Placed(g, p, x, h, m)
  BY <1>3, <1>4, <1>5, Zenon DEF Placed, g
<1> QED BY <1>6 DEF g, m

(* A new cell is named, and played. *)
LEMMA NewIsPlayed ==
    ASSUME NEW f, NEW p, NEW x, NEW h, NEW n \in Nat, Placed(f, p, x, h, n), IsLog(p),
           NEW r, r.id = n + 1
    PROVE  Placed(f, Append(p, r), x, h, n + 1)
<1>1. 1..(n + 1) = (1..n) \cup {n + 1} /\ n + 1 \notin 1..n
  OBVIOUS
<1>2. n + 1 \notin LogIds(p)
  BY <1>1 DEF Placed
<1>3. LogIds(Append(p, r)) = LogIds(p) \cup {n + 1} /\ Once(Append(p, r))
  BY <1>2, AppendedIds DEF Placed
<1> DEFINE q == Append(p, r)
           m == n + 1
<1> HIDE DEF q, m
<1>4. Placed(f, q, x, h, m)
  BY <1>1, <1>3 DEF Placed, q, m
<1> QED BY <1>4 DEF q, m

(* A turn leaves every cell one fate. *)
LEMMA TurnPlaced ==
    ASSUME TimelineInv, NEW c \in future, Turn(c)
    PROVE  /\ made' \in Nat /\ IsLog(committed') /\ IsLog(failures')
           /\ \A d \in future' : CellOK(d)
           /\ Placed(future', committed', failures', holes', made')
<1>1. /\ made \in Nat /\ IsLog(committed) /\ IsLog(failures) /\ \A d \in future : CellOK(d)
      /\ Placed(future, committed, failures, holes, made)
  BY DEF TimelineInv
<1>2. ASSUME NEW n, Tries(c, n)
      PROVE  /\ IsLog(committed') /\ IsLog(failures') /\ made' \in Nat
             /\ \A d \in future' : CellOK(d)
             /\ Placed(future', committed', failures', holes', made')
  BY <1>1, <1>2, Reopens DEF Tries
<1>3. ASSUME NEW r, Fails(c, r)
      PROVE  /\ IsLog(committed') /\ IsLog(failures') /\ made' \in Nat
             /\ \A d \in future' : CellOK(d)
             /\ Placed(future', committed', failures', holes', made')
  BY <1>1, <1>3, MovesToFailures, Appended DEF Fails
<1>4. CASE Skips(c)
  BY <1>1, <1>4, MovesToHoles, SMTT(30) DEF Skips
<1>5. ASSUME NEW r, Plays(c, r)
      PROVE  /\ IsLog(committed') /\ IsLog(failures') /\ made' \in Nat
             /\ \A d \in future' : CellOK(d)
             /\ Placed(future', committed', failures', holes', made')
  BY <1>1, <1>5, MovesToLog, Appended DEF Plays, Fresh
<1>6. ASSUME NEW r, NEW q, PlaysTwo(c, r, q)
      PROVE  /\ IsLog(committed') /\ IsLog(failures') /\ made' \in Nat
             /\ \A d \in future' : CellOK(d)
             /\ Placed(future', committed', failures', holes', made')
  <2>1. PICK p : p = Append(committed, r)
    BY Zenon
  <2>2. IsLog(p) /\ Placed(future \ {c}, p, failures, holes, made)
    BY <1>1, <1>6, <2>1, MovesToLog, Appended, SMTT(30) DEF PlaysTwo, Fresh
  <2>3. committed' = Append(p, q) /\ q.id = made + 1 /\ made' = made + 1
    BY <1>6, <2>1, SMTT(30) DEF PlaysTwo
  <2>4. IsLog(committed') /\ Placed(future \ {c}, committed', failures, holes, made + 1)
    BY <1>1, <2>2, <2>3, NewIsPlayed, Appended, SMTT(30)
  <2> QED BY <1>1, <1>6, <2>4 DEF PlaysTwo
<1>7. ASSUME NEW r, NEW n, PlaysOpens(c, r, n)
      PROVE  /\ IsLog(committed') /\ IsLog(failures') /\ made' \in Nat
             /\ \A d \in future' : CellOK(d)
             /\ Placed(future', committed', failures', holes', made')
  <2>1. IsLog(committed') /\ Placed(future \ {c}, committed', failures, holes, made)
    BY <1>1, <1>7, MovesToLog, Appended, SMTT(30) DEF PlaysOpens, Fresh
  <2>2. Placed((future \ {c}) \cup {n}, committed', failures, holes, made + 1)
    BY <1>1, <1>7, <2>1, NewIsOpen, SMTT(30) DEF PlaysOpens
  <2> QED BY <1>1, <1>7, <2>1, <2>2, SMTT(30) DEF PlaysOpens
<1> QED BY <1>2, <1>3, <1>4, <1>5, <1>6, <1>7 DEF Turn

-----------------------------------------------------------------------------
(* The invariant.                                                          *)

(* A cell is never due after its start. *)
LEMMA DueByStart ==
    ASSUME NEW c, CellOK(c)
    PROVE  NextAt(c) \in Int /\ NextAt(c) <= c.start
BY DEF CellOK, NextAt

(* A new timeline satisfies the invariant. *)
LEMMA InitTimeline == Init => TimelineInv
<1> SUFFICES ASSUME Init PROVE TimelineInv
  OBVIOUS
<1>1. ClockOK /\ PhaseExact /\ NoZombie
  BY TimelineAssumption DEF Init, ClockOK, PhaseExact, NoZombie, Running, NoTarget
<1>2. IsLog(committed) /\ IsLog(failures) /\ LogIds(committed) = {} /\ LogIds(failures) = {}
  BY DEF Init, IsLog, LogIds
<1>3. Once(committed) /\ Once(failures) /\ SetIds(future) = {} /\ 1..made = {}
  BY DEF Init, Once, SetIds
<1>4. Placed(future, committed, failures, holes, made)
  BY <1>2, <1>3 DEF Init, Placed
<1> QED BY <1>1, <1>2, <1>4 DEF Init, TimelineInv

(* A pump keeps the account of the ticks, whether or not an advance begins. *)
LEMMA PumpClock ==
    ASSUME ClockOK, PhaseExact, NEW w \in Nat, Pump(w)
    PROVE  ClockOK' /\ PhaseExact' /\ (~Running' => playhead' = playhead)
<1> DEFINE gone == (w - lastPump) * speed
           moved == gone + phase
           whole == moved \div 2
<1>1. gone \in Nat
  BY DEF Pump, ClockOK
<1>2. /\ lastPump' = w /\ phase' = moved % 2 /\ integral' = integral + gone
      /\ target' = IF whole > 0 THEN playhead + whole ELSE NoTarget
      /\ ~Running /\ UNCHANGED <<playhead, entered, speed>>
  BY DEF Pump
<1> HIDE DEF gone
<1>3. moved \in Nat
  BY <1>1 DEF ClockOK
<1>4. moved = 2 * whole + (moved % 2) /\ whole \in Nat /\ moved % 2 \in 0..1
  BY <1>3
<1> HIDE DEF moved, whole
<1>5. playhead = entered /\ playhead \in Nat /\ 2 * playhead + phase = integral
  BY <1>2 DEF ClockOK, PhaseExact
<1>6. gone + phase = 2 * whole + phase'
  BY <1>2, <1>4 DEF moved
<1>7. CASE whole > 0
  <2>1. target' = playhead + whole /\ Running'
    BY <1>2, <1>4, <1>5, <1>7 DEF Running, NoTarget
  <2>2. ClockOK'
    BY <1>1, <1>2, <1>4, <1>5, <1>7, <2>1, SMTT(30) DEF ClockOK
  <2>3. PhaseExact'
    BY <1>1, <1>2, <1>4, <1>5, <1>6, <2>1, SMTT(30) DEF PhaseExact, ClockOK
  <2> QED BY <2>1, <2>2, <2>3
<1>8. CASE ~(whole > 0)
  <2>1. target' = NoTarget /\ ~Running' /\ whole = 0
    BY <1>2, <1>4, <1>8, SMTT(30) DEF Running
  <2>2. ClockOK'
    BY <1>1, <1>2, <1>4, <1>5, <2>1, SMTT(30) DEF ClockOK
  <2>3. PhaseExact'
    BY <1>1, <1>2, <1>4, <1>5, <1>6, <2>1, SMTT(30) DEF PhaseExact, ClockOK
  <2> QED BY <1>2, <2>1, <2>2, <2>3, SMTT(30)
<1> QED BY <1>7, <1>8

(* The calls that leave the cells alone. *)
LEMMA SameCells ==
    ASSUME TimelineInv, UNCHANGED <<future, committed, failures, holes, made>>,
           ClockOK', PhaseExact', NoZombie'
    PROVE  TimelineInv'
BY DEF TimelineInv

(* The calls between two runs of advance_to that open or restore a cell. *)
LEMMA NamingCalls ==
    ASSUME TimelineInv
    PROVE  /\ \A t \in Int : \A lane, p, content :
                  RehydrateCommitted(t, lane, p, content) => TimelineInv'
           /\ \A start \in Int : \A lane, p, r, f :
                  Schedule(start, lane, p, r, f) => TimelineInv'
<1>1. /\ made \in Nat /\ IsLog(committed) /\ IsLog(failures) /\ \A d \in future : CellOK(d)
      /\ Placed(future, committed, failures, holes, made)
      /\ ClockOK /\ PhaseExact /\ NoZombie
  BY DEF TimelineInv
<1>2. ASSUME NEW t \in Int, NEW lane, NEW p, NEW content,
             RehydrateCommitted(t, lane, p, content)
      PROVE  TimelineInv'
  <2>1. PICK r : r = Concrete(made + 1, t, lane, p, content)
    OBVIOUS
  <2>2. /\ committed' = <<r>> /\ made' = made + 1 /\ committed = << >>
        /\ UNCHANGED <<playhead, entered, target, speed, lastPump, phase, integral,
                       future, failures, holes>>
    BY <1>2, <2>1 DEF RehydrateCommitted
  <2>3. committed' = Append(committed, r)
    BY <2>2
  <2>4. r.id = made + 1
    BY <2>1 DEF Concrete
  <2>5. IsLog(committed') /\ Placed(future', committed', failures', holes', made')
    <3>1. IsLog(Append(committed, r))
      BY <1>1, Appended, SMTT(30)
    <3>2. Placed(future, Append(committed, r), failures, holes, made + 1)
      BY <1>1, <2>4, NewIsPlayed, SMTT(30)
    <3>3. /\ future' = future /\ made' = made + 1 /\ failures' = failures /\ holes' = holes
          /\ committed' = Append(committed, r)
      BY <2>2, <2>3, SMTT(30)
    <3> HIDE <2>2, <2>3
    <3> QED BY <3>1, <3>2, <3>3, SMTT(30)
  <2>6. ClockOK' /\ PhaseExact' /\ NoZombie'
    BY <1>1, <2>2, SMTT(30) DEF ClockOK, PhaseExact, NoZombie, Running
  <2> QED BY <1>1, <2>2, <2>5, <2>6 DEF TimelineInv
<1>3. ASSUME NEW start \in Int, NEW lane, NEW p, NEW r, NEW f, Schedule(start, lane, p, r, f)
      PROVE  TimelineInv'
  <2>1. PICK n : n = NewScheduled(made + 1, start, lane, p, r, f)
    OBVIOUS
  <2>2. /\ future' = future \cup {n} /\ made' = made + 1 /\ start > playhead
        /\ UNCHANGED <<playhead, entered, target, speed, lastPump, phase, integral,
                       committed, failures, holes>>
    BY <1>3, <2>1 DEF Schedule
  <2>3. CellOK(n) /\ n.id = made + 1 /\ n.start = start
    BY <1>1, <2>1, NewScheduledOK, SMTT(30) DEF ClockOK
  <2>4. Placed(future', committed', failures', holes', made')
    BY <1>1, <2>2, <2>3, NewIsOpen, SMTT(30)
  <2>5. ClockOK' /\ PhaseExact' /\ NoZombie'
    BY <1>1, <2>2, <2>3 DEF ClockOK, PhaseExact, NoZombie, Running
  <2> QED BY <1>1, <2>2, <2>3, <2>4, <2>5 DEF TimelineInv
<1> QED BY <1>2, <1>3

(* The calls that set the clock, and those that begin and end advance_to. *)
LEMMA ClockCalls ==
    ASSUME TimelineInv
    PROVE  /\ \A s \in Nat : SetClock(s) => TimelineInv'
           /\ \A a : SetAmbient(a) => TimelineInv'
           /\ \A t \in Nat : SeedPlayhead(t) => TimelineInv'
           /\ \A t \in Nat : AdvanceTo(t) => TimelineInv'
           /\ \A w \in Nat : Pump(w) => TimelineInv'
           /\ Arrive => TimelineInv'
<1>1. ClockOK /\ PhaseExact /\ NoZombie /\ \A d \in future : CellOK(d)
  BY DEF TimelineInv
<1>2. ASSUME NEW s \in Nat, SetClock(s) PROVE TimelineInv'
  <2>1. ClockOK' /\ PhaseExact' /\ NoZombie'
    BY <1>1, <1>2, SMTT(30) DEF SetClock, ClockOK, PhaseExact, NoZombie, Running
  <2> QED BY <1>2, <2>1, SameCells, SMTT(30) DEF SetClock
<1>3. ASSUME NEW a, SetAmbient(a) PROVE TimelineInv'
  <2>1. ClockOK' /\ PhaseExact' /\ NoZombie'
    BY <1>1, <1>3 DEF SetAmbient, ClockOK, PhaseExact, NoZombie, Running
  <2> QED BY <1>3, <2>1, SameCells, SMTT(30) DEF SetAmbient
<1>4. ASSUME NEW t \in Nat, SeedPlayhead(t) PROVE TimelineInv'
  <2>1. ClockOK' /\ PhaseExact' /\ NoZombie'
    BY <1>1, <1>4 DEF SeedPlayhead, ClockOK, PhaseExact, NoZombie, Running
  <2> QED BY <1>4, <2>1, SameCells, SMTT(30) DEF SeedPlayhead
<1>5. ASSUME NEW t \in Nat, AdvanceTo(t) PROVE TimelineInv'
  <2>1. Running' /\ ClockOK'
    BY <1>1, <1>5 DEF AdvanceTo, ClockOK, Running, NoTarget
  <2>2. PhaseExact' /\ NoZombie'
    BY <1>1, <1>5, <2>1 DEF AdvanceTo, PhaseExact, NoZombie, ClockOK
  <2> QED BY <1>5, <2>1, <2>2, SameCells, SMTT(30) DEF AdvanceTo
<1>6. ASSUME NEW w \in Nat, Pump(w) PROVE TimelineInv'
  <2>1. ClockOK' /\ PhaseExact' /\ (~Running' => playhead' = playhead)
    BY <1>1, <1>6, PumpClock
  <2>2. UNCHANGED <<future, committed, failures, holes, made>> /\ ~Running
    BY <1>6 DEF Pump
  <2>3. NoZombie'
    BY <1>1, <2>1, <2>2 DEF NoZombie
  <2> QED BY <2>1, <2>2, <2>3, SameCells
<1>7. ASSUME Arrive PROVE TimelineInv'
  <2>1. /\ playhead' = target /\ entered' = target /\ target' = NoTarget
        /\ Running /\ Due = {}
        /\ UNCHANGED <<speed, lastPump, phase, integral, future, committed, failures, holes, made>>
    BY <1>7 DEF Arrive
  <2>2. target \in Nat /\ ~Running'
    BY <1>1, <2>1 DEF ClockOK, Running
  <2>3. \A c \in future : c.start > target
    <3> TAKE c \in future
    <3>1. NextAt(c) \in Int /\ NextAt(c) <= c.start /\ c.start \in Int
      BY <1>1, DueByStart DEF CellOK
    <3>2. ~(NextAt(c) <= target)
      BY <2>1 DEF Due
    <3> QED BY <2>2, <3>1, <3>2
  <2>4. ClockOK' /\ PhaseExact' /\ NoZombie'
    BY <1>1, <2>1, <2>2, <2>3, SMTT(30) DEF ClockOK, PhaseExact, NoZombie
  <2> QED BY <2>1, <2>4, SameCells
<1> QED BY <1>2, <1>3, <1>4, <1>5, <1>6, <1>7, SMTT(30)

(* A turn of the loop. *)
LEMMA FireKeeps ==
    ASSUME TimelineInv, NEW c \in future, Fire(c)
    PROVE  TimelineInv' /\ Turn(c)
<1>1. CellOK(c) /\ ClockOK /\ PhaseExact
  BY DEF TimelineInv
<1>2. Turn(c)
  BY <1>1, FireIsTurn DEF ClockOK
<1>3. /\ made' \in Nat /\ IsLog(committed') /\ IsLog(failures')
      /\ \A d \in future' : CellOK(d)
      /\ Placed(future', committed', failures', holes', made')
  BY <1>2, TurnPlaced
<1>4. /\ Running /\ Running' /\ playhead' = NextAt(c)
      /\ UNCHANGED <<speed, lastPump, phase, target, entered, integral>>
  BY DEF Fire, Running
<1>5. ClockOK' /\ PhaseExact' /\ NoZombie'
  BY <1>1, <1>4, DueByStart DEF ClockOK, PhaseExact, NoZombie
<1> QED BY <1>2, <1>3, <1>5 DEF TimelineInv

(* Every step of the timeline keeps the invariant. *)
LEMMA TimelineStep == TimelineInv /\ [Next]_vars => TimelineInv'
<1> SUFFICES ASSUME TimelineInv, [Next]_vars PROVE TimelineInv'
  OBVIOUS
<1>1. 1..MaxTick \subseteq Nat /\ 1..MaxReading \subseteq Nat /\ Speed \subseteq Nat
  BY TimelineAssumption, SMTT(30)
<1>2. CASE UNCHANGED vars
  BY <1>2, SMTT(30) DEF vars, TimelineInv, ClockOK, PhaseExact, NoZombie, Running
<1>3. CASE Next
  BY <1>1, <1>3, NamingCalls, ClockCalls, FireKeeps DEF Next
<1> QED BY <1>2, <1>3

(***************************************************************************)
(* The invariant of the timeline holds: the clock, the open cells and the  *)
(* ledgers agree with each other after every call and every turn of the    *)
(* loop of advance_to.                                                     *)
(***************************************************************************)
THEOREM TimelineInvariant == Spec => []TimelineInv
BY InitTimeline, TimelineStep, PTL DEF Spec

(***************************************************************************)
(* NoZombie, for every behaviour: when advance_to has returned, every cell *)
(* still open starts after the playhead.                                   *)
(***************************************************************************)
THEOREM NoCellIsPassed == Spec => []NoZombie
<1>1. TimelineInv => NoZombie
  BY DEF TimelineInv
<1> QED BY <1>1, TimelineInvariant, PTL

(***************************************************************************)
(* PhaseExact, for every behaviour: pump neither drops nor counts twice a  *)
(* part of a tick, whatever the tempo was in between.                      *)
(***************************************************************************)
THEOREM NoTimeIsLost == Spec => []PhaseExact
<1>1. TimelineInv => PhaseExact
  BY DEF TimelineInv
<1> QED BY <1>1, TimelineInvariant, PTL

(* A set with at most one element, and it is x. *)
LEMMA OneOrNone ==
    ASSUME NEW S
    PROVE  /\ S = {} => Cardinality(S) = 0
           /\ \A x : S = {x} => Cardinality(S) = 1
BY FS_EmptySet, FS_Singleton, Zenon

(* The entries of a ledger for one cell. *)
LEMMA LogCount ==
    ASSUME NEW s, Once(s), NEW i
    PROVE  Cardinality({k \in DOMAIN s : s[k].id = i}) = IF i \in LogIds(s) THEN 1 ELSE 0
<1> DEFINE S == {k \in DOMAIN s : s[k].id = i}
<1>1. CASE i \in LogIds(s)
  <2>1. PICK k \in DOMAIN s : s[k].id = i
    BY <1>1 DEF LogIds
  <2>2. S = {k}
    BY <2>1 DEF Once
  <2> QED BY <1>1, <2>2, OneOrNone
<1>2. CASE i \notin LogIds(s)
  <2>1. S = {}
    BY <1>2 DEF LogIds
  <2> QED BY <1>2, <2>1, OneOrNone, SMTT(30)
<1> QED BY <1>1, <1>2

(* The open cells of one id. *)
LEMMA OpenCount ==
    ASSUME NEW f, \A c, d \in f : c.id = d.id => c = d, NEW i
    PROVE  Cardinality({c \in f : c.id = i}) = IF i \in SetIds(f) THEN 1 ELSE 0
<1> DEFINE S == {c \in f : c.id = i}
<1>1. CASE i \in SetIds(f)
  <2>1. PICK c \in f : c.id = i
    BY <1>1 DEF SetIds
  <2>2. S = {c}
    BY <2>1
  <2> QED BY <1>1, <2>2, OneOrNone
<1>2. CASE i \notin SetIds(f)
  <2>1. S = {}
    BY <1>2 DEF SetIds
  <2> QED BY <1>2, <2>1, OneOrNone
<1> QED BY <1>1, <1>2

(***************************************************************************)
(* OneFate, for every behaviour: a cell is open, or committed once, or in  *)
(* the failure ledger, or a hole; never two of these, and never lost.      *)
(***************************************************************************)
THEOREM EveryCellHasOneFate == Spec => []OneFate
<1>1. ASSUME TimelineInv PROVE OneFate
  <2> SUFFICES ASSUME NEW i \in 1..made PROVE Fates(i) = 1
    BY DEF OneFate
  <2>1. Placed(future, committed, failures, holes, made)
    BY <1>1, SMTT(30) DEF TimelineInv
  <2>2. Cardinality({c \in future : c.id = i}) = IF i \in SetIds(future) THEN 1 ELSE 0
    BY <2>1, OpenCount, SMTT(30) DEF Placed
  <2>3. Cardinality({k \in DOMAIN committed : committed[k].id = i})
            = IF i \in LogIds(committed) THEN 1 ELSE 0
    BY <2>1, LogCount, SMTT(30) DEF Placed
  <2>4. Cardinality({k \in DOMAIN failures : failures[k].id = i})
            = IF i \in LogIds(failures) THEN 1 ELSE 0
    BY <2>1, LogCount, SMTT(30) DEF Placed
  <2>5. Fates(i) = (IF i \in SetIds(future) THEN 1 ELSE 0)
                   + (IF i \in LogIds(committed) THEN 1 ELSE 0)
                   + (IF i \in LogIds(failures) THEN 1 ELSE 0)
                   + (IF i \in holes THEN 1 ELSE 0)
    BY <2>2, <2>3, <2>4, SMTT(30) DEF Fates
  <2>6. \/ /\ i \in SetIds(future) /\ i \notin LogIds(committed)
           /\ i \notin LogIds(failures) /\ i \notin holes
        \/ /\ i \notin SetIds(future) /\ i \in LogIds(committed)
           /\ i \notin LogIds(failures) /\ i \notin holes
        \/ /\ i \notin SetIds(future) /\ i \notin LogIds(committed)
           /\ i \in LogIds(failures) /\ i \notin holes
        \/ /\ i \notin SetIds(future) /\ i \notin LogIds(committed)
           /\ i \notin LogIds(failures) /\ i \in holes
    BY <2>1 DEF Placed
  <2> QED BY <2>5, <2>6
<1> QED BY <1>1, TimelineInvariant, PTL

-----------------------------------------------------------------------------
(* What is committed is fresh.                                             *)

NewAreFresh ==
    \A c \in future : \A k \in DOMAIN committed' \ DOMAIN committed :
        (committed'[k].id = c.id /\ committed'[k].by # Beat)
            => committed'[k].content = Basis(c)

(* The places a ledger gains. *)
LEMMA NewPlaces ==
    ASSUME NEW s, IsLog(s), NEW x, NEW y
    PROVE  /\ \A k \in DOMAIN Append(s, x) \ DOMAIN s : Append(s, x)[k] = x
           /\ \A k \in DOMAIN Append(Append(s, x), y) \ DOMAIN s :
                 \/ Append(Append(s, x), y)[k] = x
                 \/ Append(Append(s, x), y)[k] = y
<1>1. PICK p : p = Append(s, x)
  BY Zenon
<1>2. PICK q : q = Append(p, y)
  BY Zenon
<1>3. /\ DOMAIN s = 1..Len(s) /\ Len(s) \in Nat /\ DOMAIN p = 1..(Len(s) + 1)
      /\ Len(p) = Len(s) + 1 /\ p[Len(s) + 1] = x /\ IsLog(p)
  BY <1>1, Appended, SMTT(30) DEF IsLog
<1>4. /\ DOMAIN q = 1..(Len(s) + 2) /\ q[Len(s) + 2] = y
      /\ \A k \in 1..(Len(s) + 1) : q[k] = p[k]
  BY <1>2, <1>3, Appended, SMTT(30) DEF IsLog
<1>5. \A k \in DOMAIN p \ DOMAIN s : p[k] = x
  BY <1>3
<1>6. \A k \in DOMAIN q \ DOMAIN s : k = Len(s) + 1 \/ k = Len(s) + 2
  BY <1>3, <1>4, SMTT(30)
<1>7. \A k \in DOMAIN q \ DOMAIN s : q[k] = x \/ q[k] = y
  BY <1>3, <1>4, <1>6, SMTT(30)
<1> QED BY <1>1, <1>2, <1>5, <1>7, SMTT(30)

(* No open cell has the next id. *)
LEMMA NextIdIsNew ==
    ASSUME TimelineInv, NEW c \in future
    PROVE  c.id \in 1..made /\ c.id # made + 1
BY SMTT(30) DEF TimelineInv, Placed, SetIds

(* What the turn of a cell appends to the log, the cell just gave. *)
LEMMA TurnIsFresh ==
    ASSUME TimelineInv, NEW c \in future, Turn(c)
    PROVE  NewAreFresh
<1>1. IsLog(committed) /\ \A d \in future : d.id = c.id => d = c
  BY SMTT(30) DEF TimelineInv, Placed
<1>2. ASSUME NEW r, Fresh(c, r), committed' = Append(committed, r) PROVE NewAreFresh
  <2>1. \A k \in DOMAIN committed' \ DOMAIN committed : committed'[k] = r
    BY <1>1, <1>2, NewPlaces, SMTT(30)
  <2> QED BY <1>1, <1>2, <2>1, SMTT(30) DEF NewAreFresh, Fresh
<1>3. ASSUME NEW r, NEW q, PlaysTwo(c, r, q) PROVE NewAreFresh
  <2>1. \A k \in DOMAIN committed' \ DOMAIN committed : committed'[k] = r \/ committed'[k] = q
    BY <1>1, <1>3, NewPlaces, SMTT(30) DEF PlaysTwo
  <2>2. Fresh(c, r) /\ q.id = made + 1
    BY <1>3 DEF PlaysTwo
  <2> QED BY <1>1, <2>1, <2>2, NextIdIsNew, SMTT(30) DEF NewAreFresh, Fresh
<1>4. ASSUME UNCHANGED committed PROVE NewAreFresh
  BY <1>4 DEF NewAreFresh
<1> QED BY <1>2, <1>3, <1>4, SMTT(30) DEF Turn, Tries, Fails, Skips, Plays, PlaysOpens

(***************************************************************************)
(* CommitsFresh, for every behaviour: commit_or_squash checks the          *)
(* prediction again, so a cell committed for its player has the content    *)
(* its resolver would produce from the context of that moment.             *)
(***************************************************************************)
THEOREM NothingStaleIsCommitted == Spec => CommitsFresh
<1>1. ASSUME TimelineInv, [Next]_vars PROVE [NewAreFresh]_vars
  <2>1. CASE UNCHANGED committed
    BY <2>1 DEF NewAreFresh
  <2>2. ASSUME NEW c \in future, Fire(c) PROVE NewAreFresh
    BY <1>1, <2>2, FireKeeps, TurnIsFresh, SMTT(30)
  <2>3. ASSUME NEW t, NEW lane, NEW p, NEW content, RehydrateCommitted(t, lane, p, content)
        PROVE  NewAreFresh
    <3>1. committed' = <<Concrete(made + 1, t, lane, p, content)>>
      BY <2>3 DEF RehydrateCommitted
    <3>2. \A k \in DOMAIN committed' : committed'[k].id = made + 1
      BY <3>1 DEF Concrete
    <3> QED BY <1>1, <3>2, NextIdIsNew, SMTT(30) DEF NewAreFresh
  <2> QED BY <1>1, <2>1, <2>2, <2>3, ZenonT(40)
         DEF Next, vars, SetClock, SetAmbient, SeedPlayhead, Schedule, AdvanceTo, Pump, Arrive
<1>2. Spec => [][NewAreFresh]_vars
  BY <1>1, TimelineInvariant, PTL DEF Spec
<1> QED BY <1>2, ZenonT(40) DEF CommitsFresh, NewAreFresh

-----------------------------------------------------------------------------
(* The timeline implements Score.                                          *)

(* What the callers see of the open future. *)
Seen(c) == [id |-> c.id, start |-> c.start]
Opened(f) == {Seen(c) : c \in f}

(* Score!LogGrows, from the log p to the log q. *)
Grows(p, q, ids) ==
    /\ Len(q) >= Len(p)
    /\ \A k \in 1..Len(p) : q[k] = p[k]
    /\ \A k \in (Len(p) + 1)..Len(q) : q[k].id \in ids
    /\ \A j, k \in (Len(p) + 1)..Len(q) : q[j].id = q[k].id => j = k

(* A log that nothing was appended to. *)
LEMMA GrowsByNone ==
    ASSUME NEW p, IsLog(p), NEW ids
    PROVE  Grows(p, p, ids)
BY DEF Grows, IsLog

(* A log that one cell was appended to. *)
LEMMA GrowsByOne ==
    ASSUME NEW p, IsLog(p), NEW r, NEW ids, r.id \in ids
    PROVE  Grows(p, Append(p, r), ids)
<1>1. PICK q : q = Append(p, r)
  BY Zenon
<1>2. /\ Len(p) \in Nat /\ Len(q) = Len(p) + 1 /\ q[Len(p) + 1] = r
      /\ \A k \in 1..Len(p) : q[k] = p[k]
  BY <1>1, Appended, SMTT(30) DEF IsLog
<1>3. Grows(p, q, ids)
  BY <1>2, SMTT(30) DEF Grows
<1> QED BY <1>1, <1>3

(* A log that two cells with different ids were appended to. *)
LEMMA GrowsByTwo ==
    ASSUME NEW p, IsLog(p), NEW r, NEW x, NEW ids, r.id \in ids, x.id \in ids, r.id # x.id
    PROVE  Grows(p, Append(Append(p, r), x), ids)
<1>1. PICK q : q = Append(p, r)
  BY Zenon
<1>2. PICK z : z = Append(q, x)
  BY Zenon
<1>3. /\ Len(p) \in Nat /\ Len(q) = Len(p) + 1 /\ q[Len(p) + 1] = r /\ IsLog(q)
      /\ \A k \in 1..Len(p) : q[k] = p[k]
  BY <1>1, Appended, SMTT(30) DEF IsLog
<1>4. /\ Len(z) = Len(p) + 2 /\ z[Len(p) + 2] = x
      /\ \A k \in 1..(Len(p) + 1) : z[k] = q[k]
  BY <1>2, <1>3, Appended, SMTT(30)
<1>5. z[Len(p) + 1] = r /\ \A k \in 1..Len(p) : z[k] = p[k]
  BY <1>3, <1>4, SMTT(30)
<1>6. \A k \in (Len(p) + 1)..Len(z) : k = Len(p) + 1 \/ k = Len(p) + 2
  BY <1>3, <1>4, SMTT(30)
<1>7. Len(z) >= Len(p)
  BY <1>3, <1>4, SMTT(30)
<1>8. Grows(p, z, ids)
  BY <1>4, <1>5, <1>6, <1>7, SMTT(30) DEF Grows
<1> QED BY <1>1, <1>2, <1>8

(* How the picture changes when the future does. *)
LEMMA OpenedLess ==
    ASSUME NEW f, \A c, d \in f : c.id = d.id => c = d, NEW c \in f
    PROVE  Opened(f \ {c}) = Opened(f) \ {Seen(c)} /\ Seen(c) \in Opened(f)
<1>1. \A d \in f : Seen(d) = Seen(c) => d = c
  <2> TAKE d \in f
  <2>1. Seen(d).id = d.id /\ Seen(c).id = c.id
    BY DEF Seen
  <2> QED BY <2>1
<1> QED BY <1>1, SMTT(30) DEF Opened

(* Opening one more cell shows one more promise. *)
LEMMA OpenedMore ==
    ASSUME NEW f, NEW n
    PROVE  Opened(f \cup {n}) = Opened(f) \cup {Seen(n)}
BY SMTT(30) DEF Opened

(* The steps of Score, over these. *)
LEMMA IsOpen ==
    ASSUME NEW n, made' = made + 1, Opened(future') = Opened(future) \cup {Seen(n)},
           n.id = made', n.start > entered, UNCHANGED <<entered, committed>>
    PROVE  Promise!Open
<1>1. Seen(n).id = made' /\ Seen(n).start > entered /\ Seen(n) \in Opened(future')
  BY DEF Seen
<1> QED BY <1>1, SMTT(30) DEF Promise!Open, Opened, Seen

(* A cell that is played, replaced or dropped settles one promise. *)
LEMMA IsSettle ==
    ASSUME NEW o \in Opened(future), made' \in {made, made + 1},
           Grows(committed, committed', {o.id} \cup ((made + 1)..made')),
           \/ Opened(future') = Opened(future) \ {o}
           \/ \E e \in Opened(future') :
                 /\ e.id = made + 1 /\ made' = made + 1
                 /\ Opened(future') = (Opened(future) \ {o}) \cup {e},
           UNCHANGED entered
    PROVE  Promise!Settle
BY Zenon DEF Promise!Settle, Promise!LogGrows, Grows, Opened, Seen

(* The playhead moves on past no open cell: a beat. *)
LEMMA IsBeat ==
    ASSUME entered' > entered, \A c \in future : c.start > entered',
           UNCHANGED <<future, committed, made>>
    PROVE  Promise!Beat
BY SMTT(30) DEF Promise!Beat

(* Recorded cells are hydrated into an empty log: a restore. *)
LEMMA IsRestore ==
    ASSUME committed = << >>, made' > made, UNCHANGED <<entered, future>>,
           Grows(committed, committed', (made + 1)..made')
    PROVE  Promise!Restore
BY DEF Promise!Restore, Promise!LogGrows, Grows

(* What no reader of the promises sees is a stutter. *)
LEMMA IsStutter ==
    ASSUME UNCHANGED <<entered, committed, made>>, Opened(future') = Opened(future)
    PROVE  UNCHANGED Promise!vars
BY ZenonT(40) DEF Promise!vars, Opened, Seen

(* A turn settles its cell, or is not seen. *)
LEMMA TurnRefines ==
    ASSUME TimelineInv, NEW c \in future, Turn(c), UNCHANGED entered
    PROVE  [Promise!Next]_Promise!vars
<1>1. /\ made \in Nat /\ IsLog(committed)
      /\ \A a, b \in future : a.id = b.id => a = b
  BY DEF TimelineInv, Placed
<1>2. PICK o : o = Seen(c)
  OBVIOUS
<1>3. o \in Opened(future) /\ Opened(future \ {c}) = Opened(future) \ {o} /\ o.id = c.id
  BY <1>1, <1>2, OpenedLess, Zenon DEF Seen
<1>4. c.id # made + 1
  BY NextIdIsNew, SMTT(30)
<1>5. ASSUME NEW n, Tries(c, n) PROVE UNCHANGED Promise!vars
  <2>1. Seen(n) = o
    BY <1>2, <1>5, SMTT(30) DEF Tries, Seen
  <2>2. Opened(future') = (Opened(future) \ {o}) \cup {o}
    BY <1>3, <1>5, <2>1, OpenedMore, SMTT(30) DEF Tries
  <2>3. Opened(future') = Opened(future)
    BY <1>3, <2>2
  <2> QED BY <1>5, <2>3, IsStutter, SMTT(30) DEF Tries
<1>6. ASSUME future' = future \ {c}, UNCHANGED <<committed, made>> PROVE Promise!Settle
  <2>1. Grows(committed, committed', {o.id} \cup ((made + 1)..made'))
    BY <1>1, <1>6, GrowsByNone, SMTT(30)
  <2> QED BY <1>3, <1>6, <2>1, IsSettle, Zenon
<1>7. ASSUME NEW r, Plays(c, r) PROVE Promise!Settle
  <2>1. r.id = o.id /\ future' = future \ {c} /\ committed' = Append(committed, r) /\ made' = made
    BY <1>3, <1>7, SMTT(30) DEF Plays, Fresh
  <2>2. Grows(committed, committed', {o.id} \cup ((made + 1)..made'))
    BY <1>1, <2>1, GrowsByOne, SMTT(30)
  <2> QED BY <1>3, <2>1, <2>2, IsSettle, Zenon
<1>8. ASSUME NEW r, NEW q, PlaysTwo(c, r, q) PROVE Promise!Settle
  <2>1. /\ r.id = o.id /\ q.id = made + 1 /\ made' = made + 1 /\ future' = future \ {c}
        /\ committed' = Append(Append(committed, r), q)
    BY <1>3, <1>8, SMTT(30) DEF PlaysTwo, Fresh
  <2>2. q.id \in (made + 1)..made' /\ r.id # q.id
    BY <1>1, <1>3, <1>4, <2>1, SMTT(30)
  <2>3. Grows(committed, committed', {o.id} \cup ((made + 1)..made'))
    BY <1>1, <2>1, <2>2, GrowsByTwo, SMTT(30)
  <2> QED BY <1>3, <2>1, <2>3, IsSettle, Zenon
<1>9. ASSUME NEW r, NEW n, PlaysOpens(c, r, n) PROVE Promise!Settle
  <2>1. /\ r.id = o.id /\ n.id = made + 1 /\ made' = made + 1
        /\ future' = (future \ {c}) \cup {n} /\ committed' = Append(committed, r)
    BY <1>3, <1>9, SMTT(30) DEF PlaysOpens, Fresh
  <2>2. Grows(committed, committed', {o.id} \cup ((made + 1)..made'))
    BY <1>1, <2>1, GrowsByOne, SMTT(30)
  <2>3. PICK e : e = Seen(n)
    BY SMTT(30)
  <2>4. Opened(future') = (Opened(future) \ {o}) \cup {e} /\ e.id = made + 1
    BY <1>3, <2>1, <2>3, OpenedMore, SMTT(30) DEF Seen
  <2>5. e \in Opened(future')
    BY <2>4
  <2> QED BY <1>3, <2>1, <2>2, <2>4, <2>5, IsSettle, Zenon
<1> QED BY <1>5, <1>6, <1>7, <1>8, <1>9, ZenonT(40) DEF Turn, Fails, Skips, Promise!Next

(* Every call of the timeline, and every turn of its loop, is a step of    *)
(* Score or is not seen.                                                   *)
LEMMA StepRefines ==
    ASSUME TimelineInv, TimelineInv', [Next]_vars
    PROVE  [Promise!Next]_Promise!vars
<1>1. ClockOK /\ made \in Nat /\ IsLog(committed)
  BY DEF TimelineInv
<1>2. CASE UNCHANGED <<entered, committed, made, future>>
  BY <1>2, IsStutter, SMTT(30)
<1>3. ASSUME NEW t \in Nat, t > 0, SeedPlayhead(t) PROVE Promise!Beat
  <2>1. entered = 0 /\ future = {} /\ entered' = t /\ UNCHANGED <<future, committed, made>>
    BY <1>1, <1>3, SMTT(30) DEF SeedPlayhead, ClockOK
  <2> QED BY <1>3, <2>1, IsBeat, SMTT(30)
<1>4. ASSUME NEW t, NEW lane, NEW p, NEW content, RehydrateCommitted(t, lane, p, content)
      PROVE  Promise!Restore
  <2>1. PICK r : r = Concrete(made + 1, t, lane, p, content)
    BY SMTT(30)
  <2>2. /\ committed = << >> /\ committed' = Append(committed, r) /\ made' = made + 1
        /\ UNCHANGED <<entered, future>>
    BY <1>4, <2>1, SMTT(30) DEF RehydrateCommitted
  <2>3. r.id \in (made + 1)..made'
    BY <1>1, <2>1, <2>2, SMTT(30) DEF Concrete
  <2>4. Grows(committed, Append(committed, r), (made + 1)..made')
    BY <1>1, <2>3, GrowsByOne, Zenon
  <2>5. Grows(committed, committed', (made + 1)..made')
    BY <2>2, <2>4, SMTT(30)
  <2>6. made' > made
    BY <1>1, <2>2
  <2> QED BY <2>2, <2>5, <2>6, IsRestore, SMTT(30)
<1>5. ASSUME NEW start \in Int, NEW lane, NEW p, NEW r, NEW f, Schedule(start, lane, p, r, f)
      PROVE  Promise!Open
  <2>1. PICK n : n = NewScheduled(made + 1, start, lane, p, r, f)
    BY SMTT(30)
  <2>2. /\ future' = future \cup {n} /\ made' = made + 1 /\ start > entered
        /\ UNCHANGED <<entered, committed>>
    BY <1>1, <1>5, <2>1, SMTT(30) DEF Schedule, ClockOK
  <2>3. n.id = made' /\ n.start = start
    BY <1>1, <2>1, <2>2, NewScheduledOK, SMTT(30) DEF ClockOK
  <2> QED BY <2>2, <2>3, OpenedMore, IsOpen, Zenon
<1>6. ASSUME Arrive PROVE Promise!Beat
  <2>1. /\ entered' = target /\ playhead' = target /\ target' = NoTarget /\ Running
        /\ UNCHANGED <<future, committed, made>>
    BY <1>6 DEF Arrive
  <2>2. target > entered
    BY <1>1, <2>1, SMTT(30) DEF ClockOK
  <2>3. \A c \in future : c.start > entered'
    BY <2>1 DEF TimelineInv, NoZombie, Running
  <2> QED BY <2>1, <2>2, <2>3, IsBeat, SMTT(30)
<1>7. ASSUME NEW c \in future, Fire(c) PROVE [Promise!Next]_Promise!vars
  <2>1. Turn(c) /\ UNCHANGED entered
    BY <1>7, FireKeeps, SMTT(30) DEF Fire
  <2> QED BY <2>1, TurnRefines, SMTT(30)
<1>8. 1..MaxTick \subseteq {t \in Nat : t > 0} /\ 1..MaxTick \subseteq Int
  BY TimelineAssumption, SMTT(30)
<1>9. CASE UNCHANGED vars
  BY <1>2, <1>9, SMTT(30) DEF vars
<1>10. CASE Next
  <2>1. CASE \/ \E s \in Speed : SetClock(s)
             \/ \E a \in Ambient : SetAmbient(a)
             \/ \E t \in 1..MaxTick : AdvanceTo(t)
             \/ \E w \in 1..MaxReading : Pump(w)
    BY <1>2, <2>1 DEF SetClock, SetAmbient, AdvanceTo, Pump
  <2>2. CASE \E t \in 1..MaxTick : SeedPlayhead(t)
    BY <1>3, <1>8, <2>2, SMTT(30) DEF Promise!Next
  <2>3. CASE \E t \in 1..MaxTick, lane \in Lane, p \in Player :
                 RehydrateCommitted(t, lane, p, <<"old", 0>>)
    BY <1>4, <2>3, SMTT(30) DEF Promise!Next
  <2>4. CASE \E start \in 1..MaxTick, lane \in Lane, p \in Player, r \in Recipe :
                 Schedule(start, lane, p, r[1], r[2])
    BY <1>5, <1>8, <2>4, SMTT(30) DEF Promise!Next
  <2>5. CASE Arrive
    BY <1>6, <2>5 DEF Promise!Next
  <2> QED BY <1>7, <1>10, <2>1, <2>2, <2>3, <2>4, <2>5, Zenon DEF Next
<1> QED BY <1>9, <1>10, SMTT(30)

(***************************************************************************)
(* The timeline implements Score: seen from the beat scheduler, time goes  *)
(* forward only, the log only grows, a cell leaves the open future once,   *)
(* and no beat of advance_to passes an open cell.                          *)
(***************************************************************************)
THEOREM TimelineRefinesScore == Spec => ImplementsScore
<1>1. Init => Promise!Init
  BY DEF Init, Promise!Init
<1>2. TimelineInv /\ TimelineInv' /\ [Next]_vars => [Promise!Next]_Promise!vars
  BY StepRefines
<1> QED BY <1>1, <1>2, TimelineInvariant, PTL DEF Spec, ImplementsScore, Promise!Spec
=============================================================================
