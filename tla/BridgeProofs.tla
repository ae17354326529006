---------------------------- MODULE BridgeProofs ----------------------------
(***************************************************************************)
(* Theorems about the bridge from the committed log to the score, for any  *)
(* number of cells, contexts, writers, faults and restarts and any retry   *)
(* budget.                                                                 *)
(*                                                                         *)
(* CursorHonest is not inductive alone: that the remembered source is the  *)
(* head cell's needs that the logs are sequences (appending to them keeps  *)
(* what they hold), and that only an ABC cell is ever half-way.  The bound *)
(* on retries needs what the count and the tries have to do with each      *)
(* other: they differ by at most the one failure behind a crossed cell.    *)
(* That every artifact lands once needs that cells have different numbers, *)
(* and that what the score holds and what was cued is behind the cursor.   *)
(* That no loss is silent needs which failures were spoken of: the cells   *)
(* that were skipped, and the events below the ledger's water mark.        *)
(***************************************************************************)
EXTENDS Bridge, FiniteSetTheorems, TLAPS

(* A log is a sequence of anything. *)
IsLog(s) == \E S : s \in Seq(S)

Cursor == [high : Nat, done : {0, 1}, source : Nat]

(* What the cursor and the two logs are. *)
LogsOK ==
    /\ IsLog(committed) /\ IsLog(score)
    /\ cursor \in Cursor
    /\ cursor.high <= Len(committed)

(* The cell at the cursor is half-way through its group, and its source is *)
(* where the cursor says.                                                  *)
HalfWay ==
    /\ cursor.source # 0 <=> cursor.done = 1
    /\ cursor.done = 1 =>
         /\ cursor.high < Len(committed)
         /\ Kind[HeadCell.cell] = "abc"
         /\ cursor.source \in 1..Len(score)
         /\ score[cursor.source].cell = HeadCell.cell
         /\ score[cursor.source].art = 0

(* ParentTrue without the set. *)
Parents ==
    \A i \in 1..Len(score) : score[i].art = 1 =>
        /\ score[i].parent \in 1..Len(score)
        /\ score[score[i].parent].cell = score[i].cell
        /\ score[score[i].parent].art = 0

CursorInv == LogsOK /\ HalfWay /\ Parents

-----------------------------------------------------------------------------
(* Appending keeps what a sequence holds.                                  *)
LEMMA AppendKeeps ==
  ASSUME NEW s, IsLog(s), NEW e
  PROVE  /\ IsLog(Append(s, e))
         /\ Len(s) \in Nat /\ Len(Append(s, e)) = Len(s) + 1
         /\ \A i \in 1..Len(s) : Append(s, e)[i] = s[i]
         /\ Append(s, e)[Len(s) + 1] = e
<1>1. PICK S : s \in Seq(S)
  BY DEF IsLog
<1>2. s \in Seq(S \cup {e})
  BY <1>1
<1>3. Append(s, e) \in Seq(S \cup {e})
  BY <1>2
<1>4. IsLog(Append(s, e))
  BY <1>3 DEF IsLog
<1> QED BY <1>2, <1>3, <1>4

(* A set of numbers that is not empty has a least one.                      *)
LEMMA LeastNumber ==
  ASSUME NEW T, T \subseteq Nat, T # {}
  PROVE  \E x \in T : \A y \in T : x <= y
<1>1. PICK x \in T : \A y \in T : ~(<<y, x>> \in OpToRel(<, Nat))
  BY NatLessThanWellFounded, WFMin, Zenon
<1>2. \A y \in T : ~(y < x)
  BY <1>1, Zenon DEF OpToRel
<1> QED BY <1>2

(* Positions are finitely many.                                             *)
LEMMA FinitePositions ==
  ASSUME NEW n \in Nat, NEW S, S \subseteq 1..n
  PROVE  IsFiniteSet(S) /\ Cardinality(S) \in Nat
<1>1. IsFiniteSet(1..n)
  <2>1. 1 \in Int /\ n \in Int
    OBVIOUS
  <2> QED BY <2>1, FS_Interval
<1>2. S \in SUBSET (1..n)
  OBVIOUS
<1>3. IsFiniteSet(S)
  BY <1>1, <1>2, FS_Subset, Zenon
<1> QED BY <1>3, FS_CardinalityType

(* The members of a set of positions up to m. *)
Upto(S, m) == {j \in S : j <= m}

(* A finite set of positions has a k-th one. *)
LEMMA KthExists ==
  ASSUME NEW n \in Nat, NEW S, S \subseteq 1..n, NEW k \in 1..Cardinality(S)
  PROVE  \E i \in S : Cardinality(Upto(S, i)) = k
<1> DEFINE Size(m) == Cardinality(Upto(S, m))
           T == {m \in Nat : Size(m) >= k}
<1>1. IsFiniteSet(S) /\ Cardinality(S) \in Nat
  BY FinitePositions, Zenon
<1>2. \A m : \A j : j \in Upto(S, m) <=> j \in S /\ j <= m
  BY DEF Upto
<1>3. \A j \in S : j \in Nat /\ 1 <= j /\ j <= n
  OBVIOUS
<1>4. \A m : IsFiniteSet(Upto(S, m)) /\ Size(m) \in Nat
  <2> SUFFICES ASSUME NEW m PROVE IsFiniteSet(Upto(S, m)) /\ Size(m) \in Nat
    OBVIOUS
  <2>1. Upto(S, m) \subseteq 1..n
    BY Zenon DEF Upto
  <2> QED BY <2>1, FinitePositions
<1>5. Size(n) = Cardinality(S) /\ Size(0) = 0
  <2>1. \A j : j \in Upto(S, n) <=> j \in S
    BY <1>2, <1>3, Zenon
  <2>2. \A j : j \notin Upto(S, 0)
    <3>1. \A j \in S : ~(j <= 0)
      BY <1>3
    <3> QED BY <1>2, <3>1, Zenon
  <2>3. Upto(S, n) = S /\ Upto(S, 0) = {}
    BY <2>1, <2>2
  <2> QED BY <2>3, FS_EmptySet
<1> HIDE DEF Size
<1>6. n \in T /\ 0 \notin T
  BY <1>1, <1>5
<1>7. PICK x \in T : \A y \in T : x <= y
  BY <1>6, LeastNumber, Zenon
<1>8. x \in Nat \ {0} /\ Size(x) >= k
  BY <1>6, <1>7
<1>9. x - 1 \in Nat /\ ~(Size(x - 1) >= k)
  BY <1>7, <1>8
<1>10. Size(x) \in Nat /\ Size(x - 1) \in Nat /\ IsFiniteSet(Upto(S, x - 1))
  BY <1>4
<1>11. \A j \in S : j <= x <=> j <= x - 1 \/ j = x
  BY <1>3, <1>8
<1>12. CASE x \notin S
  <2>1. \A j : j \in Upto(S, x) <=> j \in Upto(S, x - 1)
    BY <1>2, <1>11, <1>12, Zenon
  <2>2. Size(x) = Size(x - 1)
    BY <2>1 DEF Size
  <2> QED BY <1>8, <1>9, <2>2
<1>13. CASE x \in S
  <2>1. \A j : j \in Upto(S, x) <=> j \in Upto(S, x - 1) \cup {x}
    BY <1>2, <1>11, <1>13, Zenon
  <2>2. x \notin Upto(S, x - 1)
    BY <1>2, <1>8
  <2>3. Size(x) = Size(x - 1) + 1
    BY <1>10, <2>1, <2>2, FS_AddElement DEF Size
  <2>4. Size(x) = k
    BY <1>1, <1>8, <1>9, <1>10, <2>3
  <2> QED BY <1>13, <2>4 DEF Size
<1> QED BY <1>12, <1>13

(* The rebuilt log is a sequence, of ABC sources of the score.              *)
LEMMA RebuiltIsLog ==
  ASSUME IsLog(score)
  PROVE  /\ IsLog(Rebuilt) /\ Len(Rebuilt) \in Nat
         /\ \A k \in 1..Len(Rebuilt) :
               \E i \in 1..Len(score) : IsSource(score[i]) /\ Rebuilt[k].cell = score[i].cell
<1>1. PICK n : n = Cardinality(Sources)
  OBVIOUS
<1>2. Len(score) \in Nat /\ Sources \subseteq 1..Len(score)
  BY DEF IsLog, Sources
<1>3. n \in Nat
  BY <1>1, <1>2, FinitePositions, Zenon
<1>4. \A k \in 1..n : Nth(k) \in Sources
  <2> TAKE k \in 1..n
  <2>1. \E i \in Sources : Cardinality(Upto(Sources, i)) = k
    BY <1>1, <1>2, KthExists, Zenon
  <2> QED BY <2>1, Zenon DEF Nth, Upto
<1> DEFINE f(k) == [cell |-> score[Nth(k)].cell, by |-> score[Nth(k)].by]
           T == {f(k) : k \in 1..n}
<1>5. Rebuilt = [k \in 1..n |-> f(k)]
  BY <1>1 DEF Rebuilt
<1>6. \A k : f(k).cell = score[Nth(k)].cell
  OBVIOUS
<1> HIDE DEF f
<1>7. Rebuilt \in Seq(T)
  BY <1>3, <1>5
<1>8. Len(Rebuilt) = n /\ \A k \in 1..n : Rebuilt[k] = f(k)
  BY <1>3, <1>5, <1>7
<1> HIDE DEF T
<1>9. \A k \in 1..n : \E i \in 1..Len(score) : IsSource(score[i]) /\ Rebuilt[k].cell = score[i].cell
  BY <1>2, <1>4, <1>6, <1>8 DEF Sources
<1> QED BY <1>3, <1>7, <1>8, <1>9 DEF IsLog

(* An empty cursor points at no half-way group.                            *)
LEMMA FreshCursor ==
  ASSUME NEW n \in Nat
  PROVE  /\ NewCursor(n) \in Cursor /\ NewCursor(n).high = n
         /\ NewCursor(n).done = 0 /\ NewCursor(n).source = 0
  BY DEF NewCursor, Cursor

(* There is nothing to hold at the start.                                  *)
LEMMA InitCursor == Init => CursorInv
<1> SUFFICES ASSUME Init PROVE CursorInv
  OBVIOUS
<1>1. committed = << >> /\ score = << >> /\ cursor = NewCursor(0)
  BY DEF Init
<1>2. IsLog(<< >>)
  <2>1. << >> \in Seq({})
    OBVIOUS
  <2> QED BY <2>1 DEF IsLog
<1> QED BY <1>1, <1>2, FreshCursor DEF CursorInv, LogsOK, HalfWay, Parents

(* A block of another writer, or any block, at the end of the score        *)
(* disturbs neither the remembered source nor the parents there are.       *)
LEMMA WritesKeep ==
  ASSUME CursorInv, NEW b, b.art # 1, score' = Append(score, b),
         UNCHANGED <<committed, cursor>>
  PROVE  CursorInv'
<1> USE AppendKeeps DEF CursorInv
<1>1. LogsOK'
  BY DEF LogsOK
<1>2. HalfWay'
  BY DEF LogsOK, HalfWay, HeadCell, Cursor
<1>3. Parents'
  BY SMTT(30) DEF LogsOK, Parents
<1> QED BY <1>1, <1>2, <1>3

(* Cells that commit are appended: the head cell stays what it is.         *)
LEMMA CommitsKeep ==
  ASSUME CursorInv, Commits, UNCHANGED <<cursor, score>>
  PROVE  CursorInv'
<1>1. CASE UNCHANGED committed
  BY <1>1 DEF CursorInv, LogsOK, HalfWay, Parents, HeadCell
<1>2. ASSUME NEW e, committed' = Append(committed, e)
      PROVE  CursorInv'
  <2> USE AppendKeeps DEF CursorInv
  <2>1. LogsOK'
    BY <1>2 DEF LogsOK, Cursor
  <2>2. HalfWay'
    BY <1>2 DEF LogsOK, HalfWay, HeadCell, Cursor
  <2>3. Parents'
    BY DEF Parents
  <2> QED BY <2>1, <2>2, <2>3
<1> QED BY <1>1, <1>2, Zenon DEF Commits

(* An artifact lands: the source is remembered where it is, the derived    *)
(* block gets it as parent, and the cursor moves on after the last one.    *)
LEMMA LandKeeps ==
  ASSUME CursorInv, Land
  PROVE  CursorInv'
<1> USE DEF CursorInv
<1> DEFINE b == Block(cursor.done)
<1>1. /\ cursor.high < Len(committed) /\ committed' = committed
      /\ score' = Append(score, b) /\ cursor \in Cursor
      /\ Len(committed) \in Nat /\ Len(score) \in Nat
  BY DEF Land, Behind, lane, LogsOK, IsLog
<1>2. /\ b.cell = HeadCell.cell /\ b.art = cursor.done
      /\ b.parent = IF cursor.done = 0 THEN 0 ELSE cursor.source
  BY DEF Block
<1> HIDE DEF b
<1>3. /\ IsLog(score')
      /\ Len(score') = Len(score) + 1
      /\ \A i \in 1..Len(score) : score'[i] = score[i]
      /\ score'[Len(score) + 1] = b
  BY <1>1, AppendKeeps DEF LogsOK
<1> IsLog(committed')
  BY <1>1, Zenon DEF LogsOK
<1>4. Parents'
  <2> SUFFICES ASSUME NEW i \in 1..Len(score'), score'[i].art = 1
               PROVE  /\ score'[i].parent \in 1..Len(score')
                      /\ score'[score'[i].parent].cell = score'[i].cell
                      /\ score'[score'[i].parent].art = 0
    BY DEF Parents
  <2>1. CASE i \in 1..Len(score)
    BY <2>1, <1>1, <1>3 DEF Parents
  <2>2. CASE i = Len(score) + 1
    BY <2>2, <1>1, <1>2, <1>3 DEF HalfWay, Cursor
  <2> QED BY <2>1, <2>2, <1>1, <1>3
<1>5. CASE cursor.done + 1 = Artifacts(HeadCell)
  <2>1. cursor' = NewCursor(cursor.high + 1)
    BY <1>5 DEF Land
  <2>2. cursor.high + 1 \in Nat
    BY <1>1 DEF Cursor
  <2>3. LogsOK'
    <3>1. cursor' \in Cursor /\ cursor'.high = cursor.high + 1
      BY <2>1, <2>2, FreshCursor
    <3>2. cursor'.high <= Len(committed')
      BY <3>1, <1>1 DEF Cursor
    <3> QED BY <3>1, <3>2, <1>3 DEF LogsOK
  <2>4. HalfWay'
    BY <2>1, <2>2, FreshCursor DEF HalfWay
  <2> QED BY <2>3, <2>4, <1>4
<1>6. CASE cursor.done + 1 # Artifacts(HeadCell)
  <2>1. cursor.done = 0 /\ Kind[HeadCell.cell] = "abc"
    BY <1>6, <1>1 DEF HalfWay, Artifacts, Cursor
  <2>2. cursor' = [cursor EXCEPT !.done = 1, !.source = Len(score) + 1]
    BY <1>6, <2>1, <1>1, <1>3 DEF Land
  <2>3. LogsOK'
    <3>0. cursor' = [high |-> cursor.high, done |-> 1, source |-> Len(score) + 1]
      BY <2>2, <1>1, Zenon DEF Cursor
    <3>1. cursor' \in Cursor /\ cursor'.high = cursor.high
      BY <3>0, <1>1 DEF Cursor
    <3>2. cursor'.high <= Len(committed')
      BY <3>1, <1>1 DEF LogsOK
    <3> QED BY <3>1, <3>2, <1>3 DEF LogsOK
  <2>4. /\ cursor'.done = 1 /\ cursor'.source = Len(score) + 1
        /\ cursor'.high = cursor.high /\ HeadCell' = HeadCell
    BY <2>2, <1>1 DEF Cursor, HeadCell
  <2>5. HalfWay'
    BY <2>1, <2>4, <1>1, <1>2, <1>3 DEF HalfWay
  <2> QED BY <2>3, <2>5, <1>4
<1> QED BY <1>5, <1>6

(* A failed attempt leaves the resume point, or drops it with the cell.    *)
LEMMA FaultKeeps ==
  ASSUME CursorInv, Fault
  PROVE  CursorInv'
<1> USE DEF CursorInv
<1>1. committed' = committed /\ score' = score /\ cursor.high < Len(committed)
  BY SMTT(30) DEF Fault, lane, Behind
<1>2. CASE cursor' = cursor
  BY <1>1, <1>2, SMTT(30) DEF LogsOK, HalfWay, Parents, HeadCell
<1>3. CASE cursor' = NewCursor(cursor.high + 1)
  <2>1. cursor.high + 1 \in Nat /\ cursor.high + 1 <= Len(committed)
    BY <1>1, SMTT(30) DEF LogsOK, Cursor
  <2> QED BY <2>1, <1>1, <1>3, FreshCursor DEF LogsOK, HalfWay, Parents
<1> QED BY <1>2, <1>3 DEF Fault

(* A restart starts past what it found, half-way through nothing.          *)
LEMMA RestartKeeps ==
  ASSUME CursorInv, Restart
  PROVE  CursorInv'
<1>1. committed' = Rebuilt /\ score' = score /\ cursor' = NewCursor(Len(Rebuilt))
  BY DEF Restart, output
<1>2. IsLog(Rebuilt) /\ Len(Rebuilt) \in Nat
  BY RebuiltIsLog DEF CursorInv, LogsOK
<1> QED BY <1>1, <1>2, FreshCursor DEF CursorInv, LogsOK, HalfWay, Parents

(* The invariant is inductive.                                             *)
LEMMA CursorInductive == CursorInv /\ [Next]_vars => CursorInv'
<1> SUFFICES ASSUME CursorInv, [Next]_vars PROVE CursorInv'
  BY SMTT(30)
<1>1. CASE UNCHANGED <<committed, cursor, score>>
  BY <1>1 DEF CursorInv, LogsOK, HalfWay, Parents, HeadCell
<1>2. CASE BeginBeat
  BY <1>2, CommitsKeep DEF BeginBeat, output
<1>3. CASE OtherWrites
  <2>1. Foreign.art # 1
    BY DEF Foreign
  <2> QED BY <1>3, <2>1, WritesKeep DEF OtherWrites, lane, track
<1>4. ASSUME NEW c \in Context, AttachContext(c) \/ DetachContext(c) \/ SchedulePhrase(c)
      PROVE  UNCHANGED <<committed, cursor, score>>
  BY <1>4, SMTT(30) DEF AttachContext, DetachContext, SchedulePhrase, lane, track, output
<1>5. CASE EndBridge \/ Drain \/ EndBeat \/ UNCHANGED vars
  BY <1>5, <1>1 DEF EndBridge, Drain, EndBeat, vars, lane, track, output
<1> QED BY <1>1, <1>2, <1>3, <1>4, <1>5, LandKeeps, FaultKeeps, RestartKeeps DEF Next

(* It holds in every behaviour.                                            *)
THEOREM CursorInvariant == Spec => []CursorInv
  BY InitCursor, CursorInductive, PTL DEF Spec

(* The resume point is always the head cell's own source block.            *)
THEOREM CursorIsHonest == Spec => []CursorHonest
<1>1. CursorInv => CursorHonest
  BY DEF CursorInv, LogsOK, HalfWay, CursorHonest, Behind, Cursor
<1> QED BY <1>1, CursorInvariant, PTL

(* Every derived block hangs under its own cell's source.                  *)
THEOREM ParentsAreTrue == Spec => []ParentTrue
<1>1. CursorInv => ParentTrue
  BY DEF CursorInv, Parents, ParentTrue, Landed
<1> QED BY <1>1, CursorInvariant, PTL

-----------------------------------------------------------------------------
(* The count of failures and the tries of the head cell.  Tries are at     *)
(* most one ahead, and there are none without a head cell or behind one    *)
(* that crossed in this beat.                                              *)
RetryInv ==
    /\ failures \in 0..(Budget - 1) /\ tries \in Nat /\ before \in Nat
    /\ tries <= failures + 1
    /\ ~Behind => tries = 0
    /\ (phase = "bridge" /\ cursor.high > before) => tries = 0

(* A score starts with an empty cursor and no failed beat behind it.        *)
LEMMA InitRetry == Init => RetryInv
<1> SUFFICES ASSUME Init PROVE RetryInv
  OBVIOUS
<1> QED BY BridgeAssumption DEF Init, RetryInv

(* Each step keeps it, given what the cursor is.                           *)
LEMMA RetryInductive == CursorInv /\ CursorInv' /\ RetryInv /\ [Next]_vars => RetryInv'
<1> SUFFICES ASSUME CursorInv, CursorInv', RetryInv, [Next]_vars PROVE RetryInv'
  OBVIOUS
<1>0. /\ cursor.high \in Nat /\ cursor'.high \in Nat /\ Budget \in Nat \ {0}
      /\ Len(committed) \in Nat /\ Len(committed') \in Nat
  BY BridgeAssumption, SMTT(30) DEF CursorInv, LogsOK, Cursor, IsLog
<1>1. CASE UNCHANGED <<phase, committed, cursor, before, failures, tries>>
  BY <1>1, Zenon DEF RetryInv, Behind
<1>2. CASE BeginBeat
  <2>1. /\ cursor' = cursor /\ before' = cursor.high
        /\ failures' = failures /\ tries' = tries
    BY <1>2 DEF BeginBeat
  <2>2. Len(committed') >= Len(committed)
    <3>1. CASE committed' = committed
      BY <3>1, <1>0
    <3>2. ASSUME NEW e, committed' = Append(committed, e)
          PROVE  Len(committed') = Len(committed) + 1
      BY <3>2, AppendKeeps DEF CursorInv, LogsOK
    <3>3. committed' = committed \/ \E e : committed' = Append(committed, e)
      BY <1>2, Zenon DEF BeginBeat, Commits
    <3> QED BY <3>1, <3>2, <3>3, <1>0
  <2>3. ~Behind' => ~Behind
    BY <2>1, <2>2, <1>0 DEF Behind
  <2> QED BY <2>1, <2>3, <1>0 DEF RetryInv
<1>3. CASE Land
  <2>1. /\ tries' = IF cursor'.high > cursor.high THEN 0 ELSE tries
        /\ failures' = failures /\ before' = before /\ phase = "bridge"
        /\ phase' = phase /\ committed' = committed /\ Behind
    BY <1>3 DEF Land, lane
  <2>2. cursor'.high = cursor.high + 1 \/ cursor'.high = cursor.high
    BY <1>3, <1>0 DEF Land, NewCursor, CursorInv, LogsOK, Cursor
  <2>3. CASE cursor'.high = cursor.high + 1
    BY <2>1, <2>3, <1>0 DEF RetryInv
  <2>4. CASE cursor'.high = cursor.high
    BY <2>1, <2>4, <1>0, SMTT(30) DEF RetryInv, Behind
  <2> QED BY <2>2, <2>3, <2>4
<1>4. CASE EndBridge
  BY <1>4, <1>0 DEF EndBridge, RetryInv, Behind, lane
<1>5. CASE Fault
  <2>1. /\ Behind /\ phase = "bridge" /\ phase' = "drain" /\ before' = before
        /\ committed' = committed
        /\ tries' = IF cursor'.high > cursor.high THEN 0 ELSE tries + 1
    BY <1>5 DEF Fault, lane
  <2>2. CASE cursor.high > before
    <3>1. failures' = 0 /\ cursor' = cursor
      BY <1>5, <2>2 DEF Fault
    <3> QED BY <2>1, <2>2, <3>1, <1>0, SMTT(30) DEF RetryInv, Behind
  <2>3. CASE ~(cursor.high > before) /\ failures + 1 < Budget
    <3>1. failures' = failures + 1 /\ cursor' = cursor
      BY <1>5, <2>3, SMTT(30) DEF Fault
    <3> QED BY <2>1, <2>3, <3>1, <1>0, SMTT(30) DEF RetryInv, Behind
  <2>4. CASE ~(cursor.high > before) /\ ~(failures + 1 < Budget)
    <3>1. failures' = 0 /\ cursor'.high = cursor.high + 1
      BY <1>5, <2>4 DEF Fault, NewCursor
    <3> QED BY <2>1, <3>1, <1>0, SMTT(30) DEF RetryInv
  <2> QED BY <2>2, <2>3, <2>4, SMTT(30)
<1>6. CASE EndBeat
  BY <1>6, <1>0 DEF EndBeat, RetryInv, Behind, lane
<1>7. CASE Restart
  BY <1>7, <1>0 DEF Restart, RetryInv
<1>8. ASSUME NEW c \in Context, AttachContext(c) \/ DetachContext(c) \/ SchedulePhrase(c)
      PROVE  UNCHANGED <<phase, committed, cursor, before, failures, tries>>
  BY <1>8, Zenon DEF AttachContext, DetachContext, SchedulePhrase, lane, track
<1>9. CASE Drain \/ OtherWrites \/ UNCHANGED vars
  BY <1>9, <1>1 DEF Drain, OtherWrites, vars, lane, track
<1> QED BY <1>1, <1>2, <1>3, <1>4, <1>5, <1>6, <1>7, <1>8, <1>9, SMTT(30) DEF Next

(* A poison cell is given up after at most one try more than the budget.   *)
THEOREM RetriesAreBounded == Spec => []BoundedRetries
<1>1. RetryInv => BoundedRetries
  BY BridgeAssumption DEF RetryInv, BoundedRetries
<1> QED BY <1>1, InitRetry, RetryInductive, CursorInvariant, PTL DEF Spec

-----------------------------------------------------------------------------
(* What the beat has in hand, and what it has said.                        *)

(* Where this beat began: what is after it is not cued yet. *)
Mark == IF phase = "bridge" THEN before ELSE cursor.high
HasBlock(s, n, art) == \E b \in 1..Len(s) : s[b].cell = n /\ s[b].art = art

(* Cells and blocks are of cells that were committed. *)
Named ==
    /\ made \in Nat /\ skipped \subseteq 1..made
    /\ before \in Nat /\ Mark <= cursor.high
    /\ \A i \in 1..Len(committed) : committed[i].cell \in 1..made
    /\ \A b \in 1..Len(score) : score[b].cell \in 0..made /\ score[b].art \in 0..1

(* The cells the bridge has not passed are in order, not given up, and not *)
(* in the score but for the source of the head cell half-way.              *)
Ahead ==
    /\ \A i, j \in (Mark + 1)..Len(committed) : i < j => committed[i].cell < committed[j].cell
    /\ \A i \in (cursor.high + 1)..Len(committed) :
          /\ committed[i].cell \notin skipped
          /\ \A b \in 1..Len(score) : score[b].cell = committed[i].cell =>
                i = cursor.high + 1 /\ cursor.done = 1 /\ score[b].art = 0

(* No two blocks of a cell are the same artifact. *)
Distinct ==
    \A a, b \in 1..Len(score) :
        (score[a].cell # 0 /\ score[a].cell = score[b].cell /\ score[a].art = score[b].art) => a = b

(* The cells behind the cursor are in the score or were given up; those    *)
(* that crossed in this beat are in the score.                             *)
Past ==
    /\ \A i \in 1..cursor.high :
          HasBlock(score, committed[i].cell, 0) \/ committed[i].cell \in skipped
    /\ phase = "bridge" =>
          \A i \in (before + 1)..cursor.high : HasBlock(score, committed[i].cell, 0)

(* The cues so far are in order, of what is in the score, and before all   *)
(* that may still be cued.                                                 *)
Cued ==
    /\ IsLog(cues)
    /\ \A k \in 1..Len(cues) : cues[k] \in 1..made /\ HasBlock(score, cues[k], 0)
    /\ \A j, k \in 1..Len(cues) : j < k => cues[j] < cues[k]
    /\ \A k \in 1..Len(cues), i \in (Mark + 1)..Len(committed) : cues[k] < committed[i].cell

OnceInv == Named /\ Ahead /\ Distinct /\ Past /\ Cued

(* A notice about a was inserted, or its insert failed. *)
Spoken(ns, l, a) == a \in l \/ \E i \in 1..Len(ns) : ns[i].about = a

(* Every notice is the only one, cells are spoken of when they are given   *)
(* up, events when the water passes them.                                  *)
ToldInv ==
    /\ IsLog(notices) /\ IsLog(ledger) /\ raised \in Nat
    /\ water \in Nat /\ water <= Len(ledger)
    /\ \A i, j \in 1..Len(notices) : notices[i].about = notices[j].about => i = j
    /\ \A i \in 1..Len(notices) : notices[i].about \notin lost
    /\ \A n \in Nat : Spoken(notices, lost, <<"cell", n>>) <=> n \in skipped
    /\ \A e \in Nat : Spoken(notices, lost, <<"event", e>>) => e <= raised
    /\ \A i \in 1..Len(ledger) : ledger[i].event \in 1..raised
    /\ \A i, j \in 1..Len(ledger) : ledger[i].event = ledger[j].event => i = j
    /\ \A i \in 1..Len(ledger) : Spoken(notices, lost, <<"event", ledger[i].event>>) <=> i <= water

(* What a score holds it holds for ever.                                   *)
LEMMA BlockStays ==
  ASSUME NEW s, IsLog(s), NEW e
  PROVE  /\ \A n, a : HasBlock(s, n, a) => HasBlock(Append(s, e), n, a)
         /\ HasBlock(Append(s, e), e.cell, e.art)
<1>1. PICK z : z = Append(s, e)
  BY Zenon
<1>2. /\ Len(s) \in Nat /\ Len(z) = Len(s) + 1 /\ z[Len(s) + 1] = e
      /\ \A k \in 1..Len(s) : z[k] = s[k]
  BY <1>1, AppendKeeps
<1>3. \A n, a : HasBlock(s, n, a) => HasBlock(z, n, a)
  BY <1>2 DEF HasBlock
<1>4. HasBlock(z, e.cell, e.art)
  BY <1>2, SMTT(30) DEF HasBlock
<1> QED BY <1>1, <1>3, <1>4

(* There is nothing to repeat at the start.                                *)
LEMMA InitOnce == Init => OnceInv
<1> SUFFICES ASSUME Init PROVE OnceInv
  OBVIOUS
<1>1. /\ phase = "idle" /\ committed = << >> /\ score = << >> /\ cues = << >>
      /\ cursor.high = 0 /\ before = 0 /\ made = 0 /\ skipped = {}
  BY DEF Init, NewCursor
<1>2. IsLog(cues)
  <2>1. << >> \in Seq({})
    OBVIOUS
  <2> QED BY <1>1, <2>1 DEF IsLog
<1> QED BY <1>1, <1>2, SMTT(30) DEF OnceInv, Named, Ahead, Distinct, Past, Cued, Mark

(* Steps between beats, or that only tell.                                 *)
LEMMA QuietOnce ==
  ASSUME CursorInv, OnceInv, UNCHANGED <<cursor, committed, score, cues, made, skipped>>,
         \/ UNCHANGED <<phase, before>>
         \/ phase # "bridge" /\ phase' # "bridge" /\ before' \in Nat
  PROVE  OnceInv'
<1>0. Named /\ Ahead /\ Distinct /\ Past /\ Cued
  BY Zenon DEF OnceInv
<1>1. Mark' = Mark /\ before' \in Nat
  BY <1>0, Zenon DEF Mark, Named
<1>2. Named' /\ Distinct'
  <2>1. Named'
    BY <1>0, <1>1, Zenon DEF Named
  <2>2. Distinct'
    BY <1>0, Zenon DEF Distinct
  <2> QED BY <2>1, <2>2, Zenon
<1>3. Past'
  BY <1>0, Zenon DEF Past
<1>4. Ahead' /\ Cued'
  <2>1. Ahead'
    BY <1>0, <1>1, Zenon DEF Ahead
  <2>2. Cued'
    BY <1>0, <1>1, Zenon DEF Cued
  <2> QED BY <2>1, <2>2, Zenon
<1> QED BY <1>2, <1>3, <1>4, Zenon DEF OnceInv

(* Places in a log: those after place h, and those after place m before it. *)
LEMMA Span ==
  ASSUME NEW h \in Nat, NEW l \in Nat, NEW i \in (h + 1)..l
  PROVE  i \in 1..l
BY SMT

(* A place after h in a longer log is after h in this one, if it is in it. *)
LEMMA SpanCut ==
  ASSUME NEW h \in Nat, NEW l \in Nat, NEW k \in Nat, NEW i \in (h + 1)..k, i \in 1..l
  PROVE  i \in (h + 1)..l
BY SMT

(* A place after h is after any place before h.                            *)
LEMMA SpanWide ==
  ASSUME NEW m \in Nat, NEW h \in Nat, NEW l \in Nat, m <= h, NEW i \in (h + 1)..l
  PROVE  i \in (m + 1)..l
BY SMT

(* The place after h, and the ones after that.                             *)
LEMMA SpanNext ==
  ASSUME NEW m \in Nat, NEW h \in Nat, NEW l \in Nat, m <= h, NEW i \in (h + 2)..l
  PROVE  /\ i \in (m + 1)..l /\ i \in (h + 1)..l /\ i \in 1..l
         /\ h + 1 \in (m + 1)..l /\ h + 1 < i /\ i # h + 1
BY SMT

(* The head of what is left.                                               *)
LEMMA SpanHead ==
  ASSUME NEW h \in Nat, NEW l \in Nat, h < l
  PROVE  h + 1 \in (h + 1)..l /\ h + 1 \in 1..l
BY SMT

(* A log that is no shorter has all the places.                            *)
LEMMA Within ==
  ASSUME NEW h \in Nat, NEW l \in Nat, h <= l
  PROVE  1..h \subseteq 1..l /\ 0..h \subseteq 0..l /\ h <= h
BY SMT

(* The next number is a new one.                                           *)
LEMMA NewNumber ==
  ASSUME NEW n \in Nat
  PROVE  /\ n + 1 \notin 1..n /\ n + 1 \notin 0..n /\ (n + 1)..n = {} /\ n <= n /\ n + 2 = (n + 1) + 1
         /\ \A i \in 1..(n + 1) : i \in 1..n \/ i = n + 1
BY SMT

(* A beat begins: what commits gets the next number.                       *)
LEMMA BeginOnce ==
  ASSUME CursorInv, OnceInv, BeginBeat
  PROVE  OnceInv'
<1>0. Named /\ Ahead /\ Distinct /\ Past /\ Cued
  BY Zenon DEF OnceInv
<1>1. /\ phase = "idle" /\ phase' = "bridge" /\ before' = cursor.high
      /\ UNCHANGED <<cursor, score, cues, skipped>>
  BY Zenon DEF BeginBeat, output
<1>2. /\ cursor.high \in Nat /\ cursor.high <= Len(committed) /\ Len(committed) \in Nat
      /\ IsLog(committed) /\ made \in Nat /\ cursor.done \in {0, 1} /\ Len(score) \in Nat
  BY <1>0 DEF CursorInv, LogsOK, Cursor, IsLog, Named
<1>3. Mark = cursor.high /\ Mark' = cursor.high
  BY <1>1 DEF Mark
<1>4. /\ made' \in Nat /\ made' >= made /\ Len(committed') \in Nat
      /\ Len(committed') >= Len(committed)
      /\ \A i \in 1..Len(committed) : committed'[i] = committed[i]
      /\ \A i \in 1..Len(committed') : i \in 1..Len(committed)
             \/ (i = Len(committed) + 1 /\ made' = made + 1 /\ committed'[i].cell = made')
  <2>1. CASE UNCHANGED <<committed, made>>
    BY <1>2, <2>1, SMTT(30)
  <2>2. ASSUME NEW by, made' = made + 1, committed' = Append(committed, [cell |-> made', by |-> by])
        PROVE  /\ made' \in Nat /\ made' >= made /\ Len(committed') \in Nat
               /\ Len(committed') >= Len(committed)
               /\ \A i \in 1..Len(committed) : committed'[i] = committed[i]
               /\ \A i \in 1..Len(committed') : i \in 1..Len(committed)
                     \/ (i = Len(committed) + 1 /\ made' = made + 1 /\ committed'[i].cell = made')
    <3>1. PICK e : e = [cell |-> made', by |-> by]
      BY Zenon
    <3>2. e.cell = made'
      BY <3>1, SMTT(30)
    <3>3. committed' = Append(committed, e)
      BY <2>2, <3>1, SMTT(30)
    <3>4. /\ Len(committed') = Len(committed) + 1
          /\ \A i \in 1..Len(committed) : committed'[i] = committed[i]
          /\ committed'[Len(committed) + 1] = e
      BY <1>2, <3>3, AppendKeeps
    <3> QED BY <1>2, <2>2, <3>2, <3>4, SMTT(30)
  <2> QED BY <2>1, <2>2, Zenon DEF BeginBeat, Commits
<1>5. Named'
  <2>1. /\ skipped \subseteq 1..made /\ \A i \in 1..Len(committed) : committed[i].cell \in 1..made
        /\ \A b \in 1..Len(score) : score[b].cell \in 0..made /\ score[b].art \in 0..1
    BY <1>0, Zenon DEF Named
  <2>2. 1..made \subseteq 1..made' /\ 0..made \subseteq 0..made' /\ cursor.high <= cursor.high
    BY <1>2, <1>4
  <2>3. made' = made + 1 => made' \in 1..made'
    BY <1>2
  <2>4. \A i \in 1..Len(committed') : committed'[i].cell \in 1..made'
    BY <1>4, <2>1, <2>2, <2>3, Zenon
  <2>5. made' \in Nat /\ before' \in Nat /\ Mark' <= cursor'.high
    BY <1>1, <1>2, <1>3, <1>4, <2>2, Zenon
  <2> QED BY <1>1, <2>1, <2>2, <2>4, <2>5, Zenon DEF Named
<1>6. Ahead'
  <2>1. \A i, j \in (cursor.high + 1)..Len(committed') :
            i < j => committed'[i].cell < committed'[j].cell
    <3> TAKE i, j \in (cursor.high + 1)..Len(committed')
    <3> HAVE i < j
    <3>1. i \in 1..Len(committed) /\ committed'[i] = committed[i] /\ committed[i].cell \in 1..made
      <4>1. i \in 1..Len(committed)
        BY <1>2, <1>4, SMTT(30)
      <4> QED BY <1>0, <1>4, <4>1, Zenon DEF Named
    <3>2. CASE j \in 1..Len(committed)
      <4>1. committed[i].cell < committed[j].cell
        BY <1>0, <1>2, <1>3, <3>1, <3>2, SMTT(30) DEF Ahead
      <4> QED BY <1>4, <3>1, <3>2, <4>1, Zenon
    <3>3. CASE made' = made + 1 /\ committed'[j].cell = made'
      BY <1>2, <3>1, <3>3, SMTT(30)
    <3>4. j \in 1..Len(committed')
      BY <1>2, <1>4
    <3> QED BY <1>4, <3>2, <3>3, <3>4, SMTT(30)
  <2>2. \A i \in (cursor.high + 1)..Len(committed') :
          /\ committed'[i].cell \notin skipped
          /\ \A b \in 1..Len(score) : score[b].cell = committed'[i].cell =>
                i = cursor.high + 1 /\ cursor.done = 1 /\ score[b].art = 0
    <3> TAKE i \in (cursor.high + 1)..Len(committed')
    <3>1. i \in 1..Len(committed')
      BY <1>2, <1>4, Span, Zenon
    <3>2. CASE i \in 1..Len(committed)
      <4>1. i \in (cursor.high + 1)..Len(committed)
        BY <1>2, <1>4, <3>2, SpanCut, Zenon
      <4>2. committed'[i] = committed[i]
        BY <1>4, <3>2, Zenon
      <4> QED BY <1>0, <4>1, <4>2, Zenon DEF Ahead
    <3>3. CASE made' = made + 1 /\ committed'[i].cell = made'
      <4>1. made + 1 \notin 1..made /\ made + 1 \notin 0..made
        BY <1>2, NewNumber, Zenon
      <4>2. made + 1 \notin skipped /\ \A b \in 1..Len(score) : score[b].cell # made + 1
        BY <1>0, <4>1, Zenon DEF Named
      <4> QED BY <3>3, <4>2, Zenon
    <3> QED BY <1>4, <3>1, <3>2, <3>3, Zenon
  <2> QED BY <1>1, <1>3, <2>1, <2>2, Zenon DEF Ahead
<1>7. Distinct' /\ Past'
  <2>1. Distinct'
    BY <1>0, <1>1 DEF Distinct
  <2>2. Past'
    <3>1. \A i \in 1..cursor.high :
              HasBlock(score, committed[i].cell, 0) \/ committed[i].cell \in skipped
      BY <1>0, Zenon DEF Past
    <3>2. \A i \in 1..cursor.high : committed'[i] = committed[i]
      BY <1>2, <1>4, Within, Zenon
    <3>3. (before' + 1)..cursor.high = {}
      BY <1>1, <1>2, NewNumber, Zenon
    <3> QED BY <1>1, <3>1, <3>2, <3>3, Zenon DEF Past
  <2> QED BY <2>1, <2>2, Zenon
<1>8. Cued'
  <2>1. \A k \in 1..Len(cues), i \in (cursor.high + 1)..Len(committed') : cues[k] < committed'[i].cell
    <3> TAKE k \in 1..Len(cues), i \in (cursor.high + 1)..Len(committed')
    <3>0. Len(committed') \in Nat
      BY <1>4, Zenon
    <3>1. cues[k] \in 1..made /\ i \in 1..Len(committed')
      <4>1. cues[k] \in 1..made
        BY <1>0, Zenon DEF Cued
      <4>2. i \in 1..Len(committed')
        BY <1>2, <3>0, Span, Zenon
      <4> QED BY <4>1, <4>2, Zenon
    <3>2. CASE i \in 1..Len(committed)
      <4>1. cues[k] < committed[i].cell
        <5>1. i \in (cursor.high + 1)..Len(committed)
          BY <1>2, <3>0, <3>2, SpanCut, Zenon
        <5> QED BY <1>0, <1>3, <5>1, Zenon DEF Cued
      <4> QED BY <1>4, <3>2, <4>1
    <3>3. CASE made' = made + 1 /\ committed'[i].cell = made'
      BY <1>2, <3>1, <3>3
    <3> QED BY <1>4, <3>1, <3>2, <3>3
  <2>2. \A k \in 1..Len(cues) : cues[k] \in 1..made' /\ HasBlock(score, cues[k], 0)
    <3>1. 1..made \subseteq 1..made'
      BY <1>2, <1>4
    <3> QED BY <1>0, <3>1, Zenon DEF Cued
  <2> QED BY <1>0, <1>1, <1>3, <2>1, <2>2, Zenon DEF Cued
<1> QED BY <1>5, <1>6, <1>7, <1>8 DEF OnceInv

(* A block of another writer is nobody's artifact.                         *)
LEMMA WritesOnce ==
  ASSUME CursorInv, OnceInv, OtherWrites
  PROVE  OnceInv'
<1>0. Named /\ Ahead /\ Distinct /\ Past /\ Cued
  BY Zenon DEF OnceInv
<1>1. /\ UNCHANGED <<phase, before, cursor, committed, cues, made, skipped>>
      /\ score' = Append(score, Foreign)
  BY DEF OtherWrites, track, lane
<1>2. Foreign.cell = 0 /\ Foreign.art = 0
  BY DEF Foreign
<1>3. PICK e : e = Foreign
  BY SMTT(30)
<1>4. /\ Len(score) \in Nat /\ Len(score') = Len(score) + 1 /\ score'[Len(score) + 1] = e
      /\ \A b \in 1..Len(score) : score'[b] = score[b]
      /\ \A n, a : HasBlock(score, n, a) => HasBlock(score', n, a)
  BY <1>1, <1>3, AppendKeeps, BlockStays, SMTT(30) DEF CursorInv, LogsOK
<1>5. \A b \in 1..Len(score') : b \in 1..Len(score) \/ (score'[b].cell = 0 /\ score'[b].art = 0)
  BY <1>2, <1>3, <1>4
<1>6. Mark' = Mark /\ made \in Nat /\ cursor.high \in Nat
  BY <1>0, <1>1 DEF Mark, Named, CursorInv, LogsOK, Cursor
<1>7. \A i \in 1..Len(committed) : committed[i].cell # 0
  BY <1>0, <1>6, SMTT(30) DEF Named
<1>8. Named'
  BY <1>0, <1>1, <1>4, <1>5, <1>6, SMTT(30) DEF Named
<1>9. Ahead'
  <2>1. \A i, j \in (Mark' + 1)..Len(committed') : i < j => committed'[i].cell < committed'[j].cell
    BY <1>0, <1>1, <1>6, Zenon DEF Ahead
  <2>2. ASSUME NEW i \in (cursor.high + 1)..Len(committed), NEW b \in 1..Len(score'),
               score'[b].cell = committed[i].cell
        PROVE  i = cursor.high + 1 /\ cursor.done = 1 /\ score'[b].art = 0
    <3>1. IsLog(committed)
      BY Zenon DEF CursorInv, LogsOK
    <3>2. i \in 1..Len(committed)
      BY <1>6, <2>2, <3>1 DEF IsLog
    <3>3. b \in 1..Len(score) /\ score[b].cell = committed[i].cell /\ score'[b] = score[b]
      BY <1>4, <1>5, <1>7, <2>2, <3>2, Zenon
    <3> QED BY <1>0, <3>3, Zenon DEF Ahead
  <2>3. \A i \in (cursor.high + 1)..Len(committed) : committed[i].cell \notin skipped
    BY <1>0, Zenon DEF Ahead
  <2> QED BY <1>1, <2>1, <2>2, <2>3, ZenonT(40) DEF Ahead
<1>10. Distinct'
  BY <1>0, <1>4, <1>5, SMTT(30) DEF Distinct
<1>11. Past' /\ Cued'
  BY <1>0, <1>1, <1>4, <1>6 DEF Past, Cued
<1> QED BY <1>8, <1>9, <1>10, <1>11, Zenon DEF OnceInv

(* The restart has nothing in hand, and found what it has in the score.    *)
LEMMA RestartOnce ==
  ASSUME CursorInv, OnceInv, Restart
  PROVE  OnceInv'
<1>0. Named /\ Ahead /\ Distinct /\ Past /\ Cued
  BY Zenon DEF OnceInv
<1>1. /\ phase' = "idle" /\ before' = 0 /\ committed' = Rebuilt
      /\ cursor' = NewCursor(Len(Rebuilt))
      /\ UNCHANGED <<score, cues, made, skipped>>
  BY DEF Restart, output
<1>2. /\ Len(committed') \in Nat
      /\ \A k \in 1..Len(committed') :
            \E i \in 1..Len(score) : IsSource(score[i]) /\ committed'[k].cell = score[i].cell
  BY <1>1, RebuiltIsLog DEF CursorInv, LogsOK
<1>3. cursor'.high = Len(committed') /\ Mark' = cursor'.high
  BY <1>1, <1>2, FreshCursor, SMTT(30) DEF Mark
<1>4. made \in Nat /\ \A b \in 1..Len(score) : score[b].cell \in 0..made
  BY <1>0 DEF Named
<1>5. \A k \in 1..Len(committed') :
          committed'[k].cell \in 1..made /\ HasBlock(score, committed'[k].cell, 0)
  BY <1>2, <1>4, SMTT(30) DEF IsSource, HasBlock
<1>6. Named'
  BY <1>0, <1>1, <1>2, <1>3, <1>5, SMTT(30) DEF Named
<1>7. (Mark' + 1)..Len(committed') = {} /\ (cursor'.high + 1)..Len(committed') = {}
  BY <1>2, <1>3, NewNumber, ZenonT(40)
<1>8. Ahead' /\ Distinct'
  BY <1>0, <1>1, <1>7 DEF Ahead, Distinct
<1>9. Past'
  BY <1>1, <1>3, <1>5, ZenonT(40) DEF Past
<1>10. Cued'
  BY <1>0, <1>1, <1>7, SMTT(30) DEF Cued
<1> QED BY <1>6, <1>8, <1>9, <1>10, SMTT(30) DEF OnceInv

(* A failed attempt: the mark moves up to the cursor, and past the head    *)
(* cell when it is given up.                                               *)
LEMMA FaultOnce ==
  ASSUME CursorInv, OnceInv, Fault
  PROVE  OnceInv'
<1>0. Named /\ Ahead /\ Distinct /\ Past /\ Cued
  BY Zenon DEF OnceInv
<1>1. /\ phase = "bridge" /\ phase' = "drain" /\ cursor.high < Len(committed)
      /\ UNCHANGED <<before, committed, score, cues, made>>
  BY SMTT(30) DEF Fault, Behind, lane
<1>2. /\ cursor.high \in Nat /\ Len(committed) \in Nat /\ before \in Nat
      /\ Mark = before /\ Mark <= cursor.high /\ made \in Nat
  BY <1>0, <1>1 DEF CursorInv, LogsOK, Cursor, IsLog, Named, Mark
<1>3. Mark' = cursor'.high
  BY <1>1 DEF Mark
<1>4. CASE cursor' = cursor /\ skipped' = skipped
  <2>0. /\ cursor.high <= cursor.high
        /\ \A i \in (cursor.high + 1)..Len(committed) : i \in (Mark + 1)..Len(committed)
    BY <1>2, NewNumber, SpanWide, Zenon
  <2>1. Named' /\ Distinct' /\ Past'
    <3>1. Named'
      BY <1>0, <1>1, <1>3, <1>4, <2>0, Zenon DEF Named
    <3>2. Distinct'
      BY <1>0, <1>1, Zenon DEF Distinct
    <3>3. Past'
      <4>1. phase' # "bridge"
        BY <1>1
      <4> QED BY <1>0, <1>1, <1>4, <4>1, Zenon DEF Past
    <3> QED BY <3>1, <3>2, <3>3, Zenon
  <2>2. Ahead'
    <3>1. \A i, j \in (cursor.high + 1)..Len(committed) : i < j => committed[i].cell < committed[j].cell
      BY <1>0, <2>0, Zenon DEF Ahead
    <3> QED BY <1>0, <1>1, <1>3, <1>4, <3>1, ZenonT(40) DEF Ahead
  <2>3. Cued'
    <3>1. \A i \in (cursor.high + 1)..Len(committed) : i \in (Mark + 1)..Len(committed)
      BY <2>0, Zenon
    <3>2. \A k \in 1..Len(cues), i \in (Mark + 1)..Len(committed) : cues[k] < committed[i].cell
      BY <1>0, Zenon DEF Cued
    <3>3. \A k \in 1..Len(cues), i \in (Mark' + 1)..Len(committed) : cues[k] < committed[i].cell
      BY <1>3, <1>4, <3>1, <3>2, SMTT(30)
    <3> QED BY <1>1, <3>3, Zenon DEF OnceInv, Cued
  <2> QED BY <2>1, <2>2, <2>3, Zenon DEF OnceInv
<1>5. CASE cursor' = NewCursor(cursor.high + 1) /\ skipped' = skipped \cup {HeadCell.cell}
  <2>1. cursor'.high = cursor.high + 1 /\ HeadCell = committed[cursor.high + 1]
    BY <1>2, <1>5, FreshCursor, SMTT(30) DEF HeadCell
  <2>2. HeadCell.cell \in 1..made
    BY <1>0, <1>1, <1>2, <2>1, SMTT(30) DEF Named
  <2>3. Named' /\ Distinct'
    <3>0. skipped' \subseteq 1..made
      BY <1>0, <1>5, <2>2, Zenon DEF Named
    <3>1. Mark' <= cursor'.high
      BY <1>2, <1>3, <2>1, SMTT(30)
    <3>2. Named'
      BY <1>0, <1>1, <3>0, <3>1, SMTT(30) DEF Named
    <3>3. Distinct'
      BY <1>0, <1>1, SMTT(30) DEF Distinct
    <3> QED BY <3>2, <3>3
  <2>4. \A i \in (cursor.high + 2)..Len(committed) : HeadCell.cell < committed[i].cell
    <3> TAKE i \in (cursor.high + 2)..Len(committed)
    <3>1. /\ i \in (Mark + 1)..Len(committed) /\ cursor.high + 1 \in (Mark + 1)..Len(committed)
          /\ cursor.high + 1 < i
      BY <1>1, <1>2, SMTT(30)
    <3> QED BY <2>1, <3>1 DEF OnceInv, Ahead
  <2>5. \A i \in (cursor.high + 2)..Len(committed) :
          /\ committed[i].cell \notin skipped' /\ \A b \in 1..Len(score) : score[b].cell # committed[i].cell
    <3> TAKE i \in (cursor.high + 2)..Len(committed)
    <3>1. i \in (cursor.high + 1)..Len(committed) /\ i # cursor.high + 1 /\ i \in 1..Len(committed)
      BY <1>2, SMTT(30)
    <3>2. committed[i].cell \in Nat /\ HeadCell.cell < committed[i].cell
      BY <1>0, <1>2, <2>4, <3>1, SMTT(30) DEF Named
    <3> QED BY <1>5, <2>2, <3>1, <3>2, SMTT(30) DEF OnceInv, Ahead
  <2>6. Ahead'
    <3>0. \A i \in (cursor.high + 2)..Len(committed) : i \in (Mark + 1)..Len(committed)
      BY <1>2, SpanNext, Zenon
    <3>1. \A i, j \in (cursor.high + 2)..Len(committed) : i < j => committed[i].cell < committed[j].cell
      BY <1>0, <3>0, Zenon DEF Ahead
    <3>2. cursor'.high + 1 = cursor.high + 2
      BY <1>2, <2>1, SMTT(30)
    <3> QED BY <1>1, <1>3, <2>5, <3>1, <3>2, Zenon DEF Ahead
  <2>7. Past'
    <3>1. \A i \in 1..(cursor.high + 1) : i \in 1..cursor.high \/ i = cursor.high + 1
      BY <1>2
    <3> QED BY <1>1, <1>2, <1>5, <2>1, <3>1, SMTT(30) DEF OnceInv, Past
  <2>8. Cued'
    <3>1. cursor'.high + 1 = cursor.high + 2
      BY <1>2, <2>1
    <3>2. \A k \in 1..Len(cues), i \in (cursor.high + 2)..Len(committed) : cues[k] < committed[i].cell
      BY <1>0, <1>2, SpanNext, Zenon DEF Cued
    <3> QED BY <1>1, <1>3, <3>1, <3>2, Zenon DEF OnceInv, Cued
  <2> QED BY <2>3, <2>6, <2>7, <2>8, SMTT(30) DEF OnceInv
<1> QED BY <1>4, <1>5, SMTT(30) DEF Fault

(* The bridge is over: what crossed is cued, in order.                     *)
LEMMA EndOnce ==
  ASSUME CursorInv, OnceInv, EndBridge
  PROVE  OnceInv'
<1>0. Named /\ Ahead /\ Distinct /\ Past /\ Cued
  BY Zenon DEF OnceInv
<1>1. /\ phase = "bridge" /\ phase' = "drain" /\ ~(cursor.high < Len(committed))
      /\ cues' = IF Sink THEN cues \o Crossed ELSE cues
      /\ UNCHANGED <<cursor, before, committed, score, made, skipped>>
  BY SMTT(30) DEF EndBridge, Behind, lane
<1>2. /\ cursor.high \in Nat /\ Len(committed) \in Nat /\ before \in Nat
      /\ Mark = before /\ before <= cursor.high /\ made \in Nat /\ cursor.high = Len(committed)
  BY <1>0, <1>1 DEF CursorInv, LogsOK, Cursor, IsLog, Named, Mark
<1>3. Mark' = cursor.high
  BY <1>1, ZenonT(40) DEF Mark
<1>4. Named' /\ Distinct' /\ Past'
  BY <1>0, <1>1, <1>2, <1>3, SMTT(30) DEF Named, Distinct, Past
<1>5. (cursor.high + 1)..Len(committed) = {}
  BY <1>2, SMTT(30)
<1>6. Ahead'
  BY <1>1, <1>3, <1>5, SMTT(30) DEF Ahead
<1>7. CASE cues' = cues
  <2>1. Cued'
    BY <1>0, <1>1, <1>3, <1>5, <1>7, Zenon DEF Cued
  <2> QED BY <1>4, <1>6, <2>1 DEF OnceInv
<1>8. CASE cues' = cues \o Crossed
  <2> DEFINE m == cursor.high - before
             f(i) == committed[before + i].cell
  <2>1. m \in Nat /\ Crossed = [i \in 1..m |-> f(i)]
    BY <1>2 DEF Crossed
  <2>2. \A i \in 1..m : before + i \in (before + 1)..cursor.high /\ before + i \in 1..Len(committed)
    BY <1>2
  <2>3. \A i \in 1..m : f(i) \in 1..made /\ HasBlock(score, f(i), 0)
    BY <1>0, <1>1, <2>2, Zenon DEF Named, Past
  <2>4. \A i, j \in 1..m : i < j => f(i) < f(j)
    <3>1. \A i, j \in 1..m : i < j => before + i < before + j
      BY <1>2, SMTT(30)
    <3>2. \A i \in 1..m : before + i \in (Mark + 1)..Len(committed)
      BY <1>2, <2>2, SMTT(30)
    <3> QED BY <1>0, <3>1, <3>2, Zenon DEF Ahead
  <2>5. \A k \in 1..Len(cues), i \in 1..m : cues[k] < f(i)
    BY <1>0, <1>2, <2>2, SMTT(30) DEF Cued
  <2>6. PICK S : cues \in Seq(S)
    BY <1>0, SMTT(30) DEF Cued, IsLog
  <2> DEFINE T == S \cup {f(i) : i \in 1..m}
  <2>7. cues \in Seq(T) /\ \A i \in 1..m : f(i) \in T
    BY <2>6
  <2> HIDE DEF f, m, T
  <2>8. Crossed \in Seq(T) /\ Len(Crossed) = m /\ \A i \in 1..m : Crossed[i] = f(i)
    BY <2>1, <2>7, SMTT(30)
  <2>9. /\ cues' \in Seq(T) /\ Len(cues) \in Nat /\ Len(cues') = Len(cues) + m
        /\ \A k \in 1..Len(cues) : cues'[k] = cues[k]
        /\ \A k \in (Len(cues) + 1)..(Len(cues) + m) : cues'[k] = f(k - Len(cues))
    BY <1>8, <2>1, <2>7, <2>8, SMTT(30)
  <2>10. \A k \in 1..Len(cues') :
            \/ k \in 1..Len(cues)
            \/ k > Len(cues) /\ k - Len(cues) \in 1..m /\ cues'[k] = f(k - Len(cues))
    BY <2>1, <2>9, SMTT(30)
  <2>11. \A k \in 1..Len(cues') : cues'[k] \in 1..made /\ HasBlock(score, cues'[k], 0)
    BY <1>0, <2>3, <2>9, <2>10, SMTT(30) DEF Cued
  <2>12. \A j, k \in 1..Len(cues') : j < k => cues'[j] < cues'[k]
    <3> TAKE j, k \in 1..Len(cues')
    <3> HAVE j < k
    <3>1. CASE k \in 1..Len(cues)
      <4>1. j \in 1..Len(cues)
        BY <2>9, <3>1, SMTT(30)
      <4> QED BY <2>9, <3>1, <4>1, SMTT(30) DEF OnceInv, Cued
    <3>2. CASE j \in 1..Len(cues) /\ k > Len(cues)
      BY <2>5, <2>9, <2>10, <3>2, SMTT(30)
    <3>3. CASE j > Len(cues) /\ k > Len(cues)
      BY <2>4, <2>9, <2>10, <3>3, SMTT(30)
    <3> QED BY <2>9, <3>1, <3>2, <3>3, SMTT(30)
  <2>13. IsLog(cues')
    BY <2>9, ZenonT(40) DEF IsLog
  <2>14. Cued'
    BY <1>1, <1>3, <1>5, <2>11, <2>12, <2>13, SMTT(30) DEF Cued
  <2> QED BY <1>4, <1>6, <2>14 DEF OnceInv
<1> QED BY <1>1, <1>7, <1>8, SMTT(30)

(* An artifact lands: it is the first of its kind, and when it is the last *)
(* of its cell the cell is in the score.                                   *)
LEMMA LandOnce ==
  ASSUME CursorInv, OnceInv, Land
  PROVE  OnceInv'
<1>0. Named /\ Ahead /\ Distinct /\ Past /\ Cued
  BY Zenon DEF OnceInv
<1>1. PICK e : e = Block(cursor.done)
  OBVIOUS
<1>2. /\ phase = "bridge" /\ phase' = "bridge" /\ cursor.high < Len(committed)
      /\ score' = Append(score, e)
      /\ UNCHANGED <<before, committed, cues, made, skipped>>
  BY <1>1, SMTT(30) DEF Land, Behind, lane
<1>3. /\ cursor.high \in Nat /\ Len(committed) \in Nat /\ before \in Nat
      /\ Mark = before /\ Mark' = before /\ before <= cursor.high /\ made \in Nat
      /\ cursor \in Cursor /\ cursor.done \in {0, 1}
  BY <1>0, <1>2 DEF CursorInv, LogsOK, Cursor, IsLog, Named, Mark
<1>4. PICK n : n = committed[cursor.high + 1].cell
  OBVIOUS
<1>5. e.cell = n /\ e.art = cursor.done /\ HeadCell.cell = n
  BY <1>1, <1>4, Zenon DEF Block, HeadCell
<1>6. cursor.high + 1 \in 1..Len(committed) /\ n \in 1..made
  BY <1>0, <1>2, <1>3, <1>4, SMTT(30) DEF Named
<1>7. /\ Len(score) \in Nat /\ Len(score') = Len(score) + 1 /\ score'[Len(score) + 1] = e
      /\ \A b \in 1..Len(score) : score'[b] = score[b]
      /\ \A m, a : HasBlock(score, m, a) => HasBlock(score', m, a)
      /\ HasBlock(score', e.cell, e.art)
  BY <1>2, AppendKeeps, BlockStays, ZenonT(40) DEF CursorInv, LogsOK
<1>8. \A b \in 1..Len(score') : b \in 1..Len(score) \/ (b = Len(score) + 1 /\ score'[b] = e)
  BY <1>7
<1>9. \A b \in 1..Len(score) : score[b].cell = n => cursor.done = 1 /\ score[b].art = 0
  <2>1. cursor.high + 1 \in (cursor.high + 1)..Len(committed)
    BY <1>2, <1>3, SpanHead, Zenon
  <2> QED BY <1>0, <1>4, <2>1, Zenon DEF Ahead
<1>10. Distinct'
  <2>1. \A b \in 1..Len(score) : score[b].cell = e.cell /\ score[b].art = e.art => FALSE
    BY <1>5, <1>9
  <2> QED BY <1>0, <1>7, <1>8, <2>1, ZenonT(40) DEF Distinct
<1>11. HasBlock(score', n, 0)
  <2>1. CASE cursor.done = 0
    BY <1>5, <1>7, <2>1, Zenon
  <2>2. CASE cursor.done = 1
    <3>1. HasBlock(score, n, 0)
      BY <1>5, <2>2, Zenon DEF CursorInv, HalfWay, HasBlock
    <3> QED BY <1>7, <3>1, Zenon
  <2> QED BY <1>3, <2>1, <2>2, Zenon
<1>12. \A i \in (cursor.high + 2)..Len(committed) : committed[i].cell \in Nat /\ n < committed[i].cell
  <2> TAKE i \in (cursor.high + 2)..Len(committed)
  <2>1. /\ i \in (Mark + 1)..Len(committed) /\ cursor.high + 1 \in (Mark + 1)..Len(committed)
        /\ cursor.high + 1 < i /\ i \in 1..Len(committed)
    BY <1>3, SpanNext, Zenon
  <2>2. n < committed[i].cell
    BY <1>0, <1>4, <2>1, Zenon DEF Ahead
  <2>3. committed[i].cell \in Nat
    <3>1. committed[i].cell \in 1..made
      BY <1>0, <2>1, Zenon DEF Named
    <3> QED BY <1>3, <3>1
  <2> QED BY <2>2, <2>3
<1>13. \A i \in (cursor.high + 2)..Len(committed) :
          /\ committed[i].cell \notin skipped
          /\ \A b \in 1..Len(score') : score'[b].cell # committed[i].cell
  <2> TAKE i \in (cursor.high + 2)..Len(committed)
  <2>1. i \in (cursor.high + 1)..Len(committed) /\ i # cursor.high + 1
    BY <1>3
  <2>2. committed[i].cell \notin skipped /\ \A b \in 1..Len(score) : score[b].cell # committed[i].cell
    BY <1>0, <2>1, Zenon DEF Ahead
  <2>3. committed[i].cell # n
    BY <1>6, <1>12, SMTT(30)
  <2> QED BY <1>5, <1>7, <1>8, <2>2, <2>3, Zenon
<1>14. Cued'
  BY <1>0, <1>2, <1>3, <1>7, Zenon DEF Cued
<1>15. \A b \in 1..Len(score') : score'[b].cell \in 0..made /\ score'[b].art \in 0..1
  <2>1. n \in 0..made /\ cursor.done \in 0..1
    BY <1>3, <1>6
  <2>2. \A b \in 1..Len(score) : score[b].cell \in 0..made /\ score[b].art \in 0..1
    BY <1>0, Zenon DEF Named
  <2> QED BY <1>5, <1>7, <1>8, <2>1, <2>2, Zenon
<1>16. CASE cursor' = NewCursor(cursor.high + 1)
  <2>1. cursor'.high = cursor.high + 1 /\ cursor'.high + 1 = cursor.high + 2
    BY <1>3, <1>16, FreshCursor, SMTT(30)
  <2>2. Named'
    BY <1>0, <1>2, <1>3, <1>15, <2>1, SMTT(30) DEF Named
  <2>3. Ahead'
    BY <1>0, <1>2, <1>3, <1>13, <2>1, Zenon DEF Ahead
  <2>4. \A i \in 1..cursor'.high : i \in 1..cursor.high \/ i = cursor.high + 1
    BY <1>3, <2>1, NewNumber, Zenon
  <2>5. Past'
    <3>1. \A i \in 1..cursor'.high :
              HasBlock(score', committed[i].cell, 0) \/ committed[i].cell \in skipped
      BY <1>0, <1>4, <1>7, <1>11, <2>4, Zenon DEF Past
    <3>2. ASSUME NEW i \in (before + 1)..cursor'.high
          PROVE  HasBlock(score', committed[i].cell, 0)
      <4>1. i \in (before + 1)..cursor.high \/ i = cursor.high + 1
        BY <1>3, <2>1, <3>2, SMTT(30)
      <4> QED BY <1>0, <1>2, <1>4, <1>7, <1>11, <4>1, Zenon DEF Past
    <3> QED BY <1>2, <3>1, <3>2, Zenon DEF Past
  <2> QED BY <1>10, <1>14, <2>2, <2>3, <2>5, SMTT(30) DEF OnceInv
<1>17. CASE cursor.done + 1 # Artifacts(HeadCell)
  <2>1. cursor.done = 0
    BY <1>3, <1>17 DEF CursorInv, HalfWay, Artifacts
  <2>2. cursor'.high = cursor.high /\ cursor'.done = 1
    BY <1>3, <1>17, <2>1 DEF Land, Cursor
  <2>3. Named'
    BY <1>0, <1>2, <1>3, <1>15, <2>2, Zenon DEF Named
  <2>4. \A i \in (cursor.high + 1)..Len(committed) :
          /\ committed[i].cell \notin skipped
          /\ \A b \in 1..Len(score') : score'[b].cell = committed[i].cell =>
                i = cursor.high + 1 /\ score'[b].art = 0
    <3> TAKE i \in (cursor.high + 1)..Len(committed)
    <3>1. CASE i = cursor.high + 1
      <4>1. committed[i].cell \notin skipped
        BY <1>0, <1>3, Zenon DEF Ahead
      <4>2. \A b \in 1..Len(score') : score'[b].cell = n => score'[b].art = 0
        BY <1>5, <1>7, <1>8, <1>9, <2>1, Zenon
      <4> QED BY <1>4, <3>1, <4>1, <4>2, Zenon
    <3>2. CASE i \in (cursor.high + 2)..Len(committed)
      BY <1>13, <3>2, ZenonT(40)
    <3> QED BY <1>3, <3>1, <3>2, SMTT(30)
  <2>5. Ahead'
    <3>1. Ahead
      BY <1>0, Zenon
    <3>2. \A i, j \in (before + 1)..Len(committed) : i < j => committed[i].cell < committed[j].cell
      BY <1>3, <3>1, Zenon DEF Ahead
    <3> QED BY <1>2, <1>3, <2>2, <2>4, <3>2, SMTT(30) DEF Ahead
  <2>6. Past'
    BY <1>0, <1>2, <1>3, <1>7, <2>2, Zenon DEF Past
  <2> QED BY <1>10, <1>14, <2>3, <2>5, <2>6 DEF OnceInv
<1> QED BY <1>16, <1>17, SMTT(30) DEF Land

(* The invariant is inductive.                                             *)
LEMMA OnceInductive == CursorInv /\ OnceInv /\ [Next]_vars => OnceInv'
<1> SUFFICES ASSUME CursorInv, OnceInv, [Next]_vars PROVE OnceInv'
  BY Zenon
<1>1. ASSUME NEW c \in Context, AttachContext(c) \/ DetachContext(c) \/ SchedulePhrase(c)
      PROVE  OnceInv'
  BY <1>1, QuietOnce, ZenonT(40) DEF AttachContext, DetachContext, SchedulePhrase, lane, track, output
<1>2. CASE Drain \/ UNCHANGED vars
  BY <1>2, QuietOnce, SMTT(30) DEF Drain, vars, lane, track, output
<1>3. CASE EndBeat
  BY <1>3, QuietOnce DEF EndBeat, lane, output
<1> QED BY <1>1, <1>2, <1>3, BeginOnce, LandOnce, EndOnce, FaultOnce, WritesOnce, RestartOnce,
           Zenon DEF Next

(* It holds in every behaviour.                                            *)
THEOREM OnceInvariant == Spec => []OnceInv
  BY InitOnce, OnceInductive, CursorInvariant, PTL DEF Spec

(* A set with at most one element.                                         *)
LEMMA AtMostOne ==
  ASSUME NEW S, \A a, b \in S : a = b
  PROVE  Cardinality(S) = IF S = {} THEN 0 ELSE 1
<1>1. CASE S = {}
  BY <1>1, FS_EmptySet
<1>2. ASSUME NEW x \in S PROVE Cardinality(S) = 1
  <2>1. S = {x}
    BY <1>2
  <2> QED BY <2>1, FS_Singleton
<1> QED BY <1>1, <1>2

(* OnceEach, for every behaviour: no artifact is inserted twice, over      *)
(* retries, skips and restarts.                                            *)
THEOREM ArtifactsLandOnce == Spec => []OnceEach
<1>1. ASSUME OnceInv PROVE OnceEach
  <2> SUFFICES ASSUME NEW n \in Cells, NEW art \in 0..1 PROVE Cardinality(Landed(n, art)) <= 1
    BY DEF OnceEach
  <2>1. n # 0
    BY BridgeAssumption DEF Cells
  <2>2. \A a, b \in Landed(n, art) : a = b
    BY <1>1, <2>1, ZenonT(40) DEF OnceInv, Distinct, Landed
  <2> QED BY <2>2, AtMostOne, SMTT(30)
<1> QED BY <1>1, OnceInvariant, PTL

(* CuedOnce, for every behaviour: the sinks are cued for a cell at most    *)
(* once, in the order of the log, and only for what is in the score.       *)
THEOREM CuesAreOnce == Spec => []CuedOnce
<1>1. ASSUME OnceInv PROVE CuedOnce
  <2>1. \A i \in 1..Len(cues) : Landed(cues[i], 0) # {}
    BY <1>1, Zenon DEF OnceInv, Cued, Landed, HasBlock
  <2> QED BY <1>1, <2>1 DEF OnceInv, Cued, CuedOnce
<1> QED BY <1>1, OnceInvariant, PTL

-----------------------------------------------------------------------------
(* Nothing is silent, and nothing is said twice.                           *)

(* Speaking of what was not spoken of.                                     *)
LEMMA Speaks ==
  ASSUME IsLog(notices), NEW about, NEW by, Notify(about, by),
         \A i, j \in 1..Len(notices) : notices[i].about = notices[j].about => i = j,
         \A i \in 1..Len(notices) : notices[i].about \notin lost,
         ~Spoken(notices, lost, about)
  PROVE  /\ IsLog(notices')
         /\ \A i, j \in 1..Len(notices') : notices'[i].about = notices'[j].about => i = j
         /\ \A i \in 1..Len(notices') : notices'[i].about \notin lost'
         /\ \A a : Spoken(notices', lost', a) <=> Spoken(notices, lost, a) \/ a = about
<1>1. ASSUME NEW e, e.about = about, notices' = Append(notices, e), lost' = lost
      PROVE  /\ IsLog(notices')
             /\ \A i, j \in 1..Len(notices') : notices'[i].about = notices'[j].about => i = j
             /\ \A i \in 1..Len(notices') : notices'[i].about \notin lost'
             /\ \A a : Spoken(notices', lost', a) <=> Spoken(notices, lost, a) \/ a = about
  <2>1. /\ IsLog(notices') /\ Len(notices) \in Nat /\ Len(notices') = Len(notices) + 1
        /\ \A i \in 1..Len(notices) : notices'[i] = notices[i]
        /\ notices'[Len(notices) + 1] = e
    BY <1>1, AppendKeeps, SMTT(30)
  <2>2. \A i \in 1..Len(notices') : i \in 1..Len(notices) \/ i = Len(notices) + 1
    BY <2>1
  <2>3. \A i \in 1..Len(notices) : notices[i].about # about
    BY DEF Spoken
  <2>4. about \notin lost
    BY DEF Spoken
  <2>5. \A i, j \in 1..Len(notices') : notices'[i].about = notices'[j].about => i = j
    BY <1>1, <2>1, <2>2, <2>3, SMTT(30)
  <2>6. \A i \in 1..Len(notices') : notices'[i].about \notin lost'
    BY <1>1, <2>1, <2>2, <2>4, Zenon
  <2>7. \A i \in 1..Len(notices) : i \in 1..Len(notices')
    BY <2>1
  <2>8. Len(notices) + 1 \in 1..Len(notices')
    BY <2>1
  <2>9. \A a : Spoken(notices', lost', a) <=> Spoken(notices, lost, a) \/ a = about
    BY <1>1, <2>1, <2>2, <2>7, <2>8, Zenon DEF Spoken
  <2> QED BY <2>1, <2>5, <2>6, <2>9, ZenonT(40)
<1>2. ASSUME lost' = lost \cup {about}, notices' = notices
      PROVE  /\ IsLog(notices')
             /\ \A i, j \in 1..Len(notices') : notices'[i].about = notices'[j].about => i = j
             /\ \A i \in 1..Len(notices') : notices'[i].about \notin lost'
             /\ \A a : Spoken(notices', lost', a) <=> Spoken(notices, lost, a) \/ a = about
  BY <1>2, Zenon DEF Spoken
<1>3. ASSUME NEW to, notices' = Append(notices, [about |-> about, by |-> by, to |-> to]), lost' = lost
      PROVE  \E e : e.about = about /\ notices' = Append(notices, e) /\ lost' = lost
  <2>1. PICK e : e = [about |-> about, by |-> by, to |-> to]
    BY Zenon
  <2> QED BY <1>3, <2>1
<1> QED BY <1>1, <1>2, <1>3, Zenon DEF Notify

(* Cells and events have names of their own.                               *)
LEMMA NamesApart ==
  /\ \A n, e : <<"cell", n>> # <<"event", e>>
  /\ \A m, n : <<"cell", m>> = <<"cell", n>> => m = n
  /\ \A d, e : <<"event", d>> = <<"event", e>> => d = e
  OBVIOUS

(* Nobody was told anything at the start.                                  *)
LEMMA InitTold == Init => ToldInv
<1> SUFFICES ASSUME Init PROVE ToldInv
  OBVIOUS
<1>1. /\ notices = << >> /\ ledger = << >> /\ lost = {} /\ raised = 0 /\ water = 0 /\ skipped = {}
  BY DEF Init
<1>2. IsLog(<< >>)
  <2>1. << >> \in Seq({})
    OBVIOUS
  <2> QED BY <2>1 DEF IsLog
<1>3. Len(notices) = 0 /\ Len(ledger) = 0 /\ 1..0 = {}
  BY <1>1
<1>4. \A a : ~Spoken(notices, lost, a)
  BY <1>1, <1>3 DEF Spoken
<1>5. /\ IsLog(notices) /\ IsLog(ledger) /\ raised \in Nat /\ water \in Nat /\ water <= Len(ledger)
  BY <1>1, <1>2, <1>3
<1>6. \A n : n \notin skipped
  BY <1>1, ZenonT(40)
<1> QED BY <1>3, <1>4, <1>5, <1>6, Zenon DEF ToldInv

(* Steps that tell nobody anything.                                        *)
LEMMA QuietTold ==
  ASSUME ToldInv, UNCHANGED <<notices, lost, ledger, raised, water, skipped>>
  PROVE  ToldInv'
BY ZenonT(40) DEF ToldInv

(* A phrase fails: a new event, after the water.                           *)
LEMMA FailsTold ==
  ASSUME ToldInv, Fails, UNCHANGED <<notices, lost, water, skipped>>
  PROVE  ToldInv'
<1>1. CASE UNCHANGED <<ledger, raised>>
  BY <1>1, QuietTold, ZenonT(40)
<1>2. ASSUME NEW by, raised' = raised + 1,
             ledger' = Append(ledger, [event |-> raised', by |-> by])
      PROVE  ToldInv'
  <2>1. PICK x : x = [event |-> raised', by |-> by]
    BY Zenon
  <2>2. x.event = raised + 1 /\ ledger' = Append(ledger, x)
    BY <1>2, <2>1, Zenon
  <2>3. /\ IsLog(ledger') /\ Len(ledger) \in Nat /\ Len(ledger') = Len(ledger) + 1
        /\ \A i \in 1..Len(ledger) : ledger'[i] = ledger[i]
        /\ ledger'[Len(ledger) + 1] = x
    <3>1. IsLog(ledger)
      BY Zenon DEF ToldInv
    <3> QED BY <2>2, <3>1, AppendKeeps
  <2>4. \A i \in 1..Len(ledger') : i \in 1..Len(ledger) \/ i = Len(ledger) + 1
    BY <2>3
  <2>5. raised \in Nat /\ water \in Nat /\ water <= Len(ledger)
    BY Zenon DEF ToldInv
  <2>6. \A i \in 1..Len(ledger) : ledger[i].event \in 1..raised
    BY Zenon DEF ToldInv
  <2>7. \A i \in 1..Len(ledger') : ledger'[i].event \in 1..raised'
    <3>1. raised' = raised + 1 /\ 1..raised \subseteq 1..raised' /\ raised' \in 1..raised'
      BY <1>2, <2>5
    <3>2. \A i \in 1..Len(ledger) : ledger'[i].event \in 1..raised'
      BY <2>3, <2>6, <3>1, Zenon
    <3>3. ledger'[Len(ledger) + 1].event \in 1..raised'
      BY <2>2, <2>3, <3>1, Zenon
    <3> QED BY <2>4, <3>2, <3>3, Zenon
  <2>8. \A i, j \in 1..Len(ledger') : ledger'[i].event = ledger'[j].event => i = j
    <3>1. \A i \in 1..Len(ledger) : ledger[i].event # raised + 1
      BY <2>5, <2>6, SMTT(30)
    <3>2. \A i, j \in 1..Len(ledger) : ledger[i].event = ledger[j].event => i = j
      BY Zenon DEF ToldInv
    <3>3. ledger'[Len(ledger) + 1].event = raised + 1
      BY <2>2, <2>3, Zenon
    <3>4. \A i \in 1..Len(ledger) : ledger'[i].event = ledger[i].event
      BY <2>3, Zenon
    <3> QED BY <2>4, <3>1, <3>2, <3>3, <3>4, Zenon
  <2>9. ~Spoken(notices, lost, <<"event", raised + 1>>)
    BY <2>5, SMTT(30) DEF ToldInv
  <2>10. \A i \in 1..Len(ledger') : Spoken(notices, lost, <<"event", ledger'[i].event>>) <=> i <= water
    <3> TAKE i \in 1..Len(ledger')
    <3>1. CASE i \in 1..Len(ledger)
      BY <2>3, <3>1, Zenon DEF ToldInv
    <3>2. CASE i = Len(ledger) + 1
      <4>1. ~(i <= water)
        BY <2>5, <3>2, SMTT(30)
      <4> QED BY <2>2, <2>3, <2>9, <3>2, <4>1, Zenon
    <3> QED BY <2>4, <3>1, <3>2, SMTT(30)
  <2>11. \A e \in Nat : Spoken(notices, lost, <<"event", e>>) => e <= raised'
    BY <1>2, <2>5, SMTT(30) DEF ToldInv
  <2>12. raised' \in Nat /\ water <= Len(ledger')
    <3>1. Len(ledger) \in Nat /\ Len(ledger') = Len(ledger) + 1
      BY <2>3, Zenon
    <3> QED BY <1>2, <2>5, <3>1, SMTT(30)
  <2> QED BY <2>3, <2>7, <2>8, <2>10, <2>11, <2>12, ZenonT(40) DEF ToldInv
<1> QED BY <1>1, <1>2, Zenon DEF Fails

(* The water passes one event, which is spoken of now.                     *)
LEMMA DrainTold ==
  ASSUME ToldInv, Drain
  PROVE  ToldInv'
<1>1. /\ water < Len(ledger) /\ water' = water + 1
      /\ UNCHANGED <<ledger, raised, skipped>>
  BY DEF Drain, lane
<1>2. PICK v : v = ledger[water + 1].event
  OBVIOUS
<1>3. PICK about : about = <<"event", v>>
  BY ZenonT(40)
<1>4. Notify(about, ledger[water + 1].by)
  BY <1>1, <1>2, <1>3, ZenonT(40) DEF Drain
<1>5. /\ water \in Nat /\ Len(ledger) \in Nat /\ water + 1 \in 1..Len(ledger) /\ raised \in Nat
  BY <1>1, SMTT(30) DEF ToldInv, IsLog
<1>6. ~(water + 1 <= water) /\ v \in 1..raised
  BY <1>2, <1>5, SMTT(30) DEF ToldInv
<1>7. ~Spoken(notices, lost, about)
  BY <1>2, <1>3, <1>5, <1>6, ZenonT(40) DEF ToldInv
<1>8. /\ IsLog(notices')
      /\ \A i, j \in 1..Len(notices') : notices'[i].about = notices'[j].about => i = j
      /\ \A i \in 1..Len(notices') : notices'[i].about \notin lost'
      /\ \A a : Spoken(notices', lost', a) <=> Spoken(notices, lost, a) \/ a = about
  BY <1>4, <1>7, Speaks, ZenonT(40) DEF ToldInv
<1>9. \A n \in Nat : Spoken(notices', lost', <<"cell", n>>) <=> n \in skipped
  BY <1>3, <1>8, NamesApart, Zenon DEF ToldInv
<1>10. \A e \in Nat : Spoken(notices', lost', <<"event", e>>) => e <= raised
  <2> TAKE e \in Nat
  <2>1. CASE Spoken(notices, lost, <<"event", e>>)
    BY <2>1, ZenonT(40) DEF ToldInv
  <2>2. CASE <<"event", e>> = about
    BY <1>3, <1>5, <1>6, <2>2, NamesApart, SMTT(30)
  <2> QED BY <1>8, <2>1, <2>2, SMTT(30)
<1>11. \A i \in 1..Len(ledger) :
          Spoken(notices', lost', <<"event", ledger[i].event>>) <=> i <= water + 1
  <2> TAKE i \in 1..Len(ledger)
  <2>1. Spoken(notices, lost, <<"event", ledger[i].event>>) <=> i <= water
    BY ZenonT(40) DEF ToldInv
  <2>2. <<"event", ledger[i].event>> = about <=> i = water + 1
    BY <1>2, <1>3, <1>5, NamesApart, ZenonT(40) DEF ToldInv
  <2>3. i <= water + 1 <=> i <= water \/ i = water + 1
    BY <1>5
  <2> QED BY <1>8, <2>1, <2>2, <2>3, SMTT(30)
<1>12. water' \in Nat /\ water' <= Len(ledger)
  BY <1>1, <1>5
<1> QED BY <1>1, <1>8, <1>9, <1>10, <1>11, <1>12, Zenon DEF ToldInv

(* A cell is given up, and that is said; it was never said before.         *)
LEMMA FaultTold ==
  ASSUME CursorInv, OnceInv, ToldInv, Fault
  PROVE  ToldInv'
<1>1. UNCHANGED <<water, ledger, raised>>
  BY DEF Fault, lane
<1>2. CASE UNCHANGED <<skipped, notices, lost>>
  BY <1>1, <1>2, QuietTold, ZenonT(40)
<1>3. CASE /\ skipped' = skipped \cup {HeadCell.cell}
           /\ Notify(<<"cell", HeadCell.cell>>, HeadCell.by)
  <2>1. PICK n : n = HeadCell.cell
    OBVIOUS
  <2>2. PICK about : about = <<"cell", n>>
    BY ZenonT(40)
  <2>3. /\ cursor.high + 1 \in (cursor.high + 1)..Len(committed)
        /\ cursor.high + 1 \in 1..Len(committed)
    BY SMTT(30) DEF Fault, Behind, CursorInv, LogsOK, Cursor, IsLog
  <2>4. n \notin skipped /\ n \in Nat
    BY <2>1, <2>3 DEF OnceInv, Ahead, Named, HeadCell
  <2>5. ~Spoken(notices, lost, about) /\ Notify(about, HeadCell.by)
    BY <1>3, <2>1, <2>2, <2>4, Zenon DEF ToldInv
  <2>6. /\ IsLog(notices')
        /\ \A i, j \in 1..Len(notices') : notices'[i].about = notices'[j].about => i = j
        /\ \A i \in 1..Len(notices') : notices'[i].about \notin lost'
        /\ \A a : Spoken(notices', lost', a) <=> Spoken(notices, lost, a) \/ a = about
    BY <2>5, Speaks, Zenon DEF ToldInv
  <2>7. \A m \in Nat : Spoken(notices', lost', <<"cell", m>>) <=> m \in skipped'
    <3> TAKE m \in Nat
    <3>1. Spoken(notices, lost, <<"cell", m>>) <=> m \in skipped
      BY DEF ToldInv
    <3>2. <<"cell", m>> = about <=> m = n
      BY <2>2, NamesApart, SMTT(30)
    <3> QED BY <1>3, <2>1, <2>6, <3>1, <3>2, Zenon
  <2>8. \A e : Spoken(notices', lost', <<"event", e>>) <=> Spoken(notices, lost, <<"event", e>>)
    BY <2>2, <2>6, NamesApart, ZenonT(40)
  <2> QED BY <1>1, <2>6, <2>7, <2>8, ZenonT(40) DEF ToldInv
<1> QED BY <1>2, <1>3, Zenon DEF Fault

(* A restart empties the ledger; what was said stays said.                 *)
LEMMA RestartTold ==
  ASSUME ToldInv, Restart
  PROVE  ToldInv'
<1>1. ledger' = << >> /\ water' = 0 /\ UNCHANGED <<notices, lost, skipped, raised>>
  BY DEF Restart, output
<1>2. IsLog(ledger') /\ Len(ledger') = 0
  <2>1. << >> \in Seq({})
    OBVIOUS
  <2> QED BY <1>1, <2>1 DEF IsLog
<1> QED BY <1>1, <1>2, SMTT(30) DEF ToldInv

(* The invariant is inductive.                                             *)
LEMMA ToldInductive == CursorInv /\ OnceInv /\ ToldInv /\ [Next]_vars => ToldInv'
<1> SUFFICES ASSUME CursorInv, OnceInv, ToldInv, [Next]_vars PROVE ToldInv'
  BY ZenonT(40)
<1>1. ASSUME NEW c \in Context, AttachContext(c) \/ DetachContext(c) \/ SchedulePhrase(c)
      PROVE  ToldInv'
  BY <1>1, QuietTold, ZenonT(40) DEF AttachContext, DetachContext, SchedulePhrase, lane, track, output
<1>2. CASE BeginBeat
  BY <1>2, FailsTold, SMTT(30) DEF BeginBeat, output
<1>3. CASE Land \/ EndBridge \/ EndBeat
  BY <1>3, QuietTold, SMTT(30) DEF Land, EndBridge, EndBeat, lane, output
<1>4. CASE OtherWrites \/ UNCHANGED vars
  BY <1>4, QuietTold, Zenon DEF OtherWrites, vars, lane, track, output
<1> QED BY <1>1, <1>2, <1>3, <1>4, DrainTold, FaultTold, RestartTold, Zenon DEF Next

(* It holds in every behaviour.                                            *)
THEOREM ToldInvariant == Spec => []ToldInv
  BY InitTold, ToldInductive, CursorInvariant, OnceInvariant, PTL DEF Spec

(* How often something was told.                                           *)
LEMMA ToldCount ==
  ASSUME ToldInv, NEW a
  PROVE  Told(a) = IF Spoken(notices, lost, a) /\ a \notin lost THEN 1 ELSE 0
<1> DEFINE S == {i \in 1..Len(notices) : notices[i].about = a}
<1>1. \A i, j \in S : i = j
  BY Zenon DEF ToldInv
<1>2. S # {} <=> Spoken(notices, lost, a) /\ a \notin lost
  <2>1. \A i \in 1..Len(notices) : notices[i].about \notin lost
    BY Zenon DEF ToldInv
  <2>2. S # {} <=> \E i \in 1..Len(notices) : notices[i].about = a
    BY Zenon
  <2> QED BY <2>1, <2>2, Zenon DEF Spoken
<1>3. Cardinality(S) = IF S = {} THEN 0 ELSE 1
  BY <1>1, AtMostOne
<1> QED BY <1>2, <1>3, Zenon DEF Told

(* NothingSilent, for every behaviour: a cell the cursor has passed is in  *)
(* the score or was given up, and one given up was said so once unless     *)
(* that insert failed too.                                                 *)
THEOREM NoSilentLoss == Spec => []NothingSilent
<1>1. ASSUME OnceInv, ToldInv PROVE NothingSilent
  <2>1. \A i \in 1..cursor.high :
            Landed(committed[i].cell, 0) # {} \/ committed[i].cell \in skipped
    BY <1>1 DEF OnceInv, Past, Landed, HasBlock
  <2>2. ASSUME NEW n \in Cells
        PROVE  Told(<<"cell", n>>) = IF n \in skipped /\ <<"cell", n>> \notin lost THEN 1 ELSE 0
    <3>1. n \in Nat
      BY BridgeAssumption, SMTT(30) DEF Cells
    <3>2. Spoken(notices, lost, <<"cell", n>>) <=> n \in skipped
      BY <1>1, <3>1, Zenon DEF ToldInv
    <3>3. Told(<<"cell", n>>) =
              IF Spoken(notices, lost, <<"cell", n>>) /\ <<"cell", n>> \notin lost THEN 1 ELSE 0
      BY <1>1, ToldCount, Zenon
    <3> QED BY <3>2, <3>3, ZenonT(40)
  <2> QED BY <2>1, <2>2, ZenonT(40) DEF NothingSilent
<1> QED BY <1>1, OnceInvariant, ToldInvariant, PTL

(* FailuresToldOnce, for every behaviour: each resolve failure is told     *)
(* once, and drain_track_failures passes none over.                        *)
THEOREM FailuresAreToldOnce == Spec => []FailuresToldOnce
<1>1. ASSUME ToldInv PROVE FailuresToldOnce
  <2>1. ASSUME NEW e \in 1..MaxFailures
        PROVE  Told(<<"event", e>>) + (IF <<"event", e>> \in lost THEN 1 ELSE 0) <= 1
    <3>1. Told(<<"event", e>>) \in {0, 1} /\ (<<"event", e>> \in lost => Told(<<"event", e>>) = 0)
      BY <1>1, ToldCount, Zenon
    <3> QED BY <3>1
  <2>2. ASSUME NEW i \in 1..water
        PROVE  \/ Told(<<"event", ledger[i].event>>) = 1
               \/ <<"event", ledger[i].event>> \in lost
    <3>1. i \in 1..Len(ledger) /\ i <= water
      BY <1>1, SMTT(30) DEF ToldInv, IsLog
    <3>2. Spoken(notices, lost, <<"event", ledger[i].event>>)
      BY <1>1, <3>1 DEF ToldInv
    <3> QED BY <1>1, <3>2, ToldCount, ZenonT(40)
  <2> QED BY <2>1, <2>2 DEF FailuresToldOnce
<1> QED BY <1>1, ToldInvariant, PTL
=============================================================================
