------------------------ MODULE BlockReplicasProofs ------------------------
(***************************************************************************)
(* The theorems about BlockReplicas, for any number of replicas, blocks,   *)
(* fields and steps. The induction goes over ReplicaInv. Every action is   *)
(* first shown to have the same shape (StepShape), and the conjuncts of    *)
(* the invariant are then proved once for any step of that shape.          *)
(***************************************************************************)
EXTENDS BlockReplicas, BlockLogProofs

(***************************************************************************)
(* What any step does, as far as the invariants are concerned.  Every      *)
(* store evolves; a block that is new in a store was minted there or came  *)
(* in a payload; a payload that is new was computed from its sender's      *)
(* store.                                                                  *)
(***************************************************************************)
StoresEvolve ==
    /\ blocks' = [q \in Replica |-> blocks'[q]]
    /\ clock' \in [Replica -> Nat]
    /\ \A q \in Replica :
            /\ StoreOK(blocks'[q])
            /\ Evolves(blocks[q], blocks'[q])
            /\ q \notin torn => NoneOlder(blocks[q], blocks'[q])
            /\ q \notin torn' => BelowClock(blocks'[q], clock'[q])
    /\ torn' \subseteq Replica

Arrivals ==
    \A q \in Replica : \A id \in DOMAIN blocks'[q] \ DOMAIN blocks[q] :
        \/ id = <<q, lane[q]>>
        \/ \E s \in Replica :
                /\ inflight[s][q] # NoMsg
                /\ id \in DOMAIN inflight[s][q].new
                /\ blocks'[q][id].birth = inflight[s][q].new[id].birth

Sendings ==
    /\ inflight' = [s \in Replica |-> [r \in Replica |-> inflight'[s][r]]]
    /\ \A s, r \in Replica :
            \/ inflight'[s][r] = NoMsg
            \/ inflight'[s][r] = inflight[s][r]
            \/ \E front : inflight'[s][r] = ops_since(blocks[s], front)

StepShape ==
    /\ StoresEvolve
    /\ Arrivals
    /\ Sendings
    /\ lane' \in [Replica -> Nat] /\ LaneAhead'
    /\ edits' \in [Replica -> Nat]

\* A step that brings one store forward, and leaves the others alone, brings
\* all of them forward.
LEMMA OneStoreEvolves ==
    ASSUME ReplicaInv, NEW r \in Replica, NEW ns, NEW nc \in Nat,
           blocks' = [blocks EXCEPT ![r] = ns], clock' = [clock EXCEPT ![r] = nc],
           StoreOK(ns), Evolves(blocks[r], ns),
           r \notin torn => NoneOlder(blocks[r], ns),
           r \notin torn' => BelowClock(ns, nc),
           torn' = torn \/ torn' = torn \cup {r} \/ torn' = torn \ {r}
    PROVE  StoresEvolve
<1>1. blocks' = [q \in Replica |-> IF q = r THEN ns ELSE blocks[q]]
    BY DEF ReplicaInv, TypeOK
<1>2. clock' = [q \in Replica |-> IF q = r THEN nc ELSE clock[q]] /\ clock' \in [Replica -> Nat]
    BY Zenon DEF ReplicaInv, TypeOK
<1>3. torn' \subseteq Replica /\ \A q \in Replica : q # r => (q \in torn <=> q \in torn')
    BY DEF ReplicaInv, TypeOK
<1>4. ASSUME NEW q \in Replica, q # r
      PROVE  /\ StoreOK(blocks[q]) /\ Evolves(blocks[q], blocks[q]) /\ NoneOlder(blocks[q], blocks[q])
             /\ q \notin torn => BelowClock(blocks[q], clock[q])
    BY <1>4, SameStoreEvolves DEF ReplicaInv, TypeOK, ClockDominates, BelowClock
<1> QED BY <1>1, <1>2, <1>3, <1>4, Zenon DEF StoresEvolve

\* Inserting a block or replacing one of the replica's own.
LEMMA PutShape ==
    ASSUME ReplicaInv, NEW r \in Replica, NEW id \in Id, NEW b \in Block, NEW nc \in Nat,
           blocks' = [blocks EXCEPT ![r] = Put(@, id, b)],
           clock' = [clock EXCEPT ![r] = nc], clock[r] <= nc,
           id \in DOMAIN blocks[r] => BlockEvolves(blocks[r][id], b),
           r \notin torn => (\A g \in Field : b.ts[g] <= nc),
           r \notin torn /\ id \in DOMAIN blocks[r] => NotOlder(blocks[r][id], b),
           \/ id \in DOMAIN blocks[r] /\ lane' = lane
           \/ id = <<r, lane[r]>> /\ lane' = [lane EXCEPT ![r] = @ + 1],
           edits' \in [Replica -> Nat],
           inflight' = inflight, torn' = torn
    PROVE  StepShape
<1>1. /\ StoreOK(blocks[r]) /\ clock[r] \in Nat /\ \A q \in Replica : lane[q] \in Nat
      /\ r \notin torn => BelowClock(blocks[r], clock[r])
    BY DEF ReplicaInv, TypeOK, ClockDominates, BelowClock
<1>2. StoresEvolve
    <2> DEFINE ns == Put(blocks[r], id, b)
    <2>1. StoreOK(ns) /\ Evolves(blocks[r], ns)
        BY <1>1, PutEvolves
    <2>2. r \notin torn => BelowClock(ns, nc) /\ NoneOlder(blocks[r], ns)
        BY <1>1, PutNewer
    <2>3. blocks' = [blocks EXCEPT ![r] = ns]
        OBVIOUS
    <2> HIDE DEF ns
    <2> QED BY <2>1, <2>2, <2>3, OneStoreEvolves, Zenon
<1>3. blocks' = [q \in Replica |-> IF q = r THEN Put(blocks[r], id, b) ELSE blocks[q]]
    BY DEF ReplicaInv, TypeOK
<1>4. DOMAIN Put(blocks[r], id, b) = DOMAIN blocks[r] \cup {id}
    BY DEF Put
<1>5. Arrivals
    BY <1>3, <1>4 DEF Arrivals
<1>6. Sendings
    BY DEF Sendings, ReplicaInv, TypeOK
<1>7. lane' \in [Replica -> Nat] /\ \A q \in Replica : lane[q] <= lane'[q]
    <2>1. lane \in [Replica -> Nat]
        BY DEF ReplicaInv, TypeOK
    <2>2. lane' = lane \/ lane' = [lane EXCEPT ![r] = lane[r] + 1]
        OBVIOUS
    <2> QED BY <1>1, <2>1, <2>2
<1>8. ASSUME NEW q \in Replica, NEW i \in DOMAIN blocks'[q], i[1] = q
      PROVE  i[2] < lane'[q]
    <2>1. CASE i \in DOMAIN blocks[q]
        <3>1. i[2] \in Nat /\ i[2] < lane[q]
            BY <2>1, <1>8 DEF ReplicaInv, TypeOK, StoreOK, LaneAhead, Id
        <3> QED BY <1>1, <1>7, <3>1
    <2>2. CASE i \notin DOMAIN blocks[q]
        <3>1. q = r /\ i = id
            BY <2>2, <1>3, <1>4
        <3>2. i = <<r, lane[r]>> /\ lane'[r] = lane[r] + 1
            BY <2>2, <3>1 DEF ReplicaInv, TypeOK
        <3> QED BY <1>1, <3>1, <3>2
    <2> QED BY <2>1, <2>2
<1>9. LaneAhead'
    BY <1>8 DEF LaneAhead
<1> QED BY <1>2, <1>5, <1>6, <1>7, <1>9 DEF StepShape

\* Steps that change no block.
LEMMA QuietShape ==
    ASSUME ReplicaInv, blocks' = blocks, lane' = lane, edits' = edits, torn' = torn,
           clock' \in [Replica -> Nat], \A q \in Replica : clock[q] <= clock'[q],
           Sendings
    PROVE  StepShape
<1>1. ASSUME NEW q \in Replica
      PROVE  /\ StoreOK(blocks[q]) /\ Evolves(blocks[q], blocks[q]) /\ NoneOlder(blocks[q], blocks[q])
             /\ q \notin torn => BelowClock(blocks[q], clock'[q])
    <2>1. StoreOK(blocks[q]) /\ clock[q] \in Nat /\ clock'[q] \in Nat /\ clock[q] <= clock'[q]
        BY DEF ReplicaInv, TypeOK
    <2>2. ASSUME NEW id \in DOMAIN blocks[q], NEW f \in Field, q \notin torn
          PROVE  blocks[q][id].ts[f] \in Nat /\ blocks[q][id].ts[f] <= clock[q]
        BY <2>1, <2>2 DEF StoreOK, Block, ReplicaInv, ClockDominates
    <2>3. q \notin torn => BelowClock(blocks[q], clock'[q])
        BY <2>1, <2>2 DEF BelowClock
    <2> QED BY <2>1, <2>3, SameStoreEvolves
<1>2. StoresEvolve
    BY <1>1 DEF StoresEvolve, ReplicaInv, TypeOK
<1> QED BY <1>2 DEF StepShape, Arrivals, ReplicaInv, TypeOK, LaneAhead

\* A store that takes up blocks of the payload in flight has the shape: what is
\* new in it came in that payload.
LEMMA ArrivalShape ==
    ASSUME ReplicaInv, NEW s \in Replica, NEW r \in Replica, inflight[s][r] # NoMsg, NEW ns,
           blocks' = [blocks EXCEPT ![r] = ns], StoresEvolve,
           DOMAIN ns = DOMAIN blocks[r] \cup DOMAIN inflight[s][r].new,
           \A id \in DOMAIN ns \ DOMAIN blocks[r] : ns[id].birth = inflight[s][r].new[id].birth,
           lane' = lane, edits' = edits,
           inflight' = [inflight EXCEPT ![s][r] = NoMsg]
    PROVE  StepShape
<1>1. blocks' = [q \in Replica |-> IF q = r THEN ns ELSE blocks[q]]
    BY DEF ReplicaInv, TypeOK
<1>2. Arrivals
    BY <1>1 DEF Arrivals
<1>3. Sendings
    BY Zenon DEF Sendings, ReplicaInv, TypeOK
<1>4. ASSUME NEW q \in Replica, NEW i \in DOMAIN blocks'[q], i[1] = q
      PROVE  i[2] < lane'[q]
    <2>1. i \in DOMAIN blocks[q]
        BY <1>1, <1>4 DEF ReplicaInv, OriginKept
    <2> QED BY <2>1, <1>4 DEF ReplicaInv, LaneAhead
<1>5. LaneAhead' /\ lane' \in [Replica -> Nat] /\ edits' \in [Replica -> Nat]
    BY <1>4 DEF LaneAhead, ReplicaInv, TypeOK
<1> QED BY <1>2, <1>3, <1>5 DEF StepShape

\* Merging the payload in flight has the shape.
LEMMA MergeShape ==
    ASSUME ReplicaInv, NEW s \in Replica, NEW r \in Replica, inflight[s][r] # NoMsg,
           merge_ops(r, inflight[s][r]), lane' = lane, edits' = edits,
           inflight' = [inflight EXCEPT ![s][r] = NoMsg]
    PROVE  StepShape
<1> DEFINE p == inflight[s][r]
           bs == blocks[r]
           ns == MergedBlocks(r, bs, p)
<1>1. /\ StoreOK(bs) /\ PayloadOK(p) /\ clock[r] \in Nat
      /\ r \notin torn => BelowClock(bs, clock[r])
    BY DEF ReplicaInv, TypeOK, ClockDominates, BelowClock
<1>2. PICK m \in RemoteStamps(bs, p) \cup {0} :
            /\ IsMax(m, RemoteStamps(bs, p) \cup {0})
            /\ clock' = [clock EXCEPT ![r] = MergedClock(clock[r], bs, p, m)]
    BY Zenon DEF merge_ops
<1>3. m \in Nat /\ \A x \in RemoteStamps(bs, p) : x <= m
    BY <1>1, <1>2, RemoteStampsNat DEF IsMax
<1>4. blocks' = [blocks EXCEPT ![r] = ns] /\ torn' = torn
    BY DEF merge_ops
<1>5. TakesUp(bs, p, ns)
    BY <1>1, MergedStore
<1>6. r \notin torn => BelowClock(ns, MergedClock(clock[r], bs, p, m))
    BY <1>1, <1>3, MergedBelowClock
<1>7. MergedClock(clock[r], bs, p, m) \in Nat
    BY <1>1, <1>3, MergedClockBounds
<1> HIDE DEF ns
<1>8. StoresEvolve
    BY <1>2, <1>4, <1>5, <1>6, <1>7, OneStoreEvolves, Zenon DEF TakesUp
<1> QED BY <1>4, <1>5, <1>8, ArrivalShape, Zenon DEF TakesUp

\* So has a merge that fails: the clock may now be behind, and torn says so.
LEMMA MergeFailsShape ==
    ASSUME ReplicaInv, NEW s \in Replica, NEW r \in Replica, inflight[s][r] # NoMsg,
           merge_ops_fails(r, inflight[s][r]), lane' = lane, edits' = edits,
           inflight' = [inflight EXCEPT ![s][r] = NoMsg]
    PROVE  StepShape
<1> DEFINE p == inflight[s][r]
           bs == blocks[r]
<1>1. StoreOK(bs) /\ PayloadOK(p) /\ clock[r] \in Nat
    BY DEF ReplicaInv, TypeOK
<1>2. PICK done : blocks' = [blocks EXCEPT ![r] = PartlyMerged(r, bs, p, done)]
    BY Zenon DEF merge_ops_fails
<1> DEFINE ns == PartlyMerged(r, bs, p, done)
<1>3. TakesUp(bs, p, ns)
    BY <1>1, PartlyMergedStore
<1>4. blocks' = [blocks EXCEPT ![r] = ns]
    BY <1>2
<1>5. clock' = [clock EXCEPT ![r] = clock[r]] /\ torn' = torn \cup {r} /\ r \in torn'
    BY DEF merge_ops_fails, ReplicaInv, TypeOK
<1> HIDE DEF ns
<1>6. StoresEvolve
    BY <1>1, <1>3, <1>4, <1>5, OneStoreEvolves, Zenon DEF TakesUp
<1> QED BY <1>3, <1>4, <1>6, ArrivalShape, Zenon DEF TakesUp

\* A restart has the shape: it forgets no block and no tombstone, and the new
\* clock and lane are past them.
LEMMA RestartShape ==
    ASSUME ReplicaInv, NEW r \in Replica, Restart(r)
    PROVE  StepShape
<1> DEFINE bs == blocks[r]
           ns == RestoredStore(r, bs)
<1>1. StoreOK(bs) /\ \A id \in DOMAIN bs : \A f \in Field : bs[id].ts[f] \in Nat
    BY DEF ReplicaInv, TypeOK, StoreOK, Block
<1>2. PICK m \in LiveStamps(blocks[r]) \cup {0} :
            IsMax(m, LiveStamps(blocks[r]) \cup {0}) /\ clock' = [clock EXCEPT ![r] = m]
    BY Zenon DEF Restart
<1>3. m \in Nat
    BY <1>1, <1>2 DEF LiveStamps, Stamps, Live
<1>4. \A id \in Live(bs) : \A f \in Field : bs[id].ts[f] <= m
    BY <1>2 DEF IsMax, LiveStamps, Stamps
<1>5. StoreOK(ns) /\ BelowClock(ns, m) /\ Evolves(bs, ns) /\ NoneOlder(bs, ns)
    BY <1>1, <1>3, <1>4, RestoredBelowClock, RestoredEvolves
<1>6. blocks' = [blocks EXCEPT ![r] = ns] /\ DOMAIN ns = DOMAIN bs /\ torn' = torn \ {r}
    BY DEF Restart, RestoredStore
<1> HIDE DEF ns
<1>7. StoresEvolve
    BY <1>2, <1>3, <1>5, <1>6, OneStoreEvolves, Zenon
<1>8. \A q \in Replica : DOMAIN blocks'[q] = DOMAIN blocks[q]
    BY <1>6 DEF ReplicaInv, TypeOK
<1>9. Arrivals
    BY <1>8 DEF Arrivals
<1>10. Sendings
    <2>1. inflight' = [inflight EXCEPT ![r] = [q \in Replica |-> NoMsg]]
        BY DEF Restart
    <2>2. inflight = [t \in Replica |-> [q \in Replica |-> inflight[t][q]]]
        BY DEF ReplicaInv, TypeOK
    <2>3. \A t \in Replica : inflight'[t] = IF t = r THEN [q \in Replica |-> NoMsg] ELSE inflight[t]
        BY <2>1, <2>2
    <2>4. inflight' = [t \in Replica |-> inflight'[t]]
        BY <2>1, <2>2
    <2>5. \A t \in Replica : inflight'[t] = [q \in Replica |-> inflight'[t][q]]
        BY <2>2, <2>3, Zenon
    <2>6. inflight' = [t \in Replica |-> [q \in Replica |-> inflight'[t][q]]]
        BY <2>4, <2>5
    <2>7. \A t, q \in Replica : inflight'[t][q] = NoMsg \/ inflight'[t][q] = inflight[t][q]
        BY <2>3
    <2> QED BY <2>6, <2>7 DEF Sendings
<1>11. PICK n \in OwnSeqs(r, blocks[r]) \cup {0} :
            IsMax(n, OwnSeqs(r, blocks[r]) \cup {0}) /\ lane' = [lane EXCEPT ![r] = n]
    BY Zenon DEF Restart
<1>12. n \in Nat
    BY <1>1, <1>11 DEF OwnSeqs, StoreOK, Id
<1>13. lane' \in [Replica -> Nat]
    BY <1>11, <1>12 DEF ReplicaInv, TypeOK
<1>14. ASSUME NEW q \in Replica, NEW i \in DOMAIN blocks'[q], i[1] = q
       PROVE  i[2] < lane'[q]
    <2>1. i \in DOMAIN blocks[q]
        BY <1>8
    <2>2. CASE q = r
        <3>1. i[2] \in Nat
            BY <1>1, <2>1, <2>2 DEF StoreOK, Id
        <3>2. i[2] + 1 \in OwnSeqs(r, blocks[r])
            BY <1>14, <2>1, <2>2 DEF OwnSeqs
        <3>3. lane'[q] = n /\ i[2] + 1 <= n
            BY <1>11, <2>2, <3>2 DEF IsMax, ReplicaInv, TypeOK
        <3> QED BY <1>12, <3>1, <3>3
    <2>3. CASE q # r
        BY <1>11, <1>14, <2>1, <2>3, Zenon DEF ReplicaInv, TypeOK, LaneAhead
    <2> QED BY <2>2, <2>3
<1>15. LaneAhead' /\ edits' \in [Replica -> Nat]
    BY <1>14 DEF LaneAhead, ReplicaInv, TypeOK, Restart
<1> QED BY <1>7, <1>9, <1>10, <1>13, <1>15, SMTT(30) DEF StepShape

\* The inserts have the shape: the new block has the id the lane was at.
LEMMA InsertShape ==
    ASSUME ReplicaInv, NEW r \in Replica, NEW birth \in Birth, NEW pos \in Pos,
           InsertUnstamped(r, birth, pos) \/ \E v \in Val : InsertBlock(r, birth, pos, v)
    PROVE  StepShape
<1>1. /\ clock \in [Replica -> Nat] /\ lane[r] \in Nat /\ edits \in [Replica -> Nat]
      /\ <<r, lane[r]>> \in Id /\ 0 \in Val
    BY LogAssumption DEF ReplicaInv, TypeOK, Id, Val
<1> DEFINE i == <<r, lane[r]>>
<1>2. i \in Id /\ i \notin DOMAIN blocks[r]
    BY <1>1 DEF ReplicaInv, LaneAhead
<1>3. CASE InsertUnstamped(r, birth, pos)
    <2> DEFINE b == NewBlock(birth, pos, 0, 0, r)
    <2>0. b \in Block /\ b.ts = [g \in Field |-> 0]
        BY <1>1, NewBlockType DEF NewBlock
    <2>1. b \in Block /\ \A g \in Field : b.ts[g] <= clock[r]
        BY <1>1, <2>0
    <2>2. clock' = [clock EXCEPT ![r] = clock[r]] /\ clock[r] \in Nat
        BY <1>1, <1>3 DEF InsertUnstamped
    <2>3. /\ blocks' = [blocks EXCEPT ![r] = Put(@, i, b)]
          /\ i = <<r, lane[r]>> /\ lane' = [lane EXCEPT ![r] = @ + 1]
          /\ edits' = edits /\ inflight' = inflight /\ torn' = torn
        BY <1>3 DEF InsertUnstamped
    <2>4. clock[r] \in Nat /\ clock[r] <= clock[r] /\ edits' \in [Replica -> Nat]
        BY <1>1, <2>3
    <2> HIDE DEF b, i
    <2>5. i \in DOMAIN blocks[r] => BlockEvolves(blocks[r][i], b) /\ NotOlder(blocks[r][i], b)
        BY <1>2
    <2> QED BY <1>2, <2>1, <2>2, <2>3, <2>4, <2>5, PutShape, Zenon
<1>4. ASSUME NEW v \in Val, InsertBlock(r, birth, pos, v)
      PROVE  StepShape
    <2> DEFINE b == NewBlock(birth, pos, v, clock[r] + 1, r)
    <2>1. clock[r] + 1 \in Nat /\ clock[r] <= clock[r] + 1
        BY <1>1
    <2>0. b \in Block /\ b.ts = [g \in Field |-> clock[r] + 1]
        BY <2>1, NewBlockType DEF NewBlock
    <2>2. b \in Block /\ \A g \in Field : b.ts[g] <= clock[r] + 1
        BY <2>0, <2>1
    <2>3. /\ blocks' = [blocks EXCEPT ![r] = Put(@, i, b)]
          /\ clock' = [clock EXCEPT ![r] = clock[r] + 1]
          /\ i = <<r, lane[r]>> /\ lane' = [lane EXCEPT ![r] = @ + 1]
          /\ edits' = edits /\ inflight' = inflight /\ torn' = torn
        BY <1>4 DEF InsertBlock
    <2>4. clock[r] \in Nat /\ clock[r] <= clock[r] /\ edits' \in [Replica -> Nat]
        BY <1>1, <2>3
    <2> HIDE DEF b, i
    <2>5. i \in DOMAIN blocks[r] => BlockEvolves(blocks[r][i], b) /\ NotOlder(blocks[r][i], b)
        BY <1>2
    <2> QED BY <1>2, <2>1, <2>2, <2>3, <2>4, <2>5, PutShape, Zenon
<1> QED BY <1>3, <1>4

\* The mutations of one block have the shape.
LEMMA MutateShape ==
    ASSUME ReplicaInv, NEW r \in Replica, NEW id \in DOMAIN blocks[r],
           \/ \E f \in Field, v \in Val : SetField(r, id, f, v)
           \/ EditText(r, id)
           \/ \E pos \in Pos : MoveBlock(r, id, pos)
           \/ \E a \in Aside : SetAside(r, id, a)
           \/ DeleteBlock(r, id)
    PROVE  StepShape
<1> DEFINE b == blocks[r][id]
           c == clock[r]
<1>1. /\ b \in Block /\ id \in Id
      /\ c \in Nat /\ c + 1 \in Nat /\ c <= c + 1
      /\ clock \in [Replica -> Nat] /\ edits \in [Replica -> Nat]
    BY DEF ReplicaInv, TypeOK, StoreOK
<1>2. r \notin torn => \A g \in Field : b.ts[g] \in Nat /\ b.ts[g] <= c /\ b.ts[g] <= c + 1
    BY <1>1 DEF Block, ReplicaInv, ClockDominates
<1> HIDE DEF b
<1>3. ASSUME NEW f \in Field, NEW v \in Val, SetField(r, id, f, v)
      PROVE  StepShape
    <2> DEFINE n == WithField(b, f, v, c + 1)
    <2>1. clock' = [clock EXCEPT ![r] = c + 1] /\ lane' = lane /\ edits' = edits /\ inflight' = inflight /\ torn' = torn
        BY <1>3 DEF SetField
    <2>2. CASE blocks' = blocks
        <3>1. clock' \in [Replica -> Nat] /\ \A q \in Replica : clock[q] <= clock'[q]
            BY <1>1, <2>1
        <3>2. Sendings
            BY <2>1 DEF Sendings, ReplicaInv, TypeOK
        <3> QED BY <2>1, <2>2, <3>1, <3>2, QuietShape
    <2>3. CASE blocks' = [blocks EXCEPT ![r] = Put(@, id, n)]
        <3>1. n \in Block /\ BlockEvolves(b, n)
            BY <1>1, WithFieldType, WithFieldEvolves
        <3>2. r \notin torn => NotOlder(b, n) /\ \A g \in Field : n.ts[g] <= c + 1
            BY <1>1, <1>2, WithFieldEvolves
        <3> HIDE DEF n
        <3> QED BY <1>1, <2>1, <2>3, <3>1, <3>2, PutShape, Zenon DEF b
    <2> QED BY <1>3, <2>2, <2>3 DEF SetField, b
<1>4. ASSUME NEW n \in Block, n.birth = b.birth, b.deleted => n.deleted, n.val = b.val, n.ts = b.ts,
             blocks' = [blocks EXCEPT ![r] = Put(@, id, n)],
             \/ clock' = clock
             \/ clock' = [clock EXCEPT ![r] = c + 1],
             lane' = lane, edits' \in [Replica -> Nat], inflight' = inflight, torn' = torn
      PROVE  StepShape
    <2>1. BlockEvolves(b, n) /\ NotOlder(b, n)
        BY <1>1, <1>4, NotOlderRefl DEF BlockEvolves, NotOlder
    <2>2. PICK nc \in {c, c + 1} : clock' = [clock EXCEPT ![r] = nc]
        BY <1>1, <1>4
    <2>3. nc \in Nat /\ c <= nc /\ (r \notin torn => \A g \in Field : n.ts[g] <= nc)
        BY <1>1, <1>2, <1>4
    <2> QED BY <1>1, <1>4, <2>1, <2>2, <2>3, PutShape, Zenon DEF b
<1>5. CASE EditText(r, id)
    <2> DEFINE n == WithEdit(b, <<r, edits[r] + 1>>)
    <2>1. <<r, edits[r] + 1>> \in Edit /\ edits' \in [Replica -> Nat]
        BY <1>1, <1>5 DEF Edit, EditText
    <2>2. n \in Block /\ n.birth = b.birth /\ n.deleted = b.deleted /\ n.val = b.val /\ n.ts = b.ts
        BY <1>1, <2>1 DEF Block, WithEdit
    <2>3. blocks' = [blocks EXCEPT ![r] = Put(@, id, n)] /\ UNCHANGED <<clock, lane, inflight, torn>>
        BY <1>5 DEF EditText, b
    <2> HIDE DEF n
    <2> QED BY <1>4, <2>1, <2>2, <2>3, Zenon
<1>6. ASSUME NEW pos \in Pos, MoveBlock(r, id, pos)
      PROVE  StepShape
    <2> DEFINE n == [b EXCEPT !.pos = pos]
    <2>1. n \in Block /\ n.birth = b.birth /\ n.deleted = b.deleted /\ n.val = b.val /\ n.ts = b.ts
        BY <1>1 DEF Block
    <2>2. blocks' = [blocks EXCEPT ![r] = Put(@, id, n)] /\ UNCHANGED <<clock, lane, edits, inflight, torn>>
        BY <1>6 DEF MoveBlock, b
    <2> HIDE DEF n
    <2> QED BY <1>1, <1>4, <2>1, <2>2, Zenon
<1>8. ASSUME NEW a \in Aside, SetAside(r, id, a)
      PROVE  StepShape
    <2> DEFINE n == [b EXCEPT !.aside = a]
    <2>1. n \in Block /\ n.birth = b.birth /\ n.deleted = b.deleted /\ n.val = b.val /\ n.ts = b.ts
        BY <1>1 DEF Block
    <2>2. blocks' = [blocks EXCEPT ![r] = Put(@, id, n)] /\ UNCHANGED <<clock, lane, edits, inflight, torn>>
        BY <1>8 DEF SetAside, b
    <2> HIDE DEF n
    <2> QED BY <1>1, <1>4, <2>1, <2>2, Zenon
<1>7. CASE DeleteBlock(r, id)
    <2> DEFINE n == [b EXCEPT !.deleted = TRUE]
    <2>1. n \in Block /\ n.birth = b.birth /\ n.deleted /\ n.val = b.val /\ n.ts = b.ts
        BY <1>1, Zenon DEF Block
    <2>2. /\ blocks' = [blocks EXCEPT ![r] = Put(@, id, n)] /\ UNCHANGED <<lane, edits, inflight, torn>>
          /\ clock' = [clock EXCEPT ![r] = c + 1]
        BY <1>7 DEF DeleteBlock, b
    <2> HIDE DEF n
    <2> QED BY <1>1, <1>4, <2>1, <2>2, Zenon
<1> QED BY <1>3, <1>5, <1>6, <1>7, <1>8

\* Sending and losing a payload have the shape.
LEMMA PushShape ==
    ASSUME ReplicaInv, NEW s \in Replica, NEW r \in Replica,
           Push(s, r) \/ LosePush(s, r)
    PROVE  StepShape
<1>1. Sendings
    <2>1. CASE Push(s, r)
        BY <2>1, Zenon DEF Sendings, ReplicaInv, TypeOK, Push
    <2>2. CASE LosePush(s, r)
        BY <2>2, Zenon DEF Sendings, ReplicaInv, TypeOK, LosePush
    <2> QED BY <2>1, <2>2
<1>2. clock' = clock /\ clock \in [Replica -> Nat]
    BY DEF ReplicaInv, TypeOK, Push, LosePush
<1>3. blocks' = blocks /\ lane' = lane /\ edits' = edits /\ torn' = torn
    BY DEF Push, LosePush
<1> QED BY <1>1, <1>2, <1>3, QuietShape

\* Every step of the specification, and every stuttering step, has the shape.
LEMMA NextShape ==
    ASSUME ReplicaInv, [Next]_vars
    PROVE  StepShape
<1>1. ASSUME NEW r \in Replica, LocalStep(r)
      PROVE  StepShape
    BY <1>1, InsertShape, MutateShape DEF LocalStep
<1>2. ASSUME NEW r \in Replica, Restart(r)
      PROVE  StepShape
    BY <1>2, RestartShape
<1>3. ASSUME NEW s \in Replica, NEW r \in Replica, DeliverPush(s, r) \/ DeliverPushAnswerLost(s, r)
      PROVE  StepShape
    BY <1>3, MergeShape DEF DeliverPush, DeliverPushAnswerLost
<1>4. CASE UNCHANGED vars
    <2>1. Sendings
        BY <1>4 DEF vars, Sendings, ReplicaInv, TypeOK
    <2>2. clock' = clock /\ clock \in [Replica -> Nat]
        BY <1>4 DEF vars, ReplicaInv, TypeOK
    <2> QED BY <1>4, <2>1, <2>2, QuietShape DEF vars
<1>5. ASSUME NEW s \in Replica, NEW r \in Replica, DeliverPushFails(s, r)
      PROVE  StepShape
    BY <1>5, MergeFailsShape, Zenon DEF DeliverPushFails
<1> QED BY <1>1, <1>2, <1>3, <1>4, <1>5, PushShape DEF Next, LinkStep

----------------------------------------------------------------------------
\* The invariant holds in the empty stores.
LEMMA InitInv == ASSUME Init PROVE ReplicaInv
<1>1. StoreOK(<< >>)
    BY FS_EmptySet DEF StoreOK
<1>2. TypeOK
    BY <1>1 DEF Init, TypeOK
<1> QED BY <1>2 DEF Init, ReplicaInv, ClockDominates, OriginKept, LaneAhead, CopiesAgree

\* A step of the shape keeps the types, and the clocks ahead of their stores.
LEMMA StepType ==
    ASSUME ReplicaInv, StepShape
    PROVE  TypeOK' /\ ClockDominates'
<1>1. ASSUME NEW s \in Replica, NEW r \in Replica, inflight'[s][r] # NoMsg
      PROVE  PayloadOK(inflight'[s][r])
    BY <1>1, OpsSincePayload, SMTT(30) DEF StepShape, Sendings, ReplicaInv, TypeOK
<1>2. TypeOK'
    BY <1>1 DEF TypeOK, StepShape, StoresEvolve, Sendings, NoMsg, PayloadOK
<1>3. ClockDominates'
    BY DEF ClockDominates, StepShape, StoresEvolve, BelowClock
<1> QED BY <1>2, <1>3

\* A step of the shape keeps a block for every id at the replica that minted
\* it.
LEMMA StepOrigin ==
    ASSUME ReplicaInv, StepShape
    PROVE  OriginKept'
<1>0. ASSUME NEW r \in Replica, NEW id \in DOMAIN blocks[r]
      PROVE  id[1] \in Replica
    BY DEF ReplicaInv, TypeOK, StoreOK, Id
<1>1. ASSUME NEW r \in Replica, NEW id \in DOMAIN blocks[r]
      PROVE  id \in DOMAIN blocks'[id[1]]
    BY <1>0 DEF ReplicaInv, OriginKept, StepShape, StoresEvolve, Evolves
<1>2. ASSUME NEW s \in Replica, NEW r \in Replica, inflight[s][r] # NoMsg,
             NEW id \in DOMAIN inflight[s][r].new
      PROVE  id \in DOMAIN blocks'[id[1]]
    <2>1. id[1] \in Replica /\ id \in DOMAIN blocks[id[1]]
        BY <1>2 DEF ReplicaInv, OriginKept, TypeOK, PayloadOK, Id
    <2> QED BY <1>1, <2>1
<1>3. ASSUME NEW r \in Replica, NEW id \in DOMAIN blocks'[r]
      PROVE  id \in DOMAIN blocks'[id[1]]
    <2>1. CASE id \in DOMAIN blocks[r]
        BY <1>1, <2>1
    <2>2. CASE id \notin DOMAIN blocks[r] /\ id = <<r, lane[r]>>
        BY <2>2
    <2>3. CASE \E s \in Replica : inflight[s][r] # NoMsg /\ id \in DOMAIN inflight[s][r].new
        BY <1>2, <2>3
    <2> QED BY <2>1, <2>2, <2>3 DEF StepShape, Arrivals
<1>4. ASSUME NEW s \in Replica, NEW r \in Replica, inflight'[s][r] # NoMsg,
             NEW id \in DOMAIN inflight'[s][r].new
      PROVE  id \in DOMAIN blocks'[id[1]]
    <2>1. CASE inflight'[s][r] = inflight[s][r]
        BY <1>2, <1>4, <2>1
    <2>2. ASSUME NEW front, inflight'[s][r] = ops_since(blocks[s], front)
          PROVE  id \in DOMAIN blocks'[id[1]]
        <3>1. id \in DOMAIN ops_since(blocks[s], front).new
            BY <1>4, <2>2
        <3>2. id \in DOMAIN blocks[s]
            BY <3>1 DEF ops_since, Live
        <3> QED BY <1>1, <3>2
    <2>3. \/ inflight'[s][r] = inflight[s][r]
          \/ \E front : inflight'[s][r] = ops_since(blocks[s], front)
        BY <1>4 DEF StepShape, Sendings
    <2> QED BY <2>1, <2>2, <2>3, Zenon
<1> QED BY <1>3, <1>4 DEF OriginKept, NoMsg

(***************************************************************************)
(* A copy after a step was a copy before it, or the block was minted in    *)
(* this step and the copy is the one in the store of its replica.          *)
(***************************************************************************)
LEMMA CopyBefore ==
    ASSUME ReplicaInv, StepShape, NEW id, NEW x, IsCopy(id, x)'
    PROVE  \/ IsCopy(id, x)
           \/ /\ id[1] \in Replica /\ id \notin DOMAIN blocks[id[1]]
              /\ x = blocks'[id[1]][id].birth
<1>1. ASSUME NEW r \in Replica, id \in Live(blocks'[r]), x = blocks'[r][id].birth
      PROVE  \/ IsCopy(id, x)
             \/ /\ id[1] \in Replica /\ id \notin DOMAIN blocks[id[1]]
                /\ x = blocks'[id[1]][id].birth
    <2>1. id \in DOMAIN blocks'[r] /\ ~blocks'[r][id].deleted
        BY <1>1, Zenon DEF Live
    <2>2. CASE id \in DOMAIN blocks[r]
        <3>1. BlockEvolves(blocks[r][id], blocks'[r][id])
            BY <2>2 DEF StepShape, StoresEvolve, Evolves
        <3>2. ~blocks[r][id].deleted /\ blocks'[r][id].birth = blocks[r][id].birth
            BY <2>1, <3>1 DEF BlockEvolves
        <3> QED BY <1>1, <2>2, <3>2 DEF IsCopy, Live
    <2>3. CASE id \notin DOMAIN blocks[r] /\ id = <<r, lane[r]>>
        BY <1>1, <2>3, ZenonT(40)
    <2>4. CASE \E s \in Replica : /\ inflight[s][r] # NoMsg
                                  /\ id \in DOMAIN inflight[s][r].new
                                  /\ blocks'[r][id].birth = inflight[s][r].new[id].birth
        BY <1>1, <2>4, Zenon DEF IsCopy
    <2> QED BY <2>1, <2>2, <2>3, <2>4 DEF StepShape, Arrivals
<1>2. ASSUME NEW s \in Replica, NEW r \in Replica, inflight'[s][r] # NoMsg,
             id \in DOMAIN inflight'[s][r].new, x = inflight'[s][r].new[id].birth
      PROVE  IsCopy(id, x)
    <2>1. CASE inflight'[s][r] = inflight[s][r]
        BY <1>2, <2>1, Zenon DEF IsCopy
    <2>2. ASSUME NEW front, inflight'[s][r] = ops_since(blocks[s], front)
          PROVE  IsCopy(id, x)
        <3>1. id \in Live(blocks[s]) /\ inflight'[s][r].new[id] = [blocks[s][id] EXCEPT !.text = {}]
            BY <1>2, <2>2 DEF ops_since
        <3>2. blocks[s][id] \in Block
            BY <3>1 DEF ReplicaInv, TypeOK, StoreOK, Live
        <3>3. x = blocks[s][id].birth
            BY <1>2, <3>1, <3>2 DEF Block
        <3> QED BY <3>1, <3>3 DEF IsCopy
    <2>3. \/ inflight'[s][r] = inflight[s][r]
          \/ \E front : inflight'[s][r] = ops_since(blocks[s], front)
        BY <1>2, Zenon DEF StepShape, Sendings
    <2> QED BY <2>1, <2>2, <2>3, ZenonT(40)
<1>3. \/ \E r \in Replica : id \in Live(blocks'[r]) /\ x = blocks'[r][id].birth
      \/ \E s, r \in Replica : /\ inflight'[s][r] # NoMsg
                              /\ id \in DOMAIN inflight'[s][r].new
                              /\ x = inflight'[s][r].new[id].birth
    BY DEF IsCopy, Live, NoMsg
<1> QED BY <1>1, <1>2, <1>3, Zenon

\* A step of the shape makes no two copies of a block that were born
\* differently.
LEMMA StepCopies ==
    ASSUME ReplicaInv, StepShape
    PROVE  CopiesAgree'
<1>1. ASSUME NEW id, NEW x, IsCopy(id, x)
      PROVE  id[1] \in Replica /\ id \in DOMAIN blocks[id[1]]
    BY <1>1, Z3T(30) DEF IsCopy, Live, ReplicaInv, OriginKept, TypeOK, StoreOK, PayloadOK, Id
<1>2. ASSUME NEW id, NEW x \in Birth, NEW y \in Birth, IsCopy(id, x)', IsCopy(id, y)'
      PROVE  x = y
    <2>1. CASE IsCopy(id, x) /\ IsCopy(id, y)
        BY <1>1, <2>1 DEF ReplicaInv, CopiesAgree
    <2>2. CASE ~(IsCopy(id, x) /\ IsCopy(id, y))
        BY <1>1, <1>2, <2>2, CopyBefore
    <2> QED BY <2>1, <2>2
<1> QED BY <1>2, Zenon DEF CopiesAgree

(***************************************************************************)
(* The inductive invariant holds in every reachable state.                 *)
(***************************************************************************)
THEOREM InvariantHolds == Spec => []ReplicaInv
<1>1. Init => ReplicaInv
    BY InitInv
<1>2. ReplicaInv /\ [Next]_vars => ReplicaInv'
    <2> SUFFICES ASSUME ReplicaInv, [Next]_vars PROVE ReplicaInv'
        OBVIOUS
    <2>1. StepShape
        BY NextShape
    <2> QED BY <2>1, StepType, StepOrigin, StepCopies DEF ReplicaInv, StepShape
<1> QED BY <1>1, <1>2, PTL DEF Spec

(***************************************************************************)
(* The variables always have their types.                                  *)
(***************************************************************************)
THEOREM TypeCorrect == Spec => []TypeOK
<1>1. ReplicaInv => TypeOK
    BY DEF ReplicaInv
<1> QED BY <1>1, InvariantHolds, PTL

(***************************************************************************)
(* As long as no merge_ops failed midway since the store was started, none *)
(* of its timestamps is ahead of its Lamport clock (tick, merge_clock, and *)
(* the seed in from_snapshot): the next local set_* is the newest write    *)
(* the store has seen.                                                     *)
(***************************************************************************)
THEOREM ClockAhead == Spec => []ClockDominates
<1>1. ReplicaInv => ClockDominates
    BY DEF ReplicaInv
<1> QED BY <1>1, InvariantHolds, PTL

(***************************************************************************)
(* All live copies of an id were born as the same block: the lanes         *)
(* (allocate_seq, observe_seq) never mint an id twice, over any number of  *)
(* restarts.                                                               *)
(***************************************************************************)
THEOREM IdsNameOneBlock == Spec => []SameBirth
<1>1. ReplicaInv => SameBirth
    <2> SUFFICES ASSUME ReplicaInv, NEW r \in Replica, NEW s \in Replica,
                        NEW id \in Live(blocks[r]) \cap Live(blocks[s])
                 PROVE  blocks[r][id].birth = blocks[s][id].birth
        BY DEF SameBirth
    <2>1. IsCopy(id, blocks[r][id].birth) /\ IsCopy(id, blocks[s][id].birth)
        BY DEF IsCopy
    <2>2. id \in DOMAIN blocks[r] /\ blocks[r][id].birth \in Birth /\ blocks[s][id].birth \in Birth
        BY DEF Live, ReplicaInv, TypeOK, StoreOK, Block
    <2> QED BY <2>1, <2>2 DEF ReplicaInv, CopiesAgree
<1> QED BY <1>1, InvariantHolds, PTL

(***************************************************************************)
(* No merge_ops, late snapshot or restart ever revives a deleted block.    *)
(***************************************************************************)
THEOREM TombstonesAreForEver == Spec => TombstonesStay
<1>1. ReplicaInv /\ [Next]_vars =>
        [\A r \in Replica : \A id \in DOMAIN blocks[r] :
            blocks[r][id].deleted => id \in DOMAIN blocks'[r] /\ blocks'[r][id].deleted]_vars
    BY NextShape DEF StepShape, StoresEvolve, Evolves, BlockEvolves
<1> QED BY <1>1, InvariantHolds, PTL DEF Spec, TombstonesStay

(***************************************************************************)
(* The write a live block shows for a field is never replaced by an older  *)
(* one, whatever payloads merge_header is given and in whatever order, up  *)
(* to and including the first merge that fails.                            *)
(***************************************************************************)
THEOREM LastWriterWins == Spec => NoOlderWrite
<1>1. ReplicaInv /\ [Next]_vars =>
        [\A r \in Replica \ torn : \A id \in Live(blocks[r]) : \A f \in Field :
            \/ blocks'[r][id].ts[f] > blocks[r][id].ts[f]
            \/ /\ blocks'[r][id].ts[f] = blocks[r][id].ts[f]
               /\ blocks'[r][id].val[f] >= blocks[r][id].val[f]]_vars
    BY NextShape DEF StepShape, StoresEvolve, NoneOlder, NotOlder
<1> QED BY <1>1, InvariantHolds, PTL DEF Spec, NoOlderWrite

(***************************************************************************)
(* From any reachable stores, one exchange of ops_since and merge_ops in   *)
(* each direction leaves two replicas with the same live blocks, texts and *)
(* header fields, those of the tool_meta cluster excepted.                 *)
(***************************************************************************)
THEOREM ReplicasConverge == Spec => []ExchangeConverges
<1>1. TypeOK => ExchangeConverges
    <2> SUFFICES ASSUME TypeOK, NEW r \in Replica, NEW s \in Replica
                 PROVE  AgreeOn(LAMBDA b : <<Shown(b), [f \in Field \ ToolMetaField |-> b.val[f]]>>,
                                AfterExchange(r, s)[1], AfterExchange(r, s)[2])
        BY Zenon DEF ExchangeConverges
    <2> DEFINE a1 == Pull(r, blocks[r], blocks[s])
               b1 == Pull(s, blocks[s], a1)
    <2>1. StoreOK(blocks[r]) /\ StoreOK(blocks[s])
        BY DEF TypeOK
    <2>2. AfterExchange(r, s)[1] = a1 /\ AfterExchange(r, s)[2] = b1
        BY Zenon DEF AfterExchange, AfterPull, Pull
    <2>3. /\ Live(a1) = Live(b1)
          /\ \A id \in Live(a1) :
                /\ a1[id].text \ Creation = b1[id].text \ Creation
                /\ \A f \in Field \ ToolMetaField : a1[id].val[f] = b1[id].val[f]
        BY <2>1, PullsConverge, Z3
    <2> HIDE DEF a1, b1
    <2>4. ASSUME NEW id \in Live(a1)
          PROVE  /\ Shown(a1[id]) = Shown(b1[id])
                 /\ [f \in Field \ ToolMetaField |-> a1[id].val[f]] = [f \in Field \ ToolMetaField |-> b1[id].val[f]]
        BY <2>3 DEF Shown
    <2>5. AgreeOn(LAMBDA b : <<Shown(b), [f \in Field \ ToolMetaField |-> b.val[f]]>>, a1, b1)
        BY <2>3, <2>4 DEF AgreeOn
    <2> QED BY <2>2, <2>5, Zenon
<1> QED BY <1>1, TypeCorrect, PTL
=============================================================================
