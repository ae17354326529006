------------------------ MODULE BlockLogProofs ---------------------------
(***************************************************************************)
(* The operators of BlockLog proved once for every store and payload: they *)
(* keep stores well formed, they never bring a store backwards, and two    *)
(* pulls make two stores agree. BlockReplicasProofs builds on these facts; *)
(* nothing here depends on how the replicas are scheduled.                 *)
(***************************************************************************)
EXTENDS BlockLog, FiniteSetTheorems, TLAPS

\* Storing a block under an id keeps a store well formed.
LEMMA PutStore ==
    ASSUME NEW bs, NEW id \in Id, NEW b \in Block, StoreOK(bs)
    PROVE  StoreOK(Put(bs, id, b))
<1>1. IsFiniteSet(DOMAIN bs \cup {id})
    BY FS_AddElement DEF StoreOK
<1> QED
    BY <1>1 DEF StoreOK, Put

\* What the inserts build is a block.
LEMMA NewBlockType ==
    ASSUME NEW birth \in Birth, NEW pos \in Pos, NEW v \in Val, NEW ts \in Nat, NEW by \in Replica
    PROVE  NewBlock(birth, pos, v, ts, by) \in Block
<1>1. Created(by) \in Edit
    BY DEF Created, Edit
<1> QED BY <1>1, LogAssumption DEF NewBlock, Block, Aside

\* A set_* call leaves a block.
LEMMA WithFieldType ==
    ASSUME NEW b \in Block, NEW f \in Field, NEW v \in Val, NEW ts \in Nat
    PROVE  WithField(b, f, v, ts) \in Block
BY Zenon DEF WithField, Block

\* merge_header leaves a block.
LEMMA MergeHeaderType ==
    ASSUME NEW b \in Block, NEW h \in HeaderType
    PROVE  merge_header(b, h) \in Block
BY Zenon DEF merge_header, Block, HeaderType

\* Merging text and a tombstone touches no other part of a block.
LEMMA WithTextParts ==
    ASSUME NEW b \in Block, NEW t, NEW d
    PROVE  LET n == [b EXCEPT !.text = @ \cup t, !.deleted = @ \/ d]
           IN  /\ n.birth = b.birth /\ n.val = b.val /\ n.ts = b.ts
               /\ n.text = b.text \cup t
               /\ n.deleted = (b.deleted \/ d)
BY DEF Block

\* Merging text alone touches no other part of a block.
LEMMA WithOnlyTextParts ==
    ASSUME NEW b \in Block, NEW t
    PROVE  LET n == [b EXCEPT !.text = @ \cup t]
           IN  /\ n.birth = b.birth /\ n.val = b.val /\ n.ts = b.ts /\ n.deleted = b.deleted
               /\ n.text = b.text \cup t
BY DEF Block

\* ops_since computes a well-formed payload, whatever frontier it is given.
LEMMA OpsSincePayload ==
    ASSUME NEW bs, NEW front, StoreOK(bs)
    PROVE  PayloadOK(ops_since(bs, front))
<1> DEFINE p == ops_since(bs, front)
<1>1. Live(bs) \subseteq DOMAIN bs
    BY DEF Live
<1>2. /\ DOMAIN p.new = Live(bs) \ DOMAIN front
      /\ DOMAIN p.headers = Live(bs) \cap DOMAIN front
      /\ DOMAIN p.ops = Live(bs)
      /\ p.deleted = (DOMAIN bs \ Live(bs)) \cap DOMAIN front
    BY DEF ops_since
<1>3. IsFiniteSet(DOMAIN p.new) /\ IsFiniteSet(p.deleted)
    BY <1>1, <1>2, FS_Subset DEF StoreOK
<1>4. ASSUME NEW id \in DOMAIN p.new PROVE p.new[id] \in Block
    BY <1>1, <1>2 DEF ops_since, StoreOK, Block
<1>5. ASSUME NEW id \in DOMAIN p.headers PROVE p.headers[id] \in HeaderType
    BY <1>1, <1>2 DEF ops_since, StoreOK, Block, HeaderType
<1>6. ASSUME NEW id \in DOMAIN p.ops PROVE p.ops[id] \subseteq Edit
    BY <1>1, <1>2 DEF ops_since, StoreOK, Block
<1> QED
    BY <1>1, <1>2, <1>3, <1>4, <1>5, <1>6 DEF PayloadOK, StoreOK

\* After merge_ops the clock is at or past the old clock and the largest
\* remote timestamp.
LEMMA MergedClockBounds ==
    ASSUME NEW c \in Nat, NEW m \in Nat, NEW bs, NEW p, PayloadOK(p)
    PROVE  /\ MergedClock(c, bs, p, m) \in Nat
           /\ c <= MergedClock(c, bs, p, m)
           /\ m <= MergedClock(c, bs, p, m)
<1>1. Cardinality(p.deleted) \in Nat
    BY FS_CardinalityType DEF PayloadOK
<1> QED BY <1>1 DEF MergedClock

(***************************************************************************)
(* How a store may change in one step: no block disappears, tombstones     *)
(* stay and a live block keeps its birth (Evolves).  Unless a merge failed *)
(* in it, no live block shows an older write either (NoneOlder).           *)
(***************************************************************************)
BlockEvolves(b, n) ==
    /\ b.deleted => n.deleted
    /\ ~b.deleted => n.birth = b.birth

Evolves(bs, ns) ==
    /\ DOMAIN bs \subseteq DOMAIN ns
    /\ \A id \in DOMAIN bs : BlockEvolves(bs[id], ns[id])

NotOlder(b, n) ==
    \A f \in Field :
        \/ n.ts[f] > b.ts[f]
        \/ n.ts[f] = b.ts[f] /\ n.val[f] >= b.val[f]

NoneOlder(bs, ns) == \A id \in Live(bs) : NotOlder(bs[id], ns[id])

\* The values and timestamps of a header are integers.
LEMMA FieldTypes ==
    ASSUME NEW f \in Field, NEW h, h.val \in [Field -> Val], h.ts \in [Field -> Nat]
    PROVE  h.val[f] \in Int /\ h.ts[f] \in Int
<1>1. h.val[f] \in Val /\ h.ts[f] \in Nat
    OBVIOUS
<1> QED BY <1>1, LogAssumption DEF Val

\* A block is not older than itself.
LEMMA NotOlderRefl ==
    ASSUME NEW b \in Block
    PROVE  NotOlder(b, b)
<1>1. ASSUME NEW f \in Field PROVE b.val[f] \in Int /\ b.ts[f] \in Int
    BY FieldTypes DEF Block
<1> QED BY <1>1 DEF NotOlder

\* A store that is left alone is not brought backwards.
LEMMA SameStoreEvolves ==
    ASSUME NEW bs, StoreOK(bs)
    PROVE  Evolves(bs, bs) /\ NoneOlder(bs, bs)
BY NotOlderRefl DEF Evolves, BlockEvolves, NoneOlder, Live, StoreOK

\* A set_* call with the next tick of a clock that is not behind the block
\* writes the newest value.
LEMMA WithFieldEvolves ==
    ASSUME NEW b \in Block, NEW f \in Field, NEW v \in Val, NEW c \in Nat
    PROVE  /\ BlockEvolves(b, WithField(b, f, v, c + 1))
           /\ (\A g \in Field : b.ts[g] <= c) =>
                 /\ NotOlder(b, WithField(b, f, v, c + 1))
                 /\ \A g \in Field : WithField(b, f, v, c + 1).ts[g] <= c + 1
<1> DEFINE n == WithField(b, f, v, c + 1)
<1>1. /\ n.birth = b.birth
      /\ n.deleted = b.deleted
      /\ n.val = [b.val EXCEPT ![f] = v]
      /\ n.ts = [b.ts EXCEPT ![f] = c + 1]
    BY DEF WithField, Block
<1>2. b.val \in [Field -> Val] /\ b.ts \in [Field -> Nat] /\ Val \subseteq Int
    BY LogAssumption DEF Block, Val
<1> HIDE DEF n
<1>3. BlockEvolves(b, n)
    BY <1>1 DEF BlockEvolves
<1>4. (\A g \in Field : b.ts[g] <= c) => NotOlder(b, n) /\ \A g \in Field : n.ts[g] <= c + 1
    <2> SUFFICES ASSUME \A g \in Field : b.ts[g] <= c
                 PROVE  NotOlder(b, n) /\ \A g \in Field : n.ts[g] <= c + 1
        OBVIOUS
    <2>1. NotOlder(b, n)
        <3>1. ASSUME NEW g \in Field
              PROVE  n.ts[g] > b.ts[g] \/ (n.ts[g] = b.ts[g] /\ n.val[g] >= b.val[g])
            <4>1. b.ts[g] \in Nat /\ b.val[g] \in Int /\ b.ts[g] <= c
                BY <1>2
            <4>2. CASE g = f
                BY <1>1, <1>2, <4>1, <4>2
            <4>3. CASE g # f
                BY <1>1, <1>2, <4>1, <4>3
            <4> QED BY <4>2, <4>3
        <3> QED BY <3>1 DEF NotOlder
    <2>2. \A g \in Field : n.ts[g] <= c + 1
        BY <1>1, <1>2
    <2> QED BY <2>1, <2>2
<1> QED BY <1>3, <1>4 DEF n

\* Replacing a block by a later form of it, or adding one, brings the store
\* forward.
LEMMA PutEvolves ==
    ASSUME NEW bs, NEW id \in Id, NEW b \in Block, StoreOK(bs),
           id \in DOMAIN bs => BlockEvolves(bs[id], b)
    PROVE  StoreOK(Put(bs, id, b)) /\ Evolves(bs, Put(bs, id, b))
<1>1. StoreOK(Put(bs, id, b))
    BY PutStore
<1>2. Evolves(bs, Put(bs, id, b))
    BY DEF Evolves, BlockEvolves, Put
<1> QED BY <1>1, <1>2

\* If the block stays behind the clock and is no older write, so does the store.
LEMMA PutNewer ==
    ASSUME NEW bs, NEW id \in Id, NEW b \in Block, NEW c \in Nat, NEW d \in Nat,
           StoreOK(bs), BelowClock(bs, c), c <= d,
           id \in DOMAIN bs => NotOlder(bs[id], b),
           \A g \in Field : b.ts[g] <= d
    PROVE  BelowClock(Put(bs, id, b), d) /\ NoneOlder(bs, Put(bs, id, b))
<1>1. \A i \in DOMAIN bs : bs[i] \in Block /\ NotOlder(bs[i], bs[i])
    BY NotOlderRefl DEF StoreOK
<1>2. \A i \in DOMAIN bs : \A g \in Field : bs[i].ts[g] \in Nat /\ bs[i].ts[g] <= c
    BY <1>1 DEF Block, BelowClock
<1>3. BelowClock(Put(bs, id, b), d)
    BY <1>2 DEF BelowClock, Put
<1>4. NoneOlder(bs, Put(bs, id, b))
    BY <1>1 DEF NoneOlder, Live, Put
<1> QED BY <1>3, <1>4

\* merge_header never takes an older write.
LEMMA MergeHeaderEvolves ==
    ASSUME NEW b \in Block, NEW h \in HeaderType
    PROVE  /\ merge_header(b, h).birth = b.birth
           /\ merge_header(b, h).deleted = b.deleted
           /\ NotOlder(b, merge_header(b, h))
<1> DEFINE n == merge_header(b, h)
<1>1. /\ n.birth = b.birth /\ n.deleted = b.deleted
      /\ n.val = [f \in Field |-> IF field_wins(f, h, b) THEN h.val[f] ELSE b.val[f]]
      /\ n.ts = [f \in Field |-> IF field_wins(f, h, b) THEN h.ts[f] ELSE b.ts[f]]
    BY DEF merge_header, Block
<1>2. ASSUME NEW f \in Field
      PROVE  b.val[f] \in Int /\ b.ts[f] \in Int /\ h.val[f] \in Int /\ h.ts[f] \in Int
    BY FieldTypes DEF Block, HeaderType
<1> HIDE DEF n
<1>3. ASSUME NEW f \in Field
      PROVE  n.ts[f] > b.ts[f] \/ (n.ts[f] = b.ts[f] /\ n.val[f] >= b.val[f])
    <2>1. CASE field_wins(f, h, b)
        BY <1>1, <1>2, <2>1 DEF field_wins, TieKey
    <2>2. CASE ~field_wins(f, h, b)
        BY <1>1, <1>2, <2>2
    <2> QED BY <2>1, <2>2
<1>4. NotOlder(b, n)
    BY <1>3 DEF NotOlder
<1> QED BY <1>1, <1>4 DEF n

----------------------------------------------------------------------------
(***************************************************************************)
(* The block after the snapshots and headers of a payload: it is a block;  *)
(* if the store had it, it is not older than it was; if not, it is the one *)
(* of the payload.                                                         *)
(***************************************************************************)
LEMMA Received ==
    ASSUME NEW by \in Replica, NEW bs, NEW p, StoreOK(bs), PayloadOK(p),
           NEW id \in DOMAIN bs \cup DOMAIN p.new
    PROVE  LET n == ReceivedBlock(by, bs, p, id)
           IN  /\ n \in Block
               /\ id \in DOMAIN bs =>
                    n.birth = bs[id].birth /\ n.deleted = bs[id].deleted /\ NotOlder(bs[id], n)
               /\ id \notin DOMAIN bs => n.birth = p.new[id].birth
<1> DEFINE n == ReceivedBlock(by, bs, p, id)
<1>1. CASE id \in DOMAIN bs
    <2>1. bs[id] \in Block
        BY <1>1 DEF StoreOK
    <2>2. CASE id \in DOMAIN p.headers
        <3>1. p.headers[id] \in HeaderType /\ n = merge_header(bs[id], p.headers[id])
            BY <1>1, <2>2 DEF PayloadOK, ReceivedBlock
        <3> QED BY <1>1, <2>1, <3>1, MergeHeaderEvolves, MergeHeaderType
    <2>3. CASE id \notin DOMAIN p.headers
        <3>1. n = bs[id]
            BY <1>1, <2>3 DEF ReceivedBlock
        <3> QED BY <1>1, <2>1, <3>1, NotOlderRefl
    <2> QED BY <2>2, <2>3
<1>2. CASE id \notin DOMAIN bs
    <2>1. p.new[id] \in Block /\ n = [p.new[id] EXCEPT !.text = SnapshotText(by, p, id)]
        BY <1>2 DEF PayloadOK, ReceivedBlock
    <2>2. SnapshotText(by, p, id) \subseteq Edit
        BY DEF SnapshotText, Created, Edit
    <2> QED BY <1>2, <2>1, <2>2 DEF Block
<1> QED BY <1>1, <1>2

\* A timestamp of that block was in the store or is one merge_ops looks at.
LEMMA ReceivedStamps ==
    ASSUME NEW by \in Replica, NEW bs, NEW p, StoreOK(bs), PayloadOK(p),
           NEW id \in DOMAIN bs \cup DOMAIN p.new, NEW f \in Field
    PROVE  \/ id \in DOMAIN bs /\ ReceivedBlock(by, bs, p, id).ts[f] = bs[id].ts[f]
           \/ ReceivedBlock(by, bs, p, id).ts[f] \in RemoteStamps(bs, p)
<1> DEFINE n == ReceivedBlock(by, bs, p, id)
<1>1. CASE id \in DOMAIN bs /\ id \in DOMAIN p.headers
    <2>1. bs[id] \in Block /\ n = merge_header(bs[id], p.headers[id])
        BY <1>1 DEF StoreOK, ReceivedBlock
    <2>2. n.ts = [g \in Field |-> IF field_wins(g, p.headers[id], bs[id])
                                  THEN p.headers[id].ts[g] ELSE bs[id].ts[g]]
        BY <2>1, Zenon DEF merge_header, Block
    <2>3. p.headers[id].ts[f] \in RemoteStamps(bs, p)
        BY <1>1, Z3 DEF RemoteStamps, Stamps
    <2> HIDE DEF n
    <2>4. n.ts[f] = bs[id].ts[f] \/ n.ts[f] \in RemoteStamps(bs, p)
        BY <2>2, <2>3
    <2> QED BY <1>1, <2>4 DEF n
<1>2. CASE id \in DOMAIN bs /\ id \notin DOMAIN p.headers
    BY <1>2 DEF ReceivedBlock
<1>3. CASE id \notin DOMAIN bs
    <2>1. p.new[id] \in Block /\ n = [p.new[id] EXCEPT !.text = SnapshotText(by, p, id)]
        BY <1>3 DEF PayloadOK, ReceivedBlock
    <2>2. n.ts = p.new[id].ts
        BY <2>1 DEF Block
    <2>3. p.new[id].ts[f] \in RemoteStamps(bs, p)
        BY <1>3, Z3 DEF RemoteStamps, Stamps
    <2> QED BY <2>2, <2>3
<1> QED BY <1>1, <1>2, <1>3

\* A store bs that becomes ns with the payload p: ns is well formed, no block of
\* bs was brought backwards, and what is new is the payload's.
TakesUp(bs, p, ns) ==
    /\ StoreOK(ns) /\ Evolves(bs, ns) /\ NoneOlder(bs, ns)
    /\ DOMAIN ns = DOMAIN bs \cup DOMAIN p.new
    /\ \A id \in DOMAIN ns \ DOMAIN bs : ns[id].birth = p.new[id].birth

\* merge_ops of a well-formed payload keeps a store well formed and brings no
\* block of it backwards; what is new in it is the payload's.
LEMMA MergedStore ==
    ASSUME NEW by \in Replica, NEW bs, NEW p, StoreOK(bs), PayloadOK(p)
    PROVE  TakesUp(bs, p, MergedBlocks(by, bs, p))
<1> DEFINE D == DOMAIN bs \cup DOMAIN p.new
           ns == MergedBlocks(by, bs, p)
<1>1. IsFiniteSet(D)
    BY FS_Union, Zenon DEF StoreOK, PayloadOK
<1>2. ASSUME NEW id \in D
      PROVE  /\ ns[id] \in Block
             /\ id \in DOMAIN bs => BlockEvolves(bs[id], ns[id]) /\ NotOlder(bs[id], ns[id])
             /\ id \notin DOMAIN bs => ns[id].birth = p.new[id].birth
    <2> DEFINE b == ReceivedBlock(by, bs, p, id)
               n == ns[id]
    <2>1. /\ b \in Block
          /\ id \in DOMAIN bs =>
               b.birth = bs[id].birth /\ b.deleted = bs[id].deleted /\ NotOlder(bs[id], b)
          /\ id \notin DOMAIN bs => b.birth = p.new[id].birth
        BY Received
    <2>2. TextFor(p, id) \subseteq Edit
        BY DEF TextFor, PayloadOK
    <2>3. n = [b EXCEPT !.text = @ \cup TextFor(p, id), !.deleted = @ \/ id \in p.deleted]
        BY Zenon DEF MergedBlocks, MergedBlock
    <2> HIDE DEF b, n
    <2>4. n \in Block
        BY <2>1, <2>2, <2>3, Zenon DEF Block
    <2>5. n.birth = b.birth /\ n.val = b.val /\ n.ts = b.ts /\ n.deleted = (b.deleted \/ id \in p.deleted)
        BY <2>1, <2>3, WithTextParts
    <2>6. id \in DOMAIN bs => BlockEvolves(bs[id], n) /\ NotOlder(bs[id], n)
        BY <2>1, <2>5, Zenon DEF BlockEvolves, NotOlder
    <2> QED BY <2>1, <2>4, <2>5, <2>6 DEF n
<1>3. DOMAIN ns = D
    BY DEF MergedBlocks
<1> HIDE DEF ns
<1>4. StoreOK(ns)
    BY <1>1, <1>2, <1>3 DEF StoreOK, PayloadOK
<1>5. Evolves(bs, ns) /\ NoneOlder(bs, ns)
    BY <1>2, <1>3 DEF Evolves, NoneOlder, Live
<1>6. TakesUp(bs, p, ns)
    BY <1>2, <1>3, <1>4, <1>5 DEF TakesUp
<1> QED BY <1>6 DEF ns

\* The same of a merge that stops at a text it cannot merge.
LEMMA PartlyMergedStore ==
    ASSUME NEW by \in Replica, NEW bs, NEW p, NEW done, StoreOK(bs), PayloadOK(p)
    PROVE  TakesUp(bs, p, PartlyMerged(by, bs, p, done))
<1> DEFINE D == DOMAIN bs \cup DOMAIN p.new
           ns == PartlyMerged(by, bs, p, done)
<1>1. IsFiniteSet(D)
    BY FS_Union, Zenon DEF StoreOK, PayloadOK
<1>2. ASSUME NEW id \in D
      PROVE  /\ ns[id] \in Block
             /\ id \in DOMAIN bs => BlockEvolves(bs[id], ns[id]) /\ NotOlder(bs[id], ns[id])
             /\ id \notin DOMAIN bs => ns[id].birth = p.new[id].birth
    <2> DEFINE b == ReceivedBlock(by, bs, p, id)
               t == IF id \in done THEN TextFor(p, id) ELSE {}
               n == ns[id]
    <2>1. /\ b \in Block
          /\ id \in DOMAIN bs =>
               b.birth = bs[id].birth /\ b.deleted = bs[id].deleted /\ NotOlder(bs[id], b)
          /\ id \notin DOMAIN bs => b.birth = p.new[id].birth
        BY Received
    <2>2. t \subseteq Edit
        BY DEF TextFor, PayloadOK
    <2>3. n = [b EXCEPT !.text = @ \cup t]
        BY DEF PartlyMerged, PartlyMergedBlock
    <2> HIDE DEF b, n, t
    <2>4. n \in Block
        BY <2>1, <2>2, <2>3 DEF Block
    <2>5. n.birth = b.birth /\ n.val = b.val /\ n.ts = b.ts /\ n.deleted = b.deleted
        BY <2>1, <2>3, WithOnlyTextParts
    <2>6. id \in DOMAIN bs => BlockEvolves(bs[id], n) /\ NotOlder(bs[id], n)
        BY <2>1, <2>5 DEF BlockEvolves, NotOlder
    <2> QED BY <2>1, <2>4, <2>5, <2>6 DEF n
<1>3. DOMAIN ns = D
    BY DEF PartlyMerged
<1> HIDE DEF ns
<1>4. StoreOK(ns)
    BY <1>1, <1>2, <1>3 DEF StoreOK, PayloadOK
<1>5. Evolves(bs, ns) /\ NoneOlder(bs, ns)
    BY <1>2, <1>3 DEF Evolves, NoneOlder, Live
<1>6. TakesUp(bs, p, ns)
    BY <1>2, <1>3, <1>4, <1>5 DEF TakesUp
<1> QED BY <1>6 DEF ns

\* The timestamps merge_ops looks at are numbers.
LEMMA RemoteStampsNat ==
    ASSUME NEW bs, NEW p, StoreOK(bs), PayloadOK(p)
    PROVE  RemoteStamps(bs, p) \subseteq Nat
BY DEF RemoteStamps, Stamps, PayloadOK, HeaderType, Block

\* If no timestamp was ahead of the clock before merge_ops, none is
\* afterwards.
LEMMA MergedBelowClock ==
    ASSUME NEW by \in Replica, NEW bs, NEW p, NEW c \in Nat, NEW m \in Nat,
           StoreOK(bs), PayloadOK(p), BelowClock(bs, c),
           \A x \in RemoteStamps(bs, p) : x <= m
    PROVE  BelowClock(MergedBlocks(by, bs, p), MergedClock(c, bs, p, m))
<1> DEFINE k == MergedClock(c, bs, p, m)
<1>0. k \in Nat /\ c <= k /\ m <= k
    BY MergedClockBounds
<1> HIDE DEF k
<1>1. ASSUME NEW id \in DOMAIN bs \cup DOMAIN p.new, NEW f \in Field
      PROVE  MergedBlock(by, bs, p, id).ts[f] <= k
    <2> DEFINE b == ReceivedBlock(by, bs, p, id)
               n == MergedBlock(by, bs, p, id)
    <2>1. b \in Block
        BY Received
    <2>2. n = [b EXCEPT !.text = @ \cup TextFor(p, id), !.deleted = @ \/ id \in p.deleted]
        BY DEF MergedBlock
    <2>3. n.ts = b.ts
        BY <2>1, <2>2, WithTextParts
    <2>4. (id \in DOMAIN bs /\ b.ts[f] = bs[id].ts[f]) \/ b.ts[f] \in RemoteStamps(bs, p)
        BY ReceivedStamps
    <2> HIDE DEF b, n
    <2>5. CASE id \in DOMAIN bs /\ b.ts[f] = bs[id].ts[f]
        <3>1. bs[id].ts[f] \in Nat /\ bs[id].ts[f] <= c
            BY <2>5 DEF StoreOK, Block, BelowClock
        <3>2. n.ts[f] <= k
            BY <1>0, <2>3, <2>5, <3>1
        <3> QED BY <3>2 DEF n
    <2>6. CASE b.ts[f] \in RemoteStamps(bs, p)
        <3>1. b.ts[f] \in Nat /\ b.ts[f] <= m
            BY <2>6, RemoteStampsNat
        <3>2. n.ts[f] <= k
            BY <1>0, <2>3, <3>1
        <3> QED BY <3>2 DEF n
    <2> QED BY <2>4, <2>5, <2>6
<1> QED BY <1>1 DEF BelowClock, MergedBlocks, k

----------------------------------------------------------------------------
\* A restored block: a tombstone stays one, a live block keeps all but an
\* empty text.
LEMMA RestoredParts ==
    ASSUME NEW by \in Replica, NEW b \in Block
    PROVE  LET n == RestoredBlock(by, b)
           IN  /\ n \in Block
               /\ b.deleted => n.deleted /\ n.ts = [f \in Field |-> 0]
               /\ ~b.deleted => n.birth = b.birth /\ n.val = b.val /\ n.ts = b.ts
<1> DEFINE e == NewBlock(PlainText, 0, 0, 0, by)
<1>1. e \in Block /\ e.ts = [f \in Field |-> 0]
    BY NewBlockType, LogAssumption DEF NewBlock, Val, Pos
<1>2. {Created(by)} \subseteq Edit
    BY DEF Created, Edit
<1>3. CASE b.deleted
    <2>1. RestoredBlock(by, b) = [e EXCEPT !.deleted = TRUE]
        BY <1>3 DEF RestoredBlock
    <2> HIDE DEF e
    <2> QED BY <1>1, <1>3, <2>1, Zenon DEF Block
<1>4. CASE ~b.deleted
    <2>1. RestoredBlock(by, b) = b \/ RestoredBlock(by, b) = [b EXCEPT !.text = {Created(by)}]
        BY <1>4 DEF RestoredBlock
    <2> QED BY <1>2, <1>4, <2>1 DEF Block
<1> QED BY <1>3, <1>4

\* A snapshot and its restoration lose no block and no tombstone, and bring
\* no live block backwards.
LEMMA RestoredEvolves ==
    ASSUME NEW by \in Replica, NEW bs, StoreOK(bs)
    PROVE  LET ns == RestoredStore(by, bs)
           IN  StoreOK(ns) /\ Evolves(bs, ns) /\ NoneOlder(bs, ns)
<1>1. ASSUME NEW b \in Block
      PROVE  /\ RestoredBlock(by, b) \in Block
             /\ BlockEvolves(b, RestoredBlock(by, b))
             /\ ~b.deleted => NotOlder(b, RestoredBlock(by, b))
    BY RestoredParts, NotOlderRefl DEF BlockEvolves, NotOlder
<1> QED BY <1>1 DEF RestoredStore, StoreOK, Evolves, NoneOlder, Live

\* The clock from_snapshot seeds from the live blocks is not behind any
\* restored block.
LEMMA RestoredBelowClock ==
    ASSUME NEW by \in Replica, NEW bs, NEW m \in Nat, StoreOK(bs),
           \A id \in Live(bs) : \A f \in Field : bs[id].ts[f] <= m
    PROVE  BelowClock(RestoredStore(by, bs), m)
<1>1. ASSUME NEW id \in DOMAIN bs, NEW f \in Field
      PROVE  RestoredBlock(by, bs[id]).ts[f] <= m
    <2>1. bs[id] \in Block
        BY DEF StoreOK
    <2>2. CASE bs[id].deleted
        BY <2>1, <2>2, RestoredParts
    <2>3. CASE ~bs[id].deleted
        BY <2>1, <2>3, RestoredParts DEF Live
    <2> QED BY <2>2, <2>3
<1> QED BY <1>1 DEF BelowClock, RestoredStore

----------------------------------------------------------------------------
(***************************************************************************)
(* Convergence.  Pull(by, bs, os): the store bs after it merged the operations *)
(* of os since its own frontier.                                           *)
(***************************************************************************)
Pull(by, bs, os) == MergedBlocks(by, bs, ops_since(os, frontier(bs)))

\* After a pull a store holds its own blocks and the live ones of the other.
LEMMA PullDomain ==
    ASSUME NEW by \in Replica, NEW bs, NEW os
    PROVE  DOMAIN Pull(by, bs, os) = DOMAIN bs \cup Live(os)
BY DEF Pull, MergedBlocks, ops_since, frontier, Live

\* Each of them is what merge_ops makes of it.
LEMMA PullBlock ==
    ASSUME NEW by \in Replica, NEW bs, NEW os, NEW id \in DOMAIN bs \cup Live(os)
    PROVE  Pull(by, bs, os)[id] = MergedBlock(by, bs, ops_since(os, frontier(bs)), id)
BY DEF Pull, MergedBlocks, ops_since, frontier, Live

\* A block the puller did not have arrives with its text and header; only the
\* edit that created the text may be another one.
LEMMA PullFresh ==
    ASSUME NEW by \in Replica, NEW bs, NEW os, StoreOK(os), NEW id \in Live(os), id \notin DOMAIN bs
    PROVE  LET n == Pull(by, bs, os)[id]
           IN  /\ ~n.deleted
               /\ n.text \ Creation = os[id].text \ Creation /\ n.val = os[id].val /\ n.ts = os[id].ts
<1> DEFINE p == ops_since(os, frontier(bs))
           n == [p.new[id] EXCEPT !.text = SnapshotText(by, p, id)]
<1>1. os[id] \in Block /\ ~os[id].deleted
    BY DEF StoreOK, Live
<1>2. /\ p.new[id] = [os[id] EXCEPT !.text = {}] /\ id \notin p.deleted
      /\ TextFor(p, id) = os[id].text
    BY DEF ops_since, frontier, TextFor
<1>3. SnapshotText(by, p, id) \subseteq Creation /\ SnapshotText(by, p, id) \subseteq Edit
    BY DEF SnapshotText, Creation, Created, Edit
<1>4. Pull(by, bs, os)[id] = MergedBlock(by, bs, p, id)
    BY PullBlock
<1>5. Pull(by, bs, os)[id] = [n EXCEPT !.text = @ \cup TextFor(p, id), !.deleted = @ \/ id \in p.deleted]
    BY <1>4 DEF MergedBlock, ReceivedBlock
<1>6. /\ n \in Block /\ n.text = SnapshotText(by, p, id)
      /\ n.val = os[id].val /\ n.ts = os[id].ts /\ ~n.deleted
    BY <1>1, <1>2, <1>3, Zenon DEF Block
<1> HIDE DEF p, n
<1>7. /\ Pull(by, bs, os)[id].val = n.val /\ Pull(by, bs, os)[id].ts = n.ts
      /\ Pull(by, bs, os)[id].text = n.text \cup TextFor(p, id)
      /\ Pull(by, bs, os)[id].deleted = (n.deleted \/ id \in p.deleted)
    BY <1>5, <1>6, WithTextParts
<1>8. Pull(by, bs, os)[id].text \ Creation = os[id].text \ Creation
    BY <1>2, <1>3, <1>6, <1>7
<1> QED BY <1>2, <1>6, <1>7, <1>8, Zenon

\* A block the other store does not have is left alone by a pull.
LEMMA PullUnknown ==
    ASSUME NEW by \in Replica, NEW bs, NEW os, StoreOK(bs), NEW id \in DOMAIN bs, id \notin DOMAIN os
    PROVE  LET n == Pull(by, bs, os)[id]
           IN  /\ n.deleted = bs[id].deleted
               /\ n.text = bs[id].text /\ n.val = bs[id].val /\ n.ts = bs[id].ts
<1> DEFINE p == ops_since(os, frontier(bs))
<1>1. bs[id] \in Block /\ bs[id].deleted \in BOOLEAN
    BY DEF StoreOK, Block
<1>2. id \notin DOMAIN p.headers /\ id \notin p.deleted /\ TextFor(p, id) = {}
    BY DEF ops_since, TextFor, Live
<1>3. Pull(by, bs, os)[id] = MergedBlock(by, bs, p, id)
    BY PullBlock
<1> HIDE DEF p
<1>4. Pull(by, bs, os)[id] = [bs[id] EXCEPT !.text = @ \cup TextFor(p, id), !.deleted = @ \/ id \in p.deleted]
    BY <1>2, <1>3 DEF MergedBlock, ReceivedBlock
<1>5. /\ Pull(by, bs, os)[id].val = bs[id].val /\ Pull(by, bs, os)[id].ts = bs[id].ts
      /\ Pull(by, bs, os)[id].text = bs[id].text \cup TextFor(p, id)
      /\ Pull(by, bs, os)[id].deleted = (bs[id].deleted \/ id \in p.deleted)
    BY <1>1, <1>4, WithTextParts
<1>6. Pull(by, bs, os)[id].text = bs[id].text
    BY <1>2, <1>5
<1>7. Pull(by, bs, os)[id].deleted = bs[id].deleted
    BY <1>1, <1>2, <1>5
<1> QED BY <1>5, <1>6, <1>7

\* A block that is deleted in the other store is deleted after the pull.
LEMMA PullDeleted ==
    ASSUME NEW by \in Replica, NEW bs, NEW os, StoreOK(bs), NEW id \in DOMAIN bs, id \in DOMAIN os, id \notin Live(os)
    PROVE  Pull(by, bs, os)[id].deleted
<1> DEFINE p == ops_since(os, frontier(bs))
<1>1. bs[id] \in Block
    BY DEF StoreOK
<1>2. id \notin DOMAIN p.headers /\ id \in p.deleted
    BY DEF ops_since, frontier
<1>3. Pull(by, bs, os)[id] = MergedBlock(by, bs, p, id)
    BY PullBlock
<1> HIDE DEF p
<1>4. Pull(by, bs, os)[id] = [bs[id] EXCEPT !.text = @ \cup TextFor(p, id), !.deleted = @ \/ id \in p.deleted]
    BY <1>2, <1>3 DEF MergedBlock, ReceivedBlock
<1>5. Pull(by, bs, os)[id].deleted = (bs[id].deleted \/ id \in p.deleted)
    BY <1>1, <1>4, WithTextParts
<1> QED BY <1>2, <1>5, ZenonT(40)

\* n is the block b with the text of o, and with the field values that win.
Pulled(n, b, o) ==
    /\ n.deleted = b.deleted
    /\ n.text = b.text \cup o.text
    /\ \A f \in Field : IF field_wins(f, o, b)
                        THEN n.val[f] = o.val[f] /\ n.ts[f] = o.ts[f]
                        ELSE n.val[f] = b.val[f] /\ n.ts[f] = b.ts[f]

\* What a pull makes of a block both have.
LEMMA PullKnown ==
    ASSUME NEW by \in Replica, NEW bs, NEW os, StoreOK(bs), StoreOK(os), NEW id \in DOMAIN bs, id \in Live(os)
    PROVE  Pulled(Pull(by, bs, os)[id], bs[id], os[id])
<1> DEFINE p == ops_since(os, frontier(bs))
           h == [val |-> os[id].val, ts |-> os[id].ts]
           k == merge_header(bs[id], h)
<1>1. bs[id] \in Block /\ os[id] \in Block /\ bs[id].deleted \in BOOLEAN
    BY DEF StoreOK, Block, Live
<1>2. h \in HeaderType /\ h.val = os[id].val /\ h.ts = os[id].ts
    BY <1>1 DEF HeaderType, Block
<1>3. /\ id \in DOMAIN p.headers /\ p.headers[id] = h /\ id \notin p.deleted
      /\ TextFor(p, id) = os[id].text \ bs[id].text
    BY DEF ops_since, frontier, TextFor
<1>4. Pull(by, bs, os)[id] = MergedBlock(by, bs, p, id)
    BY PullBlock, SMTT(30)
<1>5. k \in Block /\ k.deleted = bs[id].deleted /\ k.text = bs[id].text
    BY <1>1, <1>2, MergeHeaderType, Zenon DEF merge_header, Block
<1>6. /\ k.val = [f \in Field |-> IF field_wins(f, h, bs[id]) THEN h.val[f] ELSE bs[id].val[f]]
      /\ k.ts = [f \in Field |-> IF field_wins(f, h, bs[id]) THEN h.ts[f] ELSE bs[id].ts[f]]
    BY <1>1 DEF merge_header, Block
<1>7. \A f \in Field : field_wins(f, h, bs[id]) = field_wins(f, os[id], bs[id])
    BY <1>2 DEF field_wins
<1>8. Pull(by, bs, os)[id] = [k EXCEPT !.text = @ \cup TextFor(p, id), !.deleted = @ \/ id \in p.deleted]
    BY <1>3, <1>4 DEF MergedBlock, ReceivedBlock
<1> HIDE DEF p, h, k
<1>9. /\ Pull(by, bs, os)[id].val = k.val /\ Pull(by, bs, os)[id].ts = k.ts
      /\ Pull(by, bs, os)[id].text = k.text \cup TextFor(p, id)
      /\ Pull(by, bs, os)[id].deleted = (k.deleted \/ id \in p.deleted)
    BY <1>5, <1>8, WithTextParts
<1>10. Pull(by, bs, os)[id].text = bs[id].text \cup os[id].text
    BY <1>3, <1>5, <1>9
<1>11. Pull(by, bs, os)[id].deleted = bs[id].deleted
    BY <1>1, <1>3, <1>5, <1>9
<1>12. ASSUME NEW f \in Field
       PROVE  IF field_wins(f, os[id], bs[id])
              THEN Pull(by, bs, os)[id].val[f] = os[id].val[f] /\ Pull(by, bs, os)[id].ts[f] = os[id].ts[f]
              ELSE Pull(by, bs, os)[id].val[f] = bs[id].val[f] /\ Pull(by, bs, os)[id].ts[f] = bs[id].ts[f]
    <2>1. CASE field_wins(f, os[id], bs[id])
        BY <1>2, <1>6, <1>7, <1>9, <2>1
    <2>2. CASE ~field_wins(f, os[id], bs[id])
        BY <1>2, <1>6, <1>7, <1>9, <2>2
    <2> QED BY <2>1, <2>2
<1> QED BY <1>10, <1>11, <1>12, SMTT(30) DEF Pulled

\* A pull keeps a store well formed.
LEMMA PullStore ==
    ASSUME NEW by \in Replica, NEW bs, NEW os, StoreOK(bs), StoreOK(os)
    PROVE  StoreOK(Pull(by, bs, os))
BY OpsSincePayload, MergedStore, Zenon DEF Pull, TakesUp

(***************************************************************************)
(* The value of a field after the first pull wins the second one, or is    *)
(* already there: the order on (timestamp, value) is total.                *)
(***************************************************************************)
LEMMA FieldConverges ==
    ASSUME NEW x, NEW y, NEW x1, NEW y1, NEW f \in Field \ ToolMetaField,
           x.ts[f] \in Int, x.val[f] \in Int, y.ts[f] \in Int, y.val[f] \in Int,
           IF field_wins(f, y, x) THEN x1.val[f] = y.val[f] /\ x1.ts[f] = y.ts[f]
                                  ELSE x1.val[f] = x.val[f] /\ x1.ts[f] = x.ts[f],
           IF field_wins(f, x1, y) THEN y1.val[f] = x1.val[f] /\ y1.ts[f] = x1.ts[f]
                                   ELSE y1.val[f] = y.val[f] /\ y1.ts[f] = y.ts[f]
    PROVE  x1.val[f] = y1.val[f]
<1>1. \A v : TieKey(f, v) = v
    BY DEF TieKey
<1> QED BY <1>1 DEF field_wins

\* Two pulls, one each way, leave two stores with the same live blocks, texts
\* and fields, the tool_meta cluster excepted.
LEMMA PullsConverge ==
    ASSUME NEW r \in Replica, NEW s \in Replica, NEW a, NEW b, StoreOK(a), StoreOK(b)
    PROVE  LET a1 == Pull(r, a, b)
               b1 == Pull(s, b, a1)
           IN  /\ Live(a1) = Live(b1)
               /\ \A id \in Live(a1) :
                    /\ a1[id].text \ Creation = b1[id].text \ Creation
                    /\ \A f \in Field \ ToolMetaField : a1[id].val[f] = b1[id].val[f]
<1> DEFINE a1 == Pull(r, a, b)
           b1 == Pull(s, b, a1)
<1>1. StoreOK(a1)
    BY PullStore
<1>2. DOMAIN a1 = DOMAIN a \cup Live(b)
    BY PullDomain, Z3
<1>3. DOMAIN b1 = DOMAIN b \cup Live(a1)
    <2> HIDE DEF a1
    <2> QED BY PullDomain, Z3
<1>4. ASSUME NEW id \in DOMAIN a, id \notin DOMAIN b
      PROVE  /\ id \in Live(a1) <=> id \in Live(b1)
             /\ id \in Live(a1) => a1[id].text \ Creation = b1[id].text \ Creation /\ a1[id].val = b1[id].val
    <2>1. id \in DOMAIN a1
        BY <1>2
    <2>2. ASSUME id \in Live(a1) PROVE id \in Live(b1) /\ a1[id].text \ Creation = b1[id].text \ Creation /\ a1[id].val = b1[id].val
        <3>1. ~b1[id].deleted /\ b1[id].text \ Creation = a1[id].text \ Creation /\ b1[id].val = a1[id].val
            BY <1>1, <1>4, <2>2, PullFresh
        <3> QED BY <1>3, <2>2, <3>1 DEF Live
    <2>3. ASSUME id \in Live(b1) PROVE id \in Live(a1)
        BY <1>3, <1>4, <2>3 DEF Live
    <2> QED BY <2>2, <2>3
<1>5. ASSUME NEW id \in Live(b), id \notin DOMAIN a
      PROVE  id \in Live(a1) /\ id \in Live(b1) /\ a1[id].text \ Creation = b1[id].text \ Creation /\ a1[id].val = b1[id].val
    <2>1. ~a1[id].deleted /\ a1[id].text \ Creation = b[id].text \ Creation /\ a1[id].val = b[id].val /\ a1[id].ts = b[id].ts
        BY <1>5, PullFresh
    <2>2. id \in Live(a1) /\ id \in DOMAIN b /\ ~b[id].deleted
        BY <1>2, <2>1 DEF Live
    <2>3. /\ b1[id].deleted = b[id].deleted
          /\ b1[id].text = b[id].text \cup a1[id].text
          /\ \A f \in Field : IF field_wins(f, a1[id], b[id])
                              THEN b1[id].val[f] = a1[id].val[f]
                              ELSE b1[id].val[f] = b[id].val[f]
        <3>1. Pulled(b1[id], b[id], a1[id])
            BY <1>1, <2>2, PullKnown, Zenon
        <3> HIDE DEF a1, b1
        <3> QED BY <3>1, SMTT(30) DEF Pulled
    <2>4. b1[id] \in Block /\ a1[id] \in Block
        BY <1>1, <1>3, <2>2, PullStore DEF StoreOK, Live
    <2>5. \A f \in Field : b1[id].val[f] = a1[id].val[f]
        BY <2>1, <2>3
    <2>6. b1[id].val = a1[id].val
        BY <2>4, <2>5 DEF Block
    <2> QED BY <1>3, <2>1, <2>2, <2>3, <2>6 DEF Live
<1>6. ASSUME NEW id \in DOMAIN a, id \in DOMAIN b
      PROVE  /\ id \in Live(a1) <=> id \in Live(b1)
             /\ id \in Live(a1) =>
                    /\ a1[id].text \ Creation = b1[id].text \ Creation
                    /\ \A f \in Field \ ToolMetaField : a1[id].val[f] = b1[id].val[f]
    <2>1. id \in DOMAIN a1 /\ id \in DOMAIN b1
        BY <1>2, <1>3, <1>6
    <2>2. CASE id \notin Live(b)
        <3>1. a1[id].deleted
            BY <1>6, <2>2, PullDeleted
        <3>2. b1[id].deleted
            BY <1>6, <2>1, <3>1, PullDeleted, Zenon DEF Live
        <3> QED BY <3>1, <3>2 DEF Live
    <2>3. CASE id \in Live(b)
        <3>1. /\ a1[id].deleted = a[id].deleted
              /\ a1[id].text = a[id].text \cup b[id].text
              /\ \A f \in Field : IF field_wins(f, b[id], a[id])
                                  THEN a1[id].val[f] = b[id].val[f] /\ a1[id].ts[f] = b[id].ts[f]
                                  ELSE a1[id].val[f] = a[id].val[f] /\ a1[id].ts[f] = a[id].ts[f]
            <4>1. Pulled(a1[id], a[id], b[id])
                BY <2>3, PullKnown, Zenon
            <4> HIDE DEF a1
            <4> QED BY <4>1, SMTT(30) DEF Pulled
        <3>2. CASE id \notin Live(a1)
            <4>1. b1[id].deleted
                BY <1>6, <2>1, <3>2, PullDeleted
            <4> QED BY <3>2, <4>1 DEF Live
        <3>3. CASE id \in Live(a1)
            <4>1. /\ b1[id].deleted = b[id].deleted
                  /\ b1[id].text = b[id].text \cup a1[id].text
                  /\ \A f \in Field : IF field_wins(f, a1[id], b[id])
                                      THEN b1[id].val[f] = a1[id].val[f] /\ b1[id].ts[f] = a1[id].ts[f]
                                      ELSE b1[id].val[f] = b[id].val[f] /\ b1[id].ts[f] = b[id].ts[f]
                <5>1. Pulled(b1[id], b[id], a1[id])
                    BY <1>1, <1>6, <3>3, PullKnown, Zenon
                <5> HIDE DEF a1, b1
                <5> QED BY <5>1, SMTT(30) DEF Pulled
            <4>2. ASSUME NEW f \in Field \ ToolMetaField
                  PROVE  a1[id].val[f] = b1[id].val[f]
                <5>1. /\ a[id].ts[f] \in Int /\ a[id].val[f] \in Int
                      /\ b[id].ts[f] \in Int /\ b[id].val[f] \in Int
                    BY <1>6, FieldTypes DEF StoreOK, Block
                <5> DEFINE x == a[id]
                           y == b[id]
                           x1 == a1[id]
                           y1 == b1[id]
                <5>2. IF field_wins(f, y, x) THEN x1.val[f] = y.val[f] /\ x1.ts[f] = y.ts[f]
                                             ELSE x1.val[f] = x.val[f] /\ x1.ts[f] = x.ts[f]
                    BY <3>1, SMTT(30)
                <5>3. IF field_wins(f, x1, y) THEN y1.val[f] = x1.val[f] /\ y1.ts[f] = x1.ts[f]
                                              ELSE y1.val[f] = y.val[f] /\ y1.ts[f] = y.ts[f]
                    BY <4>1
                <5>4. /\ x.ts[f] \in Int /\ x.val[f] \in Int
                      /\ y.ts[f] \in Int /\ y.val[f] \in Int
                    BY <5>1
                <5> HIDE DEF x, y, x1, y1
                <5>5. x1.val[f] = y1.val[f]
                    BY <5>2, <5>3, <5>4, FieldConverges, SMTT(30)
                <5> QED BY <5>5 DEF x1, y1
            <4>3. a1[id].text \ Creation = b1[id].text \ Creation
                BY <3>1, <4>1
            <4>4. id \in Live(b1)
                BY <2>1, <2>3, <4>1 DEF Live
            <4> QED BY <3>3, <4>2, <4>3, <4>4, Zenon
        <3> QED BY <3>2, <3>3, Zenon
    <2> QED BY <2>2, <2>3
<1>7. ASSUME NEW id \in DOMAIN b, id \notin DOMAIN a, id \notin Live(b)
      PROVE  id \notin Live(a1) /\ id \notin Live(b1)
    <2>1. id \notin DOMAIN a1
        BY <1>2, <1>7
    <2>2. b1[id].deleted = b[id].deleted
        BY <2>1, PullUnknown
    <2> QED BY <1>7, <2>1, <2>2 DEF Live
<1> HIDE DEF a1, b1
<1>8. \A id : id \in Live(a1) \/ id \in Live(b1) => id \in DOMAIN a \cup DOMAIN b
    BY <1>2, <1>3 DEF Live
<1>9. Live(a1) = Live(b1)
    BY <1>4, <1>5, <1>6, <1>7, <1>8, Zenon
<1>10. \A id \in Live(a1) : /\ a1[id].text \ Creation = b1[id].text \ Creation
                            /\ \A f \in Field \ ToolMetaField : a1[id].val[f] = b1[id].val[f]
    BY <1>4, <1>5, <1>6, <1>7, <1>8
<1> QED BY <1>9, <1>10 DEF a1, b1
=============================================================================
