-------------------------- MODULE TransportProofs ---------------------------
(***************************************************************************)
(* Theorems about the beat scheduler, for any tracks, contexts, tempos and *)
(* any number of commands and restarts: attachment rows are never orphans, *)
(* the reverse index is exact, no position goes back, a playing track has  *)
(* one live entry in the heap, and no pass beats it without bound.  The    *)
(* types of the scheduler are proved on the way.                           *)
(***************************************************************************)
EXTENDS Transport, TLAPS

(* What the proofs need to know of a track in memory.                      *)
TrackOK(st) ==
    /\ "attached" \in DOMAIN st /\ DOMAIN st.attached \subseteq Context
    /\ "playhead" \in DOMAIN st /\ st.playhead \in Nat

(* The types of what commands are made from.                               *)
CallersOK ==
    /\ maxTick \in [Context -> Nat]
    /\ \A q \in asked : q.context \in Context
    /\ pages \subseteq [parent : Context, child : Context, next : {"fork", "attach", "play"}]
    /\ born \subseteq Context

(* A live track has a row, and the row is not ahead of it.                 *)
Mirrored ==
    /\ \A t \in Live : TrackOK(tracks[t])
    /\ \A t \in DOMAIN trackRow : trackRow[t].playhead \in Nat
    /\ \A t \in Live : t \in DOMAIN trackRow /\ trackRow[t].playhead <= tracks[t].playhead

(* The inductive invariant. *)
TransportInv == CallersOK /\ Mirrored /\ NoOrphanRow /\ IndexHonest

(* What a step may do to positions: the action of NoRewind. *)
Forward ==
    /\ \A t \in DOMAIN trackRow \cap DOMAIN trackRow' :
          /\ trackRow'[t].playhead >= trackRow[t].playhead
          /\ trackRow'[t].score = trackRow[t].score
    /\ \A t \in Live \cap DOMAIN tracks' :
          tracks'[t].playhead >= tracks[t].playhead

(* Nothing is attached at first. *)
LEMMA InitTransport == Init => TransportInv
<1> SUFFICES ASSUME Init PROVE TransportInv
  OBVIOUS
<1>1. Live = {} /\ DOMAIN trackRow = {} /\ DOMAIN index = {}
  BY DEF Init, Live
<1>2. CallersOK
  BY TransportAssumption DEF Init, CallersOK
<1> QED BY <1>1, <1>2 DEF Init, TransportInv, Mirrored, NoOrphanRow, IndexHonest

(***************************************************************************)
(* A command that changes one track, neither its contexts nor moving its   *)
(* position back, and writes its row.                                      *)
(***************************************************************************)
LEMMA ApplyKeeps ==
    ASSUME TransportInv, NEW t, NEW st, Apply(t, st),
           "attached" \in DOMAIN st, "playhead" \in DOMAIN st,
           st.attached = tracks[t].attached, st.playhead = tracks[t].playhead
    PROVE  /\ Mirrored' /\ NoOrphanRow' /\ IndexHonest' /\ Forward
           /\ UNCHANGED <<born, maxTick, asked>>
<1>1. /\ DOMAIN tracks' = Live /\ tracks'[t] = st /\ t \in Live
      /\ \A u \in Live \ {t} : tracks'[u] = tracks[u]
      /\ index' = index /\ bindRow' = bindRow
      /\ trackRow' = PersistTrack(trackRow, t, st)
      /\ UNCHANGED <<born, maxTick, asked>>
  BY DEF Apply, Live
<1>2. /\ DOMAIN trackRow' = DOMAIN trackRow /\ trackRow'[t].playhead = st.playhead
      /\ trackRow'[t].score = trackRow[t].score
      /\ \A u \in DOMAIN trackRow \ {t} : trackRow'[u] = trackRow[u]
  BY <1>1, TransportInv, Zenon DEF PersistTrack, With, RowOf, TransportInv, Mirrored
<1>3. Mirrored'
  BY <1>1, <1>2 DEF TransportInv, Mirrored, TrackOK, Live
<1>4. IndexHonest'
  <2>1. \A u \in Live : Attached(u)' = Attached(u)
    BY <1>1 DEF Attached
  <2>2. Live' = Live
    BY <1>1 DEF Live
  <2> QED BY <1>1, <2>1, <2>2 DEF TransportInv, IndexHonest
<1>5. Forward
  BY <1>1, <1>2 DEF TransportInv, Mirrored, TrackOK, Forward, Live
<1> QED BY <1>1, <1>2, <1>3, <1>4, <1>5 DEF TransportInv, NoOrphanRow

(***************************************************************************)
(* Contexts of one track go off it, and out of the index: detach, delete   *)
(* and the page turn.                                                      *)
(***************************************************************************)
LEMMA OffTrack ==
    ASSUME TransportInv, NEW t \in Live, NEW gone, gone \subseteq Attached(t),
           Live' = Live, Attached(t)' = Attached(t) \ gone,
           \A u \in Live \ {t} : Attached(u)' = Attached(u),
           DOMAIN index' = DOMAIN index \ gone,
           \A c \in DOMAIN index \ gone : index'[c] = index[c]
    PROVE  IndexHonest'
<1>1. \A u \in Live : Attached(u) \subseteq Context
  BY DEF TransportInv, Mirrored, TrackOK, Attached
<1>2. \A u \in Live, c \in Context : c \in Attached(u) <=> c \in DOMAIN index /\ index[c] = u
  BY DEF TransportInv, IndexHonest
<1>3. \A u \in Live, c \in gone : c \in Attached(u) => u = t
  BY <1>1, <1>2
<1>4. DOMAIN index = UNION {Attached(u) : u \in Live}
  BY DEF TransportInv, IndexHonest
<1>5. DOMAIN index' = UNION {Attached(u)' : u \in Live}
  BY <1>3, <1>4
<1>6. \A u \in Live, c \in Context : c \in Attached(u)' <=> c \in DOMAIN index' /\ index'[c] = u
  BY <1>2, <1>3
<1> QED BY <1>5, <1>6 DEF IndexHonest

(* A context in the index rides the track named there, which is live. *)
LEMMA IndexedIsLive ==
    ASSUME TransportInv, NEW c \in DOMAIN index
    PROVE  index[c] \in Live /\ c \in Attached(index[c])
<1>1. PICK t \in Live : c \in Attached(t)
  BY DEF TransportInv, IndexHonest
<1>2. c \in Context
  BY <1>1 DEF TransportInv, Mirrored, TrackOK, Attached
<1> QED BY <1>1, <1>2 DEF TransportInv, IndexHonest

(* The entry of a context detached from t names another track that has it, *)
(* or goes.                                                                *)
LEMMA ReindexIs ==
    ASSUME NEW ix, NEW ts, NEW t, NEW c
    PROVE  \/ /\ \A u \in DOMAIN ts \ {t} : c \notin DOMAIN ts[u].attached
              /\ Reindex(ix, ts, t, c) = Without(ix, c)
           \/ \E u \in DOMAIN ts \ {t} :
                  c \in DOMAIN ts[u].attached /\ Reindex(ix, ts, t, c) = With(ix, c, u)
<1> DEFINE others == {u \in DOMAIN ts \ {t} : c \in DOMAIN ts[u].attached}
<1>1. CASE others = {}
  BY <1>1 DEF Reindex
<1>2. CASE others # {}
  <2> DEFINE u == CHOOSE u \in others : TRUE
  <2>1. u \in others
    BY <1>2
  <2>2. Reindex(ix, ts, t, c) = With(ix, c, u)
    BY <1>2 DEF Reindex
  <2> HIDE DEF u
  <2> QED BY <2>1, <2>2
<1> QED BY <1>1, <1>2

(* detach keeps the invariant and the positions. *)
LEMMA DetachKeeps ==
    ASSUME TransportInv, NEW c \in Context, NEW t, Detach(c, t)
    PROVE  TransportInv' /\ Forward
<1>1. CallersOK'
  BY DEF Detach, TransportInv, CallersOK
<1>2. bindRow' = bindRow
  BY DEF Detach
<1>3. CASE t \notin Live
  <2>1. tracks' = tracks /\ trackRow' = trackRow
    BY <1>3 DEF Detach, Unbind, Persisted, Live
  <2>2. Mirrored' /\ NoOrphanRow' /\ Forward
    BY <1>2, <2>1 DEF TransportInv, Mirrored, NoOrphanRow, Forward, Live, TrackOK
  <2>3. /\ DOMAIN index' = DOMAIN index
        /\ \A d \in DOMAIN index : index'[d] = index[d]
    <3>1. index' = Reindex(index, tracks', t, c)
      BY DEF Detach
    <3>2. CASE (\A u \in Live \ {t} : c \notin Attached(u)) /\ index' = Without(index, c)
      <4>1. c \notin DOMAIN index
        BY <1>3, <3>2, IndexedIsLive
      <4> QED BY <3>2, <4>1 DEF Without
    <3>3. ASSUME NEW u \in Live, c \in Attached(u), index' = With(index, c, u)
          PROVE  DOMAIN index' = DOMAIN index /\ \A d \in DOMAIN index : index'[d] = index[d]
      <4>1. c \in DOMAIN index /\ index[c] = u
        BY <3>3 DEF TransportInv, IndexHonest
      <4> QED BY <3>3, <4>1 DEF With
    <3> QED BY <2>1, <3>1, <3>2, <3>3, ReindexIs DEF Live, Attached
  <2>4. IndexHonest'
    BY <2>1, <2>3 DEF TransportInv, IndexHonest, Live, Attached
  <2> QED BY <1>1, <2>2, <2>4 DEF TransportInv
<1>4. CASE t \in Live
  <2>1. /\ DOMAIN tracks' = Live
        /\ tracks'[t] = [tracks[t] EXCEPT !.attached = Without(@, c)]
        /\ \A u \in Live \ {t} : tracks'[u] = tracks[u]
        /\ trackRow' = PersistTrack(trackRow, t, tracks'[t])
    BY <1>4 DEF Detach, Unbind, Persisted, Live
  <2>2. /\ "attached" \in DOMAIN tracks'[t] /\ "playhead" \in DOMAIN tracks'[t]
        /\ tracks'[t].playhead = tracks[t].playhead
        /\ tracks'[t].attached = Without(tracks[t].attached, c)
    BY <1>4, <2>1 DEF TransportInv, Mirrored, TrackOK
  <2>3. /\ DOMAIN trackRow' = DOMAIN trackRow
        /\ trackRow'[t].playhead = tracks[t].playhead /\ trackRow'[t].score = trackRow[t].score
        /\ \A u \in DOMAIN trackRow \ {t} : trackRow'[u] = trackRow[u]
    BY <1>4, <2>1, <2>2, TransportInv, Zenon DEF PersistTrack, With, RowOf, TransportInv, Mirrored
  <2>4. Attached(t)' = Attached(t) \ {c}
    BY <2>2 DEF Attached, Without
  <2>5. Mirrored'
    BY <1>4, <2>1, <2>2, <2>3, <2>4 DEF TransportInv, Mirrored, TrackOK, Live, Attached
  <2>6. NoOrphanRow' /\ Forward
    BY <1>2, <1>4, <2>1, <2>2, <2>3 DEF TransportInv, Mirrored, TrackOK, NoOrphanRow, Forward, Live
  <2>7. Live' = Live /\ \A u \in Live \ {t} : Attached(u)' = Attached(u)
    BY <2>1 DEF Live, Attached
  <2>8. /\ DOMAIN index' = DOMAIN index \ ({c} \cap Attached(t))
        /\ \A d \in DOMAIN index \ ({c} \cap Attached(t)) : index'[d] = index[d]
    <3> DEFINE off == {c} \cap Attached(t)
    <3>1. index' = Reindex(index, tracks', t, c)
      BY DEF Detach
    <3>2. CASE (\A u \in Live \ {t} : c \notin Attached(u)) /\ index' = Without(index, c)
      <4>1. c \in DOMAIN index => c \in Attached(t)
        BY <3>2, IndexedIsLive
      <4> QED BY <3>2, <4>1 DEF Without
    <3>3. ASSUME NEW u \in Live \ {t}, c \in Attached(u), index' = With(index, c, u)
          PROVE  DOMAIN index' = DOMAIN index \ off /\ \A d \in DOMAIN index \ off : index'[d] = index[d]
      <4>1. c \in DOMAIN index /\ index[c] = u /\ c \notin Attached(t)
        BY <1>4, <3>3 DEF TransportInv, IndexHonest
      <4> QED BY <3>3, <4>1 DEF With
    <3>4. \/ (\A u \in Live \ {t} : c \notin Attached(u)) /\ index' = Without(index, c)
          \/ \E u \in Live \ {t} : c \in Attached(u) /\ index' = With(index, c, u)
      BY <2>1, <3>1, ReindexIs DEF Attached
    <3> HIDE DEF off
    <3> QED BY <3>2, <3>3, <3>4 DEF off
  <2>9. IndexHonest'
    BY <1>4, <2>4, <2>7, <2>8, OffTrack, ZenonT(40)
  <2> QED BY <1>1, <2>5, <2>6, <2>9 DEF TransportInv
<1> QED BY <1>3, <1>4

(* attach keeps the invariant and the positions, with a track made for it  *)
(* or not, and also when it is refused.                                    *)
LEMMA AttachKeeps ==
    ASSUME TransportInv, NEW q \in asked, NEW period, Attach(q, period)
    PROVE  TransportInv' /\ Forward
<1> DEFINE c == q.context
           t == q.track
           moved == IF c \in DOMAIN index /\ index[c] # t THEN {index[c]} ELSE {}
           off == [u \in Live |-> IF u \in moved
                      THEN [tracks[u] EXCEPT !.attached = Without(@, c)]
                      ELSE tracks[u]]
           offRow == [u \in DOMAIN trackRow |-> IF u \in moved
                         THEN PersistTrack(trackRow, u, off[u])[u] ELSE trackRow[u]]
           offBind == {b \in bindRow : ~(b.context = c /\ b.track \in moved)}
           mint == t \notin Live /\ t \notin DOMAIN trackRow
           st == IF t \in Live THEN off[t] ELSE NewTrack(t, c, period)
           on == [st EXCEPT !.playhead = Larger(@, maxTick[c]),
                            !.attached = With(@, c, q.rotate)]
<1>1. c \in Context /\ maxTick[c] \in Nat
  BY DEF TransportInv, CallersOK
<1>2. moved \subseteq Live \ {t} /\ \A u \in moved : c \in DOMAIN index /\ index[c] = u
  BY IndexedIsLive
<1>3. CallersOK'
  BY Zenon DEF Attach, TransportInv, CallersOK
<1>4. ASSUME NEW u \in Live
      PROVE  /\ TrackOK(off[u]) /\ off[u].playhead = tracks[u].playhead
             /\ DOMAIN off[u].attached = IF u \in moved THEN Attached(u) \ {c} ELSE Attached(u)
  <2>1. TrackOK(tracks[u])
    BY DEF TransportInv, Mirrored
  <2>2. CASE u \in moved
    <3> DEFINE less == Without(tracks[u].attached, c)
    <3>1. off[u] = [tracks[u] EXCEPT !.attached = less]
      BY <2>2
    <3>2. DOMAIN less = Attached(u) \ {c}
      BY DEF Without, Attached
    <3> HIDE DEF off, less, moved
    <3> QED BY <2>1, <2>2, <3>1, <3>2 DEF TrackOK, Attached
  <2>3. CASE u \notin moved
    BY <2>1, <2>3, ZenonT(40) DEF Attached
  <2> QED BY <2>2, <2>3
<1>5. ASSUME NEW u \in DOMAIN trackRow
      PROVE  /\ offRow[u].playhead \in Nat /\ offRow[u].playhead >= trackRow[u].playhead
             /\ offRow[u].score = trackRow[u].score
             /\ u \in Live => offRow[u].playhead <= off[u].playhead
  <2>1. trackRow[u].playhead \in Nat
    BY DEF TransportInv, Mirrored
  <2>2. CASE u \in moved
    <3>1. offRow[u] = PersistTrack(trackRow, u, off[u])[u]
      BY <2>2
    <3>2. /\ off[u].playhead = tracks[u].playhead /\ tracks[u].playhead \in Nat
          /\ trackRow[u].playhead <= tracks[u].playhead
      BY <1>2, <1>4, <2>2, SMTT(30) DEF TransportInv, Mirrored, TrackOK
    <3>3. offRow[u].playhead = off[u].playhead /\ offRow[u].score = trackRow[u].score
      BY <3>1, Zenon DEF PersistTrack, With, RowOf
    <3> HIDE DEF off, offRow, moved
    <3> QED BY <2>1, <3>2, <3>3
  <2>3. CASE u \notin moved
    <3>1. offRow[u] = trackRow[u]
      BY <2>3
    <3>2. u \in Live => trackRow[u].playhead <= off[u].playhead
      BY <1>4 DEF TransportInv, Mirrored
    <3> HIDE DEF off, offRow, moved
    <3> QED BY <2>1, <3>1, <3>2
  <2> QED BY <2>2, <2>3, ZenonT(40)
<1>6. DOMAIN off = Live /\ DOMAIN offRow = DOMAIN trackRow /\ offBind \subseteq bindRow
  OBVIOUS
<1>7. CASE /\ tracks' = off /\ trackRow' = offRow /\ bindRow' = offBind
           /\ index' = IF moved = {} THEN index ELSE Without(index, c)
  <2>1. \A u \in Live : Attached(u)' = IF u \in moved THEN Attached(u) \ {c} ELSE Attached(u)
    BY <1>4, <1>7, Zenon DEF Attached
  <2>2. IndexHonest'
    <3>1. CASE moved = {}
      <4>1. \A u \in Live : Attached(u)' = Attached(u)
        BY <2>1, <3>1
      <4>2. Live' = Live /\ index' = index
        BY <1>6, <1>7, <3>1 DEF Live
      <4> HIDE DEF moved, off
      <4> QED BY <4>1, <4>2 DEF TransportInv, IndexHonest
    <3>2. CASE moved # {}
      <4>1. PICK u \in Live : moved = {u} /\ c \in Attached(u)
        BY <3>2, <1>2, IndexedIsLive
      <4>2. /\ Attached(u)' = Attached(u) \ {c}
            /\ \A v \in Live \ {u} : Attached(v)' = Attached(v)
        BY <2>1, <4>1
      <4>3. Live' = Live
        BY <1>6, <1>7 DEF Live
      <4>4. /\ DOMAIN index' = DOMAIN index \ {c}
            /\ \A d \in DOMAIN index \ {c} : index'[d] = index[d]
        BY <1>7, <3>2 DEF Without
      <4>5. {c} \subseteq Attached(u)
        BY <4>1
      <4> HIDE DEF moved, off, c
      <4> QED BY <4>2, <4>3, <4>4, <4>5, OffTrack, Zenon
    <3> QED BY <3>1, <3>2
  <2> HIDE DEF moved, off, offRow, offBind
  <2>3. Mirrored'
    BY <1>4, <1>5, <1>6, <1>7, Zenon DEF TransportInv, Mirrored, Live
  <2>4. NoOrphanRow'
    BY <1>6, <1>7 DEF TransportInv, NoOrphanRow
  <2>5. Forward
    <3>1. \A u \in DOMAIN trackRow : /\ trackRow'[u].playhead >= trackRow[u].playhead
                                     /\ trackRow'[u].score = trackRow[u].score
      BY <1>5, <1>7
    <3>2. ASSUME NEW u \in Live PROVE tracks'[u].playhead >= tracks[u].playhead
      <4>1. tracks[u].playhead \in Nat
        BY DEF TransportInv, Mirrored, TrackOK
      <4>2. off[u].playhead = tracks[u].playhead /\ tracks'[u] = off[u]
        BY <1>4, <1>7, Zenon
      <4> QED BY <4>1, <4>2
    <3> QED BY <3>1, <3>2 DEF Forward
  <2> QED BY <1>3, <2>2, <2>3, <2>4, <2>5 DEF TransportInv
<1>8. CASE /\ tracks' = With(off, t, on) /\ index' = With(index, c, t)
           /\ trackRow' = PersistTrack(offRow, t, on)
           /\ bindRow' = PersistBinding(offBind, Binding(t, c, q.rotate))
  <2>1. /\ TrackOK(st)
        /\ t \in Live => st.playhead = tracks[t].playhead /\ DOMAIN st.attached = Attached(t)
        /\ t \notin Live => DOMAIN st.attached = {}
        /\ t \in DOMAIN trackRow => st.playhead >= trackRow[t].playhead
    <3>1. CASE t \in Live
      <4>1. st = off[t] /\ t \notin moved
        BY <1>2, <3>1
      <4> HIDE DEF st, off, moved
      <4> QED BY <1>4, <3>1, <4>1, Zenon DEF TransportInv, Mirrored, TrackOK
    <3>2. CASE t \notin Live
      <4>1. st = NewTrack(t, c, period)
        BY <3>2
      <4>2. t \in DOMAIN trackRow => trackRow[t].playhead \in Nat
        BY DEF TransportInv, Mirrored
      <4> HIDE DEF st
      <4> QED BY <1>1, <3>2, <4>1, <4>2 DEF NewTrack, Larger, TrackOK
    <3> QED BY <3>1, <3>2
  <2>2. /\ TrackOK(on) /\ on.playhead >= st.playhead
        /\ DOMAIN on.attached = DOMAIN st.attached \cup {c}
    <3> DEFINE more == With(st.attached, c, q.rotate)
               further == Larger(st.playhead, maxTick[c])
    <3>1. on = [st EXCEPT !.playhead = further, !.attached = more]
      OBVIOUS
    <3>2. DOMAIN more = DOMAIN st.attached \cup {c}
      BY Zenon DEF With
    <3>3. further \in Nat /\ further >= st.playhead
      BY <1>1, <2>1 DEF Larger, TrackOK
    <3> HIDE DEF on, st, more, further
    <3> QED BY <1>1, <2>1, <3>1, <3>2, <3>3 DEF TrackOK
  <2> HIDE DEF moved, off, offRow, offBind, st, on
  <2>3. /\ Live' = Live \cup {t} /\ tracks'[t] = on
        /\ \A u \in Live \ {t} : tracks'[u] = off[u]
    BY <1>6, <1>8 DEF With, Live
  <2>4. /\ DOMAIN trackRow' = DOMAIN trackRow \cup {t} /\ trackRow'[t].playhead = on.playhead
        /\ t \in DOMAIN trackRow => trackRow'[t].score = offRow[t].score
        /\ \A u \in DOMAIN trackRow \ {t} : trackRow'[u] = offRow[u]
    BY <1>6, <1>8 DEF PersistTrack, With, RowOf
  <2>5. Mirrored'
    <3>1. \A u \in Live' : TrackOK(tracks'[u])
      BY <1>4, <2>2, <2>3, Zenon
    <3>2. \A u \in DOMAIN trackRow' : trackRow'[u].playhead \in Nat
      BY <1>5, <2>2, <2>4, SMTT(30) DEF TrackOK
    <3>3. \A u \in Live' : u \in DOMAIN trackRow' /\ trackRow'[u].playhead <= tracks'[u].playhead
      BY <1>5, <2>2, <2>3, <2>4, SMTT(30) DEF TransportInv, Mirrored, TrackOK
    <3> QED BY <3>1, <3>2, <3>3 DEF Mirrored
  <2>6. NoOrphanRow'
    BY <1>6, <1>8, <2>4, SMTT(30) DEF TransportInv, NoOrphanRow, PersistBinding, Binding
  <2>7. Forward
    <3>1. \A u \in DOMAIN trackRow : /\ trackRow'[u].playhead >= trackRow[u].playhead
                                     /\ trackRow'[u].score = trackRow[u].score
      BY <1>5, <2>1, <2>2, <2>4, SMTT(30) DEF TransportInv, Mirrored, TrackOK
    <3>2. ASSUME NEW u \in Live PROVE tracks'[u].playhead >= tracks[u].playhead
      <4>1. tracks[u].playhead \in Nat
        BY DEF TransportInv, Mirrored, TrackOK
      <4>2. off[u].playhead = tracks[u].playhead
        BY <1>4, Zenon
      <4>3. CASE u = t
        BY <2>1, <2>2, <2>3, <4>1, <4>3 DEF TrackOK
      <4>4. CASE u # t
        <5>1. tracks'[u] = off[u]
          BY <2>3, <4>4
        <5> QED BY <4>1, <4>2, <5>1
      <4> QED BY <4>3, <4>4
    <3> QED BY <3>1, <3>2 DEF Forward
  <2>8. IndexHonest'
    <3>1. /\ Attached(t)' = (IF t \in Live THEN Attached(t) ELSE {}) \cup {c}
          /\ \A u \in Live \ {t} : Attached(u)' = Attached(u) \ {c}
      <4>1. Attached(t)' = (IF t \in Live THEN Attached(t) ELSE {}) \cup {c}
        BY <2>1, <2>2, <2>3 DEF Attached
      <4>2. ASSUME NEW u \in Live \ {t} PROVE Attached(u)' = Attached(u) \ {c}
        <5>1. Attached(u)' = IF u \in moved THEN Attached(u) \ {c} ELSE Attached(u)
          BY <1>4, <2>3 DEF Attached
        <5>2. u \notin moved => c \notin Attached(u)
          BY <1>1 DEF moved, TransportInv, IndexHonest
        <5> QED BY <5>1, <5>2
      <4> QED BY <4>1, <4>2
    <3>2. /\ DOMAIN index' = DOMAIN index \cup {c} /\ index'[c] = t
          /\ \A d \in DOMAIN index \ {c} : index'[d] = index[d]
      BY <1>8 DEF With
    <3>3. /\ DOMAIN index = UNION {Attached(u) : u \in Live}
          /\ \A u \in Live, d \in Context : d \in Attached(u) <=> d \in DOMAIN index /\ index[d] = u
          /\ \A u \in Live : Attached(u) \subseteq Context
      BY DEF TransportInv, IndexHonest, Mirrored, TrackOK, Attached
    <3>4. DOMAIN index' = UNION {Attached(u)' : u \in Live'}
      BY <2>3, <3>1, <3>2, <3>3
    <3>5. ASSUME NEW u \in Live', NEW d \in Context
          PROVE  d \in Attached(u)' <=> d \in DOMAIN index' /\ index'[d] = u
      <4>1. CASE d = c
        BY <2>3, <3>1, <3>2, <4>1
      <4>2. CASE d # c /\ u \in Live
        BY <2>3, <3>1, <3>2, <3>3, <4>2
      <4>3. CASE d # c /\ u \notin Live
        <5>1. u = t /\ d \notin Attached(u)'
          BY <2>3, <3>1, <4>3
        <5>2. d \in DOMAIN index => index[d] \in Live
          BY IndexedIsLive
        <5> QED BY <3>2, <4>3, <5>1, <5>2
      <4> QED BY <4>1, <4>2, <4>3
    <3> QED BY <3>4, <3>5 DEF IndexHonest
  <2> QED BY <1>3, <2>5, <2>6, <2>7, <2>8, Zenon DEF TransportInv
<1> HIDE DEF mint
<1> QED BY <1>7, <1>8, Zenon DEF Attach, mint

(* delete keeps the invariant: the track, its contexts and all its rows go. *)
LEMMA DeleteKeeps ==
    ASSUME TransportInv, NEW t, Delete(t)
    PROVE  TransportInv' /\ Forward
<1>1. CallersOK'
  BY Zenon DEF Delete, TransportInv, CallersOK
<1>2. /\ Live' = Live \ {t} /\ \A u \in Live \ {t} : tracks'[u] = tracks[u]
      /\ DOMAIN trackRow' = DOMAIN trackRow \ {t}
      /\ \A u \in DOMAIN trackRow \ {t} : trackRow'[u] = trackRow[u]
      /\ bindRow' = bindRow \ RowsOf(t)
  BY DEF Delete, Without, Live
<1>3. Mirrored'
  BY <1>2 DEF TransportInv, Mirrored
<1>4. NoOrphanRow'
  BY <1>2 DEF TransportInv, NoOrphanRow, RowsOf
<1>5. Forward
  <2>1. \A u \in DOMAIN trackRow \cap DOMAIN trackRow' :
           trackRow[u].playhead \in Nat /\ trackRow'[u] = trackRow[u]
    BY <1>2 DEF TransportInv, Mirrored
  <2>2. \A u \in Live \cap Live' : tracks[u].playhead \in Nat /\ tracks'[u] = tracks[u]
    BY <1>2 DEF TransportInv, Mirrored, TrackOK
  <2> QED BY <2>1, <2>2 DEF Forward, Live
<1>6. IndexHonest'
  <2>1. \A u \in Live \ {t} : Attached(u)' = Attached(u)
    BY <1>2 DEF Attached
  <2>2. CASE t \notin Live
    <3>1. Live' = Live /\ index' = index
      BY <1>2, <2>2 DEF Delete
    <3> QED BY <2>1, <2>2, <3>1 DEF TransportInv, IndexHonest
  <2>3. CASE t \in Live
    <3>1. /\ DOMAIN index' = DOMAIN index \ Attached(t)
          /\ \A c \in DOMAIN index \ Attached(t) : index'[c] = index[c]
      BY <2>3 DEF Delete, DropIndex
    <3>2. /\ DOMAIN index = UNION {Attached(u) : u \in Live}
          /\ \A u \in Live, c \in Context : c \in Attached(u) <=> c \in DOMAIN index /\ index[c] = u
          /\ \A u \in Live : Attached(u) \subseteq Context
      BY DEF TransportInv, IndexHonest, Mirrored, TrackOK, Attached
    <3>3. \A u \in Live \ {t} : Attached(u) \cap Attached(t) = {}
      BY <2>3, <3>2
    <3>4. DOMAIN index' = UNION {Attached(u)' : u \in Live'}
      BY <1>2, <2>1, <2>3, <3>1, <3>2, <3>3, SMTT(30)
    <3>5. \A u \in Live', c \in Context : c \in Attached(u)' <=> c \in DOMAIN index' /\ index'[c] = u
      BY <1>2, <2>1, <2>3, <3>1, <3>2, <3>3, SMTT(30)
    <3> QED BY <3>4, <3>5 DEF IndexHonest
  <2> QED BY <2>2, <2>3
<1> QED BY <1>1, <1>3, <1>4, <1>5, <1>6 DEF TransportInv

(***************************************************************************)
(* One track loses the contexts in gone, moves on or stays, and its row is *)
(* written or left as it was: the page turn, and a delete that fails.      *)
(***************************************************************************)
LEMMA LosesContexts ==
    ASSUME TransportInv, CallersOK', NEW t \in Live, NEW gone, gone \subseteq Attached(t),
           NEW st, tracks' = [tracks EXCEPT ![t] = st], index' = DropIndex(gone),
           "attached" \in DOMAIN st, DOMAIN st.attached = Attached(t) \ gone,
           "playhead" \in DOMAIN st, st.playhead \in Nat, st.playhead >= tracks[t].playhead,
           trackRow' = trackRow \/ trackRow' = PersistTrack(trackRow, t, st),
           bindRow' \subseteq bindRow
    PROVE  TransportInv' /\ Forward
<1>1. /\ Live' = Live /\ tracks'[t] = st
      /\ \A u \in Live \ {t} : tracks'[u] = tracks[u]
  BY SMTT(30) DEF Live
<1>2. /\ tracks[t].playhead \in Nat /\ t \in DOMAIN trackRow
      /\ trackRow[t].playhead \in Nat /\ trackRow[t].playhead <= tracks[t].playhead
  BY SMTT(30) DEF TransportInv, Mirrored, TrackOK
<1>3. /\ DOMAIN trackRow' = DOMAIN trackRow
      /\ \A u \in DOMAIN trackRow \ {t} : trackRow'[u] = trackRow[u]
      /\ trackRow'[t].score = trackRow[t].score
      /\ trackRow'[t].playhead \in {trackRow[t].playhead, st.playhead}
  <2>1. CASE trackRow' = trackRow
    BY <2>1
  <2>2. CASE trackRow' = PersistTrack(trackRow, t, st)
    BY <1>2, <2>2, Zenon DEF PersistTrack, With, RowOf
  <2> QED BY <2>1, <2>2, SMTT(30)
<1>4. /\ trackRow'[t].playhead \in Nat /\ trackRow'[t].playhead <= st.playhead
      /\ trackRow'[t].playhead >= trackRow[t].playhead
  BY <1>2, <1>3, SMTT(30)
<1>5. TrackOK(st)
  BY SMTT(30) DEF TransportInv, Mirrored, TrackOK, Attached
<1>6. Mirrored'
  BY <1>1, <1>2, <1>3, <1>4, <1>5, SMTT(30) DEF TransportInv, Mirrored
<1>7. NoOrphanRow'
  BY <1>3 DEF TransportInv, NoOrphanRow
<1>8. Forward
  <2>1. \A u \in DOMAIN trackRow \ {t} : trackRow[u].playhead \in Nat /\ trackRow'[u] = trackRow[u]
    BY <1>3 DEF TransportInv, Mirrored
  <2>2. \A u \in Live \ {t} : tracks[u].playhead \in Nat /\ tracks'[u] = tracks[u]
    BY <1>1, Zenon DEF TransportInv, Mirrored, TrackOK
  <2> QED BY <1>1, <1>3, <1>4, <2>1, <2>2, SMTT(30) DEF Forward, Live
<1>9. IndexHonest'
  <2>1. Attached(t)' = Attached(t) \ gone /\ \A u \in Live \ {t} : Attached(u)' = Attached(u)
    BY <1>1 DEF Attached
  <2>2. /\ DOMAIN index' = DOMAIN index \ gone
        /\ \A c \in DOMAIN index \ gone : index'[c] = index[c]
    BY DEF DropIndex
  <2> QED BY <1>1, <2>1, <2>2, OffTrack, Zenon
<1> QED BY <1>6, <1>7, <1>8, <1>9 DEF TransportInv

(* A delete that fails on the way keeps the invariant. *)
LEMMA DeleteFailsKeeps ==
    ASSUME TransportInv, NEW t, NEW gone, NEW done, DeleteFails(t, gone, done)
    PROVE  TransportInv' /\ Forward
<1>1. CallersOK'
  BY DEF DeleteFails, TransportInv, CallersOK
<1>2. bindRow' \subseteq bindRow
  BY DEF DeleteFails
<1>3. CASE t \notin Live
  <2>1. UNCHANGED <<tracks, index, trackRow>>
    BY <1>3, Zenon DEF DeleteFails
  <2>2. Mirrored' /\ NoOrphanRow' /\ IndexHonest'
    BY <1>2, <2>1 DEF TransportInv, Mirrored, NoOrphanRow, IndexHonest, Live, Attached
  <2>3. Forward
    BY <2>1 DEF TransportInv, Mirrored, TrackOK, Forward, Live
  <2> QED BY <1>1, <2>2, <2>3 DEF TransportInv
<1>4. CASE t \in Live
  <2> DEFINE rest == [c \in Attached(t) \ gone |-> tracks[t].attached[c]]
             st == [tracks[t] EXCEPT !.playing = FALSE, !.attached = rest]
  <2>1. /\ gone \subseteq Attached(t) /\ tracks' = [tracks EXCEPT ![t] = st]
        /\ index' = DropIndex(gone) /\ trackRow' = PersistTrack(trackRow, t, st)
    BY <1>4 DEF DeleteFails
  <2>2. TrackOK(tracks[t])
    BY <1>4 DEF TransportInv, Mirrored
  <2>3. DOMAIN rest = Attached(t) \ gone
    OBVIOUS
  <2> HIDE DEF rest
  <2>4. /\ "attached" \in DOMAIN st /\ st.attached = rest
        /\ "playhead" \in DOMAIN st /\ st.playhead = tracks[t].playhead
    BY <2>2 DEF TrackOK
  <2>5. st.playhead \in Nat /\ st.playhead >= tracks[t].playhead
    BY <2>2, <2>4 DEF TrackOK
  <2> HIDE DEF st
  <2> QED BY <1>1, <1>2, <1>4, <2>1, <2>3, <2>4, <2>5, LosesContexts, Zenon
<1> QED BY <1>3, <1>4

(* A beat, with the page turns it begins, keeps the invariant. *)
LEMMA BeatKeeps ==
    ASSUME TransportInv, Beat
    PROVE  TransportInv' /\ Forward
<1>1. PICK e \in DOMAIN heap : Beat!(e)
  BY Zenon DEF Beat
<1> DEFINE t == e[2]
           turning == {c \in Attached(t) : tracks[t].attached[c] /\ RotateDue(tracks[t].beats + 1)}
           rest == [c \in Attached(t) \ turning |-> tracks[t].attached[c]]
           st == [tracks[t] EXCEPT !.playhead = Up(@), !.beats = (@ + 1) % Cycle, !.attached = rest]
<1>2. /\ t \in Live /\ tracks' = [tracks EXCEPT ![t] = st] /\ index' = DropIndex(turning)
      /\ trackRow' = IF turning = {} THEN trackRow ELSE PersistTrack(trackRow, t, st)
      /\ pages' = pages \cup {[parent |-> c, child |-> c, next |-> "fork"] : c \in turning}
      /\ UNCHANGED <<bindRow, born, maxTick, asked>>
  BY <1>1, Zenon DEF Honoured
<1>3. TrackOK(tracks[t])
  BY <1>2, SMTT(30) DEF TransportInv, Mirrored
<1>4. DOMAIN rest = Attached(t) \ turning /\ turning \subseteq Attached(t)
  OBVIOUS
<1>5. turning \subseteq Context
  BY <1>3 DEF TrackOK, Attached
<1> HIDE DEF rest, turning
<1>6. CallersOK'
  BY <1>2, <1>5 DEF TransportInv, CallersOK
<1>7. /\ "attached" \in DOMAIN st /\ st.attached = rest
      /\ "playhead" \in DOMAIN st /\ st.playhead = Up(tracks[t].playhead)
  BY <1>3 DEF TrackOK
<1>8. st.playhead \in Nat /\ st.playhead >= tracks[t].playhead
  BY <1>3, <1>7, TransportAssumption DEF TrackOK, Up
<1> HIDE DEF st, t
<1> QED BY <1>2, <1>4, <1>6, <1>7, <1>8, LosesContexts, Zenon

(* set_rotate changes a flag and its row. *)
LEMMA SetRotateKeeps ==
    ASSUME TransportInv, NEW t, NEW c, NEW rotate, SetRotate(t, c, rotate)
    PROVE  TransportInv' /\ Forward
<1>1. CallersOK'
  BY DEF SetRotate, TransportInv, CallersOK
<1> DEFINE flags == [tracks[t].attached EXCEPT ![c] = rotate]
           st == [tracks[t] EXCEPT !.attached = flags]
<1>2. /\ t \in Live /\ tracks' = [tracks EXCEPT ![t] = st]
      /\ UNCHANGED <<index, trackRow>>
      /\ bindRow' = PersistBinding(bindRow, Binding(t, c, rotate))
  BY DEF SetRotate
<1>3. DOMAIN flags = Attached(t)
  BY DEF Attached
<1>4. TrackOK(tracks[t])
  BY <1>2 DEF TransportInv, Mirrored
<1> HIDE DEF flags
<1>5. /\ "attached" \in DOMAIN st /\ DOMAIN st.attached = Attached(t)
      /\ "playhead" \in DOMAIN st /\ st.playhead = tracks[t].playhead
  BY <1>3, <1>4 DEF TrackOK
<1> HIDE DEF st
<1>6. /\ Live' = Live /\ tracks'[t] = st /\ \A u \in Live \ {t} : tracks'[u] = tracks[u]
  BY <1>2, SMTT(30) DEF Live
<1>7. Mirrored'
  BY <1>2, <1>4, <1>5, <1>6, SMTT(30) DEF TransportInv, Mirrored, TrackOK, Attached
<1>8. NoOrphanRow'
  BY <1>2, SMTT(30) DEF TransportInv, Mirrored, NoOrphanRow, PersistBinding, Binding
<1>9. IndexHonest'
  <2>1. \A u \in Live : Attached(u)' = Attached(u)
    BY <1>5, <1>6 DEF Attached
  <2> QED BY <1>2, <1>6, <2>1, SMTT(30) DEF TransportInv, IndexHonest
<1>10. Forward
  BY <1>2, <1>5, <1>6, SMTT(30) DEF TransportInv, Mirrored, TrackOK, Forward, Live
<1> QED BY <1>1, <1>7, <1>8, <1>9, <1>10 DEF TransportInv

(* play keeps the invariant, called by the operator or by a page turn. *)
LEMMA PlayKeeps ==
    ASSUME TransportInv, NEW t, PlayTrack(t)
    PROVE  /\ Mirrored' /\ NoOrphanRow' /\ IndexHonest' /\ Forward
           /\ UNCHANGED <<born, maxTick, asked>>
<1> DEFINE st == [tracks[t] EXCEPT !.playing = TRUE, !.gen = @ + 1]
<1>1. t \in Live /\ Apply(t, st)
  BY DEF PlayTrack
<1>2. TrackOK(tracks[t])
  BY <1>1 DEF TransportInv, Mirrored
<1>3. /\ "attached" \in DOMAIN st /\ st.attached = tracks[t].attached
      /\ "playhead" \in DOMAIN st /\ st.playhead = tracks[t].playhead
  BY <1>2 DEF TrackOK
<1> HIDE DEF st
<1> QED BY <1>1, <1>3, ApplyKeeps, ZenonT(40)

(* So do pause, stop and a new tempo. *)
LEMMA HoldKeeps ==
    ASSUME TransportInv, NEW t, NEW p, Hold(t) \/ SetTempo(t, p)
    PROVE  TransportInv' /\ Forward
<1>1. PICK st : /\ t \in Live /\ Apply(t, st)
                /\ \/ st = [tracks[t] EXCEPT !.playing = FALSE]
                   \/ st = [tracks[t] EXCEPT !.period = p]
  BY DEF Hold, SetTempo
<1>2. TrackOK(tracks[t])
  BY <1>1 DEF TransportInv, Mirrored
<1>3. /\ "attached" \in DOMAIN st /\ st.attached = tracks[t].attached
      /\ "playhead" \in DOMAIN st /\ st.playhead = tracks[t].playhead
  BY <1>1, <1>2 DEF TrackOK
<1>4. Mirrored' /\ NoOrphanRow' /\ IndexHonest' /\ Forward /\ UNCHANGED <<born, maxTick, asked>>
  BY <1>1, <1>3, ApplyKeeps
<1>5. pages' = pages
  BY DEF Hold, SetTempo
<1> QED BY <1>4, <1>5 DEF TransportInv, CallersOK

(* Steps that touch neither the tracks nor their rows. *)
LEMMA RestKeeps ==
    ASSUME TransportInv, CallersOK', UNCHANGED <<tracks, index, trackRow>>,
           \A b \in bindRow' : \E a \in bindRow : b.track = a.track
    PROVE  TransportInv' /\ Forward
<1>1. Mirrored' /\ IndexHonest'
  BY DEF TransportInv, Mirrored, IndexHonest, Live, Attached
<1>2. NoOrphanRow'
  BY DEF TransportInv, NoOrphanRow
<1>3. Forward
  BY DEF TransportInv, Mirrored, TrackOK, Forward, Live
<1> QED BY <1>1, <1>2, <1>3 DEF TransportInv

(* What the operator and the players do keeps the invariant. *)
LEMMA CommandKeeps ==
    ASSUME TransportInv, Command
    PROVE  TransportInv' /\ Forward
<1>1. ASSUME NEW c \in Context, NEW t \in Track, NEW r \in BOOLEAN, AskAttach(c, t, r)
      PROVE  TransportInv' /\ Forward
  <2>1. CallersOK'
    BY <1>1 DEF AskAttach, Request, TransportInv, CallersOK
  <2> QED BY <1>1, <2>1, RestKeeps, Zenon DEF AskAttach, mem, db
<1>2. ASSUME NEW t \in Track, Play(t)
      PROVE  TransportInv' /\ Forward
  BY <1>2, PlayKeeps DEF Play, TransportInv, CallersOK
<1>3. ASSUME NEW c \in Context, Author(c)
      PROVE  TransportInv' /\ Forward
  <2>1. CallersOK'
    BY <1>3 DEF Author, TransportInv, CallersOK
  <2> QED BY <1>3, <2>1, RestKeeps DEF Author, mem, db
<1>4. ASSUME NEW t \in Track, Relabel(t)
      PROVE  TransportInv' /\ Forward
  <2>1. CallersOK'
    BY <1>4 DEF Relabel, TransportInv, CallersOK
  <2> QED BY <1>4, <2>1, RestKeeps DEF Relabel, mem
<1> QED
  BY <1>1, <1>2, <1>3, <1>4, DetachKeeps, HoldKeeps, SetRotateKeeps, DeleteKeeps, DeleteFailsKeeps
  DEF Command

(* Attachment rows name a track. *)
RowsOK == \A b \in bindRow : "track" \in DOMAIN b

(* Rows are written by attach and set_rotate, copied by a fork, or deleted. *)
LEMMA RowsInductive == RowsOK /\ [Next]_vars => RowsOK'
<1> SUFFICES ASSUME RowsOK, [Next]_vars PROVE RowsOK'
  OBVIOUS
<1> USE DEF RowsOK
<1>1. ASSUME NEW t \in Track, NEW c \in Context, NEW r \in BOOLEAN, SetRotate(t, c, r)
      PROVE  RowsOK'
  BY <1>1 DEF SetRotate, PersistBinding, Binding
<1>2. ASSUME NEW t \in Track, NEW gone, NEW done, Delete(t) \/ DeleteFails(t, gone, done)
      PROVE  RowsOK'
  BY <1>2 DEF Delete, DeleteFails
<1>3. ASSUME NEW q \in asked, NEW p \in Period, Attach(q, p)
      PROVE  RowsOK'
  <2>1. \/ bindRow' \subseteq bindRow
        \/ \E rows \in SUBSET bindRow :
              bindRow' = PersistBinding(rows, Binding(q.track, q.context, q.rotate))
    BY <1>3, Zenon DEF Attach
  <2> QED BY <2>1, SMTT(30) DEF PersistBinding, Binding
<1>4. ASSUME NEW pg \in pages, NEW c \in Context, Fork(pg, c)
      PROVE  RowsOK'
  BY <1>4 DEF Fork
<1>5. CASE UNCHANGED bindRow
  BY <1>5
<1>6. ASSUME NEW t, PlayTrack(t) \/ Hold(t) \/ \E p \in Period : SetTempo(t, p)
      PROVE  UNCHANGED bindRow
  BY <1>6, Zenon DEF PlayTrack, Hold, SetTempo, Apply
<1>7. CASE Command
  BY <1>1, <1>2, <1>5, <1>6, <1>7 DEF Command, AskAttach, Detach, Play, Author, Relabel, db
<1>8. CASE Step
  <2>1. ASSUME NEW pg \in pages, PageAttach(pg) \/ PagePlay(pg) \/ PageStops(pg)
        PROVE  UNCHANGED bindRow
    BY <1>6, <2>1, Zenon DEF PageAttach, PagePlay, PageStops, db
  <2>2. CASE Tick \/ DropStale \/ Beat \/ Crash
    BY <1>5, <2>2, Zenon DEF Tick, DropStale, Beat, Crash, db
  <2> QED BY <1>3, <1>4, <1>5, <1>8, <2>1, <2>2 DEF Step, Fire
<1>9. CASE UNCHANGED vars
  BY <1>5, <1>9 DEF vars, db
<1> QED BY <1>7, <1>8, <1>9 DEF Next

(* What the kernel does by itself keeps the invariant. *)
LEMMA StepKeeps ==
    ASSUME TransportInv, RowsOK, Step
    PROVE  TransportInv' /\ Forward
<1>1. ASSUME NEW pg \in pages, NEW c \in Context, Fork(pg, c)
      PROVE  TransportInv' /\ Forward
  <2>1. CallersOK'
    BY <1>1, Zenon DEF Fork, TransportInv, CallersOK
  <2>2. \A b \in bindRow' : \E a \in bindRow : b.track = a.track
    BY <1>1 DEF Fork, RowsOK
  <2> QED BY <1>1, <2>1, <2>2, RestKeeps DEF Fork, mem
<1>2. ASSUME NEW pg \in pages, PageAttach(pg)
      PROVE  TransportInv' /\ Forward
  <2>1. CallersOK'
    BY <1>2 DEF PageAttach, Request, TransportInv, CallersOK
  <2> QED BY <1>2, <2>1, RestKeeps DEF PageAttach, mem, db
<1>3. ASSUME NEW pg \in pages, PagePlay(pg)
      PROVE  TransportInv' /\ Forward
  <2>1. pages' \subseteq pages
    BY <1>3 DEF PagePlay
  <2>2. ASSUME NEW t, PlayTrack(t)
        PROVE  TransportInv' /\ Forward
    BY <2>1, <2>2, PlayKeeps DEF TransportInv, CallersOK
  <2>3. CASE UNCHANGED <<mem, db, born, maxTick, asked>>
    <3>1. CallersOK'
      BY <2>1, <2>3 DEF TransportInv, CallersOK
    <3> QED BY <2>3, <3>1, RestKeeps DEF mem, db
  <2> QED BY <1>3, <2>2, <2>3 DEF PagePlay
<1>4. ASSUME NEW pg \in pages, PageStops(pg)
      PROVE  TransportInv' /\ Forward
  <2>1. CallersOK'
    BY <1>4 DEF PageStops, TransportInv, CallersOK
  <2> QED BY <1>4, <2>1, RestKeeps DEF PageStops, mem, db
<1>5. CASE Tick \/ DropStale
  <2>1. UNCHANGED <<tracks, index, db, born, maxTick, asked, pages>>
    BY <1>5 DEF Tick, DropStale
  <2>2. CallersOK'
    BY <2>1 DEF TransportInv, CallersOK
  <2> QED BY <2>1, <2>2, RestKeeps, SMTT(30) DEF db
<1>6. CASE Crash
  <2>1. CallersOK'
    BY <1>6 DEF Crash, TransportInv, CallersOK
  <2>2. Live' = {} /\ DOMAIN index' = {} /\ DOMAIN tracks' = {} /\ UNCHANGED <<trackRow, bindRow>>
    BY <1>6, SMTT(30) DEF Crash, Live, db
  <2>3. Mirrored' /\ NoOrphanRow' /\ IndexHonest'
    BY <2>2, SMTT(30) DEF TransportInv, Mirrored, NoOrphanRow, IndexHonest
  <2>4. Forward
    BY <2>2 DEF TransportInv, Mirrored, Forward
  <2> QED BY <2>1, <2>3, <2>4 DEF TransportInv
<1> QED
  BY <1>1, <1>2, <1>3, <1>4, <1>5, <1>6, AttachKeeps, BeatKeeps DEF Step, Fire

(* Every step keeps the invariant and moves no position back. *)
LEMMA TransportInductive == TransportInv /\ RowsOK /\ [Next]_vars => TransportInv' /\ Forward
<1> SUFFICES ASSUME TransportInv, RowsOK, [Next]_vars PROVE TransportInv' /\ Forward
  OBVIOUS
<1>1. CASE UNCHANGED vars
  <2>1. CallersOK'
    BY <1>1 DEF vars, TransportInv, CallersOK
  <2> QED BY <1>1, <2>1, RestKeeps DEF vars, mem, db
<1> QED BY <1>1, CommandKeeps, StepKeeps DEF Next

(* The invariant holds in every behaviour. *)
THEOREM TransportInvariant == Spec => [](TransportInv /\ RowsOK)
<1>1. Init => RowsOK
  BY DEF Init, RowsOK
<1> QED BY <1>1, InitTransport, TransportInductive, RowsInductive, PTL DEF Spec

(***************************************************************************)
(* The reverse index is exact, and no context rides two tracks: whatever   *)
(* attaches, detaches, deletes that fail, page turns and restarts come, in *)
(* whatever order.                                                         *)
(***************************************************************************)
THEOREM IndexIsHonest == Spec => []IndexHonest
<1>1. TransportInv => IndexHonest
  BY DEF TransportInv
<1> QED BY <1>1, TransportInvariant, PTL

(* No attachment row outlives the row of its track. *)
THEOREM NoRowIsOrphaned == Spec => []NoOrphanRow
<1>1. TransportInv => NoOrphanRow
  BY DEF TransportInv
<1> QED BY <1>1, TransportInvariant, PTL

(***************************************************************************)
(* The position of a track never goes back, in memory, in its row, or      *)
(* across a restart, and the row keeps its score context.                  *)
(***************************************************************************)
THEOREM PositionsNeverGoBack == Spec => NoRewind
<1>1. TransportInv /\ RowsOK /\ [Next]_vars => [Forward]_vars
  BY TransportInductive
<1> QED BY <1>1, TransportInvariant, PTL DEF Spec, NoRewind, Forward

-----------------------------------------------------------------------------
(* Types.                                                                  *)

(* A track in memory, with contexts among those given. *)
StateOK(st, contexts) ==
    /\ DOMAIN st = {"playing", "gen", "beats", "attached", "playhead", "period", "score"}
    /\ st.playing \in BOOLEAN /\ st.gen \in 0..MaxPlays
    /\ st.beats \in 0..(Cycle - 1) /\ st.playhead \in 0..MaxTick
    /\ st.period \in Period /\ DOMAIN st.attached \subseteq contexts

(* The tracks and their rows. *)
TracksTyped ==
    /\ DOMAIN tracks \subseteq Track /\ DOMAIN trackRow \subseteq Track
    /\ \A t \in DOMAIN tracks : StateOK(tracks[t], born)
    /\ \A t \in DOMAIN trackRow :
          trackRow[t].playhead \in 0..MaxTick /\ trackRow[t].period \in Period

(* The attachment rows. *)
BindTyped ==
    \A b \in bindRow : /\ {"track", "context"} \subseteq DOMAIN b
                       /\ b.track \in Track /\ b.context \in born

(* What the callers and the page turns hold. *)
CallersTyped ==
    /\ maxTick \in [Context -> 0..MaxTick]
    /\ \A q \in asked : q.context \in born /\ q.track \in Track
    /\ \A pg \in pages : pg.child \in born

(* The entries of the timer heap. *)
HeapTyped == /\ DOMAIN heap \subseteq Int \X Track \X (1..MaxPlays)
             /\ \A e \in DOMAIN heap : heap[e] \in Nat \ {0}

(* All of it: what TypeOK says, and what makes it inductive. *)
TypeInv == TracksTyped /\ BindTyped /\ CallersTyped /\ HeapTyped

(* Steps that leave the clock alone: no track starts, and a new one is     *)
(* stopped, in its first generation.                                       *)
Calm ==
    /\ ~firing /\ UNCHANGED <<heap, firing, burst, reborn>>
    /\ Live \subseteq DOMAIN tracks'
    /\ \A t \in Live : /\ tracks'[t].gen = tracks[t].gen
                       /\ tracks'[t].playing => tracks[t].playing
    /\ \A t \in DOMAIN tracks' \ Live : tracks'[t].gen = 0 /\ ~tracks'[t].playing

(* The cycle of beat counts is not empty. *)
LEMMA CycleIsPositive == Cycle \in Nat \ {0}
BY TransportAssumption DEF Cycle

(* A beat count stays in its cycle. *)
LEMMA BeatsWrap ==
    ASSUME NEW n \in 0..(Cycle - 1)
    PROVE  (n + 1) % Cycle \in 0..(Cycle - 1)
BY CycleIsPositive

(* One track changes, and its row is written or left as it was. *)
LEMMA OneTrackTyped ==
    ASSUME TracksTyped, NEW t \in Live, NEW st, StateOK(st, born),
           tracks' = [tracks EXCEPT ![t] = st], born' = born,
           trackRow' = trackRow \/ trackRow' = PersistTrack(trackRow, t, st)
    PROVE  TracksTyped' /\ Live' = Live /\ tracks'[t] = st /\ \A u \in Live \ {t} : tracks'[u] = tracks[u]
<1>1. Live' = Live /\ tracks'[t] = st /\ \A u \in Live \ {t} : tracks'[u] = tracks[u]
  BY Zenon DEF Live
<1>2. /\ DOMAIN trackRow' \subseteq Track
      /\ \A u \in DOMAIN trackRow' :
            trackRow'[u].playhead \in 0..MaxTick /\ trackRow'[u].period \in Period
  <2>1. CASE trackRow' = trackRow
    BY <2>1, SMTT(30) DEF TracksTyped
  <2>2. CASE trackRow' = PersistTrack(trackRow, t, st)
    <3>1. /\ DOMAIN trackRow' = DOMAIN trackRow \cup {t}
          /\ trackRow'[t].playhead = st.playhead /\ trackRow'[t].period = st.period
          /\ \A u \in DOMAIN trackRow \ {t} : trackRow'[u] = trackRow[u]
      BY <2>2 DEF PersistTrack, With, RowOf
    <3> QED BY <3>1 DEF TracksTyped, StateOK, Live
  <2> QED BY <2>1, <2>2
<1>3. \A u \in DOMAIN tracks' : StateOK(tracks'[u], born')
  BY <1>1, SMTT(30) DEF TracksTyped, Live
<1> QED BY <1>1, <1>2, <1>3 DEF TracksTyped, Live

(* Steps that touch neither the tracks nor their rows. *)
LEMMA SameTracksTyped ==
    ASSUME TracksTyped, UNCHANGED <<tracks, trackRow>>, born \subseteq born'
    PROVE  TracksTyped'
BY DEF TracksTyped, StateOK

(* A context resolves to a track: its row's, or its label's. *)
LEMMA ResolvesToTrack ==
    ASSUME BindTyped, NEW c, NEW t \in Resolutions(c)
    PROVE  t \in Track
BY TransportAssumption DEF BindTyped, Resolutions

(* detach keeps the types, and starts no track. *)
LEMMA DetachTyped ==
    ASSUME TypeInv, NEW c \in Context, NEW t \in Track, Detach(c, t)
    PROVE  TypeInv' /\ Calm
<1>1. BindTyped' /\ CallersTyped' /\ HeapTyped'
  BY ZenonT(40) DEF Detach, TypeInv, BindTyped, CallersTyped, HeapTyped
<1>2. ~firing /\ UNCHANGED <<heap, firing, burst, reborn>> /\ born' = born
  BY DEF Detach
<1>3. CASE t \notin Live
  <2>1. tracks' = tracks /\ trackRow' = trackRow
    BY <1>3, Zenon DEF Detach, Unbind, Persisted, Live
  <2> QED BY <1>1, <1>2, <2>1, SameTracksTyped DEF TypeInv, Calm, Live
<1>4. CASE t \in Live
  <2> DEFINE less == Without(tracks[t].attached, c)
             st == [tracks[t] EXCEPT !.attached = less]
  <2>1. tracks' = [tracks EXCEPT ![t] = st]
    BY <1>4 DEF Detach, Unbind, Live
  <2>2. trackRow' = PersistTrack(trackRow, t, st)
    BY <1>4, <2>1 DEF Detach, Persisted, Live
  <2>3. StateOK(tracks[t], born)
    BY <1>4, SMTT(30) DEF TypeInv, TracksTyped, Live
  <2>4. DOMAIN less \subseteq born
    BY <2>3 DEF Without, StateOK
  <2> HIDE DEF less
  <2>5. StateOK(st, born) /\ st.gen = tracks[t].gen /\ st.playing = tracks[t].playing
    BY <2>3, <2>4 DEF StateOK
  <2> HIDE DEF st
  <2>6. TracksTyped' /\ Live' = Live /\ tracks'[t] = st /\ \A u \in Live \ {t} : tracks'[u] = tracks[u]
    BY <1>2, <1>4, <2>1, <2>2, <2>5, OneTrackTyped, Zenon DEF TypeInv
  <2> QED BY <1>1, <1>2, <2>5, <2>6 DEF TypeInv, Calm, Live
<1> QED BY <1>3, <1>4, ZenonT(40)

(* What a binding row says.                                                *)
LEMMA BindingFields ==
  ASSUME NEW t, NEW c, NEW rotate
  PROVE  /\ {"track", "context"} \subseteq DOMAIN Binding(t, c, rotate)
         /\ Binding(t, c, rotate).track = t /\ Binding(t, c, rotate).context = c
BY DEF Binding

(* A binding saved is the only row that is new.                            *)
LEMMA BindingAdded ==
  ASSUME NEW rows, NEW b
  PROVE  \A r \in PersistBinding(rows, b) : r \in rows \/ r = b
BY Zenon DEF PersistBinding

(* attach: a track made for it is stopped and in its first generation. *)
LEMMA AttachTyped ==
    ASSUME TransportInv, TypeInv, NEW q \in asked, NEW period \in Period, Attach(q, period)
    PROVE  TypeInv' /\ Calm
<1> DEFINE c == q.context
           t == q.track
           moved == IF c \in DOMAIN index /\ index[c] # t THEN {index[c]} ELSE {}
           off == [u \in Live |-> IF u \in moved
                      THEN [tracks[u] EXCEPT !.attached = Without(@, c)]
                      ELSE tracks[u]]
           offRow == [u \in DOMAIN trackRow |-> IF u \in moved
                         THEN PersistTrack(trackRow, u, off[u])[u] ELSE trackRow[u]]
           offBind == {b \in bindRow : ~(b.context = c /\ b.track \in moved)}
           mint == t \notin Live /\ t \notin DOMAIN trackRow
           st == IF t \in Live THEN off[t] ELSE NewTrack(t, c, period)
           on == [st EXCEPT !.playhead = Larger(@, maxTick[c]),
                            !.attached = With(@, c, q.rotate)]
<1>1. c \in born /\ t \in Track /\ maxTick[c] \in 0..MaxTick
  BY DEF TypeInv, CallersTyped, TransportInv, CallersOK
<1>2. moved \subseteq Live
  BY IndexedIsLive, SMTT(30)
<1>3. CallersTyped' /\ HeapTyped' /\ born' = born /\ ~firing /\ UNCHANGED <<heap, firing, burst, reborn>>
  BY Zenon DEF Attach, TypeInv, CallersTyped, HeapTyped
<1>4. ASSUME NEW u \in Live
      PROVE  /\ StateOK(off[u], born)
             /\ off[u].gen = tracks[u].gen /\ off[u].playing = tracks[u].playing
  <2>1. StateOK(tracks[u], born)
    BY DEF TypeInv, TracksTyped, Live
  <2>2. CASE u \in moved
    <3> DEFINE less == Without(tracks[u].attached, c)
    <3>1. off[u] = [tracks[u] EXCEPT !.attached = less]
      BY <2>2, SMTT(30)
    <3>2. DOMAIN less \subseteq born
      BY <2>1 DEF Without, StateOK
    <3> HIDE DEF off, less, moved
    <3> QED BY <2>1, <3>1, <3>2 DEF StateOK
  <2>3. CASE u \notin moved
    BY <2>1, <2>3, Zenon
  <2> QED BY <2>2, <2>3
<1>5. ASSUME NEW u \in DOMAIN trackRow
      PROVE  offRow[u].playhead \in 0..MaxTick /\ offRow[u].period \in Period
  <2>1. CASE u \in moved
    <3>1. offRow[u] = PersistTrack(trackRow, u, off[u])[u] /\ u \in Live
      BY <1>2, <2>1, Zenon
    <3>2. offRow[u].playhead = off[u].playhead /\ offRow[u].period = off[u].period
      BY <3>1 DEF PersistTrack, With, RowOf
    <3> HIDE DEF off, offRow, moved
    <3> QED BY <1>4, <3>1, <3>2 DEF StateOK
  <2>2. CASE u \notin moved
    BY <2>2 DEF TypeInv, TracksTyped
  <2> QED BY <2>1, <2>2, Zenon
<1>6. /\ DOMAIN off = Live /\ DOMAIN offRow = DOMAIN trackRow /\ offBind \subseteq bindRow
      /\ Live \subseteq Track /\ DOMAIN trackRow \subseteq Track
  BY DEF TypeInv, TracksTyped, Live
<1>7. CASE tracks' = off /\ trackRow' = offRow /\ bindRow' = offBind
  <2> HIDE DEF off, offRow, offBind, moved
  <2>1. BindTyped'
    BY <1>3, <1>6, <1>7, Zenon DEF TypeInv, BindTyped
  <2>2. TracksTyped'
    BY <1>3, <1>4, <1>5, <1>6, <1>7, Zenon DEF TracksTyped
  <2>3. Calm
    BY <1>3, <1>4, <1>6, <1>7, Zenon DEF Calm
  <2> QED BY <1>3, <2>1, <2>2, <2>3 DEF TypeInv
<1>8. CASE /\ tracks' = With(off, t, on)
           /\ trackRow' = PersistTrack(offRow, t, on)
           /\ bindRow' = PersistBinding(offBind, Binding(t, c, q.rotate))
  <2>1. /\ StateOK(st, born)
        /\ t \in Live => st.gen = tracks[t].gen /\ st.playing = tracks[t].playing
        /\ t \notin Live => st.gen = 0 /\ ~st.playing
    <3>1. CASE t \in Live
      <4>1. st = off[t]
        BY <3>1
      <4> HIDE DEF st, off
      <4> QED BY <1>4, <3>1, <4>1
    <3>2. CASE t \notin Live
      <4>1. st = NewTrack(t, c, period)
        BY <3>2
      <4>2. t \in DOMAIN trackRow => trackRow[t].playhead \in 0..MaxTick /\ trackRow[t].period \in Period
        BY SMTT(30) DEF TypeInv, TracksTyped
      <4> HIDE DEF st
      <4> DEFINE row == trackRow[t]
                 kept == t \in DOMAIN trackRow
                 ph == Larger(maxTick[c], IF kept THEN row.playhead ELSE 0)
                 pd == IF kept THEN row.period ELSE period
                 sc == IF kept THEN row.score ELSE scores + 1
      <4>3. ph \in 0..MaxTick /\ pd \in Period
        BY <1>1, <4>2, TransportAssumption DEF Larger
      <4>4. st = [playing |-> FALSE, gen |-> 0, beats |-> 0, attached |-> << >>,
                  playhead |-> ph, period |-> pd, score |-> sc]
        BY <4>1, Zenon DEF NewTrack
      <4> HIDE DEF ph, pd, sc
      <4>5. /\ DOMAIN st = {"playing", "gen", "beats", "attached", "playhead", "period", "score"}
            /\ st.playing = FALSE /\ st.gen = 0 /\ st.beats = 0 /\ st.attached = << >>
            /\ st.playhead = ph /\ st.period = pd
        BY <4>4
      <4>6. 0 \in 0..(Cycle - 1) /\ 0 \in 0..MaxPlays
        BY CycleIsPositive, TransportAssumption
      <4>7. DOMAIN st.attached = {}
        BY <4>5
      <4> QED BY <3>2, <4>3, <4>5, <4>6, <4>7, ZenonT(40) DEF StateOK
    <3> QED BY <3>1, <3>2, Zenon
  <2>2. StateOK(on, born) /\ on.gen = st.gen /\ on.playing = st.playing
    <3> DEFINE more == With(st.attached, c, q.rotate)
               further == Larger(st.playhead, maxTick[c])
    <3>1. on = [st EXCEPT !.playhead = further, !.attached = more]
      BY Zenon
    <3>2. DOMAIN more \subseteq born
      BY <1>1, <2>1, Zenon DEF With, StateOK
    <3>3. further \in 0..MaxTick
      BY <1>1, <2>1, ZenonT(40) DEF Larger, StateOK
    <3> HIDE DEF on, st, more, further
    <3> QED BY <2>1, <3>1, <3>2, <3>3 DEF StateOK
  <2> HIDE DEF moved, off, offRow, offBind, st, on
  <2>3. /\ DOMAIN tracks' = Live \cup {t} /\ tracks'[t] = on
        /\ \A u \in Live \ {t} : tracks'[u] = off[u]
    BY <1>6, <1>8, ZenonT(40) DEF With
  <2>4. /\ DOMAIN trackRow' = DOMAIN trackRow \cup {t}
        /\ trackRow'[t].playhead = on.playhead /\ trackRow'[t].period = on.period
        /\ \A u \in DOMAIN trackRow \ {t} : trackRow'[u] = offRow[u]
    BY <1>6, <1>8, Zenon DEF PersistTrack, With, RowOf
  <2>5. BindTyped'
    <3> DEFINE b == Binding(t, c, q.rotate)
    <3>1. {"track", "context"} \subseteq DOMAIN b /\ b.track = t /\ b.context = c
      BY BindingFields
    <3> HIDE DEF b
    <3>2. \A r \in bindRow' : r \in bindRow \/ r = b
      <4>1. bindRow' = PersistBinding(offBind, b)
        BY <1>8, Zenon DEF b
      <4> QED BY <1>6, <4>1, BindingAdded, Zenon
    <3> QED BY <1>1, <1>3, <3>1, <3>2, Zenon DEF TypeInv, BindTyped
  <2>6. TracksTyped'
    <3>1. \A u \in DOMAIN tracks' : StateOK(tracks'[u], born')
      BY <1>3, <1>4, <2>2, <2>3
    <3>2. \A u \in DOMAIN trackRow' : trackRow'[u].playhead \in 0..MaxTick /\ trackRow'[u].period \in Period
      BY <1>5, <2>2, <2>4, Zenon DEF StateOK
    <3> QED BY <1>1, <1>6, <2>3, <2>4, <3>1, <3>2, ZenonT(40) DEF TracksTyped
  <2>7. Calm
    BY <1>3, <1>4, <2>1, <2>2, <2>3, Zenon DEF Calm
  <2> QED BY <1>3, <2>5, <2>6, <2>7 DEF TypeInv
<1> HIDE DEF mint
<1> QED BY <1>7, <1>8, Zenon DEF Attach, mint

(* pause, stop and a new tempo start no track. *)
LEMMA HoldTyped ==
    ASSUME TypeInv, NEW t, NEW p \in Period, Hold(t) \/ SetTempo(t, p)
    PROVE  TypeInv' /\ Calm
<1>1. PICK st : /\ t \in Live /\ Apply(t, st)
                /\ \/ st = [tracks[t] EXCEPT !.playing = FALSE]
                   \/ st = [tracks[t] EXCEPT !.period = p]
  BY DEF Hold, SetTempo
<1>2. UNCHANGED <<heap, pages>>
  BY DEF Hold, SetTempo
<1>3. StateOK(tracks[t], born)
  BY <1>1 DEF TypeInv, TracksTyped, Live
<1>4. StateOK(st, born) /\ st.gen = tracks[t].gen /\ (st.playing => tracks[t].playing)
  BY <1>1, <1>3, Zenon DEF StateOK
<1>5. TracksTyped' /\ Live' = Live /\ tracks'[t] = st /\ \A u \in Live \ {t} : tracks'[u] = tracks[u]
  BY <1>1, <1>4, OneTrackTyped, Zenon DEF TypeInv, Apply
<1>6. /\ ~firing
      /\ UNCHANGED <<index, firing, burst, bindRow, label, scores, born, maxTick, asked, reborn, crashes>>
  BY <1>1, Zenon DEF Apply
<1> QED BY <1>2, <1>4, <1>5, <1>6, Zenon DEF TypeInv, BindTyped, CallersTyped, HeapTyped, Calm, Live

(* set_rotate changes a flag of an attached context. *)
LEMMA SetRotateTyped ==
    ASSUME TypeInv, NEW t, NEW c, NEW rotate, SetRotate(t, c, rotate)
    PROVE  TypeInv' /\ Calm
<1> DEFINE flags == [tracks[t].attached EXCEPT ![c] = rotate]
           st == [tracks[t] EXCEPT !.attached = flags]
<1>1. /\ t \in Live /\ c \in Attached(t) /\ tracks' = [tracks EXCEPT ![t] = st]
      /\ bindRow' = PersistBinding(bindRow, Binding(t, c, rotate))
      /\ ~firing
      /\ UNCHANGED <<heap, firing, burst, trackRow, born, maxTick, asked, pages, reborn>>
  BY DEF SetRotate
<1>2. StateOK(tracks[t], born) /\ t \in Track
  BY <1>1 DEF TypeInv, TracksTyped, Live
<1>3. DOMAIN flags \subseteq born /\ c \in born
  BY <1>1, <1>2 DEF StateOK, Attached
<1> HIDE DEF flags
<1>4. StateOK(st, born) /\ st.gen = tracks[t].gen /\ st.playing = tracks[t].playing
  BY <1>2, <1>3 DEF StateOK
<1> HIDE DEF st
<1>5. TracksTyped' /\ Live' = Live /\ tracks'[t] = st /\ \A u \in Live \ {t} : tracks'[u] = tracks[u]
  BY <1>1, <1>4, OneTrackTyped, Zenon DEF TypeInv
<1>6. BindTyped'
  <2>1. PICK b : b = Binding(t, c, rotate)
    BY ZenonT(40)
  <2>2. {"track", "context"} \subseteq DOMAIN b /\ b.track \in Track /\ b.context \in born
    BY <1>2, <1>3, <2>1, SMTT(30) DEF Binding
  <2>3. bindRow' \subseteq bindRow \cup {b} /\ born' = born
    BY <1>1, <2>1 DEF PersistBinding
  <2>4. BindTyped
    BY DEF TypeInv
  <2> QED BY <2>2, <2>3, <2>4, Zenon DEF BindTyped
<1> QED BY <1>1, <1>4, <1>5, <1>6 DEF TypeInv, CallersTyped, HeapTyped, Calm, Live

(* A delete that fails stops the track, and starts none. *)
LEMMA DeleteFailsTyped ==
    ASSUME TypeInv, NEW t, NEW gone, NEW done, DeleteFails(t, gone, done)
    PROVE  TypeInv' /\ Calm
<1>1. /\ ~firing /\ bindRow' \subseteq bindRow
      /\ UNCHANGED <<heap, firing, burst, born, maxTick, asked, pages, reborn>>
  BY Zenon DEF DeleteFails
<1>2. BindTyped' /\ CallersTyped' /\ HeapTyped'
  BY <1>1, Zenon DEF TypeInv, BindTyped, CallersTyped, HeapTyped
<1>3. CASE t \notin Live
  <2>1. UNCHANGED <<tracks, trackRow>>
    BY <1>3, Zenon DEF DeleteFails
  <2> QED BY <1>1, <1>2, <2>1, SameTracksTyped DEF TypeInv, Calm, Live
<1>4. CASE t \in Live
  <2> DEFINE rest == [c \in Attached(t) \ gone |-> tracks[t].attached[c]]
             st == [tracks[t] EXCEPT !.playing = FALSE, !.attached = rest]
  <2>1. tracks' = [tracks EXCEPT ![t] = st] /\ trackRow' = PersistTrack(trackRow, t, st)
    BY <1>4 DEF DeleteFails
  <2>2. StateOK(tracks[t], born)
    BY <1>4, Zenon DEF TypeInv, TracksTyped, Live
  <2>3. DOMAIN rest \subseteq born
    BY <2>2 DEF StateOK, Attached
  <2> HIDE DEF rest
  <2>4. StateOK(st, born) /\ st.gen = tracks[t].gen /\ ~st.playing
    BY <2>2, <2>3 DEF StateOK
  <2> HIDE DEF st
  <2>5. TracksTyped' /\ Live' = Live /\ tracks'[t] = st /\ \A u \in Live \ {t} : tracks'[u] = tracks[u]
    BY <1>1, <1>4, <2>1, <2>4, OneTrackTyped, Zenon DEF TypeInv
  <2> QED BY <1>1, <1>2, <2>4, <2>5 DEF TypeInv, Calm, Live
<1> QED BY <1>3, <1>4

-----------------------------------------------------------------------------
(* The timer heap.                                                         *)

(* Pushing an entry. *)
LEMMA AddEntry ==
    ASSUME HeapTyped, NEW x \in Int \X Track \X (1..MaxPlays), heap' = Pushed(heap, x)
    PROVE  /\ HeapTyped' /\ DOMAIN heap' = DOMAIN heap \cup {x}
           /\ x \notin DOMAIN heap => heap'[x] = 1
           /\ \A d \in DOMAIN heap \ {x} : heap'[d] = heap[d]
<1>1. /\ DOMAIN heap' = DOMAIN heap \cup {x}
      /\ \A d \in DOMAIN heap \ {x} : heap'[d] = heap[d]
      /\ heap'[x] = IF x \in DOMAIN heap THEN heap[x] + 1 ELSE 1
  BY DEF Pushed, With
<1>2. heap'[x] \in Nat \ {0}
  BY <1>1, SMTT(30) DEF HeapTyped
<1> QED BY <1>1, <1>2 DEF HeapTyped

(* Popping one. *)
LEMMA PopEntry ==
    ASSUME HeapTyped, NEW e \in DOMAIN heap
    PROVE  /\ DOMAIN Popped(heap, e) = IF heap[e] = 1 THEN DOMAIN heap \ {e} ELSE DOMAIN heap
           /\ \A d \in DOMAIN heap \ {e} : Popped(heap, e)[d] = heap[d]
           /\ \A d \in DOMAIN Popped(heap, e) : Popped(heap, e)[d] \in Nat \ {0}
<1>1. \A d \in DOMAIN heap : heap[d] \in Nat \ {0}
  BY DEF HeapTyped
<1>2. CASE heap[e] = 1
  BY <1>1, <1>2, Zenon DEF Popped, Without
<1>3. CASE heap[e] # 1
  <2>1. Popped(heap, e) = With(heap, e, heap[e] - 1) /\ heap[e] - 1 \in Nat \ {0}
    BY <1>1, <1>3 DEF Popped
  <2>2. /\ DOMAIN Popped(heap, e) = DOMAIN heap
        /\ \A d \in DOMAIN heap : Popped(heap, e)[d] = IF d = e THEN heap[e] - 1 ELSE heap[d]
    BY <2>1 DEF With
  <2> QED BY <1>1, <1>3, <2>1, <2>2
<1> QED BY <1>2, <1>3

(***************************************************************************)
(* The heap a moment later: the entries in ageing, which are those not too *)
(* late already, move.                                                     *)
(***************************************************************************)
LEMMA AgeEntries ==
    ASSUME HeapTyped, heap' = Aged(heap)
    PROVE  /\ HeapTyped'
           /\ \E ageing \in SUBSET DOMAIN heap :
                 /\ DOMAIN heap' = {Later(d) : d \in ageing} \cup (DOMAIN heap \ ageing)
                 /\ \A d \in ageing : Later(d) \notin DOMAIN heap \ ageing => heap'[Later(d)] = heap[d]
                 /\ \A d \in DOMAIN heap \ ageing :
                       (\A c \in ageing : d # Later(c)) => heap'[d] = heap[d]
<1> DEFINE late == {e \in DOMAIN heap : e[1] <= Latest}
           ageing == DOMAIN heap \ late
           older(e) == IF Earlier(e) \in ageing THEN heap[Earlier(e)] ELSE 0
           stuck(e) == IF e \in late THEN heap[e] ELSE 0
<1>1. /\ DOMAIN heap' = {Later(d) : d \in ageing} \cup late
      /\ \A e \in DOMAIN heap' : heap'[e] = older(e) + stuck(e)
  BY DEF Aged
<1>2. late = DOMAIN heap \ ageing /\ ageing \subseteq DOMAIN heap /\ late \subseteq DOMAIN heap
  BY Zenon
<1> HIDE DEF late, ageing
<1>3. ASSUME NEW d \in DOMAIN heap
      PROVE  Later(d) \in Int \X Track \X (1..MaxPlays) /\ Earlier(Later(d)) = d
  <2>1. d \in Int \X Track \X (1..MaxPlays)
    BY DEF HeapTyped
  <2>2. d[1] \in Int /\ d[2] \in Track /\ d[3] \in 1..MaxPlays /\ d = <<d[1], d[2], d[3]>>
    BY <2>1
  <2>3. Later(d) \in Int \X Track \X (1..MaxPlays)
    BY <2>2 DEF Later
  <2>4. Earlier(Later(d)) = <<(d[1] - 1) + 1, d[2], d[3]>>
    BY DEF Earlier, Later
  <2>5. (d[1] - 1) + 1 = d[1]
    BY <2>2
  <2> QED BY <2>2, <2>3, <2>4, <2>5, Zenon
<1>4. \A d \in DOMAIN heap : heap[d] \in Nat \ {0}
  BY DEF HeapTyped
<1>5. \A e : older(e) \in Nat /\ stuck(e) \in Nat
  BY <1>2, <1>4
<1>6. /\ \A d \in ageing : older(Later(d)) = heap[d]
      /\ \A e \in late : stuck(e) = heap[e]
      /\ \A e : e \notin late => stuck(e) = 0
  BY <1>2, <1>3
<1>7. \A e \in late : (\A c \in ageing : e # Later(c)) => older(e) = 0
  <2>1. SUFFICES ASSUME NEW e \in late, Earlier(e) \in ageing PROVE \E c \in ageing : e = Later(c)
    OBVIOUS
  <2>2. e \in Int \X Track \X (1..MaxPlays)
    BY <1>2 DEF HeapTyped
  <2>3. e[1] \in Int /\ e = <<e[1], e[2], e[3]>>
    BY <2>2
  <2>4. Later(Earlier(e)) = <<(e[1] + 1) - 1, e[2], e[3]>> /\ (e[1] + 1) - 1 = e[1]
    BY <2>3 DEF Earlier, Later
  <2>5. Later(Earlier(e)) = e
    BY <2>3, <2>4, Zenon
  <2> QED BY <2>1, <2>5
<1> HIDE DEF older, stuck
<1>8. HeapTyped'
  <2>1. DOMAIN heap' \subseteq Int \X Track \X (1..MaxPlays)
    BY <1>1, <1>2, <1>3 DEF HeapTyped
  <2>2. ASSUME NEW e \in DOMAIN heap' PROVE heap'[e] \in Nat \ {0}
    <3>1. heap'[e] = older(e) + stuck(e) /\ older(e) \in Nat /\ stuck(e) \in Nat
      BY <1>1, <1>5, Zenon
    <3>2. older(e) # 0 \/ stuck(e) # 0
      BY <1>1, <1>2, <1>4, <1>6, ZenonT(40)
    <3> QED BY <3>1, <3>2
  <2> QED BY <2>1, <2>2, Zenon DEF HeapTyped
<1>9. \A d \in ageing : Later(d) \notin late => heap'[Later(d)] = heap[d]
  BY <1>1, <1>2, <1>4, <1>6
<1>10. \A d \in late : (\A c \in ageing : d # Later(c)) => heap'[d] = heap[d]
  BY <1>1, <1>2, <1>4, <1>6, <1>7, SMTT(30)
<1> QED BY <1>1, <1>2, <1>8, <1>9, <1>10, ZenonT(40)

(* While fire_due loops, a track that beat k times in this pass has its    *)
(* next entry at most GridReseed - k periods in the past.                  *)
Paced ==
    \A t \in Live \ reborn :
        burst[t] >= 1 => \A e \in Entries(t, tracks[t].gen) :
                            e[1] >= (burst[t] - GridReseed) * tracks[t].period

(* No entry is from a generation still to come. *)
Owned ==
    \A e \in DOMAIN heap : e[2] \notin reborn => e[2] \in Live /\ e[3] <= tracks[e[2]].gen

(* The inductive invariant of the clock. *)
ClockInv == /\ burst \in [Track -> Nat] /\ firing \in BOOLEAN
            /\ Owned /\ OneEntry /\ BurstBounded
            /\ firing => Paced

(* The entries of a track in a heap h, and OneEntry in these terms. *)
Of(h, t, g) == {e \in DOMAIN h : e[2] = t /\ e[3] = g}
Single(h, t, g) == \E e \in Of(h, t, g) : Of(h, t, g) = {e} /\ h[e] = 1
Clocked(h, t, st) == Single(h, t, st.gen) \/ (~st.playing /\ Of(h, t, st.gen) = {})

(* OneEntry, so put, now and after a step. *)
LEMMA OneEntryIs ==
    /\ OneEntry <=> \A t \in Live \ reborn : Clocked(heap, t, tracks[t])
    /\ OneEntry' <=> \A t \in Live' \ reborn' : Clocked(heap', t, tracks'[t])
<1>1. \A t, g : Entries(t, g) = Of(heap, t, g)
  BY DEF Entries, Of
<1>2. \A t, g : Entries(t, g)' = Of(heap', t, g)
  BY DEF Entries, Of
<1>3. OneEntry <=> \A t \in Live \ reborn : Clocked(heap, t, tracks[t])
  BY <1>1, Zenon DEF OneEntry, One, None, Clocked, Single
<1>4. OneEntry' <=> \A t \in Live' \ reborn' : Clocked(heap', t, tracks'[t])
  BY <1>2, Zenon DEF OneEntry, One, None, Clocked, Single
<1> QED BY <1>3, <1>4

(* The entries of track t are the same in the heaps h and k. *)
SameEntries(h, k, t) ==
    /\ \A e : e[2] = t => (e \in DOMAIN k <=> e \in DOMAIN h)
    /\ \A e \in DOMAIN h : e[2] = t => k[e] = h[e]

(* Then the clock of t is the same too. *)
LEMMA SameEntriesSame ==
    ASSUME NEW h, NEW k, NEW t, NEW st, SameEntries(h, k, t), Clocked(h, t, st)
    PROVE  Clocked(k, t, st) /\ Of(k, t, st.gen) = Of(h, t, st.gen)
<1>1. Of(k, t, st.gen) = Of(h, t, st.gen)
  BY SMTT(30) DEF Of, SameEntries
<1>2. \A e \in Of(h, t, st.gen) : k[e] = h[e]
  BY DEF Of, SameEntries
<1> QED BY <1>1, <1>2, Zenon DEF Clocked, Single

(* A step that leaves the clock alone keeps the invariant. *)
LEMMA CalmKeeps ==
    ASSUME TypeInv, ClockInv, Calm
    PROVE  ClockInv'
<1>1. ~firing /\ heap' = heap /\ firing' = firing /\ burst' = burst /\ reborn' = reborn
  BY Zenon DEF Calm
<1>2. Owned'
  BY <1>1 DEF ClockInv, Owned, Calm, Live
<1>3. OneEntry'
  <2>2. SUFFICES ASSUME NEW t \in DOMAIN tracks' \ reborn PROVE Clocked(heap', t, tracks'[t])
    BY <1>1, OneEntryIs, ZenonT(40) DEF Live
  <2>3. CASE t \in Live
    <3>1. Clocked(heap, t, tracks[t])
      BY <2>2, <2>3, OneEntryIs, Zenon DEF ClockInv
    <3>2. tracks'[t].gen = tracks[t].gen /\ (tracks'[t].playing => tracks[t].playing)
      BY <2>3, SMTT(30) DEF Calm
    <3> QED BY <1>1, <3>1, <3>2, ZenonT(40) DEF Clocked, Single
  <2>4. CASE t \notin Live
    <3>1. ~tracks'[t].playing
      BY <2>2, <2>4 DEF Calm
    <3>2. \A e \in DOMAIN heap : e[2] # t
      BY <2>2, <2>4, Zenon DEF ClockInv, Owned
    <3> QED BY <1>1, <3>1, <3>2, SMTT(30) DEF Clocked, Of
  <2> QED BY <2>3, <2>4
<1> QED BY <1>1, <1>2, <1>3, Zenon DEF ClockInv, BurstBounded

(* delete forgets the track; its name is left out from then on. *)
LEMMA DeleteTyped ==
    ASSUME TypeInv, ClockInv, NEW t \in Track, Delete(t)
    PROVE  TypeInv' /\ ClockInv'
<1>1. /\ DOMAIN tracks' = Live \ {t} /\ \A u \in Live \ {t} : tracks'[u] = tracks[u]
      /\ DOMAIN trackRow' = DOMAIN trackRow \ {t}
      /\ \A u \in DOMAIN trackRow \ {t} : trackRow'[u] = trackRow[u]
      /\ bindRow' \subseteq bindRow /\ reborn' = reborn \cup {t} /\ ~firing
      /\ UNCHANGED <<heap, firing, burst, born, maxTick, asked, pages>>
  BY ZenonT(40) DEF Delete, Without, Live
<1>2. TracksTyped' /\ BindTyped'
  BY <1>1, ZenonT(40) DEF TypeInv, TracksTyped, BindTyped, Live, StateOK
<1>3. CallersTyped' /\ HeapTyped'
  BY <1>1, Zenon DEF TypeInv, CallersTyped, HeapTyped
<1>4. Owned'
  BY <1>1, Zenon DEF ClockInv, Owned, Live
<1>5. OneEntry'
  <2>1. \A u \in Live \ reborn : Clocked(heap, u, tracks[u])
    BY OneEntryIs, ZenonT(40) DEF ClockInv
  <2>2. \A u \in Live' \ reborn' : Clocked(heap', u, tracks'[u])
    BY <1>1, <2>1, ZenonT(40) DEF Live
  <2> QED BY <2>2, OneEntryIs, Zenon
<1>6. BurstBounded'
  BY <1>1, ZenonT(40) DEF ClockInv, BurstBounded
<1> QED BY <1>1, <1>2, <1>3, <1>4, <1>5, <1>6, Zenon DEF TypeInv, ClockInv

(* play starts a new generation, whose entry is the only one. *)
LEMMA PlayTyped ==
    ASSUME TypeInv, ClockInv, NEW t, PlayTrack(t), \A pg \in pages' : pg \in pages
    PROVE  TypeInv' /\ ClockInv'
<1> DEFINE g == tracks[t].gen + 1
           st == [tracks[t] EXCEPT !.playing = TRUE, !.gen = g]
           x == <<st.period, t, st.gen>>
<1>1. /\ t \in Live /\ ~tracks[t].playing /\ tracks[t].gen < MaxPlays
      /\ Apply(t, st) /\ heap' = Pushed(heap, x)
  BY DEF PlayTrack
<1>2. StateOK(tracks[t], born) /\ t \in Track
  BY <1>1 DEF TypeInv, TracksTyped, Live
<1>3. tracks[t].gen \in Nat /\ g \in 1..MaxPlays /\ g > tracks[t].gen
  BY <1>1, <1>2, TransportAssumption DEF StateOK
<1> HIDE DEF g
<1>4. StateOK(st, born) /\ st.gen = g /\ st.playing = TRUE /\ st.period = tracks[t].period
  BY <1>2, <1>3 DEF StateOK
<1> HIDE DEF st
<1>5. st.period \in Int
  <2>1. st.period \in Period
    BY <1>4 DEF StateOK
  <2>2. Period \subseteq Int
    BY TransportAssumption, SMTT(30)
  <2> QED BY <2>1, <2>2, Zenon
<1>6. x \in Int \X Track \X (1..MaxPlays) /\ x[2] = t /\ x[3] = g
  BY <1>2, <1>3, <1>4, <1>5
<1> HIDE DEF x
<1>7. TracksTyped' /\ Live' = Live /\ tracks'[t] = st /\ \A u \in Live \ {t} : tracks'[u] = tracks[u]
  BY <1>1, <1>4, OneTrackTyped, Zenon DEF TypeInv, Apply
<1>8. /\ HeapTyped' /\ DOMAIN heap' = DOMAIN heap \cup {x}
      /\ x \notin DOMAIN heap => heap'[x] = 1
      /\ \A d \in DOMAIN heap \ {x} : heap'[d] = heap[d]
  BY <1>1, <1>6, AddEntry, Zenon DEF TypeInv
<1>9. ~firing /\ UNCHANGED <<firing, burst, bindRow, born, maxTick, asked, reborn>>
  BY <1>1, Zenon DEF Apply
<1>10. BindTyped' /\ CallersTyped'
  BY <1>9 DEF TypeInv, BindTyped, CallersTyped
<1>11. Owned'
  <2>1. SUFFICES ASSUME NEW e \in DOMAIN heap', e[2] \notin reborn
                 PROVE  e[2] \in DOMAIN tracks' /\ e[3] <= tracks'[e[2]].gen
    BY <1>9, ZenonT(40) DEF Owned, Live
  <2>2. CASE e = x
    BY <1>1, <1>3, <1>4, <1>6, <1>7, <2>2, SMTT(30) DEF Live
  <2>3. CASE e # x
    <3>1. e \in DOMAIN heap /\ e[2] \in Live /\ e[3] <= tracks[e[2]].gen
      BY <1>8, <2>1, <2>3, Zenon DEF ClockInv, Owned
    <3>2. CASE e[2] = t
      <4>1. e[3] \in Int
        BY <3>1 DEF TypeInv, HeapTyped
      <4>2. tracks'[t].gen = g
        BY <1>4, <1>7, ZenonT(40)
      <4> QED BY <1>3, <1>7, <3>1, <3>2, <4>1, <4>2, SMTT(30) DEF Live
    <3>3. CASE e[2] # t
      BY <1>7, <3>1, <3>3, ZenonT(40) DEF Live
    <3> QED BY <3>2, <3>3, Zenon
  <2> QED BY <2>2, <2>3, Zenon
<1>12. OneEntry'
  <2>1. SUFFICES ASSUME NEW u \in Live \ reborn PROVE Clocked(heap', u, tracks'[u])
    BY <1>7, <1>9, OneEntryIs
  <2>2. CASE u = t
    <3>1. \A e \in DOMAIN heap : ~(e[2] = t /\ e[3] = g)
      BY <1>3, <2>1, <2>2 DEF ClockInv, Owned
    <3>2. x \notin DOMAIN heap
      BY <1>6, <3>1, Zenon
    <3>3. Of(heap', t, g) = {x} /\ heap'[x] = 1
      BY <1>6, <1>8, <3>1, <3>2, Zenon DEF Of
    <3>4. tracks'[t].gen = g
      BY <1>4, <1>7, Zenon
    <3> QED BY <2>2, <3>3, <3>4, Zenon DEF Clocked, Single
  <2>3. CASE u # t
    <3>1. SameEntries(heap, heap', u)
      BY <1>6, <1>8, <2>3, Zenon DEF SameEntries
    <3>2. Clocked(heap, u, tracks[u]) /\ tracks'[u] = tracks[u]
      BY <1>7, <2>1, <2>3, OneEntryIs, Zenon DEF ClockInv
    <3> QED BY <3>1, <3>2, SameEntriesSame, Zenon
  <2> QED BY <2>2, <2>3, ZenonT(40)
<1> QED BY <1>7, <1>8, <1>9, <1>10, <1>11, <1>12, ZenonT(40) DEF TypeInv, ClockInv, BurstBounded

(* Time passes: every entry moves, and none meets another of its track. *)
LEMMA TickTyped ==
    ASSUME TypeInv, ClockInv, Tick
    PROVE  TypeInv' /\ ClockInv'
<1>1. /\ ~firing /\ heap' = Aged(heap) /\ burst' = [t \in Track |-> 0]
      /\ UNCHANGED <<tracks, firing, trackRow, bindRow, born, maxTick, asked, pages, reborn>>
  BY DEF Tick, db
<1>2. PICK ageing \in SUBSET DOMAIN heap :
         /\ DOMAIN heap' = {Later(d) : d \in ageing} \cup (DOMAIN heap \ ageing)
         /\ \A d \in ageing : Later(d) \notin DOMAIN heap \ ageing => heap'[Later(d)] = heap[d]
         /\ \A d \in DOMAIN heap \ ageing : (\A c \in ageing : d # Later(c)) => heap'[d] = heap[d]
  BY <1>1, AgeEntries, Zenon DEF TypeInv
<1>3. HeapTyped'
  BY <1>1, AgeEntries, Zenon DEF TypeInv
<1>4. TracksTyped' /\ BindTyped' /\ CallersTyped'
  BY <1>1 DEF TypeInv, TracksTyped, BindTyped, CallersTyped
<1>5. \A d : Later(d)[2] = d[2] /\ Later(d)[3] = d[3]
  BY DEF Later
<1>6. ASSUME NEW d \in DOMAIN heap PROVE Later(d) # d
  <2>1. d[1] \in Int
    BY DEF TypeInv, HeapTyped
  <2>2. Later(d)[1] = d[1] - 1
    BY Zenon DEF Later
  <2> QED BY <2>1, <2>2
<1>7. Owned'
  BY <1>1, <1>2, <1>5, SMTT(30) DEF ClockInv, Owned, Live
<1>8. OneEntry'
  <2>1. SUFFICES ASSUME NEW t \in Live \ reborn PROVE Clocked(heap', t, tracks[t])
    BY <1>1, OneEntryIs, Zenon DEF Live
  <2> DEFINE g == tracks[t].gen
  <2>2. Clocked(heap, t, tracks[t])
    BY <2>1, OneEntryIs DEF ClockInv
  <2>3. CASE Of(heap, t, g) = {} /\ ~tracks[t].playing
    <3>1. Of(heap', t, g) = {}
      BY <1>2, <1>5, <2>3 DEF Of
    <3> QED BY <2>3, <3>1, Zenon DEF Clocked
  <2>4. CASE Single(heap, t, g)
    <3>1. PICK e \in DOMAIN heap : Of(heap, t, g) = {e} /\ heap[e] = 1
      BY <2>4, Zenon DEF Single, Of
    <3>2. e[2] = t /\ e[3] = g /\ \A d \in DOMAIN heap : d[2] = t /\ d[3] = g => d = e
      BY <3>1, Zenon DEF Of
    <3> HIDE DEF g
    <3>3. CASE e \in ageing
      <4>1. Of(heap', t, g) = {Later(e)}
        BY <1>2, <1>5, <3>2, <3>3 DEF Of
      <4>2. Later(e) \notin DOMAIN heap
        BY <1>5, <1>6, <3>2, Zenon
      <4>3. heap'[Later(e)] = 1
        BY <1>2, <3>1, <3>3, <4>2, Zenon
      <4> QED BY <4>1, <4>3, ZenonT(40) DEF Clocked, Single, g
    <3>4. CASE e \notin ageing
      <4>1. \A c \in ageing : e # Later(c)
        BY <1>2, <1>5, <3>2, <3>4, SMTT(30)
      <4>2. Of(heap', t, g) = {e}
        BY <1>2, <1>5, <3>2, <3>4, SMTT(30) DEF Of
      <4>3. heap'[e] = 1
        BY <1>2, <3>1, <3>4, <4>1, SMTT(30)
      <4> QED BY <4>2, <4>3, Zenon DEF Clocked, Single, g
    <3> QED BY <3>3, <3>4, Zenon
  <2> QED BY <2>2, <2>3, <2>4 DEF Clocked
<1>9. burst' \in [Track -> Nat] /\ BurstBounded'
  BY <1>1, TransportAssumption, SMTT(30) DEF BurstBounded
<1> QED BY <1>1, <1>3, <1>4, <1>7, <1>8, <1>9, Zenon DEF TypeInv, ClockInv

(* A stale entry is dropped: never the one of a playing track. *)
LEMMA DropStaleTyped ==
    ASSUME TypeInv, ClockInv, DropStale
    PROVE  TypeInv' /\ ClockInv'
<1>1. PICK e \in DOMAIN heap :
         /\ ~Honoured(e) /\ heap' = Popped(heap, e) /\ Loops
         /\ burst' = IF firing THEN burst ELSE [t \in Track |-> 0]
         /\ UNCHANGED <<tracks, trackRow, bindRow, born, maxTick, asked, pages, reborn>>
  BY Zenon DEF DropStale, db
<1>2. /\ DOMAIN heap' = IF heap[e] = 1 THEN DOMAIN heap \ {e} ELSE DOMAIN heap
      /\ \A d \in DOMAIN heap \ {e} : heap'[d] = heap[d]
      /\ \A d \in DOMAIN heap' : heap'[d] \in Nat \ {0}
  <2>1. PICK rest : rest = Popped(heap, e)
    OBVIOUS
  <2>2. /\ DOMAIN rest = IF heap[e] = 1 THEN DOMAIN heap \ {e} ELSE DOMAIN heap
        /\ \A d \in DOMAIN heap \ {e} : rest[d] = heap[d]
        /\ \A d \in DOMAIN rest : rest[d] \in Nat \ {0}
    BY <2>1, PopEntry, ZenonT(40) DEF TypeInv
  <2>3. heap' = rest
    BY <1>1, <2>1
  <2> QED BY <2>2, <2>3
<1>3. HeapTyped'
  BY <1>2, Zenon DEF TypeInv, HeapTyped
<1>4. TracksTyped' /\ BindTyped' /\ CallersTyped'
  BY <1>1, Zenon DEF TypeInv, TracksTyped, BindTyped, CallersTyped
<1>5. Owned'
  BY <1>1, <1>2, Zenon DEF ClockInv, Owned, Live
<1>6. OneEntry'
  <2>1. SUFFICES ASSUME NEW t \in Live \ reborn PROVE Clocked(heap', t, tracks[t])
    BY <1>1, OneEntryIs, SMTT(30) DEF Live
  <2>2. Clocked(heap, t, tracks[t])
    BY <2>1, OneEntryIs DEF ClockInv
  <2>3. CASE e[2] = t /\ e[3] = tracks[t].gen
    <3>1. ~tracks[t].playing
      BY <1>1, <2>1, <2>3, SMTT(30) DEF Honoured
    <3>2. e \in Of(heap, t, tracks[t].gen)
      BY <2>3 DEF Of
    <3>3. Of(heap, t, tracks[t].gen) = {e} /\ heap[e] = 1
      BY <2>2, <3>2, Zenon DEF Clocked, Single
    <3>4. Of(heap', t, tracks[t].gen) = {}
      BY <1>2, <3>3, Zenon DEF Of
    <3> QED BY <3>1, <3>4, Zenon DEF Clocked
  <2>4. CASE ~(e[2] = t /\ e[3] = tracks[t].gen)
    <3>1. Of(heap', t, tracks[t].gen) = Of(heap, t, tracks[t].gen)
      BY <1>2, <2>4, Zenon DEF Of
    <3>2. \A d \in Of(heap, t, tracks[t].gen) : heap'[d] = heap[d]
      BY <1>2, <2>4, ZenonT(40) DEF Of
    <3> QED BY <2>2, <3>1, <3>2, Zenon DEF Clocked, Single
  <2> QED BY <2>3, <2>4, SMTT(30)
<1>7. burst' \in [Track -> Nat] /\ BurstBounded'
  BY <1>1, TransportAssumption, SMTT(30) DEF ClockInv, BurstBounded
<1>8. Paced'
  <2>1. \A t, g : Entries(t, g)' \subseteq Entries(t, g)
    BY <1>2, Zenon DEF Entries
  <2>2. SUFFICES ASSUME NEW t \in Live \ reborn, burst'[t] >= 1, NEW d \in Entries(t, tracks[t].gen)'
                 PROVE  d[1] >= (burst'[t] - GridReseed) * tracks[t].period
    BY <1>1, Zenon DEF Paced, Live
  <2>3. t \in Track
    BY SMTT(30) DEF TypeInv, TracksTyped, Live
  <2>4. firing /\ burst' = burst
    BY <1>1, <2>2, <2>3, SMTT(30)
  <2> QED BY <1>1, <2>1, <2>2, <2>4, ZenonT(40) DEF ClockInv, Paced
<1>9. firing' \in BOOLEAN
  BY <1>1, Zenon DEF Loops
<1> QED BY <1>3, <1>4, <1>5, <1>6, <1>7, <1>8, <1>9 DEF TypeInv, ClockInv

(* A product with a positive period tells the sign of the other factor. *)
LEMMA PeriodSign ==
    ASSUME NEW m \in Int, NEW p \in Nat \ {0}, m * p <= 0
    PROVE  m <= 0
BY SMT

(* One beat more is one period more. *)
LEMMA OneMorePeriod ==
    ASSUME NEW m \in Int, NEW p \in Int
    PROVE  m * p \in Int /\ (m + 1) * p = m * p + p
BY SMT

(* What the next due time is worth. *)
LEMMA ScheduledIs ==
    ASSUME NEW due \in Int, due <= 0, NEW p \in Nat \ {0}
    PROVE  /\ Scheduled(due, p) \in Int /\ Scheduled(due, p) >= due
           /\ Scheduled(due, p) >= (0 - GridReseed) * p
<1> DEFINE k == GridReseed * p
<1>1. k \in Nat
  BY TransportAssumption
<1>2. (0 - GridReseed) * p = -k
  BY TransportAssumption
<1>3. Scheduled(due, p) = IF -due > k THEN 0 ELSE due
  BY Zenon DEF Scheduled
<1> HIDE DEF k
<1> QED BY <1>1, <1>2, <1>3

(* The beats of track u in this firing, if there is one. *)
SoFar(u) == IF firing THEN burst[u] ELSE 0

(* What a beat of t makes of the counts. *)
BurstAt(t) == [u \in Track |-> (IF firing THEN burst[u] ELSE 0) + (IF u = t THEN 1 ELSE 0)]

(* A track is counted in a firing only. *)
LEMMA SoFarIs ==
    ASSUME burst \in [Track -> Nat], firing \in BOOLEAN, NEW u \in Track
    PROVE  /\ SoFar(u) \in Nat
           /\ SoFar(u) # 0 => firing /\ SoFar(u) = burst[u] /\ burst[u] >= 1
           /\ SoFar(u) >= 1 => firing /\ SoFar(u) = burst[u]
<1>1. burst[u] \in Nat
  BY Zenon
<1> QED BY <1>1, SMT DEF SoFar

(* The beat adds one to its track and nothing to the others. *)
LEMMA BeatCounts ==
    ASSUME burst \in [Track -> Nat], firing \in BOOLEAN, NEW t \in Track, burst' = BurstAt(t)
    PROVE  /\ burst'[t] = SoFar(t) + 1 /\ burst' \in [Track -> Nat]
           /\ \A u \in Track : u = t \/ burst'[u] = SoFar(u)
<1>1. \A u \in Track : SoFar(u) \in Nat
  BY SoFarIs, Zenon
<1>2. \A u \in Track : burst'[u] = SoFar(u) + (IF u = t THEN 1 ELSE 0)
  BY Zenon DEF BurstAt, SoFar
<1>3. \A u \in Track : u # t => burst'[u] = SoFar(u)
  BY <1>1, <1>2
<1>4. \A u \in Track : burst'[u] \in Nat
  BY <1>1, <1>2
<1>5. burst' \in [Track -> Nat]
  BY <1>4, Zenon DEF BurstAt
<1> QED BY <1>2, <1>3, <1>5, Zenon

(* How far behind the entry of a track may be that has beaten n times in one *)
(* firing: at most what is left of the reseed limit g, so n is within it.    *)
LEMMA BeatLag ==
    ASSUME NEW n \in Nat, NEW g \in Nat, NEW p \in Nat \ {0}, NEW a \in Int, a <= 0,
           NEW d \in Int, d >= a, d >= (0 - g) * p, n # 0 => a >= (n - g) * p
    PROVE  d >= (n - g) * p /\ d + p >= ((n + 1) - g) * p /\ n + 1 <= g + 1
<1> DEFINE m == n - g
<1>1. m \in Int
  OBVIOUS
<1>2. m * p \in Int /\ (m + 1) * p = m * p + p
  BY <1>1, OneMorePeriod
<1>3. (n + 1) - g = m + 1
  OBVIOUS
<1>4. CASE n = 0
  <2>1. m = 0 - g
    BY <1>4
  <2>2. d >= m * p
    BY <2>1, SMTT(30)
  <2> HIDE DEF m
  <2> QED BY <1>1, <1>2, <1>3, <1>4, <2>2 DEF m
<1>5. CASE n # 0
  <2>1. a >= m * p
    BY <1>5, Zenon
  <2> HIDE DEF m
  <2>2. m * p <= 0 /\ d >= m * p
    BY <1>2, <2>1
  <2>3. m <= 0
    BY <1>1, <2>2, PeriodSign
  <2> QED BY <1>1, <1>2, <1>3, <2>2, <2>3 DEF m
<1> QED BY <1>4, <1>5

(* A beat puts the entry back one period later. *)
LEMMA BeatTyped ==
    ASSUME TransportInv, TypeInv, ClockInv, Beat
    PROVE  TypeInv' /\ ClockInv'
<1>1. PICK e \in DOMAIN heap : Beat!(e)
  BY Zenon DEF Beat
<1> DEFINE t == e[2]
           old == tracks[t]
           turning == {c \in Attached(t) : old.attached[c] /\ RotateDue(old.beats + 1)}
           kept == [c \in Attached(t) \ turning |-> old.attached[c]]
           st == [old EXCEPT !.playhead = Up(@), !.beats = (@ + 1) % Cycle, !.attached = kept]
           x == <<Scheduled(e[1], old.period) + old.period, e[2], e[3]>>
<1>2. /\ t \in Live /\ tracks' = [tracks EXCEPT ![t] = st]
      /\ trackRow' = IF turning = {} THEN trackRow ELSE PersistTrack(trackRow, t, st)
      /\ pages' = pages \cup {[parent |-> c, child |-> c, next |-> "fork"] : c \in turning}
      /\ old.playing /\ old.gen = e[3] /\ e \in DOMAIN heap /\ e[1] <= 0
      /\ UNCHANGED <<bindRow, born, maxTick, asked, reborn>>
  BY <1>1, ZenonT(40) DEF Honoured, Top
<1>3. /\ heap' = Pushed(Popped(heap, e), x) /\ Loops
      /\ burst' = [u \in Track |-> (IF firing THEN burst[u] ELSE 0) + (IF u = t THEN 1 ELSE 0)]
  BY <1>1, ZenonT(40) DEF Rearmed
<1>4. StateOK(old, born) /\ t \in Track
  BY <1>2, ZenonT(40) DEF TypeInv, TracksTyped, Live
<1>5. turning \subseteq born /\ DOMAIN kept \subseteq born
  BY <1>4, ZenonT(40) DEF StateOK, Attached
<1> HIDE DEF kept, turning
<1>6. /\ StateOK(st, born) /\ st.gen = old.gen /\ st.playing = old.playing /\ st.period = old.period
  <2> DEFINE ph == Up(old.playhead)
             bt == (old.beats + 1) % Cycle
  <2>1. ph \in 0..MaxTick
    BY <1>4, TransportAssumption, SMTT(30) DEF StateOK, Up
  <2>2. bt \in 0..(Cycle - 1)
    BY <1>4, BeatsWrap DEF StateOK
  <2>3. st = [old EXCEPT !.playhead = ph, !.beats = bt, !.attached = kept]
    BY SMTT(30)
  <2> HIDE DEF ph, bt, st, old
  <2> QED BY <1>4, <1>5, <2>1, <2>2, <2>3, ZenonT(40) DEF StateOK
<1> HIDE DEF st
<1>7. TracksTyped' /\ Live' = Live /\ tracks'[t] = st /\ \A u \in Live \ {t} : tracks'[u] = tracks[u]
  <2>1. trackRow' = trackRow \/ trackRow' = PersistTrack(trackRow, t, st)
    BY <1>2, Zenon
  <2> HIDE DEF t, old
  <2> QED BY <1>2, <1>6, <2>1, OneTrackTyped, Zenon DEF TypeInv
<1>8. BindTyped' /\ CallersTyped'
  <2>1. BindTyped'
    BY <1>2, <1>5, SMTT(30) DEF TypeInv, BindTyped
  <2>2. CallersTyped'
    BY <1>2, <1>5, SMTT(30) DEF TypeInv, CallersTyped
  <2> QED BY <2>1, <2>2, ZenonT(40)
<1>9. e \in Int \X Track \X (1..MaxPlays) /\ e[1] \in Int /\ e[3] \in 1..MaxPlays
  BY <1>2, ZenonT(40) DEF TypeInv, HeapTyped
<1>10. old.period \in Nat \ {0}
  <2>1. old.period \in Period
    BY <1>4, ZenonT(40) DEF StateOK
  <2>2. Period \subseteq Nat \ {0}
    BY TransportAssumption, Zenon
  <2> QED BY <2>1, <2>2, Zenon
<1> DEFINE due == Scheduled(e[1], old.period)
<1>11. due \in Int /\ due >= e[1] /\ due >= (0 - GridReseed) * old.period
  BY <1>2, <1>9, <1>10, ScheduledIs, ZenonT(40)
<1>12. /\ x \in Int \X Track \X (1..MaxPlays) /\ x[1] = due + old.period /\ x[2] = t /\ x[3] = old.gen
  <2> HIDE DEF due
  <2>1. due + old.period \in Int
    BY <1>10, <1>11
  <2>2. x = <<due + old.period, e[2], e[3]>>
    BY ZenonT(40) DEF due
  <2> HIDE DEF x
  <2> QED BY <1>2, <1>4, <1>9, <2>1, <2>2, ZenonT(40)
<1> HIDE DEF x, due
<1>13. /\ HeapTyped' /\ DOMAIN heap' \subseteq DOMAIN heap \cup {x} /\ x \in DOMAIN heap'
       /\ \A d \in DOMAIN heap \ {e} : d \in DOMAIN heap'
       /\ \A d \in DOMAIN heap \ {e, x} : heap'[d] = heap[d]
       /\ heap[e] = 1 => /\ DOMAIN heap' = (DOMAIN heap \ {e}) \cup {x}
                         /\ x \notin DOMAIN heap \ {e} => heap'[x] = 1
  <2>1. PICK rest : rest = Popped(heap, e)
    BY SMTT(30)
  <2>2. /\ DOMAIN rest = IF heap[e] = 1 THEN DOMAIN heap \ {e} ELSE DOMAIN heap
        /\ \A d \in DOMAIN heap \ {e} : rest[d] = heap[d]
        /\ \A d \in DOMAIN rest : rest[d] \in Nat \ {0}
    BY <1>2, <2>1, PopEntry, Zenon DEF TypeInv
  <2>3. heap' = Pushed(rest, x)
    BY <1>3, <2>1, SMTT(30)
  <2>4. DOMAIN heap' = DOMAIN rest \cup {x}
    BY <2>3, SMTT(30) DEF Pushed, With
  <2>5. \A d \in DOMAIN rest \ {x} : heap'[d] = rest[d]
    BY <2>3, SMTT(30) DEF Pushed, With
  <2>6. heap'[x] = IF x \in DOMAIN rest THEN rest[x] + 1 ELSE 1
    BY <2>3 DEF Pushed, With
  <2>7. HeapTyped'
    <3>1. DOMAIN heap' \subseteq Int \X Track \X (1..MaxPlays)
      BY <1>12, <2>2, <2>4, ZenonT(40) DEF TypeInv, HeapTyped
    <3>2. \A d \in DOMAIN heap' : heap'[d] \in Nat \ {0}
      BY <2>2, <2>4, <2>5, <2>6
    <3> QED BY <3>1, <3>2, Zenon DEF HeapTyped
  <2> HIDE DEF t, old
  <2> QED BY <2>2, <2>4, <2>5, <2>6, <2>7, ZenonT(40)
<1>14. Owned'
  <2>1. SUFFICES ASSUME NEW d \in DOMAIN heap', d[2] \notin reborn
                 PROVE  d[2] \in Live /\ d[3] <= tracks'[d[2]].gen
    BY <1>2, <1>7, SMTT(30) DEF Owned
  <2>2. CASE d = x
    <3>1. d[2] = t /\ d[3] = old.gen /\ t \in Live
      BY <1>2, <1>12, <2>2, Zenon
    <3>2. tracks'[t].gen = old.gen
      BY <1>6, <1>7, ZenonT(40)
    <3>3. old.gen \in Int
      BY <1>2, <1>9, SMTT(30)
    <3>4. old.gen <= old.gen
      BY <3>3
    <3> QED BY <3>1, <3>2, <3>4, Zenon
  <2>3. CASE d # x
    <3>1. d[2] \in Live /\ d[3] <= tracks[d[2]].gen
      BY <1>13, <2>1, <2>3, Zenon DEF ClockInv, Owned
    <3>2. tracks'[d[2]].gen = tracks[d[2]].gen
      BY <1>6, <1>7, <3>1, Zenon
    <3> QED BY <3>1, <3>2, Zenon
  <2> QED BY <2>2, <2>3, ZenonT(40)
<1>15. \A u \in Live \ reborn : u # t => SameEntries(heap, heap', u)
  BY <1>12, <1>13, Zenon DEF SameEntries
<1>16. t \notin reborn => Of(heap, t, old.gen) = {e} /\ heap[e] = 1
  <2>1. SUFFICES ASSUME t \notin reborn PROVE Of(heap, t, old.gen) = {e} /\ heap[e] = 1
    BY Zenon
  <2>2. Clocked(heap, t, tracks[t])
    BY <1>2, <2>1, OneEntryIs, Zenon DEF ClockInv
  <2>3. e \in Of(heap, t, old.gen)
    BY <1>2, Zenon DEF Of
  <2> QED BY <1>2, <2>2, <2>3, Zenon DEF Clocked, Single
<1>17. t \notin reborn => Of(heap', t, old.gen) = {x} /\ heap'[x] = 1
  <2>1. SUFFICES ASSUME t \notin reborn PROVE Of(heap', t, old.gen) = {x} /\ heap'[x] = 1
    BY SMTT(30)
  <2>2. \A d \in DOMAIN heap : d[2] = t /\ d[3] = old.gen => d = e
    BY <1>16, <2>1 DEF Of
  <2>3. x \notin DOMAIN heap \ {e}
    BY <1>12, <2>2, ZenonT(40)
  <2>4. DOMAIN heap' = (DOMAIN heap \ {e}) \cup {x} /\ heap'[x] = 1
    BY <1>13, <1>16, <2>1, <2>3, ZenonT(40)
  <2> QED BY <1>12, <2>2, <2>4, Zenon DEF Of
<1>18. OneEntry'
  <2>1. SUFFICES ASSUME NEW u \in Live \ reborn PROVE Clocked(heap', u, tracks'[u])
    BY <1>2, <1>7, OneEntryIs, Zenon
  <2>2. CASE u = t
    BY <1>6, <1>7, <1>17, <2>1, <2>2, Zenon DEF Clocked, Single
  <2>3. CASE u # t
    <3>1. Clocked(heap, u, tracks[u])
      BY <2>1, OneEntryIs DEF ClockInv
    <3>2. tracks'[u] = tracks[u]
      BY <1>7, <2>1, <2>3, ZenonT(40)
    <3> QED BY <1>15, <2>1, <2>3, <3>1, <3>2, SameEntriesSame, ZenonT(40)
  <2> QED BY <2>2, <2>3, Zenon
<1> DEFINE n == SoFar(t)
<1>19. burst' = BurstAt(t) /\ burst \in [Track -> Nat] /\ firing \in BOOLEAN
  BY <1>3, Zenon DEF ClockInv, BurstAt
<1>20. /\ n \in Nat /\ burst'[t] = n + 1 /\ burst' \in [Track -> Nat]
       /\ n # 0 => firing /\ n = burst[t] /\ burst[t] >= 1
  <2> HIDE DEF t
  <2> QED BY <1>4, <1>19, BeatCounts, SoFarIs, Zenon
<1>21. \A u \in Track : u = t \/ burst'[u] = SoFar(u)
  <2> HIDE DEF t
  <2> QED BY <1>4, <1>19, BeatCounts, Zenon
<1> HIDE DEF n
<1>22. t \notin reborn => /\ due + old.period >= ((n + 1) - GridReseed) * old.period
                         /\ n + 1 <= GridReseed + 1
  <2>1. SUFFICES ASSUME t \notin reborn
                 PROVE  /\ due + old.period >= ((n + 1) - GridReseed) * old.period
                        /\ n + 1 <= GridReseed + 1
    BY Zenon
  <2>2. GridReseed \in Nat
    BY TransportAssumption, Zenon
  <2>3. e \in Entries(t, tracks[t].gen)
    BY <1>2, Zenon DEF Entries
  <2>4. n # 0 => e[1] >= (n - GridReseed) * old.period
    BY <1>2, <1>20, <2>1, <2>3, Zenon DEF ClockInv, Paced
  <2>5. e[1] \in Int /\ e[1] <= 0 /\ n \in Nat
    BY <1>2, <1>9, <1>20, Zenon
  <2> HIDE DEF t, old
  <2> QED BY <1>10, <1>11, <2>2, <2>4, <2>5, BeatLag, Zenon
<1>23. BurstBounded'
  <2>1. SUFFICES ASSUME NEW u \in Track \ reborn PROVE burst'[u] <= GridReseed + 1
    BY <1>2, Zenon DEF BurstBounded
  <2>2. 0 <= GridReseed + 1
    BY TransportAssumption
  <2>3. CASE u = t
    <3>1. burst'[u] = n + 1 /\ t \notin reborn
      BY <1>20, <2>1, <2>3, Zenon
    <3>2. n + 1 <= GridReseed + 1
      BY <1>22, <3>1, Zenon
    <3> QED BY <3>1, <3>2, Zenon
  <2>4. CASE u # t
    <3>1. burst'[u] = SoFar(u)
      BY <1>21, <2>1, <2>4, Zenon
    <3>2. burst[u] <= GridReseed + 1
      BY <2>1, Zenon DEF ClockInv, BurstBounded
    <3> QED BY <2>2, <3>1, <3>2, Zenon DEF SoFar
  <2> QED BY <2>3, <2>4, Zenon
<1>24. Paced'
  <2>1. SUFFICES ASSUME NEW u \in Live \ reborn, burst'[u] >= 1,
                        NEW d \in Of(heap', u, tracks'[u].gen)
                 PROVE  d[1] >= (burst'[u] - GridReseed) * tracks'[u].period
    BY <1>2, <1>7, Zenon DEF Paced, Entries, Of
  <2>2. CASE u = t
    <3>1. tracks'[u].gen = old.gen /\ tracks'[u].period = old.period
      BY <1>6, <1>7, <2>2, Zenon
    <3>2. Of(heap', u, old.gen) = {x}
      BY <1>17, <2>1, <2>2, Zenon
    <3>3. d = x
      BY <2>1, <3>1, <3>2, Zenon
    <3>4. d[1] = due + old.period
      BY <1>12, <3>3, Zenon
    <3>5. burst'[u] = n + 1 /\ t \notin reborn
      BY <1>20, <2>1, <2>2, Zenon
    <3>6. due + old.period >= ((n + 1) - GridReseed) * old.period
      BY <1>22, <3>5, Zenon
    <3> QED BY <3>1, <3>4, <3>5, <3>6, Zenon
  <2>3. CASE u # t
    <3>1. u \in Track
      BY <2>1, <2>3, Zenon DEF TypeInv, TracksTyped, Live
    <3>2. firing /\ burst'[u] = burst[u]
      <4>1. burst'[u] = SoFar(u)
        BY <1>21, <2>3, <3>1, Zenon
      <4> QED BY <1>19, <2>1, <3>1, <4>1, SoFarIs, Zenon
    <3>3. tracks'[u] = tracks[u]
      BY <1>7, <2>1, <2>3, Zenon
    <3>4. d \in Entries(u, tracks[u].gen)
      BY <1>15, <2>1, <2>3, <3>3, Zenon DEF SameEntries, Of, Entries
    <3> QED BY <2>1, <3>2, <3>3, <3>4, Zenon DEF ClockInv, Paced
  <2> QED BY <2>2, <2>3, Zenon
<1>25. firing' \in BOOLEAN
  BY <1>3 DEF Loops
<1> QED BY <1>7, <1>8, <1>13, <1>14, <1>18, <1>20, <1>23, <1>24, <1>25, Zenon DEF TypeInv, ClockInv

(* Steps that touch neither the tracks, their rows nor the clock. *)
LEMMA AsideTyped ==
    ASSUME TypeInv, ClockInv, ~firing, UNCHANGED <<tracks, trackRow, heap, firing, burst, reborn>>,
           born \subseteq born', BindTyped', CallersTyped'
    PROVE  TypeInv' /\ ClockInv'
<1>1. TracksTyped'
  BY SameTracksTyped, Zenon DEF TypeInv
<1>2. HeapTyped'
  BY Zenon DEF TypeInv, HeapTyped
<1>3. Calm
  BY Zenon DEF Calm, Live
<1> QED BY <1>1, <1>2, <1>3, CalmKeeps DEF TypeInv

(* What the operator and the players do. *)
LEMMA CommandTyped ==
    ASSUME TransportInv, TypeInv, ClockInv, Command
    PROVE  TypeInv' /\ ClockInv'
<1>1. ASSUME NEW c \in Context, NEW t \in Track, NEW r \in BOOLEAN, AskAttach(c, t, r)
      PROVE  TypeInv' /\ ClockInv'
  <2>1. BindTyped' /\ CallersTyped'
    BY <1>1, SMTT(30) DEF AskAttach, Request, TypeInv, BindTyped, CallersTyped, db
  <2> QED BY <1>1, <2>1, AsideTyped, ZenonT(40) DEF AskAttach, mem, db
<1>2. ASSUME NEW t \in Track, Play(t)
      PROVE  TypeInv' /\ ClockInv'
  BY <1>2, PlayTyped, Zenon DEF Play
<1>3. ASSUME NEW c \in Context, Author(c)
      PROVE  TypeInv' /\ ClockInv'
  <2>1. maxTick' \in [Context -> 0..MaxTick]
    <3>1. maxTick' = [maxTick EXCEPT ![c] = @ + 1] /\ maxTick[c] < MaxTick
      BY <1>3, Zenon DEF Author
    <3>2. maxTick \in [Context -> 0..MaxTick] /\ maxTick[c] + 1 \in 0..MaxTick
      BY <3>1, TransportAssumption, SMTT(30) DEF TypeInv, CallersTyped
    <3> QED BY <3>1, <3>2
  <2>2. BindTyped' /\ CallersTyped'
    BY <1>3, <2>1, Zenon DEF Author, TypeInv, BindTyped, CallersTyped, db
  <2> QED BY <1>3, <2>2, AsideTyped DEF Author, mem, db
<1>4. ASSUME NEW t \in Track, Relabel(t)
      PROVE  TypeInv' /\ ClockInv'
  <2>1. BindTyped' /\ CallersTyped'
    BY <1>4, ZenonT(40) DEF Relabel, TypeInv, BindTyped, CallersTyped
  <2> QED BY <1>4, <2>1, AsideTyped, ZenonT(40) DEF Relabel, mem
<1>5. ASSUME NEW c \in Context, NEW t \in Track, NEW r \in BOOLEAN, Detach(c, t) \/ SetRotate(t, c, r)
      PROVE  TypeInv' /\ ClockInv'
  BY <1>5, DetachTyped, SetRotateTyped, CalmKeeps, SMTT(30)
<1>6. ASSUME NEW t \in Track, NEW p \in Period, Hold(t) \/ SetTempo(t, p)
      PROVE  TypeInv' /\ ClockInv'
  BY <1>6, HoldTyped, CalmKeeps
<1>7. ASSUME NEW t \in Track, Hold(t)
      PROVE  TypeInv' /\ ClockInv'
  <2>1. t \in Live
    BY <1>7, Zenon DEF Hold
  <2>2. PICK p \in Period : TRUE
    BY <2>1 DEF TypeInv, TracksTyped, StateOK, Live
  <2> QED BY <1>6, <1>7, <2>2
<1>8. ASSUME NEW t \in Track, NEW gone, NEW done, DeleteFails(t, gone, done)
      PROVE  TypeInv' /\ ClockInv'
  BY <1>8, DeleteFailsTyped, CalmKeeps
<1>9. ASSUME NEW t \in Track, Delete(t)
      PROVE  TypeInv' /\ ClockInv'
  BY <1>9, DeleteTyped, Zenon
<1> QED BY <1>1, <1>2, <1>3, <1>4, <1>5, <1>6, <1>7, <1>8, <1>9, Zenon DEF Command

(* What the kernel does by itself. *)
LEMMA StepTyped ==
    ASSUME TransportInv, TypeInv, ClockInv, Step
    PROVE  TypeInv' /\ ClockInv'
<1>1. ASSUME NEW q \in asked, NEW p \in Period, Attach(q, p)
      PROVE  TypeInv' /\ ClockInv'
  BY <1>1, AttachTyped, CalmKeeps
<1>2. ASSUME NEW pg \in pages, NEW c \in Context, Fork(pg, c)
      PROVE  TypeInv' /\ ClockInv'
  <2>1. BindTyped'
    <3> DEFINE copies == {[b EXCEPT !.context = c] : b \in {r \in bindRow : r.context = pg.parent}}
    <3>1. bindRow' = bindRow \cup copies /\ born' = born \cup {c}
      BY <1>2 DEF Fork
    <3>2. \A b \in bindRow : /\ {"track", "context"} \subseteq DOMAIN b
                             /\ b.track \in Track /\ b.context \in born
      BY DEF TypeInv, BindTyped
    <3>3. \A b \in copies : /\ {"track", "context"} \subseteq DOMAIN b
                            /\ b.track \in Track /\ b.context = c
      BY <3>2
    <3> HIDE DEF copies
    <3> QED BY <3>1, <3>2, <3>3 DEF BindTyped
  <2>2. CallersTyped'
    <3>1. pages' \subseteq pages \cup {[pg EXCEPT !.child = c, !.next = "attach"]}
          /\ born' = born \cup {c} /\ UNCHANGED <<maxTick, asked>>
      BY <1>2 DEF Fork
    <3>2. pg \in [parent : Context, child : Context, next : {"fork", "attach", "play"}]
      BY DEF TransportInv, CallersOK
    <3>3. [pg EXCEPT !.child = c, !.next = "attach"].child = c
      BY <3>2
    <3> QED BY <3>1, <3>3, Zenon DEF TypeInv, CallersTyped
  <2> QED BY <1>2, <2>1, <2>2, AsideTyped, SMTT(30) DEF Fork, mem
<1>3. ASSUME NEW pg \in pages, PageAttach(pg)
      PROVE  TypeInv' /\ ClockInv'
  <2>1. PICK t \in Resolutions(pg.child) :
           /\ asked' = asked \cup {Request(pg.child, t, FALSE)}
           /\ pages' = (pages \ {pg}) \cup {[pg EXCEPT !.next = "play"]}
    BY <1>3, Zenon DEF PageAttach
  <2>2. t \in Track
    BY ResolvesToTrack DEF TypeInv
  <2>3. pg \in [parent : Context, child : Context, next : {"fork", "attach", "play"}] /\ pg.child \in born
    BY DEF TransportInv, CallersOK, TypeInv, CallersTyped
  <2>4. [pg EXCEPT !.next = "play"].child = pg.child
    BY <2>3, ZenonT(40)
  <2>5. Request(pg.child, t, FALSE).context = pg.child /\ Request(pg.child, t, FALSE).track = t
    BY ZenonT(40) DEF Request
  <2>6. BindTyped' /\ CallersTyped'
    BY <1>3, <2>1, <2>2, <2>3, <2>4, <2>5, Zenon DEF PageAttach, TypeInv, BindTyped, CallersTyped, db
  <2> QED BY <1>3, <2>6, AsideTyped DEF PageAttach, mem, db
<1>4. ASSUME NEW pg \in pages, PagePlay(pg)
      PROVE  TypeInv' /\ ClockInv'
  <2>1. pages' \subseteq pages /\ ~firing
    BY <1>4 DEF PagePlay
  <2>2. ASSUME NEW t, PlayTrack(t)
        PROVE  TypeInv' /\ ClockInv'
    BY <2>1, <2>2, PlayTyped
  <2>3. CASE UNCHANGED <<mem, db, born, maxTick, asked, reborn>>
    <3>1. BindTyped' /\ CallersTyped'
      BY <2>1, <2>3, ZenonT(40) DEF TypeInv, BindTyped, CallersTyped, db
    <3> QED BY <2>1, <2>3, <3>1, AsideTyped, ZenonT(40) DEF mem, db
  <2> QED BY <1>4, <2>2, <2>3, Zenon DEF PagePlay
<1>5. ASSUME NEW pg \in pages, PageStops(pg)
      PROVE  TypeInv' /\ ClockInv'
  <2>1. BindTyped' /\ CallersTyped'
    BY <1>5 DEF PageStops, TypeInv, BindTyped, CallersTyped, db
  <2> QED BY <1>5, <2>1, AsideTyped, Zenon DEF PageStops, mem, db
<1>6. CASE Crash
  <2>1. /\ DOMAIN tracks' = {} /\ DOMAIN heap' = {} /\ firing' = FALSE /\ burst' = [t \in Track |-> 0]
        /\ asked' = {} /\ pages' = {} /\ UNCHANGED <<trackRow, bindRow, born, maxTick>>
    BY <1>6 DEF Crash, db
  <2>2. TypeInv'
    BY <2>1, Zenon DEF TypeInv, TracksTyped, BindTyped, CallersTyped, HeapTyped
  <2>3. Owned' /\ OneEntry'
    BY <2>1 DEF Owned, OneEntry, Live
  <2>4. burst' \in [Track -> Nat] /\ BurstBounded'
    BY <2>1, TransportAssumption DEF BurstBounded
  <2> QED BY <2>1, <2>2, <2>3, <2>4, Zenon DEF ClockInv
<1> QED
  BY <1>1, <1>2, <1>3, <1>4, <1>5, <1>6, TickTyped, DropStaleTyped, BeatTyped, SMTT(30) DEF Step, Fire

(* Nothing is armed at first. *)
LEMMA InitClock == Init => TypeInv /\ ClockInv
<1> SUFFICES ASSUME Init PROVE TypeInv /\ ClockInv
  OBVIOUS
<1>1. /\ DOMAIN tracks = {} /\ DOMAIN heap = {} /\ firing = FALSE /\ burst = [t \in Track |-> 0]
      /\ DOMAIN trackRow = {} /\ bindRow = {} /\ asked = {} /\ pages = {}
      /\ maxTick = [c \in Context |-> 0]
  BY SMTT(30) DEF Init
<1>2. TypeInv
  BY <1>1, TransportAssumption DEF TypeInv, TracksTyped, BindTyped, CallersTyped, HeapTyped
<1>3. Owned /\ OneEntry
  BY <1>1 DEF Owned, OneEntry, Live
<1>4. burst \in [Track -> Nat] /\ BurstBounded
  BY <1>1, TransportAssumption DEF BurstBounded
<1> QED BY <1>1, <1>2, <1>3, <1>4, Zenon DEF ClockInv

(* Every step keeps the types and the clock. *)
LEMMA ClockInductive == TransportInv /\ TypeInv /\ ClockInv /\ [Next]_vars => TypeInv' /\ ClockInv'
<1> SUFFICES ASSUME TransportInv, TypeInv, ClockInv, [Next]_vars PROVE TypeInv' /\ ClockInv'
  OBVIOUS
<1>1. CASE UNCHANGED vars
  <2>1. UNCHANGED <<tracks, heap, firing, burst, trackRow, bindRow, born, maxTick, asked, pages, reborn>>
    BY <1>1, Zenon DEF vars, mem, db
  <2>2. TypeInv'
    BY <2>1, ZenonT(40) DEF TypeInv, TracksTyped, BindTyped, CallersTyped, HeapTyped
  <2>3. Owned' /\ OneEntry' /\ BurstBounded' /\ (firing' => Paced')
    BY <2>1 DEF ClockInv, Owned, OneEntry, One, None, Entries, BurstBounded, Paced, Live
  <2> QED BY <2>1, <2>2, <2>3 DEF ClockInv
<1> QED BY <1>1, CommandTyped, StepTyped DEF Next

(* The types and the clock hold in every behaviour. *)
THEOREM ClockInvariant == Spec => [](TypeInv /\ ClockInv)
BY InitClock, ClockInductive, TransportInvariant, PTL DEF Spec

(* The types of the tables and of the scheduler's memory are kept. *)
THEOREM TransportTypes == Spec => []TypeOK
<1>1. TypeInv => TypeOK
  <2> SUFFICES ASSUME TypeInv PROVE TypeOK
    BY Zenon
  <2>1. Live \subseteq Track /\ DOMAIN trackRow \subseteq Track
    BY Zenon DEF TypeInv, TracksTyped, Live
  <2>2. \A t \in Live : /\ tracks[t].playhead \in 0..MaxTick
                        /\ tracks[t].beats \in 0..(Cycle - 1)
                        /\ tracks[t].period \in Period
    BY DEF TypeInv, TracksTyped, StateOK, Live
  <2>3. \A b \in bindRow : b.track \in Track /\ b.context \in born
    BY DEF TypeInv, BindTyped
  <2>4. \A e \in DOMAIN heap : e[2] \in Track /\ e[3] \in 1..MaxPlays
    BY DEF TypeInv, HeapTyped
  <2> QED BY <2>1, <2>2, <2>3, <2>4 DEF TypeOK
<1> QED BY <1>1, ClockInvariant, PTL

(***************************************************************************)
(* A playing track has exactly one entry that fire_due will honour and a   *)
(* held one at most one, for any number of tracks, plays, holds and passes *)
(* of the timer: the generation makes every older entry stale.             *)
(***************************************************************************)
THEOREM EveryTrackBeatsOnce == Spec => []OneEntry
<1>1. ClockInv => OneEntry
  BY DEF ClockInv
<1> QED BY <1>1, ClockInvariant, PTL

(***************************************************************************)
(* A pass of fire_due beats a track GridReseed + 1 times at most, however  *)
(* late it comes and whatever the tempo: the entry of a track that beat k  *)
(* times is at most GridReseed - k periods late.                           *)
(***************************************************************************)
THEOREM NoUnboundedBurst == Spec => []BurstBounded
<1>1. ClockInv => BurstBounded
  BY DEF ClockInv
<1> QED BY <1>1, ClockInvariant, PTL
=============================================================================
