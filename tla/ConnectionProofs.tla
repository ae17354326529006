-------------------------- MODULE ConnectionProofs --------------------------
(***************************************************************************)
(* Theorems about the connection actor, for any contexts, any sequence of  *)
(* calls, any number of attempts and of outages.  The invariant behind     *)
(* them says of each state which tasks the actor owns and what the         *)
(* handshake was given; the backoff needs the range of the attempt number. *)
(* A second invariant follows the calls from the channel to their answer.  *)
(***************************************************************************)
EXTENDS Connection, FiniteSetTheorems, SequenceTheorems, TLAPS

(* The inductive invariant: TasksOwned, HandshakeCurrent, and the types    *)
(* they need.                                                              *)
ActorInv ==
    /\ state \in States
    /\ attempt \in 0..MaxAttempt
    /\ task.on \in BOOLEAN /\ pinging \in BOOLEAN /\ bound \in BOOLEAN
    /\ TasksOwned
    /\ HandshakeCurrent

(* The next attempt number is in range and not smaller, also at the cap.   *)
LEMMA UpGrows == ASSUME NEW n \in 0..MaxAttempt
                 PROVE  Up(n) \in 0..MaxAttempt /\ Up(n) >= n
  BY ConnectionAssumption DEF Up

(* The actor starts without any task.                                      *)
LEMMA InitActor == Init => ActorInv
<1> SUFFICES ASSUME Init PROVE ActorInv
  OBVIOUS
<1>1. state = "Idle" /\ task.on = FALSE /\ pinging = FALSE /\ bound = FALSE
  BY DEF Init, NoTask
<1>2. attempt \in 0..MaxAttempt
  BY ConnectionAssumption DEF Init
<1> QED BY <1>1, <1>2, Zenon DEF ActorInv, TasksOwned, HandshakeCurrent, States, Connected

(* The steps of the run loop that leave a state.                           *)
LEMMA LoopKeepsActor ==
  ASSUME ActorInv,
         \/ Dial \/ Redial \/ TakeClose \/ Shutdown \/ FinishClosing
         \/ EnterConnected \/ HandshakeFails \/ HandshakeRefused \/ ApplyInternal
  PROVE  ActorInv'
<1> USE DEF ActorInv, TasksOwned, HandshakeCurrent, States, Connected, NoTask
<1>1. CASE Dial
  BY <1>1, ConnectionAssumption DEF Dial, StartConnecting
<1>2. CASE Redial
  BY <1>2 DEF Redial, StartConnecting
<1>3. CASE TakeClose
  <2>1. state' = "Closing" /\ task'.on = FALSE /\ pinging' = FALSE /\ bound' = bound
    BY <1>3 DEF TakeClose, StartClosing
  <2>2. attempt' \in 0..MaxAttempt
    BY <1>3, ConnectionAssumption DEF TakeClose, StartClosing
  <2> QED BY <2>1, <2>2, Zenon
<1>4. CASE Shutdown
  <2>1. state' = "Closing" /\ task'.on = FALSE /\ pinging' = FALSE /\ bound' = bound
    BY <1>4 DEF Shutdown, StartClosing
  <2>2. attempt' \in 0..MaxAttempt
    BY <1>4, ConnectionAssumption DEF Shutdown, StartClosing
  <2> QED BY <2>1, <2>2, Zenon
<1>5. CASE FinishClosing
  BY <1>5, UpGrows, ConnectionAssumption DEF FinishClosing
<1>6. CASE EnterConnected
  BY <1>6, ConnectionAssumption DEF EnterConnected
<1>7. CASE HandshakeFails
  BY <1>7, UpGrows DEF HandshakeFails
<1>8. CASE HandshakeRefused
  BY <1>8, ConnectionAssumption DEF HandshakeRefused
<1>9. CASE ApplyInternal
  BY <1>9 DEF ApplyInternal
<1> QED BY <1>1, <1>2, <1>3, <1>4, <1>5, <1>6, <1>7, <1>8, <1>9

(* The steps that stay in the state: commands, calls, pings, the world.    *)
LEMMA OthersKeepActor ==
  ASSUME ActorInv,
         \/ Reject \/ Dispatch \/ PingFails
         \/ (\E c \in calls : CallReturns(c) \/ CallDisconnects(c) \/ CallFails(c))
         \/ Call \/ DropHandles \/ KernelStops \/ KernelStarts \/ LinkBreaks
         \/ UNCHANGED vars
  PROVE  ActorInv' /\ UNCHANGED <<state, attempt>>
<1> USE DEF ActorInv, TasksOwned, HandshakeCurrent, States, Connected, actor, vars
<1>1. CASE Reject
  BY <1>1 DEF Reject
<1>2. CASE Dispatch
  BY <1>2 DEF Dispatch
<1>3. CASE PingFails
  BY <1>3, Zenon DEF PingFails
<1>4. ASSUME NEW c \in calls, CallReturns(c) \/ CallDisconnects(c) \/ CallFails(c)
      PROVE  ActorInv' /\ UNCHANGED <<state, attempt>>
  BY <1>4 DEF CallReturns, CallDisconnects, CallFails
<1>5. CASE Call \/ DropHandles
  BY <1>5 DEF Call, DropHandles
<1>6. CASE KernelStops \/ KernelStarts \/ LinkBreaks
  BY <1>6 DEF KernelStops, KernelStarts, LinkBreaks
<1>7. CASE UNCHANGED vars
  BY <1>7
<1> QED BY <1>1, <1>2, <1>3, <1>4, <1>5, <1>6, <1>7

(* Every step is of one of the two kinds.                                  *)
LEMMA ActorInductive == ActorInv /\ [Next]_vars => ActorInv'
  BY LoopKeepsActor, OthersKeepActor DEF Next

(* The invariant holds in every behaviour.                                 *)
THEOREM ActorInvariant == Spec => []ActorInv
  BY InitActor, ActorInductive, PTL DEF Spec

(* Each state of the actor has its tasks and no others: the expects of run *)
(* and dispatch hold, and no pinger outlives its connection.               *)
THEOREM TasksAreOwned == Spec => []TasksOwned
<1>1. ActorInv => TasksOwned
  BY DEF ActorInv
<1> QED BY <1>1, ActorInvariant, PTL

(* A handshake never works on an old context_id.                           *)
THEOREM HandshakeIsCurrent == Spec => []HandshakeCurrent
<1>1. ActorInv => HandshakeCurrent
  BY DEF ActorInv
<1> QED BY <1>1, ActorInvariant, PTL

(* The pause between attempts never shrinks before a connection is made.   *)
THEOREM BackoffNeverShrinks == Spec => BackoffClimbs
<1> DEFINE Climbs == (state \in Trying /\ state' \in Trying) => attempt' >= attempt
<1>1. ActorInv /\ [Next]_vars => [Climbs]_vars
  <2> SUFFICES ASSUME ActorInv, [Next]_vars PROVE Climbs
    OBVIOUS
  <2> attempt \in Int /\ (state \in Trying => state \notin {"Idle", "Connected", "Terminal"})
    BY DEF ActorInv, Trying
  <2>1. CASE Dial \/ EnterConnected \/ HandshakeRefused
    BY <2>1 DEF Dial, EnterConnected, HandshakeRefused, Trying
  <2>2. CASE Redial \/ ApplyInternal
    BY <2>2 DEF Redial, StartConnecting, ApplyInternal
  <2>3. CASE TakeClose \/ Shutdown
    BY <2>3 DEF TakeClose, Shutdown, StartClosing, Trying
  <2>4. CASE FinishClosing \/ HandshakeFails
    BY <2>4, UpGrows DEF FinishClosing, HandshakeFails, ActorInv, Trying
  <2>5. CASE \/ Reject \/ Dispatch \/ PingFails
             \/ (\E c \in calls : CallReturns(c) \/ CallDisconnects(c) \/ CallFails(c))
             \/ Call \/ DropHandles \/ KernelStops \/ KernelStarts \/ LinkBreaks
             \/ UNCHANGED vars
    BY <2>5, OthersKeepActor
  <2> QED BY <2>1, <2>2, <2>3, <2>4, <2>5 DEF Next
<1> QED BY <1>1, ActorInvariant, PTL DEF Spec, BackoffClimbs

-----------------------------------------------------------------------------
(* The calls.  The channel q holds the calls after the first t of the s    *)
(* that were made, in their order.                                         *)
Lined(q, s, t) ==
  /\ s \in 0..Len(Ask) /\ t \in Nat /\ q \in Seq(Nat)
  /\ Len(q) + t = s
  /\ \A k \in 1..Len(q) : q[k] = t + k

(* The first t calls run or have had their answer, and no other.           *)
Served(cs, an, t) ==
  /\ an \in [Ids -> {0, 1}]
  /\ \A c \in cs : c.id \in 1..t /\ an[c.id] = 0
  /\ \A c, d \in cs : c.id = d.id => c = d
  /\ \A i \in 1..t : an[i] = 1 \/ \E c \in cs : c.id = i
  /\ \A i \in Ids : i <= t \/ an[i] = 0

(* The inductive invariant of the calls.                                   *)
CallInv == \E t \in Nat : Lined(queue, sent, t) /\ Served(calls, answers, t)

(* Ask is finite, and the calls served are calls of it.                    *)
LEMMA ServedAreCalls ==
  ASSUME NEW q, NEW s, NEW t, Lined(q, s, t)
  PROVE  Len(Ask) \in Nat /\ Len(q) \in Nat /\ t <= Len(Ask) /\ 1..t \subseteq Ids
<1>1. Len(Ask) \in Nat
  BY ConnectionAssumption
<1>2. Len(q) \in Nat
  BY DEF Lined
<1> QED BY <1>1, <1>2 DEF Lined, Ids

(* The call at the head of the channel is the next one.                    *)
LEMMA TakesNext ==
  ASSUME NEW q, NEW s, NEW t, Lined(q, s, t), q # << >>
  PROVE  Head(q) = t + 1 /\ t + 1 \in Ids /\ t + 1 \in Nat /\ Lined(Tail(q), s, t + 1)
<1>1. q \in Seq(Nat) /\ t \in Nat /\ s \in 0..Len(Ask) /\ Len(q) + t = s
      /\ \A k \in 1..Len(q) : q[k] = t + k
  BY DEF Lined
<1>2. Len(q) \in Nat \ {0} /\ Head(q) = q[1] /\ Len(Ask) \in Nat
  BY <1>1, ServedAreCalls
<1>3. PICK r : r = Tail(q)
  BY Zenon
<1>4. r \in Seq(Nat) /\ Len(r) = Len(q) - 1 /\ \A k \in 1..Len(r) : r[k] = q[k + 1]
  BY <1>1, <1>3, HeadTailProperties, Zenon
<1>5. 1 \in 1..Len(q) /\ \A k \in 1..Len(r) : k + 1 \in 1..Len(q)
  BY <1>2, <1>4
<1>6. Head(q) = t + 1
  BY <1>1, <1>2, <1>5, Zenon
<1>7. t + 1 \in Ids /\ t + 1 \in Nat
  BY <1>1, <1>2 DEF Ids
<1>8. \A k \in 1..Len(r) : r[k] = (t + 1) + k
  <2>1. \A k \in 1..Len(r) : t + (k + 1) = (t + 1) + k
    BY <1>1
  <2> QED BY <1>1, <1>4, <1>5, <2>1, Zenon
<1>9. Len(r) + (t + 1) = s
  <2>1. Len(q) \in Nat /\ t \in Nat /\ Len(q) + t = s /\ Len(r) = Len(q) - 1
    BY <1>1, <1>2, <1>4, Zenon
  <2> QED BY ONLY <2>1
<1> QED BY <1>1, <1>3, <1>4, <1>6, <1>7, <1>8, <1>9, Zenon DEF Lined

(* A call made goes to the end of the channel.                             *)
LEMMA CallsLast ==
  ASSUME NEW q, NEW s, NEW t, Lined(q, s, t), s < Len(Ask), NEW n, n = s + 1
  PROVE  Lined(Append(q, n), n, t)
<1>1. q \in Seq(Nat) /\ t \in Nat /\ s \in 0..Len(Ask) /\ Len(q) + t = s
      /\ \A k \in 1..Len(q) : q[k] = t + k
  BY DEF Lined
<1>2. Len(q) \in Nat /\ Len(Ask) \in Nat
  BY <1>1, ServedAreCalls
<1>3. n \in Nat /\ n \in 0..Len(Ask)
  BY <1>1, <1>2
<1>4. PICK r : r = Append(q, n)
  BY Zenon
<1>5. /\ r \in Seq(Nat) /\ Len(r) = Len(q) + 1
      /\ \A k \in 1..Len(q) : r[k] = q[k]
      /\ r[Len(q) + 1] = n
  BY <1>1, <1>3, <1>4, AppendProperties, SMTT(30)
<1>6. \A k \in 1..Len(r) : r[k] = t + k
  <2>1. ASSUME NEW k \in 1..Len(r), k # Len(q) + 1
        PROVE  r[k] = t + k
    <3>1. k \in 1..Len(q)
      BY <1>2, <1>5, <2>1
    <3> QED BY <1>1, <1>5, <3>1, Zenon
  <2>2. t + (Len(q) + 1) = n
    BY <1>1, <1>2, SMTT(30)
  <2> QED BY <1>5, <2>1, <2>2, Zenon
<1>7. Len(r) + t = n
  <2>1. Len(q) \in Nat /\ t \in Nat /\ Len(q) + t = s /\ Len(r) = Len(q) + 1 /\ n = s + 1
    BY <1>1, <1>2, <1>5, Zenon
  <2> QED BY ONLY <2>1
<1> QED BY <1>1, <1>3, <1>4, <1>5, <1>6, <1>7, Zenon DEF Lined

(* One more answer, of a call that had none.                               *)
LEMMA OneAnswer ==
  ASSUME NEW an \in [Ids -> {0, 1}], NEW i \in Ids, an[i] = 0,
         NEW am, am = [an EXCEPT ![i] = an[i] + 1]
  PROVE  am \in [Ids -> {0, 1}] /\ am[i] = 1 /\ \A j \in Ids : j # i => am[j] = an[j]
<1>1. an[i] + 1 = 1
  OBVIOUS
<1>2. am = [an EXCEPT ![i] = 1]
  BY <1>1, Zenon
<1> QED BY <1>2

(* The next call is answered at once.                                      *)
LEMMA AnswersNext ==
  ASSUME NEW cs, NEW an, NEW t \in Nat, Served(cs, an, t), 1..t \subseteq Ids,
         NEW i \in Ids, i = t + 1, NEW am, am = [an EXCEPT ![i] = an[i] + 1]
  PROVE  Served(cs, am, i)
<1>1. i \in Nat /\ ~(i <= t) /\ 1..i = 1..t \cup {i} /\ i \notin 1..t
  OBVIOUS
<1>2. an \in [Ids -> {0, 1}] /\ an[i] = 0
  BY <1>1, Zenon DEF Served
<1>3. am \in [Ids -> {0, 1}] /\ am[i] = 1 /\ \A j \in Ids : j # i => am[j] = an[j]
  BY <1>2, OneAnswer, SMTT(30)
<1>4. \A j \in 1..t : am[j] = an[j]
  BY <1>1, <1>3, Zenon
<1>5. \A c \in cs : c.id \in 1..i /\ am[c.id] = 0
  BY <1>1, <1>4, Zenon DEF Served
<1>6. \A j \in 1..i : am[j] = 1 \/ \E c \in cs : c.id = j
  BY <1>1, <1>3, <1>4, Zenon DEF Served
<1>7. \A j \in Ids : j <= i \/ am[j] = 0
  <2>1. \A j \in Ids : j \in Nat
    BY DEF Ids
  <2>2. \A j \in Ids : j <= i \/ (j # i /\ ~(j <= t))
    BY <2>1, <1>1
  <2> QED BY <1>3, <2>2, Zenon DEF Served
<1> QED BY <1>3, <1>5, <1>6, <1>7, Zenon DEF Served

(* The next call is dispatched.                                            *)
LEMMA RunsNext ==
  ASSUME NEW cs, NEW an, NEW t \in Nat, Served(cs, an, t),
         NEW i \in Ids, i = t + 1, NEW d, d.id = i
  PROVE  Served(cs \cup {d}, an, i)
<1>1. i \in Nat /\ ~(i <= t) /\ 1..i = 1..t \cup {i} /\ i \notin 1..t
  OBVIOUS
<1>2. an[i] = 0
  BY <1>1, Zenon DEF Served
<1>3. \A c \in cs \cup {d} : c.id \in 1..i /\ an[c.id] = 0
  BY <1>1, <1>2, Zenon DEF Served
<1>4. \A c, e \in cs \cup {d} : c.id = e.id => c = e
  <2>1. \A c \in cs : c.id \in 1..t
    BY Zenon DEF Served
  <2>2. d.id \notin 1..t
    BY <1>1, Zenon
  <2>3. \A c, e \in cs : c.id = e.id => c = e
    BY Zenon DEF Served
  <2> QED BY <2>1, <2>2, <2>3, Zenon
<1>5. \A j \in 1..i : an[j] = 1 \/ \E c \in cs \cup {d} : c.id = j
  BY <1>1, Zenon DEF Served
<1>6. \A j \in Ids : j <= i \/ an[j] = 0
  <2>1. \A j \in Ids : j \in Nat
    BY DEF Ids
  <2>2. \A j \in Ids : j <= t => j <= i
    BY <2>1, <1>1
  <2> QED BY <2>2, Zenon DEF Served
<1> QED BY <1>3, <1>4, <1>5, <1>6, Zenon DEF Served

(* A call that runs is answered.                                           *)
LEMMA AnswersRunning ==
  ASSUME NEW cs, NEW an, NEW t, Served(cs, an, t), 1..t \subseteq Ids,
         NEW d \in cs, NEW i, i = d.id, NEW am, am = [an EXCEPT ![i] = an[i] + 1]
  PROVE  Served(cs \ {d}, am, t)
<1>1. i \in 1..t /\ i \in Ids /\ an[i] = 0 /\ an \in [Ids -> {0, 1}]
  BY Zenon DEF Served
<1>2. am \in [Ids -> {0, 1}] /\ am[i] = 1 /\ \A j \in Ids : j # i => am[j] = an[j]
  BY <1>1, OneAnswer, SMTT(30)
<1>3. \A c \in cs \ {d} : c.id # i
  BY Zenon DEF Served
<1>4. \A c \in cs \ {d} : c.id \in 1..t /\ am[c.id] = 0
  <2>1. ASSUME NEW c \in cs \ {d} PROVE c.id \in 1..t /\ c.id \in Ids /\ an[c.id] = 0
    BY Zenon DEF Served
  <2> QED BY <1>2, <1>3, <2>1, Zenon
<1>5. \A j \in 1..t : am[j] = 1 \/ \E c \in cs \ {d} : c.id = j
  <2>1. ASSUME NEW j \in 1..t, j # i PROVE am[j] = 1 \/ \E c \in cs \ {d} : c.id = j
    <3>1. am[j] = an[j]
      BY <1>2, <2>1, Zenon
    <3> QED BY <2>1, <3>1, Zenon DEF Served
  <2> QED BY <1>2, <2>1, Zenon
<1>6. \A j \in Ids : j <= t \/ am[j] = 0
  <2>1. i <= t
    BY <1>1
  <2> QED BY <1>2, <2>1, Zenon DEF Served
<1>7. \A c, e \in cs \ {d} : c.id = e.id => c = e
  BY Zenon DEF Served
<1> QED BY <1>2, <1>4, <1>5, <1>6, <1>7, Zenon DEF Served

(* Every step keeps the calls in order.                                    *)
LEMMA CallsInductive == CallInv /\ [Next]_vars => CallInv'
<1> SUFFICES ASSUME CallInv, [Next]_vars PROVE CallInv'
  OBVIOUS
<1>1. PICK t \in Nat : Lined(queue, sent, t) /\ Served(calls, answers, t)
  BY Zenon DEF CallInv
<1>2. 1..t \subseteq Ids
  BY <1>1, ServedAreCalls, Zenon
<1>3. ASSUME UNCHANGED <<queue, sent, calls, answers>> PROVE CallInv'
  BY <1>1, <1>3, Zenon DEF CallInv
<1>4. ASSUME queue # << >>
      PROVE  /\ Head(queue) = t + 1 /\ Head(queue) \in Ids /\ Head(queue) \in Nat
             /\ Lined(Tail(queue), sent, Head(queue))
  BY <1>1, <1>4, TakesNext, Zenon
<1>5. ASSUME queue # << >>, queue' = Tail(queue), Answer(Head(queue)), UNCHANGED <<sent, calls>>
      PROVE  CallInv'
  <2>1. answers' = [answers EXCEPT ![Head(queue)] = answers[Head(queue)] + 1]
    BY <1>5, Zenon DEF Answer
  <2>2. Served(calls', answers', Head(queue))
    BY <1>1, <1>2, <1>4, <1>5, <2>1, AnswersNext, Zenon
  <2> QED BY <1>4, <1>5, <2>2, Zenon DEF CallInv
<1>6. CASE Reject
  BY <1>5, <1>6, Zenon DEF Reject
<1>7. CASE Dispatch
  <2>1. CASE Ask[Head(queue)].op = "vfs" /\ Ask[Head(queue)].op \in wants
    BY <1>5, <1>7, <2>1, Zenon DEF Dispatch
  <2>2. CASE ~(Ask[Head(queue)].op = "vfs" /\ Ask[Head(queue)].op \in wants)
    <3>1. PICK d : d = [id |-> Head(queue), of |-> conn]
      BY Zenon
    <3>2. d.id = Head(queue)
      BY <3>1
    <3>3. /\ queue # << >> /\ queue' = Tail(queue) /\ calls' = calls \cup {d}
          /\ answers' = answers /\ sent' = sent
      BY <1>7, <2>2, <3>1, Zenon DEF Dispatch
    <3>4. Served(calls', answers', Head(queue))
      BY <1>1, <1>4, <3>2, <3>3, RunsNext, Zenon
    <3> QED BY <1>4, <3>3, <3>4, Zenon DEF CallInv
  <2> QED BY <2>1, <2>2, Zenon
<1>8. ASSUME NEW c \in calls, Gone(c), UNCHANGED <<queue, sent>> PROVE CallInv'
  <2>1. calls' = calls \ {c} /\ answers' = [answers EXCEPT ![c.id] = answers[c.id] + 1]
    BY <1>8, Zenon DEF Gone, Answer
  <2>2. Served(calls', answers', t)
    BY <1>1, <1>2, <2>1, AnswersRunning, Zenon
  <2> QED BY <1>1, <1>8, <2>2, Zenon DEF CallInv
<1>9. ASSUME NEW c \in calls, CallReturns(c) \/ CallDisconnects(c) \/ CallFails(c) PROVE CallInv'
  BY <1>8, <1>9, Zenon DEF CallReturns, CallDisconnects, CallFails
<1>10. CASE Call
  <2>1. sent < Len(Ask) /\ sent' = sent + 1 /\ queue' = Append(queue, sent') /\ UNCHANGED <<calls, answers>>
    BY <1>10, Zenon DEF Call
  <2>2. Lined(queue', sent', t)
    BY <1>1, <2>1, CallsLast, Zenon
  <2> QED BY <1>1, <2>1, <2>2, Zenon DEF CallInv
<1>11. CASE Dial \/ Redial \/ TakeClose \/ Shutdown \/ FinishClosing
  BY <1>3, <1>11, Zenon DEF Dial, Redial, TakeClose, Shutdown, FinishClosing, wires
<1>12. CASE EnterConnected \/ HandshakeFails \/ HandshakeRefused \/ ApplyInternal
  BY <1>3, <1>12, Zenon DEF EnterConnected, HandshakeFails, HandshakeRefused, ApplyInternal, wires
<1>13. CASE PingFails \/ DropHandles \/ KernelStops \/ KernelStarts \/ LinkBreaks
  BY <1>3, <1>13, Zenon DEF PingFails, DropHandles, KernelStops, KernelStarts, LinkBreaks, wires
<1>14. CASE UNCHANGED vars
  BY <1>3, <1>14, Zenon DEF vars, wires
<1> QED BY <1>6, <1>7, <1>9, <1>10, <1>11, <1>12, <1>13, <1>14, Zenon DEF Next

(* Nothing has been asked at the start.                                    *)
LEMMA InitCalls == Init => CallInv
<1> SUFFICES ASSUME Init PROVE CallInv
  OBVIOUS
<1>1. Lined(queue, sent, 0)
  BY ConnectionAssumption DEF Init, Lined
<1>2. Served(calls, answers, 0)
  BY DEF Init, Served
<1> QED BY <1>1, <1>2 DEF CallInv

(* A set with exactly one element.                                         *)
LEMMA One == ASSUME NEW S, NEW x \in S, \A y \in S : y = x PROVE Cardinality(S) = 1
<1>1. S = {x}
  BY Zenon
<1> QED BY <1>1, FS_Singleton, Zenon

(* And one with none.                                                      *)
LEMMA None == ASSUME NEW S, \A y \in S : FALSE PROVE Cardinality(S) = 0
<1>1. S = {}
  BY Zenon
<1> QED BY <1>1, FS_EmptySet, Zenon

(* No call is lost or served twice, for any calls, closes, reconnects and  *)
(* refusals: each call made waits in the channel, or runs once, or has had *)
(* its one answer.                                                         *)
THEOREM CallsAreInOnePlace == Spec => []OnePlace
<1>1. ASSUME NEW t \in Nat, Lined(queue, sent, t), Served(calls, answers, t), NEW i \in Ids
      PROVE  Queued(i) + Cardinality({c \in calls : c.id = i}) + answers[i]
                = IF i <= sent THEN 1 ELSE 0
  <2>0. /\ i \in Nat \ {0} /\ Len(queue) \in Nat /\ Len(queue) + t = sent /\ sent \in Nat
        /\ \A k \in 1..Len(queue) : queue[k] = t + k
    BY <1>1, ServedAreCalls DEF Ids, Lined
  <2>1. PICK K, C : K = {k \in 1..Len(queue) : queue[k] = i} /\ C = {c \in calls : c.id = i}
    BY Zenon
  <2>2. CASE i <= t
    <3>1. i \in 1..t /\ i <= sent
      BY <2>0, <2>2
    <3>2. \A k \in K : FALSE
      BY <2>0, <2>1, <2>2
    <3>3. Cardinality(K) = 0
      BY <3>2, None, Zenon
    <3>4. CASE answers[i] = 1
      <4>1. \A c \in C : answers[i] = 0
        BY <1>1, <2>1, Zenon DEF Served
      <4>2. \A c \in C : FALSE
        BY <3>4, <4>1
      <4>3. Cardinality(C) = 0
        BY <4>2, None, Zenon
      <4> QED BY <2>1, <3>1, <3>3, <3>4, <4>3 DEF Queued
    <3>5. CASE answers[i] # 1
      <4>1. answers[i] = 0
        BY <1>1, <3>5, Zenon DEF Served
      <4>2. PICK c \in calls : c.id = i
        BY <1>1, <3>1, <3>5, Zenon DEF Served
      <4>3. c \in C /\ \A d \in C : d = c
        BY <1>1, <2>1, <4>2, Zenon DEF Served
      <4>4. Cardinality(C) = 1
        BY <4>3, One, Zenon
      <4> QED BY <2>1, <3>1, <3>3, <4>1, <4>4 DEF Queued
    <3> QED BY <3>4, <3>5, Zenon
  <2>3. CASE ~(i <= t)
    <3>1. answers[i] = 0
      BY <1>1, <2>3, Zenon DEF Served
    <3>2. \A c \in C : FALSE
      <4>1. i \notin 1..t
        BY <2>0, <2>3
      <4> QED BY <1>1, <2>1, <4>1, Zenon DEF Served
    <3>3. Cardinality(C) = 0
      BY <3>2, None, Zenon
    <3>4. CASE i <= sent
      <4>1. PICK k : k = i - t
        BY Zenon
      <4>2. k \in K /\ \A l \in K : l = k
        BY <2>0, <2>1, <2>3, <3>4, <4>1
      <4>3. Cardinality(K) = 1
        BY <4>2, One, Zenon
      <4> QED BY <2>1, <3>1, <3>3, <3>4, <4>3 DEF Queued
    <3>5. CASE ~(i <= sent)
      <4>1. \A k \in K : FALSE
        BY <2>0, <2>1, <3>5
      <4>2. Cardinality(K) = 0
        BY <4>1, None, Zenon
      <4> QED BY <2>1, <3>1, <3>3, <3>5, <4>2 DEF Queued
    <3> QED BY <3>4, <3>5, Zenon
  <2> QED BY <2>2, <2>3, Zenon
<1>2. CallInv => OnePlace
  BY <1>1, Zenon DEF CallInv, OnePlace
<1> QED BY <1>2, InitCalls, CallsInductive, PTL DEF Spec
=============================================================================
