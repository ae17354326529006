----------------------------- MODULE Connection -----------------------------
(***************************************************************************)
(* The connection actor of the client (kaijutsu-client/src/actor.rs): the  *)
(* state machine that dials the kernel, serves calls while connected,      *)
(* pings, closes, and comes back after a growing pause.                    *)
(*                                                                         *)
(* The actor is one task; a handshake, the pinger and each dispatched call *)
(* are tasks of their own that answer through channels: the close channel  *)
(* (capacity 1) and the internal channel.  A handshake's steps are joined: *)
(* what they did on the server is gone when it fails.  Connections are     *)
(* numbered; a connection the actor has dropped lives on while a call that *)
(* cloned its RpcClient is in flight.  The number of an attempt stays at   *)
(* MaxAttempt, as the backoff stays at BACKOFF_MAX.                        *)
(***************************************************************************)
EXTENDS Integers, Sequences, FiniteSets

CONSTANTS
    Context,
    Ask,             \* the calls made: a sequence of [op, context]
    First,           \* the context given to spawn_actor, or NoContext
    MaxAttempt,      \* bound: attempt numbers
    MaxOutages,      \* bound: times the kernel or the link goes away
    NoContext

Ops == {"join", "peer", "vfs", "other"}

ASSUME ConnectionAssumption ==
    /\ NoContext \notin Context /\ First \in Context \cup {NoContext}
    /\ Ask \in Seq([op : Ops, context : Context \cup {NoContext}])
    /\ MaxAttempt \in Nat \ {0} /\ MaxOutages \in Nat

VARIABLES
    state,           \* ActorState: its name
    attempt,         \* the attempt it carries (0 in Connected and Terminal)
    cause,           \* the CloseCause of Closing, or NoCause
    conn,            \* connections made so far; the live one is the last
    bound,           \* bound_kernel_id is set
    context,         \* context_id, joined again on every connect
    joined,          \* joined_context_id
    wants,           \* registrations kept: peer_registration, vfs interval
    task,            \* what the handshake task was given, or NoTask
    pinging,         \* the ping task is alive
    close,           \* the close channel: NoCause or [why, of]
    internal,        \* the internal channel: JoinedContext messages
    queue,           \* the command channel: indices of Ask
    sent,            \* calls made so far
    calls,           \* calls in flight: [id, of], of the connection used
    answers,         \* number of answers each call has had
    handles,         \* some ActorHandle is alive
    \* the other side
    up,              \* the kernel answers
    live,            \* connections whose wire is alive
    session,         \* the context the last connection's session has joined
    outages

actor == <<state, attempt, cause, conn, bound, context, joined, wants, task, pinging>>
wires == <<close, internal, queue, sent, calls, answers, handles>>
world == <<up, live, session, outages>>
vars == <<actor, wires, world>>

Ids == 1..Len(Ask)
NoCause == [why |-> "none", of |-> 0]
NoTask == [on |-> FALSE, context |-> NoContext]
Connected == state = "Connected"
MaxConn == 1 + MaxOutages + Len(Ask)
Up(n) == IF n < MaxAttempt THEN n + 1 ELSE n

Init ==
    /\ state = "Idle" /\ attempt = 0 /\ cause = NoCause /\ conn = 0
    /\ bound = FALSE /\ context = First /\ joined = NoContext /\ wants = {}
    /\ task = NoTask /\ pinging = FALSE
    /\ close = NoCause /\ internal = << >> /\ queue = << >> /\ sent = 0
    /\ calls = {} /\ answers = [i \in Ids |-> 0] /\ handles = TRUE
    /\ up \in BOOLEAN /\ live = {} /\ session = NoContext /\ outages = 0

Answer(i) == answers' = [answers EXCEPT ![i] = @ + 1]

(* try_send on the close channel: the first cause wins. *)
TrySend(why, of) == close' = IF close = NoCause THEN [why |-> why, of |-> of] ELSE close

-----------------------------------------------------------------------------
(* The run loop.                                                           *)

(* start_connecting: the handshake is given the context to join again. *)
StartConnecting(n) ==
    /\ state' = "Connecting" /\ attempt' = n
    /\ task' = [on |-> TRUE, context |-> context]
    /\ UNCHANGED <<cause, conn, bound, context, joined, wants, pinging>>

Dial ==
    /\ state = "Idle"
    /\ StartConnecting(1)
    /\ UNCHANGED <<wires, world>>

(* Mutant: the actor dials again only when a call wants it to. *)
RedialOnCall ==
    /\ state = "Cooldown" /\ queue # << >>
    /\ StartConnecting(attempt)
    /\ UNCHANGED <<wires, world>>

Redial ==
    /\ state = "Cooldown"
    /\ StartConnecting(attempt)
    /\ UNCHANGED <<wires, world>>

(* RpcSystemGuard: a call through dispatch_kernel_command holds the client. *)
Held(n, cs) == \E c \in cs : c.of = n /\ Ask[c.id].op \in {"peer", "other"}

(* The wires left when the calls in flight are cs. *)
LiveWith(cs) == {n \in live : Held(n, cs) \/ (Connected /\ n = conn)}

(* start_closing; the wire goes with the connection unless a call holds it. *)
StartClosing(why) ==
    /\ state' = "Closing" /\ cause' = why
    /\ attempt' = IF state \in {"Connecting", "Cooldown"} THEN attempt ELSE 0
    /\ task' = NoTask /\ pinging' = FALSE
    /\ live' = {n \in live : Held(n, calls)}
    /\ UNCHANGED <<conn, bound, context, joined, wants, up, session, outages>>

(* A close is taken in Connecting and Connected. *)
TakeClose ==
    /\ state \in {"Connecting", "Connected"} /\ close # NoCause
    /\ StartClosing(close) /\ close' = NoCause
    /\ UNCHANGED <<internal, queue, sent, calls, answers, handles>>

(* The command channel is closed and drained. *)
Shutdown ==
    /\ state \in {"Connecting", "Connected", "Cooldown"}
    /\ ~handles /\ queue = << >>
    /\ Connected => close = NoCause /\ internal = << >>
    /\ StartClosing([why |-> "Shutdown", of |-> conn])
    /\ UNCHANGED wires

FinishClosing ==
    /\ state = "Closing"
    /\ IF cause.why = "Shutdown" THEN state' = "Terminal" /\ attempt' = 0
                                 ELSE state' = "Cooldown" /\ attempt' = Up(attempt)
    /\ cause' = NoCause
    /\ UNCHANGED <<conn, bound, context, joined, wants, task, pinging, wires, world>>

(***************************************************************************)
(* on_connect_outcome and connect_handshake.  The handshake gets through   *)
(* when the kernel is up.  It fails for good when the kernel refuses (the  *)
(* key, or a context it does not know).  It fails for now when the kernel  *)
(* is down, or by an outage of its own, or past CONNECT_TOTAL_BUDGET.      *)
(***************************************************************************)
EnterConnected ==
    /\ state = "Connecting" /\ task.on /\ up
    /\ state' = "Connected" /\ attempt' = 0 /\ conn' = conn + 1 /\ bound' = TRUE
    /\ joined' = task.context /\ session' = task.context
    /\ task' = NoTask /\ pinging' = TRUE /\ live' = live \cup {conn'}
    /\ UNCHANGED <<cause, context, wants, wires, up, outages>>

HandshakeFails ==
    /\ state = "Connecting"
    /\ up => outages < MaxOutages
    /\ outages' = IF up THEN outages + 1 ELSE outages
    /\ state' = "Cooldown" /\ attempt' = Up(attempt) /\ task' = NoTask
    /\ UNCHANGED <<cause, conn, bound, context, joined, wants, pinging, wires,
                   up, live, session>>

HandshakeRefused ==
    /\ state = "Connecting" /\ up
    /\ state' = "Terminal" /\ attempt' = 0 /\ task' = NoTask
    /\ UNCHANGED <<cause, conn, bound, context, joined, wants, pinging, wires, world>>

(* Mutant: internal messages are also read during a handshake. *)
ApplyAnywhere ==
    /\ state \in {"Connecting", "Connected"} /\ close = NoCause /\ internal # << >>
    /\ context' = Head(internal) /\ joined' = Head(internal)
    /\ internal' = Tail(internal)
    /\ UNCHANGED <<state, attempt, cause, conn, bound, wants, task, pinging,
                   close, queue, sent, calls, answers, handles, world>>

(* JoinedContext from a join that succeeded; read in Connected, after closes. *)
ApplyInternal ==
    /\ Connected /\ close = NoCause /\ internal # << >>
    /\ context' = Head(internal) /\ joined' = Head(internal)
    /\ internal' = Tail(internal)
    /\ UNCHANGED <<state, attempt, cause, conn, bound, wants, task, pinging,
                   close, queue, sent, calls, answers, handles, world>>

(* Mutant: Terminal does not read the command channel. *)
RejectTrying ==
    /\ state \in {"Connecting", "Cooldown"} /\ queue # << >>
    /\ queue' = Tail(queue) /\ Answer(Head(queue))
    /\ UNCHANGED <<actor, close, internal, sent, calls, handles, world>>

(***************************************************************************)
(* A command: dispatched in Connected, after closes and internal messages; *)
(* answered NotReady in Connecting and Cooldown, PermanentlyFailed in      *)
(* Terminal.  A second vfs subscription is answered at once.               *)
(***************************************************************************)
Reject ==
    /\ state \in {"Connecting", "Cooldown", "Terminal"} /\ queue # << >>
    /\ queue' = Tail(queue) /\ Answer(Head(queue))
    /\ UNCHANGED <<actor, close, internal, sent, calls, handles, world>>

Dispatch ==
    LET i == Head(queue)
        op == Ask[i].op
    IN  /\ Connected /\ close = NoCause /\ internal = << >> /\ queue # << >>
        /\ queue' = Tail(queue)
        /\ IF op = "vfs" /\ op \in wants
           THEN Answer(i) /\ UNCHANGED <<calls, wants>>
           ELSE /\ calls' = calls \cup {[id |-> i, of |-> conn]}
                /\ wants' = IF op \in {"peer", "vfs"} THEN wants \cup {op} ELSE wants
                /\ UNCHANGED answers
        /\ UNCHANGED <<state, attempt, cause, conn, bound, context, joined, task,
                       pinging, close, internal, sent, handles, world>>

-----------------------------------------------------------------------------
(* run_rpc_call in a task of its own.                                      *)

Gone(c) == calls' = calls \ {c} /\ Answer(c.id) /\ live' = LiveWith(calls')

(* The kernel answers; a join moves the session, and the actor is told. *)
CallReturns(c) ==
    /\ c.of \in live /\ Gone(c)
    /\ IF Ask[c.id].op = "join"
       THEN /\ session' = IF c.of = conn THEN Ask[c.id].context ELSE session
            /\ internal' = Append(internal, Ask[c.id].context)
       ELSE UNCHANGED <<session, internal>>
    /\ UNCHANGED <<actor, close, queue, sent, handles, up, outages>>

(* The call fails because its connection is gone: the actor is to close. *)
CallDisconnects(c) ==
    /\ c.of \notin live /\ Gone(c)
    /\ TrySend("RpcError", c.of)
    /\ UNCHANGED <<actor, internal, queue, sent, handles, up, session, outages>>

(* The call fails on the kernel's side, or runs into its deadline. *)
CallFails(c) ==
    /\ Gone(c)
    /\ UNCHANGED <<actor, close, internal, queue, sent, handles, up, session, outages>>

(* Mutant: the pinger ends without a word. *)
PingFailsQuietly ==
    /\ pinging /\ conn \notin live
    /\ pinging' = FALSE
    /\ UNCHANGED <<state, attempt, cause, conn, bound, context, joined, wants,
                   task, wires, world>>

(* run_ping_loop: a ping that fails ends the task. *)
PingFails ==
    /\ pinging /\ conn \notin live
    /\ pinging' = FALSE
    /\ TrySend("PingFailed", conn)
    /\ UNCHANGED <<state, attempt, cause, conn, bound, context, joined, wants,
                   task, internal, queue, sent, calls, answers, handles, world>>

-----------------------------------------------------------------------------
(* The callers and the kernel.                                             *)

Call ==
    /\ handles /\ sent < Len(Ask)
    /\ sent' = sent + 1 /\ queue' = Append(queue, sent')
    /\ UNCHANGED <<actor, close, internal, calls, answers, handles, world>>

DropHandles ==
    /\ handles /\ handles' = FALSE
    /\ UNCHANGED <<actor, close, internal, queue, sent, calls, answers, world>>

KernelStops ==
    /\ up /\ outages < MaxOutages /\ outages' = outages + 1
    /\ up' = FALSE /\ live' = {}
    /\ UNCHANGED <<actor, wires, session>>

KernelStarts ==
    /\ ~up /\ up' = TRUE
    /\ UNCHANGED <<actor, wires, live, session, outages>>

LinkBreaks ==
    /\ live # {} /\ outages < MaxOutages /\ outages' = outages + 1
    /\ \E n \in live : live' = live \ {n}
    /\ UNCHANGED <<actor, wires, up, session>>

Next ==
    \/ Dial \/ Redial \/ TakeClose \/ Shutdown \/ FinishClosing
    \/ EnterConnected \/ HandshakeFails \/ HandshakeRefused
    \/ ApplyInternal \/ Reject \/ Dispatch
    \/ \E c \in calls : CallReturns(c)
    \/ \E c \in calls : CallDisconnects(c)
    \/ \E c \in calls : CallFails(c)
    \/ PingFails
    \/ Call \/ DropHandles \/ KernelStops \/ KernelStarts \/ LinkBreaks

Spec == Init /\ [][Next]_vars

(***************************************************************************)
(* The loop always takes a branch that is ready, and does not starve one:  *)
(* select! picks at random among the ready ones, and what comes before a   *)
(* command in Connected, closes and internal messages, is used up.  A call *)
(* ends at the latest at RPC_CALL_TIMEOUT; a ping on a dead wire fails.    *)
(* Of the kernel, the network and the callers nothing is assumed.          *)
(***************************************************************************)
Run == \/ Dial \/ Redial \/ TakeClose \/ FinishClosing \/ EnterConnected
       \/ (HandshakeFails /\ ~up) \/ ApplyInternal
EndsCall == \E c \in calls : CallReturns(c) \/ CallDisconnects(c) \/ CallFails(c)

FairSpec ==
    /\ Spec
    /\ WF_vars(Run) /\ WF_vars(EndsCall) /\ WF_vars(PingFails)
    /\ SF_vars(Reject \/ Dispatch) /\ SF_vars(Shutdown)

-----------------------------------------------------------------------------
(* Properties.                                                             *)

States == {"Idle", "Connecting", "Connected", "Closing", "Cooldown", "Terminal"}
Causes == {"RpcError", "PingFailed", "Shutdown"}
CauseType == {NoCause} \cup [why : Causes, of : 0..MaxConn]

(* The type invariant: every answer given at most once among it. *)
TypeOK ==
    /\ state \in States /\ attempt \in 0..MaxAttempt /\ cause \in CauseType
    /\ conn \in 0..MaxConn /\ bound \in BOOLEAN
    /\ {context, joined, session} \subseteq Context \cup {NoContext}
    /\ wants \subseteq {"peer", "vfs"}
    /\ task \in [on : BOOLEAN, context : Context \cup {NoContext}]
    /\ pinging \in BOOLEAN /\ close \in CauseType /\ internal \in Seq(Context)
    /\ queue \in Seq(Ids) /\ sent \in 0..Len(Ask)
    /\ calls \subseteq [id : Ids, of : 1..MaxConn]
    /\ answers \in [Ids -> 0..1] /\ handles \in BOOLEAN
    /\ up \in BOOLEAN /\ live \subseteq 1..MaxConn /\ outages \in 0..MaxOutages

Queued(i) == Cardinality({k \in 1..Len(queue) : queue[k] = i})

(* No call is lost or served twice, whatever closes and reconnects come in *)
(* between: a call made waits in the channel, or runs once, or has had its *)
(* one answer.                                                             *)
OnePlace ==
    \A i \in Ids :
        Queued(i) + Cardinality({c \in calls : c.id = i}) + answers[i]
            = IF i <= sent THEN 1 ELSE 0

(* The tasks the actor owns are those of its state: Connecting finds its   *)
(* handshake task (the expect in run), Connected a kernel it is bound to,  *)
(* and no pinger outlives its connection, where it would close the next.   *)
TasksOwned ==
    /\ state = "Connecting" <=> task.on
    /\ pinging => Connected
    /\ Connected => bound

(* The handshake works on a copy of context_id taken when it was spawned;  *)
(* the copy is never stale when the handshake is over, so a reconnect      *)
(* joins the context the actor holds.                                      *)
HandshakeCurrent == task.on => task.context = context

Trying == {"Connecting", "Closing", "Cooldown"}

(* The pause never gets shorter before a connection is made: the attempt   *)
(* number is carried through Closing, Cooldown and Connecting.             *)
BackoffClimbs ==
    [][(state \in Trying /\ state' \in Trying) => attempt' >= attempt]_vars

(* Every call made is answered, in whatever state the actor is and however *)
(* often the connection goes: rejected, returned, failed or timed out.     *)
AllAnswered == \A i \in Ids : sent >= i ~> answers[i] = 1

(* A connection whose wire is dead is left, without any call to notice it. *)
DeadWireLeft == Connected /\ conn \notin live ~> ~Connected

(* Once the kernel stays up, the actor keeps coming back: it is connected  *)
(* again and again, unless it was refused or its handles are gone.         *)
ComesBack == <>[]up => []<>(state \in {"Connected", "Terminal"})

(* Dropping the last handle ends the actor, also while it cannot connect.  *)
Ends == ~handles ~> state = "Terminal"

(* A close is the failure of the connection it closes: "subsequent         *)
(* in-flight failures discover the actor is already Closing and just log"  *)
(* (run_rpc_call).                                                         *)
CloseIsOwn ==
    [][(state' = "Closing" /\ cause'.why # "Shutdown" /\ state # "Closing")
         => (Connected /\ cause'.of = conn)]_vars

(* "Context returned by the most recent `join_context`"                    *)
(* (joined_context_id): when no join is under way, it is the context the   *)
(* kernel's session for this connection has joined.                        *)
JoinedIsSession ==
    Connected /\ internal = << >>
      /\ (\A c \in calls : Ask[c.id].op # "join") => joined = session
=============================================================================
