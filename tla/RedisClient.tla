---------------------------- MODULE RedisClient -----------------------------
(* cppBase/redistool: RedisManager, RedisAsync and LoadScriptMgr, a redis   *)
(* client with one event loop thread.  Callers put requests into a bounded  *)
(* queue (RingBuffer, here as the queue it implements); the redis thread    *)
(* connects, authenticates, loads the scripts, drains the queue, pings, and *)
(* reconnects through a sentinel.  A callback of the event loop is one      *)
(* action.  What hiredis does is taken from how the callbacks use it: it    *)
(* answers commands in order, and freeing a context answers what is pending *)
(* with a NULL reply before it reports the disconnection.                   *)
EXTENDS Integers, Sequences, FiniteSets

CONSTANTS
    Requests,       \* the requests of the callers, each sent once
    NScripts,       \* number of scripts
    QueueSize,      \* MAX_RING_BUFFER_SLOT_COUNT
    PingInterval,   \* REDIS_PING_INTERVAL
    PingTimeout,    \* REDIS_PING_TIMEOUT
    CheckInterval,  \* the interval of checkMaster
    MaxLate,        \* bound: the seconds between two calls of timer
    MaxPending,     \* bound: the commands the redis thread lets be in flight
    MaxPings,       \* bound: the pings in flight
    None

Scripts == 1 .. NScripts

ASSUME SizeAssumption == NScripts \in Nat /\ QueueSize \in Nat \ {0}
ASSUME TimeAssumption ==
    /\ PingInterval \in Nat /\ PingTimeout \in Nat /\ CheckInterval \in Nat
    /\ MaxLate \in Nat \ {0} /\ MaxPending \in Nat /\ MaxPings \in Nat

VARIABLES
    stat,       \* RedisAsync::_stat
    context,    \* RedisAsync::_context: none, or whether hiredis has connected it
    pending,    \* the commands hiredis has not answered yet, in order
    queue,      \* RedisManager::m_rbIn
    sha1,       \* sha1 of a script; "stale" if an earlier connection loaded it
    recent,     \* the scripts whose timestamp is at most 200 ms old
    pingAge,    \* now - _lastPing, in seconds
    sendAge,    \* now - _lastPingSend
    checkAge,   \* now - m_lastTimeOutTimeStamp of checkMaster
    accepted,   \* history: the requests send() has put into the queue
    dropped,    \* history: the requests send() has deleted
    answered,   \* history: the requests whose OnReply was called
    crashed     \* a NULL reply was dereferenced, the process is gone

clock == <<pingAge, sendAge, checkAge>>
history == <<accepted, dropped, answered>>
vars == <<stat, context, pending, queue, sha1, recent, clock, history, crashed>>

Auth == [kind |-> "auth", of |-> None]
Ping == [kind |-> "ping", of |-> None]
ScriptLoad(s) == [kind |-> "script", of |-> s]
User(r) == [kind |-> "user", of |-> r]

\* mainLoop has called connect.
Init ==
    /\ stat = "WaitConn"
    /\ context = "connecting"
    /\ pending = <<>>
    /\ queue = <<>>
    /\ sha1 = [s \in Scripts |-> "none"]
    /\ recent = {}
    /\ pingAge = PingTimeout + 1
    /\ sendAge = PingInterval + 1
    /\ checkAge = CheckInterval + 1
    /\ accepted = <<>> /\ dropped = {} /\ answered = <<>>
    /\ crashed = FALSE

-----------------------------------------------------------------------------
\* The members of a finite set of numbers, in order.
InOrder(S) == [k \in 1 .. Cardinality(S) |-> CHOOSE i \in S : Cardinality({j \in S : j < i}) = k - 1]

\* The requests of the callers among the commands c.
UsersOf(c) ==
    LET at == InOrder({i \in 1 .. Len(c) : c[i].kind = "user"})
    IN  [k \in 1 .. Len(at) |-> c[at[k]].of]

\* redisCommandCallback hands a NULL reply to onRedisPing or onRedisAuth.
Internal(x) == x.kind \in {"auth", "ping"}

\* The position of the first internal command in c, or Len(c) + 1.
FirstInternal(c) ==
    LET at == {i \in 1 .. Len(c) : Internal(c[i])}
    IN  IF at = {} THEN Len(c) + 1 ELSE CHOOSE i \in at : \A j \in at : i <= j

\* Forgetting the requests that are pending.
FlushPendingForgotten ==
    /\ crashed' = (FirstInternal(pending) <= Len(pending))
    /\ pending' = <<>>
    /\ UNCHANGED answered

\* hiredis answers everything that is pending with NULL.  An internal command
\* ends the process.
FlushPending ==
    LET first == FirstInternal(pending)
    IN  /\ answered' = answered \o UsersOf(SubSeq(pending, 1, first - 1))
        /\ crashed' = (first <= Len(pending))
        /\ pending' = SubSeq(pending, first + 1, Len(pending))

\* What is known of the scripts was learnt from a connection that is gone.
Outdated == [s \in Scripts |-> IF sha1[s] = "none" THEN "none" ELSE "stale"]

\* A clearSha1 that only resets the timestamps.
ClearSha1TimesOnly(known) == known

\* LoadScriptMgr::clearSha1
ClearSha1(known) == [s \in DOMAIN known |-> "none"]

\* LoadScriptMgr::load: the scripts that are asked for, in the order of the
\* map, as far as they fit into the queue.
ToLoad == InOrder({s \in Scripts : sha1[s] = "none" /\ s \notin recent})

\* The queue after load, which drops what does not fit.
Loaded ==
    LET wanted == [i \in 1 .. Len(ToLoad) |-> ScriptLoad(ToLoad[i])]
        room == QueueSize - Len(queue)
    IN  queue \o SubSeq(wanted, 1, IF Len(wanted) < room THEN Len(wanted) ELSE room)

-----------------------------------------------------------------------------
\* The callers.

\* send(): true also when the queue is full and the request is deleted.
Send(r) ==
    /\ ~crashed
    /\ \A i \in 1 .. Len(accepted) : accepted[i] # r
    /\ r \notin dropped
    /\ IF Len(queue) < QueueSize
       THEN queue' = Append(queue, User(r)) /\ accepted' = Append(accepted, r) /\ UNCHANGED dropped
       ELSE dropped' = dropped \cup {r} /\ UNCHANGED <<queue, accepted>>
    /\ UNCHANGED <<stat, context, pending, sha1, recent, clock, answered, crashed>>

-----------------------------------------------------------------------------
\* Connecting.

\* RedisAsync::close, then RedisAsync::connect if again is set: whether the
\* sentinels and redisAsyncConnect let it come to that is up to them.
CloseContext(again) ==
    /\ FlushPending
    /\ IF crashed'
       THEN UNCHANGED <<stat, context, sha1, recent>>
       ELSE /\ stat' = IF again THEN "WaitConn" ELSE "NullStat"
            /\ context' = IF again THEN "connecting" ELSE "null"
            /\ sha1' = ClearSha1(Outdated)
            /\ recent' = {}

\* redisConnect with REDIS_OK
Connected ==
    /\ ~crashed /\ context = "connecting"
    /\ stat' = "WaitAuth"
    /\ context' = "connected"
    /\ pending' = Append(pending, Auth)
    /\ queue' = Loaded
    /\ recent' = recent \cup {ToLoad[i] : i \in 1 .. Len(ToLoad)}
    /\ UNCHANGED <<sha1, clock, history, crashed>>

\* redisConnect with an error: hiredis frees the context.
ConnectFailed ==
    /\ ~crashed /\ context = "connecting"
    /\ stat' = "NullStat"
    /\ context' = "null"
    /\ UNCHANGED <<pending, queue, sha1, recent, clock, history, crashed>>

\* The connection breaks: hiredis frees the context and calls redisDisconnect.
Disconnected ==
    /\ ~crashed /\ context = "connected"
    /\ FlushPending
    /\ IF crashed'
       THEN UNCHANGED <<stat, context, sha1>>
       ELSE stat' = "NullStat" /\ context' = "null" /\ sha1' = Outdated
    /\ UNCHANGED <<queue, recent, clock, accepted, dropped>>

-----------------------------------------------------------------------------
\* redisCommandCallback with a reply, which is an error if ok is FALSE.

ReplyAuth(ok) ==
    /\ stat' = IF ok THEN "Working" ELSE stat
    /\ pingAge' = IF ok THEN 0 ELSE pingAge
    /\ UNCHANGED <<sha1, answered>>

ReplyPing(ok) ==
    /\ pingAge' = IF ok THEN 0 ELSE pingAge
    /\ UNCHANGED <<stat, sha1, answered>>

ReplyScript(s, ok) ==
    /\ sha1' = IF ok THEN [sha1 EXCEPT ![s] = "current"] ELSE sha1
    /\ UNCHANGED <<stat, pingAge, answered>>

ReplyUser(r) ==
    /\ answered' = Append(answered, r)
    /\ UNCHANGED <<stat, pingAge, sha1>>

Reply(ok) ==
    /\ ~crashed /\ context = "connected" /\ pending # <<>>
    /\ LET x == Head(pending)
       IN  \/ x.kind = "auth" /\ ReplyAuth(ok)
           \/ x.kind = "ping" /\ ReplyPing(ok)
           \/ x.kind = "script" /\ ReplyScript(x.of, ok)
           \/ x.kind = "user" /\ ReplyUser(x.of)
    /\ pending' = Tail(pending)
    /\ UNCHANGED <<context, queue, recent, sendAge, checkAge, accepted, dropped, crashed>>

-----------------------------------------------------------------------------
\* The timers.

\* An age that has passed its limit is not told apart from an older one.
Aged(age, late, limit) == IF age + late > limit THEN limit + 1 ELSE age + late

\* timer, late seconds after the last one: all timestamps of LoadScriptMgr are
\* old by now.
TimePasses(late) ==
    /\ pingAge' = Aged(pingAge, late, PingTimeout)
    /\ recent' = {}

\* A check that never gives up on the peer.
PingLostNever(late) == FALSE

PingLost(late) == Aged(pingAge, late, PingTimeout) > PingTimeout

\* checkPing finds the last answer too old.
TimerPingTimeout(late) ==
    /\ ~crashed /\ stat = "Working"
    /\ PingLost(late)
    /\ CloseContext(FALSE)
    /\ pingAge' = Aged(pingAge, late, PingTimeout)
    /\ sendAge' = Aged(sendAge, late, PingInterval)
    /\ checkAge' = Aged(checkAge, late, CheckInterval)
    /\ UNCHANGED <<queue, accepted, dropped>>

\* checkPing sends the next ping, if it is time.
TimerPing(late) ==
    LET age == Aged(sendAge, late, PingInterval)
        send == age > PingInterval
    IN  /\ ~crashed /\ stat = "Working"
        /\ ~PingLost(late)
        /\ send => Cardinality({i \in 1 .. Len(pending) : pending[i] = Ping}) < MaxPings
        /\ TimePasses(late)
        /\ pending' = IF send THEN Append(pending, Ping) ELSE pending
        /\ sendAge' = IF send THEN 0 ELSE age
        /\ checkAge' = Aged(checkAge, late, CheckInterval)
        /\ UNCHANGED <<stat, context, queue, sha1, history, crashed>>

\* A checkMaster that lets a connection wait for its authentication.
MayReconnectNull == stat = "NullStat"

MayReconnect == stat # "Working"

\* checkMaster: not working, and long enough since it last did something.
TimerReconnect(late, again) ==
    /\ ~crashed /\ MayReconnect
    /\ Aged(checkAge, late, CheckInterval) > CheckInterval
    /\ CloseContext(again)
    /\ pingAge' = Aged(pingAge, late, PingTimeout)
    /\ sendAge' = Aged(sendAge, late, PingInterval)
    /\ checkAge' = 0
    /\ UNCHANGED <<queue, accepted, dropped>>

TimerWait(late) ==
    /\ ~crashed /\ stat # "Working"
    /\ ~MayReconnect \/ Aged(checkAge, late, CheckInterval) <= CheckInterval
    /\ TimePasses(late)
    /\ sendAge' = Aged(sendAge, late, PingInterval)
    /\ checkAge' = Aged(checkAge, late, CheckInterval)
    /\ UNCHANGED <<stat, context, pending, queue, sha1, history, crashed>>

\* Executing what is queued without loading scripts.
TimerMsNoLoad ==
    /\ ~crashed /\ stat = "Working"
    /\ Len(pending) + Len(queue) <= MaxPending
    /\ pending' = pending \o queue
    /\ queue' = <<>>
    /\ UNCHANGED <<stat, context, sha1, recent, clock, history, crashed>>

\* timer_ms: load, then execute everything that is queued.  Execute succeeds,
\* as a context that works accepts every command.
TimerMs ==
    /\ ~crashed /\ stat = "Working"
    /\ Len(pending) + Len(queue) + Len(ToLoad) <= MaxPending
    /\ recent' = recent \cup {ToLoad[i] : i \in 1 .. Len(ToLoad)}
    /\ pending' = pending \o Loaded
    /\ queue' = <<>>
    /\ UNCHANGED <<stat, context, sha1, clock, history, crashed>>

\* 200 ms pass.
Elapse ==
    /\ ~crashed /\ recent # {}
    /\ recent' = {}
    /\ UNCHANGED <<stat, context, pending, queue, sha1, clock, history, crashed>>

Lates == 1 .. MaxLate

Timer ==
    \E late \in Lates :
        \/ TimerPingTimeout(late)
        \/ TimerPing(late)
        \/ TimerWait(late)
        \/ \E again \in BOOLEAN : TimerReconnect(late, again)

Next ==
    \/ \E r \in Requests : Send(r)
    \/ Connected \/ ConnectFailed \/ Disconnected
    \/ \E ok \in BOOLEAN : Reply(ok)
    \/ Timer \/ TimerMs \/ Elapse

Spec == Init /\ [][Next]_vars

\* The timers run.  A sentinel, a connection, an authentication and a script
\* that are tried again and again succeed in the end; redis owes no answer.
FairSpec ==
    /\ Spec
    /\ WF_vars(Timer) /\ SF_vars(TimerMs) /\ WF_vars(Elapse)
    /\ SF_vars(\E late \in Lates : TimerReconnect(late, TRUE))
    /\ SF_vars(Connected)
    /\ SF_vars(Reply(TRUE) /\ Head(pending) = Auth)
    /\ \A s \in Scripts : SF_vars(Reply(TRUE) /\ Head(pending) = ScriptLoad(s))

-----------------------------------------------------------------------------
\* _stat always tells the truth about _context, so that no command is given to
\* a context that is not there and the callbacks' assertions
\* c == mgr->_context hold; and a connection counts as working only while its
\* last sign of life is at most REDIS_PING_TIMEOUT old.
StatTellsContext ==
    /\ CASE stat = "NullStat" -> context = "null" /\ pending = <<>>
         [] stat = "WaitConn" -> context = "connecting" /\ pending = <<>>
         [] OTHER -> context = "connected"
    /\ stat = "Working" /\ ~crashed => pingAge <= PingTimeout

\* Requests are answered once each and in the order send() took them, with the
\* reply or with NULL: none is lost or answered twice between the queue, the
\* connection and its end, and the queue keeps its bound although load() sends
\* behind the callers' backs.
AnsweredInOrder ==
    /\ accepted = answered \o UsersOf(pending) \o UsersOf(queue)
    /\ Len(queue) <= QueueSize

\* A connection never relies on a script that only an earlier one has loaded,
\* perhaps into another master.
ScriptsAreCurrent == stat # "NullStat" => \A s \in Scripts : sha1[s] # "stale"

\* The end of a connection is survived: the reply of an internal command is not
\* dereferenced when it is NULL, which redisCommandCallback tests and logs.
NullReplySurvived == ~crashed

\* The client comes back to work, from whatever failed: the sentinels, the
\* connection or the authentication.
Recovers == []<>(stat = "Working" \/ crashed)

\* "Check periodically that the scripts are loaded, in case that failed while
\* connecting": a connection that keeps working has all scripts in the end,
\* also when the full queue dropped their requests.
ScriptsLoaded ==
    stat = "Working" ~> (stat # "Working" \/ crashed \/ \A s \in Scripts : sha1[s] = "current")

\* Whatever send() has put into the queue is answered.
AcceptedAnswered ==
    \A r \in Requests :
        (\E i \in 1 .. Len(accepted) : accepted[i] = r)
            ~> (crashed \/ \E i \in 1 .. Len(answered) : answered[i] = r)

=============================================================================
