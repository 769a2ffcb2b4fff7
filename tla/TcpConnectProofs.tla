-------------------------- MODULE TcpConnectProofs --------------------------
(* Proofs about TcpClient's part in connecting: what a stop() holds, that a *)
(* connection is the only one, and that no assertion fails.                *)
EXTENDS TcpClientProofs

\* After a stop that no restart has undone, connect_ of the Connector is off.
Held ==
    /\ timers \in Int
    /\ stopped /\ ~revived => ~connect

\* What a step may do to the Connector then: no timer more, no new attempt.
Calm == timers' <= timers /\ (cstate' = "connecting" => cstate = "connecting")

\* An attempt that starts while connect_ is off does nothing.
LEMMA StartCalm ==
  ASSUME ~connect, NEW n \in Int, StartInLoop(n)
  PROVE  timers' = n /\ cstate' = cstate
BY Zenon DEF StartInLoop

\* No handler, functor or timer of the Connector begins an attempt then.
LEMMA ConnectorCalm ==
  ASSUME Held, stopped, ~revived, ConnectorStep \/ ConnectorRestarted \/ ConnectionUnwanted
  PROVE  Calm
<1>1. timers \in Int /\ timers - 1 \in Int /\ ~connect
  BY DEF Held
<1>2. ASSUME StartFunctor \/ ConnectorRestarted PROVE Calm
  <2>1. StartInLoop(timers)
    BY <1>2, Zenon DEF StartFunctor, ConnectorRestarted, Restarted
  <2>2. QED
    BY <1>1, <2>1, StartCalm DEF Calm
<1>3. ASSUME RetryTimer PROVE Calm
  <2>1. StartInLoop(timers - 1)
    BY <1>3, Zenon DEF RetryTimer
  <2>2. timers' = timers - 1 /\ cstate' = cstate
    BY <1>1, <2>1, StartCalm, Zenon
  <2>3. QED
    BY <1>1, <2>2 DEF Calm
<1>4. ASSUME StopFunctor \/ ConnectFails PROVE Calm
  <2>1. timers' = timers /\ (cstate' = "disconnected" \/ cstate' = cstate)
    BY <1>1, <1>4, Zenon DEF StopFunctor, ConnectFails, RetryFrom
  <2>2. QED
    BY <1>1, <2>1 DEF Calm
<1>5. ASSUME ResetChannel \/ ConnectionUnwanted PROVE Calm
  <2>1. timers' = timers /\ (cstate' = "connected" \/ cstate' = cstate)
    BY <1>5, Zenon DEF ResetChannel, ConnectionUnwanted, ConnectSucceeds
  <2>2. QED
    BY <1>1, <2>1 DEF Calm
<1>6. QED
  BY <1>2, <1>3, <1>4, <1>5, Zenon DEF ConnectorStep

\* A connection is made by newConnection only: all other steps that set the
\* state of one find it made.
LEMMA OthersMakeNone ==
  ASSUME Inv, Next, ~NewConnection
  PROVE  \A b \in Conns : Exists(b)' <=> Exists(b)
<1> USE DEF Exists
<1>0. state \in [Conns -> States] /\ Busy /\ ConnInv
  BY Zenon DEF Inv, Types
<1>1. ASSUME NEW c \in Conns, NEW s \in States \ {"none"}, Exists(c), state' = [state EXCEPT ![c] = s]
      PROVE  \A b \in Conns : Exists(b)' <=> Exists(b)
  BY <1>0, <1>1, Zenon
<1>2. CASE LoopStep \/ ConnectorStep \/ ClientStep \/ Stop
  <2>1. state' = state
    BY <1>2, Zenon DEF LoopStep, ConnectorStep, ClientStep, ConnectionUnwanted, RemoveConnection, RestartConnector,
                ConnectorRestarted, Stop, connVars
  <2>2. QED
    BY <2>1, Zenon
<1>3. ASSUME NEW c \in Conns, Functors(c) PROVE \A b \in Conns : Exists(b)' <=> Exists(b)
  <2>1. \/ state' = state
        \/ Exists(c) /\ state' = [state EXCEPT ![c] = "disconnected"]
    BY <1>3, Zenon DEF Functors, SendFunctor, ShutdownFunctor, ForceCloseFunctor, ConnectDestroyed, connVars,
                StillOpen, Open, HandleClose
  <2>2. QED
    BY <1>1, <2>1, Zenon DEF States
<1>4. ASSUME NEW c \in Conns, Handlers(c) PROVE \A b \in Conns : Exists(b)' <=> Exists(b)
  <2>1. CASE HandleRead(c)
    <3>1. <<c, "close">> \in seen /\ state' = [state EXCEPT ![c] = "disconnected"]
      BY <2>1, Zenon DEF HandleRead, Handles, HandleClose
    <3>2. Exists(c)
      BY <1>0, <3>1, Zenon DEF ConnInv, Down
    <3>3. QED
      BY <1>1, <3>1, <3>2, Zenon DEF States
  <2>2. CASE HandleWrite(c) \/ DelayTimer(c)
    <3>1. \/ state' = state
          \/ Exists(c) /\ state' = [state EXCEPT ![c] = "disconnecting"]
      BY <2>2, Zenon DEF HandleWrite, DelayTimer, Open
    <3>2. QED
      BY <1>1, <3>1, Zenon DEF States
  <2>3. QED
    BY <1>4, <2>1, <2>2, Zenon DEF Handlers
<1>5. ASSUME NEW c \in Conns, LoopShutdown(c) \/ Callbacks(c) PROVE \A b \in Conns : Exists(b)' <=> Exists(b)
  <2>1. \/ state' = state
        \/ Exists(c) /\ state' = [state EXCEPT ![c] = "disconnecting"]
    BY <1>5, Zenon DEF Callbacks, LoopSend, LoopShutdown, LoopForceClose, LoopForceCloseWithDelay, Open
  <2>2. QED
    BY <1>1, <2>1, Zenon DEF States
<1>6. CASE LoopDisconnect
  <2>1. state' = state \/ (conn \in Conns /\ LoopShutdown(conn))
    BY <1>0, <1>6, Zenon DEF LoopDisconnect, Busy
  <2>2. QED
    BY <1>5, <2>1, Zenon
<1>7. ASSUME NEW t \in Threads, Return(t) PROVE \A b \in Conns : Exists(b)' <=> Exists(b)
  <2>1. /\ tpc[t].conn # 0
        /\ state' = state \/ state' = [state EXCEPT ![tpc[t].conn] = "disconnecting"]
    BY <1>7, Zenon DEF Return, Act
  <2>2. tpc[t].conn \in Conns /\ Exists(tpc[t].conn)
    BY <1>0, <2>1, Zenon DEF Busy
  <2>3. QED
    BY <1>1, <2>1, <2>2, Zenon DEF States
<1>8. ASSUME NEW t \in Threads, NEW op, NEW c, Disconnect(t) \/ DisconnectLocked(t) \/ Call(t, op, c)
      PROVE  state' = state
  BY <1>8, Zenon DEF Disconnect, DisconnectLocked, Call, Test
<1>9. QED
  BY <1>2, <1>3, <1>4, <1>5, <1>6, <1>7, <1>8, Zenon DEF Next

\* The number of timers stays one.
LEMMA StartCounts == ASSUME NEW n \in Int, StartInLoop(n) PROVE timers' \in Int
<1>1. n + 1 \in Int
  OBVIOUS
<1>2. timers' \in {n, n + 1}
  BY Zenon DEF StartInLoop, Attempt, RetryFrom
<1>3. QED
  BY <1>1, <1>2, Zenon

\* Only stop, which turns connect_ off, and restart, which is remembered, set
\* connect_; the Connector reads it.
LEMMA HeldStep == Held /\ [Next]_vars => Held'
<1> SUFFICES ASSUME Held, [Next]_vars PROVE Held'
  BY Zenon
<1>0. timers \in Int /\ timers - 1 \in Int /\ timers + 1 \in Int
  BY DEF Held
<1>1. ASSUME timers' \in Int, UNCHANGED <<connect, stopped, revived>> PROVE Held'
  BY <1>1, Zenon DEF Held
<1>2. ASSUME UNCHANGED <<timers, connect, stopped, revived>> PROVE Held'
  BY <1>0, <1>1, <1>2, Zenon
<1>3. CASE ConnectorStep \/ ConnectorRestarted
  <2>1. UNCHANGED <<connect, stopped, revived>>
    BY <1>3, Zenon DEF ConnectorStep, ConnectorRestarted, Restarted, StartFunctor, RetryTimer, StopFunctor,
                ResetChannel, ConnectFails, StartInLoop, clientVars
  <2>2. \/ \E n \in {timers, timers - 1} : StartInLoop(n)
        \/ timers' \in {timers, timers + 1}
    BY <1>3, Zenon DEF ConnectorStep, ConnectorRestarted, Restarted, StartFunctor, RetryTimer, StopFunctor,
                ResetChannel, ConnectFails, RetryFrom
  <2>3. timers' \in Int
    BY <1>0, <2>2, StartCounts, Zenon
  <2>4. QED
    BY <1>1, <2>1, <2>3, Zenon
<1>4. CASE NewConnection \/ ConnectionUnwanted \/ RemoveConnection
  <2>1. UNCHANGED <<timers, connect, stopped, revived>>
    BY <1>4, Zenon DEF NewConnection, ConnectionUnwanted, RemoveConnection, ConnectSucceeds, connectorVars, clientVars
  <2>2. QED
    BY <1>2, <2>1, Zenon
<1>5. CASE RestartConnector
  <2>1. timers' = timers /\ stopped' = stopped /\ revived' = (revived \/ stopped)
    BY <1>5, Zenon DEF RestartConnector, Restart
  <2>2. QED
    BY <1>0, <2>1, Zenon DEF Held
<1>6. CASE Stop
  <2>1. timers' = timers /\ connect' = FALSE
    BY <1>6, Zenon DEF Stop
  <2>2. QED
    BY <1>0, <2>1, Zenon DEF Held
<1>7. ASSUME NEW c \in Conns, Functors(c) \/ Handlers(c) \/ Callbacks(c) PROVE Held'
  BY <1>2, <1>7, Zenon DEF Functors, Handlers, Callbacks, connectorVars, clientVars
<1>8. ASSUME NEW t \in Threads, NEW op, NEW c,
             Disconnect(t) \/ DisconnectLocked(t) \/ Return(t) \/ Call(t, op, c)
      PROVE  Held'
  BY <1>2, <1>8, Zenon DEF Disconnect, DisconnectLocked, Return, Call, connectorVars, clientVars
<1>9. CASE LoopStep \/ LoopDisconnect \/ UNCHANGED vars
  BY <1>2, <1>9, Zenon DEF LoopStep, LoopDisconnect, vars, connectorVars, clientVars
<1>10. QED
  BY <1>3, <1>4, <1>5, <1>6, <1>7, <1>8, <1>9, Zenon DEF Next, ClientStep

\* A step after a stop that is not undone makes no connection, sets no timer
\* and begins no attempt.
LEMMA CalmStep ==
  ASSUME Inv, Held, Next, stopped, ~revived'
  PROVE  Made' = Made /\ Calm
<1>1. ASSUME UNCHANGED <<timers, cstate>> PROVE Calm
  BY <1>1 DEF Held, Calm
<1>2. ~RestartConnector
  <2>1. RestartConnector => revived' = (revived \/ stopped)
    BY Zenon DEF RestartConnector
  <2>2. QED
    BY <2>1, Zenon
<1>3. ~revived
  <2>1. revived' = revived
    BY <1>2, Zenon DEF Next, LoopStep, ConnectorStep, ClientStep, NewConnection, ConnectionUnwanted, RemoveConnection,
                ConnectorRestarted, Functors, Handlers, Callbacks, Stop, LoopDisconnect, Disconnect,
                DisconnectLocked, Return, Call, clientVars
  <2>2. QED
    BY <2>1, Zenon
<1>4. ~NewConnection
  BY <1>3, Zenon DEF Held, NewConnection, Wanted
<1>5. Made' = Made
  <2>1. {c \in Conns : state'[c] # "none"} = {c \in Conns : state[c] # "none"}
    BY <1>4, OthersMakeNone, Zenon DEF Exists
  <2>2. QED
    BY <2>1, Zenon DEF Made
<1>6. CASE ConnectorStep \/ ConnectorRestarted \/ ConnectionUnwanted
  BY <1>3, <1>5, <1>6, ConnectorCalm, Zenon
<1>7. CASE LoopStep \/ RemoveConnection \/ Stop \/ LoopDisconnect
  BY <1>1, <1>5, <1>7, Zenon DEF LoopStep, RemoveConnection, Stop, LoopDisconnect, connectorVars
<1>8. ASSUME NEW c \in Conns, Functors(c) \/ Handlers(c) \/ Callbacks(c) PROVE Calm
  BY <1>1, <1>8, Zenon DEF Functors, Handlers, Callbacks, connectorVars
<1>9. ASSUME NEW t \in Threads, NEW op, NEW c,
             Disconnect(t) \/ DisconnectLocked(t) \/ Return(t) \/ Call(t, op, c)
      PROVE  Calm
  BY <1>1, <1>9, Zenon DEF Disconnect, DisconnectLocked, Return, Call, connectorVars
<1>10. QED
  BY <1>2, <1>4, <1>5, <1>6, <1>7, <1>8, <1>9, Zenon DEF Next, ClientStep

\* After TcpClient::stop the Connector begins no attempt, sets no retry timer
\* and makes no connection, although stop cancels no timer and leaves a socket
\* that is about to be writable to the loop: startInLoop, retry and handleWrite
\* each test connect_ again.  Only a restart under way undoes it.
THEOREM StopHolds == Spec => StopSticks
<1>1. Init => Inv /\ Held
  BY InvInit DEF Init, ConnectorInit, Held
<1>2. Inv /\ Held /\ [Next]_vars => (Inv /\ Held)'
  BY InvStep, HeldStep, Zenon
<1>3. Inv /\ Held /\ [Next]_vars =>
        [stopped /\ ~revived' =>
            /\ Made' = Made
            /\ timers' <= timers
            /\ cstate' = "connecting" => cstate = "connecting"]_vars
  BY CalmStep, Zenon DEF Calm
<1>4. QED
  BY <1>1, <1>2, <1>3, PTL DEF Spec, StopSticks

-----------------------------------------------------------------------------
\* startInLoop is queued once, by connect(), before anything else.
First ==
    /\ \A i \in 1 .. Len(pending) : pending[i].op = "start" => i = 1
    /\ \A t \in Threads : tpc[t].op # "start"

Waits == Len(pending) > 0 /\ pending[1].op = "start"

Free == timers = 0 /\ conn = 0 /\ cstate # "connecting"
Starting == {"restart", "startInLoop"}

\* One of timer, attempt and connection at a time; none of them when an attempt
\* is about to start because of connect() or restart(), and the timer when it
\* has expired.
Lone ==
    /\ timers \in 0 .. 1
    /\ chan = "on" => cstate = "connecting"
    /\ timers = 1 => cstate # "connecting" /\ conn = 0
    /\ cstate = "connecting" => conn = 0
    /\ rest.do \in Starting => Free
    /\ rest.do = "closeCallback" => rest.conn # 0
    /\ <<0, "retry">> \in seen => timers = 1
    /\ Waits => Free /\ rest.do \notin Starting

\* A functor other than startInLoop is queued, or none.
LEMMA QueueFirst ==
  ASSUME Sends, First, NEW f \in Queued, f.op # "start",
         pending' \in {pending, Append(pending, f), pending \o <<f>>}
  PROVE  (\A i \in 1 .. Len(pending') : pending'[i].op = "start" => i = 1) /\ (Waits' => Waits)
<1> DEFINE n == Len(pending)
<1>1. n \in Nat /\ pending \in Seq(Queued) /\ pending \o <<f>> = Append(pending, f)
  BY DEF Sends
<1>2. CASE pending' = pending
  BY <1>2, Zenon DEF First, Waits
<1>3. CASE pending' = Append(pending, f)
  <2>1. /\ Len(pending') = n + 1 /\ pending'[n + 1] = f
        /\ \A i \in 1 .. n : pending'[i] = pending[i]
        /\ \A i \in 1 .. n + 1 : i \in 1 .. n \/ i = n + 1
        /\ n > 0 => 1 \in 1 .. n
        /\ ~(n > 0) => n + 1 = 1
    BY <1>1, <1>3
  <2>2. QED
    BY <2>1, Zenon DEF First, Waits
<1>4. QED
  BY <1>1, <1>2, <1>3, Zenon

\* A functor is called: the one that starts can only have been the first.
LEMMA CallsFirst ==
  ASSUME Sends, First, NEW op, NEW more, Calls(op, more),
         more = <<>> \/ \E f \in Queued : more = <<f>> /\ f.op # "start"
  PROVE  /\ \A i \in 1 .. Len(pending') : pending'[i].op = "start" => i = 1
         /\ ~Waits'
         /\ op = "start" => Waits
<1> DEFINE n == Len(pending)
           q == Tail(pending)
<1>1. batch > 0 /\ pending' = q \o more /\ Head(pending).op = op
  BY Zenon DEF Calls
<1>2. n \in Nat /\ n >= 1 /\ pending \in Seq(Queued) /\ Head(pending) = pending[1]
  BY <1>1 DEF Sends
<1>3. /\ q \in Seq(Queued) /\ Len(q) = n - 1
      /\ \A i \in 1 .. n - 1 : i + 1 \in 1 .. n /\ i + 1 # 1 /\ q[i] = pending[i + 1]
  BY <1>2
<1>4. \A i \in 1 .. n - 1 : q[i].op # "start"
  BY <1>3, Zenon DEF First
<1> HIDE DEF q
<1>5. \A i \in 1 .. Len(pending') : pending'[i].op # "start"
  <2>1. CASE more = <<>>
    <3>1. pending' = q
      BY <1>1, <1>3, <2>1
    <3>2. QED
      BY <1>3, <1>4, <3>1, Zenon
  <2>2. CASE \E f \in Queued : more = <<f>> /\ f.op # "start"
    <3>1. PICK f \in Queued : more = <<f>> /\ f.op # "start"
      BY <2>2, Zenon
    <3>2. /\ Len(pending') = n /\ pending'[n] = f
          /\ \A i \in 1 .. n - 1 : pending'[i] = q[i]
          /\ \A i \in 1 .. n : i \in 1 .. n - 1 \/ i = n
      BY <1>1, <1>2, <1>3, <3>1
    <3>3. QED
      BY <1>4, <3>1, <3>2, Zenon
  <2>3. QED
    BY <2>1, <2>2, Zenon
<1>6. ~Waits'
  <2>1. Len(pending') \in Nat
    BY <1>1, <1>3
  <2>2. Len(pending') > 0 => 1 \in 1 .. Len(pending')
    BY <2>1
  <2>3. QED
    BY <1>5, <2>2, Zenon DEF Waits
<1>7. op = "start" => Waits
  BY <1>1, <1>2 DEF Waits
<1>8. QED
  BY <1>5, <1>6, <1>7, Zenon

\* Steps that leave the Connector and connection_ alone.
LEMMA LoneSame ==
  ASSUME Lone, UNCHANGED <<timers, chan, cstate, conn>>, Waits' => Waits,
         <<0, "retry">> \in seen' => <<0, "retry">> \in seen \/ timers > 0,
         \/ rest' = rest
         \/ rest'.do \in {"nothing", "abort"}
         \/ rest'.do = "closeCallback" /\ rest'.conn # 0
  PROVE  Lone'
<1>1. timers > 0 => timers = 1
  BY DEF Lone
<1>2. Free' <=> Free
  BY Zenon DEF Free
<1>3. /\ rest'.do \in Starting => rest.do \in Starting /\ rest' = rest
      /\ rest'.do = "closeCallback" => rest'.conn # 0
  BY Zenon DEF Starting, Lone
<1>4. Waits' => rest'.do \notin Starting
  BY <1>3, Zenon DEF Lone
<1>5. QED
  BY <1>1, <1>2, <1>3, <1>4, Zenon DEF Lone

\* startInLoop, when no timer is left and there is no connection.
LEMMA StartLone ==
  ASSUME Lone, cstate # "connecting", conn = 0, conn' = 0, StartInLoop(0), ~Waits',
         <<0, "retry">> \notin seen'
  PROVE  Lone'
<1>1. \/ timers' = 0 /\ chan' = "on" /\ cstate' = "connecting"
      \/ timers' \in {0, 1} /\ chan' = chan /\ cstate' \in {"disconnected", cstate}
  BY DEF StartInLoop, Attempt, RetryFrom
<1>2. rest'.do \in {"nothing", "abort"}
  BY Zenon DEF StartInLoop, Idle, Abort
<1>3. rest'.do \notin Starting /\ rest'.do # "closeCallback"
  BY <1>2, Zenon DEF Starting
<1>4. chan # "on"
  BY Zenon DEF Lone
<1>5. QED
  BY <1>1, <1>3, <1>4 DEF Lone

\* The loop polls and takes the functors.
LEMMA LoopLone == Inv /\ First /\ Lone /\ LoopStep => First' /\ Lone'
<1> SUFFICES ASSUME Inv, First, Lone, LoopStep PROVE First' /\ Lone'
  BY Zenon
<1>1. UNCHANGED <<timers, chan, cstate, conn, rest, pending, tpc>>
  BY Zenon DEF LoopStep, Poll, SwapFunctors, connVars, connectorVars, clientVars
<1>2. First' /\ (Waits' => Waits)
  BY <1>1, Zenon DEF First, Waits
<1>3. <<0, "retry">> \in seen' => timers > 0
  <2>1. <<0, "retry">> \in Sources => timers > 0
    BY Records, Zenon DEF Sources, ConnSources
  <2>2. seen' = {} \/ seen' = Sources
    BY Zenon DEF LoopStep, Poll, SwapFunctors
  <2>3. QED
    BY <2>1, <2>2, Zenon
<1>4. QED
  BY <1>1, <1>2, <1>3, LoneSame, Zenon

\* The Connector's handlers and functors.
LEMMA ConnectorLone == Inv /\ First /\ Lone /\ ConnectorStep => First' /\ Lone'
<1> SUFFICES ASSUME Inv, First, Lone, ConnectorStep PROVE First' /\ Lone'
  BY Zenon
<1>0. Sends /\ ConnInv /\ conn' = conn /\ tpc' = tpc
  BY Zenon DEF Inv, ConnectorStep, connVars, clientVars
<1>1. ASSUME \A i \in 1 .. Len(pending') : pending'[i].op = "start" => i = 1 PROVE First'
  BY <1>0, <1>1, Zenon DEF First
<1>2. CASE StartFunctor
  <2>1. Calls("start", <<>>) /\ StartInLoop(timers)
    BY <1>2, Zenon DEF StartFunctor
  <2>2. First' /\ ~Waits' /\ Waits
    BY <1>0, <1>1, <2>1, CallsFirst, Zenon
  <2>3. timers = 0 /\ conn = 0 /\ cstate # "connecting"
    BY <2>2, Zenon DEF Lone, Free
  <2>4. <<0, "retry">> \notin seen'
    BY <1>0, <2>1, Zenon DEF Calls, ConnInv
  <2>5. QED
    BY <1>0, <2>1, <2>2, <2>3, <2>4, StartLone, Zenon
<1>3. CASE RetryTimer
  <2>1. Handles(<<0, "retry">>) /\ StartInLoop(timers - 1) /\ pending' = pending
    BY <1>3, Zenon DEF RetryTimer
  <2>2. <<0, "retry">> \in seen /\ <<0, "retry">> \notin seen'
    BY <2>1, Zenon DEF Handles
  <2>3. timers = 1 /\ timers - 1 = 0 /\ conn = 0 /\ cstate # "connecting" /\ ~Waits
    BY <2>2 DEF Lone, Free
  <2>4. First' /\ ~Waits'
    BY <1>0, <2>1, <2>3, Zenon DEF First, Waits
  <2>5. StartInLoop(0)
    BY <2>1, <2>3, Zenon
  <2>6. QED
    BY <1>0, <2>2, <2>3, <2>4, <2>5, StartLone, Zenon
<1>4. CASE StopFunctor
  <2> DEFINE more == IF cstate = "connecting" THEN RemoveAndResetChannel ELSE <<>>
  <2>1. /\ Calls("stop", more) /\ rest' = rest
        /\ IF cstate = "connecting" THEN chan' = "off" /\ RetryFrom(timers) ELSE UNCHANGED <<chan, cstate, timers>>
    BY <1>4, Zenon DEF StopFunctor
  <2>2. more = <<>> \/ \E f \in Queued : more = <<f>> /\ f.op # "start"
    BY Records, Zenon DEF RemoveAndResetChannel
  <2> HIDE DEF more
  <2>3. First' /\ ~Waits'
    BY <1>0, <1>1, <2>1, <2>2, CallsFirst, Zenon
  <2>4. <<0, "retry">> \notin seen' /\ rest = Idle
    BY <1>0, <2>1, Zenon DEF Calls, ConnInv
  <2>5. CASE cstate = "connecting"
    <3>1. chan' = "off" /\ cstate' = "disconnected" /\ timers' \in 0 .. 1 /\ conn' = 0
      BY <1>0, <2>1, <2>5 DEF RetryFrom, Lone
    <3>2. QED
      BY <2>1, <2>3, <2>4, <3>1, Zenon DEF Lone, Idle, Starting
  <2>6. CASE cstate # "connecting"
    BY <1>0, <2>1, <2>3, <2>4, <2>6, LoneSame, Zenon
  <2>7. QED
    BY <2>5, <2>6, Zenon
<1>5. CASE ResetChannel
  <2>1. Calls("resetChannel", <<>>) /\ rest' = rest /\ chan' = "none" /\ UNCHANGED <<cstate, timers>>
    BY <1>5, Zenon DEF ResetChannel
  <2>2. First' /\ ~Waits'
    BY <1>0, <1>1, <2>1, CallsFirst, Zenon
  <2>3. <<0, "retry">> \notin seen' /\ rest = Idle
    BY <1>0, <2>1, Zenon DEF Calls, ConnInv
  <2>4. QED
    BY <1>0, <2>1, <2>2, <2>3, Zenon DEF Lone, Idle, Starting
<1>6. CASE ConnectFails
  <2>1. /\ Handles(<<0, "connect">>) /\ cstate = "connecting" /\ rest' = rest /\ chan' = "off"
        /\ RetryFrom(timers) /\ pending' = pending \o <<ResetChannelFunctor>>
    BY <1>6, Zenon DEF ConnectFails, RemoveAndResetChannel
  <2>2. First' /\ (Waits' => Waits)
    BY <1>0, <1>1, <2>1, Records, QueueFirst, Zenon
  <2>3. timers = 0 /\ conn' = 0 /\ ~Waits' /\ <<0, "retry">> \notin seen
    BY <1>0, <2>1, <2>2 DEF Lone, Free
  <2>4. cstate' = "disconnected" /\ timers' \in 0 .. 1 /\ seen' \subseteq seen /\ rest = Idle
    BY <2>1, <2>3 DEF RetryFrom, Handles
  <2>5. QED
    BY <2>1, <2>2, <2>3, <2>4, Zenon DEF Lone, Idle, Starting
<1>7. QED
  BY <1>2, <1>3, <1>4, <1>5, <1>6, Zenon DEF ConnectorStep

\* A connection takes the place of its attempt, and a restart that of the
\* connection.
LEMMA ClientLone == Inv /\ First /\ Lone /\ ClientStep => First' /\ Lone'
<1> SUFFICES ASSUME Inv, First, Lone, ClientStep PROVE First' /\ Lone'
  BY Zenon
<1>0. Sends /\ Types
  BY Zenon DEF Inv
<1>1. ASSUME tpc' = tpc, \A i \in 1 .. Len(pending') : pending'[i].op = "start" => i = 1 PROVE First'
  BY <1>1, Zenon DEF First
<1>2. CASE NewConnection \/ ConnectionUnwanted
  <2>1. /\ Handles(<<0, "connect">>) /\ cstate = "connecting" /\ rest' = rest /\ chan' = "off"
        /\ cstate' = "connected" /\ timers' = timers /\ pending' = pending \o <<ResetChannelFunctor>>
        /\ tpc' = tpc
    BY <1>2, Zenon DEF NewConnection, ConnectionUnwanted, ConnectSucceeds, RemoveAndResetChannel, ConnectEstablished,
                connVars
  <2>2. First' /\ (Waits' => Waits)
    BY <1>0, <1>1, <2>1, Records, QueueFirst, Zenon
  <2>3. timers' = 0 /\ ~Waits' /\ <<0, "retry">> \notin seen
    BY <2>1, <2>2 DEF Lone, Free
  <2>4. seen' \subseteq seen /\ rest = Idle
    BY <2>1, Zenon DEF Handles
  <2>5. QED
    BY <2>1, <2>2, <2>3, <2>4, Zenon DEF Lone, Idle, Starting
<1>3. CASE RemoveConnection
  <2>1. /\ rest.do = "closeCallback" /\ conn' = 0 /\ UNCHANGED <<timers, chan, cstate, seen, tpc>>
        /\ pending' = Append(pending, Functor("connectDestroyed", rest.conn))
        /\ rest' = IF conn # rest.conn THEN Abort
                   ELSE IF Reconnects THEN [Idle EXCEPT !.do = "restart"] ELSE Idle
    BY <1>3, Zenon DEF RemoveConnection, connVars, connectorVars
  <2>2. rest.conn \in Nat /\ rest.conn # 0
    BY <1>0, <2>1, Zenon DEF Types, Rests, Lone
  <2>3. Functor("connectDestroyed", rest.conn) \in Queued /\ Functor("connectDestroyed", rest.conn).op # "start"
    BY <2>2, Records, Zenon DEF Ops
  <2>4. First' /\ (Waits' => Waits)
    BY <1>0, <1>1, <2>1, <2>3, QueueFirst, Zenon
  <2>5. rest'.do \in {"nothing", "abort"} \/ (rest'.do = "restart" /\ conn = rest.conn)
    BY <2>1, Zenon DEF Idle, Abort
  <2>6. conn # 0 => timers = 0 /\ cstate # "connecting"
    BY DEF Lone
  <2>7. rest'.do \in Starting => timers' = 0 /\ cstate' # "connecting" /\ ~Waits'
    BY <2>1, <2>2, <2>4, <2>5, <2>6, Zenon DEF Lone, Free, Starting
  <2>8. rest'.do # "closeCallback"
    BY <2>5, Zenon
  <2>9. Waits' => timers' = 0 /\ cstate' # "connecting" /\ rest'.do \notin Starting
    BY <2>1, <2>4, <2>7, Zenon DEF Lone, Free
  <2>10. Lone'
    BY <2>1, <2>7, <2>8, <2>9, Zenon DEF Lone, Free
  <2>11. QED
    BY <2>4, <2>10, Zenon
<1>4. CASE RestartConnector
  <2>1. /\ rest.do = "restart" /\ cstate' = "disconnected" /\ rest' = [Idle EXCEPT !.do = "startInLoop"]
        /\ UNCHANGED <<chan, timers, conn, seen, pending, tpc>>
    BY <1>4, Zenon DEF RestartConnector, Restart, connVars
  <2>2. Free /\ ~Waits /\ chan # "on"
    BY <2>1, Zenon DEF Lone, Starting, Free
  <2>3. First' /\ ~Waits'
    BY <2>1, <2>2, Zenon DEF First, Waits
  <2>4. rest'.do = "startInLoop"
    BY <2>1, Zenon DEF Idle
  <2>5. QED
    BY <2>1, <2>2, <2>3, <2>4, Zenon DEF Lone, Free
<1>5. CASE ConnectorRestarted
  <2>1. rest.do = "startInLoop" /\ StartInLoop(timers) /\ UNCHANGED <<conn, seen, pending, tpc>>
    BY <1>5, Zenon DEF ConnectorRestarted, Restarted, connVars, clientVars
  <2>2. timers = 0 /\ conn = 0 /\ cstate # "connecting" /\ ~Waits /\ <<0, "retry">> \notin seen
    BY <2>1 DEF Lone, Starting, Free
  <2>3. First' /\ ~Waits'
    BY <2>1, <2>2, Zenon DEF First, Waits
  <2>4. QED
    BY <2>1, <2>2, <2>3, StartLone, Zenon
<1>6. QED
  BY <1>2, <1>3, <1>4, <1>5, Zenon DEF ClientStep

\* Functors and handlers of a connection; a close leaves removeConnection to do.
LEMMA ConnLone ==
  ASSUME NEW c \in Conns
  PROVE  Inv /\ First /\ Lone /\ (Functors(c) \/ Handlers(c)) => First' /\ Lone'
<1> SUFFICES ASSUME Inv, First, Lone, Functors(c) \/ Handlers(c) PROVE First' /\ Lone'
  BY Zenon
<1>0. Sends /\ c # 0 /\ c \in Nat
  BY Records, Zenon DEF Inv
<1>1. UNCHANGED <<timers, chan, cstate, conn, tpc>>
  BY Zenon DEF Functors, Handlers, connectorVars, clientVars, connVars, SendFunctor, ShutdownFunctor,
         ForceCloseFunctor, ConnectDestroyed, HandleRead, HandleWrite, DelayTimer
<1>2. \/ rest' = rest
      \/ rest'.do \in {"nothing", "abort"}
      \/ rest'.do = "closeCallback" /\ rest'.conn # 0
  BY <1>0 DEF Functors, Handlers, SendFunctor, ShutdownFunctor, ForceCloseFunctor, ConnectDestroyed,
              HandleRead, HandleWrite, DelayTimer, HandleClose, Idle, Abort
<1>3. seen' \subseteq seen
  BY Zenon DEF Functors, Handlers, SendFunctor, ShutdownFunctor, ForceCloseFunctor, ConnectDestroyed,
         HandleRead, HandleWrite, DelayTimer, Calls, Handles
<1>4. (\A i \in 1 .. Len(pending') : pending'[i].op = "start" => i = 1) /\ (Waits' => Waits)
  <2>1. CASE Functors(c)
    <3>1. \E op \in Ops : Calls(op, <<>>)
      BY <2>1, Zenon DEF Functors, SendFunctor, ShutdownFunctor, ForceCloseFunctor, ConnectDestroyed, Ops
    <3>2. QED
      BY <1>0, <3>1, CallsFirst, Zenon
  <2>2. CASE Handlers(c)
    <3>1. pending' \in {pending, Append(pending, Functor("forceClose", c))}
      BY <2>2, Zenon DEF Handlers, HandleRead, HandleWrite, DelayTimer
    <3>2. Functor("forceClose", c) \in Queued /\ Functor("forceClose", c).op # "start"
      BY <1>0, Records, Zenon DEF Ops
    <3>3. QED
      BY <1>0, <3>1, <3>2, QueueFirst, Zenon
  <2>3. QED
    BY <2>1, <2>2, Zenon
<1>5. QED
  BY <1>1, <1>2, <1>3, <1>4, LoneSame, Zenon DEF First

\* Calls from callbacks and from other threads queue functors other than
\* startInLoop.
LEMMA CallsLone ==
  ASSUME Inv, First, Lone, NEW f \in Queued, f.op # "start",
         pending' \in {pending, Append(pending, f), pending \o <<f>>},
         UNCHANGED <<timers, chan, cstate, conn, rest, seen>>,
         \A t \in Threads : tpc'[t].op # "start"
  PROVE  First' /\ Lone'
<1>1. (\A i \in 1 .. Len(pending') : pending'[i].op = "start" => i = 1) /\ (Waits' => Waits)
  BY QueueFirst, Zenon DEF Inv
<1>2. Lone'
  BY <1>1, LoneSame, Zenon
<1>3. QED
  BY <1>1, <1>2, Zenon DEF First

\* Callbacks and stop.
LEMMA UserLone ==
  ASSUME Inv, First, Lone, Stop \/ LoopDisconnect \/ \E c \in Conns : Callbacks(c)
  PROVE  First' /\ Lone'
<1>1. UNCHANGED <<timers, chan, cstate, conn, rest, seen, tpc>>
  BY Zenon DEF Stop, LoopDisconnect, Callbacks, InLoop, LoopSend, LoopShutdown, LoopForceClose,
         LoopForceCloseWithDelay, connectorVars, clientVars
<1>2. \A t \in Threads : tpc'[t].op # "start"
  BY <1>1, Zenon DEF First
<1>3. \/ pending' = pending
      \/ pending' = Append(pending, Functor("stop", 0))
      \/ \E c \in Conns : pending' = Append(pending, Functor("forceClose", c))
  BY Zenon DEF Stop, LoopDisconnect, Callbacks, LoopSend, LoopShutdown, LoopForceClose, LoopForceCloseWithDelay
<1>4. /\ Functor("stop", 0) \in Queued /\ Functor("stop", 0).op # "start"
      /\ \A c \in Conns : Functor("forceClose", c) \in Queued /\ Functor("forceClose", c).op # "start"
  BY Records DEF Ops
<1>5. QED
  BY <1>1, <1>2, <1>3, <1>4, CallsLone, Zenon

\* Other threads.
LEMMA ThreadLone ==
  ASSUME Inv, First, Lone, NEW t \in Threads, NEW op \in {"send", "shutdown", "forceClose"}, NEW c,
         Disconnect(t) \/ DisconnectLocked(t) \/ Return(t) \/ Call(t, op, c)
  PROVE  First' /\ Lone'
<1>1. UNCHANGED <<timers, chan, cstate, conn, rest, seen>>
  BY Zenon DEF Disconnect, DisconnectLocked, Return, Call, netVars, connectorVars, clientVars
<1>2. tpc \in [Threads -> Queued]
  BY Zenon DEF Inv, Types
<1>3. \E call : tpc' = [tpc EXCEPT ![t] = call] /\ call.op # "start"
  <2>1. NoCall.op # "start" /\ [NoCall EXCEPT !.op = "disconnect"].op # "start"
    BY Zenon DEF NoCall
  <2>2. CASE Disconnect(t)
    <3>1. tpc[t] = NoCall /\ tpc' = [tpc EXCEPT ![t].op = "disconnect"]
      BY <2>2, Zenon DEF Disconnect
    <3>2. tpc' = [tpc EXCEPT ![t] = [NoCall EXCEPT !.op = "disconnect"]]
      BY <3>1, Zenon
    <3>3. QED
      BY <2>1, <3>2, Zenon
  <2>3. CASE DisconnectLocked(t)
    <3> DEFINE new == IF conn # 0 /\ state[conn] = "connected"
                      THEN [op |-> "shutdown", conn |-> conn, msg |-> 0]
                      ELSE NoCall
    <3>1. tpc' = [tpc EXCEPT ![t] = new]
      BY <2>3, Zenon DEF DisconnectLocked
    <3>2. new.op # "start"
      BY <2>1, Zenon
    <3> HIDE DEF new
    <3>3. QED
      BY <3>1, <3>2, Zenon
  <2>4. CASE Return(t)
    BY <2>1, <2>4, Zenon DEF Return, Act
  <2>5. CASE Call(t, op, c)
    <3> DEFINE new == [op |-> op, conn |-> c, msg |-> calls']
    <3>1. tpc' = [tpc EXCEPT ![t] = new]
      BY <2>5, Zenon DEF Call, Test
    <3>2. new.op # "start"
      BY Zenon
    <3> HIDE DEF new
    <3>3. QED
      BY <3>1, <3>2, Zenon
  <2>6. QED
    BY <2>2, <2>3, <2>4, <2>5, Zenon
<1>4. \A u \in Threads : tpc'[u].op # "start"
  BY <1>2, <1>3, Zenon DEF First
<1>5. pending' \in {pending, Append(pending, tpc[t])}
  BY Zenon DEF Disconnect, DisconnectLocked, Return, Act, Call, netVars
<1>6. tpc[t] \in Queued /\ tpc[t].op # "start"
  BY <1>2, Zenon DEF First
<1>7. QED
  BY <1>1, <1>4, <1>5, <1>6, CallsLone, Zenon

\* Every step keeps it.
LEMMA LoneStep == Inv /\ First /\ Lone /\ [Next]_vars => First' /\ Lone'
<1> SUFFICES ASSUME Inv, First, Lone, [Next]_vars PROVE First' /\ Lone'
  BY Zenon
<1>1. CASE UNCHANGED vars
  BY <1>1, Zenon DEF vars, netVars, connVars, connectorVars, clientVars, First, Lone, Waits, Free
<1>2. ASSUME NEW t \in Threads, Disconnect(t) \/ DisconnectLocked(t) \/ Return(t)
      PROVE  First' /\ Lone'
  BY <1>2, ThreadLone, Zenon
<1>3. CASE Next
  BY <1>2, <1>3, LoopLone, ConnectorLone, ClientLone, ConnLone, UserLone, ThreadLone DEF Next
<1>4. QED
  BY <1>1, <1>3, Zenon

\* The client has at most one of a retry timer, an attempt under way and a
\* connection, for any number of threads, calls and connections: connect() and
\* restart() start an attempt when there is none of them, the timer when it has
\* expired, and each makes place for the next.
THEOREM OneAtATime == Spec => []OneAttempt
<1>1. Lone => OneAttempt
  <2>1. ASSUME Lone PROVE OneAttempt
    <3> DEFINE on == IF chan = "on" THEN 1 ELSE 0
               up == IF conn # 0 THEN 1 ELSE 0
    <3>1. \/ timers = 0 /\ (on = 0 \/ up = 0)
          \/ timers = 1 /\ on = 0 /\ up = 0
      BY <2>1 DEF Lone
    <3>2. on \in 0 .. 1 /\ up \in 0 .. 1
      OBVIOUS
    <3>3. timers + on + up <= 1
      <4> HIDE DEF on, up
      <4> QED
        BY <3>1, <3>2
    <3>4. QED
      BY <3>3, Zenon DEF OneAttempt
  <2>2. QED
    BY <2>1, Zenon
<1>2. Init => Inv /\ First /\ Lone
  <2>1. ASSUME Init PROVE First /\ Lone
    <3>1. pending = <<Functor("start", 0)>> /\ seen = {} /\ rest = Idle
      BY <2>1, Zenon DEF Init, NetInit
    <3>2. timers = 0 /\ chan = "none" /\ cstate = "disconnected" /\ conn = 0
      BY <2>1, Zenon DEF Init, ConnectorInit
    <3>3. First
      BY <2>1, <3>1 DEF Init, ConnInit, First, NoCall
    <3>4. Lone
      BY <3>1, <3>2 DEF Lone, Free, Idle, Starting
    <3>5. QED
      BY <3>3, <3>4, Zenon
  <2>2. QED
    BY <2>1, InvInit, Zenon
<1>3. Inv /\ First /\ Lone /\ [Next]_vars => (Inv /\ First /\ Lone)'
  BY InvStep, LoneStep, Zenon
<1>4. QED
  BY <1>1, <1>2, <1>3, PTL DEF Spec
-----------------------------------------------------------------------------
\* Why no assertion fails, while no call is late and no stop() is undone.

\* What is known of a pending functor.
Known(f) ==
    /\ f.conn # 0 => f.conn \in Conns /\ Exists(f.conn)
    /\ f.op = "stop" => stopped
    /\ f.op = "resetChannel" => chan = "off"
    /\ f.op = "connectDestroyed" => f.conn # 0 /\ state[f.conn] = "disconnected"

\* A functor that may be called before a resetChannel that is pending: not
\* another one, and none that closes the connection the Channel was for.
Before(f) ==
    /\ f.op # "resetChannel"
    /\ f.op = "forceClose" /\ conn # 0 => f.conn # conn

\* The Channel that is off has its resetChannel pending, which runs before the
\* next poll; unless stop() has put it there.
Queue ==
    /\ \A i \in 1 .. Len(pending) : Known(pending[i])
    /\ \A i \in 1 .. Len(pending) :
          pending[i].op = "resetChannel" /\ phase = "functors" => i <= batch \/ stopped
    /\ \A i, j \in 1 .. Len(pending) : i < j /\ pending[j].op = "resetChannel" => Before(pending[i])
    /\ chan = "off" => \E i \in 1 .. Len(pending) : pending[i].op = "resetChannel"

\* connecting finds no Channel, or is not called.
Ready == chan = "none" \/ stopped

ThreadOps == {"none", "disconnect", "send", "shutdown", "forceClose"}

Link ==
    /\ chan \in {"none", "on", "off"}
    /\ cstate = "connecting" <=> chan = "on"
    /\ timers = 1 => cstate = "disconnected"
    /\ Waits => cstate = "disconnected" /\ chan = "none"
    /\ rest.do = "startInLoop" => cstate = "disconnected"
    /\ rest.do \in Starting => Ready
    /\ rest.do = "closeCallback" => /\ rest.conn = conn /\ conn \in Conns /\ Ready
                                    /\ state[conn] = "disconnected"
    /\ <<0, "retry">> \in seen => Ready
    /\ conn # 0 /\ <<conn, "close">> \in seen => Ready

\* All of it: an open connection is the client's, too.
Good ==
    /\ ~Aborted
    /\ Queue
    /\ Link
    /\ \A t \in Threads : tpc[t].op \in ThreadOps
    /\ \A c \in Conns : state[c] \in Open => conn = c

\* A step that calls or queues functors other than resetChannel.
LEMMA QueuePlain ==
  ASSUME Sends, Queue, NEW k \in {0, 1}, NEW f \in Queued, Moves(k, f),
         \A g \in Queued : Known(g) => Known(g)', Known(f)', f.op # "resetChannel",
         k = 1 => pending[1].op # "resetChannel",
         phase' = "functors" => phase = "functors" /\ batch' = batch - k,
         chan' = "off" => chan = "off", conn' \in {conn, 0}, stopped => stopped'
  PROVE  Queue'
<1> DEFINE n == Len(pending)
           m == Len(pending')
<1>1. n \in Nat /\ m \in Nat /\ batch \in Nat /\ \A i \in 1 .. n : pending[i] \in Queued
  BY DEF Sends, Moves
<1>2. ASSUME NEW i \in 1 .. m
      PROVE  \/ i \in 1 .. n - k /\ i + k \in 1 .. n /\ pending'[i] = pending[i + k]
             \/ i = n - k + 1 /\ pending'[i] = f
  BY <1>1 DEF Moves
<1>3. ASSUME NEW i \in 1 .. m PROVE Known(pending[i])'
  <2>1. PICK g \in Queued : pending'[i] = g /\ Known(g)'
    <3>1. CASE i + k \in 1 .. n /\ pending'[i] = pending[i + k]
      BY <1>1, <3>1, Zenon DEF Queue
    <3>2. CASE pending'[i] = f
      BY <3>2, Zenon
    <3>3. QED
      BY <1>2, <3>1, <3>2, Zenon
  <2>2. QED
    BY <2>1, Zenon DEF Known
<1>4. ASSUME NEW i \in 1 .. m, pending'[i].op = "resetChannel"
      PROVE  i \in 1 .. n - k /\ i + k \in 1 .. n /\ pending[i + k].op = "resetChannel" /\ pending'[i] = pending[i + k]
  BY <1>2, <1>4, Zenon
<1>5. ASSUME NEW i \in 1 .. m, pending'[i].op = "resetChannel", phase' = "functors"
      PROVE  i <= batch' \/ stopped'
  <2>1. i + k \in 1 .. n /\ pending[i + k].op = "resetChannel" /\ phase = "functors" /\ batch' = batch - k
    BY <1>4, <1>5, Zenon
  <2>2. i + k <= batch \/ stopped
    BY <2>1, Zenon DEF Queue
  <2>3. i + k <= batch => i <= batch - k
    BY <1>1
  <2>4. QED
    BY <2>1, <2>2, <2>3, Zenon
<1>6. ASSUME NEW i \in 1 .. m, NEW j \in 1 .. m, i < j, pending'[j].op = "resetChannel"
      PROVE  Before(pending[i])'
  <2>1. j \in 1 .. n - k /\ j + k \in 1 .. n /\ pending[j + k].op = "resetChannel"
    BY <1>4, <1>6, Zenon
  <2>2. i + k \in 1 .. n /\ i + k < j + k /\ pending'[i] = pending[i + k]
    BY <1>1, <1>2, <1>6, <2>1
  <2>3. Before(pending[i + k])
    BY <2>1, <2>2, Zenon DEF Queue
  <2>4. QED
    BY <2>2, <2>3, Zenon DEF Before
<1>7. ASSUME chan' = "off" PROVE \E i \in 1 .. m : pending'[i].op = "resetChannel"
  <2>1. PICK i \in 1 .. n : pending[i].op = "resetChannel"
    BY <1>7, Zenon DEF Queue
  <2>2. i - k \in 1 .. n - k /\ (i - k) + k = i
    BY <1>1, <2>1
  <2>3. i - k \in 1 .. m /\ pending'[i - k] = pending[i]
    BY <2>2, Zenon DEF Moves
  <2>4. QED
    BY <2>1, <2>3, Zenon
<1>8. QED
  BY <1>3, <1>5, <1>6, <1>7, Zenon DEF Queue

\* A step that turns the Channel off and queues resetChannel.
LEMMA QueueReset ==
  ASSUME Sends, Queue, NEW k \in {0, 1}, NEW f \in Queued, Moves(k, f),
         k <= Len(pending), Len(pending') = Len(pending) - k + 1,
         f.op = "resetChannel", f.conn = 0,
         \A g \in Queued : Known(g) => Known(g)',
         chan # "off", chan' = "off",
         conn' # 0 => \A i \in 1 .. Len(pending) : pending[i].conn # conn',
         phase' = "functors" => stopped'
  PROVE  Queue'
<1> DEFINE n == Len(pending)
           m == Len(pending')
<1>1. n \in Nat /\ m \in Nat /\ m = n - k + 1 /\ \A i \in 1 .. n : pending[i] \in Queued
  BY DEF Sends, Moves
<1>2. ASSUME NEW i \in 1 .. m
      PROVE  \/ i \in 1 .. n - k /\ i + k \in 1 .. n /\ pending'[i] = pending[i + k]
             \/ i = m /\ pending'[i] = f
  BY <1>1 DEF Moves
<1>3. Known(f)'
  BY Zenon DEF Known
<1>4. ASSUME NEW i \in 1 .. m PROVE Known(pending[i])'
  <2>1. PICK g \in Queued : pending'[i] = g /\ Known(g)'
    <3>1. CASE i + k \in 1 .. n /\ pending'[i] = pending[i + k]
      BY <1>1, <3>1, Zenon DEF Queue
    <3>2. CASE pending'[i] = f
      BY <1>3, <3>2, Zenon
    <3>3. QED
      BY <1>2, <3>1, <3>2, Zenon
  <2>2. QED
    BY <2>1, Zenon DEF Known
<1>5. \A i \in 1 .. n : pending[i].op # "resetChannel"
  BY Zenon DEF Queue, Known
<1>6. ASSUME NEW i \in 1 .. m, NEW j \in 1 .. m, i < j PROVE Before(pending[i])'
  <2>1. i # m
    BY <1>1, <1>6
  <2>2. i + k \in 1 .. n /\ pending'[i] = pending[i + k]
    BY <1>2, <2>1, Zenon
  <2>3. pending'[i].op # "resetChannel" /\ (conn' # 0 => pending'[i].conn # conn')
    BY <1>5, <2>2, Zenon
  <2>4. QED
    BY <2>3, Zenon DEF Before
<1>7. m \in 1 .. m /\ pending'[m] = f
  BY <1>1, <1>2
<1>8. QED
  BY <1>4, <1>6, <1>7, Zenon DEF Queue

\* resetChannel is called: there was only one.
LEMMA QueueDone ==
  ASSUME Sends, Queue, NEW f \in Queued, Moves(1, f), Len(pending) > 0,
         pending[1].op = "resetChannel", f.op = "start", f.conn = 0, chan' = "none",
         UNCHANGED <<state, stopped, conn>>
  PROVE  Queue'
<1> DEFINE n == Len(pending)
           m == Len(pending')
<1>1. n \in Nat /\ m \in Nat /\ 1 \in 1 .. n
  BY DEF Sends, Moves
<1>2. ASSUME NEW i \in 1 .. n - 1 PROVE i + 1 \in 1 .. n /\ 1 < i + 1 /\ pending[i + 1].op # "resetChannel"
  <2>1. i + 1 \in 1 .. n /\ 1 < i + 1
    BY <1>1
  <2>2. pending[i + 1].op = "resetChannel" => Before(pending[1])
    BY <1>1, <2>1, Zenon DEF Queue
  <2>3. QED
    BY <2>1, <2>2, Zenon DEF Before
<1>3. ASSUME NEW i \in 1 .. m PROVE Known(pending[i])' /\ pending'[i].op # "resetChannel"
  <2>1. CASE i \in 1 .. n - 1
    <3>1. pending'[i] = pending[i + 1] /\ Known(pending[i + 1]) /\ pending[i + 1].op # "resetChannel"
      BY <1>2, <2>1, Zenon DEF Moves, Queue
    <3>2. QED
      BY <3>1, Zenon DEF Known, Exists
  <2>2. CASE pending'[i] = f
    BY <2>2, Zenon DEF Known
  <2>3. QED
    BY <2>1, <2>2, Zenon DEF Moves
<1>4. QED
  BY <1>3, Zenon DEF Queue

\* Steps that leave the Connector and the client's connection alone, and close
\* none.
LEMMA GoodSame ==
  ASSUME Inv, Good, NEW k \in {0, 1}, NEW f \in Queued, Moves(k, f),
         Known(f)', f.op # "resetChannel",
         k = 1 => pending[1].op # "resetChannel",
         phase' = "functors" => phase = "functors" /\ batch' = batch - k,
         UNCHANGED <<chan, cstate, timers, conn, rest>>,
         seen' \subseteq seen, stopped => stopped', Waits' => Waits,
         \A t \in Threads : tpc'[t].op \in ThreadOps,
         \A c \in Conns : /\ Exists(c)' <=> Exists(c)
                          /\ state'[c] = "disconnected" <=> state[c] = "disconnected"
  PROVE  Good'
<1>1. Sends /\ Queue /\ Link /\ ~Aborted
  BY Zenon DEF Inv, Good
<1>2. \A g \in Queued : Known(g) => Known(g)'
  BY Zenon DEF Known
<1>3. Queue'
  BY <1>1, <1>2, QueuePlain, Zenon
<1>4. Ready => Ready'
  BY Zenon DEF Ready
<1>5. Link'
  BY <1>1, <1>4, Zenon DEF Link
<1>6. ~Aborted'
  BY <1>1, Zenon DEF Aborted
<1>7. ASSUME NEW c \in Conns, state'[c] \in Open PROVE conn' = c
  <2>1. state[c] \in States /\ state[c] # "none" /\ state[c] # "disconnected"
    BY <1>7, Zenon DEF Inv, Types, Exists, Open
  <2>2. state[c] \in Open
    BY <2>1, Zenon DEF States, Open
  <2>3. QED
    BY <2>2, Zenon DEF Good
<1>8. QED
  BY <1>3, <1>5, <1>6, <1>7, Zenon DEF Good

\* What a functor that is none of these means to the queue: nothing.
LEMMA Harmless == /\ Functor("start", 0) \in Queued /\ Functor("start", 0).op = "start"
                  /\ Functor("start", 0).conn = 0 /\ Known(Functor("start", 0))'
BY StartRecord, Zenon DEF Known

\* startInLoop finds its assertions true.
LEMMA StartSound ==
  ASSUME NEW n, StartInLoop(n), cstate = "disconnected", Ready, Held, ~revived
  PROVE  /\ rest' = Idle
         /\ \/ chan = "none" /\ chan' = "on" /\ cstate' = "connecting" /\ timers' = n
            \/ chan' = chan /\ cstate' = "disconnected"
<1>1. connect => chan = "none"
  BY Zenon DEF Ready, Held
<1>2. QED
  BY <1>1, Zenon DEF StartInLoop, Attempt, RetryFrom

\* What startInLoop leaves, called by a functor, by the timer or by restart.
LEMMA GoodStart ==
  ASSUME Inv, Good, Held, ~revived, NEW n \in {0}, StartInLoop(n), cstate = "disconnected", Ready, conn = 0,
         NEW k \in {0, 1}, NEW f \in Queued, Moves(k, f), Known(f)', f.op # "resetChannel",
         k = 1 => pending[1].op # "resetChannel",
         phase' = "functors" => phase = "functors" /\ batch' = batch - k,
         seen' \subseteq seen, <<0, "retry">> \notin seen', ~Waits',
         UNCHANGED <<state, tpc, conn, stopped>>
  PROVE  Good'
<1>1. Sends /\ Queue /\ Link /\ ~Aborted
  BY Zenon DEF Inv, Good
<1>2. /\ rest' = Idle
      /\ \/ chan = "none" /\ chan' = "on" /\ cstate' = "connecting" /\ timers' = n
         \/ chan' = chan /\ cstate' = "disconnected"
  BY StartSound, Zenon
<1>3. \A g \in Queued : Known(g) => Known(g)'
  BY <1>2, Zenon DEF Known, Exists
<1>4. chan' = "off" => chan = "off"
  BY <1>2, Zenon
<1>5. Queue'
  BY <1>1, <1>3, <1>4, QueuePlain, Zenon
<1>6. rest'.do = "nothing" /\ rest' # Abort
  BY <1>2, Zenon DEF Idle, Abort
<1>7. chan # "on"
  BY <1>1, Zenon DEF Link
<1>8. Link'
  BY <1>1, <1>2, <1>6, <1>7 DEF Link, Starting
<1>9. QED
  BY <1>5, <1>6, <1>8, Zenon DEF Good, Aborted

\* The loop polls when no resetChannel is left, and takes all functors.
LEMMA GoodLoop ==
  ASSUME Inv, Lone, Good, LoopStep
  PROVE  Good'
<1>1. UNCHANGED <<timers, chan, cstate, conn, rest, pending, tpc, state, stopped>>
  BY Zenon DEF LoopStep, Poll, SwapFunctors, connVars, connectorVars, clientVars
<1>2. Sends /\ Queue /\ Link /\ ~Aborted
  BY Zenon DEF Inv, Good
<1>3. \/ phase' = "handle" /\ seen' = Sources /\ phase = "functors" /\ batch = 0
      \/ phase' = "functors" /\ seen' = {} /\ batch' = Len(pending)
  BY Zenon DEF LoopStep, Poll, SwapFunctors
<1>4. Queue'
  <2>1. Len(pending) \in Nat /\ \A i \in 1 .. Len(pending) : i <= Len(pending)
    BY <1>2 DEF Sends
  <2>2. \A i \in 1 .. Len(pending) : Known(pending[i])'
    BY <1>1, <1>2, Zenon DEF Queue, Known, Exists
  <2>3. \A i, j \in 1 .. Len(pending) : i < j /\ pending[j].op = "resetChannel" => Before(pending[i])'
    BY <1>1, <1>2, Zenon DEF Queue, Before
  <2>4. \A i \in 1 .. Len(pending') : pending'[i].op = "resetChannel" /\ phase' = "functors" => i <= batch' \/ stopped'
    BY <1>1, <1>3, <2>1, Zenon
  <2>5. chan' = "off" => \E i \in 1 .. Len(pending') : pending'[i].op = "resetChannel"
    BY <1>1, <1>2, Zenon DEF Queue
  <2>6. QED
    BY <1>1, <2>2, <2>3, <2>4, <2>5 DEF Queue
<1>5. ASSUME seen' = Sources, phase = "functors", batch = 0, timers = 1 \/ conn # 0 PROVE Ready
  <2>1. chan # "on"
    BY <1>2, <1>5, Zenon DEF Lone, Link
  <2>2. chan = "off" => stopped
    BY <1>2, <1>5 DEF Queue
  <2>3. chan \in {"none", "on", "off"}
    BY <1>2, Zenon DEF Link
  <2>4. QED
    BY <2>1, <2>2, <2>3, Zenon DEF Ready
<1>6. <<0, "retry">> \in Sources => timers = 1
  BY Records DEF Sources, ConnSources, Lone
<1>7. Ready' <=> Ready
  BY <1>1, Zenon DEF Ready
<1>8. Waits' <=> Waits
  BY <1>1, Zenon DEF Waits
<1>9. Link'
  BY <1>1, <1>2, <1>3, <1>5, <1>6, <1>7, <1>8, Zenon DEF Link
<1>10. QED
  BY <1>1, <1>2, <1>4, <1>9, Zenon DEF Good, Aborted
\* The Connector's handlers and functors find the last attempt over.
LEMMA GoodConnector ==
  ASSUME Inv, Held, First, Lone, Good, ~revived, ConnectorStep
  PROVE  Good'
<1> DEFINE idle == Functor("start", 0)
<1>0. /\ Sends /\ ConnInv /\ Queue /\ Link /\ ~Aborted
      /\ UNCHANGED <<conn, tpc, state, stopped>>
  BY Zenon DEF Inv, Good, ConnectorStep, connVars, clientVars
<1>1. idle \in Queued /\ idle.op # "resetChannel" /\ Known(idle)'
  BY Harmless, Zenon
<1>2. idle.op = "start" /\ idle.conn = 0
  BY Harmless, Zenon
<1> HIDE DEF idle
<1>3. CASE StartFunctor
  <2>1. Calls("start", <<>>) /\ StartInLoop(timers)
    BY <1>3, Zenon DEF StartFunctor
  <2>2. /\ Moves(1, idle) /\ pending[1].op = "start"
        /\ phase = "functors" /\ batch' = batch - 1 /\ seen' = seen
    BY <1>0, <1>1, <2>1, CallMoves, Zenon
  <2>3. ~Waits' /\ Waits
    BY <1>0, <2>1, CallsFirst, Zenon
  <2>4. timers = 0 /\ conn = 0 /\ cstate = "disconnected" /\ Ready
    BY <1>0, <2>3, Zenon DEF Lone, Free, Link, Ready
  <2>5. seen = {}
    BY <1>0, <2>2, Zenon DEF ConnInv
  <2>6. QED
    BY <1>0, <1>1, <2>1, <2>2, <2>3, <2>4, <2>5, GoodStart
<1>4. CASE RetryTimer
  <2>1. Handles(<<0, "retry">>) /\ StartInLoop(timers - 1) /\ pending' = pending
    BY <1>4, Zenon DEF RetryTimer
  <2>2. <<0, "retry">> \in seen /\ <<0, "retry">> \notin seen' /\ seen' \subseteq seen /\ phase' = "handle"
    BY <2>1, Zenon DEF Handles
  <2>3. timers = 1 /\ timers - 1 = 0 /\ conn = 0 /\ ~Waits /\ ~Waits'
    BY <2>1, <2>2 DEF Lone, Free, Waits
  <2>4. cstate = "disconnected" /\ Ready
    BY <1>0, <2>2, <2>3, Zenon DEF Link
  <2>5. Moves(0, idle)
    BY <1>0, <1>1, <2>1, QueueMoves, Zenon
  <2>6. StartInLoop(0)
    BY <2>1, <2>3, Zenon
  <2>7. QED
    BY <1>0, <1>1, <2>2, <2>3, <2>4, <2>5, <2>6, GoodStart
<1>5. CASE StopFunctor
  <2> DEFINE more == IF cstate = "connecting" THEN <<ResetChannelFunctor>> ELSE <<>>
  <2>1. /\ Calls("stop", more) /\ rest' = rest
        /\ IF cstate = "connecting" THEN chan' = "off" /\ RetryFrom(timers) ELSE UNCHANGED <<chan, cstate, timers>>
    BY <1>5, Zenon DEF StopFunctor, RemoveAndResetChannel
  <2>2. CASE cstate # "connecting"
    <3>1. Calls("stop", <<>>) /\ UNCHANGED <<chan, cstate, timers>>
      BY <2>1, <2>2, Zenon
    <3>2. /\ Moves(1, idle) /\ pending[1].op = "stop"
          /\ phase = "functors" /\ batch' = batch - 1 /\ seen' = seen
      BY <1>0, <1>1, <3>1, CallMoves, Zenon
    <3>3. ~Waits'
      BY <1>0, <3>1, CallsFirst, Zenon
    <3>4. \A t \in Threads : tpc'[t].op \in ThreadOps
      BY <1>0, Zenon DEF Good
    <3>5. \A c \in Conns : Exists(c)' <=> Exists(c)
      BY <1>0, Zenon DEF Exists
    <3>6. QED
      BY <1>0, <1>1, <2>1, <3>1, <3>2, <3>3, <3>4, <3>5, GoodSame
  <2>3. CASE cstate = "connecting"
    <3> DEFINE f == ResetChannelFunctor
    <3>1. Calls("stop", <<f>>) /\ chan' = "off" /\ RetryFrom(timers)
      BY <2>1, <2>3, Zenon
    <3>2. f \in Queued /\ f.op = "resetChannel" /\ f.conn = 0
      BY Records, Zenon DEF ResetChannelFunctor
    <3> HIDE DEF f
    <3>3. /\ Moves(1, f) /\ pending[1].op = "stop" /\ Len(pending) \in Nat /\ 1 \in 1 .. Len(pending)
          /\ phase = "functors" /\ batch' = batch - 1 /\ seen' = seen /\ rest = Idle
      BY <1>0, <3>1, <3>2, CallMoves, Zenon
    <3>4. ~Waits'
      BY <1>0, <3>1, <3>2, CallsFirst, Zenon
    <3>5. stopped
      BY <1>0, <3>3, Zenon DEF Queue, Known
    <3>6. ~connect
      BY <3>5, Zenon DEF Held
    <3>7. cstate' = "disconnected" /\ timers' = timers
      BY <3>1, <3>6, Zenon DEF RetryFrom
    <3>8. chan = "on" /\ conn = 0 /\ conn' = 0
      BY <1>0, <2>3, Zenon DEF Link, Lone
    <3>9. Len(pending') = Len(pending) - 1 + 1
      BY <1>0, <3>1 DEF Calls, Sends
    <3>10. Queue'
      <4>1. \A g \in Queued : Known(g) => Known(g)'
        BY <1>0, <3>1, Zenon DEF Known, Exists
      <4>2. stopped' /\ 1 <= Len(pending)
        BY <1>0, <3>3, <3>5
      <4>3. QED
        BY <1>0, <3>1, <3>2, <3>3, <3>8, <3>9, <4>1, <4>2, QueueReset
    <3>11. rest'.do = "nothing" /\ ~Aborted'
      BY <2>1, <3>3, Zenon DEF Idle, Abort, Aborted
    <3>12. seen' = {}
      BY <1>0, <3>3, Zenon DEF ConnInv
    <3>13. Link'
      BY <1>0, <3>1, <3>4, <3>7, <3>11, <3>12, Zenon DEF Link, Starting
    <3>14. QED
      BY <1>0, <3>10, <3>11, <3>13, Zenon DEF Good
  <2>4. QED
    BY <2>2, <2>3, Zenon
<1>6. CASE ResetChannel
  <2>1. Calls("resetChannel", <<>>) /\ rest' = rest /\ chan' = "none" /\ UNCHANGED <<cstate, timers>>
    BY <1>6, Zenon DEF ResetChannel
  <2>2. /\ Moves(1, idle) /\ pending[1].op = "resetChannel" /\ 1 \in 1 .. Len(pending) /\ Len(pending) \in Nat
        /\ phase = "functors" /\ seen' = seen /\ rest = Idle
    BY <1>0, <1>1, <2>1, CallMoves, Zenon
  <2>3. ~Waits'
    BY <1>0, <2>1, CallsFirst, Zenon
  <2>4. chan = "off"
    BY <1>0, <2>2, Zenon DEF Queue, Known
  <2>5. Queue'
    BY <1>0, <1>1, <1>2, <2>1, <2>2, QueueDone
  <2>6. rest'.do = "nothing" /\ ~Aborted'
    BY <2>1, <2>2, Zenon DEF Idle, Abort, Aborted
  <2>7. Link'
    BY <1>0, <2>1, <2>3, <2>4, <2>6, Zenon DEF Link, Starting, Ready
  <2>8. QED
    BY <1>0, <2>5, <2>6, <2>7, Zenon DEF Good
<1>7. CASE ConnectFails
  <2> DEFINE f == ResetChannelFunctor
  <2>1. /\ Handles(<<0, "connect">>) /\ cstate = "connecting" /\ rest' = rest /\ chan' = "off"
        /\ RetryFrom(timers) /\ pending' = pending \o <<f>>
    BY <1>7, Zenon DEF ConnectFails, RemoveAndResetChannel
  <2>2. f \in Queued /\ f.op = "resetChannel" /\ f.conn = 0
    BY Records, Zenon DEF ResetChannelFunctor
  <2> HIDE DEF f
  <2>3. Moves(0, f) /\ Len(pending) \in Nat /\ 0 <= Len(pending) /\ Len(pending') = Len(pending) - 0 + 1
    <3>1. Moves(0, f)
      BY <1>0, <2>1, <2>2, QueueMoves, Zenon
    <3>2. QED
      BY <1>0, <2>1, <2>2, <3>1 DEF Sends
  <2>4. chan = "on" /\ timers = 0 /\ conn = 0 /\ conn' = 0 /\ ~Waits /\ <<0, "retry">> \notin seen
    BY <1>0, <2>1 DEF Link, Lone, Free
  <2>5. ~Waits'
    BY <1>0, <2>1, <2>2, <2>4, QueueFirst, Zenon
  <2>6. cstate' = "disconnected" /\ seen' \subseteq seen /\ rest = Idle /\ phase' = "handle"
    BY <2>1, Zenon DEF RetryFrom, Handles
  <2>7. Queue'
    <3>1. \A g \in Queued : Known(g) => Known(g)'
      BY <1>0, <2>1, Zenon DEF Known, Exists
    <3>2. QED
      BY <1>0, <2>1, <2>2, <2>3, <2>4, <2>6, <3>1, QueueReset
  <2>8. rest'.do = "nothing" /\ ~Aborted'
    BY <2>1, <2>6, Zenon DEF Idle, Abort, Aborted
  <2>9. Link'
    BY <1>0, <2>1, <2>4, <2>5, <2>6, <2>8, Zenon DEF Link, Starting
  <2>10. QED
    BY <1>0, <2>7, <2>8, <2>9, Zenon DEF Good
<1>8. QED
  BY <1>3, <1>4, <1>5, <1>6, <1>7, Zenon DEF ConnectorStep
\* A connection is made, removed and made again.
LEMMA GoodClient ==
  ASSUME Inv, Held, First, Lone, Good, ~revived, ClientStep
  PROVE  Good'
<1>0. Types /\ Sends /\ ConnInv /\ InTurn /\ Queue /\ Link /\ ~Aborted
  BY Zenon DEF Inv, Good
<1>1. ASSUME ConnectSucceeds, tpc' = tpc, stopped' = stopped
      PROVE  /\ chan = "on" /\ chan' = "off" /\ timers = 0 /\ conn = 0 /\ ~Waits' /\ cstate' = "connected"
             /\ <<0, "retry">> \notin seen' /\ seen' \subseteq seen /\ phase' = "handle"
             /\ rest'.do = "nothing" /\ ~Aborted'
             /\ ((/\ \A g \in Queued : Known(g) => Known(g)'
                  /\ conn' # 0 => \A i \in 1 .. Len(pending) : pending[i].conn # conn')
                 => Queue')
  <2> DEFINE f == ResetChannelFunctor
  <2>1. /\ Handles(<<0, "connect">>) /\ cstate = "connecting" /\ rest' = rest /\ chan' = "off"
        /\ cstate' = "connected" /\ timers' = timers /\ pending' = pending \o <<f>>
    BY <1>1, Zenon DEF ConnectSucceeds, RemoveAndResetChannel
  <2>2. f \in Queued /\ f.op = "resetChannel" /\ f.conn = 0
    BY Records, Zenon DEF ResetChannelFunctor
  <2> HIDE DEF f
  <2>3. Moves(0, f) /\ Len(pending) \in Nat /\ 0 <= Len(pending) /\ Len(pending') = Len(pending) - 0 + 1
    <3>1. Moves(0, f)
      BY <1>0, <2>1, <2>2, QueueMoves, Zenon
    <3>2. QED
      BY <1>0, <2>1, <2>2, <3>1 DEF Sends
  <2>4. chan = "on" /\ timers = 0 /\ conn = 0 /\ ~Waits /\ <<0, "retry">> \notin seen
    BY <1>0, <2>1 DEF Link, Lone, Free
  <2>5. ~Waits'
    BY <1>0, <2>1, <2>2, <2>4, QueueFirst, Zenon
  <2>6. seen' \subseteq seen /\ rest = Idle /\ phase' = "handle"
    BY <2>1, Zenon DEF Handles
  <2>7. ASSUME \A g \in Queued : Known(g) => Known(g)',
               conn' # 0 => \A i \in 1 .. Len(pending) : pending[i].conn # conn'
        PROVE  Queue'
    BY <1>0, <2>1, <2>2, <2>3, <2>4, <2>6, <2>7, QueueReset
  <2>8. rest'.do = "nothing" /\ ~Aborted'
    BY <2>1, <2>6, Zenon DEF Idle, Abort, Aborted
  <2>9. QED
    BY <2>1, <2>4, <2>5, <2>6, <2>7, <2>8
<1>2. CASE NewConnection
  <2> DEFINE c == Made + 1
  <2>1. /\ ConnectSucceeds /\ tpc' = tpc /\ stopped' = stopped /\ conn' = c /\ Made < MaxConns
        /\ state' = [state EXCEPT ![c] = "connected"]
    BY <1>2, Zenon DEF NewConnection, ConnectEstablished
  <2>2. c \in Conns /\ ~Exists(c)
    BY <1>0, <2>1, NextInTurn, Zenon
  <2> HIDE DEF c
  <2>3. /\ chan' = "off" /\ timers = 0 /\ conn = 0 /\ ~Waits' /\ cstate' = "connected"
        /\ <<0, "retry">> \notin seen' /\ seen' \subseteq seen
        /\ rest'.do = "nothing" /\ ~Aborted' /\ chan = "on"
    BY <1>1, <2>1, Zenon
  <2>4. /\ state'[c] = "connected"
        /\ \A b \in Conns \ {c} : state'[b] = state[b]
    BY <1>0, <2>1, <2>2, Zenon DEF Types
  <2>5. \A g \in Queued : Known(g) => Known(g)'
    BY <2>1, <2>2, <2>3, <2>4, Zenon DEF Known, Exists
  <2>6. \A i \in 1 .. Len(pending) : pending[i].conn # conn'
    BY <1>0, <2>1, <2>2, Records, Zenon DEF Queue, Known
  <2>7. Queue'
    BY <1>1, <2>1, <2>5, <2>6, Zenon
  <2>8. <<c, "close">> \notin seen
    BY <1>0, <2>2, Zenon DEF ConnInv, Down
  <2>9. timers' = timers
    BY <2>1, Zenon DEF ConnectSucceeds
  <2>10. Link'
    BY <2>1, <2>3, <2>8, <2>9 DEF Link, Starting
  <2>11. \A b \in Conns : state'[b] \in Open => conn' = b
    <3>1. ASSUME NEW b \in Conns, b # c PROVE state[b] \notin Open
      BY <2>3, Records, Zenon DEF Good
    <3>2. QED
      BY <2>1, <2>4, <3>1, Zenon
  <2>12. QED
    BY <2>1, <2>3, <2>7, <2>10, <2>11, Zenon DEF Good
<1>3. CASE ConnectionUnwanted
  <2>1. ConnectSucceeds /\ UNCHANGED <<tpc, stopped, conn, state>>
    BY <1>3, Zenon DEF ConnectionUnwanted, connVars, clientVars
  <2>2. /\ chan' = "off" /\ timers = 0 /\ conn = 0 /\ ~Waits' /\ cstate' = "connected"
        /\ <<0, "retry">> \notin seen' /\ seen' \subseteq seen
        /\ rest'.do = "nothing" /\ ~Aborted'
    BY <1>1, <2>1, Zenon
  <2>3. \A g \in Queued : Known(g) => Known(g)'
    BY <2>1, <2>2, Zenon DEF Known, Exists
  <2>4. Queue'
    BY <1>1, <2>1, <2>2, <2>3, Zenon
  <2>5. timers' = timers
    BY <2>1, Zenon DEF ConnectSucceeds
  <2>6. Link'
    BY <2>1, <2>2, <2>5 DEF Link, Starting
  <2>7. QED
    BY <2>1, <2>2, <2>4, <2>6, Zenon DEF Good
<1>4. CASE RemoveConnection
  <2>1. /\ rest.do = "closeCallback" /\ conn' = 0 /\ pending' = Append(pending, Functor("connectDestroyed", rest.conn))
        /\ UNCHANGED <<timers, chan, cstate, seen, tpc, state, stopped, phase, batch>>
        /\ rest' = IF conn # rest.conn THEN Abort
                   ELSE IF Reconnects THEN [Idle EXCEPT !.do = "restart"] ELSE Idle
    BY <1>4, Zenon DEF RemoveConnection, connVars, connectorVars
  <2>2. rest.conn = conn /\ conn \in Conns /\ conn \in Nat /\ conn # 0 /\ Ready /\ state[conn] = "disconnected"
    BY <1>0, <2>1, Records, Zenon DEF Link
  <2>3. PICK f \in Queued : /\ f.op = "connectDestroyed" /\ f.conn = conn
                            /\ pending' = Append(pending, f)
    BY <2>1, <2>2, Records, Zenon DEF Ops, Functor
  <2>4. Moves(0, f)
    BY <1>0, <2>1, <2>3, QueueMoves, Zenon
  <2>5. Known(f)'
    BY <2>1, <2>2, <2>3, Zenon DEF Known, Exists
  <2>6. \A g \in Queued : Known(g) => Known(g)'
    BY <2>1, Zenon DEF Known, Exists
  <2>7. batch \in Nat /\ batch - 0 = batch
    BY <1>0 DEF Sends
  <2>8. Queue'
    BY <1>0, <2>1, <2>3, <2>4, <2>5, <2>6, <2>7, QueuePlain
  <2>9. Waits' => Waits
    BY <1>0, <2>1, <2>3, QueueFirst, Zenon
  <2>10. rest'.do \in {"nothing", "restart"} /\ ~Aborted'
    BY <2>1, <2>2, Zenon DEF Idle, Abort, Aborted
  <2>11. Ready'
    BY <2>1, <2>2, Zenon DEF Ready
  <2>12. Link'
    BY <1>0, <2>1, <2>9, <2>10, <2>11, Zenon DEF Link
  <2>13. \A b \in Conns : state'[b] \notin Open
    BY <2>1, <2>2, Zenon DEF Good, Open
  <2>14. QED
    BY <2>1, <2>8, <2>10, <2>12, <2>13, Zenon DEF Good
<1>5. CASE RestartConnector
  <2>1. /\ rest.do = "restart" /\ cstate' = "disconnected" /\ rest' = [Idle EXCEPT !.do = "startInLoop"]
        /\ UNCHANGED <<chan, timers, conn, seen, pending, tpc, phase, batch, state, stopped>>
    BY <1>5, Zenon DEF RestartConnector, Restart, connVars
  <2>2. Free /\ ~Waits /\ Ready
    BY <1>0, <2>1, Zenon DEF Lone, Starting, Link
  <2>3. ~Waits' /\ Ready'
    BY <2>1, <2>2, Zenon DEF Waits, Ready
  <2>4. rest'.do = "startInLoop" /\ ~Aborted'
    BY <2>1, Zenon DEF Idle, Abort, Aborted
  <2>5. Link'
    BY <1>0, <2>1, <2>2, <2>3, <2>4, Zenon DEF Link, Free
  <2>6. Queue'
    <3>1. \A i \in 1 .. Len(pending) : Known(pending[i])'
      BY <1>0, <2>1, Zenon DEF Queue, Known, Exists
    <3>2. \A i, j \in 1 .. Len(pending) : i < j /\ pending[j].op = "resetChannel" => Before(pending[i])'
      BY <1>0, <2>1, Zenon DEF Queue, Before
    <3>3. QED
      BY <1>0, <2>1, <3>1, <3>2, Zenon DEF Queue
  <2>7. QED
    BY <2>1, <2>4, <2>5, <2>6, Zenon DEF Good
<1>6. CASE ConnectorRestarted
  <2> DEFINE idle == Functor("start", 0)
  <2>1. /\ rest.do = "startInLoop" /\ StartInLoop(timers)
        /\ UNCHANGED <<conn, seen, pending, tpc, phase, batch, state, stopped>>
    BY <1>6, Zenon DEF ConnectorRestarted, Restarted, connVars, clientVars
  <2>2. timers = 0 /\ conn = 0 /\ ~Waits /\ ~Waits' /\ <<0, "retry">> \notin seen
    BY <2>1 DEF Lone, Starting, Free, Waits
  <2>3. cstate = "disconnected" /\ Ready
    BY <1>0, <2>1, Zenon DEF Link, Starting
  <2>4. idle \in Queued /\ idle.op # "resetChannel" /\ Known(idle)'
    BY Harmless, Zenon
  <2> HIDE DEF idle
  <2>5. Moves(0, idle)
    BY <1>0, <2>1, <2>4, QueueMoves, Zenon
  <2>6. batch \in Nat /\ batch - 0 = batch
    BY <1>0 DEF Sends
  <2>7. QED
    BY <2>1, <2>2, <2>3, <2>4, <2>5, <2>6, GoodStart
<1>7. QED
  BY <1>2, <1>3, <1>4, <1>5, <1>6, Zenon DEF ClientStep
\* handleClose of the client's connection.
LEMMA GoodClose ==
  ASSUME Inv, Good, NEW c \in Conns, HandleClose(c), state[c] \in Open, Ready,
         NEW k \in {0, 1}, NEW f \in Queued, Moves(k, f), Known(f)', f.op # "resetChannel",
         k = 1 => pending[1].op # "resetChannel",
         phase' = "functors" => phase = "functors" /\ batch' = batch - k,
         UNCHANGED <<chan, cstate, timers, conn, stopped, tpc>>,
         seen' \subseteq seen, Waits' => Waits
  PROVE  Good'
<1>1. Sends /\ Queue /\ Link /\ Types
  BY Zenon DEF Inv, Good
<1>2. rest' = [do |-> "closeCallback", conn |-> c] /\ state' = [state EXCEPT ![c] = "disconnected"]
  BY Zenon DEF HandleClose
<1>3. conn = c
  BY Zenon DEF Good
<1>4. state'[c] = "disconnected" /\ \A b \in Conns \ {c} : state'[b] = state[b]
  BY <1>1, <1>2, Zenon DEF Types
<1>5. \A g \in Queued : Known(g) => Known(g)'
  BY <1>4, Zenon DEF Known, Exists
<1>6. Queue'
  BY <1>1, <1>5, QueuePlain, Zenon
<1>7. rest'.do = "closeCallback" /\ rest'.conn = c /\ rest' # Abort
  BY <1>2, Zenon DEF Abort
<1>8. Ready'
  BY Zenon DEF Ready
<1>9. Link'
  BY <1>1, <1>3, <1>4, <1>7, <1>8, Zenon DEF Link, Starting
<1>10. \A b \in Conns : state'[b] \in Open => conn' = b
  BY <1>4, Zenon DEF Good, Open
<1>11. QED
  BY <1>6, <1>7, <1>9, <1>10, Zenon DEF Good, Aborted

\* Functors and handlers of a connection.
LEMMA GoodConn ==
  ASSUME Inv, First, Lone, Good, late = {}, NEW c \in Conns, Functors(c) \/ Handlers(c)
  PROVE  Good'
<1> DEFINE idle == Functor("start", 0)
<1>0. Types /\ Sends /\ ConnInv /\ Queue /\ Link /\ c # 0 /\ c \in Nat
  BY Records, Zenon DEF Inv, Good
<1>1. UNCHANGED <<timers, chan, cstate, conn, tpc, stopped>>
  BY Zenon DEF Functors, Handlers, connectorVars, clientVars, connVars, SendFunctor, ShutdownFunctor,
         ForceCloseFunctor, ConnectDestroyed, HandleRead, HandleWrite, DelayTimer
<1>2. \A t \in Threads : tpc'[t].op \in ThreadOps
  BY <1>1, Zenon DEF Good
<1>3. idle \in Queued /\ idle.op # "resetChannel" /\ Known(idle)'
  BY Harmless, Zenon
<1> HIDE DEF idle
<1>4. batch \in Nat /\ batch - 0 = batch
  BY <1>0 DEF Sends
<1>5. ASSUME Functors(c) PROVE Good'
  <2>1. PICK op \in Ops \ {"resetChannel", "start"} : Calls(op, <<>>)
    BY <1>5, Zenon DEF Functors, SendFunctor, ShutdownFunctor, ForceCloseFunctor, ConnectDestroyed, Ops
  <2>2. /\ Moves(1, idle) /\ pending[1] = Head(pending) /\ pending[1].op = op /\ 1 \in 1 .. Len(pending)
        /\ phase = "functors" /\ batch' = batch - 1 /\ rest = Idle /\ seen' = seen /\ Len(pending) \in Nat
    BY <1>0, <1>3, <2>1, CallMoves, Zenon
  <2>3. ~Waits'
    BY <1>0, <2>1, CallsFirst, Zenon
  <2>4. ASSUME state' = state, rest' = rest PROVE Good'
    <3>1. \A b \in Conns : Exists(b)' <=> Exists(b)
      BY <2>4, Zenon DEF Exists
    <3>2. QED
      BY <1>1, <1>2, <1>3, <2>1, <2>2, <2>3, <2>4, <3>1, GoodSame, SMTT(30)
  <2>5. CASE SendFunctor(c) \/ ShutdownFunctor(c)
    BY <2>4, <2>5, Zenon DEF SendFunctor, ShutdownFunctor
  <2>6. CASE ForceCloseFunctor(c)
    <3>1. Calls("forceClose", <<>>) /\ Head(pending).conn = c
      BY <2>6, Zenon DEF ForceCloseFunctor
    <3>2. pending[1].op = "forceClose" /\ pending[1].conn = c
      BY <2>2, <3>1, Zenon DEF Calls
    <3>3. CASE state[c] \in Open
      <4>1. HandleClose(c)
        BY <2>6, <3>3, Zenon DEF ForceCloseFunctor, StillOpen
      <4>2. conn = c
        BY <3>3, Zenon DEF Good
      <4>3. \A j \in 1 .. Len(pending) : pending[j].op # "resetChannel"
        <5>1. ASSUME NEW j \in 1 .. Len(pending), pending[j].op = "resetChannel" PROVE FALSE
          <6>1. 1 < j
            BY <2>2, <3>2, <5>1
          <6>2. Before(pending[1])
            BY <1>0, <2>2, <5>1, <6>1 DEF Queue
          <6>3. QED
            BY <1>0, <3>2, <4>2, <6>2, Zenon DEF Before
        <5>2. QED
          BY <5>1, Zenon
      <4>4. chan # "off" /\ cstate # "connecting"
        BY <1>0, <4>2, <4>3, Zenon DEF Queue, Lone
      <4>5. Ready
        BY <1>0, <4>4, Zenon DEF Link, Ready
      <4>6. QED
        BY <1>1, <1>3, <2>1, <2>2, <2>3, <3>3, <4>1, <4>5, GoodClose, SMTT(30)
    <3>4. CASE state[c] \notin Open
      BY <2>4, <2>6, <3>4, Zenon DEF ForceCloseFunctor, StillOpen
    <3>5. QED
      BY <3>3, <3>4, Zenon
  <2>7. CASE ConnectDestroyed(c)
    <3>1. /\ Calls("connectDestroyed", <<>>) /\ Head(pending).conn = c /\ state' = state
          /\ rest' = IF events[c] = {} THEN Idle ELSE Abort
      BY <2>7, Zenon DEF ConnectDestroyed, connVars
    <3>2. pending[1].op = "connectDestroyed" /\ pending[1].conn = c
      BY <2>2, <3>1, Zenon DEF Calls
    <3>3. state[c] = "disconnected"
      BY <1>0, <2>2, <3>2, Zenon DEF Queue, Known
    <3>4. events[c] = {}
      BY <1>0, <3>3, Zenon DEF ConnInv, Down
    <3>5. QED
      BY <2>2, <2>4, <3>1, <3>4
  <2>8. QED
    BY <1>5, <2>5, <2>6, <2>7, Zenon DEF Functors
<1>6. CASE HandleRead(c)
  <2>1. HandleClose(c) /\ Handles(<<c, "close">>) /\ pending' = pending
    BY <1>6, Zenon DEF HandleRead
  <2>2. <<c, "close">> \in seen /\ seen' \subseteq seen /\ phase' = "handle"
    BY <2>1, Zenon DEF Handles
  <2>3. Exists(c) /\ state[c] # "disconnected"
    BY <1>0, <2>2, Zenon DEF ConnInv, Down
  <2>4. state[c] \in Open
    BY <1>0, <2>3, Zenon DEF Types, States, Open, Exists
  <2>5. conn = c /\ Ready
    BY <1>0, <2>2, <2>4, Zenon DEF Good, Link
  <2>6. Moves(0, idle) /\ (Waits' => Waits)
    BY <1>0, <1>3, <2>1, QueueMoves, Zenon DEF Waits
  <2>7. QED
    BY <1>1, <1>3, <2>1, <2>2, <2>4, <2>5, <2>6, GoodClose
<1>7. CASE HandleWrite(c)
  <2>1. \E s : Handles(s) /\ pending' = pending /\ rest' = rest /\ state' = state
    BY <1>7, Zenon DEF HandleWrite
  <2>2. seen' \subseteq seen /\ phase' = "handle"
    BY <2>1, Zenon DEF Handles
  <2>3. Moves(0, idle) /\ (Waits' => Waits)
    BY <1>0, <1>3, <2>1, QueueMoves, Zenon DEF Waits
  <2>4. \A b \in Conns : Exists(b)' <=> Exists(b)
    BY <2>1, Zenon DEF Exists
  <2>5. QED
    BY <1>1, <1>2, <1>3, <2>1, <2>2, <2>3, <2>4, GoodSame
<1>8. CASE DelayTimer(c)
  <2>1. /\ \E s : Handles(s)
        /\ rest' = rest
        /\ \/ pending' = pending /\ state' = state
           \/ /\ state[c] \in Open /\ state' = [state EXCEPT ![c] = "disconnecting"]
              /\ pending' = Append(pending, Functor("forceClose", c))
    BY <1>8, Zenon DEF DelayTimer
  <2>2. seen' \subseteq seen /\ phase' = "handle" /\ rest' = rest
    BY <2>1, Zenon DEF Handles
  <2>3. CASE pending' = pending /\ state' = state
    <3>1. Moves(0, idle) /\ (Waits' => Waits)
      BY <1>0, <1>3, <2>3, QueueMoves, Zenon DEF Waits
    <3>2. \A b \in Conns : Exists(b)' <=> Exists(b)
      BY <2>3, Zenon DEF Exists
    <3>3. QED
      BY <1>1, <1>2, <1>3, <2>2, <2>3, <3>1, <3>2, GoodSame
  <2>4. CASE /\ state[c] \in Open /\ state' = [state EXCEPT ![c] = "disconnecting"]
             /\ pending' = Append(pending, Functor("forceClose", c))
    <3>1. PICK f \in Queued : f.op = "forceClose" /\ f.conn = c /\ pending' = Append(pending, f)
      BY <1>0, <2>4, Records, Zenon DEF Ops, Functor
    <3>2. Moves(0, f) /\ (Waits' => Waits)
      BY <1>0, <3>1, QueueMoves, QueueFirst, Zenon
    <3>3. \A b \in Conns : /\ Exists(b)' <=> Exists(b)
                           /\ state'[b] = "disconnected" <=> state[b] = "disconnected"
      BY <1>0, <2>4, Zenon DEF Types, Exists, Open
    <3>4. Known(f)'
      BY <2>4, <3>1, <3>3, Zenon DEF Known, Exists, Open
    <3>5. QED
      BY <1>1, <1>2, <2>2, <3>1, <3>2, <3>3, <3>4, GoodSame
  <2>5. QED
    BY <2>1, <2>3, <2>4, Zenon
<1>9. QED
  BY <1>5, <1>6, <1>7, <1>8 DEF Handlers
\* Calls from callbacks and from other threads.
LEMMA GoodCalls ==
  ASSUME Inv, First, Good, NEW f \in Queued, f.op \notin {"start", "resetChannel"}, Known(f)',
         pending' \in {pending, Append(pending, f), pending \o <<f>>},
         UNCHANGED <<timers, chan, cstate, conn, rest, seen, phase, batch>>, stopped => stopped',
         \A t \in Threads : tpc'[t].op \in ThreadOps,
         \A c \in Conns : /\ Exists(c)' <=> Exists(c)
                          /\ state'[c] = "disconnected" <=> state[c] = "disconnected"
  PROVE  Good'
<1>1. Sends /\ batch \in Nat /\ batch' = batch - 0
  BY DEF Inv, Sends
<1>2. Moves(0, f) /\ (Waits' => Waits)
  BY <1>1, QueueMoves, QueueFirst, Zenon
<1>3. QED
  BY <1>1, <1>2, GoodSame

\* Callbacks and stop.
LEMMA GoodUser ==
  ASSUME Inv, First, Good, Stop \/ LoopDisconnect \/ \E c \in Conns : Callbacks(c)
  PROVE  Good'
<1>0. Types
  BY Zenon DEF Inv
<1>1. UNCHANGED <<timers, chan, cstate, conn, rest, seen, phase, batch, tpc>>
  BY Zenon DEF Stop, LoopDisconnect, Callbacks, InLoop, LoopSend, LoopShutdown, LoopForceClose,
         LoopForceCloseWithDelay, connectorVars, clientVars
<1>2. \A t \in Threads : tpc'[t].op \in ThreadOps
  BY <1>1, Zenon DEF Good
<1>3. stopped => stopped'
  BY Zenon DEF Stop, LoopDisconnect, Callbacks, clientVars
<1>4. \/ state' = state
      \/ \E b \in Conns : state[b] \in Open /\ state' = [state EXCEPT ![b] = "disconnecting"]
  <2>1. LoopDisconnect => \/ state' = state
                          \/ conn # 0 /\ state[conn] = "connected" /\ state' = [state EXCEPT ![conn] = "disconnecting"]
    BY Zenon DEF LoopDisconnect, LoopShutdown
  <2>2. conn # 0 => conn \in Conns
    BY Zenon DEF Inv, Busy
  <2>3. QED
    BY <2>1, <2>2, Zenon DEF Stop, Callbacks, LoopSend, LoopShutdown, LoopForceClose, LoopForceCloseWithDelay, Open
<1>5. \A b \in Conns : /\ Exists(b)' <=> Exists(b)
                       /\ state'[b] = "disconnected" <=> state[b] = "disconnected"
  BY <1>0, <1>4, Zenon DEF Types, Exists, Open
<1>6. PICK f \in Queued : /\ f.op \in {"send", "stop", "forceClose"}
                          /\ pending' \in {pending, Append(pending, f)}
                          /\ f.op = "stop" => stopped'
                          /\ f.conn # 0 => f.conn \in Conns /\ state[f.conn] \in Open
  <2>1. /\ \A op \in Ops : Functor(op, 0) \in Queued /\ Functor(op, 0).op = op /\ Functor(op, 0).conn = 0
        /\ \A op \in Ops, c \in Conns : Functor(op, c) \in Queued /\ Functor(op, c).op = op /\ Functor(op, c).conn = c
    BY Records DEF Functor
  <2>2. {"send", "stop", "forceClose"} \subseteq Ops
    BY Zenon DEF Ops
  <2>3. CASE pending' = pending
    BY <2>1, <2>2, <2>3
  <2>4. CASE Stop
    BY <2>1, <2>2, <2>4, Zenon DEF Stop
  <2>5. ASSUME NEW c \in Conns, Callbacks(c), pending' # pending
        PROVE  pending' = Append(pending, Functor("forceClose", c)) /\ state[c] \in Open
    BY <2>5, Zenon DEF Callbacks, LoopSend, LoopShutdown, LoopForceClose, LoopForceCloseWithDelay
  <2>6. LoopDisconnect => pending' = pending
    BY Zenon DEF LoopDisconnect, LoopShutdown
  <2>7. QED
    BY <2>1, <2>2, <2>3, <2>4, <2>5, <2>6
<1>7. Known(f)'
  BY <1>5, <1>6, Zenon DEF Known, Exists, Open
<1>8. QED
  BY <1>1, <1>2, <1>3, <1>5, <1>6, <1>7, GoodCalls, Zenon

\* What a call of another thread writes to tpc.
LEMMA ThreadCalls ==
  ASSUME Inv, NEW t \in Threads, \A u \in Threads : tpc[u].op \in ThreadOps,
         NEW op \in {"send", "shutdown", "forceClose"}, NEW c,
         Disconnect(t) \/ DisconnectLocked(t) \/ Return(t) \/ Call(t, op, c)
  PROVE  \A u \in Threads : tpc'[u].op \in ThreadOps
<1>1. tpc \in [Threads -> Queued]
  BY Zenon DEF Inv, Types
<1>2. NoCall.op \in ThreadOps /\ [NoCall EXCEPT !.op = "disconnect"].op \in ThreadOps
  BY Zenon DEF NoCall, ThreadOps
<1>3. \E call : tpc' = [tpc EXCEPT ![t] = call] /\ call.op \in ThreadOps
  <2>1. CASE Disconnect(t)
    <3>1. tpc[t] = NoCall /\ tpc' = [tpc EXCEPT ![t].op = "disconnect"]
      BY <2>1, Zenon DEF Disconnect
    <3>2. tpc' = [tpc EXCEPT ![t] = [NoCall EXCEPT !.op = "disconnect"]]
      BY <3>1, Zenon
    <3>3. QED
      BY <1>2, <3>2, Zenon
  <2>2. CASE DisconnectLocked(t)
    <3> DEFINE new == IF conn # 0 /\ state[conn] = "connected"
                      THEN [op |-> "shutdown", conn |-> conn, msg |-> 0]
                      ELSE NoCall
    <3>1. tpc' = [tpc EXCEPT ![t] = new]
      BY <2>2, Zenon DEF DisconnectLocked
    <3>2. new.op \in ThreadOps
      BY <1>2, Zenon DEF ThreadOps
    <3> HIDE DEF new
    <3>3. QED
      BY <3>1, <3>2, Zenon
  <2>3. CASE Return(t)
    BY <1>2, <2>3, Zenon DEF Return, Act
  <2>4. CASE Call(t, op, c)
    <3> DEFINE new == [op |-> op, conn |-> c, msg |-> calls']
    <3>1. tpc' = [tpc EXCEPT ![t] = new]
      BY <2>4, Zenon DEF Call, Test
    <3>2. new.op \in ThreadOps
      BY Zenon DEF ThreadOps
    <3> HIDE DEF new
    <3>3. QED
      BY <3>1, <3>2, Zenon
  <2>5. QED
    BY <2>1, <2>2, <2>3, <2>4
<1>4. QED
  BY <1>1, <1>3, Zenon

\* Other threads, while none of them is late.
LEMMA GoodThread ==
  ASSUME Inv, First, Good, late' = {}, NEW t \in Threads,
         NEW op \in {"send", "shutdown", "forceClose"}, NEW c,
         Disconnect(t) \/ DisconnectLocked(t) \/ Return(t) \/ Call(t, op, c)
  PROVE  Good'
<1>0. Types /\ Busy
  BY Zenon DEF Inv
<1>1. UNCHANGED <<timers, chan, cstate, conn, rest, seen, phase, batch, stopped>>
  BY Zenon DEF Disconnect, DisconnectLocked, Return, Call, netVars, connectorVars, clientVars
<1>2. \A u \in Threads : tpc'[u].op \in ThreadOps
  BY ThreadCalls, Zenon DEF Good
<1>3. CASE Return(t)
  <2>1. PICK f \in Queued : f = tpc[t] /\ f.conn # 0 /\ pending' = Append(pending, f)
    BY <1>0, <1>3, Zenon DEF Return, Act, Types
  <2>2. f.conn \in Conns /\ Exists(f.conn) /\ f.op \in ThreadOps
    BY <1>0, <2>1, Zenon DEF Busy, Good
  <2>3. \/ state' = state
        \/ /\ state' = [state EXCEPT ![f.conn] = "disconnecting"]
           /\ late' = IF state[f.conn] = "disconnected" THEN late \cup {f.conn} ELSE late
    BY <1>3, <2>1, Zenon DEF Return, Act
  <2>4. \A b \in Conns : /\ Exists(b)' <=> Exists(b)
                         /\ state'[b] = "disconnected" <=> state[b] = "disconnected"
    <3>1. CASE state' = state
      BY <3>1, Zenon DEF Exists
    <3>2. CASE /\ state' = [state EXCEPT ![f.conn] = "disconnecting"]
               /\ late' = IF state[f.conn] = "disconnected" THEN late \cup {f.conn} ELSE late
      <4>1. state[f.conn] # "disconnected"
        BY <3>2, Zenon
      <4>2. QED
        BY <1>0, <2>2, <3>2, <4>1 DEF Types, Exists
    <3>3. QED
      BY <2>3, <3>1, <3>2, Zenon
  <2>5. Known(f)'
    BY <2>2, <2>4, Zenon DEF Known, ThreadOps
  <2>6. QED
    BY <1>1, <1>2, <2>1, <2>2, <2>4, <2>5, GoodCalls, Zenon DEF ThreadOps
<1>4. CASE Disconnect(t) \/ DisconnectLocked(t) \/ Call(t, op, c)
  <2>1. pending' = pending /\ state' = state
    BY <1>4, Zenon DEF Disconnect, DisconnectLocked, Call, Test, netVars
  <2>2. PICK f \in Queued : f.op = "send" /\ f.conn = 0
    <3>1. Functor("send", 0) \in Queued /\ Functor("send", 0).op = "send" /\ Functor("send", 0).conn = 0
      BY Records DEF Ops, Functor
    <3>2. QED
      BY <3>1, Zenon
  <2>3. Known(f)'
    BY <2>2, Zenon DEF Known
  <2>4. \A b \in Conns : Exists(b)' <=> Exists(b)
    BY <2>1, Zenon DEF Exists
  <2>5. QED
    BY <1>1, <1>2, <2>1, <2>2, <2>3, <2>4, GoodCalls
<1>5. QED
  BY <1>3, <1>4, Zenon

\* late and revived are never taken back.
LEMMA Lasting ==
  ASSUME [Next]_vars PROVE late \subseteq late' /\ (revived => revived')
<1>1. CASE UNCHANGED vars
  BY <1>1, Zenon DEF vars, connVars, clientVars
<1>2. CASE LoopStep \/ ConnectorStep
  BY <1>2 DEF LoopStep, ConnectorStep, connVars, clientVars
<1>3. CASE ClientStep
  <2>1. CASE RestartConnector
    BY <2>1, Zenon DEF RestartConnector, connVars
  <2>2. CASE NewConnection \/ ConnectionUnwanted \/ RemoveConnection \/ ConnectorRestarted
    BY <2>2 DEF NewConnection, ConnectionUnwanted, RemoveConnection, ConnectorRestarted,
                ConnectEstablished, connVars, clientVars
  <2>3. QED
    BY <1>3, <2>1, <2>2, Zenon DEF ClientStep
<1>4. ASSUME NEW c \in Conns, Functors(c) \/ Handlers(c) \/ Callbacks(c)
      PROVE  late' = late /\ revived' = revived
  <2>1. CASE Functors(c)
    BY <2>1, Zenon DEF Functors, SendFunctor, ShutdownFunctor, ForceCloseFunctor, ConnectDestroyed, connVars,
                clientVars
  <2>2. CASE Handlers(c)
    BY <2>2, Zenon DEF Handlers, HandleRead, HandleWrite, DelayTimer, clientVars
  <2>3. CASE Callbacks(c)
    BY <2>3, Zenon DEF Callbacks, LoopSend, LoopShutdown, LoopForceClose, LoopForceCloseWithDelay, clientVars
  <2>4. QED
    BY <1>4, <2>1, <2>2, <2>3
<1>5. CASE Stop \/ LoopDisconnect
  BY <1>5 DEF Stop, LoopDisconnect, LoopShutdown
<1>6. ASSUME NEW t \in Threads, \/ Disconnect(t) \/ DisconnectLocked(t) \/ Return(t)
                                \/ \E op \in {"send", "shutdown", "forceClose"}, c \in Conns : Call(t, op, c)
      PROVE  late \subseteq late' /\ (revived => revived')
  BY <1>6 DEF Disconnect, DisconnectLocked, Return, Act, Call, Test, clientVars
<1>7. QED
  BY <1>1, <1>2, <1>3, <1>4, <1>5, <1>6 DEF Next

\* No assertion of Connector, TcpConnection or TcpClient fails, for any number
\* of threads, calls and connections, while no call is late and restart() has
\* not undone a stop(): the Channel of the last attempt is reset before the
\* next poll, and with it before anything can close the connection it led to.
THEOREM NoneAborts == Spec => []NoAbort
<1> DEFINE Sound == Inv /\ Held /\ First /\ Lone /\ (late = {} /\ ~revived => Good)
<1>1. Sound => NoAbort
  BY Zenon DEF NoAbort, Good
<1>2. Init => Sound
  <2> SUFFICES ASSUME Init PROVE Held /\ First /\ Lone /\ Good
    BY InvInit, Zenon
  <2>1. /\ pending = <<Functor("start", 0)>> /\ seen = {} /\ rest = Idle /\ batch = 0
        /\ rest.do = "nothing" /\ Len(pending) = 1 /\ pending[1] = Functor("start", 0)
    BY Zenon DEF Init, NetInit, Idle
  <2>2. /\ timers = 0 /\ chan = "none" /\ cstate = "disconnected" /\ conn = 0
        /\ \A c \in Conns : state[c] = "none"
        /\ \A t \in Threads : tpc[t].op = "none"
    BY Zenon DEF Init, ConnectorInit, ConnInit, NoCall
  <2>3. First /\ Lone
    <3>1. First
      BY <2>1, <2>2 DEF First
    <3>2. Lone
      BY <2>1, <2>2 DEF Lone, Free, Starting
    <3>3. QED
      BY <3>1, <3>2, Zenon
  <2>4. Held
    BY <2>2 DEF Held, Init
  <2>5. Functor("start", 0).op = "start" /\ Functor("start", 0).conn = 0
    BY Zenon DEF Functor
  <2>6. Queue
    <3>1. \A i \in 1 .. Len(pending) : i = 1 /\ pending[i].op = "start" /\ pending[i].conn = 0
      BY <2>1, <2>5
    <3>2. QED
      BY <2>2, <3>1, Zenon DEF Queue, Known
  <2>7. Link
    BY <2>1, <2>2, Zenon DEF Link, Starting
  <2>8. Good
    BY <2>1, <2>2, <2>6, <2>7 DEF Good, Aborted, Idle, Abort, Open, ThreadOps
  <2>9. QED
    BY <2>3, <2>4, <2>8, Zenon
<1>3. Sound /\ [Next]_vars => Sound'
  <2> SUFFICES ASSUME Inv, Held, First, Lone, late = {} /\ ~revived => Good, [Next]_vars
               PROVE  Sound'
    BY Zenon
  <2>1. Inv' /\ Held' /\ First' /\ Lone'
    BY InvStep, HeldStep, LoneStep, Zenon
  <2>2. ASSUME late' = {}, ~revived' PROVE Good'
    <3>1. late = {} /\ ~revived /\ Good
      BY <2>2, Lasting, Zenon
    <3>2. CASE UNCHANGED vars
      BY <3>1, <3>2, Zenon DEF vars, netVars, connVars, connectorVars, clientVars, Good, Queue, Link, Known,
                        Before, Ready, Waits, Exists, Aborted
    <3>3. CASE LoopStep \/ ConnectorStep \/ ClientStep
      BY <3>1, <3>3, GoodLoop, GoodConnector, GoodClient
    <3>4. CASE \E c \in Conns : Functors(c) \/ Handlers(c)
      BY <3>1, <3>4, GoodConn, Zenon
    <3>5. CASE Stop \/ LoopDisconnect \/ \E c \in Conns : Callbacks(c)
      BY <3>1, <3>5, GoodUser, Zenon
    <3>6. ASSUME NEW t \in Threads, \/ Disconnect(t) \/ DisconnectLocked(t) \/ Return(t)
                                    \/ \E op \in {"send", "shutdown", "forceClose"}, c \in Conns : Call(t, op, c)
          PROVE  Good'
      BY <2>2, <3>1, <3>6, GoodThread, Zenon
    <3>7. QED
      BY <3>2, <3>3, <3>4, <3>5, <3>6 DEF Next
  <2>3. QED
    BY <2>1, <2>2, Zenon
<1>4. QED
  BY <1>1, <1>2, <1>3, PTL DEF Spec

=============================================================================
