--------------------------- MODULE TcpClientProofs --------------------------
(* Proofs about TcpClient, for any number of threads, connections and calls. *)
EXTENDS TcpClient, FiniteSetTheorems, TLAPS

States == {"none", "connected", "disconnecting", "disconnected"}
Ops == {"none", "disconnect", "send", "shutdown", "forceClose", "connectDestroyed",
        "start", "stop", "resetChannel"}
Queued == [op : Ops, conn : Nat, msg : Nat]
Rests == [do : {"nothing", "abort", "closeCallback", "restart", "startInLoop"}, conn : Nat]

Types ==
    /\ state \in [Conns -> States]
    /\ events \in [Conns -> SUBSET {"read", "write"}]
    /\ downs \in [Conns -> Nat]
    /\ tpc \in [Threads -> Queued]
    /\ rest \in Rests
    /\ calls \in Nat /\ conn \in Nat
    /\ late \subseteq Conns

Exists(c) == state[c] # "none"

\* The client's connection_ and the calls under way are about connections
\* that were made,
Busy ==
    /\ conn # 0 => conn \in Conns
    /\ \A t \in Threads : tpc[t].conn # 0 => tpc[t].conn \in Conns /\ Exists(tpc[t].conn)

\* and so are the sends that are pending.
Sends ==
    /\ pending \in Seq(Queued) /\ batch \in Nat /\ batch <= Len(pending)
    /\ \A i \in 1 .. Len(pending) :
          pending[i].op = "send" => pending[i].conn \in Conns /\ Exists(pending[i].conn)

\* Connections are made in the order of their numbers.
InTurn == \A b, c \in Conns : b <= c /\ Exists(c) => Exists(b)

\* What a connection's state says about its past and its Channel: while it is
\* not closed it was not reported down, and once it is closed the Channel is
\* off and nothing of it is left to handle.
Down(c) ==
    /\ c \in late \/ events[c] # {} \/ <<c, "close">> \in seen => Exists(c)
    /\ c \notin late =>
          /\ events[c] # {} \/ <<c, "close">> \in seen => state[c] # "disconnected"
          /\ downs[c] <= 1
          /\ state[c] # "disconnected" => downs[c] = 0

ConnInv ==
    /\ phase = "functors" => seen = {}
    /\ \A c \in Conns : Down(c)

-----------------------------------------------------------------------------
\* A step that closes no connection, makes none and registers nothing: it may
\* enable the Channel of an open connection, and set the state of one that
\* counts as late from then on.
Soft ==
    /\ downs' = downs /\ late \subseteq late' /\ seen' \subseteq seen
    /\ phase' = "functors" => seen' = {}
    /\ \A c \in Conns :
          /\ Exists(c)' <=> Exists(c)
          /\ c \in late' => c \in late \/ Exists(c)
          /\ c \notin late' => (state'[c] = "disconnected" <=> state[c] = "disconnected")
          /\ events'[c] # {} => events[c] # {} \/ (Exists(c) /\ state[c] # "disconnected")

\* Such a step keeps what is known of the connections.
LEMMA SoftKeeps == ConnInv /\ Soft => ConnInv'
<1> SUFFICES ASSUME ConnInv, Soft PROVE ConnInv'
  BY Zenon
<1>1. ASSUME NEW c \in Conns PROVE Down(c)'
  <2>1. Down(c) /\ downs' = downs
    BY Zenon DEF ConnInv, Soft
  <2>2. (c \in late => c \in late') /\ (<<c, "close">> \in seen' => <<c, "close">> \in seen)
    BY Zenon DEF Soft
  <2>3. /\ Exists(c)' <=> Exists(c)
        /\ c \in late' => c \in late \/ Exists(c)
        /\ c \notin late' => (state'[c] = "disconnected" <=> state[c] = "disconnected")
        /\ events'[c] # {} => events[c] # {} \/ (Exists(c) /\ state[c] # "disconnected")
    BY Zenon DEF Soft
  <2>4. c \in late' \/ events'[c] # {} \/ <<c, "close">> \in seen' => Exists(c)'
    BY <2>1, <2>2, <2>3, Zenon DEF Down
  <2>5. c \notin late' => /\ events'[c] # {} \/ <<c, "close">> \in seen' => state'[c] # "disconnected"
                          /\ downs'[c] <= 1
                          /\ state'[c] # "disconnected" => downs'[c] = 0
    BY <2>1, <2>2, <2>3, Zenon DEF Down
  <2>6. QED
    BY <2>4, <2>5, Zenon DEF Down
<1>2. phase' = "functors" => seen' = {}
  BY Zenon DEF Soft
<1>3. QED
  BY <1>1, <1>2, Zenon DEF ConnInv

\* handleClose, of a connection that is not closed yet or is late.
LEMMA CloseKeeps ==
  ASSUME Types, ConnInv, NEW c \in Conns, HandleClose(c), Exists(c),
         c \in late \/ state[c] # "disconnected", <<c, "close">> \notin seen',
         late' = late, seen' \subseteq seen, phase' = "functors" => seen' = {}
  PROVE  ConnInv'
<1>1. /\ state' = [state EXCEPT ![c] = "disconnected"]
      /\ events' = [events EXCEPT ![c] = {}]
      /\ downs' = [downs EXCEPT ![c] = @ + 1]
  BY Zenon DEF HandleClose
<1>2. /\ state'[c] = "disconnected" /\ events'[c] = {} /\ downs'[c] = downs[c] + 1
      /\ \A b \in Conns \ {c} : state'[b] = state[b] /\ events'[b] = events[b] /\ downs'[b] = downs[b]
  BY <1>1, Zenon DEF Types
<1>3. Down(c)'
  <2>1. c \notin late => downs[c] = 0
    BY Zenon DEF ConnInv, Down
  <2>2. QED
    BY <1>2, <2>1 DEF Down, Exists
<1>4. \A b \in Conns \ {c} : Down(b)'
  BY <1>2, Zenon DEF ConnInv, Down, Exists
<1>5. QED
  BY <1>3, <1>4, Zenon DEF ConnInv

\* The number of connections made is the number of the last, as they are made
\* in turn.
LEMMA NextInTurn ==
  ASSUME Types, InTurn, Made < MaxConns
  PROVE  /\ Made + 1 \in Conns /\ ~Exists(Made + 1)
         /\ \A b \in Conns : b <= Made => Exists(b)
<1> DEFINE D == {c \in Conns : state[c] # "none"}
<1>0. MaxConns \in Nat
  BY ConnAssumption, Zenon
<1>1. \A n \in Nat : IsFiniteSet(1 .. n) /\ Cardinality(1 .. n) = n
  <2>1. ASSUME NEW n \in Nat PROVE IsFiniteSet(1 .. n) /\ Cardinality(1 .. n) = n
    <3>1. IsFiniteSet(1 .. n) /\ Cardinality(1 .. n) = IF 1 > n THEN 0 ELSE n - 1 + 1
      BY FS_Interval
    <3>2. QED
      BY <3>1
  <2>2. QED
    BY <2>1, Zenon
<1>2. IsFiniteSet(D) /\ Cardinality(D) \in Nat /\ Made = Cardinality(D)
  <2>1. D \subseteq 1 .. MaxConns /\ IsFiniteSet(1 .. MaxConns)
    BY <1>0, <1>1, Zenon DEF Conns
  <2>2. IsFiniteSet(D)
    BY <2>1, FS_Subset, Zenon
  <2>3. QED
    BY <2>2, FS_CardinalityType, Zenon DEF Made
<1>3. Made + 1 \in Conns
  BY <1>0, <1>2 DEF Conns
<1>4. ~Exists(Made + 1)
  <2>1. SUFFICES ASSUME Exists(Made + 1) PROVE FALSE
    BY Zenon
  <2>2. 1 .. Made + 1 \subseteq D
    BY <1>0, <1>2, <1>3, <2>1 DEF InTurn, Exists, Conns
  <2>3. Cardinality(1 .. Made + 1) <= Cardinality(D)
    BY <1>2, <2>2, FS_Subset, Zenon
  <2>4. Cardinality(1 .. Made + 1) = Made + 1
    BY <1>1, <1>2
  <2>5. QED
    BY <1>2, <2>3, <2>4
<1>5. ASSUME NEW b \in Conns, b <= Made PROVE Exists(b)
  <2>1. SUFFICES ASSUME ~Exists(b) PROVE FALSE
    BY Zenon
  <2>2. b \in Nat /\ b - 1 \in Nat
    BY <1>0 DEF Conns
  <2>3. D \subseteq 1 .. b - 1
    BY <1>0, <2>1, <2>2 DEF InTurn, Exists, Conns
  <2>4. Cardinality(D) <= Cardinality(1 .. b - 1) /\ Cardinality(1 .. b - 1) = b - 1
    BY <1>1, <2>2, <2>3, FS_Subset, Zenon
  <2>5. QED
    BY <1>2, <1>5, <2>2, <2>4
<1>6. QED
  BY <1>3, <1>4, <1>5, Zenon

-----------------------------------------------------------------------------
\* Connections do not go back to not having been made.
Kept == \A c \in Conns : Exists(c) => Exists(c)'

\* The pending functors are left alone, or one is queued.
LEMMA QueueKeeps ==
  ASSUME Sends, Kept, batch' = batch, NEW f \in Queued,
         f.op = "send" => f.conn \in Conns /\ state'[f.conn] # "none",
         pending' \in {pending, Append(pending, f), pending \o <<f>>}
  PROVE  Sends'
<1> DEFINE n == Len(pending)
<1>1. n \in Nat /\ pending \in Seq(Queued) /\ batch \in Nat /\ batch <= n
  BY DEF Sends
<1>2. ASSUME pending' = pending PROVE Sends'
  BY <1>2, Zenon DEF Sends, Kept, Exists
<1>3. ASSUME pending' = Append(pending, f) PROVE Sends'
  <2>1. /\ pending' \in Seq(Queued) /\ Len(pending') = n + 1 /\ pending'[n + 1] = f
        /\ \A i \in 1 .. n : pending'[i] = pending[i]
        /\ \A i \in 1 .. n + 1 : i \in 1 .. n \/ i = n + 1
    BY <1>1, <1>3
  <2>2. batch' <= n + 1
    BY <1>1
  <2>3. ASSUME NEW i \in 1 .. n + 1, pending'[i].op = "send"
        PROVE  pending'[i].conn \in Conns /\ state'[pending'[i].conn] # "none"
    <3>1. CASE i \in 1 .. n
      BY <2>1, <2>3, <3>1, Zenon DEF Sends, Kept, Exists
    <3>2. CASE i = n + 1
      BY <2>1, <2>3, <3>2, Zenon
    <3>3. QED
      BY <2>1, <3>1, <3>2, Zenon
  <2>4. QED
    BY <1>1, <2>1, <2>2, <2>3, Zenon DEF Sends, Exists
<1>4. pending \o <<f>> = Append(pending, f)
  BY <1>1
<1>5. QED
  BY <1>2, <1>3, <1>4, Zenon

\* The first of the pending functors is called, and queues none or one.
LEMMA CallsKeeps ==
  ASSUME Sends, Kept, NEW op, NEW more, Calls(op, more),
         more = <<>> \/ \E f \in Queued : more = <<f>> /\ f.op # "send"
  PROVE  Sends' /\ Head(pending) \in Queued /\ Head(pending).op = op
                /\ (op = "send" => Head(pending).conn \in Conns /\ Exists(Head(pending).conn))
<1> DEFINE n == Len(pending)
<1>1. /\ batch > 0 /\ batch' = batch - 1 /\ pending' = Tail(pending) \o more /\ Head(pending).op = op
  BY Zenon DEF Calls
<1>2. /\ n \in Nat /\ n >= 1 /\ batch' \in Nat /\ batch' <= n - 1 /\ pending # <<>>
      /\ pending \in Seq(Queued) /\ Head(pending) = pending[1] /\ 1 \in 1 .. n
  BY <1>1 DEF Sends
<1>3. /\ Tail(pending) \in Seq(Queued) /\ Len(Tail(pending)) = n - 1
      /\ \A i \in 1 .. n - 1 : i + 1 \in 1 .. n /\ Tail(pending)[i] = pending[i + 1]
  BY <1>2
<1>4. \A i \in 1 .. n - 1 : Tail(pending)[i].op = "send" =>
          Tail(pending)[i].conn \in Conns /\ state'[Tail(pending)[i].conn] # "none"
  BY <1>3, Zenon DEF Sends, Kept, Exists
<1>5. /\ Head(pending) \in Queued /\ Head(pending).op = op
      /\ op = "send" => Head(pending).conn \in Conns /\ Exists(Head(pending).conn)
  BY <1>1, <1>2 DEF Sends
<1>6. ASSUME more = <<>> PROVE Sends'
  <2>1. pending' = Tail(pending)
    BY <1>1, <1>3, <1>6
  <2>2. Len(pending') = n - 1 /\ pending' \in Seq(Queued)
    BY <1>3, <2>1, Zenon
  <2>3. \A i \in 1 .. Len(pending') : pending'[i].op = "send" =>
            pending'[i].conn \in Conns /\ state'[pending'[i].conn] # "none"
    BY <1>3, <1>4, <2>1, Zenon
  <2>4. batch' \in Nat /\ batch' <= Len(pending')
    BY <1>2, <2>2, Zenon
  <2>5. QED
    BY <2>2, <2>3, <2>4, Zenon DEF Sends, Exists
<1>7. ASSUME \E f \in Queued : more = <<f>> /\ f.op # "send" PROVE Sends'
  <2>1. PICK f \in Queued : more = <<f>> /\ f.op # "send"
    BY <1>7, Zenon
  <2> DEFINE q == Tail(pending)
  <2>2. q \in Seq(Queued) /\ Len(q) = n - 1 /\ pending' = q \o <<f>>
    BY <1>1, <1>3, <2>1, Zenon
  <2>3. \A i \in 1 .. n - 1 : q[i].op = "send" => q[i].conn \in Conns /\ state'[q[i].conn] # "none"
    BY <1>4, Zenon
  <2> HIDE DEF q
  <2>4. /\ pending' \in Seq(Queued) /\ Len(pending') = n /\ pending'[n] = f
        /\ \A i \in 1 .. n - 1 : pending'[i] = q[i]
        /\ \A i \in 1 .. n : i \in 1 .. n - 1 \/ i = n
    BY <1>2, <2>2
  <2>5. batch' <= n
    BY <1>2
  <2>6. \A i \in 1 .. n : pending'[i].op = "send" =>
            pending'[i].conn \in Conns /\ state'[pending'[i].conn] # "none"
    BY <2>1, <2>3, <2>4, Zenon
  <2>7. QED
    BY <1>2, <2>4, <2>5, <2>6, Zenon DEF Sends, Exists
<1>8. QED
  BY <1>5, <1>6, <1>7, Zenon

-----------------------------------------------------------------------------
Inv == Types /\ Sends /\ Busy /\ InTurn /\ ConnInv

\* What the model's constants are made of.
LEMMA Records ==
  /\ Idle \in Rests /\ Abort \in Rests
  /\ [Idle EXCEPT !.do = "restart"] \in Rests /\ [Idle EXCEPT !.do = "startInLoop"] \in Rests
  /\ NoCall \in Queued /\ NoCall.conn = 0
  /\ ResetChannelFunctor \in Queued /\ ResetChannelFunctor.op = "resetChannel"
  /\ \A op \in Ops, c \in Nat : Functor(op, c) \in Queued /\ Functor(op, c).op = op
  /\ \A c \in Conns : c \in Nat /\ c # 0
<1>1. Idle \in Rests /\ Abort \in Rests
  BY Zenon DEF Idle, Abort, Rests
<1>2. [Idle EXCEPT !.do = "restart"] \in Rests /\ [Idle EXCEPT !.do = "startInLoop"] \in Rests
  BY Zenon DEF Idle, Rests
<1>3. NoCall \in Queued /\ NoCall.conn = 0
  BY Zenon DEF NoCall, Queued, Ops
<1>4. ResetChannelFunctor \in Queued /\ ResetChannelFunctor.op = "resetChannel"
  BY Zenon DEF ResetChannelFunctor, Queued, Ops
<1>5. \A op \in Ops, c \in Nat : Functor(op, c) \in Queued /\ Functor(op, c).op = op
  BY Zenon DEF Functor, Queued
<1>6. \A c \in Conns : c \in Nat /\ c # 0
  BY ConnAssumption DEF Conns
<1>7. QED
  BY <1>1, <1>2, <1>3, <1>4, <1>5, <1>6

\* A step that makes no connection and leaves the calls under way alone.
LEMMA SameMade ==
  ASSUME Busy, InTurn, \A c \in Conns : Exists(c)' <=> Exists(c), conn' \in {conn, 0}, tpc' = tpc
  PROVE  Busy' /\ InTurn' /\ Kept
BY Zenon DEF Busy, InTurn, Kept, Exists

\* A step that leaves the connections alone altogether.
LEMMA QuietKeeps ==
  ASSUME Inv, UNCHANGED <<state, events, downs, late, tpc, calls>>, conn' \in {conn, 0},
         seen' \subseteq seen, phase' = "functors" => seen' = {},
         rest' \in Rests, Sends'
  PROVE  Inv'
<1>1. \A c \in Conns : Exists(c)' <=> Exists(c)
  BY Zenon DEF Exists
<1>2. Busy' /\ InTurn'
  BY <1>1, SameMade, Zenon DEF Inv
<1>3. Soft
  BY <1>1, Zenon DEF Soft
<1>4. ConnInv'
  BY <1>3, SoftKeeps, Zenon DEF Inv
<1>5. Types'
  BY DEF Inv, Types
<1>6. QED
  BY <1>2, <1>4, <1>5, Zenon DEF Inv

\* The handler of a source, or a functor, has nothing new to handle.
LEMMA HandlerKeepsSeen ==
  /\ \A s : Handles(s) => /\ seen' \subseteq seen /\ (phase' = "functors" => seen' = {})
                          /\ batch' = batch
  /\ ConnInv => \A op, more : Calls(op, more) => /\ seen' \subseteq seen
                                                 /\ (phase' = "functors" => seen' = {})
BY Zenon DEF Handles, Calls, ConnInv

\* poll registers what the Channels are enabled for.
LEMMA LoopKeeps == Inv /\ LoopStep => Inv'
<1> SUFFICES ASSUME Inv, LoopStep PROVE Inv'
  BY Zenon
<1> USE DEF connVars, clientVars, connectorVars
<1>1. UNCHANGED <<state, events, downs, late, tpc, calls, conn, rest, pending>>
  BY Zenon DEF LoopStep, Poll, SwapFunctors
<1>2. Kept
  BY <1>1, Zenon DEF Kept, Exists
<1>3. CASE SwapFunctors
  <2>1. seen' = {} /\ batch' = Len(pending)
    BY <1>3, Zenon DEF SwapFunctors
  <2>2. Sends'
    BY <1>1, <2>1 DEF Inv, Sends, Exists
  <2>3. rest' \in Rests
    BY <1>1, Zenon DEF Inv, Types
  <2>4. QED
    BY <1>1, <2>1, <2>2, <2>3, QuietKeeps, Zenon
<1>4. CASE Poll(Sources)
  <2>1. phase' = "handle" /\ seen' = Sources /\ batch' = batch
    BY <1>4, Zenon DEF Poll
  <2>2. \A c \in Conns : <<c, "close">> \in Sources => events[c] # {}
    BY Records, Zenon DEF Sources, ConnSources
  <2>3. Types' /\ Sends' /\ Busy' /\ InTurn'
    BY <1>1, <2>1, Zenon DEF Inv, Types, Sends, Busy, InTurn, Exists
  <2>4. ASSUME NEW c \in Conns PROVE Down(c)'
    <3>1. Down(c) /\ (<<c, "close">> \in seen' => events[c] # {})
      BY <2>1, <2>2, Zenon DEF Inv, ConnInv
    <3>2. QED
      BY <1>1, <3>1, Zenon DEF Down, Exists
  <2>5. QED
    BY <2>1, <2>3, <2>4, Zenon DEF Inv, ConnInv
<1>5. QED
  BY <1>3, <1>4, Zenon DEF LoopStep

\* The Connector's steps do not touch the connections.
LEMMA ConnectorKeeps == Inv /\ ConnectorStep => Inv'
<1> SUFFICES ASSUME Inv, ConnectorStep PROVE Inv'
  BY Zenon
<1> USE DEF connVars, clientVars
<1>1. UNCHANGED <<state, events, downs, late, tpc, calls, conn>>
  BY Zenon DEF ConnectorStep
<1>2. Kept
  BY <1>1, Zenon DEF Kept, Exists
<1>3. rest' \in Rests
  <2>1. rest' \in {rest, Idle, Abort}
    BY Zenon DEF ConnectorStep, StartFunctor, RetryTimer, StopFunctor, ResetChannel, ConnectFails, StartInLoop
  <2>2. QED
    BY <2>1, Records, Zenon DEF Inv, Types
<1>4. Sends' /\ seen' \subseteq seen /\ (phase' = "functors" => seen' = {})
  <2>0. Sends /\ ConnInv
    BY Zenon DEF Inv
  <2>1. CASE StartFunctor \/ ResetChannel
    BY <1>2, <2>0, <2>1, CallsKeeps, HandlerKeepsSeen, Zenon DEF StartFunctor, ResetChannel
  <2>2. CASE StopFunctor
    <3> DEFINE more == IF cstate = "connecting" THEN RemoveAndResetChannel ELSE <<>>
    <3>1. Calls("stop", more)
      BY <2>2, Zenon DEF StopFunctor
    <3>2. more = <<>> \/ \E f \in Queued : more = <<f>> /\ f.op # "send"
      BY Records, Zenon DEF RemoveAndResetChannel
    <3> HIDE DEF more
    <3>3. QED
      BY <1>2, <2>0, <3>1, <3>2, CallsKeeps, HandlerKeepsSeen, Zenon
  <2>3. CASE RetryTimer
    <3>1. pending' = pending /\ Handles(<<0, "retry">>)
      BY <2>3, Zenon DEF RetryTimer
    <3>2. batch' = batch /\ seen' \subseteq seen /\ (phase' = "functors" => seen' = {})
      BY <3>1, HandlerKeepsSeen, Zenon
    <3>3. Sends'
      BY <1>2, <2>0, <3>1, <3>2, Records, QueueKeeps
    <3>4. QED
      BY <3>2, <3>3, Zenon
  <2>4. CASE ConnectFails
    <3>1. pending' = pending \o <<ResetChannelFunctor>> /\ Handles(<<0, "connect">>)
      BY <2>4, Zenon DEF ConnectFails, RemoveAndResetChannel
    <3>2. batch' = batch /\ seen' \subseteq seen /\ (phase' = "functors" => seen' = {})
      BY <3>1, HandlerKeepsSeen, Zenon
    <3>3. Sends'
      BY <1>2, <2>0, <3>1, <3>2, Records, QueueKeeps
    <3>4. QED
      BY <3>2, <3>3, Zenon
  <2>5. QED
    BY <2>1, <2>2, <2>3, <2>4, Zenon DEF ConnectorStep
<1>5. QED
  BY <1>1, <1>3, <1>4, QuietKeeps, Zenon

-----------------------------------------------------------------------------
\* TcpClient's part of making, removing and restarting a connection.
LEMMA ClientKeeps == Inv /\ ClientStep => Inv'
<1> SUFFICES ASSUME Inv, ClientStep PROVE Inv'
  BY Zenon
<1> USE DEF connVars, clientVars
<1>0. Types /\ Sends /\ Busy /\ InTurn /\ ConnInv
  BY Zenon DEF Inv
<1>1. CASE NewConnection
  <2> DEFINE new == Made + 1
  <2>1. new \in Conns /\ ~Exists(new) /\ \A b \in Conns : b <= Made => Exists(b)
    BY <1>0, <1>1, NextInTurn, Zenon DEF NewConnection
  <2>2. /\ state' = [state EXCEPT ![new] = "connected"]
        /\ events' = [events EXCEPT ![new] = {"read"}]
        /\ UNCHANGED <<tpc, calls, downs, late, rest>> /\ conn' = new
        /\ pending' = pending \o <<ResetChannelFunctor>> /\ Handles(<<0, "connect">>)
    BY <1>1, Zenon DEF NewConnection, ConnectEstablished, ConnectSucceeds, RemoveAndResetChannel
  <2>3. \A b, c \in Conns : b <= c /\ c = new => b <= Made \/ b = new
    <3>1. Conns \subseteq Nat
      BY Records, Zenon
    <3>2. \A b, c \in Nat, m \in Int : b <= c /\ c = m + 1 => b <= m \/ b = m + 1
      OBVIOUS
    <3>3. Made \in Int
      <4>1. IsFiniteSet({c \in Conns : state[c] # "none"})
        <5>1. IsFiniteSet(Conns)
          BY ConnAssumption, FS_Interval DEF Conns
        <5>2. QED
          BY <5>1, FS_Subset, Zenon
      <4>2. QED
        BY <4>1, FS_CardinalityType DEF Made
    <3>4. QED
      BY <3>1, <3>2, <3>3, Zenon
  <2> HIDE DEF new
  <2>4. /\ state'[new] = "connected" /\ events'[new] = {"read"}
        /\ \A c \in Conns \ {new} : state'[c] = state[c] /\ events'[c] = events[c]
    BY <1>0, <2>1, <2>2, Zenon DEF Types
  <2>5. Kept
    BY <2>4, Zenon DEF Kept, Exists
  <2>6. batch' = batch /\ seen' \subseteq seen /\ (phase' = "functors" => seen' = {})
    BY <2>2, HandlerKeepsSeen, Zenon
  <2>7. Sends'
    BY <1>0, <2>2, <2>5, <2>6, Records, QueueKeeps, Zenon
  <2>8. Types'
    BY <1>0, <2>1, <2>2, Records, Zenon DEF Types, States
  <2>9. Busy'
    BY <1>0, <2>1, <2>2, <2>5, Zenon DEF Busy, Kept, Exists
  <2>10. InTurn'
    BY <1>0, <2>1, <2>3, <2>4 DEF InTurn, Exists
  <2>11. ASSUME NEW c \in Conns PROVE Down(c)'
    <3>1. Down(c) /\ (<<c, "close">> \in seen' => <<c, "close">> \in seen)
      BY <1>0, <2>6, Zenon DEF ConnInv
    <3>2. CASE c = new
      BY <2>1, <2>2, <2>4, <3>1, <3>2, Zenon DEF Down, Exists
    <3>3. CASE c # new
      BY <2>2, <2>4, <3>1, <3>3, Zenon DEF Down, Exists
    <3>4. QED
      BY <3>2, <3>3, Zenon
  <2>12. QED
    BY <2>6, <2>7, <2>8, <2>9, <2>10, <2>11, Zenon DEF Inv, ConnInv
<1>2. CASE ConnectionUnwanted
  <2>1. /\ UNCHANGED <<state, events, downs, late, tpc, calls, conn, rest>>
        /\ pending' = pending \o <<ResetChannelFunctor>> /\ Handles(<<0, "connect">>)
    BY <1>2, Zenon DEF ConnectionUnwanted, ConnectSucceeds, RemoveAndResetChannel
  <2>2. Kept
    BY <2>1, Zenon DEF Kept, Exists
  <2>3. batch' = batch /\ seen' \subseteq seen /\ (phase' = "functors" => seen' = {})
    BY <2>1, HandlerKeepsSeen, Zenon
  <2>4. Sends'
    BY <1>0, <2>1, <2>2, <2>3, Records, QueueKeeps, Zenon
  <2>5. rest' \in Rests
    BY <1>0, <2>1, Zenon DEF Types
  <2>6. QED
    BY <2>1, <2>3, <2>4, <2>5, QuietKeeps, Zenon
<1>3. CASE RemoveConnection
  <2>1. /\ UNCHANGED <<state, events, downs, late, tpc, calls, phase, seen, batch>> /\ conn' = 0
        /\ pending' = Append(pending, Functor("connectDestroyed", rest.conn))
        /\ rest' \in {Abort, Idle, [Idle EXCEPT !.do = "restart"]}
    BY <1>3, Zenon DEF RemoveConnection
  <2>2. Kept
    BY <2>1, Zenon DEF Kept, Exists
  <2>3. /\ Functor("connectDestroyed", rest.conn) \in Queued
        /\ Functor("connectDestroyed", rest.conn).op # "send"
    <3>1. rest.conn \in Nat
      BY <1>0, Zenon DEF Types, Rests
    <3>2. QED
      BY <3>1, Records, Zenon DEF Ops
  <2>4. Sends'
    BY <1>0, <2>1, <2>2, <2>3, QueueKeeps, Zenon
  <2>5. rest' \in Rests
    BY <2>1, Records, Zenon
  <2>6. phase' = "functors" => seen' = {}
    BY <1>0, <2>1, Zenon DEF ConnInv
  <2>7. QED
    BY <2>1, <2>4, <2>5, <2>6, QuietKeeps
<1>4. CASE RestartConnector \/ ConnectorRestarted
  <2>1. /\ UNCHANGED <<state, events, downs, late, tpc, calls, phase, seen, batch, pending, conn>>
        /\ rest' \in {Abort, Idle, [Idle EXCEPT !.do = "startInLoop"]}
    BY <1>4, Zenon DEF RestartConnector, ConnectorRestarted, Restart, Restarted, StartInLoop
  <2>2. Kept
    BY <2>1, Zenon DEF Kept, Exists
  <2>3. Sends'
    BY <1>0, <2>1, <2>2, Records, QueueKeeps, Zenon
  <2>4. rest' \in Rests
    BY <2>1, Records, Zenon
  <2>5. phase' = "functors" => seen' = {}
    BY <1>0, <2>1, Zenon DEF ConnInv
  <2>6. QED
    BY <2>1, <2>3, <2>4, <2>5, QuietKeeps, Zenon
<1>5. QED
  BY <1>1, <1>2, <1>3, <1>4, Zenon DEF ClientStep

-----------------------------------------------------------------------------
\* A step on the connections that closes none and makes none.
LEMMA SoftStep ==
  ASSUME Inv, Soft, Sends', conn' = conn, tpc' = tpc, calls' \in Nat, rest' \in Rests, late' = late,
         state' \in [Conns -> States], events' \in [Conns -> SUBSET {"read", "write"}]
  PROVE  Inv'
<1>1. Busy' /\ InTurn'
  BY SameMade, Zenon DEF Inv, Soft
<1>2. ConnInv'
  BY SoftKeeps, Zenon DEF Inv
<1>3. Types'
  BY Zenon DEF Inv, Types, Soft
<1>4. QED
  BY <1>1, <1>2, <1>3, Zenon DEF Inv

\* An open connection is set to disconnecting, and nothing else happens to it.
LEMMA DisconnectingKeeps ==
  ASSUME Inv, NEW c \in Conns, state[c] \in Open,
         state' = [state EXCEPT ![c] = "disconnecting"],
         UNCHANGED <<events, downs, late, tpc, rest, conn, phase>>, calls' \in {calls, calls + 1},
         seen' \subseteq seen, Sends'
  PROVE  Inv'
<1>1. state' \in [Conns -> States]
  BY Zenon DEF Inv, Types, States
<1>2. \A b \in Conns : /\ Exists(b)' <=> Exists(b)
                       /\ state'[b] = "disconnected" <=> state[b] = "disconnected"
  BY Zenon DEF Inv, Types, Exists, Open
<1>3. phase' = "functors" => seen' = {}
  BY Zenon DEF Inv, ConnInv
<1>4. Soft
  BY <1>2, <1>3, Zenon DEF Soft
<1>5. calls' \in Nat /\ rest' \in Rests /\ events' \in [Conns -> SUBSET {"read", "write"}]
  BY DEF Inv, Types
<1>6. QED
  BY <1>1, <1>4, <1>5, SoftStep, Zenon

\* ... while its forceCloseInLoop may be queued.
LEMMA DisconnectingSends ==
  ASSUME Inv, NEW c \in Conns, state[c] \in Open,
         state' = [state EXCEPT ![c] = "disconnecting"], batch' = batch,
         pending' \in {pending, Append(pending, Functor("forceClose", c))}
  PROVE  Sends'
<1>1. Kept
  BY Zenon DEF Inv, Types, Kept, Exists, Open
<1>2. Functor("forceClose", c) \in Queued /\ Functor("forceClose", c).op # "send"
  BY Records, Zenon DEF Ops
<1>3. QED
  BY <1>1, <1>2, QueueKeeps, Zenon DEF Inv

\* handleClose of a connection that exists and is not closed yet, or is late.
LEMMA CloseStep ==
  ASSUME Inv, NEW c \in Conns, HandleClose(c), Exists(c),
         c \in late \/ state[c] # "disconnected", <<c, "close">> \notin seen',
         UNCHANGED <<late, tpc, calls, conn>>, seen' \subseteq seen,
         phase' = "functors" => seen' = {}, Kept => Sends'
  PROVE  Inv'
<1>1. ConnInv'
  BY CloseKeeps, Zenon DEF Inv
<1>2. /\ state' = [state EXCEPT ![c] = "disconnected"]
      /\ events' = [events EXCEPT ![c] = {}]
      /\ downs' = [downs EXCEPT ![c] = @ + 1]
      /\ rest' \in {[do |-> "closeCallback", conn |-> c], Abort}
  BY Zenon DEF HandleClose
<1>3. \A b \in Conns : Exists(b)' <=> Exists(b)
  BY <1>2, Zenon DEF Inv, Types, Exists
<1>4. Busy' /\ InTurn' /\ Kept
  BY <1>3, SameMade, Zenon DEF Inv
<1>5. rest' \in Rests
  BY <1>2, Records DEF Rests
<1>6. Types'
  BY <1>2, <1>5 DEF Inv, Types, States
<1>7. QED
  BY <1>1, <1>4, <1>6, Zenon DEF Inv

\* The handlers of a connection.
LEMMA HandlersKeep == ASSUME NEW c \in Conns PROVE Inv /\ Handlers(c) => Inv'
<1> SUFFICES ASSUME Inv, Handlers(c) PROVE Inv'
  BY Zenon
<1> USE DEF clientVars
<1>0. Types /\ Sends /\ ConnInv
  BY Zenon DEF Inv
<1>1. CASE HandleRead(c)
  <2>1. /\ Handles(<<c, "close">>) /\ HandleClose(c) /\ UNCHANGED <<pending, late, tpc, calls, conn>>
    BY <1>1, Zenon DEF Handlers, HandleRead
  <2>2. /\ <<c, "close">> \in seen /\ <<c, "close">> \notin seen' /\ seen' \subseteq seen
        /\ (phase' = "functors" => seen' = {}) /\ batch' = batch
    BY <2>1, HandlerKeepsSeen, Zenon DEF Handles
  <2>3. Exists(c) /\ (c \in late \/ state[c] # "disconnected")
    BY <1>0, <2>2, Zenon DEF ConnInv, Down
  <2>4. Kept => Sends'
    BY <1>0, <2>1, <2>2, Records, QueueKeeps, Zenon
  <2>5. QED
    BY <2>1, <2>2, <2>3, <2>4, CloseStep
<1>2. CASE HandleWrite(c)
  <2>1. /\ Handles(<<c, "write">>) /\ UNCHANGED <<pending, rest, state, tpc, calls, downs, late, conn>>
        /\ events' = events \/ events' = [events EXCEPT ![c] = @ \ {"write"}]
    BY <1>2, Zenon DEF Handlers, HandleWrite
  <2>2. seen' \subseteq seen /\ (phase' = "functors" => seen' = {}) /\ batch' = batch
    BY <2>1, HandlerKeepsSeen, Zenon
  <2>3. /\ events' \in [Conns -> SUBSET {"read", "write"}]
        /\ \A b \in Conns : events'[b] # {} => events[b] # {}
    BY <1>0, <2>1, Zenon DEF Types
  <2>4. Kept
    BY <2>1, Zenon DEF Kept, Exists
  <2>5. Sends'
    BY <1>0, <2>1, <2>2, <2>4, Records, QueueKeeps
  <2>6. Soft
    BY <2>1, <2>2, <2>3, Zenon DEF Soft, Exists
  <2>7. calls' \in Nat /\ rest' \in Rests /\ state' \in [Conns -> States]
    BY <1>0, <2>1, Zenon DEF Types
  <2>8. QED
    BY <2>1, <2>3, <2>5, <2>6, <2>7, SoftStep
<1>3. CASE DelayTimer(c)
  <2>1. /\ Handles(<<c, "delay">>) /\ UNCHANGED <<rest, events, tpc, calls, downs, late, conn>>
    BY <1>3, Zenon DEF Handlers, DelayTimer
  <2>2. /\ seen' \subseteq seen /\ (phase' = "functors" => seen' = {}) /\ batch' = batch /\ phase' = phase
    BY <2>1, HandlerKeepsSeen, Zenon DEF Handles
  <2>3. CASE state[c] \in Open
    <3>1. /\ state' = [state EXCEPT ![c] = "disconnecting"]
          /\ pending' = Append(pending, Functor("forceClose", c))
      BY <1>3, <2>3, Zenon DEF DelayTimer
    <3>2. Sends'
      BY <2>2, <2>3, <3>1, DisconnectingSends, Zenon
    <3>3. QED
      BY <2>1, <2>2, <2>3, <3>1, <3>2, DisconnectingKeeps, Zenon
  <2>4. CASE state[c] \notin Open
    <3>1. UNCHANGED <<state, pending>>
      BY <1>3, <2>4, Zenon DEF DelayTimer
    <3>2. Kept /\ rest' \in Rests
      BY <1>0, <2>1, <3>1, Zenon DEF Kept, Exists, Types
    <3>3. Sends'
      BY <1>0, <2>2, <3>1, <3>2, Records, QueueKeeps
    <3>4. QED
      BY <2>1, <2>2, <3>1, <3>2, <3>3, QuietKeeps
  <2>5. QED
    BY <2>3, <2>4, Zenon
<1>4. QED
  BY <1>1, <1>2, <1>3 DEF Handlers

-----------------------------------------------------------------------------
\* sendInLoop enables the Channel only of a connection that is not closed.
LEMMA SendKeeps ==
  ASSUME Inv, NEW c \in Conns, NEW m, SendInLoop(c, m), Exists(c),
         UNCHANGED <<state, downs, late, tpc, rest, conn>>, calls' \in {calls, calls + 1},
         seen' \subseteq seen, phase' = "functors" => seen' = {}, Sends'
  PROVE  Inv'
<1>1. \/ events' = events
      \/ /\ state[c] # "disconnected"
         /\ \E e \in {events[c], events[c] \cup {"write"}} : events' = [events EXCEPT ![c] = e]
  BY Zenon DEF SendInLoop, Take
<1>2. /\ events' \in [Conns -> SUBSET {"read", "write"}]
      /\ \A b \in Conns : events'[b] # {} => events[b] # {} \/ (Exists(b) /\ state[b] # "disconnected")
  <2>1. events \in [Conns -> SUBSET {"read", "write"}]
    BY Zenon DEF Inv, Types
  <2>2. CASE events' = events
    BY <2>1, <2>2, Zenon
  <2>3. CASE /\ state[c] # "disconnected"
             /\ \E e \in {events[c], events[c] \cup {"write"}} : events' = [events EXCEPT ![c] = e]
    <3>1. PICK e \in {events[c], events[c] \cup {"write"}} : events' = [events EXCEPT ![c] = e]
      BY <2>3, Zenon
    <3>2. e \in SUBSET {"read", "write"}
      BY <2>1
    <3>3. events' \in [Conns -> SUBSET {"read", "write"}]
      BY <2>1, <3>1, <3>2, Zenon
    <3>4. \A b \in Conns \ {c} : events'[b] = events[b]
      BY <2>1, <3>1, Zenon
    <3>5. QED
      BY <2>3, <3>3, <3>4, Zenon
  <2>4. QED
    BY <1>1, <2>2, <2>3, Zenon
<1>3. Soft
  BY <1>2, Zenon DEF Soft, Exists
<1>4. calls' \in Nat /\ rest' \in Rests /\ state' \in [Conns -> States]
  BY DEF Inv, Types
<1>5. QED
  BY <1>2, <1>3, <1>4, SoftStep, Zenon

\* The functors of a connection: forceCloseInLoop looks at the state again.
LEMMA FunctorsKeep == ASSUME NEW c \in Conns PROVE Inv /\ Functors(c) => Inv'
<1> SUFFICES ASSUME Inv, Functors(c) PROVE Inv'
  BY Zenon
<1> USE DEF clientVars
<1>0. Types /\ Sends /\ ConnInv /\ conn' = conn
  BY Zenon DEF Inv, Functors
<1>1. CASE SendFunctor(c)
  <2>1. /\ Calls("send", <<>>) /\ Head(pending).conn = c /\ SendInLoop(c, Head(pending).msg)
        /\ UNCHANGED <<rest, state, tpc, calls, downs, late>>
    BY <1>1, Zenon DEF SendFunctor
  <2>2. Kept
    BY <2>1, Zenon DEF Kept, Exists
  <2>3. Sends' /\ Exists(c)
    BY <1>0, <2>1, <2>2, CallsKeeps, Zenon
  <2>4. seen' \subseteq seen /\ (phase' = "functors" => seen' = {})
    BY <1>0, <2>1, HandlerKeepsSeen, Zenon
  <2>5. QED
    BY <1>0, <2>1, <2>3, <2>4, SendKeeps, Zenon
<1>2. CASE ShutdownFunctor(c) \/ ConnectDestroyed(c)
  <2>1. /\ Calls("shutdown", <<>>) \/ Calls("connectDestroyed", <<>>)
        /\ UNCHANGED <<state, events, tpc, calls, downs, late>> /\ rest' \in {rest, Idle, Abort}
    BY <1>2, Zenon DEF ShutdownFunctor, ConnectDestroyed, connVars
  <2>2. Kept /\ rest' \in Rests
    BY <1>0, <2>1, Records, Zenon DEF Kept, Exists, Types
  <2>3. Sends'
    BY <1>0, <2>1, <2>2, CallsKeeps, Zenon
  <2>4. seen' \subseteq seen /\ (phase' = "functors" => seen' = {})
    BY <1>0, <2>1, HandlerKeepsSeen, Zenon
  <2>5. QED
    BY <1>0, <2>1, <2>2, <2>3, <2>4, QuietKeeps, Zenon
<1>3. CASE ForceCloseFunctor(c)
  <2>1. Calls("forceClose", <<>>) /\ UNCHANGED <<tpc, calls, late>>
    BY <1>3, Zenon DEF ForceCloseFunctor
  <2>2. seen' = {} /\ seen' \subseteq seen
    BY <1>0, <2>1, Zenon DEF Calls, ConnInv
  <2>3. Kept => Sends'
    BY <1>0, <2>1, CallsKeeps, Zenon
  <2>4. CASE StillOpen(c)
    <3>1. HandleClose(c) /\ Exists(c) /\ state[c] # "disconnected"
      BY <1>3, <2>4, Zenon DEF ForceCloseFunctor, StillOpen, Open, Exists
    <3>2. QED
      BY <1>0, <2>1, <2>2, <2>3, <3>1, CloseStep, Zenon
  <2>5. CASE ~StillOpen(c)
    <3>1. UNCHANGED <<state, events, downs, rest>>
      BY <1>3, <2>5, Zenon DEF ForceCloseFunctor
    <3>2. Kept /\ rest' \in Rests
      BY <1>0, <3>1, Zenon DEF Kept, Exists, Types
    <3>3. QED
      BY <1>0, <2>1, <2>2, <2>3, <3>1, <3>2, QuietKeeps
  <2>6. QED
    BY <2>4, <2>5, Zenon
<1>4. QED
  BY <1>1, <1>2, <1>3, Zenon DEF Functors

\* What shutdown does in the loop, for callbacks and for disconnect.
LEMMA LoopShutdownKeeps ==
  ASSUME Inv, NEW c \in Conns, LoopShutdown(c), conn' = conn
  PROVE  Inv'
<1>1. /\ state[c] \in Open /\ state' = [state EXCEPT ![c] = "disconnecting"]
      /\ UNCHANGED <<events, downs, late, tpc, rest, phase, seen, batch, pending>> /\ calls' = calls + 1
  BY Zenon DEF LoopShutdown, InLoop, Open
<1>2. Sends'
  BY <1>1, DisconnectingSends, Zenon
<1>3. QED
  BY <1>1, <1>2, DisconnectingKeeps, Zenon

\* The calls of callbacks.
LEMMA CallbacksKeep == ASSUME NEW c \in Conns PROVE Inv /\ Callbacks(c) => Inv'
<1> SUFFICES ASSUME Inv, Callbacks(c) PROVE Inv'
  BY Zenon
<1> USE DEF clientVars
<1>0. Types /\ Sends /\ ConnInv /\ conn' = conn
  BY Zenon DEF Inv, Callbacks
<1>1. CASE LoopSend(c)
  <2>1. /\ state[c] = "connected" /\ SendInLoop(c, calls') /\ calls' = calls + 1
        /\ UNCHANGED <<pending, state, downs, late, phase, seen, batch, rest, tpc>>
    BY <1>1, Zenon DEF LoopSend, InLoop
  <2>2. Exists(c) /\ Kept
    BY <2>1, Zenon DEF Kept, Exists
  <2>3. Sends'
    BY <1>0, <2>1, <2>2, Records, QueueKeeps, Zenon
  <2>4. phase' = "functors" => seen' = {}
    BY <1>0, <2>1, Zenon DEF ConnInv
  <2>5. QED
    BY <1>0, <2>1, <2>2, <2>3, <2>4, SendKeeps
<1>2. CASE LoopShutdown(c)
  BY <1>0, <1>2, LoopShutdownKeeps, Zenon
<1>3. CASE LoopForceClose(c) \/ LoopForceCloseWithDelay(c)
  <2>1. /\ state[c] \in Open /\ state' = [state EXCEPT ![c] = "disconnecting"] /\ calls' = calls + 1
        /\ UNCHANGED <<events, downs, late, tpc, rest, phase, seen, batch>>
        /\ pending' \in {pending, Append(pending, Functor("forceClose", c))}
    BY <1>3, Zenon DEF LoopForceClose, LoopForceCloseWithDelay, InLoop
  <2>2. Sends'
    BY <2>1, DisconnectingSends, Zenon
  <2>3. QED
    BY <1>0, <2>1, <2>2, DisconnectingKeeps, Zenon
<1>4. QED
  BY <1>1, <1>2, <1>3, Zenon DEF Callbacks

\* stop, and disconnect in a callback.
LEMMA StopKeeps == Inv /\ (Stop \/ LoopDisconnect) => Inv'
<1> SUFFICES ASSUME Inv, Stop \/ LoopDisconnect PROVE Inv'
  BY Zenon
<1>0. Types /\ Sends /\ ConnInv /\ Busy
  BY Zenon DEF Inv
<1>1. ASSUME UNCHANGED <<state, events, downs, late, tpc, conn, phase, seen, batch, rest>>,
             calls' = calls + 1, pending' \in {pending, Append(pending, Functor("stop", 0))}
      PROVE  Inv'
  <2>1. Kept /\ rest' \in Rests /\ calls' \in Nat
    BY <1>0, <1>1 DEF Kept, Exists, Types
  <2>2. Functor("stop", 0) \in Queued /\ Functor("stop", 0).op # "send"
    BY Records DEF Ops
  <2>3. Sends'
    BY <1>0, <1>1, <2>1, <2>2, QueueKeeps, Zenon
  <2>4. phase' = "functors" => seen' = {}
    BY <1>0, <1>1, Zenon DEF ConnInv
  <2>5. Soft
    BY <1>1, <2>4, Zenon DEF Soft, Exists
  <2>6. state' \in [Conns -> States] /\ events' \in [Conns -> SUBSET {"read", "write"}]
    BY <1>0, <1>1, Zenon DEF Types
  <2>7. QED
    BY <1>1, <2>1, <2>3, <2>5, <2>6, SoftStep, Zenon
<1>2. CASE Stop
  BY <1>1, <1>2, Zenon DEF Stop
<1>3. CASE LoopDisconnect
  <2>1. CASE conn # 0 /\ state[conn] = "connected"
    BY <1>0, <1>3, <2>1, LoopShutdownKeeps, Zenon DEF LoopDisconnect, Busy
  <2>2. CASE ~(conn # 0 /\ state[conn] = "connected")
    BY <1>1, <1>3, <2>2, Zenon DEF LoopDisconnect, InLoop
  <2>3. QED
    BY <2>1, <2>2, Zenon
<1>4. QED
  BY <1>2, <1>3, Zenon

-----------------------------------------------------------------------------
\* A thread begins or ends a call, on a connection that was made.
LEMMA CallKeeps ==
  ASSUME Inv, NEW t \in Threads, NEW call \in Queued,
         call.conn # 0 => call.conn \in Conns /\ Exists(call.conn),
         tpc' = [tpc EXCEPT ![t] = call], calls' \in {calls, calls + 1},
         UNCHANGED <<state, events, downs, late, conn, phase, seen, batch, rest, pending>>
  PROVE  Inv'
<1>1. Sends' /\ InTurn' /\ ConnInv'
  BY Zenon DEF Inv, Sends, InTurn, ConnInv, Down, Exists
<1>2. Types'
  BY DEF Inv, Types
<1>3. Busy'
  <2>1. \A u \in Threads : tpc'[u] = IF u = t THEN call ELSE tpc[u]
    BY Zenon DEF Inv, Types
  <2>2. QED
    BY <2>1 DEF Inv, Busy, Exists
<1>4. QED
  BY <1>1, <1>2, <1>3, Zenon DEF Inv

\* The tests of a thread's call.
LEMMA TestsKeep ==
  ASSUME NEW t \in Threads
  PROVE  /\ Inv /\ (Disconnect(t) \/ DisconnectLocked(t)) => Inv'
         /\ Inv /\ (\E op \in {"send", "shutdown", "forceClose"}, c \in Conns : Call(t, op, c)) => Inv'
<1> USE DEF netVars, clientVars
<1>1. ASSUME Inv, Disconnect(t) PROVE Inv'
  <2> DEFINE call == [op |-> "disconnect", conn |-> 0, msg |-> 0]
  <2>1. tpc[t] = NoCall /\ tpc' = [tpc EXCEPT ![t].op = "disconnect"]
    BY <1>1, Zenon DEF Disconnect
  <2>2. [NoCall EXCEPT !.op = "disconnect"] = call
    BY DEF NoCall
  <2>3. tpc' = [tpc EXCEPT ![t] = call]
    BY <2>1, <2>2, Zenon
  <2>4. call \in Queued /\ call.conn = 0
    BY Zenon DEF Queued, Ops
  <2>5. /\ UNCHANGED <<state, events, downs, late, conn, phase, seen, batch, rest, pending>>
        /\ calls' = calls + 1
    BY <1>1, Zenon DEF Disconnect
  <2> HIDE DEF call
  <2>6. QED
    BY <1>1, <2>3, <2>4, <2>5, CallKeeps, Zenon
<1>2. ASSUME Inv, DisconnectLocked(t) PROVE Inv'
  <2>1. UNCHANGED <<state, events, downs, late, conn, phase, seen, batch, rest, pending, calls>>
    BY <1>2, Zenon DEF DisconnectLocked
  <2>2. CASE conn # 0 /\ state[conn] = "connected"
    <3> DEFINE call == [op |-> "shutdown", conn |-> conn, msg |-> 0]
    <3>1. tpc' = [tpc EXCEPT ![t] = call]
      BY <1>2, <2>2, Zenon DEF DisconnectLocked
    <3>2. call \in Queued /\ call.conn \in Conns /\ Exists(call.conn)
      BY <1>2, <2>2, Records, Zenon DEF Queued, Ops, Inv, Busy, Exists
    <3> HIDE DEF call
    <3>3. QED
      BY <1>2, <2>1, <3>1, <3>2, CallKeeps, Zenon
  <2>3. CASE ~(conn # 0 /\ state[conn] = "connected")
    <3>1. tpc' = [tpc EXCEPT ![t] = NoCall]
      BY <1>2, <2>3, Zenon DEF DisconnectLocked
    <3>2. QED
      BY <1>2, <2>1, <3>1, Records, CallKeeps, Zenon
  <2>4. QED
    BY <2>2, <2>3, Zenon
<1>3. ASSUME Inv, NEW op \in {"send", "shutdown", "forceClose"}, NEW c \in Conns, Call(t, op, c)
      PROVE  Inv'
  <2> DEFINE call == [op |-> op, conn |-> c, msg |-> calls']
  <2>1. /\ tpc' = [tpc EXCEPT ![t] = call] /\ calls' = calls + 1 /\ state[c] \in Tests(op)
        /\ UNCHANGED <<state, events, downs, late, conn, phase, seen, batch, rest, pending>>
    BY <1>3, Zenon DEF Call, Test
  <2>2. Exists(c)
    BY <2>1, Zenon DEF Tests, Open, Exists
  <2>3. calls' \in Nat
    BY <1>3, <2>1 DEF Inv, Types
  <2>4. call \in Queued /\ call.conn = c
    BY <2>3, Records, Zenon DEF Queued, Ops
  <2> HIDE DEF call
  <2>5. QED
    BY <1>3, <2>1, <2>2, <2>4, CallKeeps, Zenon
<1>4. QED
  BY <1>1, <1>2, <1>3, Zenon

\* A thread's call goes on: it may set the state of a connection that was
\* closed since its test, which counts as late from then on.
LEMMA ReturnKeeps == ASSUME NEW t \in Threads PROVE Inv /\ Return(t) => Inv'
<1> SUFFICES ASSUME Inv, Return(t) PROVE Inv'
  BY Zenon
<1> USE DEF clientVars
<1> DEFINE c == tpc[t].conn
<1>0. Types /\ Sends /\ Busy /\ InTurn /\ ConnInv
  BY Zenon DEF Inv
<1>1. /\ c # 0 /\ pending' = Append(pending, tpc[t]) /\ tpc' = [tpc EXCEPT ![t] = NoCall]
      /\ UNCHANGED <<events, calls, downs, phase, seen, batch, rest, conn>>
      /\ \/ state' = state /\ late' = late
         \/ /\ state' = [state EXCEPT ![c] = "disconnecting"]
            /\ late' = IF state[c] = "disconnected" THEN late \cup {c} ELSE late
  BY Zenon DEF Return, Act
<1>2. c \in Conns /\ Exists(c) /\ tpc[t] \in Queued
  BY <1>0, <1>1, Zenon DEF Busy, Types
<1>3. \A b \in Conns : /\ Exists(b)' <=> Exists(b)
                       /\ b \in late' => b \in late \/ Exists(b)
                       /\ b \notin late' => (state'[b] = "disconnected" <=> state[b] = "disconnected")
  BY <1>0, <1>1, <1>2 DEF Types, Exists
<1>4. Soft
  BY <1>0, <1>1, <1>3, Zenon DEF Soft, ConnInv
<1>5. ConnInv'
  BY <1>0, <1>4, SoftKeeps, Zenon
<1>6. Kept
  BY <1>3, Zenon DEF Kept
<1>7. Sends'
  <2>1. state'[c] # "none"
    BY <1>2, <1>3, Zenon DEF Exists
  <2>2. QED
    BY <1>0, <1>1, <1>2, <1>6, <2>1, QueueKeeps, Zenon
<1>8. InTurn'
  BY <1>0, <1>3, Zenon DEF InTurn
<1>9. Types'
  BY <1>0, <1>1, <1>2, Records, Zenon DEF Types, States
<1>10. Busy'
  <2>1. \A u \in Threads : tpc'[u] = IF u = t THEN NoCall ELSE tpc[u]
    BY <1>0, <1>1, Zenon DEF Types
  <2>2. \A u \in Threads : tpc'[u].conn # 0 => tpc'[u].conn \in Conns /\ state'[tpc'[u].conn] # "none"
    BY <1>0, <1>6, <2>1, Records DEF Busy, Kept, Exists
  <2>3. QED
    BY <1>0, <1>1, <2>2, Zenon DEF Busy, Exists
<1>11. QED
  BY <1>5, <1>7, <1>8, <1>9, <1>10 DEF Inv

\* A client that has called connect().
LEMMA InvInit == Init => Inv
<1> SUFFICES ASSUME Init PROVE Inv
  BY Zenon
<1> USE DEF Init, NetInit, ConnInit
<1>1. pending = <<Functor("start", 0)>> /\ batch = 0
  BY Zenon
<1>2. Functor("start", 0) \in Queued /\ Functor("start", 0).op = "start"
  BY Records, SMTT(30) DEF Ops
<1>3. Sends
  BY <1>1, <1>2 DEF Sends
<1>4. Types
  BY Records, Zenon DEF Types, States
<1>5. Busy
  BY Records, Zenon DEF Busy
<1>6. InTurn /\ ConnInv
  BY DEF InTurn, ConnInv, Down, Exists
<1>7. QED
  BY <1>3, <1>4, <1>5, <1>6 DEF Inv

\* Every step of the loop, of callbacks and of other threads keeps it.
LEMMA InvStep == Inv /\ [Next]_vars => Inv'
<1> SUFFICES ASSUME Inv, [Next]_vars PROVE Inv'
  BY Zenon
<1>1. CASE UNCHANGED vars
  BY <1>1, Zenon DEF vars, netVars, connVars, clientVars, Inv, Types, Sends, Busy, InTurn, ConnInv, Down, Exists
<1>2. CASE Next
  BY <1>2, LoopKeeps, ConnectorKeeps, ClientKeeps, FunctorsKeep, HandlersKeep, CallbacksKeep,
     StopKeeps, TestsKeep, ReturnKeeps DEF Next
<1>3. QED
  BY <1>1, <1>2, Zenon

\* handleClose reports a connection down once, however the peer, callbacks,
\* delays and other threads close it: forceCloseInLoop tests the state in the
\* loop, and the poller has nothing left of a Channel that was disabled.  Only
\* a call that sets state_ after the close can make it happen again.
THEOREM ReportedOnce == Spec => []ClosedOnce
<1>1. Inv => ClosedOnce
  BY Zenon DEF Inv, ConnInv, Down, ClosedOnce
<1>2. QED
  BY <1>1, InvInit, InvStep, PTL DEF Spec

-----------------------------------------------------------------------------
\* How a step changes the queue, for the proofs that build on these.

\* The first k of the pending functors are gone, and f may be new at the end.
Moves(k, f) ==
    /\ Len(pending') \in Nat
    /\ \A i \in 1 .. Len(pending) - k : i \in 1 .. Len(pending') /\ pending'[i] = pending[i + k]
    /\ \A i \in 1 .. Len(pending') :
          \/ i \in 1 .. Len(pending) - k
          \/ i = Len(pending) - k + 1 /\ pending'[i] = f

\* Queueing a functor, or none.
LEMMA QueueMoves ==
  ASSUME Sends, NEW f \in Queued, pending' \in {pending, Append(pending, f), pending \o <<f>>}
  PROVE  Moves(0, f)
<1> DEFINE n == Len(pending)
<1>1. n \in Nat /\ pending \in Seq(Queued) /\ pending \o <<f>> = Append(pending, f)
  BY DEF Sends
<1>2. CASE pending' = pending
  BY <1>1, <1>2 DEF Moves
<1>3. CASE pending' = Append(pending, f)
  <2>1. /\ Len(pending') = n + 1 /\ pending'[n + 1] = f
        /\ \A i \in 1 .. n : pending'[i] = pending[i]
    BY <1>1, <1>3
  <2>2. QED
    BY <1>1, <2>1 DEF Moves
<1>4. QED
  BY <1>1, <1>2, <1>3, Zenon

\* Calling a functor.
LEMMA CallMoves ==
  ASSUME Sends, NEW op, NEW more, NEW f \in Queued, Calls(op, more), more \in {<<>>, <<f>>}
  PROVE  /\ Moves(1, f) /\ Len(pending) \in Nat /\ 1 \in 1 .. Len(pending)
         /\ pending[1] = Head(pending) /\ pending[1] \in Queued /\ pending[1].op = op
         /\ phase = "functors" /\ phase' = phase /\ batch' = batch - 1 /\ rest = Idle
         /\ seen' = seen
<1> DEFINE n == Len(pending)
           q == Tail(pending)
<1>1. /\ batch > 0 /\ pending' = q \o more /\ Head(pending).op = op
      /\ phase = "functors" /\ phase' = phase /\ batch' = batch - 1 /\ rest = Idle /\ seen' = seen
  BY Zenon DEF Calls
<1>2. n \in Nat /\ n >= 1 /\ pending \in Seq(Queued) /\ Head(pending) = pending[1] /\ pending[1] \in Queued
  BY <1>1 DEF Sends
<1>3. /\ q \in Seq(Queued) /\ Len(q) = n - 1
      /\ \A i \in 1 .. n - 1 : i + 1 \in 1 .. n /\ q[i] = pending[i + 1]
  BY <1>2
<1> HIDE DEF q
<1>4. Moves(1, f)
  <2>1. CASE more = <<>>
    <3>1. pending' = q
      BY <1>1, <1>3, <2>1
    <3>2. QED
      BY <1>2, <1>3, <3>1 DEF Moves
  <2>2. CASE more = <<f>>
    <3>1. /\ Len(pending') = n /\ pending'[n] = f
          /\ \A i \in 1 .. n - 1 : pending'[i] = q[i]
      BY <1>1, <1>2, <1>3, <2>2
    <3>2. QED
      BY <1>2, <1>3, <3>1 DEF Moves
  <2>3. QED
    BY <2>1, <2>2, Zenon
<1>5. QED
  BY <1>1, <1>2, <1>4

\* A record of a functor, whose fields are known to be harmless.
LEMMA StartRecord == /\ Functor("start", 0) \in Queued /\ Functor("start", 0).op = "start"
                     /\ Functor("start", 0).conn = 0
BY Records DEF Ops, Functor
=============================================================================
