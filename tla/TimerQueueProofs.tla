-------------------------- MODULE TimerQueueProofs --------------------------
(* Proofs about TimerQueue for any number of threads, timers and addresses:  *)
(* no pointer dangles, the timerfd goes off in time, and cancel is exact.    *)
EXTENDS TimerQueue, WellFoundedInduction, TLAPS

Timer == [seq : Nat, expiration : Nat, interval : Nat]
Id == [timer : Addrs, seq : Nat, own : Nat]
Call == [op : {"add", "cancel"}, id : Id]

Types ==
    /\ now \in Nat \ {0} /\ asof \in Nat /\ alarm \in Nat /\ created \in Nat
    /\ heap \in [Addrs -> Timer]
    /\ timers \subseteq Nat \X Addrs
    /\ active \subseteq Addrs \X Nat
    /\ expired \subseteq Addrs
    /\ lpc \in {"poll", "handle", "call", "functors", "gone"}
    /\ pending \in Seq(Call)
    /\ batch \in Nat /\ batch <= Len(pending)
    /\ opc \in [Threads -> [timer : Addrs, seq : Nat] \cup {None}]
    /\ ids \subseteq Id

-----------------------------------------------------------------------------
\* The earliest entry of a set exists, as times and addresses are natural
\* numbers, and no other expires before it.
LEMMA SmallestExists ==
  ASSUME NEW S \in SUBSET Nat, S # {}
  PROVE  \E m \in S : \A k \in S : m <= k
<1> DEFINE R == OpToRel(<, Nat)
<1>1. IsWellFoundedOn(R, Nat)
  BY NatLessThanWellFounded, Zenon
<1>2. PICK m \in S : \A k \in S : ~(<<k, m>> \in R)
  <2> HIDE DEF R
  <2>1. QED
    BY <1>1, WFMin, Zenon
<1>3. \A k \in S : m <= k
  <2>1. ASSUME NEW k \in S, k < m PROVE <<k, m>> \in R
    BY <2>1, Zenon DEF OpToRel
  <2>2. ASSUME NEW k \in S PROVE m <= k
    <3>1. ~(k < m)
      BY <1>2, <2>1, Zenon
    <3>2. QED
      BY <3>1
  <2>3. QED
    BY <2>2, Zenon
<1>4. QED
  BY <1>3, Zenon

\* Nothing in a set of entries expires before its earliest.
LEMMA EarliestFirst ==
  ASSUME NEW L \in SUBSET (Nat \X Addrs), L # {}
  PROVE  Earliest(L) \in L /\ \A f \in L : Earliest(L)[1] <= f[1]
<1>1. PICK t \in {e[1] : e \in L} : \A k \in {e[1] : e \in L} : t <= k
  <2>1. {e[1] : e \in L} \in SUBSET Nat /\ {e[1] : e \in L} # {}
    BY Zenon
  <2>2. QED
    BY <2>1, SmallestExists, Zenon
<1> DEFINE first == {e[2] : e \in {f \in L : f[1] = t}}
<1>2. PICK a \in first : \A k \in first : a <= k
  <2>1. first \in SUBSET Nat /\ first # {}
    BY <1>1, TimerAssumption, Zenon
  <2>2. QED
    BY <2>1, SmallestExists, Zenon
<1>3. PICK e \in L : e[1] = t /\ e[2] = a
  BY <1>2, Zenon
<1>4. ASSUME NEW f \in L \ {e} PROVE Before(e, f)
  <2>0. e = <<e[1], e[2]>> /\ f = <<f[1], f[2]>>
    OBVIOUS
  <2>1. e[1] \in Nat /\ f[1] \in Nat /\ e[2] \in Nat /\ f[2] \in Nat
    BY TimerAssumption, Zenon
  <2>2. e[1] <= f[1] /\ (f[1] = e[1] => e[2] <= f[2])
    BY <1>1, <1>2, <1>3
  <2>3. e[1] = f[1] => e[2] # f[2]
    BY <2>0, Zenon
  <2>4. QED
    BY <2>1, <2>2, <2>3 DEF Before
<1>5. Earliest(L) \in L /\ \A f \in L \ {Earliest(L)} : Before(Earliest(L), f)
  BY <1>4, Zenon DEF Earliest
<1>6. ASSUME NEW f \in L PROVE Earliest(L)[1] <= f[1]
  BY <1>5 DEF Before
<1>7. QED
  BY <1>5, <1>6, Zenon

-----------------------------------------------------------------------------
\* A timer that is constructed is one, and so is a free place.
LEMMA TimerTypes == Timers \subseteq Timer /\ Free \in Timer /\ \A t \in Timers : t.seq >= 1
BY TimerAssumption DEF Timers, Timer, Free

\* The types hold of a queue that was just constructed.
LEMMA TypesInit == Init => Types
<1> SUFFICES ASSUME Init PROVE Types
  BY Zenon
<1>1. heap \in [Addrs -> Timer]
  BY TimerTypes, Zenon DEF Init
<1>2. opc \in [Threads -> [timer : Addrs, seq : Nat] \cup {None}]
  BY Zenon DEF Init
<1>3. pending \in Seq(Call) /\ batch <= Len(pending)
  BY DEF Init
<1>4. QED
  BY <1>1, <1>2, <1>3 DEF Init, Types

\* addTimerInLoop and cancelInLoop keep the types of what they change.
LEMMA AddInLoopTypes ==
  ASSUME Types, NEW a \in Addrs, NEW timer \in Timer, AddTimerInLoop(a, timer)
  PROVE  timers' \subseteq Nat \X Addrs /\ active' \subseteq Addrs \X Nat /\ alarm' \in Nat
<1>1. timer.expiration \in Nat /\ timer.seq \in Nat
  BY Zenon DEF Timer
<1>2. QED
  BY <1>1 DEF AddTimerInLoop, ResetTimerfd, Types

\* cancelInLoop keeps the types.
LEMMA CancelInLoopTypes ==
  ASSUME Types, NEW id \in Id, CancelInLoop(id)
  PROVE  /\ timers' \subseteq Nat \X Addrs /\ active' \subseteq Addrs \X Nat /\ heap' \in [Addrs -> Timer]
         /\ alarm' = alarm
BY TimerTypes DEF CancelInLoop, Types

\* Every step keeps the types.
LEMMA TypesStep == Types /\ [Next]_vars => Types'
<1> SUFFICES ASSUME Types, [Next]_vars PROVE Types'
  BY Zenon
<1> USE DEF callVars, loopVars, userVars
<1>1. CASE Tick \/ Alarm \/ Poll
  BY <1>1 DEF Tick, Alarm, Poll, Types
<1>2. CASE HandleRead
  <2>1. expired' \subseteq Addrs
    BY <1>2, Zenon DEF HandleRead, Due, Types
  <2>2. timers' \subseteq Nat \X Addrs /\ active' \subseteq Addrs \X Nat
    BY <1>2, Zenon DEF HandleRead, Types
  <2>3. QED
    BY <1>2, <2>1, <2>2, Zenon DEF HandleRead, Types
<1>3. CASE Run
  BY <1>3, Zenon DEF Run, Types
<1>4. CASE Reset
  <2> DEFINE again == {a \in expired : Restarts(a)}
             left == timers \cup {<<asof + heap[a].interval, a>> : a \in again}
  <2>1. \A a \in Addrs : heap[a] \in Timer /\ asof + heap[a].interval \in Nat /\ heap[a].seq \in Nat
    BY DEF Types, Timer
  <2>2. left \subseteq Nat \X Addrs
    BY <2>1 DEF Types
  <2>3. timers' = left /\ active' = active \cup {<<a, heap[a].seq>> : a \in again}
    BY <1>4, Zenon DEF Reset
  <2>4. active' \subseteq Addrs \X Nat
    BY <2>1, <2>3 DEF Types
  <2>5. heap' \in [Addrs -> Timer]
    <3>1. heap' = [a \in Addrs |->
             IF a \in again THEN [heap[a] EXCEPT !.expiration = asof + heap[a].interval]
             ELSE IF a \in expired THEN Free ELSE heap[a]]
      BY <1>4, Zenon DEF Reset
    <3>2. \A a \in Addrs : [heap[a] EXCEPT !.expiration = asof + heap[a].interval] \in Timer
      BY <2>1, Zenon DEF Timer
    <3>3. QED
      BY <2>1, <3>1, <3>2, TimerTypes, Zenon
  <2>6. alarm' \in Nat
    <3>1. CASE left = {}
      BY <1>4, <3>1, Zenon DEF Reset, Rearm, Types
    <3>2. CASE left # {}
      <4>1. Earliest(left)[1] \in Nat
        <5>1. left \in SUBSET (Nat \X Addrs)
          BY <2>2, Zenon
        <5> HIDE DEF left
        <5>2. Earliest(left) \in left
          BY <3>2, <5>1, EarliestFirst, Zenon
        <5>3. QED
          BY <2>2, <5>2, Zenon
      <4>2. ResetTimerfd(Earliest(left)[1])
        BY <1>4, <3>2, Zenon DEF Reset, Rearm
      <4>3. QED
        BY <4>1, <4>2, Zenon DEF ResetTimerfd, Types
    <3>3. QED
      BY <3>1, <3>2, Zenon
  <2>7. QED
    BY <1>4, <2>2, <2>3, <2>4, <2>5, <2>6, Zenon DEF Reset, Types
<1>5. CASE SwapFunctors \/ FunctorsDone
  BY <1>5 DEF SwapFunctors, FunctorsDone, Types
<1>6. CASE RunFunctor
  <2> DEFINE c == Head(pending)
  <2>1. pending # <<>> /\ c \in Call /\ pending' = Tail(pending) /\ batch' = batch - 1 /\ batch > 0
    BY <1>6 DEF RunFunctor, Types
  <2>2. pending' \in Seq(Call) /\ batch' \in Nat /\ batch' <= Len(pending')
    BY <2>1 DEF Types
  <2>3. c.id \in Id /\ c.id.timer \in Addrs /\ c.id.seq \in Nat /\ c.id.own \in Nat
    BY <2>1, Zenon DEF Call, Id
  <2>4. CASE c.op = "add" /\ AddTimerInLoop(c.id.timer, heap[c.id.timer]) /\ heap' = heap
    <3>1. heap[c.id.timer] \in Timer
      BY <2>3, Zenon DEF Types
    <3>2. timers' \subseteq Nat \X Addrs /\ active' \subseteq Addrs \X Nat /\ alarm' \in Nat
      BY <2>3, <2>4, <3>1, AddInLoopTypes, Zenon
    <3>3. QED
      BY <1>6, <2>2, <2>4, <3>2, Zenon DEF RunFunctor, Types
  <2>5. CASE CancelInLoop(c.id)
    <3>1. /\ timers' \subseteq Nat \X Addrs /\ active' \subseteq Addrs \X Nat /\ heap' \in [Addrs -> Timer]
          /\ alarm' = alarm
      BY <2>3, <2>5, CancelInLoopTypes, Zenon
    <3>2. QED
      BY <1>6, <2>2, <3>1, Zenon DEF RunFunctor, Types
  <2>6. QED
    BY <1>6, <2>4, <2>5, Zenon DEF RunFunctor
<1>7. ASSUME NEW a \in Addrs, NEW timer \in Timers, AddTimer(a, timer) PROVE Types'
  <2>1. timer \in Timer /\ timer.seq \in Nat
    BY TimerTypes, Zenon DEF Timer
  <2>2. timers' \subseteq Nat \X Addrs /\ active' \subseteq Addrs \X Nat /\ alarm' \in Nat
    BY <1>7, <2>1, AddInLoopTypes, Zenon DEF AddTimer
  <2>3. heap' \in [Addrs -> Timer] /\ created' \in Nat
    BY <1>7, <2>1, Zenon DEF AddTimer, NewTimer, Types
  <2>4. ids' \subseteq Id
    BY <1>7, <2>1 DEF AddTimer, TimerId, Id, Types
  <2>5. QED
    BY <1>7, <2>2, <2>3, <2>4, Zenon DEF AddTimer, Types
<1>8. ASSUME NEW a \in Addrs, NEW timer \in Timers, NEW t \in Threads, AddTimerOther(t, a, timer) PROVE Types'
  <2>1. timer \in Timer /\ timer.seq \in Nat
    BY TimerTypes, Zenon DEF Timer
  <2>2. heap' \in [Addrs -> Timer] /\ created' \in Nat
    BY <1>8, <2>1, Zenon DEF AddTimerOther, NewTimer, Types
  <2>3. [op |-> "add", id |-> TimerId(a, timer.seq, timer.seq)] \in Call
    BY <2>1, Zenon DEF TimerId, Id, Call
  <2>4. pending' \in Seq(Call) /\ batch' \in Nat /\ batch' <= Len(pending')
    BY <1>8, <2>3 DEF AddTimerOther, Queue, Types
  <2>5. opc' \in [Threads -> [timer : Addrs, seq : Nat] \cup {None}]
    BY <1>8, <2>1, Zenon DEF AddTimerOther, Types
  <2>6. QED
    BY <1>8, <2>2, <2>4, <2>5, Zenon DEF AddTimerOther, Types
<1>9. ASSUME NEW id \in ids, Cancel(id) PROVE Types'
  <2>1. /\ timers' \subseteq Nat \X Addrs /\ active' \subseteq Addrs \X Nat /\ heap' \in [Addrs -> Timer]
        /\ alarm' = alarm
    BY <1>9, CancelInLoopTypes, Zenon DEF Cancel, Types
  <2>2. QED
    BY <1>9, <2>1, Zenon DEF Cancel, Types
<1>10. ASSUME NEW id \in ids, NEW t \in Threads, CancelOther(t, id) PROVE Types'
  <2>1. [op |-> "cancel", id |-> id] \in Call
    BY Zenon DEF Call, Types
  <2>2. pending' \in Seq(Call) /\ batch' \in Nat /\ batch' <= Len(pending')
    BY <1>10, <2>1 DEF CancelOther, Queue, Types
  <2>3. QED
    BY <1>10, <2>2, Zenon DEF CancelOther, Types
<1>11. ASSUME NEW t \in Threads, ReadSequence(t) PROVE Types'
  <2>1. opc[t] \in [timer : Addrs, seq : Nat]
    BY <1>11, Zenon DEF ReadSequence, Types
  <2>2. heap[opc[t].timer].seq \in Nat
    BY <2>1, Zenon DEF Types, Timer
  <2>3. ids' \subseteq Id
    BY <1>11, <2>1, <2>2 DEF ReadSequence, TimerId, Id, Types
  <2>4. opc' \in [Threads -> [timer : Addrs, seq : Nat] \cup {None}]
    BY <1>11, Zenon DEF ReadSequence, Types
  <2>5. QED
    BY <1>11, <2>3, <2>4, Zenon DEF ReadSequence, Types
<1>12. CASE Destroy
  <2>1. heap' \in [Addrs -> Timer]
    BY <1>12, TimerTypes, Zenon DEF Destroy, Types
  <2>2. QED
    BY <1>12, <2>1, Zenon DEF Destroy, Types
<1>13. CASE UNCHANGED vars
  BY <1>13, Zenon DEF vars, Types
<1>14. QED
  BY <1>1, <1>2, <1>3, <1>4, <1>5, <1>6, <1>7, <1>8, <1>9, <1>10, <1>11, <1>12, <1>13, Zenon
     DEF Next, LoopStep, User

-----------------------------------------------------------------------------
\* The timer at address a is in timers_.
Queued(a) == Entry(a) \in timers

\* NoDangling address by address, with what it takes to keep it: both sets
\* agree with the heap, and an expired timer is in neither.
Shape ==
    /\ lpc # "call" => expired = {}
    /\ \A a \in Addrs, x \in Nat : <<x, a>> \in timers => x = heap[a].expiration
    /\ \A a \in Addrs, s \in Nat : <<a, s>> \in active <=> Queued(a) /\ s = heap[a].seq
    /\ \A a \in Addrs : Live(a) <=> heap[a].seq >= 1
    /\ \A a \in Addrs : Queued(a) => Live(a) /\ a \notin expired
    /\ \A a \in expired : Live(a)

\* A timer that is neither in the sets nor expired: only a pending
\* addTimerInLoop has its address.
Apart(a) == heap[a].seq >= 1 /\ a \notin expired /\ ~Queued(a)

Adds(i) == pending[i].op = "add"

\* Every pending addTimerInLoop has a timer of its own.
Pend ==
    lpc # "gone" =>
        /\ \A i \in 1 .. Len(pending) :
              Adds(i) => Apart(pending[i].id.timer) /\ heap[pending[i].id.timer].seq = pending[i].id.own
        /\ \A i, j \in 1 .. Len(pending) :
              Adds(i) /\ Adds(j) /\ pending[i].id.timer = pending[j].id.timer => i = j

-----------------------------------------------------------------------------
\* addTimerInLoop queues the timer at a and no other.
LEMMA InsertShape ==
  ASSUME Types, Shape, NEW a \in Addrs, NEW timer \in Timer, timer.seq >= 1,
         heap' = [heap EXCEPT ![a] = timer], AddTimerInLoop(a, timer),
         ~Queued(a), a \notin expired, expired' = expired, lpc' = lpc
  PROVE  /\ Shape'
         /\ \A b \in Addrs : Queued(b)' <=> Queued(b) \/ b = a
<1>1. /\ timers' = timers \cup {<<timer.expiration, a>>} /\ active' = active \cup {<<a, timer.seq>>}
      /\ timer.expiration \in Nat /\ timer.seq \in Nat
  BY Zenon DEF AddTimerInLoop, Timer
<1>2. heap'[a] = timer /\ \A b \in Addrs \ {a} : heap'[b] = heap[b]
  BY Zenon DEF Types
<1>3. \A b \in Addrs : heap[b] \in Timer /\ heap[b].expiration \in Nat /\ heap[b].seq \in Nat
  BY Zenon DEF Types, Timer
<1>4. \A b \in Addrs : Queued(b)' <=> Queued(b) \/ b = a
  BY <1>1, <1>2 DEF Queued, Entry
<1>5. \A b \in Addrs : Live(b)' <=> heap'[b].seq >= 1
  <2>1. Live(a)'
    BY <1>2 DEF Live, Free
  <2>2. \A b \in Addrs \ {a} : Live(b)' <=> Live(b)
    BY <1>2, Zenon DEF Live
  <2>3. QED
    BY <1>2, <2>1, <2>2, Zenon DEF Shape
<1>6. \A b \in Addrs, x \in Nat : <<x, b>> \in timers' => x = heap'[b].expiration
  <2>1. \A x \in Nat : <<x, a>> \notin timers
    BY Zenon DEF Shape, Queued, Entry
  <2>2. QED
    BY <1>1, <1>2, <2>1, Zenon DEF Shape
<1>7. \A b \in Addrs, s \in Nat : <<b, s>> \in active' <=> Queued(b)' /\ s = heap'[b].seq
  BY <1>1, <1>2, <1>4, Zenon DEF Shape
<1>8. \A b \in Addrs : Queued(b)' => Live(b)' /\ b \notin expired'
  BY <1>2, <1>4, <1>5, Zenon DEF Shape
<1>9. \A b \in expired' : Live(b)'
  BY <1>2, <1>5, Zenon DEF Shape, Types
<1>10. QED
  BY <1>4, <1>5, <1>6, <1>7, <1>8, <1>9, Zenon DEF Shape

\* cancelInLoop unqueues and deletes the timer it finds and no other.
LEMMA CancelShape ==
  ASSUME Types, Shape, NEW id \in Id, CancelInLoop(id), expired' = expired, lpc' = lpc
  PROVE  /\ Shape'
         /\ \A b \in Addrs : (Apart(b)' <=> Apart(b)) /\ (Apart(b) => heap'[b].seq = heap[b].seq)
<1> DEFINE a == id.timer
<1>0. a \in Addrs /\ id.seq \in Nat
  BY Zenon DEF Id
<1>1. CASE ~Found(id)
  <2>1. timers' = timers /\ active' = active /\ heap' = heap
    BY <1>1, Zenon DEF CancelInLoop
  <2>2. QED
    BY <2>1, Zenon DEF Shape, Apart, Queued, Entry, Live
<1>2. CASE Found(id)
  <2>1. /\ timers' = timers \ {Entry(a)} /\ heap' = [heap EXCEPT ![a] = Free]
        /\ active' = {entry \in active : entry[1] # a}
    BY <1>2, Zenon DEF CancelInLoop
  <2>2. Queued(a) /\ a \notin expired
    BY <1>0, <1>2, Zenon DEF Found, Shape
  <2>3. heap'[a] = Free /\ \A b \in Addrs \ {a} : heap'[b] = heap[b]
    BY <1>0, <2>1, Zenon DEF Types
  <2>4. \A x \in Nat : <<x, a>> \notin timers'
    BY <1>0, <2>1, Zenon DEF Shape, Entry
  <2>5. ~Queued(a)'
    BY <2>3, <2>4 DEF Queued, Entry, Free
  <2>6. \A b \in Addrs \ {a} : (Queued(b)' <=> Queued(b)) /\ (Live(b)' <=> Live(b))
    BY <2>1, <2>3 DEF Queued, Entry, Live
  <2>7. \A b \in Addrs, x \in Nat : <<x, b>> \in timers' => x = heap'[b].expiration
    BY <2>1, <2>3, <2>4, Zenon DEF Shape
  <2>8. \A b \in Addrs, s \in Nat : <<b, s>> \in active' <=> Queued(b)' /\ s = heap'[b].seq
    <3>1. \A b \in Addrs, s \in Nat : <<b, s>> \in active' <=> b # a /\ <<b, s>> \in active
      <4>1. active' = {entry \in active : entry[1] # a}
        BY <2>1, Zenon
      <4>2. \A b \in Addrs, s \in Nat : <<b, s>>[1] = b
        BY Zenon
      <4>3. QED
        BY <4>1, <4>2, Zenon
    <3>2. \A b \in Addrs, s \in Nat : <<b, s>> \in active <=> Queued(b) /\ s = heap[b].seq
      BY Zenon DEF Shape
    <3>3. ASSUME NEW b \in Addrs, NEW s \in Nat PROVE <<b, s>> \in active' <=> Queued(b)' /\ s = heap'[b].seq
      <4>1. CASE b = a
        BY <2>5, <3>1, <4>1, Zenon
      <4>2. CASE b # a
        BY <2>3, <2>6, <3>1, <3>2, <4>2, Zenon
      <4>3. QED
        BY <4>1, <4>2, Zenon
    <3>4. QED
      BY <3>3, Zenon
  <2>9. ~Live(a)' /\ heap'[a].seq = 0
    BY <2>3 DEF Live, Free
  <2>10. \A b \in Addrs : Live(b)' <=> heap'[b].seq >= 1
    BY <2>3, <2>6, <2>9 DEF Shape
  <2>11. \A b \in Addrs : Queued(b)' => Live(b)' /\ b \notin expired'
    BY <2>5, <2>6, Zenon DEF Shape
  <2>12. \A b \in expired' : Live(b)'
    BY <2>2, <2>6, Zenon DEF Shape, Types
  <2>13. Shape'
    BY <2>7, <2>8, <2>10, <2>11, <2>12, Zenon DEF Shape
  <2>14. \A b \in Addrs : (Apart(b)' <=> Apart(b)) /\ (Apart(b) => heap'[b].seq = heap[b].seq)
    BY <2>2, <2>3, <2>6, <2>9 DEF Apart
  <2>15. QED
    BY <2>13, <2>14, Zenon
<1>3. QED
  BY <1>1, <1>2, Zenon

\* getExpired takes what is due out of both sets.
LEMMA HandleReadShape ==
  ASSUME Types, Shape, HandleRead
  PROVE  Shape' /\ \A b \in Addrs : (Apart(b)' <=> Apart(b)) /\ (Apart(b) => heap'[b].seq = heap[b].seq)
<1>1. /\ heap' = heap /\ timers' = timers \ Due /\ expired' = {e[2] : e \in Due}
      /\ active' = active \ {<<e[2], heap[e[2]].seq>> : e \in Due} /\ lpc' = "call"
  BY Zenon DEF HandleRead
<1>2. \A a \in Addrs : heap[a].expiration \in Nat /\ heap[a].seq \in Nat
  BY Zenon DEF Types, Timer
<1>3. \A e \in Due : e[2] \in Addrs /\ e = <<heap[e[2]].expiration, e[2]>> /\ Queued(e[2])
  <2> SUFFICES ASSUME NEW e \in Due
               PROVE  e[2] \in Addrs /\ e = <<heap[e[2]].expiration, e[2]>> /\ Queued(e[2])
    BY Zenon
  <2>1. e \in timers /\ e[1] \in Nat /\ e[2] \in Addrs /\ e = <<e[1], e[2]>>
    BY DEF Due, Types
  <2>2. e[1] = heap[e[2]].expiration
    BY <2>1 DEF Shape
  <2>3. QED
    BY <2>1, <2>2, Zenon DEF Queued, Entry
<1>4. \A a \in Addrs : a \in expired' <=> Entry(a) \in Due
  <2>1. \A a \in Addrs : Entry(a)[2] = a
    BY Zenon DEF Entry
  <2>2. \A e \in Due : e = Entry(e[2])
    BY <1>3, Zenon DEF Entry
  <2>3. QED
    BY <1>1, <2>1, <2>2, Zenon
<1>5. \A a \in Addrs : Entry(a)' = Entry(a)
  BY <1>1, Zenon DEF Entry
<1>6. \A a \in Addrs : Queued(a)' <=> Queued(a) /\ a \notin expired'
  BY <1>1, <1>4, <1>5, Zenon DEF Queued
<1>7. \A a \in Addrs, x \in Nat : <<x, a>> \in timers' => x = heap'[a].expiration
  BY <1>1, Zenon DEF Shape
<1>8. \A a \in Addrs, s \in Nat : <<a, s>> \in active' <=> Queued(a)' /\ s = heap'[a].seq
  <2> SUFFICES ASSUME NEW a \in Addrs, NEW s \in Nat PROVE <<a, s>> \in active' <=> Queued(a)' /\ s = heap[a].seq
    BY <1>1, Zenon
  <2>1. <<a, s>> \in active <=> Queued(a) /\ s = heap[a].seq
    BY Zenon DEF Shape
  <2>2. <<a, s>> \in {<<e[2], heap[e[2]].seq>> : e \in Due} <=> a \in expired' /\ s = heap[a].seq
    BY <1>1, Zenon
  <2>3. QED
    BY <1>1, <1>6, <2>1, <2>2, Zenon
<1>9. \A a \in Addrs : Live(a)' <=> heap'[a].seq >= 1
  BY <1>1, Zenon DEF Shape, Live
<1>10. \A a \in expired' : Live(a)'
  BY <1>1, <1>3 DEF Shape, Live
<1>11. \A a \in Addrs : Queued(a)' => Live(a)' /\ a \notin expired'
  BY <1>1, <1>6, Zenon DEF Shape, Live
<1>12. Shape'
  BY <1>1, <1>7, <1>8, <1>9, <1>10, <1>11, Zenon DEF Shape
<1>13. \A b \in Addrs : (Apart(b)' <=> Apart(b)) /\ (Apart(b) => heap'[b].seq = heap[b].seq)
  BY <1>1, <1>4, <1>6, Zenon DEF Apart, Queued, Due, Shape, HandleRead
<1>14. QED
  BY <1>12, <1>13, Zenon

\* reset queues some of the expired timers again and deletes the others.
LEMMA ResetShape ==
  ASSUME Types, Shape, Reset
  PROVE  Shape' /\ \A b \in Addrs : (Apart(b)' <=> Apart(b)) /\ (Apart(b) => heap'[b].seq = heap[b].seq)
<1> DEFINE again == {a \in expired : Restarts(a)}
<1>1. /\ timers' = timers \cup {<<asof + heap[a].interval, a>> : a \in again}
      /\ active' = active \cup {<<a, heap[a].seq>> : a \in again}
      /\ expired' = {} /\ lpc' = "handle"
      /\ heap' = [a \in Addrs |->
             IF a \in again THEN [heap[a] EXCEPT !.expiration = asof + heap[a].interval]
             ELSE IF a \in expired THEN Free ELSE heap[a]]
  BY Zenon DEF Reset
<1>2. again \subseteq expired /\ expired \subseteq Addrs
  BY Zenon DEF Types
<1> HIDE DEF again
<1>3. \A a \in Addrs : /\ heap[a] \in Timer /\ heap[a].expiration \in Nat /\ heap[a].seq \in Nat
                       /\ asof + heap[a].interval \in Nat
  BY DEF Types, Timer
<1>4. /\ \A a \in again : heap'[a].expiration = asof + heap[a].interval /\ heap'[a].seq = heap[a].seq
      /\ \A a \in expired \ again : heap'[a] = Free
      /\ \A a \in Addrs \ expired : heap'[a] = heap[a]
  BY <1>1, <1>2, <1>3, Zenon DEF Timer
<1>5. \A a \in Addrs, x \in Nat :
         <<x, a>> \in timers' <=> <<x, a>> \in timers \/ (a \in again /\ x = asof + heap[a].interval)
  BY <1>1, Zenon
<1>6. \A a \in expired, x \in Nat : <<x, a>> \notin timers
  BY <1>2, Zenon DEF Shape, Queued, Entry
<1>7. \A a \in Addrs, x \in Nat : <<x, a>> \in timers' => x = heap'[a].expiration
  BY <1>2, <1>4, <1>5, <1>6 DEF Shape
<1>8. \A a \in Addrs : Queued(a)' <=> a \in again \/ (a \notin expired /\ Queued(a))
  <2> SUFFICES ASSUME NEW a \in Addrs PROVE Queued(a)' <=> a \in again \/ (a \notin expired /\ Queued(a))
    BY Zenon
  <2>1. Queued(a)' <=> <<heap'[a].expiration, a>> \in timers'
    BY Zenon DEF Queued, Entry
  <2>2. CASE a \in again
    BY <1>3, <1>4, <1>5, <2>1, <2>2, Zenon
  <2>3. CASE a \in expired \ again
    <3>1. heap'[a].expiration = 0
      BY <1>4, <2>3 DEF Free
    <3>2. QED
      BY <1>5, <1>6, <2>1, <2>3, <3>1
  <2>4. CASE a \notin expired
    BY <1>2, <1>3, <1>4, <1>5, <2>1, <2>4, Zenon DEF Queued, Entry
  <2>5. QED
    BY <2>2, <2>3, <2>4, Zenon
<1>9. \A a \in Addrs, s \in Nat : <<a, s>> \in active' <=> Queued(a)' /\ s = heap'[a].seq
  <2> SUFFICES ASSUME NEW a \in Addrs, NEW s \in Nat PROVE <<a, s>> \in active' <=> Queued(a)' /\ s = heap'[a].seq
    BY Zenon
  <2>1. <<a, s>> \in active' <=> <<a, s>> \in active \/ (a \in again /\ s = heap[a].seq)
    BY <1>1, Zenon
  <2>2. <<a, s>> \in active <=> Queued(a) /\ s = heap[a].seq
    BY Zenon DEF Shape
  <2>3. Queued(a) => a \notin expired
    BY Zenon DEF Shape
  <2>4. QED
    BY <1>2, <1>4, <1>8, <2>1, <2>2, <2>3, Zenon
<1>10. \A a \in Addrs : Live(a)' <=> heap'[a].seq >= 1
  <2>1. \A a \in again : Live(a)' /\ heap'[a].seq >= 1
    BY <1>2, <1>4 DEF Shape, Live, Free
  <2>2. \A a \in expired \ again : ~Live(a)' /\ heap'[a].seq = 0
    BY <1>4 DEF Live, Free
  <2>3. \A a \in Addrs \ expired : (Live(a)' <=> Live(a)) /\ heap'[a].seq = heap[a].seq
    BY <1>4, Zenon DEF Live
  <2>4. QED
    BY <2>1, <2>2, <2>3 DEF Shape
<1>11. \A a \in Addrs : Queued(a)' => Live(a)' /\ a \notin expired'
  BY <1>1, <1>2, <1>4, <1>8, <1>10, Zenon DEF Shape
<1>12. Shape'
  BY <1>1, <1>7, <1>9, <1>10, <1>11, Zenon DEF Shape
<1>13. \A b \in Addrs : (Apart(b)' <=> Apart(b)) /\ (Apart(b) => heap'[b].seq = heap[b].seq)
  <2>1. \A b \in expired \ again : heap'[b].seq = 0
    BY <1>4 DEF Free
  <2>2. QED
    BY <1>1, <1>2, <1>4, <1>8, <2>1 DEF Apart
<1>14. QED
  BY <1>12, <1>13, Zenon

-----------------------------------------------------------------------------
\* What a pending call is made of.
LEMMA CallTypes ==
  ASSUME Types, NEW i \in 1 .. Len(pending)
  PROVE  pending[i] \in Call /\ pending[i].id \in Id /\ pending[i].id.timer \in Addrs
<1>1. pending[i] \in Call
  <2>1. pending \in Seq(Call)
    BY Zenon DEF Types
  <2>2. QED
    BY <2>1
<1>2. pending[i].id \in Id
  BY <1>1, Zenon DEF Call
<1>3. pending[i].id.timer \in Addrs
  BY <1>2, Zenon DEF Id
<1>4. QED
  BY <1>1, <1>2, <1>3, Zenon

\* A step that leaves the pending calls and the timers apart alone.
LEMMA PendKeeps ==
  ASSUME Types, Pend, pending' = pending, lpc' # "gone" => lpc # "gone",
         \A b \in Addrs : Apart(b) => Apart(b)' /\ heap'[b].seq = heap[b].seq
  PROVE  Pend'
<1>1. \A i \in 1 .. Len(pending) : pending[i].id.timer \in Addrs
  BY CallTypes, Zenon
<1>2. QED
  BY <1>1, Zenon DEF Pend, Adds

\* A queue that was just constructed.
LEMMA ShapeInit == Init => Shape /\ Pend
<1> SUFFICES ASSUME Init PROVE Shape /\ Pend
  BY Zenon
<1>1. Shape
  BY DEF Init, Shape, Queued, Live, Free
<1>2. Len(pending) = 0
  BY Zenon DEF Init
<1>3. Pend
  BY <1>2 DEF Pend
<1>4. QED
  BY <1>1, <1>3, Zenon

\* Every step keeps the two: the heap, the sets, the batch that is called
\* and the pending calls agree on who owns which timer.
LEMMA ShapeStep == Types /\ Shape /\ Pend /\ [Next]_vars => Shape' /\ Pend'
<1> SUFFICES ASSUME Types, Shape, Pend, [Next]_vars PROVE Shape' /\ Pend'
  BY Zenon
<1> USE DEF callVars, loopVars, userVars
<1>1. ASSUME UNCHANGED <<heap, timers, active, expired, pending>>, lpc' # "call" => lpc # "call",
             lpc' # "gone" => lpc # "gone"
      PROVE  Shape' /\ Pend'
  <2>1. Shape'
    BY <1>1, Zenon DEF Shape, Queued, Entry, Live
  <2>2. \A b \in Addrs : Apart(b) => Apart(b)' /\ heap'[b].seq = heap[b].seq
    BY <1>1, Zenon DEF Apart, Queued, Entry
  <2>3. QED
    BY <1>1, <2>1, <2>2, PendKeeps, Zenon
<1>2. CASE Tick \/ Alarm \/ Poll \/ Run \/ SwapFunctors \/ FunctorsDone \/ UNCHANGED vars
  BY <1>1, <1>2, Zenon DEF Tick, Alarm, Poll, Run, SwapFunctors, FunctorsDone, vars
<1>3. CASE HandleRead
  <2>1. pending' = pending /\ lpc # "gone"
    BY <1>3, Zenon DEF HandleRead
  <2>2. QED
    BY <1>3, <2>1, HandleReadShape, PendKeeps, Zenon
<1>4. CASE Reset
  <2>1. pending' = pending /\ lpc # "gone"
    BY <1>4, Zenon DEF Reset
  <2>2. QED
    BY <1>4, <2>1, ResetShape, PendKeeps, Zenon
<1>5. CASE RunFunctor
  <2> DEFINE c == Head(pending)
             n == Len(pending)
  <2>1. /\ pending # <<>> /\ c = pending[1] /\ n \in Nat /\ n >= 1
        /\ pending' = Tail(pending) /\ Len(pending') = n - 1
        /\ \A i \in 1 .. n - 1 : i + 1 \in 1 .. n /\ pending'[i] = pending[i + 1]
    BY <1>5 DEF RunFunctor, Types
  <2>2. lpc = "functors" /\ lpc' = lpc /\ expired' = expired
    BY <1>5, Zenon DEF RunFunctor
  <2>3. c \in Call /\ c.id \in Id /\ c.id.timer \in Addrs
    <3>1. 1 \in 1 .. Len(pending)
      BY <2>1
    <3>2. QED
      BY <2>1, <3>1, CallTypes, Zenon
  <2>4. \A i \in 1 .. n : pending[i].id.timer \in Addrs
    BY CallTypes, Zenon
  <2>5. ASSUME \A b \in Addrs, i \in 2 .. n :
                 Adds(i) /\ pending[i].id.timer = b => Apart(b)' /\ heap'[b].seq = heap[b].seq
        PROVE  Pend'
    <3>1. \A i \in 1 .. n - 1 : i + 1 \in 2 .. n /\ i + 1 \in 1 .. n
      BY <2>1
    <3>2. \A i \in 1 .. n - 1 : Adds(i)' <=> Adds(i + 1)
      BY <2>1, Zenon DEF Adds
    <3>3. ASSUME NEW i \in 1 .. n - 1, Adds(i)'
          PROVE  Apart(pending[i].id.timer)' /\ heap'[pending'[i].id.timer].seq = pending'[i].id.own
      <4>1. Adds(i + 1) /\ i + 1 \in 1 .. n /\ i + 1 \in 2 .. n /\ pending'[i] = pending[i + 1]
        BY <2>1, <3>1, <3>2, <3>3, Zenon
      <4>2. heap[pending[i + 1].id.timer].seq = pending[i + 1].id.own
        BY <2>2, <4>1, Zenon DEF Pend
      <4>3. PICK b \in Addrs : b = pending[i + 1].id.timer
        BY <2>4, <4>1, Zenon
      <4>4. Apart(b)' /\ heap'[b].seq = heap[b].seq
        BY <2>5, <4>1, <4>3, Zenon
      <4>5. QED
        BY <4>1, <4>2, <4>3, <4>4, Zenon
    <3>4. ASSUME NEW i \in 1 .. n - 1, NEW k \in 1 .. n - 1, Adds(i)', Adds(k)',
                 pending'[i].id.timer = pending'[k].id.timer
          PROVE  i = k
      <4>1. i + 1 = k + 1
        BY <2>1, <2>2, <3>1, <3>2, <3>4 DEF Pend
      <4>2. QED
        BY <4>1
    <3>5. QED
      BY <2>1, <3>3, <3>4, Zenon DEF Pend
  <2>6. CASE c.op = "add" /\ AddTimerInLoop(c.id.timer, heap[c.id.timer]) /\ heap' = heap
    <3> DEFINE a == c.id.timer
    <3>1. Apart(a) /\ 1 \in 1 .. n /\ Adds(1)
      BY <2>1, <2>2, <2>6 DEF Pend, Adds
    <3>2. heap[a] \in Timer /\ heap' = [heap EXCEPT ![a] = heap[a]]
      BY <2>3, <2>6, Zenon DEF Types
    <3>3. Shape' /\ \A b \in Addrs : Queued(b)' <=> Queued(b) \/ b = a
      BY <2>2, <2>3, <2>6, <3>1, <3>2, InsertShape, Zenon DEF Apart
    <3>4. ASSUME NEW b \in Addrs, NEW i \in 2 .. n, Adds(i), pending[i].id.timer = b
          PROVE  Apart(b)' /\ heap'[b].seq = heap[b].seq
      <4>1. i \in 1 .. n /\ i # 1
        BY <2>1
      <4>2. Apart(b) /\ b # a
        BY <2>1, <2>2, <3>1, <3>4, <4>1, Zenon DEF Pend
      <4>3. QED
        BY <2>2, <2>6, <3>3, <4>2, Zenon DEF Apart
    <3>5. QED
      BY <2>5, <3>3, <3>4, Zenon
  <2>7. CASE CancelInLoop(c.id)
    <3>1. Shape' /\ \A b \in Addrs : Apart(b) => Apart(b)' /\ heap'[b].seq = heap[b].seq
      BY <2>2, <2>3, <2>7, CancelShape, Zenon
    <3>2. ASSUME NEW b \in Addrs, NEW i \in 2 .. n, Adds(i), pending[i].id.timer = b
          PROVE  Apart(b)' /\ heap'[b].seq = heap[b].seq
      <4>1. i \in 1 .. n
        BY <2>1
      <4>2. Apart(b)
        BY <2>2, <3>2, <4>1, Zenon DEF Pend
      <4>3. QED
        BY <3>1, <4>2, Zenon
    <3>3. QED
      BY <2>5, <3>1, <3>2, Zenon
  <2>8. QED
    BY <1>5, <2>6, <2>7, Zenon DEF RunFunctor
<1>6. ASSUME NEW a \in Addrs, NEW timer \in Timers, AddTimer(a, timer) PROVE Shape' /\ Pend'
  <2>1. /\ ~Live(a) /\ heap' = [heap EXCEPT ![a] = timer] /\ AddTimerInLoop(a, timer)
        /\ expired' = expired /\ lpc' = lpc /\ pending' = pending
    BY <1>6, Zenon DEF AddTimer, NewTimer
  <2>2. timer \in Timer /\ timer.seq >= 1
    BY TimerTypes, Zenon
  <2>3. ~Queued(a) /\ a \notin expired /\ ~Apart(a)
    BY <2>1, Zenon DEF Shape, Apart
  <2>4. Shape' /\ \A b \in Addrs : Queued(b)' <=> Queued(b) \/ b = a
    BY <2>1, <2>2, <2>3, InsertShape, Zenon
  <2>5. \A b \in Addrs \ {a} : heap'[b] = heap[b]
    BY <2>1, Zenon DEF Types
  <2>6. \A b \in Addrs : Apart(b) => Apart(b)' /\ heap'[b].seq = heap[b].seq
    BY <2>1, <2>3, <2>4, <2>5, Zenon DEF Apart
  <2>7. QED
    BY <2>1, <2>4, <2>6, PendKeeps, Zenon
<1>7. ASSUME NEW a \in Addrs, NEW timer \in Timers, NEW t \in Threads, AddTimerOther(t, a, timer)
      PROVE  Shape' /\ Pend'
  <2> DEFINE n == Len(pending)
             new == [op |-> "add", id |-> TimerId(a, timer.seq, timer.seq)]
  <2>1. /\ ~Live(a) /\ heap' = [heap EXCEPT ![a] = timer] /\ timers' = timers /\ active' = active
        /\ expired' = expired /\ lpc' = lpc /\ pending' = Append(pending, new) /\ lpc # "gone"
    BY <1>7, Zenon DEF AddTimerOther, NewTimer, Queue
  <2>2. timer \in Timer /\ timer.seq >= 1 /\ timer.seq \in Nat /\ timer.expiration \in Nat
    BY TimerTypes, Zenon DEF Timer
  <2>3. ~Queued(a) /\ a \notin expired /\ ~Apart(a) /\ \A x \in Nat : <<x, a>> \notin timers
    BY <2>1, Zenon DEF Shape, Apart, Queued, Entry
  <2>4. heap'[a] = timer /\ \A b \in Addrs \ {a} : heap'[b] = heap[b]
    BY <2>1, Zenon DEF Types
  <2>5. ~Queued(a)' /\ \A b \in Addrs \ {a} : (Queued(b)' <=> Queued(b)) /\ (Live(b)' <=> Live(b))
    BY <2>1, <2>2, <2>3, <2>4 DEF Queued, Entry, Live
  <2>6. Live(a)' /\ heap'[a].seq >= 1
    BY <2>2, <2>4 DEF Live, Free
  <2>7. Shape'
    <3>1. \A b \in Addrs, x \in Nat : <<x, b>> \in timers' => x = heap'[b].expiration
      BY <2>1, <2>3, <2>4, Zenon DEF Shape
    <3>2. ASSUME NEW b \in Addrs, NEW s \in Nat PROVE <<b, s>> \in active' <=> Queued(b)' /\ s = heap'[b].seq
      <4>1. <<b, s>> \in active' <=> Queued(b) /\ s = heap[b].seq
        BY <2>1, Zenon DEF Shape
      <4>2. QED
        BY <2>3, <2>4, <2>5, <4>1, Zenon
    <3>3. \A b \in Addrs : Live(b)' <=> heap'[b].seq >= 1
      BY <2>4, <2>5, <2>6, Zenon DEF Shape
    <3>4. \A b \in Addrs : Queued(b)' => Live(b)' /\ b \notin expired'
      BY <2>1, <2>5, Zenon DEF Shape
    <3>5. \A b \in expired' : Live(b)'
      BY <2>1, <2>3, <2>5, Zenon DEF Shape, Types
    <3>6. QED
      BY <2>1, <3>1, <3>2, <3>3, <3>4, <3>5, Zenon DEF Shape
  <2>8. \A b \in Addrs : Apart(b) => b # a /\ Apart(b)' /\ heap'[b].seq = heap[b].seq
    BY <2>1, <2>3, <2>4, <2>5, Zenon DEF Apart
  <2>9. Apart(a)'
    BY <2>1, <2>3, <2>5, <2>6, Zenon DEF Apart
  <2>10. /\ n \in Nat /\ Len(pending') = n + 1 /\ pending'[n + 1] = new
         /\ \A i \in 1 .. n : pending'[i] = pending[i] /\ pending[i].id.timer \in Addrs
         /\ \A i \in 1 .. n + 1 : i \in 1 .. n \/ i = n + 1
    BY <2>1, CallTypes DEF Types
  <2>11. new.op = "add" /\ new.id.timer = a /\ new.id.own = timer.seq
    BY Zenon DEF TimerId
  <2> HIDE DEF new
  <2>12. \A i \in 1 .. n : Adds(i) => /\ Apart(pending[i].id.timer) /\ pending[i].id.timer # a
                                      /\ heap[pending[i].id.timer].seq = pending[i].id.own
    BY <2>1, <2>8, <2>10, Zenon DEF Pend
  <2>13. \A i \in 1 .. n : Adds(i)' <=> Adds(i)
    BY <2>10, Zenon DEF Adds
  <2>14. ASSUME NEW i \in 1 .. n + 1, Adds(i)'
         PROVE  Apart(pending[i].id.timer)' /\ heap'[pending'[i].id.timer].seq = pending'[i].id.own
    <3>1. CASE i \in 1 .. n
      <4>1. PICK b \in Addrs : b = pending[i].id.timer
        BY <2>10, <3>1, Zenon
      <4>2. Apart(b)' /\ heap'[b].seq = pending[i].id.own
        BY <2>8, <2>12, <2>13, <2>14, <3>1, <4>1, Zenon
      <4>3. QED
        BY <2>10, <3>1, <4>1, <4>2, Zenon
    <3>2. CASE i = n + 1
      <4>1. pending'[i] = new
        BY <2>10, <3>2, Zenon
      <4>2. QED
        BY <2>4, <2>9, <2>11, <4>1, Zenon
    <3>3. QED
      BY <2>10, <3>1, <3>2, Zenon
  <2>15. ASSUME NEW i \in 1 .. n + 1, NEW k \in 1 .. n + 1, Adds(i)', Adds(k)',
                pending'[i].id.timer = pending'[k].id.timer
         PROVE  i = k
    <3>1. CASE i \in 1 .. n /\ k \in 1 .. n
      BY <2>1, <2>10, <2>13, <2>15, <3>1, Zenon DEF Pend
    <3>2. CASE i \in 1 .. n /\ k = n + 1
      BY <2>10, <2>11, <2>12, <2>13, <2>15, <3>2, Zenon
    <3>3. CASE i = n + 1 /\ k \in 1 .. n
      BY <2>10, <2>11, <2>12, <2>13, <2>15, <3>3, Zenon
    <3>4. QED
      BY <2>10, <3>1, <3>2, <3>3, Zenon
  <2>16. QED
    BY <2>7, <2>10, <2>14, <2>15, Zenon DEF Pend
<1>8. ASSUME NEW id \in ids, Cancel(id) PROVE Shape' /\ Pend'
  <2>1. CancelInLoop(id) /\ id \in Id /\ expired' = expired /\ lpc' = lpc /\ pending' = pending
    BY <1>8, Zenon DEF Cancel, Types
  <2>2. QED
    BY <2>1, CancelShape, PendKeeps, Zenon
<1>9. ASSUME NEW id \in ids, NEW t \in Threads, CancelOther(t, id) PROVE Shape' /\ Pend'
  <2> DEFINE n == Len(pending)
  <2>1. /\ UNCHANGED <<heap, timers, active, expired, lpc>>
        /\ pending' = Append(pending, [op |-> "cancel", id |-> id]) /\ lpc # "gone"
    BY <1>9, Zenon DEF CancelOther, Queue
  <2>2. Shape'
    BY <2>1, Zenon DEF Shape, Queued, Entry, Live
  <2>3. \A b \in Addrs : (Apart(b)' <=> Apart(b)) /\ heap'[b].seq = heap[b].seq
    BY <2>1, Zenon DEF Apart, Queued, Entry
  <2>4. /\ n \in Nat /\ Len(pending') = n + 1 /\ pending'[n + 1].op = "cancel"
        /\ \A i \in 1 .. n : pending'[i] = pending[i] /\ pending[i].id.timer \in Addrs
        /\ \A i \in 1 .. n + 1 : i \in 1 .. n \/ i = n + 1
    BY <2>1, CallTypes DEF Types
  <2>5. \A i \in 1 .. n + 1 : Adds(i)' => i \in 1 .. n /\ Adds(i)
    BY <2>4, Zenon DEF Adds
  <2>6. QED
    BY <2>1, <2>2, <2>3, <2>4, <2>5 DEF Pend
<1>10. ASSUME NEW t \in Threads, ReadSequence(t) PROVE Shape' /\ Pend'
  BY <1>1, <1>10, Zenon DEF ReadSequence
<1>11. CASE Destroy
  <2>1. /\ lpc = "functors" /\ lpc' = "gone" /\ timers' = {} /\ active' = {} /\ expired' = expired
        /\ heap' = [a \in Addrs |-> IF \E e \in timers : e[2] = a THEN Free ELSE heap[a]]
    BY <1>11, Zenon DEF Destroy
  <2>2. expired = {}
    BY <2>1, Zenon DEF Shape
  <2>3. \A a \in Addrs : heap'[a] = Free \/ heap'[a] = heap[a]
    BY <2>1, Zenon
  <2>4. \A a \in Addrs : Live(a)' <=> heap'[a].seq >= 1
    BY <2>3 DEF Shape, Live, Free
  <2>5. Shape'
    BY <2>1, <2>2, <2>4, Zenon DEF Shape, Queued
  <2>6. QED
    BY <2>1, <2>5, Zenon DEF Pend
<1>12. QED
  BY <1>2, <1>3, <1>4, <1>5, <1>6, <1>7, <1>8, <1>9, <1>10, <1>11, Zenon DEF Next, LoopStep, User

-----------------------------------------------------------------------------
\* What Shape and Pend say address by address is NoDangling.
LEMMA ShapeNoDangling == Types /\ Shape /\ Pend => NoDangling
<1> SUFFICES ASSUME Types, Shape, Pend PROVE NoDangling
  BY Zenon
<1>1. \A e \in timers : /\ e[1] \in Nat /\ e[2] \in Addrs /\ e = <<e[1], e[2]>>
                        /\ heap[e[2]].seq \in Nat
  BY DEF Types, Timer
<1>2. \A e \in timers : e = Entry(e[2]) /\ Queued(e[2])
  BY <1>1 DEF Shape, Queued, Entry
<1>3. \A entry \in active : /\ entry[1] \in Addrs /\ entry[2] \in Nat
                            /\ entry = <<entry[1], entry[2]>>
  BY DEF Types
<1>4. timers = {Entry(e[2]) : e \in timers}
  BY <1>2, Zenon
<1>5. active = {<<e[2], heap[e[2]].seq>> : e \in timers}
  <2>1. ASSUME NEW entry \in active PROVE \E e \in timers : entry = <<e[2], heap[e[2]].seq>>
    <3>1. Queued(entry[1]) /\ entry[2] = heap[entry[1]].seq
      BY <1>3 DEF Shape
    <3>2. Entry(entry[1]) \in timers /\ Entry(entry[1])[2] = entry[1]
      BY <3>1, Zenon DEF Queued, Entry
    <3>3. QED
      BY <1>3, <3>1, <3>2, Zenon
  <2>2. ASSUME NEW e \in timers PROVE <<e[2], heap[e[2]].seq>> \in active
    BY <1>1, <1>2, Zenon DEF Shape
  <2>3. QED
    BY <2>1, <2>2, Zenon
<1>6. \A e \in timers : Live(e[2]) /\ e[2] \notin expired
  BY <1>1, <1>2, Zenon DEF Shape
<1>7. lpc # "gone" => \A i \in 1 .. Len(pending) :
           pending[i].op = "add" => /\ heap[pending[i].id.timer].seq = pending[i].id.own
                                    /\ pending[i].id.timer \notin expired
  BY Zenon DEF Pend, Adds, Apart
<1>8. \A a \in expired : Live(a)
  BY Zenon DEF Shape
<1>9. QED
  BY <1>4, <1>5, <1>6, <1>7, <1>8, Zenon DEF NoDangling

\* timers_, activeTimers_, the batch of handleRead and the pending calls never
\* point to a Timer that was deleted or to another that has its address,
\* whatever callbacks and other threads add and cancel, and in any order.
THEOREM NothingDangles == Spec => []NoDangling
<1>1. Init => Types /\ Shape /\ Pend
  BY TypesInit, ShapeInit, Zenon
<1>2. Types /\ Shape /\ Pend /\ [Next]_vars => (Types /\ Shape /\ Pend)'
  BY TypesStep, ShapeStep, Zenon
<1>3. QED
  BY <1>1, <1>2, ShapeNoDangling, PTL DEF Spec

-----------------------------------------------------------------------------
\* A report of the poll is only there while the handlers run.
Cover == AlarmCovers /\ (lpc # "handle" => ~reported)

\* addTimerInLoop leaves every timer covered.
LEMMA InsertCovers ==
  ASSUME Types, Cover, NEW a \in Addrs, NEW timer \in Timer, AddTimerInLoop(a, timer),
         lpc' = lpc, reported' = reported, now' = now
  PROVE  Cover'
<1>1. timers' = timers \cup {<<timer.expiration, a>>} /\ timer.expiration \in Nat
  BY Zenon DEF AddTimerInLoop, Timer
<1>2. now \in Nat \ {0} /\ alarm \in Nat /\ \A e \in timers : e[1] \in Nat
  BY Zenon DEF Types
<1>3. CASE EarliestChanged(timer)
  <2>1. alarm' = IF timer.expiration < now THEN now ELSE timer.expiration
    BY <1>3, Zenon DEF AddTimerInLoop, ResetTimerfd
  <2>2. \A e \in timers' : timer.expiration <= e[1]
    BY <1>1, <1>2, <1>3 DEF EarliestChanged
  <2>3. \A e \in timers' : e[1] \in Nat
    BY <1>1, <1>2
  <2>4. alarm' # 0 /\ \A e \in timers' : alarm' <= e[1] \/ alarm' <= now'
    BY <1>1, <1>2, <2>1, <2>2, <2>3
  <2>5. QED
    BY <2>4, Zenon DEF Cover, AlarmCovers
<1>4. CASE ~EarliestChanged(timer)
  <2>1. alarm' = alarm /\ ready' = ready
    BY <1>4, Zenon DEF AddTimerInLoop
  <2>2. PICK f \in timers : f[1] <= timer.expiration
    BY <1>1, <1>2, <1>4 DEF EarliestChanged
  <2>3. CASE lpc # "call" /\ ~ready /\ ~reported
    <3>1. alarm # 0 /\ \A e \in timers : alarm <= e[1] \/ alarm <= now
      BY <2>2, <2>3, Zenon DEF Cover, AlarmCovers
    <3>2. alarm <= timer.expiration \/ alarm <= now
      BY <1>1, <1>2, <2>2, <3>1
    <3>3. alarm' # 0 /\ \A e \in timers' : alarm' <= e[1] \/ alarm' <= now'
      BY <1>1, <2>1, <3>1, <3>2
    <3>4. QED
      BY <3>3, Zenon DEF Cover, AlarmCovers
  <2>4. CASE lpc = "call" \/ ready \/ reported
    BY <2>1, <2>4, Zenon DEF Cover, AlarmCovers
  <2>5. QED
    BY <2>3, <2>4, Zenon
<1>5. QED
  BY <1>3, <1>4, Zenon

\* A step that queues nothing and leaves the timerfd alone.
LEMMA FewerCovers ==
  ASSUME Types, Cover, timers' \subseteq timers, alarm' = alarm, ready' = ready,
         reported' = reported, now' \in Nat, now <= now', lpc' # "call" => lpc # "call",
         lpc' # "handle" => ~reported
  PROVE  Cover'
<1>1. alarm \in Nat /\ now \in Nat
  BY Zenon DEF Types
<1>2. CASE lpc' # "call" /\ timers' # {} /\ ~ready /\ ~reported
  <2>1. alarm # 0 /\ \A e \in timers : alarm <= e[1] \/ alarm <= now
    BY <1>2, Zenon DEF Cover, AlarmCovers
  <2>2. \A e \in timers' : alarm' <= e[1] \/ alarm' <= now'
    BY <1>1, <2>1
  <2>3. QED
    BY <2>1, <2>2, Zenon DEF Cover, AlarmCovers
<1>3. CASE lpc' = "call" \/ timers' = {} \/ ready \/ reported
  BY <1>3, Zenon DEF Cover, AlarmCovers
<1>4. QED
  BY <1>2, <1>3, Zenon

\* cancelInLoop only takes entries out.
LEMMA CancelCovers ==
  ASSUME Types, Cover, NEW id \in Id, CancelInLoop(id), lpc' = lpc, reported' = reported, now' = now
  PROVE  Cover'
<1>1. timers' \subseteq timers /\ alarm' = alarm /\ ready' = ready
  BY Zenon DEF CancelInLoop
<1>2. now' \in Nat /\ now <= now'
  BY DEF Types
<1>3. lpc' # "handle" => ~reported
  BY Zenon DEF Cover
<1>4. QED
  BY <1>1, <1>2, <1>3, FewerCovers, Zenon

\* Every step leaves the timers covered; reset sets the timerfd for the
\* earliest of what is left, whoever queued it.
LEMMA CoverStep == Types /\ Cover /\ [Next]_vars => Cover'
<1> SUFFICES ASSUME Types, Cover, [Next]_vars PROVE Cover'
  BY Zenon
<1> USE DEF callVars, loopVars, userVars
<1>0. now \in Nat \ {0} /\ now + 1 \in Nat /\ now <= now /\ now <= now + 1
  BY DEF Types
<1>1. CASE Tick \/ Run \/ SwapFunctors \/ FunctorsDone \/ UNCHANGED vars
  <2>1. /\ timers' = timers /\ alarm' = alarm /\ ready' = ready /\ reported' = reported
        /\ now' = now \/ now' = now + 1
    BY <1>1, Zenon DEF Tick, Run, SwapFunctors, FunctorsDone, vars
  <2>2. (lpc' # "call" => lpc # "call") /\ (lpc' # "handle" => ~reported)
    BY <1>1, Zenon DEF Tick, Run, SwapFunctors, FunctorsDone, vars, Cover
  <2>3. QED
    BY <1>0, <2>1, <2>2, FewerCovers, Zenon
<1>2. CASE Alarm
  BY <1>2, Zenon DEF Alarm, Cover, AlarmCovers
<1>3. CASE Poll
  <2>1. /\ lpc = "poll" /\ lpc' = "handle" /\ UNCHANGED <<timers, alarm, ready, now>>
    BY <1>3, Zenon DEF Poll
  <2>2. ~reported
    BY <2>1, Zenon DEF Cover
  <2>3. QED
    BY <2>1, <2>2, Zenon DEF Cover, AlarmCovers
<1>4. CASE HandleRead
  BY <1>4, Zenon DEF HandleRead, Cover, AlarmCovers
<1>5. CASE Reset
  <2> DEFINE again == {a \in expired : Restarts(a)}
             left == timers \cup {<<asof + heap[a].interval, a>> : a \in again}
  <2>1. /\ timers' = left /\ now' = now /\ lpc' = "handle"
        /\ IF left # {} THEN ResetTimerfd(Earliest(left)[1]) ELSE UNCHANGED <<alarm, ready>>
    BY <1>5, Zenon DEF Reset, Rearm
  <2>2. \A a \in expired : a \in Addrs /\ asof + heap[a].interval \in Nat
    BY DEF Types, Timer
  <2>3. left \in SUBSET (Nat \X Addrs)
    BY <2>2 DEF Types
  <2> HIDE DEF left
  <2>4. CASE left # {}
    <3> DEFINE first == Earliest(left)
    <3>1. first \in left /\ first[1] \in Nat /\ \A f \in left : first[1] <= f[1] /\ f[1] \in Nat
      BY <2>3, <2>4, EarliestFirst, Zenon
    <3>2. alarm' = IF first[1] < now THEN now ELSE first[1]
      BY <2>1, <2>4, Zenon DEF ResetTimerfd
    <3> HIDE DEF first
    <3>3. alarm' # 0 /\ \A e \in timers' : alarm' <= e[1] \/ alarm' <= now'
      BY <1>0, <2>1, <3>1, <3>2
    <3>4. QED
      BY <2>1, <3>3, Zenon DEF Cover, AlarmCovers
  <2>5. CASE left = {}
    BY <2>1, <2>5, Zenon DEF Cover, AlarmCovers
  <2>6. QED
    BY <2>4, <2>5, Zenon
<1>6. CASE RunFunctor
  <2> DEFINE c == Head(pending)
  <2>1. /\ lpc' = lpc /\ reported' = reported /\ now' = now /\ batch > 0
        /\ AddTimerInLoop(c.id.timer, heap[c.id.timer]) \/ CancelInLoop(c.id)
    BY <1>6, Zenon DEF RunFunctor
  <2>2. c.id \in Id /\ c.id.timer \in Addrs
    <3>1. 1 \in 1 .. Len(pending) /\ c = pending[1]
      BY <2>1 DEF Types
    <3>2. QED
      BY <3>1, CallTypes, Zenon
  <2>3. heap[c.id.timer] \in Timer
    BY <2>2, Zenon DEF Types
  <2>4. QED
    BY <2>1, <2>2, <2>3, InsertCovers, CancelCovers, Zenon
<1>7. ASSUME NEW a \in Addrs, NEW timer \in Timers, AddTimer(a, timer) PROVE Cover'
  <2>1. AddTimerInLoop(a, timer) /\ lpc' = lpc /\ reported' = reported /\ now' = now
    BY <1>7, Zenon DEF AddTimer
  <2>2. timer \in Timer
    BY TimerTypes, Zenon
  <2>3. QED
    BY <2>1, <2>2, InsertCovers, Zenon
<1>8. ASSUME NEW a \in Addrs, NEW timer \in Timers, NEW t \in Threads, AddTimerOther(t, a, timer)
      PROVE  Cover'
  BY <1>0, <1>8, FewerCovers, Zenon DEF AddTimerOther, Cover
<1>9. ASSUME NEW id \in ids, Cancel(id) PROVE Cover'
  BY <1>9, CancelCovers, Zenon DEF Cancel, Types
<1>10. ASSUME NEW id \in ids, NEW t \in Threads, CancelOther(t, id) PROVE Cover'
  BY <1>0, <1>10, FewerCovers, Zenon DEF CancelOther, Cover
<1>11. ASSUME NEW t \in Threads, ReadSequence(t) PROVE Cover'
  BY <1>0, <1>11, FewerCovers, Zenon DEF ReadSequence, Cover
<1>12. CASE Destroy
  BY <1>12, Zenon DEF Destroy, Cover, AlarmCovers
<1>13. QED
  BY <1>1, <1>2, <1>3, <1>4, <1>5, <1>6, <1>7, <1>8, <1>9, <1>10, <1>11, <1>12, Zenon
     DEF Next, LoopStep, User

\* Outside the callbacks no timer sleeps past its expiration: insert and reset
\* set the timerfd early enough, and nothing puts it off or clears it.
THEOREM AlarmInTime == Spec => []AlarmCovers
<1>1. Init => Types /\ Cover
  <2>1. Init => Cover
    BY Zenon DEF Init, Cover, AlarmCovers
  <2>2. QED
    BY <2>1, TypesInit, Zenon
<1>2. Types /\ Cover /\ [Next]_vars => (Types /\ Cover)'
  BY TypesStep, CoverStep, Zenon
<1>3. Cover => AlarmCovers
  BY Zenon DEF Cover
<1>4. QED
  BY <1>1, <1>2, <1>3, PTL DEF Spec

-----------------------------------------------------------------------------
\* An exact TimerId: its sequence number is that of the timer it was made for,
\* and if that timer is still there it is where the TimerId says.
Known(id) ==
    /\ id.own \in 1 .. created /\ id.seq = id.own
    /\ \A a \in Addrs : heap[a].seq = id.own => a = id.timer

\* The TimerIds there are: with the users, in pending calls, and those that
\* addTimer is about to make.
Names ==
    ids \cup {pending[i].id : i \in 1 .. Len(pending)}
        \cup {TimerId(opc[t].timer, opc[t].seq, opc[t].seq) : t \in {u \in Threads : opc[u] # None}}

\* Sequence numbers are not used again, and every TimerId is exact.
Exact ==
    /\ \A a \in Addrs : heap[a].seq <= created
    /\ \A a, b \in Addrs : heap[a].seq >= 1 /\ heap[a].seq = heap[b].seq => a = b
    /\ \A id \in Names : Known(id)

\* A step that makes no timer, and one that makes one at address x
Older == created' = created /\ \A a \in Addrs : heap'[a].seq \in {heap[a].seq, 0}

Newer(x) ==
    /\ created' = created + 1
    /\ heap[x].seq = 0 /\ heap'[x].seq = created + 1
    /\ \A a \in Addrs \ {x} : heap'[a].seq = heap[a].seq

\* The TimerIds are of their type.
LEMMA NamesTypes == Types => Names \subseteq Id
<1> SUFFICES ASSUME Types PROVE Names \subseteq Id
  BY Zenon
<1>1. \A i \in 1 .. Len(pending) : pending[i].id \in Id
  BY CallTypes, Zenon
<1>2. ASSUME NEW t \in Threads, opc[t] # None PROVE TimerId(opc[t].timer, opc[t].seq, opc[t].seq) \in Id
  <2>1. opc[t] \in [timer : Addrs, seq : Nat]
    BY <1>2, Zenon DEF Types
  <2>2. QED
    BY <2>1, Zenon DEF TimerId, Id
<1>3. QED
  BY <1>1, <1>2, Zenon DEF Names, Types

\* Every step deletes timers or makes one.
LEMMA HeapStep == Types /\ Shape /\ [Next]_vars => Older \/ \E x \in Addrs : Newer(x)
<1> SUFFICES ASSUME Types, Shape, [Next]_vars PROVE Older \/ \E x \in Addrs : Newer(x)
  BY Zenon
<1> USE DEF callVars, loopVars, userVars
<1>0. Free.seq = 0
  BY Zenon DEF Free
<1>1. ASSUME heap' = heap, created' = created PROVE Older
  BY <1>1, Zenon DEF Older
<1>2. ASSUME NEW id \in Id, CancelInLoop(id), created' = created PROVE Older
  <2>1. heap' = heap \/ heap' = [heap EXCEPT ![id.timer] = Free]
    BY <1>2, Zenon DEF CancelInLoop
  <2>2. QED
    BY <1>0, <1>2, <2>1, Zenon DEF Older, Types
<1>3. ASSUME NEW a \in Addrs, NEW timer \in Timers, NewTimer(a, timer) PROVE Newer(a)
  <2>1. heap[a].seq = 0
    BY <1>3, <1>0, Zenon DEF NewTimer, Live
  <2>2. QED
    BY <1>3, <2>1, Zenon DEF NewTimer, Newer, Types
<1>4. CASE Tick \/ Alarm \/ Poll \/ HandleRead \/ Run \/ SwapFunctors \/ FunctorsDone \/ UNCHANGED vars
  BY <1>1, <1>4, Zenon DEF Tick, Alarm, Poll, HandleRead, Run, SwapFunctors, FunctorsDone, vars
<1>5. CASE Reset
  <2>1. created' = created /\ heap' = [a \in Addrs |->
             IF a \in {b \in expired : Restarts(b)} THEN [heap[a] EXCEPT !.expiration = asof + heap[a].interval]
             ELSE IF a \in expired THEN Free ELSE heap[a]]
    BY <1>5, Zenon DEF Reset
  <2>2. \A a \in Addrs : [heap[a] EXCEPT !.expiration = asof + heap[a].interval].seq = heap[a].seq
    BY Zenon DEF Types, Timer
  <2>3. QED
    BY <1>0, <2>1, <2>2, Zenon DEF Older
<1>6. CASE RunFunctor
  <2>1. created' = created /\ batch > 0 /\ (heap' = heap \/ CancelInLoop(Head(pending).id))
    BY <1>6, Zenon DEF RunFunctor
  <2>2. Head(pending).id \in Id
    <3>1. 1 \in 1 .. Len(pending) /\ Head(pending) = pending[1]
      BY <2>1 DEF Types
    <3>2. QED
      BY <3>1, CallTypes, Zenon
  <2>3. QED
    BY <1>1, <1>2, <2>1, <2>2, Zenon
<1>7. ASSUME NEW a \in Addrs, NEW timer \in Timers, AddTimer(a, timer) PROVE Newer(a)
  BY <1>3, <1>7, Zenon DEF AddTimer
<1>8. ASSUME NEW a \in Addrs, NEW timer \in Timers, NEW t \in Threads, AddTimerOther(t, a, timer)
      PROVE  Newer(a)
  BY <1>3, <1>8, Zenon DEF AddTimerOther
<1>9. ASSUME NEW id \in ids, Cancel(id) PROVE Older
  <2>1. id \in Id /\ CancelInLoop(id) /\ created' = created
    BY <1>9, Zenon DEF Cancel, Types
  <2>2. QED
    BY <1>2, <2>1, Zenon
<1>10. ASSUME NEW id \in ids, NEW t \in Threads, CancelOther(t, id) PROVE Older
  BY <1>1, <1>10, Zenon DEF CancelOther
<1>11. ASSUME NEW t \in Threads, ReadSequence(t) PROVE Older
  BY <1>1, <1>11, Zenon DEF ReadSequence
<1>12. CASE Destroy
  BY <1>0, <1>12, Zenon DEF Destroy, Older
<1>13. QED
  BY <1>4, <1>5, <1>6, <1>7, <1>8, <1>9, <1>10, <1>11, <1>12 DEF Next, LoopStep, User

\* Every step hands TimerIds on or makes that of a new timer, unless it reads
\* a sequence number too late.
LEMMA NamesStep ==
  Types /\ Shape /\ [Next]_vars /\ ~stray' =>
      \A id \in Names' : id \in Names \/ \E x \in Addrs : Newer(x) /\ id = TimerId(x, created + 1, created + 1)
<1> SUFFICES ASSUME Types, Shape, [Next]_vars, ~stray', NEW id \in Names', id \notin Names
             PROVE  \E x \in Addrs : Newer(x) /\ id = TimerId(x, created + 1, created + 1)
  BY Zenon
<1> USE DEF callVars, loopVars, userVars
<1>0. CASE ids' = ids /\ pending' = pending /\ opc' = opc
  BY <1>0, Zenon DEF Names
<1>1. CASE Tick \/ Alarm \/ Poll \/ HandleRead \/ Run \/ Reset \/ SwapFunctors \/ FunctorsDone
           \/ Destroy \/ UNCHANGED vars
  <2>1. ids' = ids /\ pending' = pending /\ opc' = opc
    BY <1>1, Zenon DEF Tick, Alarm, Poll, HandleRead, Run, Reset, SwapFunctors, FunctorsDone, Destroy, vars
  <2>2. QED
    BY <1>0, <2>1, Zenon
<1>2. CASE RunFunctor
  <2>1. ids' = ids /\ opc' = opc /\ pending' = Tail(pending) /\ batch > 0
    BY <1>2, Zenon DEF RunFunctor
  <2>2. \A i \in 1 .. Len(pending') : i + 1 \in 1 .. Len(pending) /\ pending'[i] = pending[i + 1]
    BY <2>1 DEF Types
  <2>3. QED
    BY <2>1, <2>2 DEF Names
<1>3. ASSUME NEW a \in Addrs, NEW timer \in Timers, AddTimer(a, timer)
      PROVE  Newer(a) /\ id = TimerId(a, created + 1, created + 1)
  <2>1. /\ ids' = ids \cup {TimerId(a, timer.seq, timer.seq)} /\ opc' = opc /\ pending' = pending
        /\ NewTimer(a, timer) /\ timer.seq = created + 1
    BY <1>3, Zenon DEF AddTimer, NewTimer
  <2>2. id = TimerId(a, created + 1, created + 1)
    BY <2>1, Zenon DEF Names
  <2>3. heap[a].seq = 0
    BY <2>1 DEF NewTimer, Live, Free
  <2>4. QED
    BY <2>1, <2>2, <2>3, Zenon DEF NewTimer, Newer, Types
<1>4. ASSUME NEW a \in Addrs, NEW timer \in Timers, NEW t \in Threads, AddTimerOther(t, a, timer)
      PROVE  Newer(a) /\ id = TimerId(a, created + 1, created + 1)
  <2> DEFINE new == TimerId(a, timer.seq, timer.seq)
  <2>1. /\ ids' = ids /\ opc' = [opc EXCEPT ![t] = [timer |-> a, seq |-> timer.seq]]
        /\ pending' = Append(pending, [op |-> "add", id |-> new])
        /\ NewTimer(a, timer) /\ timer.seq = created + 1
    BY <1>4, Zenon DEF AddTimerOther, NewTimer, Queue
  <2>2. \A i \in 1 .. Len(pending') : pending'[i].id = new \/ (i \in 1 .. Len(pending) /\ pending'[i] = pending[i])
    BY <2>1 DEF Types
  <2>3. \A u \in Threads : \/ TimerId(opc'[u].timer, opc'[u].seq, opc'[u].seq) = new
                           \/ opc'[u] = opc[u]
    BY <2>1, Zenon DEF Types
  <2>4. id = new
    <3> HIDE DEF new
    <3>1. QED
      BY <2>1, <2>2, <2>3 DEF Names
  <2>5. heap[a].seq = 0
    BY <2>1 DEF NewTimer, Live, Free
  <2>6. QED
    BY <2>1, <2>4, <2>5, Zenon DEF NewTimer, Newer, Types
<1>5. ASSUME NEW k \in ids, Cancel(k) PROVE FALSE
  BY <1>0, <1>5, Zenon DEF Cancel, Names
<1>6. ASSUME NEW k \in ids, NEW t \in Threads, CancelOther(t, k) PROVE FALSE
  <2>1. ids' = ids /\ opc' = opc /\ pending' = Append(pending, [op |-> "cancel", id |-> k])
    BY <1>6, Zenon DEF CancelOther, Queue
  <2>2. \A i \in 1 .. Len(pending') : pending'[i].id = k \/ (i \in 1 .. Len(pending) /\ pending'[i] = pending[i])
    BY <2>1 DEF Types
  <2>3. QED
    BY <2>1, <2>2 DEF Names
<1>7. ASSUME NEW t \in Threads, ReadSequence(t) PROVE FALSE
  <2> DEFINE a == opc[t].timer
  <2>1. PICK seq \in IF Live(a) THEN {heap[a].seq} ELSE {0, opc[t].seq} :
            ids' = ids \cup {TimerId(a, seq, opc[t].seq)} /\ stray' = (stray \/ heap[a].seq # opc[t].seq)
    BY <1>7, Zenon DEF ReadSequence
  <2>2. opc[t] # None /\ opc' = [opc EXCEPT ![t] = None] /\ pending' = pending
    BY <1>7, Zenon DEF ReadSequence
  <2>3. heap[a].seq = opc[t].seq
    BY <2>1, Zenon
  <2>4. a \in Addrs /\ opc[t].seq \in Nat
    BY <2>2, Zenon DEF Types
  <2>5. seq = opc[t].seq
    BY <2>1, <2>3 DEF Live, Free
  <2>6. \A u \in Threads : opc'[u] # None => opc'[u] = opc[u]
    BY <2>2, Zenon DEF Types
  <2>7. QED
    BY <2>1, <2>2, <2>5, <2>6 DEF Names
<1>8. QED
  BY <1>1, <1>2, <1>3, <1>4, <1>5, <1>6, <1>7 DEF Next, LoopStep, User

\* A TimerId stays exact.
LEMMA KnownKeeps ==
  ASSUME Types, Older \/ \E x \in Addrs : Newer(x), NEW id \in Id, Known(id)
  PROVE  Known(id)'
<1>1. created \in Nat /\ id.own \in 1 .. created
  BY Zenon DEF Known, Types
<1>2. id.own \in 1 .. created'
  BY <1>1 DEF Older, Newer
<1>3. \A a \in Addrs : heap'[a].seq = id.own => heap[a].seq = id.own
  BY <1>1 DEF Older, Newer
<1>4. QED
  BY <1>2, <1>3, Zenon DEF Known

\* Every step keeps the TimerIds exact, up to a sequence read too late.
LEMMA ExactStep == Types /\ Shape /\ Exact /\ [Next]_vars /\ ~stray' => Exact'
<1> SUFFICES ASSUME Types, Shape, Exact, [Next]_vars, ~stray' PROVE Exact'
  BY Zenon
<1>1. Older \/ \E x \in Addrs : Newer(x)
  BY HeapStep, Zenon
<1>2. created \in Nat /\ \A a \in Addrs : heap[a].seq \in Nat /\ heap[a].seq <= created
  BY Zenon DEF Types, Timer, Exact
<1>3. ASSUME NEW id \in Names' PROVE Known(id)'
  <2>1. CASE id \in Names
    <3>1. id \in Id /\ Known(id)
      BY <2>1, NamesTypes, Zenon DEF Exact
    <3>2. QED
      BY <1>1, <3>1, KnownKeeps, Zenon
  <2>2. ASSUME NEW x \in Addrs, Newer(x), id = TimerId(x, created + 1, created + 1) PROVE Known(id)'
    <3>1. id.own = created + 1 /\ id.seq = created + 1 /\ id.timer = x
      BY <2>2, Zenon DEF TimerId
    <3>2. \A a \in Addrs : heap'[a].seq = created + 1 => a = x
      BY <1>2, <2>2 DEF Newer
    <3>3. created' = created + 1 /\ created + 1 \in 1 .. created + 1
      BY <1>2, <2>2 DEF Newer
    <3>4. QED
      BY <3>1, <3>2, <3>3, Zenon DEF Known
  <2>3. QED
    BY <2>1, <2>2, NamesStep, Zenon
<1>4. \A a \in Addrs : heap'[a].seq <= created'
  BY <1>1, <1>2 DEF Older, Newer
<1>5. \A a, b \in Addrs : heap'[a].seq >= 1 /\ heap'[a].seq = heap'[b].seq => a = b
  <2>1. CASE Older
    <3>1. \A a \in Addrs : heap'[a].seq >= 1 => heap'[a].seq = heap[a].seq
      BY <2>1 DEF Older
    <3>2. \A a, b \in Addrs : heap'[a].seq >= 1 /\ heap'[a].seq = heap'[b].seq =>
                                  heap[a].seq >= 1 /\ heap[a].seq = heap[b].seq
      BY <3>1, Zenon
    <3>3. QED
      BY <3>2 DEF Exact
  <2>2. ASSUME NEW x \in Addrs, Newer(x)
        PROVE  \A a, b \in Addrs : heap'[a].seq >= 1 /\ heap'[a].seq = heap'[b].seq => a = b
    <3>1. \A a \in Addrs : heap'[a].seq = created + 1 <=> a = x
      BY <1>2, <2>2 DEF Newer
    <3>2. \A a \in Addrs : a # x => heap'[a].seq = heap[a].seq
      BY <2>2, Zenon DEF Newer
    <3>3. QED
      BY <2>2, <3>1, <3>2 DEF Exact, Newer
  <2>3. QED
    BY <1>1, <2>1, <2>2, Zenon
<1>6. QED
  BY <1>3, <1>4, <1>5, Zenon DEF Exact

-----------------------------------------------------------------------------
\* A timer that is apart has its addTimerInLoop pending, ahead of any cancel
\* of it, and a pending cancel was asked for.
Waits ==
    lpc # "gone" =>
        /\ \A a \in Addrs : Apart(a) => \E i \in 1 .. Len(pending) : Adds(i) /\ pending[i].id.timer = a
        /\ \A i, j \in 1 .. Len(pending) : Adds(i) /\ ~Adds(j) /\ pending[i].id.own = pending[j].id.own => i < j
        /\ \A j \in 1 .. Len(pending) : ~Adds(j) => pending[j].id.own \in asked

\* A step that queues no call and sets no timer apart.
LEMMA WaitsKeeps ==
  ASSUME Waits, pending' = pending, asked \subseteq asked', lpc' # "gone" => lpc # "gone",
         \A b \in Addrs : Apart(b)' => Apart(b)
  PROVE  Waits'
<1>1. \A i \in 1 .. Len(pending) : Adds(i)' <=> Adds(i)
  BY Zenon DEF Adds
<1>2. QED
  BY <1>1, Zenon DEF Waits

\* Every step keeps the pending calls in order.
LEMMA WaitsStep == Types /\ Shape /\ Pend /\ Exact /\ Waits /\ [Next]_vars => Waits'
<1> SUFFICES ASSUME Types, Shape, Pend, Exact, Waits, [Next]_vars PROVE Waits'
  BY Zenon
<1> USE DEF callVars, loopVars, userVars
<1>1. ASSUME UNCHANGED <<heap, timers, expired, pending, asked>>, lpc' # "gone" => lpc # "gone" PROVE Waits'
  <2>1. \A b \in Addrs : Apart(b)' => Apart(b)
    BY <1>1, Zenon DEF Apart, Queued, Entry
  <2>2. QED
    BY <1>1, <2>1, WaitsKeeps, Zenon
<1>2. CASE Tick \/ Alarm \/ Poll \/ Run \/ SwapFunctors \/ FunctorsDone \/ UNCHANGED vars
  BY <1>1, <1>2, Zenon DEF Tick, Alarm, Poll, Run, SwapFunctors, FunctorsDone, vars
<1>3. CASE HandleRead
  <2>1. pending' = pending /\ asked' = asked /\ lpc # "gone"
    BY <1>3, Zenon DEF HandleRead
  <2>2. QED
    BY <1>3, <2>1, HandleReadShape, WaitsKeeps, Zenon
<1>4. CASE Reset
  <2>1. pending' = pending /\ asked' = asked /\ lpc # "gone"
    BY <1>4, Zenon DEF Reset
  <2>2. QED
    BY <1>4, <2>1, ResetShape, WaitsKeeps, Zenon
<1>5. CASE RunFunctor
  <2> DEFINE c == Head(pending)
             n == Len(pending)
  <2>1. /\ c = pending[1] /\ n \in Nat /\ n >= 1 /\ Len(pending') = n - 1
        /\ \A i \in 1 .. n - 1 : i + 1 \in 1 .. n /\ pending'[i] = pending[i + 1]
    BY <1>5 DEF RunFunctor, Types
  <2>2. lpc = "functors" /\ lpc' = lpc /\ expired' = expired /\ asked' = asked
    BY <1>5, Zenon DEF RunFunctor
  <2>3. c.id \in Id /\ c.id.timer \in Addrs /\ 1 \in 1 .. n
    BY <2>1, CallTypes
  <2>4. \A i \in 1 .. n - 1 : Adds(i)' <=> Adds(i + 1)
    BY <2>1, Zenon DEF Adds
  <2>5. ASSUME \A b \in Addrs : Apart(b)' => Apart(b) /\ (Adds(1) => pending[1].id.timer # b)
        PROVE  Waits'
    <3>1. ASSUME NEW b \in Addrs, Apart(b)' PROVE \E i \in 1 .. n - 1 : Adds(i)' /\ pending'[i].id.timer = b
      <4>1. PICK i \in 1 .. n : Adds(i) /\ pending[i].id.timer = b
        BY <2>2, <2>5, <3>1, Zenon DEF Waits
      <4>2. i # 1
        BY <2>5, <3>1, <4>1, Zenon
      <4>3. i - 1 \in 1 .. n - 1 /\ (i - 1) + 1 = i
        BY <2>1, <4>2
      <4>4. QED
        BY <2>1, <2>4, <4>1, <4>3, Zenon
    <3>2. ASSUME NEW i \in 1 .. n - 1, NEW j \in 1 .. n - 1, Adds(i)', ~Adds(j)',
                 pending'[i].id.own = pending'[j].id.own
          PROVE  i < j
      <4>1. i + 1 < j + 1
        BY <2>1, <2>2, <2>4, <3>2 DEF Waits
      <4>2. QED
        BY <4>1
    <3>3. ASSUME NEW j \in 1 .. n - 1, ~Adds(j)' PROVE pending'[j].id.own \in asked'
      BY <2>1, <2>2, <2>4, <3>3 DEF Waits
    <3>4. QED
      BY <2>1, <3>1, <3>2, <3>3, Zenon DEF Waits
  <2>6. CASE c.op = "add" /\ AddTimerInLoop(c.id.timer, heap[c.id.timer]) /\ heap' = heap
    <3> DEFINE a == c.id.timer
    <3>1. Apart(a)
      BY <2>1, <2>2, <2>3, <2>6, Zenon DEF Pend, Adds
    <3>2. heap[a] \in Timer /\ heap' = [heap EXCEPT ![a] = heap[a]]
      BY <2>3, <2>6, Zenon DEF Types
    <3>3. \A b \in Addrs : Queued(b)' <=> Queued(b) \/ b = a
      BY <2>2, <2>3, <2>6, <3>1, <3>2, InsertShape, Zenon DEF Apart
    <3>4. \A b \in Addrs : Apart(b)' => Apart(b) /\ b # a
      BY <2>2, <2>6, <3>3, Zenon DEF Apart
    <3>5. QED
      BY <2>1, <2>5, <3>4, Zenon
  <2>7. CASE c.op = "cancel" /\ CancelInLoop(c.id)
    <3>1. \A b \in Addrs : Apart(b)' <=> Apart(b)
      BY <2>2, <2>3, <2>7, CancelShape, Zenon
    <3>2. ~Adds(1)
      BY <2>1, <2>7, Zenon DEF Adds
    <3>3. QED
      BY <2>5, <3>1, <3>2, Zenon
  <2>8. QED
    BY <1>5, <2>6, <2>7, Zenon DEF RunFunctor
<1>6. ASSUME NEW a \in Addrs, NEW timer \in Timers, AddTimer(a, timer) PROVE Waits'
  <2>1. /\ ~Live(a) /\ heap' = [heap EXCEPT ![a] = timer] /\ AddTimerInLoop(a, timer)
        /\ expired' = expired /\ lpc' = lpc /\ pending' = pending /\ asked' = asked
    BY <1>6, Zenon DEF AddTimer, NewTimer
  <2>2. timer \in Timer /\ timer.seq >= 1
    BY TimerTypes, Zenon
  <2>3. ~Queued(a) /\ a \notin expired
    BY <2>1, Zenon DEF Shape
  <2>4. \A b \in Addrs : Queued(b)' <=> Queued(b) \/ b = a
    BY <2>1, <2>2, <2>3, InsertShape, Zenon
  <2>5. \A b \in Addrs \ {a} : heap'[b] = heap[b]
    BY <2>1, Zenon DEF Types
  <2>6. \A b \in Addrs : Apart(b)' => Apart(b)
    BY <2>1, <2>4, <2>5, Zenon DEF Apart
  <2>7. QED
    BY <2>1, <2>6, WaitsKeeps, Zenon
<1>7. ASSUME NEW a \in Addrs, NEW timer \in Timers, NEW t \in Threads, AddTimerOther(t, a, timer)
      PROVE  Waits'
  <2>0. PICK n \in Nat : n = Len(pending)
    BY DEF Types
  <2> USE <2>0
  <2> DEFINE new == [op |-> "add", id |-> TimerId(a, timer.seq, timer.seq)]
  <2>1. /\ heap' = [heap EXCEPT ![a] = timer] /\ timers' = timers /\ expired' = expired /\ lpc' = lpc
        /\ pending' = Append(pending, new) /\ lpc # "gone" /\ timer.seq = created + 1 /\ asked' = asked
    BY <1>7, Zenon DEF AddTimerOther, NewTimer, Queue
  <2>2. \A b \in Addrs \ {a} : heap'[b] = heap[b]
    BY <2>1, Zenon DEF Types
  <2>3. \A b \in Addrs \ {a} : Apart(b)' => Apart(b)
    BY <2>1, <2>2 DEF Apart, Queued, Entry
  <2>4. /\ n \in Nat /\ Len(pending') = n + 1 /\ pending'[n + 1] = new
        /\ \A i \in 1 .. n : pending'[i] = pending[i] /\ i \in 1 .. n + 1 /\ i < n + 1
        /\ \A i \in 1 .. n + 1 : i \in 1 .. n \/ i = n + 1
        /\ n + 1 \in 1 .. n + 1
    BY <2>1 DEF Types
  <2>5. new.op = "add" /\ new.id.timer = a /\ new.id.own = created + 1
    BY <2>1, Zenon DEF TimerId
  <2> HIDE DEF new
  <2>6. Adds(n + 1)' /\ \A i \in 1 .. n : Adds(i)' <=> Adds(i)
    BY <2>4, <2>5, Zenon DEF Adds
  <2>7. \A j \in 1 .. n : pending[j].id.own # created + 1
    <3>1. \A j \in 1 .. n : pending[j].id.own \in 1 .. created
      BY Zenon DEF Exact, Names, Known
    <3>2. created \in Nat
      BY Zenon DEF Types
    <3>3. QED
      BY <3>1, <3>2
  <2>8. ASSUME NEW b \in Addrs, Apart(b)' PROVE \E i \in 1 .. n + 1 : Adds(i)' /\ pending'[i].id.timer = b
    <3>1. CASE b = a
      BY <2>4, <2>5, <2>6, <3>1, Zenon
    <3>2. CASE b # a
      <4>1. PICK i \in 1 .. n : Adds(i) /\ pending[i].id.timer = b
        BY <2>1, <2>3, <2>8, <3>2, Zenon DEF Waits
      <4>2. QED
        BY <2>4, <2>6, <4>1, Zenon
    <3>3. QED
      BY <3>1, <3>2, Zenon
  <2>9. ASSUME NEW i \in 1 .. n + 1, NEW j \in 1 .. n + 1, Adds(i)', ~Adds(j)', pending'[i].id.own = pending'[j].id.own
        PROVE  i < j
    <3>1. j \in 1 .. n
      BY <2>4, <2>6, <2>9, Zenon
    <3>2. i \in 1 .. n
      BY <2>4, <2>5, <2>7, <2>9, <3>1, Zenon
    <3>3. QED
      BY <2>1, <2>4, <2>6, <2>9, <3>1, <3>2 DEF Waits
  <2>10. ASSUME NEW j \in 1 .. n + 1, ~Adds(j)' PROVE pending'[j].id.own \in asked'
    <3>1. j \in 1 .. n
      BY <2>4, <2>6, <2>10, Zenon
    <3>2. QED
      BY <2>1, <2>4, <2>6, <2>10, <3>1, Zenon DEF Waits
  <2>11. QED
    BY <2>4, <2>8, <2>9, <2>10, Zenon DEF Waits
<1>8. ASSUME NEW id \in ids, Cancel(id) PROVE Waits'
  <2>1. /\ CancelInLoop(id) /\ id \in Id /\ expired' = expired /\ lpc' = lpc /\ pending' = pending
        /\ asked \subseteq asked'
    BY <1>8, Zenon DEF Cancel, Types
  <2>2. QED
    BY <2>1, CancelShape, WaitsKeeps, Zenon
<1>9. ASSUME NEW id \in ids, NEW t \in Threads, CancelOther(t, id) PROVE Waits'
  <2>0. PICK n \in Nat : n = Len(pending)
    BY DEF Types
  <2> USE <2>0
  <2>1. /\ UNCHANGED <<heap, timers, expired, lpc>> /\ asked' = asked \cup {id.own}
        /\ pending' = Append(pending, [op |-> "cancel", id |-> id]) /\ lpc # "gone"
    BY <1>9, Zenon DEF CancelOther, Queue
  <2>2. \A b \in Addrs : Apart(b)' <=> Apart(b)
    BY <2>1, Zenon DEF Apart, Queued, Entry
  <2>3. /\ n \in Nat /\ Len(pending') = n + 1 /\ pending'[n + 1].op = "cancel" /\ pending'[n + 1].id = id
        /\ \A i \in 1 .. n : pending'[i] = pending[i] /\ i \in 1 .. n + 1 /\ i < n + 1
        /\ \A i \in 1 .. n + 1 : i \in 1 .. n \/ i = n + 1
    BY <2>1 DEF Types
  <2>4. ~Adds(n + 1)' /\ \A i \in 1 .. n : Adds(i)' <=> Adds(i)
    BY <2>3, Zenon DEF Adds
  <2>5. ASSUME NEW b \in Addrs, Apart(b)' PROVE \E i \in 1 .. n + 1 : Adds(i)' /\ pending'[i].id.timer = b
    BY <2>1, <2>2, <2>3, <2>4, <2>5 DEF Waits
  <2>6. ASSUME NEW i \in 1 .. n + 1, NEW j \in 1 .. n + 1, Adds(i)', ~Adds(j)', pending'[i].id.own = pending'[j].id.own
        PROVE  i < j
    <3>1. i \in 1 .. n
      BY <2>3, <2>4, <2>6, Zenon
    <3>2. CASE j = n + 1
      BY <2>3, <3>1, <3>2, Zenon
    <3>3. CASE j \in 1 .. n
      BY <2>1, <2>3, <2>4, <2>6, <3>1, <3>3 DEF Waits
    <3>4. QED
      BY <2>3, <3>2, <3>3, Zenon
  <2>7. ASSUME NEW j \in 1 .. n + 1, ~Adds(j)' PROVE pending'[j].id.own \in asked'
    BY <2>1, <2>3, <2>4, <2>7, Zenon DEF Waits
  <2>8. QED
    BY <2>3, <2>5, <2>6, <2>7, Zenon DEF Waits
<1>10. ASSUME NEW t \in Threads, ReadSequence(t) PROVE Waits'
  BY <1>1, <1>10, Zenon DEF ReadSequence
<1>11. CASE Destroy
  BY <1>11, Zenon DEF Destroy, Waits
<1>12. QED
  BY <1>2, <1>3, <1>4, <1>5, <1>6, <1>7, <1>8, <1>9, <1>10, <1>11, Zenon DEF Next, LoopStep, User

-----------------------------------------------------------------------------
\* A timer whose cancel has reached the loop is gone, or it is in the batch
\* and reset will find it in cancelingTimers_.
Over ==
    /\ cancelled \subseteq 1 .. created
    /\ \A a \in Addrs : heap[a].seq \in cancelled =>
           lpc = "call" /\ a \in expired /\ <<a, heap[a].seq>> \in canceling

\* A step that cancels nothing and leaves the batch alone.
LEMMA OverKeeps ==
  ASSUME Types, Over, Older \/ \E x \in Addrs : Newer(x), cancelled' = cancelled, expired' = expired,
         lpc = "call" => lpc' = "call", canceling \subseteq canceling'
  PROVE  Over'
<1>1. created \in Nat
  BY Zenon DEF Types
<1>2. cancelled' \subseteq 1 .. created'
  BY <1>1 DEF Over, Older, Newer
<1>3. \A s \in cancelled : s \in 1 .. created /\ s # 0 /\ s # created + 1
  BY <1>1 DEF Over
<1>4. \A a \in Addrs : heap'[a].seq \in cancelled => heap'[a].seq = heap[a].seq
  BY <1>3, Zenon DEF Older, Newer
<1>5. QED
  BY <1>2, <1>4, Zenon DEF Over

\* cancelInLoop of an exact TimerId ends its timer.
LEMMA OverCancel ==
  ASSUME Types, Shape, Over, NEW id \in Id, Known(id), CancelInLoop(id), expired' = expired, lpc' = lpc,
         created' = created,
         \/ cancelled' = cancelled
         \/ cancelled' = cancelled \cup {id.own} /\ \A a \in Addrs : Apart(a) => heap[a].seq # id.own
  PROVE  Over'
<1>0. created \in Nat /\ id.own \in 1 .. created /\ id.timer \in Addrs /\ id.seq = id.own /\ id.own \in Nat
  BY Zenon DEF Types, Known, Id
<1>1. cancelled' \subseteq 1 .. created'
  BY <1>0, Zenon DEF Over
<1>2. ASSUME NEW a \in Addrs, heap'[a].seq \in cancelled'
      PROVE  lpc' = "call" /\ a \in expired' /\ <<a, heap'[a].seq>> \in canceling'
  <2>1. CASE Found(id)
    <3>1. heap' = [heap EXCEPT ![id.timer] = Free] /\ canceling' = canceling
      BY <2>1, Zenon DEF CancelInLoop
    <3>2. a # id.timer
      <4>1. a = id.timer => heap'[a].seq = 0
        BY <1>0, <3>1, Zenon DEF Types, Free
      <4>2. 0 \notin 1 .. created
        BY <1>0
      <4>3. QED
        BY <1>1, <1>2, <4>1, <4>2, Zenon
    <3>3. heap'[a] = heap[a]
      BY <3>1, <3>2, Zenon DEF Types
    <3>4. heap[a].seq \in cancelled
      BY <1>2, <3>2, <3>3 DEF Known
    <3>5. QED
      BY <3>1, <3>3, <3>4 DEF Over
  <2>2. CASE ~Found(id)
    <3>1. heap' = heap /\ canceling' = IF lpc = "call" THEN canceling \cup {<<id.timer, id.seq>>} ELSE canceling
      BY <2>2, Zenon DEF CancelInLoop
    <3>2. CASE heap[a].seq \in cancelled
      BY <3>1, <3>2, Zenon DEF Over
    <3>3. CASE heap[a].seq \notin cancelled
      <4>1. heap[a].seq = id.own /\ ~Apart(a)
        BY <1>2, <3>1, <3>3, Zenon
      <4>2. a = id.timer
        BY <4>1, Zenon DEF Known
      <4>3. ~Queued(a)
        BY <1>0, <2>2, <4>1, <4>2, Zenon DEF Shape, Found
      <4>4. a \in expired
        BY <1>0, <4>1, <4>3 DEF Apart
      <4>5. lpc = "call"
        BY <4>4, Zenon DEF Shape
      <4>6. QED
        BY <1>0, <3>1, <4>1, <4>2, <4>4, <4>5, Zenon
    <3>4. QED
      BY <3>2, <3>3, Zenon
  <2>3. QED
    BY <2>1, <2>2, Zenon
<1>3. QED
  BY <1>1, <1>2, Zenon DEF Over

\* Every step leaves a cancelled timer cancelled.
LEMMA OverStep == Types /\ Shape /\ Pend /\ Exact /\ Waits /\ Over /\ [Next]_vars => Over'
<1> SUFFICES ASSUME Types, Shape, Pend, Exact, Waits, Over, [Next]_vars PROVE Over'
  BY Zenon
<1> USE DEF callVars, loopVars, userVars
<1>0. Older \/ \E x \in Addrs : Newer(x)
  BY HeapStep, Zenon
<1>1. CASE Tick \/ Alarm \/ Poll \/ Run \/ SwapFunctors \/ FunctorsDone \/ Destroy \/ UNCHANGED vars
  <2>1. cancelled' = cancelled /\ expired' = expired /\ canceling' = canceling /\ (lpc = "call" => lpc' = "call")
    BY <1>1, Zenon DEF Tick, Alarm, Poll, Run, SwapFunctors, FunctorsDone, Destroy, vars
  <2>2. QED
    BY <1>0, <2>1, OverKeeps, Zenon
<1>2. CASE HandleRead
  <2>1. lpc = "handle" /\ heap' = heap /\ cancelled' = cancelled /\ created' = created
    BY <1>2, Zenon DEF HandleRead
  <2>2. QED
    BY <2>1, Zenon DEF Over
<1>3. CASE Reset
  <2> DEFINE again == {a \in expired : Restarts(a)}
  <2>1. /\ cancelled' = cancelled /\ created' = created
        /\ heap' = [a \in Addrs |->
             IF a \in again THEN [heap[a] EXCEPT !.expiration = asof + heap[a].interval]
             ELSE IF a \in expired THEN Free ELSE heap[a]]
    BY <1>3, Zenon DEF Reset
  <2>2. ASSUME NEW a \in Addrs, heap'[a].seq \in cancelled PROVE FALSE
    <3>1. CASE a \in again
      <4>1. heap'[a].seq = heap[a].seq
        BY <2>1, <3>1, Zenon DEF Types, Timer
      <4>2. <<a, heap[a].seq>> \in canceling
        BY <2>2, <4>1, Zenon DEF Over
      <4>3. QED
        BY <3>1, <4>2, Zenon DEF Restarts
    <3>2. CASE a \in expired \ again
      <4>1. heap'[a].seq = 0
        BY <2>1, <3>2, Zenon DEF Free
      <4>2. 0 \notin 1 .. created
        BY DEF Types
      <4>3. QED
        BY <2>2, <4>1, <4>2, Zenon DEF Over
    <3>3. CASE a \notin expired
      <4>1. heap'[a] = heap[a]
        BY <2>1, <3>3, Zenon
      <4>2. QED
        BY <2>2, <3>3, <4>1, Zenon DEF Over
    <3>4. QED
      BY <3>1, <3>2, <3>3, Zenon
  <2>3. QED
    BY <2>1, <2>2, Zenon DEF Over
<1>4. CASE RunFunctor
  <2> DEFINE c == Head(pending)
             n == Len(pending)
  <2>1. c = pending[1] /\ n \in Nat /\ 1 \in 1 .. n
    BY <1>4 DEF RunFunctor, Types
  <2>2. lpc = "functors" /\ lpc' = lpc /\ expired' = expired /\ created' = created
    BY <1>4, Zenon DEF RunFunctor
  <2>3. CASE c.op = "add" /\ UNCHANGED <<heap, canceling, cancelled>>
    <3>1. Older
      BY <2>2, <2>3, Zenon DEF Older
    <3>2. QED
      BY <2>2, <2>3, <3>1, OverKeeps, Zenon
  <2>4. CASE c.op = "cancel" /\ CancelInLoop(c.id) /\ cancelled' = cancelled \cup {c.id.own}
    <3>1. PICK id \in Id : id = c.id
      BY <2>1, CallTypes, Zenon
    <3>2. Known(id)
      BY <2>1, <3>1, Zenon DEF Exact, Names
    <3>3. ASSUME NEW a \in Addrs, Apart(a), heap[a].seq = id.own PROVE FALSE
      <4>1. PICK i \in 1 .. n : Adds(i) /\ pending[i].id.timer = a
        BY <2>2, <3>3, Zenon DEF Waits
      <4>2. pending[i].id.own = pending[1].id.own
        BY <2>1, <2>2, <3>1, <3>3, <4>1, Zenon DEF Pend
      <4>3. ~Adds(1)
        BY <2>1, <2>4, Zenon DEF Adds
      <4>4. i < 1
        BY <2>1, <2>2, <4>1, <4>2, <4>3, Zenon DEF Waits
      <4>5. QED
        BY <2>1, <4>4
    <3>4. CancelInLoop(id) /\ cancelled' = cancelled \cup {id.own}
      BY <2>4, <3>1, Zenon
    <3>5. QED
      BY <2>2, <3>2, <3>3, <3>4, OverCancel, Zenon
  <2>5. QED
    BY <1>4, <2>3, <2>4, Zenon DEF RunFunctor
<1>5. ASSUME NEW a \in Addrs, NEW timer \in Timers, AddTimer(a, timer) PROVE Over'
  <2>1. cancelled' = cancelled /\ expired' = expired /\ canceling' = canceling /\ lpc' = lpc
    BY <1>5, Zenon DEF AddTimer
  <2>2. QED
    BY <1>0, <2>1, OverKeeps, Zenon
<1>6. ASSUME NEW a \in Addrs, NEW timer \in Timers, NEW t \in Threads, AddTimerOther(t, a, timer) PROVE Over'
  <2>1. cancelled' = cancelled /\ expired' = expired /\ canceling' = canceling /\ lpc' = lpc
    BY <1>6, Zenon DEF AddTimerOther
  <2>2. QED
    BY <1>0, <2>1, OverKeeps, Zenon
<1>7. ASSUME NEW id \in ids, Cancel(id) PROVE Over'
  <2>1. /\ CancelInLoop(id) /\ id \in Id /\ expired' = expired /\ lpc' = lpc /\ created' = created
        /\ lpc # "gone"
        /\ cancelled' = IF \E i \in 1 .. Len(pending) : pending[i].id.own = id.own
                        THEN cancelled ELSE cancelled \cup {id.own}
    BY <1>7, Zenon DEF Cancel, InUserCode, Types
  <2>2. Known(id)
    BY Zenon DEF Exact, Names
  <2>3. ASSUME NEW a \in Addrs, Apart(a), heap[a].seq = id.own PROVE cancelled' = cancelled
    <3>1. PICK i \in 1 .. Len(pending) : Adds(i) /\ pending[i].id.timer = a
      BY <2>1, <2>3, Zenon DEF Waits
    <3>2. pending[i].id.own = id.own
      BY <2>1, <2>3, <3>1, Zenon DEF Pend
    <3>3. QED
      BY <2>1, <3>2, Zenon
  <2>4. \/ cancelled' = cancelled
        \/ cancelled' = cancelled \cup {id.own} /\ \A a \in Addrs : Apart(a) => heap[a].seq # id.own
    BY <2>1, <2>3, Zenon
  <2>5. QED
    BY <2>1, <2>2, <2>4, OverCancel, Zenon
<1>8. ASSUME NEW id \in ids, NEW t \in Threads, CancelOther(t, id) PROVE Over'
  <2>1. cancelled' = cancelled /\ expired' = expired /\ canceling' = canceling /\ lpc' = lpc
    BY <1>8, Zenon DEF CancelOther
  <2>2. QED
    BY <1>0, <2>1, OverKeeps, Zenon
<1>9. ASSUME NEW t \in Threads, ReadSequence(t) PROVE Over'
  <2>1. cancelled' = cancelled /\ expired' = expired /\ canceling' = canceling /\ lpc' = lpc
    BY <1>9, Zenon DEF ReadSequence
  <2>2. QED
    BY <1>0, <2>1, OverKeeps, Zenon
<1>10. QED
  BY <1>1, <1>2, <1>3, <1>4, <1>5, <1>6, <1>7, <1>8, <1>9 DEF Next, LoopStep, User

-----------------------------------------------------------------------------
\* What has left the rest of the batch was called, and a timer that is gone
\* was called or cancelled.
Ends ==
    /\ \A a \in expired \ todo : heap[a].seq \in ran
    /\ lpc # "gone" =>
          \A seq \in 1 .. created : (\A a \in Addrs : heap[a].seq # seq) => seq \in ran \cup asked

\* A step that deletes only timers that were called or cancelled, and leaves
\* the batch alone.
LEMMA EndsKeeps ==
  ASSUME Types, Shape, Ends, Older \/ \E x \in Addrs : Newer(x), expired' = expired, todo' = todo,
         ran \subseteq ran', asked \subseteq asked', lpc' # "gone" => lpc # "gone",
         \A a \in expired : heap'[a].seq = heap[a].seq,
         \A a \in Addrs : heap[a].seq >= 1 /\ heap'[a].seq = 0 => heap[a].seq \in ran' \cup asked'
  PROVE  Ends'
<1>1. created \in Nat /\ \A a \in Addrs : heap[a].seq \in Nat
  BY Zenon DEF Types, Timer
<1>2. \A a \in expired' \ todo' : heap'[a].seq \in ran'
  BY Zenon DEF Ends
<1>3. ASSUME lpc # "gone", NEW s \in 1 .. created', \A a \in Addrs : heap'[a].seq # s PROVE s \in ran' \cup asked'
  <2>1. s \in 1 .. created
    BY <1>1, <1>3 DEF Older, Newer
  <2>2. CASE \A a \in Addrs : heap[a].seq # s
    BY <1>3, <2>1, <2>2, Zenon DEF Ends
  <2>3. ASSUME NEW a \in Addrs, heap[a].seq = s PROVE s \in ran' \cup asked'
    <3>1. heap[a].seq >= 1
      BY <1>1, <2>1, <2>3
    <3>2. heap'[a].seq = 0
      BY <1>3, <2>3, <3>1 DEF Older, Newer
    <3>3. QED
      BY <2>3, <3>1, <3>2, Zenon
  <2>4. QED
    BY <2>2, <2>3, Zenon
<1>4. QED
  BY <1>2, <1>3, Zenon DEF Ends

\* Every step deletes only timers that were called or cancelled.
LEMMA EndsStep == Types /\ Shape /\ Pend /\ Exact /\ Waits /\ Ends /\ [Next]_vars => Ends'
<1> SUFFICES ASSUME Types, Shape, Pend, Exact, Waits, Ends, [Next]_vars PROVE Ends'
  BY Zenon
<1> USE DEF callVars, loopVars, userVars
<1>0. Older \/ \E x \in Addrs : Newer(x)
  BY HeapStep, Zenon
<1>1. \A a \in expired : a \in Addrs /\ heap[a].seq >= 1
  BY Zenon DEF Shape, Types
<1>2. ASSUME heap' = heap, expired' = expired, todo' = todo, ran' = ran, asked \subseteq asked',
             lpc' # "gone" => lpc # "gone"
      PROVE  Ends'
  <2>1. \A a \in Addrs : ~(heap[a].seq >= 1 /\ heap'[a].seq = 0)
    BY <1>2
  <2>2. QED
    BY <1>0, <1>2, <2>1, EndsKeeps, Zenon
<1>3. ASSUME NEW id \in Id, Known(id), CancelInLoop(id), id.own \in asked', asked \subseteq asked',
             UNCHANGED <<expired, todo, ran, lpc>>
      PROVE  Ends'
  <2>1. CASE ~Found(id)
    <3>1. heap' = heap
      BY <1>3, <2>1, Zenon DEF CancelInLoop
    <3>2. QED
      BY <1>2, <1>3, <3>1, Zenon
  <2>2. CASE Found(id)
    <3>1. heap' = [heap EXCEPT ![id.timer] = Free] /\ id.timer \in Addrs /\ id.seq \in Nat
      BY <1>3, <2>2, Zenon DEF CancelInLoop, Id
    <3>2. \A a \in Addrs \ {id.timer} : heap'[a] = heap[a]
      BY <3>1, Zenon DEF Types
    <3>3. Queued(id.timer) /\ heap[id.timer].seq = id.own
      BY <1>3, <2>2, <3>1, Zenon DEF Shape, Found, Known
    <3>4. \A a \in expired : heap'[a].seq = heap[a].seq
      BY <1>1, <3>2, <3>3, Zenon DEF Shape
    <3>5. \A a \in Addrs : heap[a].seq >= 1 /\ heap'[a].seq = 0 => heap[a].seq \in ran' \cup asked'
      BY <1>3, <3>2, <3>3
    <3>6. QED
      BY <1>0, <1>3, <3>4, <3>5, EndsKeeps, Zenon
  <2>3. QED
    BY <2>1, <2>2, Zenon
<1>4. ASSUME NEW a \in Addrs, NEW timer \in Timers, NewTimer(a, timer), UNCHANGED <<expired, todo, ran, asked, lpc>>
      PROVE  Ends'
  <2>1. heap[a].seq = 0 /\ \A b \in Addrs \ {a} : heap'[b] = heap[b]
    BY <1>4 DEF NewTimer, Live, Free, Types
  <2>2. \A b \in expired : b # a
    BY <1>1, <2>1
  <2>3. \A b \in expired : heap'[b].seq = heap[b].seq
    BY <1>1, <2>1, <2>2, Zenon
  <2>4. \A b \in Addrs : ~(heap[b].seq >= 1 /\ heap'[b].seq = 0)
    BY <2>1
  <2>5. QED
    BY <1>0, <1>4, <2>3, <2>4, EndsKeeps, Zenon
<1>5. CASE Tick \/ Alarm \/ Poll \/ SwapFunctors \/ FunctorsDone \/ UNCHANGED vars
  BY <1>2, <1>5, Zenon DEF Tick, Alarm, Poll, SwapFunctors, FunctorsDone, vars
<1>6. CASE HandleRead
  <2>1. /\ heap' = heap /\ todo' = expired' /\ UNCHANGED <<created, ran, asked>> /\ lpc # "gone"
    BY <1>6, Zenon DEF HandleRead
  <2>2. QED
    BY <2>1, Zenon DEF Ends
<1>7. CASE Run
  <2>1. PICK a : ran' = ran \cup {heap[a].seq} /\ todo' = todo \ {a}
    BY <1>7, Zenon DEF Run
  <2>2. UNCHANGED <<heap, created, asked, expired, lpc>>
    BY <1>7, Zenon DEF Run
  <2>3. QED
    BY <2>1, <2>2, Zenon DEF Ends
<1>8. CASE Reset
  <2> DEFINE again == {a \in expired : Restarts(a)}
  <2>1. /\ todo = {} /\ expired' = {} /\ created' = created /\ ran' = ran /\ asked' = asked
        /\ lpc = "call"
        /\ heap' = [a \in Addrs |->
             IF a \in again THEN [heap[a] EXCEPT !.expiration = asof + heap[a].interval]
             ELSE IF a \in expired THEN Free ELSE heap[a]]
    BY <1>8, Zenon DEF Reset
  <2>2. \A a \in Addrs : a \in expired \/ heap'[a].seq = heap[a].seq
    BY <2>1, Zenon
  <2>3. \A a \in expired : heap[a].seq \in ran
    BY <2>1, Zenon DEF Ends
  <2>4. ASSUME NEW s \in 1 .. created, \A a \in Addrs : heap'[a].seq # s PROVE s \in ran \cup asked
    BY <2>1, <2>2, <2>3, <2>4 DEF Ends
  <2>5. QED
    BY <2>1, <2>4, Zenon DEF Ends
<1>9. CASE RunFunctor
  <2> DEFINE c == Head(pending)
  <2>1. c = pending[1] /\ 1 \in 1 .. Len(pending)
    BY <1>9 DEF RunFunctor, Types
  <2>2. lpc = "functors" /\ UNCHANGED <<expired, todo, ran, asked, lpc>>
    BY <1>9, Zenon DEF RunFunctor
  <2>3. CASE c.op = "add" /\ heap' = heap
    BY <1>2, <2>2, <2>3, Zenon
  <2>4. CASE c.op = "cancel" /\ CancelInLoop(c.id)
    <3>1. PICK id \in Id : id = c.id
      BY <2>1, CallTypes, Zenon
    <3>2. Known(id)
      BY <2>1, <3>1, Zenon DEF Exact, Names
    <3>3. id.own \in asked
      BY <2>1, <2>2, <2>4, <3>1, Zenon DEF Waits, Adds
    <3>4. CancelInLoop(id)
      BY <2>4, <3>1, Zenon
    <3>5. QED
      BY <1>3, <2>2, <3>2, <3>3, <3>4, Zenon
  <2>5. QED
    BY <1>9, <2>3, <2>4, Zenon DEF RunFunctor
<1>10. ASSUME NEW a \in Addrs, NEW timer \in Timers, AddTimer(a, timer) PROVE Ends'
  BY <1>4, <1>10, Zenon DEF AddTimer
<1>11. ASSUME NEW a \in Addrs, NEW timer \in Timers, NEW t \in Threads, AddTimerOther(t, a, timer) PROVE Ends'
  BY <1>4, <1>11, Zenon DEF AddTimerOther
<1>12. ASSUME NEW id \in ids, Cancel(id) PROVE Ends'
  <2>1. /\ CancelInLoop(id) /\ id \in Id /\ UNCHANGED <<expired, todo, ran, lpc>>
        /\ id.own \in asked' /\ asked \subseteq asked'
    BY <1>12, Zenon DEF Cancel, Types
  <2>2. Known(id)
    BY Zenon DEF Exact, Names
  <2>3. QED
    BY <1>3, <2>1, <2>2, Zenon
<1>13. ASSUME NEW id \in ids, NEW t \in Threads, CancelOther(t, id) PROVE Ends'
  BY <1>2, <1>13, Zenon DEF CancelOther
<1>14. ASSUME NEW t \in Threads, ReadSequence(t) PROVE Ends'
  BY <1>2, <1>14, Zenon DEF ReadSequence
<1>15. CASE Destroy
  <2>1. lpc' = "gone" /\ expired' = {}
    BY <1>15, Zenon DEF Destroy, Shape
  <2>2. QED
    BY <2>1, Zenon DEF Ends
<1>16. QED
  BY <1>5, <1>6, <1>7, <1>8, <1>9, <1>10, <1>11, <1>12, <1>13, <1>14, <1>15 DEF Next, LoopStep, User

-----------------------------------------------------------------------------
\* All of it, while no sequence number was read too late.
Sure == ~stray => Exact /\ Waits /\ Over /\ Ends

\* What is lost of a timer is lost for good: stray is never reset.
LEMMA StrayStays == [Next]_vars /\ ~stray' => ~stray
<1> USE DEF callVars, loopVars, userVars
<1>1. ASSUME NEW t \in Threads, ReadSequence(t), ~stray' PROVE ~stray
  BY <1>1, Zenon DEF ReadSequence
<1>2. QED
  BY <1>1, Zenon DEF Next, LoopStep, User, vars, Tick, Alarm, Poll, HandleRead, Run, Reset, SwapFunctors, RunFunctor,
     FunctorsDone, AddTimer, Cancel, AddTimerOther, CancelOther, Destroy

\* It holds of a queue that was just constructed.
LEMMA SureInit == Init => Sure
<1> SUFFICES ASSUME Init PROVE Exact /\ Waits /\ Over /\ Ends
  BY Zenon DEF Sure
<1>1. \A a \in Addrs : heap[a].seq = 0
  BY Zenon DEF Init, Free
<1>2. Len(pending) = 0 /\ created = 0 /\ expired = {} /\ cancelled = {}
  BY Zenon DEF Init
<1>3. Names = {}
  BY <1>2 DEF Init, Names
<1>4. Exact
  BY <1>1, <1>2, <1>3 DEF Exact
<1>5. Waits /\ Over /\ Ends
  BY <1>1, <1>2 DEF Waits, Over, Ends, Apart
<1>6. QED
  BY <1>4, <1>5, Zenon

\* As long as no sequence number is read too late, a timer whose cancel has
\* reached the loop is not queued again, whatever it met on its way (the
\* timer in the batch that is called, at an address used again, or still to be
\* added), and no timer is lost that was neither called nor cancelled itself.
THEOREM CancelIsExact == Spec => []CancelsExactly
<1>1. Init => Types /\ Shape /\ Pend /\ Sure
  BY TypesInit, ShapeInit, SureInit, Zenon
<1>2. Types /\ Shape /\ Pend /\ Sure /\ [Next]_vars => (Types /\ Shape /\ Pend /\ Sure)'
  <2> SUFFICES ASSUME Types, Shape, Pend, Sure, [Next]_vars PROVE (Types /\ Shape /\ Pend /\ Sure)'
    BY Zenon
  <2>1. ASSUME ~stray' PROVE (Exact /\ Waits /\ Over /\ Ends)'
    <3>1. Exact /\ Waits /\ Over /\ Ends
      BY <2>1, StrayStays, Zenon DEF Sure
    <3>2. QED
      BY <2>1, <3>1, ExactStep, WaitsStep, OverStep, EndsStep, Zenon
  <2>2. Sure'
    BY <2>1, Zenon DEF Sure
  <2>3. QED
    BY <2>2, TypesStep, ShapeStep, Zenon
<1>3. Types /\ Shape /\ Pend /\ Sure => CancelsExactly
  <2> SUFFICES ASSUME Types, Shape, Pend, Sure, ~stray
               PROVE  /\ \A entry \in active : entry[2] \notin cancelled
                      /\ lpc # "gone" => \A seq \in 1 .. created :
                            (\A a \in Addrs : heap[a].seq # seq) => seq \in ran \cup asked
    BY Zenon DEF CancelsExactly
  <2>1. Over /\ Ends
    BY Zenon DEF Sure
  <2>2. ASSUME NEW entry \in active PROVE entry[2] \notin cancelled
    <3>1. entry = <<entry[1], entry[2]>> /\ entry[1] \in Addrs /\ entry[2] \in Nat
      BY DEF Types
    <3>2. Queued(entry[1]) /\ entry[2] = heap[entry[1]].seq
      BY <3>1, Zenon DEF Shape
    <3>3. entry[1] \notin expired
      BY <3>1, <3>2, Zenon DEF Shape
    <3>4. QED
      BY <2>1, <3>1, <3>2, <3>3, Zenon DEF Over
  <2>3. QED
    BY <2>1, <2>2, Zenon DEF Ends
<1>4. QED
  BY <1>1, <1>2, <1>3, PTL DEF Spec
=============================================================================
