---------------------------- MODULE ThreadProofs ----------------------------
(* Proofs about the components whose threads wait for one another: ThreadPool *)
(* (every task is handed out in order and no notification is lost), EventLoop *)
(* (a loop in its poll has a wakeup on its way, and calls the functors in     *)
(* order) and AsyncTimer (no registered event loses its entry, and none fires *)
(* early while its name is used once).  Each for any number of threads.       *)
EXTENDS ThreadPool, EventLoop, AsyncTimer, FiniteSetTheorems, SequenceTheorems, TLAPS

PoolTypes ==
    /\ running \in BOOLEAN /\ started \in BOOLEAN
    /\ queue \in Seq(Nat) /\ taken \in Seq(Nat) /\ submitted \in Nat
    /\ wpc \in [Workers -> {"none", "test", "take", "asleep", "task", "done"}]
    /\ rpc \in [Threads -> {"idle", "run", "asleep"}]
    /\ ~started => queue = <<>> /\ \A t \in Threads : rpc[t] = "idle"

\* TakenInOrder by the places of the tasks.
Order ==
    /\ Len(taken) + Len(queue) = submitted
    /\ \A i \in 1 .. Len(taken) : taken[i] = i
    /\ \A i \in 1 .. Len(queue) : queue[i] = Len(taken) + i

\* The threads t that are at place p, by where[t].
At(where, p) == {t \in DOMAIN where : where[t] = p}

\* Their number, and whether one of them sleeps.
Count(where, p) == Cardinality(At(where, p))
Sleeper(where) == At(where, "asleep") # {}

\* Thread t goes to place p.
Put(where, t, p) == [where EXCEPT ![t] = p]

-----------------------------------------------------------------------------
\* A notify leaves the threads at places they know.
LEMMA NotifyType ==
  ASSUME NEW S, NEW P, NEW where \in [S -> P], NEW to \in P, NEW new \in Notify(where, to)
  PROVE  new \in [S -> P]
BY Zenon DEF Notify

\* What the move of one thread makes of the numbers.
LEMMA PutCounts ==
  ASSUME NEW S, IsFiniteSet(S), NEW P, NEW where \in [S -> P], NEW p, NEW to \in P, NEW t \in S
  PROVE  /\ Count(where, p) \in Nat /\ Count(Put(where, t, to), p) \in Nat
         /\ where[t] # p /\ to = p => Count(Put(where, t, to), p) = Count(where, p) + 1
         /\ where[t] = p /\ to # p => Count(Put(where, t, to), p) = Count(where, p) - 1
         /\ where[t] # p /\ to # p => Count(Put(where, t, to), p) = Count(where, p)
         /\ to # "asleep" /\ Sleeper(Put(where, t, to)) => Sleeper(where)
         /\ where[t] = "asleep" => Sleeper(where)
<1> DEFINE new == [where EXCEPT ![t] = to]
<1>1. IsFiniteSet(At(where, p)) /\ IsFiniteSet(At(new, p))
  <2>1. At(where, p) \in SUBSET S /\ At(new, p) \in SUBSET S
    BY Zenon DEF At
  <2>2. QED
    BY <2>1, FS_Subset, Zenon
<1>2. Cardinality(At(where, p)) \in Nat /\ Cardinality(At(new, p)) \in Nat
  BY <1>1, FS_CardinalityType, Zenon
<1>3. ASSUME where[t] # p, to = p PROVE Cardinality(At(new, p)) = Cardinality(At(where, p)) + 1
  <2>1. At(new, p) = At(where, p) \cup {t} /\ t \notin At(where, p)
    BY <1>3, Zenon DEF At
  <2>2. QED
    BY <1>1, <2>1, FS_AddElement, Zenon
<1>4. ASSUME where[t] = p, to # p PROVE Cardinality(At(new, p)) = Cardinality(At(where, p)) - 1
  <2>1. At(new, p) = At(where, p) \ {t} /\ t \in At(where, p)
    BY <1>4, Zenon DEF At
  <2>2. QED
    BY <1>1, <2>1, FS_RemoveElement, Zenon
<1>5. where[t] # p /\ to # p => At(new, p) = At(where, p)
  BY Zenon DEF At
<1>6. to # "asleep" /\ Sleeper(new) => Sleeper(where)
  BY Zenon DEF Sleeper, At
<1>7. where[t] = "asleep" => Sleeper(where)
  BY Zenon DEF Sleeper, At
<1>8. QED
  BY <1>2, <1>3, <1>4, <1>5, <1>6, <1>7, Zenon DEF Put, Count

\* A pool that was just constructed.
LEMMA TypesInit == Init => PoolTypes /\ Order
<1>1. Init => PoolTypes
  <2> SUFFICES ASSUME Init PROVE PoolTypes
    BY Zenon
  <2>1. wpc \in [Workers -> {"none", "test", "take", "asleep", "task", "done"}]
    BY Zenon DEF Init
  <2>2. rpc \in [Threads -> {"idle", "run", "asleep"}] /\ \A t \in Threads : rpc[t] = "idle"
    BY Zenon DEF Init
  <2>3. queue = <<>> /\ queue \in Seq(Nat) /\ taken \in Seq(Nat) /\ submitted \in Nat
    BY DEF Init
  <2>4. running \in BOOLEAN /\ started \in BOOLEAN
    BY Zenon DEF Init
  <2>5. QED
    BY <2>1, <2>2, <2>3, <2>4, Zenon DEF PoolTypes
<1>2. Init => Len(taken) = 0 /\ Len(queue) = 0 /\ submitted = 0
  BY Zenon DEF Init
<1>3. Init => Order
  BY <1>2 DEF Order
<1>4. QED
  BY <1>1, <1>3, Zenon

\* Every step keeps the types, and nothing is queued before start().
LEMMA TypesStep == PoolTypes /\ [Next]_vars => PoolTypes'
<1> SUFFICES ASSUME PoolTypes, [Next]_vars PROVE PoolTypes'
  BY Zenon
<1>1. CASE Start \/ StopCall \/ StopJoined
  BY <1>1, Zenon DEF Start, StopCall, StopJoined, NotifyAll, PoolTypes
<1>2. CASE SpuriousWakeup
  BY <1>2, Zenon DEF SpuriousWakeup, PoolTypes
<1>3. ASSUME NEW c \in Callers, RunInline(c) PROVE PoolTypes'
  BY <1>3 DEF RunInline, PoolTypes
<1>4. ASSUME NEW t \in Threads, RunCall(t) \/ RunWait(t) PROVE PoolTypes'
  BY <1>4, Zenon DEF RunCall, RunWait, PoolTypes
<1>5. ASSUME NEW t \in Threads, RunPush(t) PROVE PoolTypes'
  <2>1. wpc' \in [Workers -> {"none", "test", "take", "asleep", "task", "done"}]
    BY <1>5, NotifyType, Zenon DEF RunPush, PoolTypes
  <2>2. started
    BY <1>5, Zenon DEF RunPush, PoolTypes
  <2>3. QED
    BY <1>5, <2>1, <2>2 DEF RunPush, PoolTypes
<1>6. ASSUME NEW w \in Workers, TakeTask(w) PROVE PoolTypes'
  <2>1. rpc' \in [Threads -> {"idle", "run", "asleep"}]
    BY <1>6, NotifyType, Zenon DEF TakeTask, PoolTypes
  <2>2. started
    BY <1>6, Zenon DEF TakeTask, PoolTypes
  <2>3. Head(queue) \in Nat /\ Tail(queue) \in Seq(Nat)
    BY <1>6 DEF TakeTask, PoolTypes
  <2>4. QED
    BY <1>6, <2>1, <2>2, <2>3 DEF TakeTask, PoolTypes
<1>7. ASSUME NEW w \in Workers, TestRunning(w) \/ TakeWait(w) \/ TakeNothing(w) \/ TaskDone(w) \/ TaskThrows(w)
      PROVE  PoolTypes'
  BY <1>7, Zenon DEF TestRunning, TakeWait, TakeNothing, TaskDone, TaskThrows, PoolTypes
<1>8. CASE UNCHANGED vars
  BY <1>8, Zenon DEF vars, PoolTypes
<1>9. QED
  BY <1>1, <1>2, <1>3, <1>4, <1>5, <1>6, <1>7, <1>8, Zenon DEF Next, RunStep, WorkerStep

-----------------------------------------------------------------------------
\* Numbers in a row stay so when the next one is appended.
LEMMA AppendInRow ==
  ASSUME NEW s \in Seq(Nat), NEW k \in Nat, \A i \in 1 .. Len(s) : s[i] = k + i,
         NEW z \in Nat, z = k + Len(s) + 1
  PROVE  /\ Len(Append(s, z)) = Len(s) + 1
         /\ \A i \in 1 .. Len(s) + 1 : Append(s, z)[i] = k + i
<1>1. /\ Len(Append(s, z)) = Len(s) + 1
      /\ \A i \in 1 .. Len(s) : Append(s, z)[i] = s[i]
      /\ Append(s, z)[Len(s) + 1] = z
  BY AppendProperties
<1>2. Len(s) \in Nat
  OBVIOUS
<1>3. \A i \in 1 .. Len(s) + 1 : i \in 1 .. Len(s) \/ i = Len(s) + 1
  BY <1>2
<1>4. QED
  BY <1>1, <1>2, <1>3

\* Every step keeps the order: run appends, take removes from the head.
LEMMA OrderStep == PoolTypes /\ Order /\ [Next]_vars => Order'
<1> SUFFICES ASSUME PoolTypes, Order, [Next]_vars PROVE Order'
  BY Zenon
<1>0. /\ queue \in Seq(Nat) /\ taken \in Seq(Nat) /\ Len(queue) \in Nat /\ Len(taken) \in Nat
      /\ submitted \in Nat /\ submitted + 1 \in Nat
      /\ Len(taken) + Len(queue) = submitted
      /\ submitted + 1 = Len(taken) + Len(queue) + 1
  <2>1. queue \in Seq(Nat) /\ taken \in Seq(Nat) /\ submitted \in Nat /\ Len(taken) + Len(queue) = submitted
    BY Zenon DEF PoolTypes, Order
  <2>2. Len(queue) \in Nat /\ Len(taken) \in Nat
    BY <2>1
  <2>3. \A x, y, z \in Nat : x + y = z => z + 1 \in Nat /\ z + 1 = x + y + 1
    OBVIOUS
  <2>4. QED
    BY <2>1, <2>2, <2>3, Zenon
<1>1. ASSUME NEW c \in Callers, RunInline(c) PROVE Order'
  <2>1. queue = <<>> /\ queue' = queue /\ submitted' = submitted + 1 /\ taken' = Append(taken, submitted + 1)
    BY <1>1, Zenon DEF RunInline, PoolTypes
  <2>2. Len(queue) = 0 /\ submitted = Len(taken) /\ 1 .. Len(queue) = {}
    BY <1>0, <2>1
  <2>3. submitted + 1 = 0 + Len(taken) + 1 /\ 0 \in Nat /\ \A i \in 1 .. Len(taken) : taken[i] = 0 + i
    BY <1>0, <2>2 DEF Order
  <2>4. Len(taken') = Len(taken) + 1 /\ \A i \in 1 .. Len(taken) + 1 : taken'[i] = 0 + i
    BY <1>0, <2>1, <2>3, AppendInRow
  <2>5. Len(taken) + 1 + Len(queue) = submitted + 1 /\ \A i \in 1 .. Len(taken) + 1 : 0 + i = i
    BY <1>0, <2>2
  <2>6. QED
    BY <2>1, <2>2, <2>4, <2>5, Zenon DEF Order
<1>2. ASSUME NEW t \in Threads, RunPush(t) PROVE Order'
  <2>1. queue' = Append(queue, submitted + 1) /\ submitted' = submitted + 1 /\ taken' = taken
    BY <1>2, Zenon DEF RunPush
  <2>2. Len(queue') = Len(queue) + 1 /\ \A i \in 1 .. Len(queue) + 1 : queue'[i] = Len(taken) + i
    BY <1>0, <2>1, AppendInRow, Zenon DEF Order
  <2>3. Len(taken) + (Len(queue) + 1) = submitted + 1
    BY <1>0
  <2>4. QED
    BY <2>1, <2>2, <2>3, Zenon DEF Order
<1>3. ASSUME NEW w \in Workers, TakeTask(w) PROVE Order'
  <2>1. queue # <<>> /\ queue' = Tail(queue) /\ taken' = Append(taken, Head(queue)) /\ submitted' = submitted
    BY <1>3, Zenon DEF TakeTask
  <2>2. queue \in Seq(Nat) /\ taken \in Seq(Nat) /\ Len(queue) \in Nat \ {0} /\ Len(taken) \in Nat
    BY <2>1 DEF PoolTypes
  <2>3. Head(queue) = Len(taken) + 1
    BY <2>1, <2>2 DEF Order
  <2>4. Len(taken') = Len(taken) + 1 /\ \A i \in 1 .. Len(taken) + 1 : taken'[i] = i
    BY <2>1, <2>2, <2>3 DEF Order
  <2>5. Len(queue') = Len(queue) - 1 /\ \A i \in 1 .. Len(queue) - 1 : queue'[i] = queue[i + 1]
    BY <2>1, <2>2
  <2>6. \A i \in 1 .. Len(queue) - 1 : queue'[i] = Len(taken) + 1 + i
    BY <2>2, <2>5 DEF Order
  <2>7. QED
    BY <2>1, <2>2, <2>4, <2>5, <2>6 DEF Order
<1>4. CASE UNCHANGED <<queue, taken, submitted>>
  BY <1>4, Zenon DEF Order
<1>5. QED
  BY <1>1, <1>2, <1>3, <1>4, Zenon
     DEF Next, Start, StopCall, StopJoined, SpuriousWakeup, RunCall, RunStep, RunWait, WorkerStep, TestRunning,
         TakeWait, TakeNothing, TaskDone, TaskThrows, vars

\* Every task is handed to one worker, in the order run has queued them,
\* whatever workers and callers interleave and also during stop().
THEOREM TasksInOrder == Spec => []TakenInOrder
<1>1. PoolTypes /\ Order => TakenInOrder
  <2> SUFFICES ASSUME PoolTypes, Order PROVE TakenInOrder
    BY Zenon
  <2>1. taken \in Seq(Nat) /\ queue \in Seq(Nat) /\ Len(taken) \in Nat /\ Len(queue) \in Nat
    BY DEF PoolTypes
  <2>2. /\ taken \o queue \in Seq(Nat) /\ Len(taken \o queue) = submitted
        /\ \A i \in 1 .. submitted : (taken \o queue)[i] = IF i <= Len(taken) THEN taken[i] ELSE queue[i - Len(taken)]
    BY <2>1 DEF Order
  <2>3. \A i \in 1 .. submitted : (taken \o queue)[i] = i
    BY <2>1, <2>2 DEF Order
  <2>4. DEFINE all == [i \in 1 .. submitted |-> i]
  <2>5. all \in Seq(Nat) /\ Len(all) = submitted /\ \A i \in 1 .. submitted : all[i] = i
    BY DEF PoolTypes
  <2> HIDE DEF all
  <2>6. all = taken \o queue
    BY <2>2, <2>3, <2>5, SeqEqual, Zenon
  <2>7. QED
    BY <2>6, Zenon DEF TakenInOrder, all
<1>2. QED
  BY <1>1, TypesInit, TypesStep, OrderStep, PTL DEF Spec

-----------------------------------------------------------------------------
\* The three parts of NoLostNotify, for a queue of length q.
Takers(where, q) == Sleeper(where) => q <= Count(where, "take")
Runners(where, q) == Sleeper(where) => MaxQueueSize - q <= Count(where, "run")
Bounded(q) == MaxQueueSize > 0 => q <= MaxQueueSize

\* NoLostNotify is these three.
LEMMA NoLostNotifyParts ==
  PoolTypes => (NoLostNotify <=> Takers(wpc, Len(queue)) /\ Runners(rpc, Len(queue)) /\ Bounded(Len(queue)))
<1> SUFFICES ASSUME PoolTypes
             PROVE  NoLostNotify <=> Takers(wpc, Len(queue)) /\ Runners(rpc, Len(queue)) /\ Bounded(Len(queue))
  BY Zenon
<1>1. At(wpc, "asleep") = AsleepIn(wpc) /\ At(rpc, "asleep") = AsleepIn(rpc)
  BY Zenon DEF At, AsleepIn
<1>2. At(wpc, "take") = {w \in Workers : wpc[w] = "take"} /\ At(rpc, "run") = {t \in Threads : rpc[t] = "run"}
  BY Zenon DEF At, PoolTypes
<1>3. QED
  BY <1>1, <1>2, Zenon DEF NoLostNotify, Takers, Runners, Bounded, Sleeper, Count

\* The workers' part when one of them moves, w.
LEMMA WorkerMoves ==
  ASSUME NEW where \in [Workers -> {"none", "test", "take", "asleep", "task", "done"}], NEW q \in Nat,
         Takers(where, q), NEW w \in Workers
  PROVE  /\ where[w] # "take" => Takers(Put(where, w, "take"), q)
         /\ where[w] # "take" => \A to \in {"test", "task", "done"} : Takers(Put(where, w, to), q)
         /\ where[w] = "take" /\ q = 0 => \A to \in {"test", "asleep"} : Takers(Put(where, w, to), q)
         /\ where[w] = "take" /\ q > 0 => Takers(Put(where, w, "task"), q - 1)
         /\ where[w] = "asleep" => Takers(Put(where, w, "take"), q + 1)
<1> DEFINE P == {"none", "test", "take", "asleep", "task", "done"}
<1>1. IsFiniteSet(Workers)
  BY ThreadAssumption, Zenon
<1>2. ASSUME NEW to \in P
      PROVE  /\ Count(where, "take") \in Nat /\ Count(Put(where, w, to), "take") \in Nat
             /\ where[w] # "take" /\ to = "take" => Count(Put(where, w, to), "take") = Count(where, "take") + 1
             /\ where[w] = "take" /\ to # "take" => Count(Put(where, w, to), "take") = Count(where, "take") - 1
             /\ where[w] # "take" /\ to # "take" => Count(Put(where, w, to), "take") = Count(where, "take")
             /\ to # "asleep" /\ Sleeper(Put(where, w, to)) => Sleeper(where)
             /\ where[w] = "asleep" => Sleeper(where)
  <2> HIDE DEF P
  <2>1. where \in [Workers -> P]
    BY Zenon DEF P
  <2>2. QED
    BY <1>1, <2>1, PutCounts, Zenon
<1>3. QED
  BY <1>2 DEF Takers

\* The part of the threads in run when one of them moves, t.
LEMMA RunnerMoves ==
  ASSUME NEW where \in [Threads -> {"idle", "run", "asleep"}], NEW q \in Nat,
         Runners(where, q), NEW t \in Threads
  PROVE  /\ where[t] # "run" => Runners(Put(where, t, "run"), q)
         /\ where[t] = "run" /\ q >= MaxQueueSize => Runners(Put(where, t, "asleep"), q)
         /\ where[t] = "run" => Runners(Put(where, t, "idle"), q + 1)
         /\ where[t] = "asleep" /\ q > 0 => Runners(Put(where, t, "run"), q - 1)
<1> DEFINE P == {"idle", "run", "asleep"}
<1>1. IsFiniteSet(Threads)
  <2>1. IsFiniteSet(Workers) /\ IsFiniteSet(Callers)
    BY ThreadAssumption, Zenon
  <2>2. QED
    BY <2>1, FS_Union, Zenon DEF Threads
<1>2. ASSUME NEW to \in P
      PROVE  /\ Count(where, "run") \in Nat /\ Count(Put(where, t, to), "run") \in Nat
             /\ where[t] # "run" /\ to = "run" => Count(Put(where, t, to), "run") = Count(where, "run") + 1
             /\ where[t] = "run" /\ to # "run" => Count(Put(where, t, to), "run") = Count(where, "run") - 1
             /\ where[t] # "run" /\ to # "run" => Count(Put(where, t, to), "run") = Count(where, "run")
             /\ to # "asleep" /\ Sleeper(Put(where, t, to)) => Sleeper(where)
             /\ where[t] = "asleep" => Sleeper(where)
  <2> HIDE DEF P
  <2>1. where \in [Threads -> P]
    BY Zenon DEF P
  <2>2. QED
    BY <1>1, <2>1, PutCounts, Zenon
<1>3. QED
  BY <1>2, SizeAssumption DEF Runners

\* Every step keeps the three parts: run's notify sends a sleeping worker on
\* its way with each task, take's a sleeping caller with each free place, and
\* a thread goes to sleep only on an empty or a full queue.
LEMMA NotifyStep == PoolTypes /\ NoLostNotify /\ [Next]_vars => NoLostNotify'
<1> SUFFICES ASSUME PoolTypes, PoolTypes', NoLostNotify, [Next]_vars PROVE NoLostNotify'
  BY TypesStep, Zenon
<1> DEFINE W == Takers(wpc, Len(queue))
           R == Runners(rpc, Len(queue))
           B == Bounded(Len(queue))
<1>0. /\ W /\ R /\ B /\ Len(queue) \in Nat
      /\ wpc \in [Workers -> {"none", "test", "take", "asleep", "task", "done"}]
      /\ rpc \in [Threads -> {"idle", "run", "asleep"}]
  BY NoLostNotifyParts DEF PoolTypes
<1> SUFFICES W' /\ R' /\ B'
  <2>1. (PoolTypes => (NoLostNotify <=> W /\ R /\ B))'
    BY NoLostNotifyParts, PTL
  <2>2. QED
    BY <2>1, Zenon
<1> USE <1>0
<1>1. CASE Start \/ StopCall
  <2>1. ~Sleeper(wpc')
    BY <1>1, Zenon DEF Start, StopCall, NotifyAll, Sleeper, At
  <2>2. rpc' = rpc /\ queue' = queue
    BY <1>1, Zenon DEF Start, StopCall
  <2>3. QED
    BY <2>1, <2>2, Zenon DEF Takers
<1>2. CASE SpuriousWakeup
  <2>1. CASE \E w \in Workers : wpc[w] = "asleep" /\ wpc' = Put(wpc, w, "take") /\ rpc' = rpc /\ queue' = queue
    <3>1. PICK w \in Workers : wpc[w] = "asleep" /\ wpc' = Put(wpc, w, "take") /\ rpc' = rpc /\ queue' = queue
      BY <2>1, Zenon
    <3>2. Takers(Put(wpc, w, "take"), Len(queue))
      BY <3>1, WorkerMoves, Zenon
    <3>3. QED
      BY <3>1, <3>2, Zenon
  <2>2. CASE \E t \in Threads : rpc[t] = "asleep" /\ rpc' = Put(rpc, t, "run") /\ wpc' = wpc /\ queue' = queue
    <3>1. PICK t \in Threads : rpc[t] = "asleep" /\ rpc' = Put(rpc, t, "run") /\ wpc' = wpc /\ queue' = queue
      BY <2>2, Zenon
    <3>2. Runners(Put(rpc, t, "run"), Len(queue))
      BY <3>1, RunnerMoves, Zenon
    <3>3. QED
      BY <3>1, <3>2, Zenon
  <2>3. QED
    BY <1>2, <2>1, <2>2, Zenon DEF SpuriousWakeup, Put
<1>3. ASSUME NEW t \in Threads, RunCall(t) PROVE W' /\ R' /\ B'
  <2>1. rpc[t] # "run" /\ rpc' = Put(rpc, t, "run") /\ wpc' = wpc /\ queue' = queue
    BY <1>3, Zenon DEF RunCall, Put
  <2>2. Runners(Put(rpc, t, "run"), Len(queue))
    BY <2>1, RunnerMoves, Zenon
  <2>3. QED
    BY <2>1, <2>2, Zenon
<1>4. ASSUME NEW t \in Threads, RunWait(t) PROVE W' /\ R' /\ B'
  <2>1. rpc[t] = "run" /\ rpc' = Put(rpc, t, "asleep") /\ wpc' = wpc /\ queue' = queue /\ Len(queue) >= MaxQueueSize
    BY <1>4, Zenon DEF RunWait, Put, isFull
  <2>2. Runners(Put(rpc, t, "asleep"), Len(queue))
    BY <2>1, RunnerMoves, Zenon
  <2>3. QED
    BY <2>1, <2>2, Zenon
<1>5. ASSUME NEW t \in Threads, RunPush(t) PROVE W' /\ R' /\ B'
  <2>1. /\ rpc[t] = "run" /\ rpc' = Put(rpc, t, "idle") /\ wpc' \in Notify(wpc, "take") /\ ~isFull
        /\ queue' = Append(queue, submitted + 1)
    BY <1>5, Zenon DEF RunPush, Put
  <2>2. Len(queue') = Len(queue) + 1
    BY <2>1 DEF PoolTypes
  <2>3. Runners(Put(rpc, t, "idle"), Len(queue) + 1)
    BY <2>1, RunnerMoves, Zenon
  <2>4. Bounded(Len(queue) + 1)
    BY <2>1, SizeAssumption DEF Bounded, isFull
  <2>5. Takers(wpc', Len(queue) + 1)
    <3>1. CASE At(wpc, "asleep") = {} /\ wpc' = wpc
      BY <3>1, Zenon DEF Takers, Sleeper
    <3>2. CASE \E w \in Workers : wpc[w] = "asleep" /\ wpc' = [wpc EXCEPT ![w] = "take"]
      <4>1. PICK w \in Workers : wpc[w] = "asleep" /\ wpc' = Put(wpc, w, "take")
        BY <3>2, Zenon DEF Put
      <4>2. Takers(Put(wpc, w, "take"), Len(queue) + 1)
        BY <4>1, WorkerMoves, Zenon
      <4>3. QED
        BY <4>1, <4>2, Zenon
    <3>3. \/ At(wpc, "asleep") = {} /\ wpc' = wpc
          \/ \E w \in Workers : wpc[w] = "asleep" /\ wpc' = [wpc EXCEPT ![w] = "take"]
      BY <2>1, Zenon DEF Notify, At
    <3>4. QED
      BY <3>1, <3>2, <3>3, Zenon
  <2>6. QED
    BY <2>1, <2>2, <2>3, <2>4, <2>5, Zenon
<1>6. ASSUME NEW w \in Workers, TakeTask(w) PROVE W' /\ R' /\ B'
  <2>1. /\ wpc[w] = "take" /\ wpc' = Put(wpc, w, "task") /\ queue # <<>> /\ queue' = Tail(queue)
        /\ rpc' \in IF MaxQueueSize > 0 THEN Notify(rpc, "run") ELSE {rpc}
    BY <1>6, Zenon DEF TakeTask, Put
  <2>2. Len(queue') = Len(queue) - 1 /\ Len(queue) > 0
    BY <2>1 DEF PoolTypes
  <2>3. Takers(Put(wpc, w, "task"), Len(queue) - 1)
    BY <2>1, <2>2, WorkerMoves, Zenon
  <2>4. Bounded(Len(queue) - 1)
    BY <2>2, SizeAssumption DEF Bounded
  <2>5. Runners(rpc', Len(queue) - 1)
    <3>1. CASE MaxQueueSize = 0
      <4>1. Count(rpc', "run") \in Nat
        <5>1. IsFiniteSet(Threads)
          BY ThreadAssumption, FS_Union, Zenon DEF Threads
        <5>2. At(rpc', "run") \in SUBSET Threads
          BY Zenon DEF At, PoolTypes
        <5>3. QED
          BY <5>1, <5>2, FS_Subset, FS_CardinalityType, Zenon DEF Count
      <4>2. QED
        BY <2>2, <3>1, <4>1 DEF Runners
    <3>2. CASE At(rpc, "asleep") = {} /\ rpc' = rpc
      BY <3>2, Zenon DEF Runners, Sleeper
    <3>3. CASE \E t \in Threads : rpc[t] = "asleep" /\ rpc' = [rpc EXCEPT ![t] = "run"]
      <4>1. PICK t \in Threads : rpc[t] = "asleep" /\ rpc' = Put(rpc, t, "run")
        BY <3>3, Zenon DEF Put
      <4>2. Runners(Put(rpc, t, "run"), Len(queue) - 1)
        BY <2>2, <4>1, RunnerMoves, Zenon
      <4>3. QED
        BY <4>1, <4>2, Zenon
    <3>4. CASE MaxQueueSize > 0
      <4>1. \/ At(rpc, "asleep") = {} /\ rpc' = rpc
            \/ \E t \in Threads : rpc[t] = "asleep" /\ rpc' = [rpc EXCEPT ![t] = "run"]
        BY <2>1, <3>4, Zenon DEF Notify, At
      <4>2. QED
        BY <4>1, <3>2, <3>3, Zenon
    <3>5. QED
      BY <3>1, <3>4, SizeAssumption
  <2>6. QED
    BY <2>1, <2>2, <2>3, <2>4, <2>5, Zenon
<1>7. ASSUME NEW w \in Workers, TestRunning(w) PROVE W' /\ R' /\ B'
  <2>1. PICK to \in {"take", "done"} : wpc[w] # "take" /\ wpc' = Put(wpc, w, to) /\ rpc' = rpc /\ queue' = queue
    BY <1>7, Zenon DEF TestRunning, Put
  <2>2. Takers(Put(wpc, w, to), Len(queue))
    BY <2>1, WorkerMoves, Zenon
  <2>3. QED
    BY <2>1, <2>2, Zenon
<1>8. ASSUME NEW w \in Workers, TakeWait(w) \/ TakeNothing(w) PROVE W' /\ R' /\ B'
  <2>1. PICK to \in {"test", "asleep"} :
           wpc[w] = "take" /\ wpc' = Put(wpc, w, to) /\ rpc' = rpc /\ queue' = queue /\ queue = <<>>
    BY <1>8, Zenon DEF TakeWait, TakeNothing, Put
  <2>2. Len(queue) = 0
    BY <2>1, Zenon
  <2>3. Takers(Put(wpc, w, to), Len(queue))
    BY <2>1, <2>2, WorkerMoves, Zenon
  <2>4. QED
    BY <2>1, <2>3, Zenon
<1>9. ASSUME NEW w \in Workers, TaskDone(w) PROVE W' /\ R' /\ B'
  <2>1. wpc[w] # "take" /\ wpc' = Put(wpc, w, "test") /\ rpc' = rpc /\ queue' = queue
    BY <1>9, Zenon DEF TaskDone, Put
  <2>2. Takers(Put(wpc, w, "test"), Len(queue))
    BY <2>1, WorkerMoves, Zenon
  <2>3. QED
    BY <2>1, <2>2, Zenon
<1>10. CASE UNCHANGED <<queue, wpc, rpc>>
  BY <1>10, Zenon
<1>11. QED
  BY <1>1, <1>2, <1>3, <1>4, <1>5, <1>6, <1>7, <1>8, <1>9, <1>10
     DEF Next, StopJoined, RunInline, RunStep, WorkerStep, TaskThrows, vars

\* No notify of notEmpty_ or notFull_ gets lost, whatever number of workers
\* and callers overtake each other and however often wakeups are spurious, and
\* the queue keeps its bound.
THEOREM NotifyNeverLost == Spec => []NoLostNotify
<1>1. Init => NoLostNotify
  <2> SUFFICES ASSUME Init PROVE NoLostNotify
    BY Zenon
  <2>1. ~Sleeper(wpc) /\ ~Sleeper(rpc) /\ Len(queue) = 0
    BY Zenon DEF Init, Sleeper, At
  <2>2. Takers(wpc, Len(queue)) /\ Runners(rpc, Len(queue)) /\ Bounded(Len(queue))
    BY <2>1, SizeAssumption DEF Takers, Runners, Bounded
  <2>3. QED
    BY <2>2, TypesInit, NoLostNotifyParts, Zenon
<1>2. QED
  BY <1>1, TypesInit, TypesStep, NotifyStep, PTL DEF Spec

-----------------------------------------------------------------------------
\* EventLoop.

\* A loop that was just constructed is well typed.
LEMMA LoopTypesInit == LoopInit => Types
<1>1. LoopInit => /\ pending \in Seq(Nat) /\ functors \in Seq(Nat) /\ executed \in Seq(Nat)
              /\ queued \in Nat /\ early \subseteq Nat
  BY DEF LoopInit
<1>2. LoopInit => opc \in [Others -> {"idle", "wakeup"}]
  BY Zenon DEF LoopInit
<1>3. QED
  BY <1>1, <1>2, Zenon DEF LoopInit, Types

\* Every step keeps the types.
LEMMA LoopTypesStep == Types /\ [LoopNext]_loopVars => Types'
<1> SUFFICES ASSUME Types, [LoopNext]_loopVars PROVE Types'
  BY Zenon
<1> USE DEF Types
<1>push. ASSUME Push PROVE pending' \in Seq(Nat) /\ queued' \in Nat
  BY <1>push DEF Push, Pushed
<1>self. ASSUME QueueInLoopThread PROVE pending' \in Seq(Nat) /\ queued' \in Nat /\ armed' \in BOOLEAN
  BY <1>self, <1>push, Zenon DEF QueueInLoopThread
<1>0. CASE QueueEarly
  BY <1>0, <1>self DEF QueueEarly
<1>1. CASE LoopCall
  BY <1>1, Zenon DEF LoopCall
<1>2. CASE LoopTest
  BY <1>2, Zenon DEF LoopTest
<1>3. CASE PollReturn
  BY <1>3, Zenon DEF PollReturn
<1>4. CASE HandleRead
  BY <1>4, Zenon DEF HandleRead
<1>5. CASE HandleEvent
  BY <1>5, <1>self, Zenon DEF HandleEvent
<1>6. CASE HandleDone
  BY <1>6, Zenon DEF HandleDone
<1>7. CASE SwapFunctors
  BY <1>7 DEF SwapFunctors
<1>8. CASE RunFunctor
  <2>1. Head(functors) \in Nat /\ Tail(functors) \in Seq(Nat)
    BY <1>8, HeadTailProperties, Zenon DEF RunFunctor
  <2>2. executed' \in Seq(Nat) /\ functors' \in Seq(Nat)
    BY <1>8, <2>1 DEF RunFunctor
  <2>3. QED
    BY <1>8, <1>self, <2>2, Zenon DEF RunFunctor
<1>9. CASE RunDone
  BY <1>9, Zenon DEF RunDone
<1>10. ASSUME NEW t \in Others, QueueInLoop(t) PROVE Types'
  BY <1>10, <1>push, Zenon DEF QueueInLoop
<1>11. ASSUME NEW t \in Others, Quit(t) PROVE Types'
  BY <1>11, Zenon DEF Quit
<1>12. ASSUME NEW t \in Others, Wakeup(t) PROVE Types'
  BY <1>12, Zenon DEF Wakeup
<1>13. CASE UNCHANGED loopVars
  BY <1>13, Zenon DEF loopVars
<1>14. QED
  BY <1>0, <1>1, <1>2, <1>3, <1>4, <1>5, <1>6, <1>7, <1>8, <1>9, <1>10, <1>11, <1>12, <1>13, SMTT(30)
  DEF LoopNext, LoopStep

-----------------------------------------------------------------------------
\* At first nothing is pending.
LEMMA WakeupInit == LoopInit => WakeupInv
BY DEF LoopInit, WakeupInv, Urgent

\* Every step keeps the wake-up due for what is pending.
LEMMA WakeupStep == Types /\ WakeupInv /\ [LoopNext]_loopVars => WakeupInv'
<1> SUFFICES ASSUME Types, WakeupInv, [LoopNext]_loopVars PROVE WakeupInv'
  BY Zenon
<1> USE DEF Types, WakeupInv, Waking, Urgent
<1>0. CASE QueueEarly
  \* What it appends is not urgent.
  <2>1. pending' = Append(pending, queued + 1) /\ early' = early \cup {queued + 1}
    BY <1>0, Zenon DEF QueueEarly, QueueInLoopThread, Push, Pushed
  <2>2. Urgent' => Urgent
    BY <2>1
  <2>3. Waking => Waking'
    BY <1>0, Zenon DEF QueueEarly, QueueInLoopThread
  <2>4. QED
    BY <1>0, <2>2, <2>3, Zenon DEF QueueEarly
<1>1. CASE LoopCall
  BY <1>1, Zenon DEF LoopCall
<1>2. CASE LoopTest
  BY <1>2, Zenon DEF LoopTest
<1>3. CASE PollReturn
  BY <1>3, Zenon DEF PollReturn
<1>4. CASE HandleRead
  BY <1>4, Zenon DEF HandleRead
<1>5. CASE HandleEvent
  BY <1>5, Zenon DEF HandleEvent
<1>6. CASE HandleDone
  BY <1>6, Zenon DEF HandleDone
<1>7. CASE SwapFunctors
  BY <1>7 DEF SwapFunctors
<1>8. CASE RunFunctor
  \* What a functor queues while calling is set arms the eventfd.
  <2>1. CASE QueueInLoopThread
    <3>1. calling
      BY <1>8, Zenon DEF RunFunctor
    <3>2. armed'
      BY <2>1, <3>1, Zenon DEF QueueInLoopThread, WakesItself
    <3>3. QED
      BY <1>8, <3>2, Zenon DEF RunFunctor
  <2>2. CASE UNCHANGED <<pending, armed>>
    BY <1>8, <2>2, Zenon DEF RunFunctor
  <2>3. QED
    BY <1>8, <2>1, <2>2, Zenon DEF RunFunctor
<1>9. CASE RunDone
  BY <1>9, Zenon DEF RunDone
<1>10. ASSUME NEW t \in Others, QueueInLoop(t) PROVE WakeupInv'
  BY <1>10, Zenon DEF QueueInLoop
<1>11. ASSUME NEW t \in Others, Quit(t) PROVE WakeupInv'
  BY <1>11, Zenon DEF Quit
<1>12. ASSUME NEW t \in Others, Wakeup(t) PROVE WakeupInv'
  BY <1>12, Zenon DEF Wakeup
<1>13. CASE UNCHANGED loopVars
  BY <1>13, Zenon DEF loopVars
<1>14. QED
  BY <1>0, <1>1, <1>2, <1>3, <1>4, <1>5, <1>6, <1>7, <1>8, <1>9, <1>10, <1>11, <1>12, <1>13, SMTT(30)
  DEF LoopNext, LoopStep

\* A loop that blocks in its poll has a wakeup on its way for every functor
\* that queueInLoop has stored and for every quit, for any number of threads.
THEOREM NoSleep == LoopSpec => []NoSleepWithWork
<1>1. WakeupInv => NoSleepWithWork
  BY Zenon DEF WakeupInv, NoSleepWithWork
<1>2. QED
  BY LoopTypesInit, LoopTypesStep, WakeupInit, WakeupStep, <1>1, PTL DEF LoopSpec

-----------------------------------------------------------------------------
\* Numbering one more functor.
LEMMA NumberedOneMore ==
  ASSUME NEW n \in Nat
  PROVE  [i \in 1 .. n + 1 |-> i] = Append([i \in 1 .. n |-> i], n + 1)
<1> DEFINE s == [i \in 1 .. n |-> i]
           r == [i \in 1 .. n + 1 |-> i]
<1>1. s \in Seq(Nat) /\ Len(s) = n
  OBVIOUS
<1>2. r \in Seq(Nat) /\ Len(r) = n + 1
  OBVIOUS
<1>3. Append(s, n + 1) \in Seq(Nat) /\ Len(Append(s, n + 1)) = n + 1
  BY <1>1, AppendProperties
<1>4. ASSUME NEW i \in 1 .. n + 1 PROVE r[i] = Append(s, n + 1)[i]
  BY <1>1, AppendProperties
<1>5. QED
  BY <1>2, <1>3, <1>4, SeqEqual, Zenon

\* Appending to the end of a concatenation.
LEMMA AppendAssociative ==
  ASSUME NEW s \in Seq(Nat), NEW r \in Seq(Nat), NEW n \in Nat
  PROVE  s \o Append(r, n) = Append(s \o r, n)
<1>1. Append(r, n) = r \o <<n>> /\ <<n>> \in Seq(Nat)
  BY AppendIsConcat
<1>2. s \o r \in Seq(Nat)
  BY ConcatProperties, Zenon
<1>3. Append(s \o r, n) = (s \o r) \o <<n>>
  BY <1>2, AppendIsConcat, Zenon
<1>4. QED
  BY <1>1, <1>3, ConcatAssociative

\* Queueing one more functor keeps the order.
LEMMA OrderPush == Types /\ QueuedOrder /\ Push /\ executed' = executed /\ functors' = functors
                     => QueuedOrder'
<1> SUFFICES ASSUME Types, QueuedOrder, Push, executed' = executed, functors' = functors
             PROVE  QueuedOrder'
  BY Zenon
<1> DEFINE ef == executed \o functors
<1>1. queued \in Nat /\ ef \in Seq(Nat) /\ pending \in Seq(Nat)
  BY ConcatProperties, Zenon DEF Types
<1>2. queued + 1 \in Nat
  BY <1>1
<1>3. ef \o Append(pending, queued + 1) = Append(ef \o pending, queued + 1)
  BY <1>1, <1>2, AppendAssociative, Zenon
<1>4. QED
  BY <1>1, <1>3, NumberedOneMore, Zenon DEF QueuedOrder, Push, Pushed

\* Calling the first functor keeps the order.
LEMMA OrderRun ==
  ASSUME NEW e \in Seq(Nat), NEW f \in Seq(Nat), f # <<>>
  PROVE  Append(e, Head(f)) \o Tail(f) = e \o f
<1>1. Head(f) \in Nat /\ Tail(f) \in Seq(Nat) /\ f = <<Head(f)>> \o Tail(f)
  BY HeadTailProperties
<1>2. Append(e, Head(f)) = e \o <<Head(f)>>
  BY <1>1, AppendIsConcat, Zenon
<1>3. QED
  BY <1>1, <1>2, ConcatAssociative

\* The local vector is empty outside doPendingFunctors.
OrderInv == QueuedOrder /\ (lpc # "run" => functors = <<>>)

\* At first nothing was queued.
LEMMA OrderInit == LoopInit => OrderInv
BY DEF LoopInit, OrderInv, QueuedOrder

\* Every step keeps the functors in the order they were queued.
LEMMA LoopOrderStep == Types /\ OrderInv /\ [LoopNext]_loopVars => OrderInv'
<1> SUFFICES ASSUME Types, OrderInv, [LoopNext]_loopVars PROVE OrderInv'
  BY Zenon
<1> USE DEF OrderInv
<1>same. ASSUME UNCHANGED <<pending, functors, queued, executed>> PROVE QueuedOrder'
  BY <1>same, Zenon DEF QueuedOrder
<1>self. ASSUME QueueInLoopThread PROVE Push
  BY <1>self, Zenon DEF QueueInLoopThread
<1>0. CASE QueueEarly
  BY <1>0, <1>self, OrderPush, Zenon DEF QueueEarly
<1>1. CASE LoopCall
  BY <1>1, <1>same, Zenon DEF LoopCall
<1>2. CASE LoopTest
  BY <1>2, <1>same, Zenon DEF LoopTest
<1>3. CASE PollReturn
  BY <1>3, <1>same, Zenon DEF PollReturn
<1>4. CASE HandleRead
  BY <1>4, <1>same, Zenon DEF HandleRead
<1>5. CASE HandleEvent
  <2>1. CASE QueueInLoopThread
    BY <1>5, <1>self, <2>1, OrderPush, Zenon DEF HandleEvent
  <2>2. CASE UNCHANGED <<pending, queued, armed>>
    BY <1>5, <1>same, <2>2, Zenon DEF HandleEvent
  <2>3. QED
    BY <1>5, <2>1, <2>2, Zenon DEF HandleEvent
<1>6. CASE HandleDone
  BY <1>6, <1>same, Zenon DEF HandleDone
<1>7. CASE SwapFunctors
  <2>1. functors = <<>> /\ functors' = pending /\ pending' = <<>>
    BY <1>7, Zenon DEF SwapFunctors
  <2>2. (executed \o <<>>) \o pending = (executed \o pending) \o <<>>
    BY ConcatEmptySeq, ConcatProperties DEF Types
  <2>3. QED
    BY <1>7, <2>1, <2>2, Zenon DEF SwapFunctors, QueuedOrder
<1>8. CASE RunFunctor
  <2> DEFINE e == Append(executed, Head(functors))
             f == Tail(functors)
  <2>1. e \o f = executed \o functors
    BY <1>8, OrderRun, Zenon DEF RunFunctor, Types
  <2>2. executed' = e /\ functors' = f /\ lpc' = "run"
    BY <1>8, Zenon DEF RunFunctor
  <2>3. CASE QueueInLoopThread
    <3>1. queued \in Nat /\ executed \o functors \in Seq(Nat) /\ pending \in Seq(Nat)
      BY ConcatProperties, Zenon DEF Types
    <3>2. queued + 1 \in Nat
      BY <3>1
    <3>3. (executed \o functors) \o Append(pending, queued + 1)
             = Append((executed \o functors) \o pending, queued + 1)
      BY <3>1, <3>2, AppendAssociative, Zenon
    <3>4. pending' = Append(pending, queued + 1) /\ queued' = queued + 1
      BY <1>self, <2>3, Zenon DEF Push, Pushed
    <3>5. QED
      BY <2>1, <2>2, <3>1, <3>3, <3>4, NumberedOneMore, Zenon DEF QueuedOrder
  <2>4. CASE UNCHANGED <<pending, queued, armed>>
    BY <2>1, <2>2, <2>4, Zenon DEF QueuedOrder
  <2>5. QED
    BY <1>8, <2>3, <2>4, Zenon DEF RunFunctor
<1>9. CASE RunDone
  BY <1>9, <1>same, Zenon DEF RunDone
<1>10. ASSUME NEW t \in Others, QueueInLoop(t) PROVE OrderInv'
  BY <1>10, OrderPush, Zenon DEF QueueInLoop
<1>11. ASSUME NEW t \in Others, Quit(t) PROVE OrderInv'
  BY <1>11, <1>same, Zenon DEF Quit
<1>12. ASSUME NEW t \in Others, Wakeup(t) PROVE OrderInv'
  BY <1>12, <1>same, Zenon DEF Wakeup
<1>13. CASE UNCHANGED loopVars
  BY <1>13, <1>same, Zenon DEF loopVars
<1>14. QED
  BY <1>0, <1>1, <1>2, <1>3, <1>4, <1>5, <1>6, <1>7, <1>8, <1>9, <1>10, <1>11, <1>12, <1>13, SMTT(30)
  DEF LoopNext, LoopStep

\* Whoever queues them and however the threads interleave, the functors of
\* queueInLoop are called once each, in the order they were queued.
THEOREM FunctorsInOrder == LoopSpec => []QueuedOrder
<1>1. OrderInv => QueuedOrder
  BY Zenon DEF OrderInv
<1>2. QED
  BY LoopTypesInit, LoopTypesStep, OrderInit, LoopOrderStep, <1>1, PTL DEF LoopSpec

\* The fields keep their types, and no more functors are called than were
\* queued by queueInLoop.
THEOREM LoopTyping == LoopSpec => []TypeOK
<1>1. Types /\ QueuedOrder => Len(executed) <= queued
  <2> SUFFICES ASSUME Types, QueuedOrder PROVE Len(executed) <= queued
    BY Zenon
  <2>1. /\ executed \o functors \in Seq(Nat)
        /\ Len(executed \o functors) = Len(executed) + Len(functors)
    BY ConcatProperties DEF Types
  <2>2. Len((executed \o functors) \o pending) = Len(executed) + Len(functors) + Len(pending)
    BY <2>1, ConcatProperties DEF Types
  <2>3. Len([i \in 1 .. queued |-> i]) = queued
    BY DEF Types
  <2>4. /\ Len(executed) \in Nat /\ Len(functors) \in Nat /\ Len(pending) \in Nat
        /\ queued = Len(executed) + Len(functors) + Len(pending)
    BY <2>2, <2>3, LenProperties, Zenon DEF Types, QueuedOrder
  <2>5. QED
    BY <2>4 DEF Types
<1>2. OrderInv => QueuedOrder
  BY Zenon DEF OrderInv
<1>3. Types /\ OrderInv => TypeOK
  BY <1>1, <1>2, Zenon DEF TypeOK
<1>4. QED
  BY LoopTypesInit, LoopTypesStep, OrderInit, LoopOrderStep, <1>3, PTL DEF LoopSpec

-----------------------------------------------------------------------------
\* AsyncTimer.

Entry == [time : Int, name : Names, id : Nat]
Event == [isTimer : BOOLEAN, interval : Int, next : Int, reg : Nat]
Call == [name : Names, isTimer : BOOLEAN, delay : Int, now : Int]

TimerTypes ==
    /\ timers \subseteq Entry
    /\ events \in [Names -> Event \cup {None}]
    /\ call \in [Users -> Call \cup {None}]
    /\ at \in [Loops -> Int]
    /\ regs \in Nat

Named(n) == {e \in timers : e.name = n}
Calls(n) == {c \in Users : call[c] # None /\ call[c].name = n}

\* A name that is used once has one entry or one call under way, not both.
Single ==
    \A n \in Names \ reused :
        /\ \A e, f \in Named(n) : e = f
        /\ \A c, d \in Calls(n) : c = d
        /\ Calls(n) # {} => Named(n) = {} /\ events[n] = None

-----------------------------------------------------------------------------
\* The types hold of a timer that was just created.
LEMMA TimerTypesInit == TimerInit => TimerTypes
BY DEF TimerInit, TimerTypes

\* An entry and an event stay one when their time changes.
LEMMA TimeTypes ==
  ASSUME NEW t \in Int
  PROVE  /\ \A e \in Entry : [e EXCEPT !.time = t] \in Entry /\ [e EXCEPT !.time = t].time = t
                             /\ [e EXCEPT !.time = t].name = e.name
         /\ \A v \in Event : [v EXCEPT !.next = t] \in Event /\ [v EXCEPT !.next = t].next = t
                             /\ [v EXCEPT !.next = t].isTimer = v.isTimer
         /\ \A r \in Call : [r EXCEPT !.now = t] \in Call /\ [r EXCEPT !.now = t].name = r.name
BY Zenon DEF Entry, Event, Call

\* A tick keeps the order of two times.
LEMMA OlderKeepsOrder ==
  ASSUME NEW t \in Int, NEW u \in Int, t <= u
  PROVE  Older(t) \in Int /\ Older(t) <= Older(u)
BY BoundAssumption DEF Older

\* What the section under the lock in addTimer and addAfter does: an event
\* and an entry for it, with the same time.
LEMMA AddCommitAdds ==
  ASSUME TimerTypes, NEW c \in Users, AddCommit(c)
  PROVE  \E n \in Names, v \in Event, e \in Entry :
            /\ call[c] # None /\ call[c].name = n
            /\ e.name = n /\ e.time = v.next
            /\ events' = [events EXCEPT ![n] = v]
            /\ timers' = timers \cup {e}
            /\ call' = [call EXCEPT ![c] = None]
            /\ regs' = regs + 1 /\ at' = at /\ reused' = reused
<1> DEFINE r == call[c]
           when == r.now + r.delay
           v == [isTimer |-> r.isTimer, interval |-> IF r.isTimer THEN r.delay ELSE 0,
                 next |-> when, reg |-> regs + 1]
           e == [time |-> when, name |-> r.name, id |-> regs + 1]
<1>1. r # None /\ r \in Call /\ regs \in Nat
  BY Zenon DEF AddCommit, TimerTypes
<1>2. r.name \in Names /\ v \in Event /\ e \in Entry /\ e.name = r.name /\ e.time = v.next
  BY <1>1 DEF Call, Event, Entry
<1>3. /\ events' = [events EXCEPT ![r.name] = v] /\ timers' = timers \cup {e}
      /\ call' = [call EXCEPT ![c] = None]
      /\ regs' = regs + 1 /\ at' = at /\ reused' = reused
  BY Zenon DEF AddCommit
<1> HIDE DEF v, e
<1>4. QED
  BY <1>1, <1>2, <1>3, Zenon

\* Every step keeps the types.
LEMMA TimerTypesStep == TimerTypes /\ [TimerNext]_timerVars => TimerTypes'
<1> SUFFICES ASSUME TimerTypes, [TimerNext]_timerVars PROVE TimerTypes'
  BY Zenon
<1>1. CASE StartLoop \/ Stop
  BY <1>1, Zenon DEF StartLoop, Stop, TimerTypes
<1>2. CASE Tick
  <2>1. timers' \subseteq Entry
    <3> SUFFICES ASSUME NEW e \in timers PROVE [e EXCEPT !.time = Older(@)] \in Entry
      BY <1>2, Zenon DEF Tick
    <3>1. e \in Entry /\ e.time \in Int
      BY Zenon DEF TimerTypes, Entry
    <3>2. Older(e.time) \in Int
      BY <3>1, OlderKeepsOrder
    <3>3. QED
      BY <3>1, <3>2, TimeTypes, Zenon
  <2>2. events' \in [Names -> Event \cup {None}]
    <3> SUFFICES ASSUME NEW n \in Names, events[n] # None
                 PROVE  [events[n] EXCEPT !.next = Older(@)] \in Event
      BY <1>2, Zenon DEF Tick
    <3>1. events[n] \in Event /\ events[n].next \in Int
      BY Zenon DEF TimerTypes, Event
    <3>2. Older(events[n].next) \in Int
      BY <3>1, OlderKeepsOrder
    <3>3. QED
      BY <3>1, <3>2, TimeTypes, Zenon
  <2>3. call' \in [Users -> Call \cup {None}]
    <3> SUFFICES ASSUME NEW c \in Users, call[c] # None
                 PROVE  [call[c] EXCEPT !.now = Older(@)] \in Call
      BY <1>2, Zenon DEF Tick
    <3>1. call[c] \in Call /\ call[c].now \in Int
      BY Zenon DEF TimerTypes, Call
    <3>2. Older(call[c].now) \in Int
      BY <3>1, OlderKeepsOrder
    <3>3. QED
      BY <3>1, <3>2, TimeTypes, Zenon
  <2>4. at' \in [Loops -> Int]
    BY <1>2, OlderKeepsOrder DEF Tick, TimerTypes
  <2>5. QED
    BY <1>2, <2>1, <2>2, <2>3, <2>4, Zenon DEF Tick, TimerTypes
<1>3. ASSUME NEW c \in Users, AddCommit(c) PROVE TimerTypes'
  BY <1>3, AddCommitAdds DEF TimerTypes
<1>4. ASSUME NEW c \in Users, NEW n \in Names, NEW isTimer \in BOOLEAN, NEW delay \in Delays,
             AddCall(c, n, isTimer, delay)
      PROVE  TimerTypes'
  <2>1. delay \in Int
    BY DelayAssumption
  <2>2. [name |-> n, isTimer |-> isTimer, delay |-> delay, now |-> 0] \in Call
    BY <2>1 DEF Call
  <2>3. QED
    BY <1>4, <2>2, Zenon DEF AddCall, TimerTypes
<1>5. ASSUME NEW n \in Names, Del(n) PROVE TimerTypes'
  BY <1>5, Zenon DEF Del, TimerTypes
<1>6. ASSUME NEW l \in Loops, ThreadStep(l) PROVE TimerTypes'
  <2>1. CASE Check(l)
    <3>1. \A e \in Expired(l) : e \in Entry /\ events[e.name] \in Event
                                /\ at[l] + events[e.name].interval \in Int
      BY DEF Expired, TimerTypes, Entry, Event
    <3>2. Reinserted(l) \subseteq Entry
      BY <3>1, TimeTypes DEF Reinserted
    <3>3. events' \in [Names -> Event \cup {None}]
      <4> SUFFICES ASSUME NEW n \in Names, \E e \in Expired(l) : e.name = n
                   PROVE  [events[n] EXCEPT !.next = at[l] + events[n].interval] \in Event
        BY <2>1, Zenon DEF Check, TimerTypes
      <4>1. events[n] \in Event /\ at[l] + events[n].interval \in Int
        BY <3>1, Zenon
      <4>2. QED
        BY <4>1, TimeTypes, Zenon
    <3>4. QED
      BY <2>1, <3>2, <3>3, Zenon DEF Check, TimerTypes
  <2>2. CASE LoopTop(l)
    BY <2>2 DEF LoopTop, TimerTypes
  <2>3. CASE CheckStopped(l) \/ RunCallback(l) \/ CallbacksDone(l) \/ Wake(l)
    BY <2>3, Zenon DEF CheckStopped, RunCallback, CallbacksDone, Wake, TimerTypes
  <2>4. QED
    BY <1>6, <2>1, <2>2, <2>3, Zenon DEF ThreadStep
<1>7. CASE UNCHANGED timerVars
  BY <1>7, Zenon DEF timerVars, TimerTypes
<1>8. QED
  BY <1>1, <1>2, <1>3, <1>4, <1>5, <1>6, <1>7 DEF TimerNext

-----------------------------------------------------------------------------
\* How the entries and events look to the two invariants after a tick: each
\* keeps its name and its times keep their order.
LEMMA TickKeeps ==
  ASSUME TimerTypes, Tick
  PROVE  /\ \A e \in timers : \E f \in timers' : f.name = e.name /\ f.time = Older(e.time)
         /\ \A f \in timers' : \E e \in timers : f = [e EXCEPT !.time = Older(@)]
                                              /\ f.name = e.name /\ f.time = Older(e.time)
         /\ \A n \in Names : (events'[n] # None => events[n] # None /\ events'[n].next = Older(events[n].next))
         /\ \A n \in Names : (events[n] = None => events'[n] = None)
         /\ \A c \in Users : call'[c] # None => call[c] # None /\ call'[c].name = call[c].name
         /\ reused' = reused
<1>1. \A e \in timers : [e EXCEPT !.time = Older(@)].name = e.name /\ [e EXCEPT !.time = Older(@)].time = Older(e.time)
  BY Zenon DEF TimerTypes, Entry
<1>2. \A f \in timers' : \E e \in timers : f = [e EXCEPT !.time = Older(@)]
  BY Zenon DEF Tick
<1>3. \A e \in timers : [e EXCEPT !.time = Older(@)] \in timers'
  BY Zenon DEF Tick
<1>4. \A n \in Names : events'[n] # None => events[n] # None /\ events'[n].next = Older(events[n].next)
  BY Zenon DEF Tick, TimerTypes, Event
<1>5. \A c \in Users : call'[c] # None => call[c] # None /\ call'[c].name = call[c].name
  BY Zenon DEF Tick, TimerTypes, Call
<1>6. (\A n \in Names : events[n] = None => events'[n] = None) /\ reused' = reused
  BY Zenon DEF Tick
<1>7. \A e \in timers : \E f \in timers' : f.name = e.name /\ f.time = Older(e.time)
  BY <1>1, <1>3, Zenon
<1>8. \A f \in timers' : \E e \in timers : f = [e EXCEPT !.time = Older(@)]
                                          /\ f.name = e.name /\ f.time = Older(e.time)
  BY <1>1, <1>2, Zenon
<1>9. QED
  BY <1>4, <1>5, <1>6, <1>7, <1>8

\* What check() does to the entries and events of one name.
LEMMA CheckKeeps ==
  ASSUME TimerTypes, NEW l \in Loops, Check(l), NEW n \in Names
  PROVE  LET hit == {e \in Expired(l) : e.name = n}
         IN  /\ hit = {} => events'[n] = events[n]
             /\ hit # {} /\ events[n].isTimer => events'[n].next = at[l] + events[n].interval
             /\ hit # {} /\ ~events[n].isTimer => events'[n] = None
             /\ events[n] = None => hit = {}
             /\ \A f \in timers' : f.name = n =>
                   \/ f \in timers /\ f.time > at[l]
                   \/ \E e \in hit : /\ events[n].isTimer
                                     /\ f = [e EXCEPT !.time = at[l] + events[n].interval]
                                     /\ f.time = at[l] + events[n].interval
             /\ \A e \in timers : e.name = n /\ e \notin hit /\ events[n] # None =>
                   e.time > at[l] /\ e \in timers'
             /\ \A e \in hit : events[n].isTimer =>
                   \E f \in timers' : f.name = n /\ f.time = at[l] + events[n].interval
<1> DEFINE hit == {e \in Expired(l) : e.name = n}
<1>1. \A e \in Expired(l) : e \in Entry /\ events[e.name] \in Event /\ events[e.name] # None
                            /\ at[l] + events[e.name].interval \in Int
  BY DEF Expired, TimerTypes, Entry, Event
<1>2. hit # {} => events[n] \in Event /\ at[l] + events[n].interval \in Int
  BY <1>1, Zenon
<1>3. (hit = {} => events'[n] = events[n]) /\ (hit # {} /\ ~events[n].isTimer => events'[n] = None)
  BY Zenon DEF Check
<1>4. hit # {} /\ events[n].isTimer => events'[n].next = at[l] + events[n].interval
  <2>1. hit # {} /\ events[n].isTimer => events'[n] = [events[n] EXCEPT !.next = at[l] + events[n].interval]
    BY Zenon DEF Check
  <2>2. QED
    BY <1>2, <2>1 DEF Event
<1>5. events[n] = None => hit = {}
  BY Zenon DEF Expired
<1>6. \A e \in Expired(l) : LET f == [e EXCEPT !.time = at[l] + events[e.name].interval]
                           IN  f.name = e.name /\ f.time = at[l] + events[e.name].interval
  BY <1>1, TimeTypes
<1>7. \A f \in timers' : f.name = n =>
         \/ f \in timers /\ f.time > at[l]
         \/ \E e \in hit : /\ events[n].isTimer
                           /\ f = [e EXCEPT !.time = at[l] + events[n].interval]
                           /\ f.time = at[l] + events[n].interval
  <2> SUFFICES ASSUME NEW f \in Reinserted(l), f.name = n
               PROVE  \E e \in hit : /\ events[n].isTimer
                                     /\ f = [e EXCEPT !.time = at[l] + events[n].interval]
                                     /\ f.time = at[l] + events[n].interval
    BY Zenon DEF Check
  <2>1. PICK e \in Expired(l) : events[e.name].isTimer /\ f = [e EXCEPT !.time = at[l] + events[e.name].interval]
    BY Zenon DEF Reinserted
  <2>2. e.name = n
    BY <1>6, <2>1, Zenon
  <2>3. QED
    BY <1>6, <2>1, <2>2, Zenon
<1>8. \A e \in timers : e.name = n /\ e \notin hit /\ events[n] # None => e.time > at[l] /\ e \in timers'
  BY DEF Check, Expired, TimerTypes, Entry
<1>9. \A e \in hit : events[n].isTimer => \E f \in timers' : f.name = n /\ f.time = at[l] + events[n].interval
  BY <1>6, Zenon DEF Check, Reinserted
<1>10. QED
  BY <1>3, <1>4, <1>5, <1>7, <1>8, <1>9, Zenon
-----------------------------------------------------------------------------
\* However adds, deletes and the checks of several loops interleave, every
\* registered event keeps an entry in _timers that is not later than the
\* time it is due.
THEOREM EntryNeverLost == TimerSpec => []NeverLost
<1>1. TimerInit => NeverLost
  BY Zenon DEF TimerInit, NeverLost
<1>2. TimerTypes /\ NeverLost /\ [TimerNext]_timerVars => NeverLost'
  <2> SUFFICES ASSUME TimerTypes, NeverLost, [TimerNext]_timerVars, NEW n \in Names, events'[n] # None
               PROVE  \E e \in timers' : e.name = n /\ e.time <= events'[n].next
    BY Zenon DEF NeverLost
  <2>1. CASE Tick
    <3>1. events[n] # None /\ events'[n].next = Older(events[n].next)
      BY <2>1, TickKeeps, Zenon
    <3>2. PICK e \in timers : e.name = n /\ e.time <= events[n].next
      BY <3>1, Zenon DEF NeverLost
    <3>3. Older(e.time) <= Older(events[n].next)
      BY <3>1, <3>2, OlderKeepsOrder, Zenon DEF TimerTypes, Entry, Event
    <3>4. PICK f \in timers' : f.name = e.name /\ f.time = Older(e.time)
      BY <2>1, TickKeeps, Zenon
    <3>5. QED
      BY <3>1, <3>2, <3>3, <3>4, Zenon
  <2>2. ASSUME NEW c \in Users, AddCommit(c) PROVE \E e \in timers' : e.name = n /\ e.time <= events'[n].next
    <3>1. PICK m \in Names, v \in Event, e \in Entry :
             /\ e.name = m /\ e.time = v.next
             /\ events' = [events EXCEPT ![m] = v] /\ timers' = timers \cup {e}
      BY <2>2, AddCommitAdds
    <3>2. CASE n = m
      BY <3>1, <3>2 DEF TimerTypes, Event
    <3>3. CASE n # m
      BY <3>1, <3>3, Zenon DEF TimerTypes, NeverLost
    <3>4. QED
      BY <3>2, <3>3, Zenon
  <2>3. ASSUME NEW m \in Names, Del(m) PROVE \E e \in timers' : e.name = n /\ e.time <= events'[n].next
    BY <2>3, Zenon DEF Del, TimerTypes, NeverLost
  <2>4. ASSUME NEW l \in Loops, Check(l) PROVE \E e \in timers' : e.name = n /\ e.time <= events'[n].next
    <3> DEFINE hit == {e \in Expired(l) : e.name = n}
    <3>1. CASE hit = {}
      <4>1. events'[n] = events[n]
        BY <2>4, <3>1, CheckKeeps
      <4>2. PICK e \in timers : e.name = n /\ e.time <= events[n].next
        BY <4>1, Zenon DEF NeverLost
      <4>3. e \in timers'
        BY <2>4, <3>1, <4>1, <4>2, CheckKeeps
      <4>4. QED
        BY <4>1, <4>2, <4>3
    <3>2. CASE hit # {}
      <4>1. events[n].isTimer /\ events'[n].next = at[l] + events[n].interval
        BY <2>4, <3>2, CheckKeeps
      <4>2. \E f \in timers' : f.name = n /\ f.time = at[l] + events[n].interval
        BY <2>4, <3>2, <4>1, CheckKeeps
      <4>3. events[n] \in Event /\ at[l] + events[n].interval \in Int
        BY <3>2 DEF Expired, TimerTypes, Event
      <4>4. QED
        BY <4>1, <4>2, <4>3
    <3>3. QED
      BY <3>1, <3>2, Zenon
  <2>5. CASE timers' = timers /\ events' = events
    BY <2>5, Zenon DEF NeverLost
  <2>6. QED
    BY <2>1, <2>2, <2>3, <2>4, <2>5, Zenon
       DEF TimerNext, StartLoop, Stop, AddCall, ThreadStep, LoopTop, CheckStopped,
           RunCallback, CallbacksDone, Wake, timerVars
<1>3. QED
  BY <1>1, <1>2, TimerTypesInit, TimerTypesStep, PTL DEF TimerSpec

-----------------------------------------------------------------------------
\* Every step keeps Single: an addition finds its name unused or marks it reused.
LEMMA SingleStep == TimerTypes /\ Single /\ [TimerNext]_timerVars => Single'
<1> SUFFICES ASSUME TimerTypes, Single, [TimerNext]_timerVars, NEW n \in Names, n \notin reused'
             PROVE  /\ \A e, f \in Named(n)' : e = f
                    /\ \A c, d \in Calls(n)' : c = d
                    /\ Calls(n)' # {} => Named(n)' = {} /\ events'[n] = None
  BY Zenon DEF Single
<1> DEFINE Goal == /\ \A e, f \in Named(n)' : e = f
                   /\ \A c, d \in Calls(n)' : c = d
                   /\ Calls(n)' # {} => Named(n)' = {} /\ events'[n] = None
<1>0. n \notin reused
  BY Zenon DEF TimerNext, StartLoop, Stop, Tick, AddCommit, AddCall, Del, ThreadStep,
               LoopTop, CheckStopped, Check, RunCallback, CallbacksDone, Wake, timerVars
<1>1. /\ \A e, f \in timers : e.name = n /\ f.name = n => e = f
      /\ \A c, d \in Users : call[c] # None /\ call[c].name = n /\ call[d] # None /\ call[d].name = n => c = d
      /\ \A c \in Users : call[c] # None /\ call[c].name = n =>
            events[n] = None /\ \A e \in timers : e.name # n
  BY <1>0 DEF Single, Named, Calls
<1>2. CASE Tick
  <2>1. \A c \in Users : call'[c] # None => call[c] # None /\ call'[c].name = call[c].name
    BY <1>2, TickKeeps, Zenon
  <2>2. \A f \in timers' : \E e \in timers : f = [e EXCEPT !.time = Older(@)] /\ f.name = e.name
    BY <1>2, TickKeeps, Zenon
  <2>3. \A e, f \in Named(n)' : e = f
    BY <1>1, <2>2 DEF Named
  <2>4. events[n] = None => events'[n] = None
    BY <1>2, TickKeeps, Zenon
  <2>5. QED
    BY <1>1, <2>1, <2>2, <2>3, <2>4 DEF Named, Calls
<1>3. ASSUME NEW c \in Users, AddCommit(c) PROVE Goal
  <2>1. PICK m \in Names, v \in Event, e \in Entry :
           /\ call[c] # None /\ call[c].name = m /\ e.name = m
           /\ events' = [events EXCEPT ![m] = v] /\ timers' = timers \cup {e}
           /\ call' = [call EXCEPT ![c] = None]
    BY <1>3, AddCommitAdds
  <2>2. CASE m = n
    BY <1>1, <2>1, <2>2, Zenon DEF Named, Calls, TimerTypes
  <2>3. CASE m # n
    BY <1>1, <2>1, <2>3, Zenon DEF Named, Calls, TimerTypes
  <2>4. QED
    BY <2>2, <2>3, Zenon
<1>4. ASSUME NEW c \in Users, NEW m \in Names, NEW isTimer \in BOOLEAN, NEW delay \in Delays,
             AddCall(c, m, isTimer, delay)
      PROVE  Goal
  <2>1. /\ call[c] = None
        /\ call' = [call EXCEPT ![c] = [name |-> m, isTimer |-> isTimer, delay |-> delay, now |-> 0]]
        /\ timers' = timers /\ events' = events
    BY <1>4, Zenon DEF AddCall
  <2>2. CASE m = n
    <3>1. Unused(n)
      BY <1>4, <2>2, Zenon DEF AddCall
    <3>2. QED
      BY <2>1, <3>1, Zenon DEF Unused, Named, Calls, TimerTypes
  <2>3. CASE m # n
    BY <1>1, <2>1, <2>3 DEF Named, Calls, TimerTypes
  <2>4. QED
    BY <2>2, <2>3, Zenon
<1>5. ASSUME NEW m \in Names, Del(m) PROVE Goal
  BY <1>1, <1>5, Zenon DEF Del, Named, Calls, TimerTypes
<1>6. ASSUME NEW l \in Loops, Check(l) PROVE Goal
  <2> DEFINE hit == {e \in Expired(l) : e.name = n}
  <2>1. hit \subseteq timers /\ \A e \in hit : e.name = n
    BY Zenon DEF Expired
  <2>2. call' = call
    BY <1>6, Zenon DEF Check
  <2>3. \A f \in timers' : f.name = n =>
           \/ f \in timers /\ f.time > at[l]
           \/ \E e \in hit : f = [e EXCEPT !.time = at[l] + events[n].interval]
    BY <1>6, CheckKeeps
  <2>4. \A e \in hit : e.time <= at[l] /\ e.time \in Int /\ at[l] \in Int
    BY Zenon DEF Expired, TimerTypes, Entry
  <2>5. \A e, f \in Named(n)' : e = f
    <3> SUFFICES ASSUME NEW e \in timers', NEW f \in timers', e.name = n, f.name = n PROVE e = f
      BY Zenon DEF Named
    <3>1. CASE hit = {}
      BY <1>1, <2>3, <3>1, Zenon
    <3>2. CASE hit # {}
      <4>1. PICK h \in hit : \A x \in timers : x.name = n => x = h
        BY <1>1, <2>1, <3>2, Zenon
      <4>2. e = [h EXCEPT !.time = at[l] + events[n].interval]
        BY <2>1, <2>3, <2>4, <4>1
      <4>3. f = [h EXCEPT !.time = at[l] + events[n].interval]
        BY <2>1, <2>3, <2>4, <4>1
      <4>4. QED
        BY <4>2, <4>3, Zenon
    <3>3. QED
      BY <3>1, <3>2, Zenon
  <2>6. (\A e \in timers : e.name # n) => Named(n)' = {}
    BY <2>1, <2>3, Zenon DEF Named
  <2>7. events[n] = None => events'[n] = None
    BY <1>6, CheckKeeps, Zenon
  <2>8. QED
    BY <1>1, <2>2, <2>5, <2>6, <2>7 DEF Calls
<1>7. CASE timers' = timers /\ events' = events /\ call' = call
  BY <1>1, <1>7, Zenon DEF Named, Calls
<1>8. QED
  BY <1>2, <1>3, <1>4, <1>5, <1>6, <1>7
     DEF TimerNext, StartLoop, Stop, ThreadStep, LoopTop, CheckStopped, RunCallback, CallbacksDone, Wake, timerVars

\* A name that is used once fires no event before its wait or its interval
\* is over: check() inserts a periodic event again a whole interval later, and
\* a name cannot come back while an old entry or call could meet the new event.
THEOREM NeverEarlyOnce == TimerSpec => []NotEarlyOnce
<1>1. TimerInit => Single /\ NotEarlyOnce
  BY DEF TimerInit, Single, NotEarlyOnce, Named, Calls
<1>2. TimerTypes /\ Single /\ NotEarlyOnce /\ [TimerNext]_timerVars => NotEarlyOnce'
  <2> SUFFICES ASSUME TimerTypes, TimerTypes', Single, NotEarlyOnce, [TimerNext]_timerVars,
                      NEW f \in timers', events'[f.name] # None, f.name \notin reused'
               PROVE  f.time >= events'[f.name].next
    BY TimerTypesStep, Zenon DEF NotEarlyOnce
  <2> DEFINE n == f.name
  <2>1. n \in Names /\ f.time \in Int
    BY Zenon DEF TimerTypes, Entry
  <2>2. n \notin reused
    BY Zenon DEF TimerNext, StartLoop, Stop, Tick, AddCommit, AddCall, Del, ThreadStep,
                 LoopTop, CheckStopped, Check, RunCallback, CallbacksDone, Wake, timerVars
  <2> HIDE DEF n
  <2>3. /\ \A e \in timers, g \in timers : e.name = n /\ g.name = n => e = g
        /\ \A c \in Users : call[c] # None /\ call[c].name = n => \A e \in timers : e.name # n
        /\ events[n] # None => \A e \in timers : e.name = n => e.time >= events[n].next
    BY <2>1, <2>2 DEF Single, Named, Calls, NotEarlyOnce
  <2>4. CASE Tick
    <3>1. events[n] # None /\ events'[n].next = Older(events[n].next)
      BY <2>1, <2>4, TickKeeps, Zenon DEF n
    <3>2. PICK e \in timers : f.name = e.name /\ f.time = Older(e.time)
      BY <2>4, TickKeeps, Zenon
    <3>3. e.time >= events[n].next /\ e.time \in Int /\ events[n].next \in Int
      BY <2>1, <2>3, <3>1, <3>2, Zenon DEF n, TimerTypes, Entry, Event
    <3>4. Older(events[n].next) <= Older(e.time) /\ Older(events[n].next) \in Int /\ Older(e.time) \in Int
      BY <3>3, OlderKeepsOrder
    <3>5. QED
      BY <3>1, <3>2, <3>4, Zenon DEF n
  <2>5. ASSUME NEW c \in Users, AddCommit(c) PROVE f.time >= events'[n].next
    <3>1. PICK m \in Names, v \in Event, e \in Entry :
             /\ call[c] # None /\ call[c].name = m /\ e.name = m /\ e.time = v.next
             /\ events' = [events EXCEPT ![m] = v] /\ timers' = timers \cup {e}
      BY <2>5, AddCommitAdds
    <3>2. CASE m = n
      <4>1. f = e
        BY <2>3, <3>1, <3>2, Zenon DEF n
      <4>2. events'[n] = v
        BY <2>1, <3>1, <3>2, Zenon DEF TimerTypes
      <4>3. QED
        BY <2>1, <3>1, <4>1, <4>2
    <3>3. CASE m # n
      BY <2>1, <2>3, <3>1, <3>3, Zenon DEF n, TimerTypes
    <3>4. QED
      BY <3>2, <3>3, Zenon
  <2>6. ASSUME NEW m \in Names, Del(m) PROVE f.time >= events'[n].next
    BY <2>1, <2>3, <2>6, Zenon DEF n, Del, TimerTypes
  <2>7. ASSUME NEW l \in Loops, Check(l) PROVE f.time >= events'[n].next
    <3> DEFINE hit == {e \in Expired(l) : e.name = n}
    <3>1. hit \subseteq timers /\ \A e \in hit : e.name = n /\ ~(e.time > at[l])
      BY DEF Expired, TimerTypes, Entry
    <3>2. CASE hit = {}
      <4>1. events'[n] = events[n] /\ f \in timers
        BY <2>1, <2>7, <3>2, CheckKeeps DEF n
      <4>2. QED
        BY <2>3, <4>1, Zenon DEF n
    <3>3. CASE hit # {}
      <4>1. events'[n].next = at[l] + events[n].interval /\ events[n] \in Event /\ at[l] \in Int
        <5>1. events[n] \in Event /\ at[l] \in Int
          BY <2>1, <3>3, Zenon DEF Expired, TimerTypes
        <5>2. QED
          BY <2>1, <2>7, <3>3, <5>1, CheckKeeps DEF n
      <4>2. ~(f \in timers /\ f.time > at[l])
        BY <2>3, <3>1, <3>3, Zenon DEF n
      <4>3. f.time = at[l] + events[n].interval
        BY <2>1, <2>7, <4>2, CheckKeeps, Zenon DEF n
      <4>4. QED
        BY <4>1, <4>3, <2>1
    <3>4. QED
      BY <3>2, <3>3, Zenon
  <2>8. CASE timers' = timers /\ events' = events
    BY <2>3, <2>8, Zenon DEF n
  <2>9. QED
    BY <2>4, <2>5, <2>6, <2>7, <2>8, Zenon
       DEF n, TimerNext, StartLoop, Stop, AddCall, ThreadStep, LoopTop, CheckStopped,
           RunCallback, CallbacksDone, Wake, timerVars
<1>3. QED
  BY <1>1, <1>2, TimerTypesInit, TimerTypesStep, SingleStep, PTL DEF TimerSpec
=============================================================================
