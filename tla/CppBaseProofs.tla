--------------------------- MODULE CppBaseProofs ----------------------------
(* Proofs about two parts of cppBase.  TaskScripts, for every set of managers, *)
(* tasks and versions: what the scripts promise of a task's time to live, of   *)
(* the query, of the owners' lists and of the versions.  RingBuffer, for every *)
(* size of the ring: types, the absence of slot races with one producer, and   *)
(* that it implements BoundedQueue.                                            *)
EXTENDS TaskScripts, RingBuffer, TLAPS

Types ==
    /\ task \in [Names -> Task \cup {NoTask}]
    /\ tmTasks \in [Tms -> SUBSET Names]
    /\ allTasks \subseteq Names
    /\ alive \subseteq Tms
    /\ detached \subseteq Names

\* What the fields of one hash say about each other.
Sound(r) ==
    /\ r.opt = 1 <=> r.ttl = "month"
    /\ r.opt = 1 <=> r.appId = OtherApp
    /\ r.tm = NoTm => r.sap = NoSap

\* ... and about the set of all tasks and the lists.
Kept(n, r, all, lists, off) ==
    /\ Sound(r)
    /\ r.opt = 1 => n \in all
    /\ r.tm # NoTm => n \in lists[r.tm] \/ n \in off

TaskInv ==
    \A n \in Names : task[n] # NoTask => Kept(n, task[n], allTasks, tmTasks, detached)

-----------------------------------------------------------------------------
\* The fields of the hash a script writes for a task it does not find.
LEMMA NewTaskType ==
  ASSUME NEW v \in OptVers, NEW opt \in 0 .. 1, NEW app \in {0, OtherApp}, NEW ttl \in {"month", "minute"}
  PROVE  /\ NewTask(v, opt, app, ttl) \in Task
         /\ NewTask(v, opt, app, ttl).opt = opt /\ NewTask(v, opt, app, ttl).ttl = ttl
         /\ NewTask(v, opt, app, ttl).appId = app /\ NewTask(v, opt, app, ttl).tm = NoTm
         /\ NewTask(v, opt, app, ttl).sap = NoSap
BY Zenon DEF NewTask, Task

\* A hash stays one when a field of it is replaced.
LEMMA ExceptType ==
  ASSUME NEW r \in Task
  PROVE  /\ \A x \in OptVers : [r EXCEPT !.optVer = x] \in Task
         /\ \A x \in 0 .. 1 : [r EXCEPT !.opt = x] \in Task
         /\ \A x \in {0, OtherApp} : [r EXCEPT !.appId = x] \in Task
         /\ \A x \in PreStops \cup {0} : [r EXCEPT !.preStop = x] \in Task
         /\ \A x \in Tms \cup {NoTm} : [r EXCEPT !.tm = x] \in Task
         /\ \A x \in Saps \cup {NoSap} : [r EXCEPT !.sap = x] \in Task
         /\ \A x \in Nat : [r EXCEPT !.ver = x] \in Task
         /\ \A x \in {"month", "minute"} : [r EXCEPT !.ttl = x] \in Task
BY Zenon DEF Task

\* The fields start_task.lua leaves in a hash it finds.
LEMMA RestartedFields ==
  ASSUME NEW r \in Task, NEW v \in OptVers
  PROVE  /\ Restarted(r, v) \in Task
         /\ Restarted(r, v).opt = 1 /\ Restarted(r, v).ttl = "month" /\ Restarted(r, v).appId = OtherApp
         /\ Restarted(r, v).tm = r.tm /\ Restarted(r, v).sap = r.sap
         /\ Restarted(r, v).optVer = v /\ Restarted(r, v).ver = r.ver
<1>1. 1 \in 0 .. 1 /\ OtherApp \in {0, OtherApp} /\ 0 \in PreStops \cup {0} /\ "month" \in {"month", "minute"}
  OBVIOUS
<1>2. Restarted(r, v) \in Task
  BY <1>1, ExceptType, Zenon DEF Restarted
<1>3. QED
  BY <1>2, Zenon DEF Restarted, Task

\* The hash StopTask leaves of r.
Stopped(r, v) == [r EXCEPT !.opt = 0, !.appId = 0, !.preStop = 0, !.ttl = "minute", !.optVer = v]

\* The fields stop_task.lua leaves in a hash it finds.
LEMMA StoppedFields ==
  ASSUME NEW r \in Task, NEW v \in OptVers
  PROVE  /\ Stopped(r, v) \in Task
         /\ Stopped(r, v).opt = 0 /\ Stopped(r, v).ttl = "minute" /\ Stopped(r, v).appId = 0
         /\ Stopped(r, v).tm = r.tm /\ Stopped(r, v).sap = r.sap
         /\ Stopped(r, v).optVer = v /\ Stopped(r, v).ver = r.ver
<1>1. 0 \in 0 .. 1 /\ 0 \in {0, OtherApp} /\ 0 \in PreStops \cup {0} /\ "minute" \in {"month", "minute"}
  OBVIOUS
<1>2. Stopped(r, v) \in Task
  BY <1>1, ExceptType, Zenon DEF Stopped
<1>3. QED
  BY <1>2, Zenon DEF Stopped, Task

\* Taking a task over changes its owner and its version and nothing else.
LEMMA TakenFields ==
  ASSUME NEW r \in Task, NEW t \in Tms, NEW s, s = [r EXCEPT !.tm = t, !.ver = @ + 1]
  PROVE  /\ s \in Task /\ s.tm = t /\ s.opt = r.opt /\ s.ttl = r.ttl /\ s.appId = r.appId
         /\ s.optVer = r.optVer /\ s.ver = r.ver + 1
<1>1. r.ver + 1 \in Nat /\ t \in Tms \cup {NoTm}
  BY DEF Task
<1>2. s \in Task
  BY <1>1, ExceptType, Zenon
<1>3. QED
  BY <1>2, Zenon DEF Task

\* What SetTask leaves of a hash: all fields but ver, and the other hashes.
LEMMA SetTaskFields ==
  ASSUME Types, NEW n \in Names, NEW new \in Task, SetTask(n, new)
  PROVE  /\ task' \in [Names -> Task \cup {NoTask}]
         /\ task'[n] \in Task /\ task'[n] # NoTask
         /\ task'[n].opt = new.opt /\ task'[n].ttl = new.ttl /\ task'[n].appId = new.appId
         /\ task'[n].tm = new.tm /\ task'[n].sap = new.sap /\ task'[n].optVer = new.optVer
         /\ task'[n].ver = new.ver + 1
         /\ \A m \in Names \ {n} : task'[m] = task[m]
<1>1. task'[n] = [new EXCEPT !.ver = @ + 1]
  BY Zenon DEF SetTask, Types
<1>2. [new EXCEPT !.ver = @ + 1] \in Task
  BY DEF Task
<1>3. task' \in [Names -> Task \cup {NoTask}]
  BY <1>2, Zenon DEF SetTask, Types
<1>4. task'[n] # NoTask
  BY <1>1, <1>2, TaskAssumption, Zenon
<1>5. \A m \in Names \ {n} : task'[m] = task[m]
  BY Zenon DEF SetTask, Types
<1>6. QED
  BY <1>1, <1>2, <1>3, <1>4, <1>5, Zenon DEF Task

\* The invariant survives a script that sets one hash, whatever it is, when
\* the new hash is sound and the script disturbs no other task.
LEMMA SetTaskKeeps ==
  ASSUME Types, TaskInv, NEW n \in Names, NEW new \in Task, SetTask(n, new),
         allTasks' \subseteq Names, detached' \subseteq Names, alive' = alive,
         tmTasks' \in [Tms -> SUBSET Names],
         allTasks \ {n} \subseteq allTasks', detached \ {n} \subseteq detached',
         \A t \in Tms : tmTasks[t] \ {n} \subseteq tmTasks'[t],
         Sound(new), new.opt = 1 => n \in allTasks',
         new.tm # NoTm => n \in tmTasks'[new.tm] \/ n \in detached'
  PROVE  Types' /\ TaskInv'
<1>1. Types'
  BY SetTaskFields, Zenon DEF Types
<1>2. Kept(n, task'[n], allTasks', tmTasks', detached')
  BY SetTaskFields DEF Kept, Sound
<1>3. ASSUME NEW m \in Names \ {n}, task[m] # NoTask
      PROVE  Kept(m, task[m], allTasks', tmTasks', detached')
  <2>1. Kept(m, task[m], allTasks, tmTasks, detached) /\ task[m] \in Task
    BY <1>3, Zenon DEF TaskInv, Types
  <2>2. task[m].tm \in Tms \cup {NoTm}
    BY <2>1, Zenon DEF Task
  <2>3. QED
    BY <2>1, <2>2, Zenon DEF Kept
<1>4. \A m \in Names : task'[m] # NoTask => Kept(m, task'[m], allTasks', tmTasks', detached')
  BY <1>2, <1>3, SetTaskFields
<1>5. QED
  BY <1>1, <1>4, Zenon DEF TaskInv

\* start_task.lua keeps the invariant.
LEMMA StartKeeps ==
  ASSUME Types, TaskInv, NEW me \in Tms, NEW n \in Names, NEW v \in OptVers, NEW cmd, NEW idle \in BOOLEAN,
         StartTask(me, n, v, cmd, idle)
  PROVE  Types' /\ TaskInv'
<1> DEFINE old == IF Exists(n) THEN Restarted(task[n], v) ELSE NewTask(v, 1, OtherApp, "month")
           claim == old.tm = NoTm /\ idle
           new == [old EXCEPT !.tm = IF claim THEN me ELSE @]
<1>1. /\ old \in Task /\ old.opt = 1 /\ old.ttl = "month" /\ old.appId = OtherApp
      /\ old.tm = NoTm => old.sap = NoSap
      /\ old.tm # NoTm => n \in tmTasks[old.tm] \/ n \in detached
  <2>1. CASE Exists(n)
    <3>1. task[n] \in Task /\ Kept(n, task[n], allTasks, tmTasks, detached)
      BY <2>1, Zenon DEF Exists, Types, TaskInv
    <3>2. old = Restarted(task[n], v)
      BY <2>1, Zenon
    <3>3. /\ old \in Task /\ old.opt = 1 /\ old.ttl = "month" /\ old.appId = OtherApp
          /\ old.tm = task[n].tm /\ old.sap = task[n].sap
      BY <3>1, <3>2, RestartedFields
    <3>4. QED
      BY <3>1, <3>3, Zenon DEF Kept, Sound
  <2>2. CASE ~Exists(n)
    BY <2>2, NewTaskType
  <2>3. QED
    BY <2>1, <2>2, Zenon
<1>2. /\ new \in Task /\ new.opt = 1 /\ new.ttl = "month" /\ new.appId = OtherApp /\ new.sap = old.sap
      /\ new.tm = IF claim THEN me ELSE old.tm
  BY <1>1, Zenon DEF Task
<1> HIDE DEF new, old
<1>3. Sound(new)
  BY <1>1, <1>2, TmAssumption, Zenon DEF Sound
<1>4. SetTask(n, new) /\ allTasks' = allTasks \cup {n} /\ alive' = alive
  BY Zenon DEF StartTask, new, old
<1>5. CASE claim
  <2>1. tmTasks' = [tmTasks EXCEPT ![me] = @ \cup {n}] /\ detached' = detached \ {n} /\ new.tm = me
    BY <1>2, <1>5, Zenon DEF StartTask, old, Listed
  <2>2. /\ tmTasks' \in [Tms -> SUBSET Names] /\ n \in tmTasks'[me]
        /\ \A t \in Tms : tmTasks[t] \ {n} \subseteq tmTasks'[t]
    BY <2>1, Zenon DEF Types
  <2>3. QED
    BY <1>2, <1>3, <1>4, <2>1, <2>2, SetTaskKeeps DEF Types
<1>6. CASE ~claim
  <2>1. tmTasks' = tmTasks /\ detached' = detached /\ new.tm = old.tm
    BY <1>2, <1>6, Zenon DEF StartTask, old
  <2>2. QED
    BY <1>1, <1>2, <1>3, <1>4, <2>1, SetTaskKeeps, Zenon DEF Types
<1>7. QED
  BY <1>5, <1>6, Zenon

\* pre_stop_task.lua keeps the invariant.
LEMMA PreStopKeeps ==
  ASSUME Types, TaskInv, NEW me \in Tms, NEW n \in Names, NEW v \in OptVers, NEW cmd, NEW internal \in BOOLEAN,
         NEW r \in PreStops, PreStopTask(me, n, v, cmd, internal, r)
  PROVE  Types' /\ TaskInv'
<1> DEFINE now == [task[n] EXCEPT !.preStop = IF @ # 0 THEN @ ELSE r]
           later == [now EXCEPT !.optVer = v]
<1>1. UNCHANGED <<tmTasks, allTasks, alive, detached>>
  BY Zenon DEF PreStopTask
<1>2. CASE Exists(n)
  <2>1. task[n] \in Task /\ Kept(n, task[n], allTasks, tmTasks, detached)
    BY <1>2, Zenon DEF Exists, Types, TaskInv
  <2>2. /\ now \in Task /\ now.opt = task[n].opt /\ now.ttl = task[n].ttl /\ now.appId = task[n].appId
        /\ now.tm = task[n].tm /\ now.sap = task[n].sap
    BY <2>1, PreStopAssumption, Zenon DEF Task
  <2>3. /\ later \in Task /\ later.opt = task[n].opt /\ later.ttl = task[n].ttl
        /\ later.appId = task[n].appId /\ later.tm = task[n].tm /\ later.sap = task[n].sap
    BY <2>2, Zenon DEF Task
  <2> HIDE DEF now
  <2>4. SetTask(n, now) \/ SetTask(n, later)
    BY <1>2, Zenon DEF PreStopTask, now
  <2> HIDE DEF later
  <2>5. Sound(now) /\ Sound(later)
    BY <2>1, <2>2, <2>3, Zenon DEF Kept, Sound
  <2>6. CASE SetTask(n, now)
    BY <1>1, <2>1, <2>2, <2>5, <2>6, SetTaskKeeps, Zenon DEF Types, Kept
  <2>7. CASE SetTask(n, later)
    BY <1>1, <2>1, <2>3, <2>5, <2>7, SetTaskKeeps, Zenon DEF Types, Kept
  <2>8. QED
    BY <2>4, <2>6, <2>7, Zenon
<1>3. CASE ~Exists(n)
  <2> DEFINE new == NewTask(v, 0, 0, "minute")
  <2>1. SetTask(n, new)
    BY <1>3, Zenon DEF PreStopTask
  <2>2. new \in Task /\ new.opt = 0 /\ new.ttl = "minute" /\ new.appId = 0 /\ new.tm = NoTm /\ new.sap = NoSap
    BY NewTaskType
  <2> HIDE DEF new
  <2>3. Sound(new)
    BY <2>2 DEF Sound, OtherApp
  <2>4. QED
    BY <1>1, <2>1, <2>2, <2>3, SetTaskKeeps DEF Types
<1>4. QED
  BY <1>2, <1>3, Zenon

\* Wiping the owner of a hash keeps it sound and takes it off every list's duty.
LEMMA DisownedFields ==
  ASSUME NEW r \in Task
  PROVE  /\ Disowned(r) \in Task
         /\ Disowned(r).opt = r.opt /\ Disowned(r).ttl = r.ttl /\ Disowned(r).appId = r.appId
         /\ Disowned(r).optVer = r.optVer /\ Disowned(r).ver = r.ver
         /\ Disowned(r).tm = NoTm /\ Disowned(r).sap = NoSap
BY Zenon DEF Disowned, Task

\* A script that wipes the owner and takes the task off its own list
LEMMA DisownKeeps ==
  ASSUME Types, TaskInv, NEW me \in Tms, NEW n \in Names, NEW r \in Task, r.opt = 1 <=> r.ttl = "month",
         r.opt = 1 <=> r.appId = OtherApp, SetTask(n, Disowned(r)), Delisted(me, n),
         detached' = detached \ {n}, alive' = alive, allTasks' \subseteq Names,
         allTasks \ {n} \subseteq allTasks', r.opt = 1 => n \in allTasks'
  PROVE  Types' /\ TaskInv'
<1>1. Sound(Disowned(r)) /\ Disowned(r) \in Task /\ Disowned(r).tm = NoTm /\ Disowned(r).opt = r.opt
  BY DisownedFields, Zenon DEF Sound
<1>2. /\ tmTasks' \in [Tms -> SUBSET Names]
      /\ \A t \in Tms : tmTasks[t] \ {n} \subseteq tmTasks'[t]
  BY Zenon DEF Delisted, Types
<1>3. QED
  BY <1>1, <1>2, SetTaskKeeps, Zenon DEF Types

\* stop_task.lua keeps the invariant.
LEMMA StopKeeps ==
  ASSUME Types, TaskInv, NEW me \in Tms, NEW n \in Names, NEW v \in OptVers, NEW cmd, NEW internal \in BOOLEAN,
         StopTask(me, n, v, cmd, internal)
  PROVE  Types' /\ TaskInv'
<1> DEFINE stopped == [task[n] EXCEPT !.opt = 0, !.appId = 0, !.preStop = 0, !.ttl = "minute",
                                      !.optVer = IF internal THEN @ ELSE v]
           new == IF Exists(n) THEN stopped ELSE NewTask(v, 0, 0, "minute")
           mine == new.tm = me
<1>1. /\ new \in Task /\ new.opt = 0 /\ new.ttl = "minute" /\ new.appId = 0
      /\ new.tm = NoTm => new.sap = NoSap
      /\ new.tm # NoTm => n \in tmTasks[new.tm] \/ n \in detached
  <2>1. CASE Exists(n)
    <3>1. task[n] \in Task /\ Kept(n, task[n], allTasks, tmTasks, detached)
      BY <2>1, Zenon DEF Exists, Types, TaskInv
    <3>2. /\ stopped \in Task /\ stopped.opt = 0 /\ stopped.ttl = "minute" /\ stopped.appId = 0
          /\ stopped.tm = task[n].tm /\ stopped.sap = task[n].sap
      <4>1. stopped = Stopped(task[n], IF internal THEN task[n].optVer ELSE v)
        BY <3>1, Zenon DEF Stopped, Task
      <4>2. (IF internal THEN task[n].optVer ELSE v) \in OptVers
        BY <3>1, Zenon DEF Task
      <4> HIDE DEF stopped
      <4>3. QED
        BY <3>1, <4>1, <4>2, StoppedFields
    <3>3. new = stopped
      BY <2>1, Zenon
    <3> HIDE DEF stopped, new
    <3>4. QED
      BY <3>1, <3>2, <3>3, Zenon DEF Kept, Sound
  <2>2. CASE ~Exists(n)
    BY <2>2, NewTaskType
  <2>3. QED
    BY <2>1, <2>2, Zenon
<1> HIDE DEF new
<1>2. allTasks' = allTasks \ {n} /\ alive' = alive
  BY Zenon DEF StopTask
<1>3. CASE mine
  <2>1. SetTask(n, Disowned(new)) /\ Delisted(me, n) /\ detached' = detached \ {n}
    BY <1>3, Zenon DEF StopTask, new
  <2>2. (new.opt = 1 <=> new.ttl = "month") /\ (new.opt = 1 <=> new.appId = OtherApp)
    BY <1>1 DEF OtherApp
  <2>3. QED
    BY <1>1, <1>2, <2>1, <2>2, DisownKeeps, Zenon DEF Types
<1>4. CASE ~mine
  <2>1. SetTask(n, new) /\ tmTasks' = tmTasks /\ detached' = detached
    BY <1>4, Zenon DEF StopTask, new
  <2>2. Sound(new)
    BY <1>1 DEF Sound, OtherApp
  <2>3. QED
    BY <1>1, <1>2, <2>1, <2>2, SetTaskKeeps DEF Types
<1>5. QED
  BY <1>3, <1>4, Zenon

\* Taking one task, as the two preempt scripts do, keeps the invariant.
LEMMA PreemptKeeps ==
  ASSUME Types, TaskInv, NEW me \in Tms, NEW n \in Names, NEW from, PreemptTask(me, n, from)
  PROVE  Types' /\ TaskInv'
<1> DEFINE new == [task[n] EXCEPT !.tm = me]
<1>1. task[n] \in Task /\ Kept(n, task[n], allTasks, tmTasks, detached)
  BY Zenon DEF PreemptTask, Exists, Types, TaskInv
<1>2. /\ new \in Task /\ new.opt = task[n].opt /\ new.ttl = task[n].ttl /\ new.appId = task[n].appId
      /\ new.tm = me
  BY <1>1, Zenon DEF Task
<1>3. SetTask(n, new)
  BY Zenon DEF PreemptTask
<1> HIDE DEF new
<1>4. Sound(new)
  BY <1>1, <1>2, TmAssumption, Zenon DEF Kept, Sound
<1>5. /\ tmTasks' = [tmTasks EXCEPT ![me] = @ \cup {n}] /\ detached' = detached \ {n}
      /\ allTasks' = allTasks /\ alive' = alive
  BY Zenon DEF PreemptTask, Listed
<1>6. /\ tmTasks' \in [Tms -> SUBSET Names] /\ n \in tmTasks'[me]
      /\ \A t \in Tms : tmTasks[t] \ {n} \subseteq tmTasks'[t]
  BY <1>5, Zenon DEF Types
<1>7. QED
  BY <1>1, <1>2, <1>3, <1>4, <1>5, <1>6, SetTaskKeeps, Zenon DEF Types, Kept

\* preempt_tm_task.lua keeps the invariant, whichever tasks it takes.
LEMMA PreemptTmKeeps ==
  ASSUME Types, TaskInv, NEW me \in Tms, NEW old \in Tms, NEW d, PreemptTmTask(me, old, d)
  PROVE  Types' /\ TaskInv'
<1> DEFINE taking(n) == [task[n] EXCEPT !.tm = me, !.ver = @ + 1]
<1>1. PICK taken \in SUBSET {n \in tmTasks[old] : Owner(n) = old /\ Running(n)} :
         /\ task' = [n \in Names |-> IF n \in taken THEN taking(n) ELSE task[n]]
         /\ tmTasks' = [tmTasks EXCEPT ![me] = @ \cup taken]
         /\ detached' = detached \ taken
         /\ UNCHANGED <<allTasks, alive>>
  BY Zenon DEF PreemptTmTask
<1>2. taken \subseteq Names
  BY <1>1, Zenon DEF Types
<1>3. ASSUME NEW n \in taken
      PROVE  /\ taking(n) \in Task /\ taking(n) # NoTask /\ taking(n).tm = me
             /\ taking(n).opt = task[n].opt /\ taking(n).ttl = task[n].ttl /\ taking(n).appId = task[n].appId
             /\ Kept(n, task[n], allTasks, tmTasks, detached)
  <2>1. task[n] \in Task /\ Kept(n, task[n], allTasks, tmTasks, detached)
    BY <1>1, <1>2, <1>3, Zenon DEF Running, Exists, Types, TaskInv
  <2>2. taking(n) \in Task
    BY <2>1, TakenFields, Zenon
  <2>3. taking(n) # NoTask
    BY <2>2, TaskAssumption, Zenon
  <2>4. /\ taking(n).tm = me /\ taking(n).opt = task[n].opt /\ taking(n).ttl = task[n].ttl
        /\ taking(n).appId = task[n].appId
    BY <2>1, Zenon DEF Task
  <2>5. QED
    BY <2>1, <2>2, <2>3, <2>4, Zenon
<1> HIDE DEF taking
<1>4. task' \in [Names -> Task \cup {NoTask}]
  BY <1>1, <1>3, Zenon DEF Types
<1>5. tmTasks' \in [Tms -> SUBSET Names] /\ taken \subseteq tmTasks'[me]
      /\ \A t \in Tms : tmTasks[t] \subseteq tmTasks'[t]
  BY <1>1, <1>2, Zenon DEF Types
<1>6. Types'
  BY <1>1, <1>4, <1>5, Zenon DEF Types
<1>7. ASSUME NEW n \in Names, task'[n] # NoTask PROVE Kept(n, task'[n], allTasks', tmTasks', detached')
  <2>1. CASE n \in taken
    <3>1. task'[n] = taking(n)
      BY <1>1, <2>1, Zenon
    <3>2. QED
      BY <1>1, <1>3, <1>5, <2>1, <3>1, TmAssumption DEF Kept, Sound
  <2>2. CASE n \notin taken
    <3>1. task'[n] = task[n]
      BY <1>1, <2>2, Zenon
    <3>2. task[n] \in Task /\ Kept(n, task[n], allTasks, tmTasks, detached)
      BY <1>7, <3>1, Zenon DEF Types, TaskInv
    <3>3. task[n].tm \in Tms \cup {NoTm}
      BY <3>2, Zenon DEF Task
    <3>4. QED
      BY <1>1, <1>5, <2>2, <3>1, <3>2, <3>3, Zenon DEF Kept
  <2>3. QED
    BY <2>1, <2>2, Zenon
<1>8. QED
  BY <1>6, <1>7, Zenon DEF TaskInv

\* audit_task.lua keeps the invariant.
LEMMA AuditKeeps ==
  ASSUME Types, TaskInv, NEW me \in Tms, NEW n \in Names, AuditTask(me, n)
  PROVE  Types' /\ TaskInv'
<1>1. allTasks' = allTasks /\ alive' = alive
  BY Zenon DEF AuditTask
<1>2. Owner(n) = me => task[n] \in Task /\ Kept(n, task[n], allTasks, tmTasks, detached) /\ task[n].tm = me
  BY TmAssumption, Zenon DEF Owner, Exists, Types, TaskInv
<1>3. CASE Owner(n) = me /\ task[n].opt = 0
  <2>1. SetTask(n, Disowned(task[n])) /\ Delisted(me, n) /\ detached' = detached \ {n}
    BY <1>3 DEF AuditTask
  <2>2. QED
    BY <1>1, <1>2, <1>3, <2>1, DisownKeeps, Zenon DEF Types, Kept, Sound
<1>4. CASE Owner(n) = me /\ task[n].opt = 1
  <2>1. tmTasks' = [tmTasks EXCEPT ![me] = @ \cup {n}] /\ detached' = detached \ {n} /\ task' = task
    BY <1>4 DEF AuditTask, Listed
  <2>2. /\ tmTasks' \in [Tms -> SUBSET Names] /\ n \in tmTasks'[me]
        /\ \A t \in Tms : tmTasks[t] \subseteq tmTasks'[t]
    BY <2>1, Zenon DEF Types
  <2>3. Types'
    BY <1>1, <2>1, <2>2, Zenon DEF Types
  <2>4. ASSUME NEW m \in Names, task[m] # NoTask PROVE Kept(m, task[m], allTasks', tmTasks', detached')
    <3>1. task[m] \in Task /\ Kept(m, task[m], allTasks, tmTasks, detached)
      BY <2>4, Zenon DEF Types, TaskInv
    <3>2. task[m].tm \in Tms \cup {NoTm}
      BY <3>1, Zenon DEF Task
    <3>3. QED
      BY <1>1, <1>2, <1>4, <2>1, <2>2, <3>1, <3>2, Zenon DEF Kept
  <2>5. QED
    BY <2>1, <2>3, <2>4, Zenon DEF TaskInv
<1>5. CASE Owner(n) # me
  <2>1. tmTasks' = [tmTasks EXCEPT ![me] = @ \ {n}] /\ detached' = detached /\ task' = task
    BY <1>5, Zenon DEF AuditTask, Delisted
  <2>2. /\ tmTasks' \in [Tms -> SUBSET Names]
        /\ \A t \in Tms : tmTasks[t] \ {n} \subseteq tmTasks'[t]
        /\ \A t \in Tms \ {me} : tmTasks'[t] = tmTasks[t]
    BY <2>1, Zenon DEF Types
  <2>3. Types'
    BY <1>1, <2>1, <2>2, Zenon DEF Types
  <2>4. ASSUME NEW m \in Names, task[m] # NoTask PROVE Kept(m, task[m], allTasks', tmTasks', detached')
    <3>1. task[m] \in Task /\ Kept(m, task[m], allTasks, tmTasks, detached)
      BY <2>4, Zenon DEF Types, TaskInv
    <3>2. task[m].tm \in Tms \cup {NoTm} /\ (m = n => task[m].tm # me)
      BY <1>5, <2>4, <3>1, Zenon DEF Task, Owner, Exists
    <3>3. QED
      BY <1>1, <2>1, <2>2, <3>1, <3>2, Zenon DEF Kept
  <2>5. QED
    BY <2>1, <2>3, <2>4, Zenon DEF TaskInv
<1>6. QED
  BY <1>3, <1>4, <1>5, Zenon DEF AuditTask

\* on_tm_notify_update.lua keeps the invariant.
LEMMA NotifyUpdateKeeps ==
  ASSUME Types, TaskInv, NEW me \in Tms, NEW n \in Names, OnTmNotifyUpdate(me, n)
  PROVE  Types' /\ TaskInv'
<1>1. task[n] \in Task /\ Kept(n, task[n], allTasks, tmTasks, detached)
  BY Zenon DEF OnTmNotifyUpdate, Exists, Types, TaskInv
<1>2. QED
  BY <1>1, DisownKeeps, Zenon DEF OnTmNotifyUpdate, Types, Kept, Sound

\* load_all_task.lua keeps the invariant, whichever tasks it takes.
LEMMA LoadAllKeeps ==
  ASSUME Types, TaskInv, NEW me \in Tms, LoadAllTask(me)
  PROVE  Types' /\ TaskInv'
<1> DEFINE mine == {n \in tmTasks[me] : Owner(n) = me}
           running == {n \in mine : task[n].opt = 1}
           counted(n) == [task[n] EXCEPT !.ver = @ + 1]
<1>1. /\ task' = [n \in Names |-> IF n \in mine THEN counted(n) ELSE task[n]]
      /\ tmTasks' = [tmTasks EXCEPT ![me] = running]
      /\ detached' = detached \cup (mine \ running)
      /\ UNCHANGED <<allTasks, alive>>
  BY Zenon DEF LoadAllTask
<1>2. mine \subseteq Names /\ running \subseteq mine
  BY Zenon DEF Types
<1>3. ASSUME NEW n \in mine
      PROVE  /\ counted(n) \in Task /\ task[n].tm = me /\ counted(n).tm = me /\ counted(n).opt = task[n].opt
             /\ counted(n).ttl = task[n].ttl /\ counted(n).appId = task[n].appId /\ counted(n).sap = task[n].sap
             /\ task[n] \in Task /\ Kept(n, task[n], allTasks, tmTasks, detached)
  <2>1. task[n] \in Task /\ Kept(n, task[n], allTasks, tmTasks, detached) /\ task[n].tm = me
    BY <1>2, <1>3, TmAssumption, Zenon DEF Owner, Exists, Types, TaskInv
  <2>2. QED
    BY <2>1 DEF Task
<1>4. ASSUME NEW n \in Names, n \notin mine, task[n] # NoTask, task[n].tm = me PROVE n \in detached
  BY <1>4, TmAssumption, Zenon DEF TaskInv, Kept, Owner, Exists
<1> HIDE DEF counted, mine, running
<1>5. Types'
  BY <1>1, <1>2, <1>3, Zenon DEF Types
<1>6. \A t \in Tms \ {me} : tmTasks'[t] = tmTasks[t]
  BY <1>1, Zenon DEF Types
<1>7. tmTasks'[me] = running
  BY <1>1, Zenon DEF Types
<1>8. ASSUME NEW n \in Names, task'[n] # NoTask PROVE Kept(n, task'[n], allTasks', tmTasks', detached')
  <2>1. CASE n \in mine
    <3>1. task'[n] = counted(n)
      BY <1>1, <2>1, Zenon
    <3>2. n \in tmTasks'[me] \/ n \in detached'
      BY <1>1, <1>7, <2>1, Zenon
    <3>3. QED
      BY <1>1, <1>3, <2>1, <3>1, <3>2, Zenon DEF Kept, Sound
  <2>2. CASE n \notin mine
    <3>1. task'[n] = task[n]
      BY <1>1, <2>2, Zenon
    <3>2. task[n] \in Task /\ Kept(n, task[n], allTasks, tmTasks, detached)
      BY <1>8, <3>1, Zenon DEF Types, TaskInv
    <3>3. task[n].tm \in Tms \cup {NoTm}
      BY <3>2, Zenon DEF Task
    <3>4. task[n].tm # NoTm => n \in tmTasks'[task[n].tm] \/ n \in detached'
      BY <1>1, <1>4, <1>6, <1>8, <2>2, <3>1, <3>2, <3>3, Zenon DEF Kept
    <3>5. QED
      BY <1>1, <3>1, <3>2, <3>4, Zenon DEF Kept
  <2>3. QED
    BY <2>1, <2>2, Zenon
<1>9. QED
  BY <1>5, <1>8, Zenon DEF TaskInv

\* update_task_sap.lua keeps the invariant.
LEMMA UpdateSapKeeps ==
  ASSUME Types, TaskInv, NEW me \in Tms, NEW n \in Names, NEW tm \in Tms, NEW sap \in Saps \cup {NoSap},
         UpdateTaskSap(me, n, tm, sap)
  PROVE  Types' /\ TaskInv'
<1> DEFINE new == [task[n] EXCEPT !.tm = tm, !.sap = sap]
<1>1. task[n] \in Task /\ Kept(n, task[n], allTasks, tmTasks, detached)
  BY TmAssumption, Zenon DEF UpdateTaskSap, Owner, Exists, Types, TaskInv
<1>2. /\ new \in Task /\ new.opt = task[n].opt /\ new.ttl = task[n].ttl /\ new.appId = task[n].appId
      /\ new.tm = tm
  BY <1>1, Zenon DEF Task
<1>3. SetTask(n, new)
  BY Zenon DEF UpdateTaskSap
<1> HIDE DEF new
<1>4. Sound(new)
  BY <1>1, <1>2, TmAssumption, Zenon DEF Kept, Sound
<1>5. /\ UNCHANGED <<tmTasks, allTasks, alive>>
      /\ detached' = IF n \in tmTasks[tm] THEN detached \ {n} ELSE detached \cup {n}
  BY Zenon DEF UpdateTaskSap
<1>6. QED
  BY <1>1, <1>2, <1>3, <1>4, <1>5, SetTaskKeeps, Zenon DEF Types, Kept

\* The expiry of a key keeps the invariant: the lists may name what is gone.
LEMMA ExpireKeeps ==
  ASSUME Types, TaskInv, NEW n \in Names, Expire(n)
  PROVE  Types' /\ TaskInv'
<1>1. /\ task' \in [Names -> Task \cup {NoTask}] /\ task'[n] = NoTask
      /\ \A m \in Names \ {n} : task'[m] = task[m]
  BY Zenon DEF Expire, Types
<1>2. UNCHANGED <<tmTasks, allTasks, alive>> /\ detached' = detached \ {n}
  BY Zenon DEF Expire
<1>3. ASSUME NEW m \in Names, task'[m] # NoTask PROVE Kept(m, task'[m], allTasks', tmTasks', detached')
  <2>1. m # n /\ task'[m] = task[m] /\ Kept(m, task[m], allTasks, tmTasks, detached)
    BY <1>1, <1>3, Zenon DEF TaskInv
  <2>2. QED
    BY <1>2, <2>1, Zenon DEF Kept
<1>4. QED
  BY <1>1, <1>2, <1>3, Zenon DEF Types, TaskInv

-----------------------------------------------------------------------------
\* The invariant holds of an empty store.
LEMMA InvInit == Init => Types /\ TaskInv
BY Zenon DEF Init, Types, TaskInv

\* Every script, expiry, crash and restart keeps the invariant.
LEMMA InvStep == Types /\ TaskInv /\ [Next]_vars => Types' /\ TaskInv'
<1> SUFFICES ASSUME Types, TaskInv, [Next]_vars PROVE Types' /\ TaskInv'
  BY Zenon
<1>1. ASSUME NEW me \in Tms, NEW n \in Names, Command(me, n) PROVE Types' /\ TaskInv'
  BY <1>1, StartKeeps, StopKeeps, PreStopKeeps, Zenon DEF Command
<1>2. ASSUME NEW me \in Tms, NEW n \in Names, Manage(me, n) PROVE Types' /\ TaskInv'
  <2>1. CASE AuditTask(me, n)
    BY <2>1, AuditKeeps, Zenon
  <2>2. CASE OnTmNotifyUpdate(me, n)
    BY <2>2, NotifyUpdateKeeps, Zenon
  <2>3. ASSUME NEW from, PreemptTask(me, n, from) PROVE Types' /\ TaskInv'
    BY <2>3, PreemptKeeps, Zenon
  <2>4. ASSUME NEW tm \in Tms, NEW sap \in Saps \cup {NoSap}, UpdateTaskSap(me, n, tm, sap) PROVE Types' /\ TaskInv'
    BY <2>4, UpdateSapKeeps, Zenon
  <2>5. QED
    BY <1>2, <2>1, <2>2, <2>3, <2>4, Zenon
    DEF Manage, OnTmNotifyControl, PostponedPreemptTask, LoadbalancePreemptTask
<1>3. ASSUME NEW me \in Tms, NEW old \in Tms, NEW d \in Denominators, PreemptTmTask(me, old, d)
      PROVE  Types' /\ TaskInv'
  BY <1>3, PreemptTmKeeps, Zenon
<1>4. ASSUME NEW me \in Tms, LoadAllTask(me) PROVE Types' /\ TaskInv'
  BY <1>4, LoadAllKeeps, Zenon
<1>5. ASSUME NEW n \in Names, Expire(n) PROVE Types' /\ TaskInv'
  BY <1>5, ExpireKeeps, Zenon
<1>6. ASSUME NEW t \in Tms, Crash(t) \/ Restart(t) PROVE Types' /\ TaskInv'
  BY <1>6, Zenon DEF Crash, Restart, Types, TaskInv
<1>7. CASE UNCHANGED vars
  BY <1>7, Zenon DEF vars, Types, TaskInv
<1>8. QED
  BY <1>1, <1>2, <1>3, <1>4, <1>5, <1>6, <1>7, Zenon DEF Next

\* In every state the scripts reach, the fields of each hash agree with each
\* other, with the set of all tasks and with the lists of the managers.
THEOREM TaskInvariant == Spec => [](Types /\ TaskInv)
BY InvInit, InvStep, PTL DEF Spec

\* A running task has the long time to live and a stopped one the short one:
\* EXPIRE in start_task.lua and stop_task.lua goes with the write of opt.
THEOREM TtlFollowsOpt == Spec => []StoppedExpires
<1>1. Types /\ TaskInv => StoppedExpires
  BY Zenon DEF TaskInv, Kept, Sound, StoppedExpires, Exists, Running
<1>2. QED
  BY <1>1, TaskInvariant, PTL

\* query_tasks.lua answers with exactly the running tasks.
THEOREM QueryExact == Spec => []QueryIsExact
<1>1. Types /\ TaskInv => QueryIsExact
  BY Zenon DEF TaskInv, Kept, Sound, QueryIsExact, QueryTasks, Exists, Running, Types
<1>2. QED
  BY <1>1, TaskInvariant, PTL

\* An owned task is on its owner's list, or one of the two scripts that can
\* take it off has done so, and a task without owner has no sap.
THEOREM OwnersAreListed == Spec => []OwnerListed
<1>1. Types /\ TaskInv => OwnerListed
  BY Zenon DEF TaskInv, Kept, Sound, OwnerListed, Exists, Owner
<1>2. QED
  BY <1>1, TaskInvariant, PTL

-----------------------------------------------------------------------------
\* No script lowers a version.
Grows ==
    \A n \in Names : Exists(n) /\ Exists(n)' =>
        /\ task'[n].optVer >= task[n].optVer
        /\ task'[n] # task[n] => task'[n].ver > task[n].ver

\* A write grows the versions if it keeps ver and does not lower optVer.
LEMMA SetTaskGrows ==
  ASSUME Types, NEW n \in Names, NEW new \in Task, SetTask(n, new),
         Exists(n) => new.optVer >= task[n].optVer /\ new.ver = task[n].ver
  PROVE  Grows
<1>1. ASSUME NEW m \in Names, Exists(m), Exists(m)'
      PROVE  task'[m].optVer >= task[m].optVer /\ (task'[m] # task[m] => task'[m].ver > task[m].ver)
  <2>1. task[m] \in Task
    BY <1>1, Zenon DEF Types, Exists
  <2>2. task[m].optVer \in Int /\ task[m].ver \in Nat
    BY <2>1, BoundAssumption DEF Task, OptVers
  <2>3. CASE m = n
    BY <1>1, <2>2, <2>3, SetTaskFields
  <2>4. CASE m # n
    BY <2>2, <2>4, SetTaskFields
  <2>5. QED
    BY <2>3, <2>4, Zenon
<1>2. QED
  BY <1>1, Zenon DEF Grows

\* The commands write a greater version, or none.
LEMMA CommandGrows ==
  ASSUME Types, NEW me \in Tms, NEW n \in Names, Command(me, n)
  PROVE  Grows
<1>1. ASSUME NEW v \in OptVers, NEW cmd, NEW idle \in BOOLEAN, StartTask(me, n, v, cmd, idle) PROVE Grows
  <2> DEFINE old == IF Exists(n) THEN Restarted(task[n], v) ELSE NewTask(v, 1, OtherApp, "month")
             claim == old.tm = NoTm /\ idle
             new == [old EXCEPT !.tm = IF claim THEN me ELSE @]
  <2>1. Exists(n) => task[n] \in Task /\ task[n].optVer < v
    BY <1>1, Zenon DEF StartTask, CanStart, Exists, Types
  <2>2. old \in Task /\ (Exists(n) => old.optVer = v /\ old.ver = task[n].ver)
    <3>1. CASE Exists(n)
      BY <2>1, <3>1, RestartedFields, Zenon
    <3>2. CASE ~Exists(n)
      BY <3>2, NewTaskType
    <3>3. QED
      BY <3>1, <3>2, Zenon
  <2>3. new \in Task /\ (Exists(n) => new.optVer = v /\ new.ver = task[n].ver)
    BY <2>2, Zenon DEF Task
  <2>4. SetTask(n, new)
    BY <1>1, Zenon DEF StartTask
  <2>5. Exists(n) => task[n].optVer \in Int /\ v \in Int
    BY <2>1, BoundAssumption DEF Task, OptVers
  <2> HIDE DEF new
  <2>6. QED
    BY <2>1, <2>3, <2>4, <2>5, SetTaskGrows
<1>2. ASSUME NEW v \in OptVers, NEW cmd, NEW internal \in BOOLEAN, StopTask(me, n, v, cmd, internal) PROVE Grows
  <2> DEFINE stopped == [task[n] EXCEPT !.opt = 0, !.appId = 0, !.preStop = 0, !.ttl = "minute",
                                        !.optVer = IF internal THEN @ ELSE v]
             new == IF Exists(n) THEN stopped ELSE NewTask(v, 0, 0, "minute")
  <2>1. Exists(n) => task[n] \in Task /\ (~internal => task[n].optVer < v)
    BY <1>2, Zenon DEF StopTask, Exists, Types
  <2>2. new \in Task /\ (Exists(n) => new.ver = task[n].ver /\ new.optVer = IF internal THEN task[n].optVer ELSE v)
    <3>1. CASE Exists(n)
      <4>1. new = Stopped(task[n], IF internal THEN task[n].optVer ELSE v)
        BY <2>1, <3>1, Zenon DEF Stopped, Task
      <4>2. (IF internal THEN task[n].optVer ELSE v) \in OptVers
        BY <2>1, <3>1, Zenon DEF Task
      <4> HIDE DEF new
      <4>3. QED
        BY <2>1, <3>1, <4>1, <4>2, StoppedFields, Zenon
    <3>2. CASE ~Exists(n)
      BY <3>2, NewTaskType
    <3>3. QED
      BY <3>1, <3>2, Zenon
  <2>3. SetTask(n, new) \/ SetTask(n, Disowned(new))
    BY <1>2, Zenon DEF StopTask
  <2>4. Exists(n) => task[n].optVer \in Int /\ v \in Int
    BY <2>1, BoundAssumption DEF Task, OptVers
  <2> HIDE DEF new
  <2>5. Exists(n) => new.optVer >= task[n].optVer
    BY <2>1, <2>2, <2>4
  <2>6. QED
    BY <2>2, <2>3, <2>5, DisownedFields, SetTaskGrows, Zenon
<1>3. ASSUME NEW v \in OptVers, NEW cmd, NEW internal \in BOOLEAN, NEW r \in PreStops,
             PreStopTask(me, n, v, cmd, internal, r)
      PROVE  Grows
  <2> DEFINE now == [task[n] EXCEPT !.preStop = IF @ # 0 THEN @ ELSE r]
             later == [now EXCEPT !.optVer = v]
             first == NewTask(v, 0, 0, "minute")
  <2>1. CASE ~Exists(n)
    <3>1. SetTask(n, first) /\ first \in Task
      BY <1>3, <2>1, NewTaskType DEF PreStopTask
    <3> HIDE DEF first
    <3>2. QED
      BY <2>1, <3>1, SetTaskGrows, Zenon
  <2>2. CASE Exists(n)
    <3>1. task[n] \in Task
      BY <2>2, Zenon DEF Exists, Types
    <3>2. now \in Task /\ now.ver = task[n].ver /\ now.optVer = task[n].optVer
      BY <3>1, PreStopAssumption, Zenon DEF Task
    <3>3. later \in Task /\ later.ver = task[n].ver /\ later.optVer = v
      BY <3>2, Zenon DEF Task
    <3>4. task[n].optVer \in Int /\ v \in Int
      BY <3>1, BoundAssumption DEF Task, OptVers
    <3>5. SetTask(n, now) \/ (SetTask(n, later) /\ task[n].optVer < v)
      BY <1>3, <2>2, Zenon DEF PreStopTask
    <3> HIDE DEF now, later
    <3>6. QED
      BY <3>2, <3>3, <3>4, <3>5, SetTaskGrows
  <2>3. QED
    BY <2>1, <2>2, Zenon
<1>4. QED
  BY <1>1, <1>2, <1>3, Zenon DEF Command

\* The scripts of the managers grow the versions or leave them.
LEMMA ManageGrows ==
  ASSUME Types, NEW me \in Tms, NEW n \in Names, Manage(me, n)
  PROVE  Grows
<1>1. Exists(n) => task[n] \in Task /\ task[n].optVer \in Int
  BY BoundAssumption DEF Exists, Types, Task, OptVers
<1>2. ASSUME Exists(n), SetTask(n, Disowned(task[n])) PROVE Grows
  BY <1>1, <1>2, DisownedFields, SetTaskGrows
<1>3. Owner(n) = me => Exists(n)
  BY TmAssumption, Zenon DEF Owner
<1>4. ASSUME task' = task PROVE Grows
  BY <1>4, BoundAssumption DEF Grows, Exists, Types, Task, OptVers
<1>5. CASE AuditTask(me, n)
  BY <1>2, <1>3, <1>4, <1>5, Zenon DEF AuditTask
<1>6. CASE OnTmNotifyUpdate(me, n)
  BY <1>2, <1>6, Zenon DEF OnTmNotifyUpdate
<1>7. ASSUME NEW from, PreemptTask(me, n, from) PROVE Grows
  <2> DEFINE new == [task[n] EXCEPT !.tm = me]
  <2>1. Exists(n) /\ SetTask(n, new)
    BY <1>7, Zenon DEF PreemptTask
  <2>2. new \in Task /\ new.ver = task[n].ver /\ new.optVer = task[n].optVer
    BY <1>1, <2>1, Zenon DEF Task
  <2> HIDE DEF new
  <2>3. QED
    BY <1>1, <2>1, <2>2, SetTaskGrows
<1>8. ASSUME NEW tm \in Tms, NEW sap \in Saps \cup {NoSap}, UpdateTaskSap(me, n, tm, sap) PROVE Grows
  <2> DEFINE new == [task[n] EXCEPT !.tm = tm, !.sap = sap]
  <2>1. Exists(n) /\ SetTask(n, new)
    BY <1>3, <1>8, Zenon DEF UpdateTaskSap
  <2>2. new \in Task /\ new.ver = task[n].ver /\ new.optVer = task[n].optVer
    BY <1>1, <2>1, Zenon DEF Task
  <2> HIDE DEF new
  <2>3. QED
    BY <1>1, <2>1, <2>2, SetTaskGrows
<1>9. QED
  BY <1>5, <1>6, <1>7, <1>8, Zenon
  DEF Manage, OnTmNotifyControl, PostponedPreemptTask, LoadbalancePreemptTask

\* Every step grows the versions of the keys that live on.
LEMMA StepGrows == Types /\ [Next]_vars => [Grows]_vars
<1> SUFFICES ASSUME Types, Next PROVE Grows
  BY Zenon
<1>0. ASSUME NEW n \in Names, Exists(n)
      PROVE  task[n] \in Task /\ task[n].optVer \in Int /\ task[n].ver \in Nat
  BY <1>0, BoundAssumption DEF Exists, Types, Task, OptVers
<1>1. ASSUME NEW taken \in SUBSET Names, NEW new,
             \A n \in taken : task[n] \in Task => /\ new[n].optVer = task[n].optVer
                                                 /\ new[n].ver = task[n].ver + 1,
             task' = [n \in Names |-> IF n \in taken THEN new[n] ELSE task[n]],
             \A n \in taken : Exists(n)
      PROVE  Grows
  BY <1>0, <1>1 DEF Grows, Exists
<1>2. ASSUME NEW me \in Tms, NEW old \in Tms, NEW d, PreemptTmTask(me, old, d) PROVE Grows
  <2> DEFINE new == [n \in Names |-> [task[n] EXCEPT !.tm = me, !.ver = @ + 1]]
  <2>1. PICK taken \in SUBSET {n \in tmTasks[old] : Owner(n) = old /\ Running(n)} :
           task' = [n \in Names |-> IF n \in taken THEN [task[n] EXCEPT !.tm = me, !.ver = @ + 1] ELSE task[n]]
    BY <1>2, Zenon DEF PreemptTmTask
  <2>2. taken \in SUBSET Names /\ \A n \in taken : Exists(n)
    BY <2>1, Zenon DEF Types, Running
  <2>3. \A n \in taken : task[n] \in Task => new[n].optVer = task[n].optVer /\ new[n].ver = task[n].ver + 1
    BY <2>2, Zenon DEF Task
  <2>4. task' = [n \in Names |-> IF n \in taken THEN new[n] ELSE task[n]]
    BY <2>1, <2>2, Zenon
  <2> HIDE DEF new
  <2>5. QED
    BY <1>1, <2>2, <2>3, <2>4, Zenon
<1>3. ASSUME NEW me \in Tms, LoadAllTask(me) PROVE Grows
  <2> DEFINE new == [n \in Names |-> [task[n] EXCEPT !.ver = @ + 1]]
             mine == {n \in tmTasks[me] : Owner(n) = me}
  <2>1. task' = [n \in Names |-> IF n \in mine THEN [task[n] EXCEPT !.ver = @ + 1] ELSE task[n]]
    BY <1>3, Zenon DEF LoadAllTask
  <2>2. mine \in SUBSET Names /\ \A n \in mine : Exists(n)
    BY TmAssumption, Zenon DEF Types, Owner
  <2> HIDE DEF mine
  <2>3. \A n \in mine : task[n] \in Task => new[n].optVer = task[n].optVer /\ new[n].ver = task[n].ver + 1
    BY <2>2, Zenon DEF Task
  <2>4. task' = [n \in Names |-> IF n \in mine THEN new[n] ELSE task[n]]
    BY <2>1, <2>2, Zenon
  <2> HIDE DEF new
  <2>5. QED
    BY <1>1, <2>2, <2>3, <2>4, Zenon
<1>4. ASSUME NEW n \in Names, Expire(n) PROVE Grows
  BY <1>0, <1>4 DEF Grows, Expire, Exists, Types
<1>5. ASSUME NEW t \in Tms, Crash(t) \/ Restart(t) PROVE Grows
  BY <1>0, <1>5 DEF Grows, Crash, Restart, Exists
<1>6. QED
  BY <1>2, <1>3, <1>4, <1>5, CommandGrows, ManageGrows, Zenon DEF Next

\* While a key lives, no script sets an older version and every change counts
\* up ver.
THEOREM VersionsOnlyGrow == Spec => VersionsGrow
<1>1. Types /\ [Next]_vars =>
        [\A n \in Names : Exists(n) /\ Exists(n)' =>
            /\ task'[n].optVer >= task[n].optVer
            /\ task'[n] # task[n] => task'[n].ver > task[n].ver]_vars
  BY StepGrows, Zenon DEF Grows
<1>2. QED
  BY <1>1, TaskInvariant, PTL DEF Spec, VersionsGrow

-----------------------------------------------------------------------------
USE SizeAssumption, WidthAssumption, NoneAssumption

\* An empty ring is well typed.
LEMMA TypeInit == RingInit => TypeOK
<1>1. 0 \in SlotIndices
  BY DEF SlotIndices
<1>2. QED
  BY <1>1, Zenon DEF RingInit, TypeOK

\* Every step keeps the types.
LEMMA TypeStep == TypeOK /\ [RingNext]_ringVars => TypeOK'
<1> SUFFICES ASSUME TypeOK, [RingNext]_ringVars PROVE TypeOK'
  BY Zenon
<1> USE DEF TypeOK, SlotIndices, wvars, rvars
<1>1. ASSUME NEW p \in Producers, NEW v \in Values, WriteCall(p, v) PROVE TypeOK'
  BY <1>1, Zenon DEF WriteCall
<1>2. ASSUME NEW p \in Producers, WriteCompare(p) PROVE TypeOK'
  BY <1>2 DEF WriteCompare
<1>3. ASSUME NEW p \in Producers, WriteCount(p) PROVE TypeOK'
  BY <1>3, Zenon DEF WriteCount
<1>4. ASSUME NEW p \in Producers, WriteSlot(p) PROVE TypeOK'
  BY <1>4, Zenon DEF WriteSlot
<1>5. ASSUME NEW p \in Producers, WriteAdvance(p) PROVE TypeOK'
  BY <1>5 DEF WriteAdvance, Advanced
<1>6. ASSUME NEW o \in {"read", "peek"}, ReadCall(o) PROVE TypeOK'
  BY <1>6, Zenon DEF ReadCall
<1>7. CASE ReadCompare
  BY <1>7 DEF ReadCompare
<1>8. CASE ReadCount
  BY <1>8, Zenon DEF ReadCount
<1>9. CASE ReadSlot
  BY <1>9, Zenon DEF ReadSlot
<1>10. CASE ReadAdvance
  BY <1>10 DEF ReadAdvance, Advanced
<1>11. CASE UNCHANGED ringVars
  BY <1>11, Zenon DEF ringVars
<1>12. QED
  BY <1>1, <1>2, <1>3, <1>4, <1>5, <1>6, <1>7, <1>8, <1>9, <1>10, <1>11, Zenon DEF RingNext

\* The index arithmetic of write and read stays within the Size + 1 slots,
\* whatever the number of producers.
THEOREM Typing == RingSpec => []TypeOK
BY TypeInit, TypeStep, PTL DEF RingSpec

-----------------------------------------------------------------------------
\* An empty ring satisfies the invariant.
LEMMA RingInvInit == RingInit => RingInv
<1> SUFFICES ASSUME RingInit PROVE RingInv
  BY Zenon
<1>1. TypeOK
  BY TypeInit, Zenon
<1>2. WriterInv
  BY Zenon DEF RingInit, WriterInv
<1>3. ReaderInv
  BY Zenon DEF RingInit, ReaderInv
<1>4. ContentInv
  BY DEF RingInit, ContentInv, Count
<1>5. QED
  BY <1>1, <1>2, <1>3, <1>4, Zenon DEF RingInv

\* What the writer's count tells it: the foreign index may have moved since
\* the comparison, and even wrapped, but a count of zero still means full.
LEMMA WritableMeansRoom ==
  ASSUME TypeOK, NEW less \in BOOLEAN,
         IF less THEN wIndex < Size ELSE rIndex <= wIndex
  PROVE  getWritableSlotCount(less) > 0 <=> Count < Size
<1>1. CASE less
  BY <1>1 DEF TypeOK, SlotIndices, getWritableSlotCount, Uint, Count
<1>2. CASE ~less
  BY <1>2 DEF TypeOK, SlotIndices, getWritableSlotCount, Uint, Count
<1>3. QED
  BY <1>1, <1>2, Zenon

\* The same for the reader: a count of zero still means empty.
LEMMA ReadableMeansValue ==
  ASSUME TypeOK, NEW less \in BOOLEAN, less => wIndex < rIndex
  PROVE  getReadableSlotCount(less) > 0 <=> Count > 0
<1>1. CASE less
  BY <1>1 DEF TypeOK, SlotIndices, getReadableSlotCount, getWritableSlotCount, Uint, Count
<1>2. CASE ~less
  BY <1>2 DEF TypeOK, SlotIndices, getReadableSlotCount, getWritableSlotCount, Uint, Count
<1>3. QED
  BY <1>1, <1>2, Zenon

\* With one producer every step keeps the invariant.
LEMMA RingStep == ASSUME SingleProducer PROVE RingInv /\ [RingNext]_ringVars => RingInv'
<1> SUFFICES ASSUME RingInv, [RingNext]_ringVars PROVE RingInv'
  BY Zenon
<1>t. TypeOK /\ TypeOK'
  BY TypeStep, Zenon DEF RingInv
<1> USE <1>t DEF RingInv, wvars, rvars
<1>1. ASSUME NEW p \in Producers, NEW v \in Values, WriteCall(p, v) PROVE RingInv'
  BY <1>1 DEF WriteCall, TypeOK, WriterInv, ReaderInv, ContentInv, Count, Place
<1>2. ASSUME NEW p \in Producers, WriteCompare(p) PROVE RingInv'
  <2>1. WriterInv'
    <3>1. CASE wIndex < rIndex
      <4>1. wless' = [wless EXCEPT ![p] = TRUE]
        BY <1>2, <3>1, Zenon DEF WriteCompare
      <4>2. wIndex < Size
        BY <3>1 DEF TypeOK, SlotIndices
      <4>3. QED
        BY <1>2, <4>1, <4>2 DEF WriteCompare, TypeOK, WriterInv, Count
    <3>2. CASE ~(wIndex < rIndex)
      <4>1. wless' = [wless EXCEPT ![p] = FALSE]
        <5>1. (wIndex < rIndex) = FALSE
          BY <3>2
        <5>2. QED
          BY <1>2, <5>1, Zenon DEF WriteCompare
      <4>2. rIndex <= wIndex
        BY <3>2 DEF TypeOK, SlotIndices
      <4>3. QED
        BY <1>2, <4>1, <4>2, Zenon DEF WriteCompare, TypeOK, WriterInv, Count
    <3>3. QED
      BY <3>1, <3>2, Zenon
  <2>2. ReaderInv' /\ ContentInv'
    BY <1>2, Zenon DEF WriteCompare, ReaderInv, ContentInv, Count, Place
  <2>3. QED
    BY <2>1, <2>2, Zenon
<1>3. ASSUME NEW p \in Producers, WriteCount(p) PROVE RingInv'
  <2>1. getWritableSlotCount(wless[p]) > 0 <=> Count < Size
    BY <1>3, WritableMeansRoom, Zenon DEF WriteCount, WriterInv, TypeOK
  <2>2. WriterInv'
    BY <1>3, <2>1 DEF WriteCount, TypeOK, WriterInv, Count
  <2>3. ReaderInv' /\ ContentInv'
    BY <1>3, Zenon DEF WriteCount, ReaderInv, ContentInv, Count, Place
  <2>4. QED
    BY <2>2, <2>3, Zenon
<1>4. ASSUME NEW p \in Producers, WriteSlot(p) PROVE RingInv'
  <2>1. WriterInv'
    BY <1>4, SingleProducer DEF WriteSlot, TypeOK, WriterInv, Count, SingleProducer
  <2>2. \A i \in 0 .. Count - 1 : Place(i) # wIndex
    BY <1>4 DEF WriteSlot, WriterInv, Count, Place, TypeOK, SlotIndices
  <2>3. ReaderInv'
    <3>1. Count > 0 => rIndex # wIndex
      BY DEF Count, TypeOK, SlotIndices
    <3>2. QED
      BY <1>4, <3>1, Zenon DEF WriteSlot, ReaderInv, Count, TypeOK
  <2>4. ContentInv'
    <3>1. Count' = Count /\ \A i \in 0 .. Count - 1 : Place(i)' = Place(i)
      BY <1>4, Zenon DEF WriteSlot, Count, Place
    <3>2. \A i \in 0 .. Count - 1 : Place(i) \in SlotIndices
      BY DEF Place, Count, TypeOK, SlotIndices
    <3>3. \A i \in 0 .. Count - 1 : slots'[Place(i)] = slots[Place(i)]
      BY <1>4, <2>2, <3>2, Zenon DEF WriteSlot, TypeOK
    <3>4. QED
      BY <3>1, <3>3, Zenon DEF ContentInv
  <2>5. QED
    BY <2>1, <2>3, <2>4, Zenon
<1>5. ASSUME NEW p \in Producers, WriteAdvance(p) PROVE RingInv'
  <2>1. Count < Size /\ slots[wIndex] = arg[p] /\ arg[p] \in Values
    BY <1>5, Zenon DEF WriteAdvance, WriterInv, TypeOK
  <2>2. Count' = Count + 1
    BY <1>5, <2>1 DEF WriteAdvance, Advanced, Count, TypeOK, SlotIndices
  <2>3. WriterInv'
    BY <1>5, SingleProducer DEF WriteAdvance, WriterInv, TypeOK, SingleProducer
  <2>4. ReaderInv'
    <3>1. wIndex < rIndex => wIndex' < rIndex
      BY <1>5, <2>1 DEF WriteAdvance, Advanced, Count, TypeOK, SlotIndices
    <3>2. QED
      BY <1>5, <2>2, <3>1 DEF WriteAdvance, ReaderInv, TypeOK, Count, SlotIndices
  <2>5. ContentInv'
    <3>1. Place(Count) = wIndex
      BY DEF Place, Count, TypeOK, SlotIndices
    <3>2. ASSUME NEW i \in 0 .. Count' - 1 PROVE slots'[Place(i)'] \in Values
      <4>1. slots' = slots /\ Place(i)' = Place(i)
        BY <1>5, Zenon DEF WriteAdvance, Place
      <4>2. Count \in Nat
        BY DEF Count, TypeOK, SlotIndices
      <4>3. CASE i = Count
        BY <2>1, <3>1, <4>1, <4>3, Zenon
      <4>4. CASE i \in 0 .. Count - 1
        BY <4>1, <4>4, Zenon DEF ContentInv
      <4>5. QED
        BY <2>2, <4>2, <4>3, <4>4
    <3>3. QED
      BY <3>2, Zenon DEF ContentInv
  <2>6. QED
    BY <2>3, <2>4, <2>5, Zenon
<1>6. ASSUME NEW o \in {"read", "peek"}, ReadCall(o) PROVE RingInv'
  BY <1>6, Zenon DEF ReadCall, WriterInv, ReaderInv, ContentInv, Count, Place
<1>7. CASE ReadCompare
  BY <1>7, Zenon DEF ReadCompare, WriterInv, ReaderInv, ContentInv, Count, Place
<1>8. CASE ReadCount
  <2>1. getReadableSlotCount(rless) > 0 <=> Count > 0
    BY <1>8, ReadableMeansValue, Zenon DEF ReadCount, ReaderInv, TypeOK
  <2>2. QED
    BY <1>8, <2>1, Zenon DEF ReadCount, WriterInv, ReaderInv, ContentInv, Count, Place
<1>9. CASE ReadSlot
  BY <1>9, Zenon DEF ReadSlot, WriterInv, ReaderInv, ContentInv, Count, Place, TypeOK
<1>10. CASE ReadAdvance
  <2>1. Count > 0
    BY <1>10, Zenon DEF ReadAdvance, ReaderInv
  <2>2. Count' = Count - 1
    BY <1>10, <2>1 DEF ReadAdvance, Advanced, Count, TypeOK, SlotIndices
  <2>3. WriterInv'
    <3>1. rIndex <= wIndex => rIndex' <= wIndex
      BY <1>10, <2>1 DEF ReadAdvance, Advanced, Count, TypeOK, SlotIndices
    <3>2. QED
      BY <1>10, <2>2, <3>1 DEF ReadAdvance, WriterInv, TypeOK, Count, SlotIndices
  <2>4. ReaderInv'
    BY <1>10, Zenon DEF ReadAdvance, ReaderInv
  <2>5. ContentInv'
    <3>1. ASSUME NEW i \in 0 .. Count' - 1 PROVE Place(i)' = Place(i + 1)
      BY <1>10, <2>1, <2>2 DEF ReadAdvance, Advanced, Place, Count, TypeOK, SlotIndices
    <3>2. ASSUME NEW i \in 0 .. Count' - 1 PROVE slots'[Place(i)'] \in Values
      BY <1>10, <2>2, <3>1, <3>2 DEF ReadAdvance, ContentInv, Count, TypeOK, SlotIndices
    <3>3. QED
      BY <3>2, Zenon DEF ContentInv
  <2>6. QED
    BY <2>3, <2>4, <2>5, Zenon
<1>11. CASE UNCHANGED ringVars
  BY <1>11, Zenon DEF ringVars, WriterInv, ReaderInv, ContentInv, Count, Place
<1>12. QED
  BY <1>1, <1>2, <1>3, <1>4, <1>5, <1>6, <1>7, <1>8, <1>9, <1>10, <1>11 DEF RingNext

\* With one producer the ring keeps its inductive invariant ...
THEOREM RingInvariant == ASSUME SingleProducer PROVE RingSpec => []RingInv
BY RingInvInit, RingStep, PTL DEF RingSpec

\* ... and so no slot is written while the consumer may load it, and no
\* load of write's or read's slot sees one that was never written.
THEOREM NoRace == ASSUME SingleProducer PROVE RingSpec => []NoSlotRace
<1>1. RingInv => NoSlotRace
  <2> SUFFICES ASSUME RingInv PROVE NoSlotRace
    BY Zenon
  <2>1. ASSUME NEW p \in Producers, wpc[p] \in {"store", "advance"}
        PROVE  Count < Size /\ \A i \in 0 .. Count - 1 : Place(i) # wIndex
    BY <2>1 DEF RingInv, WriterInv, Count, Place, TypeOK, SlotIndices
  <2>2. rpc = "load" => slots[rIndex] \in Values
    <3> SUFFICES ASSUME rpc = "load" PROVE slots[rIndex] \in Values
      BY Zenon
    <3>1. Count > 0 /\ Count \in Nat /\ Place(0) = rIndex
      BY DEF RingInv, ReaderInv, Count, Place, TypeOK, SlotIndices
    <3>2. QED
      BY <3>1 DEF RingInv, ContentInv
  <2>3. QED
    BY <2>1, <2>2, Zenon DEF NoSlotRace
<1>2. QED
  BY <1>1, RingInvariant, PTL

-----------------------------------------------------------------------------
\* The ring read as a sequence.
LEMMA ContentIsSeq ==
  RingInv => Content \in Seq(Values) /\ Len(Content) = Count /\ Count \in Nat
<1> SUFFICES ASSUME RingInv
             PROVE  Content \in Seq(Values) /\ Len(Content) = Count /\ Count \in Nat
  BY Zenon
<1>1. Count \in Nat
  BY DEF RingInv, TypeOK, SlotIndices, Count
<1>2. \A i \in 1 .. Count : slots[Place(i - 1)] \in Values
  BY <1>1 DEF RingInv, ContentInv
<1>3. Content \in [1 .. Count -> Values]
  BY <1>2, Zenon DEF Content
<1>4. QED
  BY <1>1, <1>3

\* Steps that leave the slots and both indices alone leave the queue alone.
LEMMA ContentUnchanged ==
  ASSUME slots' = slots, rIndex' = rIndex, wIndex' = wIndex PROVE Content' = Content
BY Zenon DEF Content, Count, Place

\* An empty ring is an empty queue.
LEMMA QueueInit == RingInit => Abstract!Init
<1> SUFFICES ASSUME RingInit PROVE Abstract!Init
  BY Zenon
<1>1. Content = <<>>
  <2>1. Count = 0
    BY DEF RingInit, Count
  <2>2. QED
    BY <2>1 DEF Content
<1>2. QED
  BY <1>1, Zenon DEF RingInit, Abstract!Init

\* Every step of the ring is a step of the queue or leaves it unchanged: the
\* write takes effect when the index is stored, or fails when it is counted.
LEMMA QueueStep ==
  ASSUME SingleProducer, RingInv, RingInv', [RingNext]_ringVars
  PROVE  [Abstract!Next]_(Abstract!qvars)
<1> USE DEF wvars, rvars
<1> DEFINE AStep == [Abstract!Next]_(Abstract!qvars)
<1>s. Content \in Seq(Values) /\ Len(Content) = Count /\ Count \in Nat
  BY ContentIsSeq, Zenon
<1>s1. (Content \in Seq(Values) /\ Len(Content) = Count /\ Count \in Nat)'
  BY ContentIsSeq, PTL
<1>1. ASSUME NEW p \in Producers, NEW v \in Values, WriteCall(p, v) PROVE AStep
  <2>1. Content' = Content
    BY <1>1, ContentUnchanged, Zenon DEF WriteCall
  <2>2. Abstract!CallWrite(p, v)
    BY <1>1, <2>1, Zenon DEF WriteCall, RingInv, WriterInv, Abstract!CallWrite
  <2>3. QED
    BY <2>2, Zenon DEF Abstract!Next
<1>2. ASSUME NEW p \in Producers, WriteCompare(p) PROVE AStep
  BY <1>2, ContentUnchanged, Zenon DEF WriteCompare, Abstract!qvars
<1>3. ASSUME NEW p \in Producers, WriteCount(p) PROVE AStep
  <2>1. Content' = Content
    BY <1>3, ContentUnchanged, Zenon DEF WriteCount
  <2>2. getWritableSlotCount(wless[p]) > 0 <=> Count < Size
    BY <1>3, WritableMeansRoom DEF WriteCount, RingInv, WriterInv, TypeOK
  <2>3. CASE Count < Size
    BY <1>3, <2>1, <2>2, <2>3, Zenon DEF WriteCount, Abstract!qvars
  <2>4. CASE ~(Count < Size)
    <3>1. Count = Size
      BY <2>4 DEF Count, RingInv, TypeOK, SlotIndices
    <3>2. Abstract!Refuse(p)
      BY <1>3, <1>s, <2>1, <2>2, <2>4, <3>1, Zenon DEF WriteCount, RingInv, WriterInv, Abstract!Refuse
    <3>3. QED
      BY <3>2, Zenon DEF Abstract!Next
  <2>5. QED
    BY <2>3, <2>4, Zenon
<1>4. ASSUME NEW p \in Producers, WriteSlot(p) PROVE AStep
  <2>1. Count' = Count /\ \A i \in 1 .. Count : Place(i - 1)' = Place(i - 1)
    BY <1>4, Zenon DEF WriteSlot, Count, Place
  <2>2. \A i \in 1 .. Count : Place(i - 1) \in SlotIndices \ {wIndex}
    BY <1>4 DEF WriteSlot, RingInv, WriterInv, Place, Count, TypeOK, SlotIndices
  <2>3. \A i \in 1 .. Count : slots'[Place(i - 1)] = slots[Place(i - 1)]
    BY <1>4, <2>2, Zenon DEF WriteSlot, RingInv, TypeOK
  <2>4. Content' = Content
    BY <2>1, <2>3, Zenon DEF Content
  <2>5. QED
    BY <1>4, <2>4, Zenon DEF WriteSlot, Abstract!qvars
<1>5. ASSUME NEW p \in Producers, WriteAdvance(p) PROVE AStep
  <2>1. Count < Size /\ slots[wIndex] = arg[p] /\ arg[p] \in Values
    BY <1>5 DEF WriteAdvance, RingInv, WriterInv, TypeOK
  <2>2. Count' = Count + 1
    BY <1>5, <2>1 DEF WriteAdvance, Advanced, Count, RingInv, TypeOK, SlotIndices
  <2>3. Place(Count) = wIndex
    BY DEF Place, Count, RingInv, TypeOK, SlotIndices
  <2>4. Content' = Append(Content, arg[p])
    <3>1. \A i \in 1 .. Count : Content'[i] = Content[i]
      BY <1>5, <1>s, <2>2 DEF WriteAdvance, Content, Place
    <3>2. Content'[Count + 1] = arg[p]
      BY <1>5, <1>s, <2>1, <2>2, <2>3 DEF WriteAdvance, Content, Place
    <3>3. QED
      BY <1>s, <1>s1, <2>1, <2>2, <3>1, <3>2
  <2>5. Abstract!Accept(p)
    BY <1>5, <1>s, <2>1, <2>4, Zenon DEF WriteAdvance, RingInv, WriterInv, Abstract!Accept
  <2>6. QED
    BY <2>5, Zenon DEF Abstract!Next
<1>6. ASSUME NEW o \in {"read", "peek"}, ReadCall(o) PROVE AStep
  <2>1. Content' = Content
    BY <1>6, ContentUnchanged, Zenon DEF ReadCall
  <2>2. Abstract!CallRead
    BY <1>6, <2>1, Zenon DEF ReadCall, Abstract!CallRead
  <2>3. QED
    BY <2>2, Zenon DEF Abstract!Next
<1>7. CASE ReadCompare
  BY <1>7, ContentUnchanged, Zenon DEF ReadCompare, Abstract!qvars
<1>8. CASE ReadCount
  <2>1. Content' = Content
    BY <1>8, ContentUnchanged, Zenon DEF ReadCount
  <2>2. getReadableSlotCount(rless) > 0 <=> Count > 0
    BY <1>8, ReadableMeansValue, Zenon DEF ReadCount, RingInv, ReaderInv, TypeOK
  <2>3. CASE Count > 0
    BY <1>8, <2>1, <2>2, <2>3, Zenon DEF ReadCount, Abstract!qvars
  <2>4. CASE ~(Count > 0)
    <3>1. Content = <<>>
      BY <1>s, <2>4
    <3>2. Abstract!Empty
      BY <1>8, <2>1, <2>2, <2>4, <3>1, Zenon DEF ReadCount, Abstract!Empty
    <3>3. QED
      BY <3>2, Zenon DEF Abstract!Next
  <2>5. QED
    BY <2>3, <2>4, Zenon
<1>9. CASE ReadSlot
  <2>1. Content' = Content
    BY <1>9, ContentUnchanged, Zenon DEF ReadSlot
  <2>2. Content # <<>> /\ Head(Content) = slots[rIndex]
    <3>1. Count > 0 /\ Place(0) = rIndex
      BY <1>9 DEF ReadSlot, RingInv, ReaderInv, Place, TypeOK, SlotIndices
    <3>2. Content[1] = slots[rIndex]
      BY <1>s, <3>1 DEF Content
    <3>3. QED
      BY <1>s, <3>1, <3>2
  <2>3. CASE op = "peek"
    <3>1. Abstract!Inspect
      BY <1>9, <2>1, <2>2, <2>3, Zenon DEF ReadSlot, Abstract!Inspect
    <3>2. QED
      BY <3>1, Zenon DEF Abstract!Next
  <2>4. CASE op # "peek"
    BY <1>9, <2>1, <2>4, Zenon DEF ReadSlot, Abstract!qvars
  <2>5. QED
    BY <2>3, <2>4, Zenon
<1>10. CASE ReadAdvance
  <2>1. Count > 0 /\ seen = slots[rIndex]
    BY <1>10, Zenon DEF ReadAdvance, RingInv, ReaderInv
  <2>2. Count' = Count - 1
    BY <1>10, <2>1 DEF ReadAdvance, Advanced, Count, RingInv, TypeOK, SlotIndices
  <2>3. Content # <<>> /\ Head(Content) = seen
    <3>1. Place(0) = rIndex
      BY DEF Place, RingInv, TypeOK, SlotIndices
    <3>2. Content[1] = seen
      BY <1>s, <2>1, <3>1 DEF Content
    <3>3. QED
      BY <1>s, <2>1, <3>2
  <2>4. Content' = Tail(Content)
    <3>1. ASSUME NEW i \in 1 .. Count' PROVE Place(i - 1)' = Place(i)
      BY <1>10, <2>1, <2>2 DEF ReadAdvance, Advanced, Place, Count, RingInv, TypeOK, SlotIndices
    <3>2. ASSUME NEW i \in 1 .. Count' PROVE Content'[i] = Content[i + 1]
      BY <1>10, <1>s, <2>2, <3>1, <3>2 DEF ReadAdvance, Content
    <3>3. QED
      BY <1>s, <1>s1, <2>1, <2>2, <3>2
  <2>5. Abstract!Remove
    BY <1>10, <2>3, <2>4, Zenon DEF ReadAdvance, Abstract!Remove
  <2>6. QED
    BY <2>5, Zenon DEF Abstract!Next
<1>11. CASE UNCHANGED ringVars
  BY <1>11, ContentUnchanged, Zenon DEF ringVars, Abstract!qvars
<1>12. QED
  BY <1>1, <1>2, <1>3, <1>4, <1>5, <1>6, <1>7, <1>8, <1>9, <1>10, <1>11, Zenon DEF RingNext

\* The lock-free ring implements the bounded queue, for every size, as long
\* as one thread writes and one thread reads.
THEOREM RingImplementsQueue == ASSUME SingleProducer PROVE RingSpec => ImplementsQueue
<1>1. RingInv /\ RingInv' /\ [RingNext]_ringVars => [Abstract!Next]_(Abstract!qvars)
  BY QueueStep, Zenon
<1>2. QED
  BY <1>1, QueueInit, RingInvariant, PTL DEF RingSpec, ImplementsQueue, Abstract!Spec
=============================================================================
