---------------------------- MODULE TaskScripts -----------------------------
(* cppBase/redistool/script/*.lua: the task registry that task managers    *)
(* ("tm") share in redis.  A script runs atomically, so it is one action;  *)
(* scripts of different managers, crashes of managers and the expiry of    *)
(* keys interleave.  Every key holds all of its fields from its first      *)
(* HMSET on, so the scripts' tests for missing fields never fail.  A       *)
(* manager passes its own id together with the key of its own task list.   *)
EXTENDS Integers, FiniteSets

CONSTANTS
    Tms,        \* ids of the task managers
    NoTm,       \* the empty string in field tm
    Names,      \* task names
    NoTask,     \* a key that does not exist
    Saps,       \* values of field sap (taskId is written along with it)
    NoSap,      \* the empty string in field sap
    PreStops,   \* the reasons a pre-stop may carry
    MaxOptVer,  \* bound: versions of external commands are 1 .. MaxOptVer
    MaxVer      \* bound: a task is modified at most MaxVer times

ASSUME TmAssumption == NoTm \notin Tms
ASSUME SapAssumption == NoSap \notin Saps
ASSUME PreStopAssumption == PreStops \subseteq Nat \ {0}
ASSUME BoundAssumption == MaxOptVer \in Nat /\ MaxVer \in Nat

OptVers == 1 .. MaxOptVer
CmdTypes == 0 .. 3      \* 0 any, 1 create, 2 update, 3 stop
OtherApp == 1           \* appId of a started task; a stopped one has 0

Task == [optVer : OptVers, opt : 0 .. 1, appId : {0, OtherApp},
         preStop : PreStops \cup {0}, tm : Tms \cup {NoTm}, sap : Saps \cup {NoSap},
         ver : Nat, ttl : {"month", "minute"}]

ASSUME TaskAssumption == NoTask \notin Task

VARIABLES
    task,       \* task[n]: the hash of task n, or NoTask
    tmTasks,    \* tmTasks[t]: the names in the task list of manager t
    allTasks,   \* the set of all task names
    alive,      \* the managers that are running
    detached    \* history: owned tasks whose owner's list was left without them

vars == <<task, tmTasks, allTasks, alive, detached>>

Exists(n) == task[n] # NoTask
Owner(n) == IF Exists(n) THEN task[n].tm ELSE NoTm
Running(n) == Exists(n) /\ task[n].opt = 1

Init ==
    /\ task = [n \in Names |-> NoTask]
    /\ tmTasks = [t \in Tms |-> {}]
    /\ allTasks = {}
    /\ alive = Tms
    /\ detached = {}

-----------------------------------------------------------------------------
\* Helpers: the writes the scripts have in common.

\* A new key as start_task, stop_task and pre_stop_task create it.
NewTask(optVer, opt, appId, ttl) ==
    [optVer |-> optVer, opt |-> opt, appId |-> appId, preStop |-> 0,
     tm |-> NoTm, sap |-> NoSap, ver |-> 0, ttl |-> ttl]

\* HMSET iKey "tm" "" "sap" "" "taskId" "".
Disowned(old) == [old EXCEPT !.tm = NoTm, !.sap = NoSap]

\* Replace the hash of n, counting the modification in ver.
SetTask(n, new) ==
    /\ new.ver < MaxVer
    /\ task' = [task EXCEPT ![n] = [new EXCEPT !.ver = @ + 1]]

\* Forgetting the HSET on the new owner's list.
ListForgotten(t, n) == UNCHANGED tmTasks

Listed(t, n) == tmTasks' = [tmTasks EXCEPT ![t] = @ \cup {n}]
Delisted(t, n) == tmTasks' = [tmTasks EXCEPT ![t] = @ \ {n}]

-----------------------------------------------------------------------------
\* start_task.lua

\* A start that does not compare versions.
CanStartAnyVersion(old, optVer, cmd) ==
    \/ cmd = 0
    \/ cmd = 1 /\ (old.opt = 0 \/ old.preStop # 0)
    \/ cmd = 2 /\ old.opt # 0 /\ old.preStop = 0

CanStart(old, optVer, cmd) ==
    /\ old.optVer < optVer
    /\ \/ cmd = 0
       \/ cmd = 1 /\ (old.opt = 0 \/ old.preStop # 0)
       \/ cmd = 2 /\ old.opt # 0 /\ old.preStop = 0

\* Restarting without the EXPIRE, and without the new appId.
RestartedNoExpire(old, optVer) ==
    [old EXCEPT !.optVer = optVer, !.opt = 1, !.appId = OtherApp, !.preStop = 0]
RestartedKeepsApp(old, optVer) ==
    [old EXCEPT !.optVer = optVer, !.opt = 1, !.preStop = 0, !.ttl = "month"]

Restarted(old, optVer) ==
    [old EXCEPT !.optVer = optVer, !.opt = 1, !.appId = OtherApp, !.preStop = 0, !.ttl = "month"]

StartTask(me, n, optVer, cmd, idle) ==
    LET new == IF Exists(n)
               THEN Restarted(task[n], optVer)
               ELSE NewTask(optVer, 1, OtherApp, "month")
        claim == new.tm = NoTm /\ idle
    IN  /\ me \in alive
        /\ IF Exists(n) THEN CanStart(task[n], optVer, cmd) ELSE cmd \in {0, 1}
        /\ SetTask(n, [new EXCEPT !.tm = IF claim THEN me ELSE @])
        /\ allTasks' = allTasks \cup {n}
        /\ IF claim THEN Listed(me, n) ELSE UNCHANGED tmTasks
        /\ detached' = IF claim THEN detached \ {n} ELSE detached
        /\ UNCHANGED alive

-----------------------------------------------------------------------------
\* pre_stop_task.lua and stop_task.lua

\* The first reason given is kept; an internal pre-stop skips the version
\* check and leaves optVer alone.
PreStopTask(me, n, optVer, cmd, internal, preStop) ==
    LET now == [task[n] EXCEPT !.preStop = IF @ # 0 THEN @ ELSE preStop]
    IN  /\ me \in alive
        /\ \/ /\ Exists(n) /\ ~internal
              /\ task[n].optVer < optVer
              /\ cmd = 0 \/ (cmd = 3 /\ task[n].opt = 1 /\ task[n].preStop = 0)
              /\ SetTask(n, [now EXCEPT !.optVer = optVer])
           \/ /\ Exists(n) /\ internal
              /\ SetTask(n, now)
           \/ /\ ~Exists(n) /\ cmd = 0
              /\ SetTask(n, NewTask(optVer, 0, 0, "minute"))
        /\ UNCHANGED <<tmTasks, allTasks, alive, detached>>

StopTask(me, n, optVer, cmd, internal) ==
    LET stopped == [task[n] EXCEPT !.opt = 0, !.appId = 0, !.preStop = 0, !.ttl = "minute",
                                   !.optVer = IF internal THEN @ ELSE optVer]
        new == IF Exists(n) THEN stopped ELSE NewTask(optVer, 0, 0, "minute")
        mine == new.tm = me
    IN  /\ me \in alive
        /\ IF Exists(n)
           THEN internal \/ (task[n].optVer < optVer /\ (cmd = 0 \/ (cmd = 3 /\ task[n].opt = 1)))
           ELSE cmd = 0
        /\ SetTask(n, IF mine THEN Disowned(new) ELSE new)
        /\ allTasks' = allTasks \ {n}
        /\ IF mine THEN Delisted(me, n) ELSE UNCHANGED tmTasks
        /\ detached' = IF mine THEN detached \ {n} ELSE detached
        /\ UNCHANGED alive

-----------------------------------------------------------------------------
\* Taking a task over.

PreemptTask(me, n, from) ==
    /\ me \in alive
    /\ Exists(n) /\ task[n].tm = from /\ task[n].opt = 1
    /\ SetTask(n, [task[n] EXCEPT !.tm = me])
    /\ Listed(me, n)
    /\ detached' = detached \ {n}
    /\ UNCHANGED <<allTasks, alive>>

\* on_tm_notify_control.lua and postponed_preempt_task.lua take a task without
\* owner, loadbalance_preempt_task.lua one of another manager.
OnTmNotifyControl(me, n) == PreemptTask(me, n, NoTm)
PostponedPreemptTask(me, n) == PreemptTask(me, n, NoTm)
LoadbalancePreemptTask(me, n, from) == PreemptTask(me, n, from)

\* An integer division.
PreemptTargetFloor(total, denominator) == total \div denominator

\* preempt_tm_task.lua takes tasks of manager old until total / denominator
\* of them are taken.  The division is a Lua number, so the loop takes that
\* quotient rounded up; HGETALL lists the names in no particular order.
PreemptTarget(total, denominator) == (total + denominator - 1) \div denominator

PreemptTmTask(me, old, denominator) ==
    LET total == Cardinality(tmTasks[old])
        candidates == {n \in tmTasks[old] : Owner(n) = old /\ Running(n)}
        target == PreemptTarget(total, denominator)
        count == IF Cardinality(candidates) < target THEN Cardinality(candidates) ELSE target
    IN  /\ me \in alive
        /\ \E taken \in SUBSET candidates \ {{}} :
              /\ Cardinality(taken) = count
              /\ \A n \in taken : task[n].ver < MaxVer
              /\ task' = [n \in Names |->
                            IF n \in taken THEN [task[n] EXCEPT !.tm = me, !.ver = @ + 1]
                                           ELSE task[n]]
              /\ tmTasks' = [tmTasks EXCEPT ![me] = @ \cup taken]
              /\ detached' = detached \ taken
        /\ UNCHANGED <<allTasks, alive>>

-----------------------------------------------------------------------------
\* Keeping a manager's list: audit_task.lua, on_tm_notify_update.lua,
\* load_all_task.lua, update_task_sap.lua.

AuditTask(me, n) ==
    /\ me \in alive
    /\ \/ /\ Owner(n) = me /\ task[n].opt = 0
          /\ SetTask(n, Disowned(task[n]))
          /\ Delisted(me, n)
          /\ detached' = detached \ {n}
       \/ /\ Owner(n) = me /\ task[n].opt = 1
          /\ Listed(me, n)
          /\ detached' = detached \ {n}
          /\ UNCHANGED task
       \/ /\ Owner(n) # me
          /\ Delisted(me, n)
          /\ UNCHANGED <<task, detached>>
    /\ UNCHANGED <<allTasks, alive>>

\* Whoever calls it wipes the owner of a stopped task.
OnTmNotifyUpdate(me, n) ==
    /\ me \in alive
    /\ Exists(n) /\ task[n].opt = 0
    /\ SetTask(n, Disowned(task[n]))
    /\ Delisted(me, n)
    /\ detached' = detached \ {n}
    /\ UNCHANGED <<allTasks, alive>>

\* Every task of the list that is still mine is counted as modified, and the
\* list keeps only those that run: a stopped one leaves the list with its
\* owner field unchanged.
LoadAllTask(me) ==
    LET mine == {n \in tmTasks[me] : Owner(n) = me}
        running == {n \in mine : task[n].opt = 1}
    IN  /\ me \in alive
        /\ \A n \in mine : task[n].ver < MaxVer
        /\ task' = [n \in Names |-> IF n \in mine THEN [task[n] EXCEPT !.ver = @ + 1] ELSE task[n]]
        /\ tmTasks' = [tmTasks EXCEPT ![me] = running]
        /\ detached' = detached \cup (mine \ running)
        /\ UNCHANGED <<allTasks, alive>>

\* The owner records where the task runs, and may name another owner.
UpdateTaskSap(me, n, tm, sap) ==
    /\ me \in alive
    /\ Owner(n) = me
    /\ SetTask(n, [task[n] EXCEPT !.tm = tm, !.sap = sap])
    /\ detached' = IF n \in tmTasks[tm] THEN detached \ {n} ELSE detached \cup {n}
    /\ UNCHANGED <<tmTasks, allTasks, alive>>

-----------------------------------------------------------------------------
\* The environment: redis expires a key, a manager dies and comes back.

Expire(n) ==
    /\ Exists(n)
    /\ task' = [task EXCEPT ![n] = NoTask]
    /\ detached' = detached \ {n}
    /\ UNCHANGED <<tmTasks, allTasks, alive>>

Crash(t) ==
    /\ t \in alive
    /\ alive' = alive \ {t}
    /\ UNCHANGED <<task, tmTasks, allTasks, detached>>

Restart(t) ==
    /\ t \notin alive
    /\ alive' = alive \cup {t}
    /\ UNCHANGED <<task, tmTasks, allTasks, detached>>

Command(me, n) ==
    \E optVer \in OptVers, cmd \in CmdTypes :
        \/ \E idle \in BOOLEAN : StartTask(me, n, optVer, cmd, idle)
        \/ \E internal \in BOOLEAN :
              \/ StopTask(me, n, optVer, cmd, internal)
              \/ \E r \in PreStops : PreStopTask(me, n, optVer, cmd, internal, r)

Manage(me, n) ==
    \/ AuditTask(me, n)
    \/ OnTmNotifyUpdate(me, n)
    \/ OnTmNotifyControl(me, n)
    \/ PostponedPreemptTask(me, n)
    \/ \E from \in Tms : LoadbalancePreemptTask(me, n, from)
    \/ \E tm \in Tms, sap \in Saps \cup {NoSap} :
          UpdateTaskSap(me, n, tm, sap)

Denominators == {2, 10}     \* 10 stands for a denominator that is not positive

Next ==
    \/ \E me \in Tms, n \in Names : Command(me, n) \/ Manage(me, n)
    \/ \E me, old \in Tms, d \in Denominators : PreemptTmTask(me, old, d)
    \/ \E me \in Tms : LoadAllTask(me)
    \/ \E n \in Names : Expire(n)
    \/ \E t \in Tms : Crash(t) \/ Restart(t)

Spec == Init /\ [][Next]_vars

\* Live managers keep preempting a manager they believe dead, so the script
\* runs again and again while it has something to take.
FairSpec ==
    /\ Spec
    /\ \A old \in Tms : WF_vars(\E me \in Tms, d \in Denominators : PreemptTmTask(me, old, d))

-----------------------------------------------------------------------------
\* query_tasks.lua: the names whose hash carries the application id asked for.
QueryTasks(appId) == {n \in allTasks : Exists(n) /\ task[n].appId = appId}

\* A running task has the long time to live and a stopped one the short one,
\* whatever sequence of starts, stops and pre-stops led there: a restarted
\* task does not vanish with the 60 seconds of its last stop, and a stopped
\* one does not stay for a month.
StoppedExpires == \A n \in Names : Exists(n) => (Running(n) <=> task[n].ttl = "month")

\* query_tasks.lua answers with exactly the running tasks although the set
\* of all tasks keeps names whose keys have expired or were made again.
QueryIsExact == QueryTasks(OtherApp) = {n \in Names : Running(n)}

\* The task list of an owner names its task, so that preempt_tm_task.lua
\* finds it when the owner dies, and a task without owner carries no sap of
\* an earlier one.  The exceptions are the tasks that load_all_task.lua
\* dropped while stopped or that update_task_sap.lua gave to a manager whose
\* list lacks them, until a script lists them again.
OwnerListed ==
    \A n \in Names :
        /\ Owner(n) # NoTm => n \in tmTasks[Owner(n)] \/ n \in detached
        /\ Exists(n) /\ Owner(n) = NoTm => task[n].sap = NoSap

\* While a key lives, the version of external commands never goes back and
\* every modification of the hash counts up ver, by which replies are told
\* apart.
VersionsGrow ==
    [][\A n \in Names : Exists(n) /\ Exists(n)' =>
          /\ task'[n].optVer >= task[n].optVer
          /\ task'[n] # task[n] => task'[n].ver > task[n].ver]_vars

Stranded(n) == Running(n) /\ Owner(n) \in Tms \ alive /\ n \in tmTasks[Owner(n)]

AtBound == \E n \in Names : Exists(n) /\ task[n].ver = MaxVer

\* A running task on the list of a dead manager is taken away from it, one
\* small share of the list at a time, as long as somebody is alive.
DeadManagerDrained == \A n \in Names : Stranded(n) ~> (~Stranded(n) \/ alive = {} \/ AtBound)
=============================================================================
