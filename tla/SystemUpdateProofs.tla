------------------------- MODULE SystemUpdateProofs -------------------------
(***************************************************************************)
(* Proofs about SystemUpdate for any images, versions, number of tasks,    *)
(* faults and health rounds.  The inductive invariant says what the stage  *)
(* in the state file promises about Docker, what the job knows at each of  *)
(* its steps, and what a Check that is under way may have seen.            *)
(***************************************************************************)
EXTENDS SystemUpdate, TLAPS

-----------------------------------------------------------------------------
(* The inductive invariant.                                                *)

SwitchStage == {"switching_backend", "checking_backend", "switching_web", "checking_web",
                "stabilizing"}

Original(t, s) == t.original[s] = [image |-> base[s], ref |-> t.id]

\* The types, and that base and every task hold real images.
FileTypes ==
  /\ task \in Task /\ mem \in Task /\ lastCheck \in CheckResult /\ fresh \in BOOLEAN
  /\ task.id # 0 => task.target \in [Service -> Image] /\ task.stage # "none"
  /\ task.id = 0 => task = NoTask
ProcessTypes ==
  /\ phase \in {"down", "recovering", "serving"} /\ cancelled \in BOOLEAN
  /\ pc \in {"none", "enter", "act", "leave", "finish", "fail", "rollback", "recover",
             "recoverWait"}
  /\ step \in 0..16 /\ round \in 0..(StableRounds - 1) /\ failing \in BOOLEAN
  /\ check \in [at : {"none", "web", "resolve"}, seen : [Service -> Ref]]
DockerTypes ==
  /\ container \in [Service -> Ref] /\ healthy \in [Service -> BOOLEAN]
  /\ alias \in [Service -> [TaskId -> Image \cup {NoImage}]]
  /\ store \in [Service -> SUBSET Image] /\ dumps \subseteq TaskId
  /\ registry \in [Service -> Image] /\ base \in [Service -> Image]
CounterTypes ==
  /\ nextTask \in 1..(MaxTasks + 1) /\ task.id < nextTask
  /\ faults \in 0..MaxFaults /\ saveFaults \in 0..MaxSaveFaults

\* A service runs what it ran before the task or the target, if anything, and
\* Docker has that image and the image of every alias.
DockerKnows ==
  \A s \in Service :
    /\ container[s].image \in {base[s], task.target[s], NoImage}
    /\ container[s].image # NoImage => container[s].image \in store[s]
    /\ \A t \in TaskId : /\ alias[s][t] # NoImage => alias[s][t] \in store[s]
                         /\ t >= nextTask => alias[s][t] = NoImage
                         /\ t = task.id => alias[s][t] \in {NoImage, base[s]}

\* What the state file says about Docker.
FileKnows(t) ==
  /\ t.stage \in {"none", "checking", "backing_up", "pulling", "failed"} =>
       \A s \in Service : container[s].image = base[s]
  /\ t.stage \in SwitchStage =>
       /\ t.id \in dumps
       /\ \A s \in Service : alias[s][t.id] = base[s] /\ base[s] \in store[s]
  /\ t.stage \in SwitchStage \cup {"cleaning", "rolling_back"} =>
       \A s \in Service : Original(t, s)
  /\ t.stage \in {"cleaning", "succeeded"} =>
       \A s \in Service : container[s].image = t.target[s]

\* What a job at step k knows of service s after d steps, when steps i, a and p
\* inspect, alias and deploy the service.
ServiceKnows(s, t, k, d, i, a, p) ==
  /\ d >= i => t.original[s].image = base[s]
  /\ d >= a => Original(t, s) /\ (k < FirstCleanup => alias[s][t.id] = base[s])
  /\ d < FirstSwitch => container[s].image = base[s]
  /\ d >= p => container[s].image = t.target[s]
  /\ k < FirstCleanup => base[s] \in store[s]

Progress(t, k, d) ==
  /\ ServiceKnows("backend", t, k, d, 1, 3, 8)
  /\ ServiceKnows("web", t, k, d, 2, 4, 10)
  /\ d >= 5 /\ k < FirstCleanup => t.id \in dumps

\* What the job knows, by what it does next.
JobKnows ==
  /\ pc # "none" => Open(task) /\ mem.id = task.id /\ mem.target = task.target
  /\ pc \notin {"none", "leave", "fail"} => mem = task
  /\ pc \in {"enter", "act", "leave"} => step \in 1..15
  /\ pc \in {"act", "leave"} => mem.stage = Steps[step].stage /\ task.stage = mem.stage
  /\ pc \in {"enter", "act"} => Progress(mem, step, step - 1)
  /\ pc = "leave" => Progress(mem, step, step)
  /\ pc = "fail" => /\ step \in 1..13
                    /\ \A s \in Service : IF step < FirstSwitch THEN container[s].image = base[s]
                                          ELSE Original(mem, s)
  /\ pc \in {"finish", "recoverWait"} => mem.stage = "cleaning"
  /\ pc = "recoverWait" => step \in 1..2
  /\ pc = "rollback" =>
       /\ mem.stage = "rolling_back" /\ step \in 1..5
       /\ ~failing => /\ step >= 3 => container["backend"] = mem.original["backend"]
                      /\ step = 5 => container["web"] = mem.original["web"]

\* A Check saw what a service runs now or ran before the task.
Seen(s) ==
  /\ check.seen[s].image \in {base[s], task.target[s]} \ {NoImage}
  /\ task.stage = "succeeded" => check.seen[s].image = task.target[s]

CheckKnows ==
  /\ check.at # "none" => Seen("backend")
  /\ check.at = "resolve" => Seen("web")

\* The pairs of images have one version each, and a task or an offered update
\* is newer than what the services return to.
SameVersion(pair) == VersionOf[pair["backend"]] = VersionOf[pair["web"]]
Newer(pair, s) ==
  VersionOf[pair[s]] > VersionOf[IF task.stage = "succeeded" THEN task.target[s] ELSE base[s]]

VersionsKnow ==
  /\ task.id # 0 => /\ SameVersion(task.target)
                    /\ \A s \in Service : VersionOf[task.target[s]] > VersionOf[base[s]]
  /\ task.id # 0 \/ lastCheck.available =>
       lastCheck.target \in [Service -> Image] /\ SameVersion(lastCheck.target)
  /\ lastCheck.available => \A s \in Service : Newer(lastCheck.target, s)
  /\ task.stage = "succeeded" =>
       \A s \in Service : lastCheck.current[s].image = task.target[s]

SystemInv ==
  /\ FileTypes /\ ProcessTypes /\ DockerTypes /\ CounterTypes
  /\ DockerKnows /\ FileKnows(task) /\ JobKnows /\ CheckKnows /\ VersionsKnow

-----------------------------------------------------------------------------
(* The steps of a job.                                                     *)

LEMMA StepsList ==
  /\ Len(Steps) = 15
  /\ Steps[1]  = Call("inspect", "backend", "checking")
  /\ Steps[2]  = Call("inspect", "web", "checking")
  /\ Steps[3]  = Call("alias", "backend", "backing_up")
  /\ Steps[4]  = Call("alias", "web", "backing_up")
  /\ Steps[5]  = Call("backup", "backend", "backing_up")
  /\ Steps[6]  = Call("pull", "backend", "pulling")
  /\ Steps[7]  = Call("pull", "web", "pulling")
  /\ Steps[8]  = Call("deploy", "backend", "switching_backend")
  /\ Steps[9]  = Call("wait", "backend", "checking_backend")
  /\ Steps[10] = Call("deploy", "web", "switching_web")
  /\ Steps[11] = Call("wait", "web", "checking_web")
  /\ Steps[12] = Call("wait", "backend", "stabilizing")
  /\ Steps[13] = Call("wait", "web", "stabilizing")
  /\ Steps[14] = Call("remove", "backend", "cleaning")
  /\ Steps[15] = Call("remove", "web", "cleaning")
BY DEF Steps, Inspection, Aliases, Backup, Pull, SwitchBackend, SwitchWeb, Stabilize, Cleanup

\* Which steps make a call, for which service and under which stage.
LEMMA StepLemma ==
  ASSUME NEW k \in 1..15
  PROVE  /\ Steps[k].svc = IF k \in {2, 4, 7, 10, 11, 13, 15} THEN "web" ELSE "backend"
         /\ Steps[k].op = "inspect" => k \in {1, 2}
         /\ Steps[k].op = "alias" => k \in {3, 4}
         /\ Steps[k].op = "backup" => k = 5
         /\ Steps[k].op = "pull" => k \in {6, 7}
         /\ Steps[k].op = "deploy" => k \in {8, 10}
         /\ Steps[k].op = "wait" => k \in {9, 11, 12, 13}
         /\ Steps[k].op = "remove" => k \in {14, 15}
         /\ k < 8 => Steps[k].stage \in {"checking", "backing_up", "pulling"}
         /\ k >= 8 /\ k < 14 => Steps[k].stage \in SwitchStage
         /\ k >= 14 => Steps[k].stage = "cleaning"
<1>1. \A o, s, g : Call(o, s, g).op = o /\ Call(o, s, g).svc = s /\ Call(o, s, g).stage = g
  BY DEF Call
<1>2. CASE k \in 1..7
  BY <1>1, <1>2, StepsList
<1>3. CASE k \in 8..13
  BY <1>1, <1>3, StepsList DEF SwitchStage
<1>4. CASE k \in 14..15
  BY <1>1, <1>4, StepsList
<1> QED BY <1>2, <1>3, <1>4

LEMMA SvcLemma ==
  ASSUME step \in 1..15
  PROVE  /\ Svc \in Service
         /\ step \in {1, 3, 5, 6, 8, 9, 12, 14} => Svc = "backend"
         /\ step \in {2, 4, 7, 10, 11, 13, 15} => Svc = "web"
BY StepLemma DEF Svc, Service

LEMMA TypesFollow == FileTypes /\ ProcessTypes /\ DockerTypes /\ CounterTypes => TypeOK
<1>1. Len(Steps) + 1 = 16
  BY StepsList
<1> QED BY <1>1 DEF FileTypes, ProcessTypes, DockerTypes, CounterTypes, TypeOK

-----------------------------------------------------------------------------
(* Tasks.                                                                  *)

LEMMA StagesLemma ==
  /\ Terminal \subseteq Stage /\ SwitchStage \subseteq Stage /\ "none" \notin Stage
  /\ {"checking", "backing_up", "pulling", "cleaning", "rolling_back"} \subseteq Stage
  /\ SwitchStage \cap Terminal = {} /\ "none" \notin SwitchStage
  /\ \A g \in {"checking", "backing_up", "pulling", "cleaning", "rolling_back"} :
       g \notin Terminal /\ g \notin SwitchStage
  /\ \A g \in Terminal : g \in {"succeeded", "failed", "manual_intervention"} /\ g \notin SwitchStage
  /\ \A g \in Stage : g \in {"checking", "backing_up", "pulling", "cleaning", "rolling_back"}
                            \cup SwitchStage \cup Terminal
BY DEF Terminal, Stage, SwitchStage

LEMMA NoTaskLemma ==
  /\ NoTask \in Task /\ NoTask.id = 0 /\ NoTask.stage = "none"
  /\ \A s \in Service : NoTask.target[s] = NoImage /\ NoTask.original[s] = Nothing
  /\ Nothing \in Ref /\ Nothing.image = NoImage /\ Nothing.ref = 0
<1>1. Nothing \in Ref /\ Nothing.image = NoImage /\ Nothing.ref = 0
  BY DEF Nothing, Ref
<1> QED BY <1>1 DEF NoTask, Task, NoImage

LEMMA TaskRecord ==
  ASSUME NEW t \in Task
  PROVE  /\ t.id \in TaskId \cup {0} /\ t.stage \in Stage \cup {"none"}
         /\ t.original \in [Service -> Ref] /\ t.target \in [Service -> Image \cup {NoImage}]
         /\ \A s \in Service : t.original[s] \in Ref /\ t.original[s].image \in Image \cup {NoImage}
                               /\ t.original[s].ref \in TaskId \cup {0}
BY DEF Task, Ref

\* u is t but for its stage, rolledBack and cleanup.
Restaged(u, t, stage) ==
  /\ u \in Task /\ u.id = t.id /\ u.original = t.original /\ u.target = t.target
  /\ u.stage = stage

LEMMA RestageLemma ==
  ASSUME NEW t \in Task, NEW stage \in Stage, NEW b \in BOOLEAN,
         NEW c \in {"not_run", "complete", "pending"}
  PROVE  /\ Restaged([t EXCEPT !.stage = stage], t, stage)
         /\ Restaged([t EXCEPT !.stage = stage, !.rolledBack = b], t, stage)
         /\ Restaged([t EXCEPT !.stage = stage, !.cleanup = c], t, stage)
BY DEF Task, Restaged

\* u is t but for the original of service s.
Reoriginal(u, t, s, r) ==
  /\ u \in Task /\ u.id = t.id /\ u.target = t.target /\ u.stage = t.stage
  /\ u.original[s] = r /\ \A v \in Service : v # s => u.original[v] = t.original[v]

LEMMA OriginalLemma ==
  ASSUME NEW t \in Task, NEW s \in Service, NEW r \in Ref
  PROVE  Reoriginal([t EXCEPT !.original[s] = r], t, s, r)
<1>1. t.original \in [Service -> Ref]
  BY TaskRecord
<1>2. [t.original EXCEPT ![s] = r] \in [Service -> Ref]
  BY <1>1
<1>3. [t EXCEPT !.original[s] = r] = [t EXCEPT !.original = [t.original EXCEPT ![s] = r]]
  BY DEF Task
<1>4. /\ [t EXCEPT !.original = [t.original EXCEPT ![s] = r]] \in Task
      /\ [t EXCEPT !.original = [t.original EXCEPT ![s] = r]].original = [t.original EXCEPT ![s] = r]
  BY <1>2 DEF Task
<1> QED BY <1>1, <1>3, <1>4 DEF Task, Reoriginal

LEMMA OriginalRefLemma ==
  ASSUME NEW t \in Task, NEW s \in Service, t.id # 0
  PROVE  Reoriginal([t EXCEPT !.original[s].ref = t.id], t, s,
                    [image |-> t.original[s].image, ref |-> t.id])
<1> DEFINE r == [image |-> t.original[s].image, ref |-> t.id]
<1>1. t.original \in [Service -> Ref] /\ t.original[s] \in Ref /\ t.id \in TaskId \cup {0}
  BY TaskRecord
<1>2. r \in Ref /\ [t.original[s] EXCEPT !.ref = t.id] = r
  BY <1>1 DEF Ref
<1>3. [t EXCEPT !.original[s].ref = t.id] = [t EXCEPT !.original[s] = r]
  BY <1>1, <1>2 DEF Task
<1> QED BY <1>2, <1>3, OriginalLemma

LEMMA OriginalImage ==
  ASSUME NEW t, NEW s, Original(t, s)
  PROVE  t.original[s].image = base[s] /\ t.original[s].ref = t.id
BY DEF Original

LEMMA NumberLemma ==
  /\ NoImage \notin Image /\ Image \subseteq Nat /\ TaskId \subseteq Nat /\ 0 \notin TaskId
  /\ \A i \in Image : VersionOf[i] \in Nat
  /\ StableRounds \in Nat /\ 0 \in 0..(StableRounds - 1)
BY UpdateAssumption DEF NoImage, TaskId

LEMMA SaveLemma ==
  ASSUME CounterTypes, NEW ok \in BOOLEAN, Save(ok)
  PROVE  saveFaults' \in 0..MaxSaveFaults
<1>1. saveFaults \in 0..MaxSaveFaults /\ MaxSaveFaults \in Nat
  BY UpdateAssumption DEF CounterTypes
<1> QED BY <1>1 DEF Save

LEMMA BreaksLemma ==
  ASSUME CounterTypes, NEW possible, Breaks(possible)
  PROVE  faults' \in 0..MaxFaults
<1>1. faults \in 0..MaxFaults /\ MaxFaults \in Nat
  BY UpdateAssumption DEF CounterTypes
<1> QED BY <1>1 DEF Breaks

-----------------------------------------------------------------------------
(* The first state.                                                        *)

LEMMA SystemInit == Init => SystemInv
<1> SUFFICES ASSUME Init PROVE SystemInv
  OBVIOUS
<1>1. [image |-> FirstImage, ref |-> 0] \in Ref
  BY UpdateAssumption DEF Ref
<1>2. FileTypes
  <2>1. NoCheck \in CheckResult
    BY NoTaskLemma DEF NoCheck, CheckResult
  <2> QED BY <2>1, NoTaskLemma DEF Init, FileTypes
<1>3. ProcessTypes
  <2>1. NoRequest \in [at : {"none", "web", "resolve"}, seen : [Service -> Ref]]
    BY NoTaskLemma DEF NoRequest
  <2>2. step \in 0..16 /\ round \in 0..(StableRounds - 1)
    BY NumberLemma DEF Init
  <2> QED BY <2>1, <2>2 DEF Init, ProcessTypes
<1>4. DockerTypes
  BY <1>1, UpdateAssumption DEF Init, DockerTypes
<1>5. CounterTypes
  BY NoTaskLemma, UpdateAssumption DEF Init, CounterTypes
<1>6. DockerKnows
  BY UpdateAssumption, NumberLemma DEF Init, DockerKnows
<1>7. FileKnows(task)
  BY NoTaskLemma, StagesLemma DEF Init, FileKnows
<1>8. JobKnows
  BY DEF Init, JobKnows
<1>9. CheckKnows
  BY DEF Init, CheckKnows, NoRequest
<1>10. VersionsKnow
  BY NoTaskLemma DEF Init, VersionsKnow, NoCheck
<1> QED BY <1>2, <1>3, <1>4, <1>5, <1>6, <1>7, <1>8, <1>9, <1>10 DEF SystemInv

-----------------------------------------------------------------------------
(* Steps that leave Docker alone.                                          *)

Still == UNCHANGED <<container, alias, store, dumps, base, nextTask>>

LEMMA TaskStays ==
  ASSUME SystemInv, Still, task' = task
  PROVE  /\ DockerKnows' /\ FileKnows(task)'
         /\ check' = check => CheckKnows'
         /\ lastCheck' = lastCheck => VersionsKnow'
         /\ UNCHANGED <<pc, step, mem>> /\ failing' = failing => JobKnows'
<1>1. DockerKnows'
  BY DEF SystemInv, Still, DockerKnows
<1>2. FileKnows(task)'
  BY DEF SystemInv, Still, FileKnows, Original
<1>3. check' = check => CheckKnows'
  BY DEF SystemInv, Still, CheckKnows, Seen
<1>4. lastCheck' = lastCheck => VersionsKnow'
  BY DEF SystemInv, Still, VersionsKnow, Newer, SameVersion
<1>5. ASSUME UNCHANGED <<pc, step, mem, failing>> PROVE JobKnows'
  <2>1. /\ Progress(mem, step, step - 1)' <=> Progress(mem, step, step - 1)
        /\ Progress(mem, step, step)' <=> Progress(mem, step, step)
    BY <1>5 DEF Still, Progress, ServiceKnows, Original
  <2> QED BY <1>5, <2>1 DEF SystemInv, Still, JobKnows, Open, Original
<1> QED BY <1>1, <1>2, <1>3, <1>4, <1>5

\* The job writes its task u, which has not succeeded, or fails to.
LEMMA TaskWritten ==
  ASSUME SystemInv, Still, UNCHANGED <<check, lastCheck>>, Open(task), ~Locked,
         NEW u, u.id = task.id, u.target = task.target, u.stage # "succeeded",
         FileKnows(u), task' \in {task, u}
  PROVE  DockerKnows' /\ FileKnows(task)' /\ CheckKnows' /\ VersionsKnow'
<1>1. CASE task' = task
  BY <1>1, TaskStays
<1>2. CASE task' = u
  <2>1. task.stage # "succeeded"
    BY DEF Open, Terminal
  <2>2. DockerKnows'
    BY <1>2 DEF SystemInv, Still, DockerKnows
  <2>3. FileKnows(task)'
    BY <1>2 DEF Still, FileKnows, Original
  <2>4. CheckKnows'
    BY DEF Locked, CheckKnows
  <2>5. VersionsKnow'
    BY <1>2, <2>1 DEF SystemInv, Still, VersionsKnow, Newer, SameVersion
  <2> QED BY <2>2, <2>3, <2>4, <2>5
<1> QED BY <1>1, <1>2

LEMMA ReturnLemma ==
  ASSUME SystemInv, NEW ok \in BOOLEAN, Return(ok), UNCHANGED <<check, cancelled>>
  PROVE  JobKnows' /\ ProcessTypes' /\ mem' \in Task
<1>1. pc' = "none" /\ mem' = NoTask
  BY DEF Return
<1>2. JobKnows'
  BY <1>1 DEF JobKnows
<1>3. ProcessTypes'
  <2>1. step' \in 0..16 /\ round' \in 0..(StableRounds - 1)
    BY NumberLemma DEF Return
  <2>2. phase' \in {"down", "recovering", "serving"} /\ failing' = FALSE
    BY DEF SystemInv, ProcessTypes, Return
  <2> QED BY <1>1, <2>1, <2>2 DEF SystemInv, ProcessTypes
<1> QED BY <1>1, <1>2, <1>3, NoTaskLemma

\* What the steps that only save leave alone.
SaveFrame ==
  /\ Still /\ UNCHANGED <<healthy, registry, check, fresh, cancelled, lastCheck>>
  /\ faults' \in 0..MaxFaults

LEMMA SaveFrameTypes ==
  ASSUME SystemInv, SaveFrame, NEW u \in Task, u.id = task.id, u.target = task.target,
         Open(task), u.stage \in Stage, task' \in {task, u}, mem' \in Task,
         saveFaults' \in 0..MaxSaveFaults
  PROVE  FileTypes' /\ DockerTypes' /\ CounterTypes'
<1>1. task.id # 0 /\ u.stage # "none"
  BY StagesLemma DEF Open
<1>2. FileTypes'
  BY <1>1 DEF SystemInv, FileTypes, SaveFrame
<1>3. DockerTypes'
  BY DEF SystemInv, DockerTypes, SaveFrame, Still
<1>4. CounterTypes'
  BY DEF SystemInv, CounterTypes, SaveFrame, Still
<1> QED BY <1>2, <1>3, <1>4

\* The job ends, and leaves the file or writes a task into it.
LEMMA JobEnds ==
  ASSUME SystemInv, SaveFrame, pc # "none", NEW ok \in BOOLEAN, Return(ok),
         NEW u \in Task, u.id = task.id, u.target = task.target, u.stage # "succeeded",
         u.stage \in Stage, FileKnows(u), saveFaults' \in 0..MaxSaveFaults,
         task' = task \/ (~Locked /\ task' = u)
  PROVE  SystemInv'
<1>1. Open(task)
  BY DEF SystemInv, JobKnows
<1>2. JobKnows' /\ ProcessTypes' /\ mem' \in Task
  BY ReturnLemma DEF SaveFrame
<1>3. FileTypes' /\ DockerTypes' /\ CounterTypes'
  BY <1>1, <1>2, SaveFrameTypes
<1>4. DockerKnows' /\ FileKnows(task)' /\ CheckKnows' /\ VersionsKnow'
  <2>1. CASE task' = task
    BY <2>1, TaskStays DEF SaveFrame
  <2>2. CASE ~Locked /\ task' = u
    BY <2>2, <1>1, TaskWritten DEF SaveFrame
  <2> QED BY <2>1, <2>2
<1> QED BY <1>2, <1>3, <1>4 DEF SystemInv

LEMMA JobLeaves ==
  ASSUME SystemInv, SaveFrame, pc # "none", NEW ok \in BOOLEAN, Return(ok),
         UNCHANGED <<task, saveFaults>>
  PROVE  SystemInv'
<1>1. Open(task) /\ task \in Task /\ FileKnows(task)
  BY DEF SystemInv, JobKnows, FileTypes
<1>2. task.stage \in Stage /\ task.stage # "succeeded"
  BY <1>1, TaskRecord DEF Open, SystemInv, FileTypes, Terminal
<1> QED BY <1>1, <1>2, JobEnds DEF SystemInv, CounterTypes

-----------------------------------------------------------------------------
(* The steps of the job that save.                                         *)

LEMMA MemTask ==
  ASSUME SystemInv, pc # "none"
  PROVE  /\ mem \in Task /\ mem.id = task.id /\ mem.target = task.target /\ Open(task)
         /\ mem.id \in TaskId /\ mem.target \in [Service -> Image]
<1>1. mem \in Task /\ mem.id = task.id /\ mem.target = task.target /\ Open(task) /\ task.id # 0
  BY DEF SystemInv, FileTypes, JobKnows, Open
<1> QED BY <1>1, TaskRecord DEF SystemInv, FileTypes

LEMMA ConcludeInv ==
  ASSUME SystemInv, SaveFrame, pc # "none", NEW stage \in {"failed", "manual_intervention"},
         NEW b \in BOOLEAN, Conclude(mem, stage, b),
         stage = "failed" => \A s \in Service : container[s].image = base[s]
  PROVE  SystemInv'
<1> DEFINE u == [mem EXCEPT !.stage = stage, !.rolledBack = b]
<1>1. mem \in Task /\ mem.id = task.id /\ mem.target = task.target
  BY MemTask
<1>2. stage \in Stage /\ stage # "succeeded"
  BY StagesLemma DEF Terminal
<1>3. Restaged(u, mem, stage)
  BY <1>1, <1>2, RestageLemma
<1>4. PICK ok \in BOOLEAN : SaveTask(u, ok) /\ Return(ok)
  BY DEF Conclude
<1>5. ~Locked /\ task' \in {task, u} /\ Save(ok)
  BY <1>4 DEF SaveTask
<1>6. saveFaults' \in 0..MaxSaveFaults
  BY <1>5, SaveLemma DEF SystemInv
<1> HIDE DEF u
<1>7. FileKnows(u)
  BY <1>3, StagesLemma DEF FileKnows, Restaged, Terminal
<1> QED BY <1>1, <1>2, <1>3, <1>4, <1>5, <1>6, <1>7, JobEnds DEF Restaged

LEMMA BeginRollbackInv ==
  ASSUME SystemInv, SaveFrame, pc # "none", BeginRollback(mem),
         \A s \in Service : Original(mem, s)
  PROVE  SystemInv'
<1> DEFINE u == [mem EXCEPT !.stage = "rolling_back"]
<1>1. mem \in Task /\ mem.id = task.id /\ mem.target = task.target /\ Open(task) /\ task.id # 0
  BY MemTask DEF Open
<1>2. "rolling_back" \in Stage /\ "rolling_back" \notin Terminal /\ "rolling_back" \notin SwitchStage
  BY StagesLemma
<1>3. Restaged(u, mem, "rolling_back")
  BY <1>1, <1>2, RestageLemma
<1>4. CASE Conclude(mem, "manual_intervention", FALSE)
  BY <1>4, ConcludeInv
<1>5. ASSUME SaveTask(u, TRUE) \/ SaveTask(u, FALSE)
      PROVE  ~Locked /\ task' \in {task, u} /\ saveFaults' \in 0..MaxSaveFaults
  BY <1>5, SaveLemma DEF SaveTask, SystemInv
<1>6. SaveTask(u, TRUE) => task' = u
  BY DEF SaveTask
<1>7. BeginRollback(mem) =>
        \/ Conclude(mem, "manual_intervention", FALSE)
        \/ SaveTask(u, FALSE) /\ Return(FALSE)
        \/ /\ SaveTask(u, TRUE)
           /\ pc' = "rollback" /\ step' = 1 /\ round' = 0 /\ failing' = FALSE
           /\ mem' = u /\ UNCHANGED phase
  BY DEF BeginRollback
<1> HIDE DEF u
<1>8. FileKnows(u)
  BY <1>2, <1>3 DEF FileKnows, Restaged, Original
<1>9. CASE SaveTask(u, FALSE) /\ Return(FALSE)
  BY <1>1, <1>2, <1>3, <1>5, <1>8, <1>9, JobEnds DEF Restaged
<1>10. CASE /\ SaveTask(u, TRUE)
            /\ pc' = "rollback" /\ step' = 1 /\ round' = 0 /\ failing' = FALSE
            /\ mem' = u /\ UNCHANGED phase
  <2>1. ~Locked /\ task' = u /\ saveFaults' \in 0..MaxSaveFaults
    BY <1>5, <1>6, <1>10
  <2>2. FileTypes' /\ DockerTypes' /\ CounterTypes'
    BY <1>1, <1>2, <1>3, <1>10, <2>1, SaveFrameTypes DEF Restaged
  <2>3. DockerKnows' /\ FileKnows(task)' /\ CheckKnows' /\ VersionsKnow'
    BY <1>1, <1>3, <1>8, <2>1, TaskWritten DEF Restaged, SaveFrame
  <2>4. ProcessTypes'
    <3>1. step' \in 0..16 /\ round' \in 0..(StableRounds - 1)
      BY <1>10, NumberLemma
    <3> QED BY <1>10, <3>1 DEF SystemInv, ProcessTypes, SaveFrame
  <2>5. JobKnows'
    <3>1. Open(task)'
      BY <1>1, <1>2, <1>3, <2>1 DEF Open, Restaged
    <3>2. step' \in 1..5 /\ ~(step' >= 3) /\ ~(step' = 5)
      BY <1>10
    <3> QED BY <1>3, <1>10, <2>1, <3>1, <3>2 DEF JobKnows, Restaged
  <2> QED BY <2>2, <2>3, <2>4, <2>5 DEF SystemInv
<1> QED BY <1>4, <1>7, <1>9, <1>10

LEMMA HandleFailureInv == SystemInv /\ HandleFailure => SystemInv'
<1> SUFFICES ASSUME SystemInv, HandleFailure PROVE SystemInv'
  OBVIOUS
<1>1. pc = "fail" /\ pc # "none" /\ SaveFrame
  BY DEF HandleFailure, SaveFrame, Still, dockerVars, SystemInv, CounterTypes
<1>2. step < FirstSwitch => \A s \in Service : container[s].image = base[s]
  BY <1>1 DEF SystemInv, JobKnows
<1>3. ~(step < FirstSwitch) => \A s \in Service : Original(mem, s)
  BY <1>1 DEF SystemInv, JobKnows
<1>4. step \in Int /\ FirstSwitch \in Int
  BY DEF SystemInv, ProcessTypes, FirstSwitch
<1>5. CASE Return(FALSE) /\ UNCHANGED <<task, saveFaults>>
  BY <1>1, <1>5, JobLeaves
<1>6. CASE step >= FirstSwitch /\ BeginRollback(mem)
  BY <1>1, <1>3, <1>4, <1>6, BeginRollbackInv
<1>7. CASE ~(step >= FirstSwitch) /\ Conclude(mem, "failed", FALSE)
  <2>1. step < FirstSwitch
    BY <1>4, <1>7
  <2>2. \A s \in Service : container[s].image = base[s]
    BY <1>2, <2>1
  <2> QED BY <1>1, <1>7, <2>2, ConcludeInv
<1> QED BY <1>5, <1>6, <1>7 DEF HandleFailure

LEMMA EndRollbackInv == SystemInv /\ EndRollback => SystemInv'
<1> SUFFICES ASSUME SystemInv, EndRollback PROVE SystemInv'
  OBVIOUS
<1>1. pc = "rollback" /\ step = 5 /\ SaveFrame
  BY DEF EndRollback, SaveFrame, Still, dockerVars, SystemInv, CounterTypes
<1>2. /\ mem = task /\ mem.stage = "rolling_back"
      /\ ~failing => container["backend"] = mem.original["backend"]
                     /\ container["web"] = mem.original["web"]
  BY <1>1 DEF SystemInv, JobKnows
<1>3. \A s \in Service : mem.original[s].image = base[s]
  <2>1. FileKnows(mem)
    BY <1>2 DEF SystemInv
  <2>2. \A s \in Service : Original(mem, s)
    BY <1>2, <2>1 DEF FileKnows
  <2> QED BY <2>2, OriginalImage
<1>4. ~failing => \A s \in Service : container[s].image = base[s]
  BY <1>2, <1>3 DEF Service
<1>5. CASE Return(FALSE) /\ UNCHANGED <<task, saveFaults>>
  BY <1>1, <1>5, JobLeaves
<1>6. CASE Conclude(mem, "manual_intervention", FALSE)
  BY <1>1, <1>6, ConcludeInv
<1>7. CASE ~failing /\ Conclude(mem, "failed", TRUE)
  BY <1>1, <1>4, <1>7, ConcludeInv
<1> QED BY <1>5, <1>6, <1>7 DEF EndRollback

LEMMA RecoverInv == SystemInv /\ Recover => SystemInv'
<1> SUFFICES ASSUME SystemInv, Recover PROVE SystemInv'
  OBVIOUS
<1> DEFINE runs == [s \in Service |-> container[s].image]
<1>1. pc = "recover" /\ Still /\ UNCHANGED <<healthy, registry, check, fresh, cancelled, lastCheck>>
  BY DEF Recover, Still, dockerVars
<1>2. faults' \in 0..MaxFaults
  BY BreaksLemma DEF Recover, SystemInv, CounterTypes
<1>3. SaveFrame
  BY <1>1, <1>2 DEF SaveFrame
<1>4. mem = task /\ Open(mem) /\ FileKnows(mem)
  BY <1>1 DEF SystemInv, JobKnows
<1>5. mem.stage \in {"checking", "backing_up", "pulling", "cleaning", "rolling_back"} \cup SwitchStage
  BY <1>4, StagesLemma, TaskRecord DEF SystemInv, FileTypes, Open
<1>6. CASE Return(FALSE) /\ UNCHANGED <<task, saveFaults>>
  BY <1>1, <1>3, <1>6, JobLeaves
<1>7. CASE Conclude(mem, "manual_intervention", FALSE)
  BY <1>1, <1>3, <1>7, ConcludeInv
<1>8. CASE Recovery(mem, runs) = "fail" /\ Conclude(mem, "failed", FALSE)
  <2>1. mem.stage \in {"checking", "backing_up", "pulling"}
    BY <1>8 DEF Recovery
  <2>2. \A s \in Service : container[s].image = base[s]
    BY <1>4, <2>1 DEF FileKnows
  <2> QED BY <1>1, <1>3, <1>8, <2>2, ConcludeInv
<1>9. CASE Recovery(mem, runs) = "rollback" /\ BeginRollback(mem)
  <2>1. mem.stage \notin {"checking", "backing_up", "pulling"}
    BY <1>9 DEF Recovery
  <2>2. \A s \in Service : Original(mem, s)
    BY <1>4, <1>5, <2>1 DEF FileKnows
  <2> QED BY <1>1, <1>3, <1>9, <2>2, BeginRollbackInv
<1>10. CASE /\ Recovery(mem, runs) = "clean" /\ pc' = "recoverWait" /\ step' = 1
            /\ UNCHANGED <<task, saveFaults, phase, round, failing, mem>>
  <2>1. mem.stage = "cleaning"
    BY <1>10 DEF Recovery
  <2>2. FileTypes' /\ DockerTypes' /\ CounterTypes'
    BY <1>3, <1>10 DEF SystemInv, FileTypes, DockerTypes, CounterTypes, SaveFrame, Still
  <2>3. ProcessTypes'
    BY <1>1, <1>10 DEF SystemInv, ProcessTypes
  <2>4. DockerKnows' /\ FileKnows(task)' /\ CheckKnows' /\ VersionsKnow'
    BY <1>1, <1>10, TaskStays
  <2>5. JobKnows'
    BY <1>4, <1>10, <2>1 DEF JobKnows, Open
  <2> QED BY <2>2, <2>3, <2>4, <2>5 DEF SystemInv
<1> QED BY <1>6, <1>7, <1>8, <1>9, <1>10 DEF Recover

LEMMA CleanupKnows ==
  ASSUME SystemInv, mem = task, mem.stage = "cleaning"
  PROVE  Progress(mem, FirstCleanup, FirstCleanup - 1)
<1>1. \A s \in Service : Original(mem, s) /\ container[s].image = mem.target[s]
  BY DEF SystemInv, FileKnows
<1>2. \A s \in Service : mem.original[s].image = base[s]
  BY <1>1, OriginalImage
<1> QED BY <1>1, <1>2 DEF Progress, ServiceKnows, FirstCleanup, FirstSwitch, Service

LEMMA RecoverWaitInv == SystemInv /\ RecoverWait => SystemInv'
<1> SUFFICES ASSUME SystemInv, RecoverWait PROVE SystemInv'
  OBVIOUS
<1>1. /\ pc = "recoverWait" /\ Still
      /\ UNCHANGED <<healthy, registry, check, fresh, cancelled, lastCheck>>
  BY DEF RecoverWait, Still, dockerVars
<1>2. faults' \in 0..MaxFaults
  BY BreaksLemma DEF RecoverWait, SystemInv, CounterTypes
<1>3. SaveFrame
  BY <1>1, <1>2 DEF SaveFrame
<1>4. mem = task /\ Open(mem) /\ FileKnows(mem) /\ mem.stage = "cleaning" /\ step \in 1..2
  BY <1>1 DEF SystemInv, JobKnows
<1>5. CASE BeginRollback(mem)
  <2>1. \A s \in Service : Original(mem, s)
    BY <1>4 DEF FileKnows
  <2> QED BY <1>1, <1>3, <1>5, <2>1, BeginRollbackInv
<1>6. CASE /\ IF step = 1 THEN step' = 2 /\ UNCHANGED pc ELSE step' = FirstCleanup /\ pc' = "enter"
           /\ UNCHANGED <<task, saveFaults, phase, round, failing, mem>>
  <2>1. FileTypes' /\ DockerTypes' /\ CounterTypes'
    BY <1>3, <1>6 DEF SystemInv, FileTypes, DockerTypes, CounterTypes, SaveFrame, Still
  <2>2. ProcessTypes'
    BY <1>1, <1>6 DEF SystemInv, ProcessTypes, FirstCleanup
  <2>3. DockerKnows' /\ FileKnows(task)' /\ CheckKnows' /\ VersionsKnow'
    BY <1>1, <1>6, TaskStays
  <2>4. ASSUME step' = 2, pc' = pc PROVE JobKnows'
    BY <1>1, <1>4, <1>6, <2>4 DEF JobKnows, Open
  <2>5. ASSUME step' = FirstCleanup, pc' = "enter" PROVE JobKnows'
    <3>1. Progress(mem, FirstCleanup, FirstCleanup - 1)'
      BY <1>1, <1>4, <1>6, CleanupKnows DEF Still, Progress, ServiceKnows, Original
    <3>2. Progress(mem, step, step - 1)'
      BY <2>5, <3>1
    <3>3. step' \in 1..15
      BY <2>5 DEF FirstCleanup
    <3> QED BY <1>4, <1>6, <2>5, <3>2, <3>3 DEF JobKnows, Open
  <2> QED BY <1>6, <2>1, <2>2, <2>3, <2>4, <2>5 DEF SystemInv
<1> QED BY <1>5, <1>6 DEF RecoverWait

\* A task that has the stage of its step, written into the file.
LEMMA StageKnown ==
  ASSUME NEW t, NEW k \in 1..15, NEW d \in {k - 1, k}, Progress(t, k, d),
         t.stage = Steps[k].stage
  PROVE  FileKnows(t)
<1>1. k < 8 => /\ t.stage \in {"checking", "backing_up", "pulling"}
               /\ \A s \in Service : container[s].image = base[s]
  <2>1. k < 8 => d < 8
    OBVIOUS
  <2> QED BY <2>1, StepLemma DEF Progress, ServiceKnows, FirstSwitch, Service
<1>2. k >= 8 => \A s \in Service : Original(t, s)
  <2>1. k >= 8 => d >= 4 /\ d >= 3
    OBVIOUS
  <2> QED BY <2>1 DEF Progress, ServiceKnows, Service
<1>3. k >= 8 /\ k < 14 =>
        /\ t.stage \in SwitchStage /\ t.id \in dumps
        /\ \A s \in Service : alias[s][t.id] = base[s] /\ base[s] \in store[s]
  <2>1. k >= 8 => d >= 5 /\ d >= 4 /\ d >= 3
    OBVIOUS
  <2> QED BY <2>1, StepLemma DEF Progress, ServiceKnows, FirstCleanup, Service
<1>4. k >= 14 => /\ t.stage = "cleaning"
                 /\ \A s \in Service : container[s].image = t.target[s]
  <2>1. k >= 14 => d >= 8 /\ d >= 10
    OBVIOUS
  <2> QED BY <2>1, StepLemma DEF Progress, ServiceKnows, Service
<1>5. k < 8 \/ (k >= 8 /\ k < 14) \/ k >= 14
  OBVIOUS
<1> QED BY <1>1, <1>2, <1>3, <1>4, <1>5, StagesLemma DEF FileKnows, Terminal

LEMMA StepStage ==
  ASSUME NEW k \in 1..15
  PROVE  Steps[k].stage \in Stage /\ Steps[k].stage \notin Terminal /\ Steps[k].stage # "succeeded"
<1>1. k < 8 \/ (k >= 8 /\ k < 14) \/ k >= 14
  OBVIOUS
<1> QED BY <1>1, StepLemma, StagesLemma DEF Terminal

LEMMA ProgressSame ==
  ASSUME NEW t, NEW u, u.id = t.id, u.original = t.original, u.target = t.target,
         NEW k, NEW d, Progress(t, k, d)
  PROVE  Progress(u, k, d)
BY DEF Progress, ServiceKnows, Original

LEMMA ProgressMoves ==
  ASSUME NEW t, NEW k \in 1..15, Progress(t, k, k)
  PROVE  Progress(t, k + 1, k) /\ (k = 13 => Progress(t, 12, 11))
<1>1. Progress(t, k + 1, k)
  BY DEF Progress, ServiceKnows, FirstCleanup, FirstSwitch
<1>2. k = 13 => Progress(t, 12, 11)
  BY DEF Progress, ServiceKnows, FirstCleanup, FirstSwitch
<1> QED BY <1>1, <1>2

\* What a failed job relies on.
LEMMA ProgressFails ==
  ASSUME NEW t, NEW k \in 1..13, NEW d \in {k - 1, k}, Progress(t, k, d)
  PROVE  \A s \in Service : IF k < FirstSwitch THEN container[s].image = base[s] ELSE Original(t, s)
<1>1. CASE k < FirstSwitch
  <2>1. d < FirstSwitch
    BY <1>1 DEF FirstSwitch
  <2> QED BY <1>1, <2>1 DEF Progress, ServiceKnows, Service
<1>2. CASE ~(k < FirstSwitch)
  <2>1. d >= 3 /\ d >= 4
    BY <1>2 DEF FirstSwitch
  <2> QED BY <1>2, <2>1 DEF Progress, ServiceKnows, Service
<1> QED BY <1>1, <1>2

LEMMA SaveFailedInv ==
  ASSUME SystemInv, SaveFrame, pc \in {"enter", "leave"},
         NEW t \in Task, t.id = task.id, t.target = task.target, t.stage = Steps[step].stage,
         NEW d \in {step - 1, step}, Progress(t, step, d),
         SaveTask(t, FALSE), SaveFailed(t)
  PROVE  SystemInv'
<1>1. step \in 1..15 /\ Open(task) /\ pc # "none" /\ task.id # 0
  BY DEF SystemInv, JobKnows, Open
<1>2. FileKnows(t) /\ t.stage \in Stage /\ t.stage \notin Terminal /\ t.stage # "succeeded"
  BY <1>1, StageKnown, StepStage
<1>3. ~Locked /\ task' \in {task, t} /\ Save(FALSE)
  BY DEF SaveTask
<1>4. saveFaults' \in 0..MaxSaveFaults
  BY <1>3, SaveLemma DEF SystemInv
<1>5. CASE step >= FirstCleanup /\ Return(FALSE)
  BY <1>1, <1>2, <1>3, <1>4, <1>5, JobEnds
<1>6. CASE /\ ~(step >= FirstCleanup)
           /\ pc' = "fail" /\ mem' = t /\ UNCHANGED <<phase, step, round, failing>>
  <2>1. step \in 1..13
    BY <1>1, <1>6 DEF FirstCleanup
  <2>2. FileTypes' /\ DockerTypes' /\ CounterTypes'
    BY <1>1, <1>2, <1>3, <1>4, <1>6, SaveFrameTypes
  <2>3. DockerKnows' /\ FileKnows(task)' /\ CheckKnows' /\ VersionsKnow'
    BY <1>1, <1>2, <1>3, TaskWritten DEF SaveFrame
  <2>4. ProcessTypes'
    BY <1>6 DEF SystemInv, ProcessTypes, SaveFrame
  <2>5. JobKnows'
    <3>1. \A s \in Service : IF step < FirstSwitch THEN container[s].image = base[s] ELSE Original(t, s)
      BY <2>1, ProgressFails
    <3>2. \A s \in Service : IF step' < FirstSwitch THEN container'[s].image = base'[s]
                             ELSE Original(mem, s)'
      BY <1>6, <3>1 DEF SaveFrame, Still, Original
    <3>3. Open(task)' /\ mem'.id = task'.id /\ mem'.target = task'.target
      BY <1>1, <1>2, <1>3, <1>6 DEF Open
    <3> QED BY <1>6, <2>1, <3>2, <3>3 DEF JobKnows
  <2> QED BY <2>2, <2>3, <2>4, <2>5 DEF SystemInv
<1> QED BY <1>5, <1>6 DEF SaveFailed

LEMMA EnterInv == SystemInv /\ Enter => SystemInv'
<1> SUFFICES ASSUME SystemInv, Enter PROVE SystemInv'
  OBVIOUS
<1> DEFINE t == [mem EXCEPT !.stage = Steps[step].stage]
<1>1. pc = "enter" /\ SaveFrame
  BY DEF Enter, SaveFrame, Still, dockerVars, SystemInv, CounterTypes
<1>2. /\ step \in 1..15 /\ mem = task /\ mem \in Task /\ Open(task) /\ task.id # 0
      /\ Progress(mem, step, step - 1)
  BY <1>1 DEF SystemInv, JobKnows, Open, FileTypes
<1>3. Steps[step].stage \in Stage /\ Steps[step].stage \notin Terminal
  BY <1>2, StepStage
<1>4. Restaged(t, mem, Steps[step].stage)
  BY <1>2, <1>3, RestageLemma
<1>5. \/ /\ SaveTask(t, TRUE) /\ pc' = "act" /\ mem' = t
         /\ UNCHANGED <<phase, step, round, failing>>
      \/ SaveTask(t, FALSE) /\ SaveFailed(t)
  BY DEF Enter
<1> HIDE DEF t
<1>6. Progress(t, step, step - 1)
  BY <1>2, <1>4, ProgressSame DEF Restaged
<1>7. CASE SaveTask(t, FALSE) /\ SaveFailed(t)
  BY <1>1, <1>2, <1>4, <1>6, <1>7, SaveFailedInv DEF Restaged
<1>8. CASE /\ SaveTask(t, TRUE) /\ pc' = "act" /\ mem' = t
           /\ UNCHANGED <<phase, step, round, failing>>
  <2>1. ~Locked /\ task' = t /\ Save(TRUE)
    BY <1>8 DEF SaveTask
  <2>2. saveFaults' \in 0..MaxSaveFaults
    BY <2>1, SaveLemma DEF SystemInv
  <2>3. FileKnows(t) /\ t.stage # "succeeded"
    BY <1>2, <1>3, <1>4, <1>6, StageKnown, StepStage DEF Restaged
  <2>4. FileTypes' /\ DockerTypes' /\ CounterTypes'
    BY <1>1, <1>2, <1>3, <1>4, <1>8, <2>1, <2>2, SaveFrameTypes DEF Restaged
  <2>5. DockerKnows' /\ FileKnows(task)' /\ CheckKnows' /\ VersionsKnow'
    BY <1>1, <1>2, <1>4, <2>1, <2>3, TaskWritten DEF Restaged, SaveFrame
  <2>6. ProcessTypes'
    BY <1>1, <1>8 DEF SystemInv, ProcessTypes, SaveFrame
  <2>7. JobKnows'
    <3>1. Progress(mem, step, step - 1)'
      BY <1>1, <1>6, <1>8 DEF SaveFrame, Still, Progress, ServiceKnows, Original
    <3>2. Open(task)'
      BY <1>2, <1>3, <1>4, <2>1 DEF Open, Restaged
    <3>3. mem'.stage = Steps[step'].stage /\ task' = mem' /\ step' \in 1..15
      BY <1>2, <1>4, <1>8, <2>1 DEF Restaged
    <3> QED BY <1>8, <3>1, <3>2, <3>3 DEF JobKnows
  <2> QED BY <2>4, <2>5, <2>6, <2>7 DEF SystemInv
<1> QED BY <1>5, <1>7, <1>8

LEMMA AdvanceLemma ==
  ASSUME SystemInv, pc = "leave", Advance, NEW t, Progress(t, step, step)
  PROVE  /\ step' \in 0..16 /\ round' \in 0..(StableRounds - 1)
         /\ \/ pc' = "finish" /\ step = 15
            \/ pc' = "enter" /\ step' \in 1..15 /\ Progress(t, step', step' - 1)
<1>1. step \in 1..15 /\ round \in 0..(StableRounds - 1) /\ StableRounds \in Nat
  BY NumberLemma DEF SystemInv, JobKnows, ProcessTypes
<1>2. Progress(t, step + 1, step) /\ (step = 13 => Progress(t, 12, 11))
  BY <1>1, ProgressMoves
<1>3. CASE step = FirstCleanup - 1 /\ round + 1 < StableRounds
  <2>1. step = 13 /\ step' = 12 /\ round' = round + 1 /\ pc' = "enter"
    BY <1>3 DEF Advance, FirstCleanup, FirstStable
  <2>2. step' - 1 = 11
    BY <2>1
  <2>3. round' \in 0..(StableRounds - 1) /\ step' \in 1..15 /\ step' \in 0..16
    BY <1>1, <1>3, <2>1
  <2> QED BY <1>2, <2>1, <2>2, <2>3
<1>4. CASE ~(step = FirstCleanup - 1 /\ round + 1 < StableRounds)
  <2>1. /\ step' = step + 1 /\ round' \in {0, round}
        /\ pc' = IF step = 15 THEN "finish" ELSE "enter"
    BY <1>4, StepsList DEF Advance
  <2>2. step' - 1 = step /\ step' \in 0..16 /\ (step # 15 => step' \in 1..15)
    BY <1>1, <2>1
  <2>3. round' \in 0..(StableRounds - 1)
    BY <1>1, <2>1, NumberLemma
  <2> QED BY <1>2, <2>1, <2>2, <2>3
<1> QED BY <1>3, <1>4

LEMMA LeaveInv == SystemInv /\ Leave => SystemInv'
<1> SUFFICES ASSUME SystemInv, Leave PROVE SystemInv'
  OBVIOUS
<1>1. pc = "leave" /\ SaveFrame
  BY DEF Leave, SaveFrame, Still, dockerVars, SystemInv, CounterTypes
<1>2. /\ step \in 1..15 /\ Progress(mem, step, step) /\ mem.stage = Steps[step].stage
  BY <1>1 DEF SystemInv, JobKnows
<1>3. mem \in Task /\ mem.id = task.id /\ mem.target = task.target /\ Open(task) /\ task.id # 0
  BY <1>1, MemTask DEF Open
<1>4. CASE SaveTask(mem, FALSE) /\ SaveFailed(mem)
  BY <1>1, <1>2, <1>3, <1>4, SaveFailedInv
<1>5. CASE SaveTask(mem, TRUE) /\ Advance /\ UNCHANGED <<phase, failing, mem>>
  <2>1. ~Locked /\ task' = mem /\ Save(TRUE)
    BY <1>5 DEF SaveTask
  <2>2. saveFaults' \in 0..MaxSaveFaults
    BY <2>1, SaveLemma DEF SystemInv
  <2>3. FileKnows(mem) /\ mem.stage # "succeeded" /\ mem.stage \in Stage /\ mem.stage \notin Terminal
    BY <1>2, StageKnown, StepStage
  <2>4. FileTypes' /\ DockerTypes' /\ CounterTypes'
    BY <1>1, <1>3, <1>5, <2>1, <2>2, <2>3, SaveFrameTypes
  <2>5. DockerKnows' /\ FileKnows(task)' /\ CheckKnows' /\ VersionsKnow'
    BY <1>1, <1>3, <2>1, <2>3, TaskWritten DEF SaveFrame
  <2>6. /\ step' \in 0..16 /\ round' \in 0..(StableRounds - 1)
        /\ \/ pc' = "finish" /\ step = 15
           \/ pc' = "enter" /\ step' \in 1..15 /\ Progress(mem, step', step' - 1)
    BY <1>1, <1>2, <1>5, AdvanceLemma
  <2>7. ProcessTypes'
    BY <1>1, <1>5, <2>6 DEF SystemInv, ProcessTypes, SaveFrame
  <2>8. Open(task)' /\ task' = mem'
    BY <1>3, <1>5, <2>1, <2>3 DEF Open
  <2>9. JobKnows'
    <3>1. ASSUME pc' = "finish", step = 15 PROVE JobKnows'
      BY <1>2, <1>5, <2>8, <3>1, StepLemma DEF JobKnows
    <3>2. ASSUME pc' = "enter", step' \in 1..15, Progress(mem, step', step' - 1) PROVE JobKnows'
      <4>1. Progress(mem, step, step - 1)'
        BY <1>1, <1>5, <3>2 DEF SaveFrame, Still, Progress, ServiceKnows, Original
      <4> QED BY <2>8, <3>2, <4>1 DEF JobKnows
    <3> QED BY <2>6, <3>1, <3>2
  <2> QED BY <2>4, <2>5, <2>7, <2>9 DEF SystemInv
<1> QED BY <1>4, <1>5 DEF Leave

LEMMA FinishedLemma ==
  ASSUME SystemInv, task.id # 0, NEW t, t.target \in [Service -> Image]
  PROVE  /\ FinishedCheck(t) \in CheckResult /\ FinishedCheck(t).target = lastCheck.target
         /\ \A s \in Service : FinishedCheck(t).current[s].image = t.target[s]
         /\ FinishedCheck(t).available <=>
              VersionOf[lastCheck.target["backend"]] > VersionOf[t.target["backend"]]
<1> DEFINE c == [s \in Service |-> [image |-> t.target[s], ref |-> 0]]
           a == VersionOf[lastCheck.target["backend"]] > VersionOf[t.target["backend"]]
<1>1. lastCheck \in CheckResult /\ lastCheck.target \in [Service -> Image] /\ "backend" \in Service
  BY DEF SystemInv, FileTypes, VersionsKnow, Service
<1>2. a \in BOOLEAN
  BY <1>1, NumberLemma
<1>3. c \in [Service -> Ref] /\ \A s \in Service : c[s].image = t.target[s]
  BY DEF Ref
<1>4. FinishedCheck(t) = [lastCheck EXCEPT !.current = c, !.available = a]
  BY DEF FinishedCheck
<1> HIDE DEF c, a
<1>5. /\ [lastCheck EXCEPT !.current = c, !.available = a] \in CheckResult
      /\ [lastCheck EXCEPT !.current = c, !.available = a].target = lastCheck.target
      /\ [lastCheck EXCEPT !.current = c, !.available = a].current = c
      /\ [lastCheck EXCEPT !.current = c, !.available = a].available = a
  BY <1>1, <1>2, <1>3 DEF CheckResult
<1>6. FinishedCheck(t).available = a
  BY <1>4, <1>5
<1> QED BY <1>3, <1>4, <1>5, <1>6 DEF a

LEMMA FinishInv == SystemInv /\ Finish => SystemInv'
<1> SUFFICES ASSUME SystemInv, Finish PROVE SystemInv'
  OBVIOUS
<1> DEFINE t == [mem EXCEPT !.stage = "succeeded",
                            !.cleanup = IF failing THEN "pending" ELSE "complete"]
<1>1. pc = "finish" /\ Still /\ UNCHANGED <<healthy, registry, check, fresh, cancelled, faults>>
  BY DEF Finish, Still, dockerVars
<1>2. mem = task /\ mem.stage = "cleaning" /\ Open(task) /\ task.id # 0 /\ task \in Task
  BY <1>1 DEF SystemInv, JobKnows, Open, FileTypes
<1>3. Restaged(t, mem, "succeeded")
  BY <1>2, RestageLemma, StagesLemma DEF Terminal
<1>4. PICK ok \in BOOLEAN : /\ SaveTask(t, ok) /\ Return(ok)
                            /\ lastCheck' = IF task' = t THEN FinishedCheck(t) ELSE lastCheck
  BY DEF Finish
<1>5. ~Locked /\ task' \in {task, t} /\ Save(ok)
  BY <1>4 DEF SaveTask
<1>6. saveFaults' \in 0..MaxSaveFaults /\ faults' \in 0..MaxFaults
  BY <1>1, <1>5, SaveLemma DEF SystemInv, CounterTypes
<1>7. \A s \in Service : container[s].image = task.target[s]
  BY <1>2 DEF SystemInv, FileKnows
<1> HIDE DEF t
<1>8. t # task
  BY <1>2, <1>3 DEF Restaged
<1>9. CASE task' = task
  <2>1. lastCheck' = lastCheck
    BY <1>4, <1>8, <1>9
  <2>2. SaveFrame
    BY <1>1, <1>6, <2>1 DEF SaveFrame
  <2>3. task.stage \in Stage /\ task.stage # "succeeded" /\ FileKnows(task)
    BY <1>2, StagesLemma DEF SystemInv
  <2> QED BY <1>1, <1>2, <1>4, <1>6, <1>9, <2>2, <2>3, JobEnds
<1>10. CASE task' = t
  <2>1. lastCheck' = FinishedCheck(t)
    BY <1>4, <1>10
  <2>2. /\ t \in Task /\ t.id = task.id /\ t.target = task.target /\ t.stage = "succeeded"
        /\ t.target \in [Service -> Image]
    BY <1>2, <1>3 DEF Restaged, SystemInv, FileTypes
  <2>3. /\ lastCheck' \in CheckResult /\ lastCheck'.target = lastCheck.target
        /\ \A s \in Service : lastCheck'.current[s].image = t.target[s]
        /\ lastCheck'.available <=>
             VersionOf[lastCheck.target["backend"]] > VersionOf[t.target["backend"]]
    BY <1>2, <2>1, <2>2, FinishedLemma
  <2>4. JobKnows' /\ ProcessTypes' /\ mem' \in Task
    BY <1>1, <1>4, ReturnLemma
  <2>5. FileTypes'
    BY <1>1, <1>2, <1>10, <2>2, <2>3, <2>4 DEF SystemInv, FileTypes
  <2>6. DockerTypes' /\ CounterTypes'
    BY <1>1, <1>6, <1>10, <2>2 DEF SystemInv, DockerTypes, CounterTypes, Still
  <2>7. DockerKnows'
    BY <1>1, <1>10, <2>2 DEF SystemInv, DockerKnows, Still
  <2>8. FileKnows(task)'
    BY <1>1, <1>7, <1>10, <2>2, StagesLemma DEF FileKnows, Still, Terminal
  <2>9. CheckKnows'
    BY <1>1, <1>5 DEF CheckKnows, Locked
  <2>10. VersionsKnow'
    <3>1. /\ SameVersion(task.target) /\ SameVersion(lastCheck.target)
          /\ lastCheck.target \in [Service -> Image]
          /\ \A s \in Service : VersionOf[task.target[s]] > VersionOf[base[s]]
      BY <1>2 DEF SystemInv, VersionsKnow
    <3>2. lastCheck'.available => \A s \in Service : VersionOf[lastCheck.target[s]] > VersionOf[t.target[s]]
      BY <2>2, <2>3, <3>1 DEF SameVersion, Service
    <3> QED BY <1>1, <1>10, <2>2, <2>3, <3>1, <3>2 DEF VersionsKnow, Still, Newer, SameVersion
  <2> QED BY <2>4, <2>5, <2>6, <2>7, <2>8, <2>9, <2>10 DEF SystemInv
<1> QED BY <1>5, <1>9, <1>10

-----------------------------------------------------------------------------
(* The calls of the job.                                                   *)

LEMMA ActKnows ==
  ASSUME SystemInv, pc = "act"
  PROVE  /\ step \in 1..15 /\ Svc \in Service /\ mem = task /\ mem \in Task
         /\ mem.stage = Steps[step].stage /\ Progress(mem, step, step - 1) /\ Open(task)
         /\ mem.id \in TaskId /\ mem.target \in [Service -> Image]
         /\ FileKnows(mem)
<1>1. /\ step \in 1..15 /\ mem = task /\ mem.stage = Steps[step].stage
      /\ Progress(mem, step, step - 1)
  BY DEF SystemInv, JobKnows
<1> QED BY <1>1, SvcLemma, MemTask DEF SystemInv

\* How a call ends, whether it could work or not.
CallEnds ==
  /\ pc' \in {"leave", "fail"} /\ (pc' = "fail" => ~(step >= FirstCleanup))
  /\ failing' \in BOOLEAN /\ faults' \in 0..MaxFaults

LEMMA CallLemma ==
  ASSUME SystemInv, NEW possible, Works(possible) \/ Fails(possible)
  PROVE  CallEnds
<1>1. faults' \in 0..MaxFaults
  BY BreaksLemma DEF Works, Fails, SystemInv, CounterTypes
<1> QED BY <1>1 DEF Works, Fails, SystemInv, ProcessTypes, CallEnds

\* The obligations of a call: Docker, the file, and what the job knows now.
LEMMA CallDone ==
  ASSUME SystemInv, pc = "act", ActUnchanged, CallEnds, mem' \in Task, DockerTypes',
         DockerKnows', FileKnows(task)',
         mem'.id = mem.id, mem'.target = mem.target, mem'.stage = mem.stage,
         pc' = "leave" => Progress(mem, step, step)',
         pc' = "fail" => \A s \in Service : IF step < FirstSwitch THEN container'[s].image = base'[s]
                                            ELSE Original(mem, s)'
  PROVE  SystemInv'
<1>1. UNCHANGED <<task, lastCheck, fresh, phase, cancelled, step, round, check, registry, nextTask,
                  saveFaults, base>>
  BY DEF ActUnchanged, diskVars
<1>2. FileTypes'
  BY <1>1 DEF SystemInv, FileTypes
<1>3. ProcessTypes'
  BY <1>1 DEF SystemInv, ProcessTypes, CallEnds
<1>4. CounterTypes'
  BY <1>1 DEF SystemInv, CounterTypes, CallEnds
<1>5. CheckKnows'
  BY <1>1 DEF SystemInv, CheckKnows, Seen
<1>6. VersionsKnow'
  BY <1>1 DEF SystemInv, VersionsKnow, Newer, SameVersion
<1>7. step \in 1..15 /\ mem = task /\ Open(task) /\ mem.stage = Steps[step].stage
  BY ActKnows
<1>8. pc' = "fail" => step' \in 1..13
  BY <1>1, <1>7 DEF CallEnds, FirstCleanup
<1>9. JobKnows'
  BY <1>1, <1>7, <1>8 DEF JobKnows, Open, CallEnds
<1> QED BY <1>2, <1>3, <1>4, <1>5, <1>6, <1>9 DEF SystemInv

\* Before the first switch a call fails with the services as they were.
LEMMA EarlyFails ==
  ASSUME SystemInv, pc = "act", step < FirstSwitch
  PROVE  \A s \in Service : container[s].image = base[s]
<1>1. step \in 1..13 /\ Progress(mem, step, step - 1)
  BY ActKnows DEF FirstSwitch
<1> QED BY <1>1, ProgressFails

LEMMA InspectInv == SystemInv /\ Inspect => SystemInv'
<1> SUFFICES ASSUME SystemInv, Inspect PROVE SystemInv'
  OBVIOUS
<1>1. pc = "act" /\ ActUnchanged /\ UNCHANGED <<dockerVars, task, base, nextTask, registry>>
  BY DEF Inspect, Acting, ActUnchanged, diskVars
<1>2. /\ step \in {1, 2} /\ Svc \in Service /\ mem \in Task /\ Progress(mem, step, step - 1)
      /\ container[Svc] \in Ref
  BY <1>1, ActKnows, StepLemma DEF Inspect, Acting, SystemInv, DockerTypes
<1>3. CallEnds
  BY CallLemma DEF Inspect
<1>4. DockerKnows' /\ FileKnows(task)' /\ DockerTypes'
  BY <1>1, TaskStays DEF Still, dockerVars, SystemInv, DockerTypes
<1>5. \A s \in Service : container[s].image = base[s]
  BY <1>1, <1>2, EarlyFails DEF FirstSwitch
<1>6. \A s \in Service : container'[s].image = base'[s]
  BY <1>1, <1>5 DEF dockerVars
<1>7. step < FirstSwitch
  BY <1>2 DEF FirstSwitch
<1>8. CASE pc' = "leave" /\ mem' = [mem EXCEPT !.original[Svc] = container[Svc]]
  <2>1. Reoriginal(mem', mem, Svc, container[Svc])
    BY <1>2, <1>8, OriginalLemma
  <2>2. \A s \in Service : base[s] \in store[s]
    BY <1>2 DEF Progress, ServiceKnows, FirstCleanup, Service
  <2>3. Progress(mem, step, step)'
    <3>1. CASE step = 1
      <4>1. Svc = "backend" /\ step' = 1
        BY <1>1, <3>1, SvcLemma DEF ActUnchanged
      <4> QED BY <1>1, <1>5, <1>6, <2>1, <2>2, <4>1
              DEF Progress, ServiceKnows, Reoriginal, FirstSwitch, Service, dockerVars
    <3>2. CASE step = 2
      <4>1. Svc = "web" /\ step' = 2
        BY <1>1, <3>2, SvcLemma DEF ActUnchanged
      <4>2. mem.original["backend"].image = base["backend"]
        BY <1>2, <3>2 DEF Progress, ServiceKnows
      <4> QED BY <1>1, <1>5, <1>6, <2>1, <2>2, <4>1, <4>2
              DEF Progress, ServiceKnows, Reoriginal, FirstSwitch, Service, dockerVars
    <3> QED BY <1>2, <3>1, <3>2
  <2> QED BY <1>1, <1>3, <1>4, <1>8, <2>1, <2>3, CallDone DEF Reoriginal
<1>9. CASE pc' = "fail" /\ mem' = mem
  BY <1>1, <1>2, <1>3, <1>4, <1>6, <1>7, <1>9, CallDone
<1>10. ~(step >= FirstCleanup)
  BY <1>2 DEF FirstCleanup
<1> QED BY <1>8, <1>9, <1>10 DEF Inspect, Works, Fails

LEMMA BackupInv == SystemInv /\ BackupDatabase => SystemInv'
<1> SUFFICES ASSUME SystemInv, BackupDatabase PROVE SystemInv'
  OBVIOUS
<1>1. /\ pc = "act" /\ ActUnchanged
      /\ UNCHANGED <<mem, container, healthy, alias, store, task, base, nextTask, registry, step>>
  BY DEF BackupDatabase, Acting, ActUnchanged, diskVars
<1>2. /\ step = 5 /\ mem \in Task /\ Progress(mem, step, step - 1) /\ mem.id \in TaskId /\ mem = task
      /\ mem.stage = Steps[step].stage
  BY <1>1, ActKnows, StepLemma DEF BackupDatabase, Acting
<1>3. CallEnds
  BY CallLemma DEF BackupDatabase
<1>4. \A s \in Service : container[s].image = base[s]
  BY <1>1, <1>2, EarlyFails DEF FirstSwitch
<1>5. dumps' \in {dumps, dumps \cup {mem.id}} /\ (pc' = "leave" => mem.id \in dumps')
  <2>1. ~(step >= FirstCleanup)
    BY <1>2 DEF FirstCleanup
  <2>2. Fails(TRUE) => pc' = "fail"
    BY <2>1 DEF Fails
  <2> QED BY <2>2 DEF BackupDatabase
<1>6. DockerTypes'
  BY <1>1, <1>2, <1>5 DEF SystemInv, DockerTypes
<1>7. DockerKnows'
  BY <1>1 DEF SystemInv, DockerKnows
<1>8. FileKnows(task)'
  BY <1>1, <1>2, <1>4, StepLemma, StagesLemma DEF FileKnows
<1>9. Progress(mem, step, step)' \/ pc' # "leave"
  BY <1>1, <1>2, <1>5 DEF Progress, ServiceKnows, Original, FirstSwitch
<1>10. step < FirstSwitch
  BY <1>2 DEF FirstSwitch
<1> QED BY <1>1, <1>2, <1>3, <1>4, <1>6, <1>7, <1>8, <1>9, <1>10, CallDone

LEMMA PullInv == SystemInv /\ PullTarget => SystemInv'
<1> SUFFICES ASSUME SystemInv, PullTarget PROVE SystemInv'
  OBVIOUS
<1>1. /\ pc = "act" /\ ActUnchanged
      /\ UNCHANGED <<mem, container, healthy, alias, dumps, task, base, nextTask, registry, step>>
  BY DEF PullTarget, Acting, ActUnchanged, diskVars
<1>2. /\ step \in {6, 7} /\ mem \in Task /\ Progress(mem, step, step - 1) /\ mem = task
      /\ mem.stage = Steps[step].stage /\ Svc \in Service /\ mem.target[Svc] \in Image
  BY <1>1, ActKnows, StepLemma DEF PullTarget, Acting
<1>3. CallEnds
  BY CallLemma DEF PullTarget
<1>4. \A s \in Service : container[s].image = base[s]
  BY <1>1, <1>2, EarlyFails DEF FirstSwitch
<1>5. store' \in {store, [store EXCEPT ![Svc] = @ \cup {mem.target[Svc]}]}
  BY DEF PullTarget
<1>6. DockerTypes' /\ \A s \in Service : store[s] \subseteq store'[s]
  BY <1>1, <1>2, <1>5 DEF SystemInv, DockerTypes
<1>7. DockerKnows'
  BY <1>1, <1>6 DEF SystemInv, DockerKnows
<1>8. FileKnows(task)'
  BY <1>1, <1>2, <1>4, StepLemma, StagesLemma DEF FileKnows
<1>9. Progress(mem, step, step)'
  BY <1>1, <1>2, <1>6 DEF Progress, ServiceKnows, Original, FirstSwitch, Service
<1>10. step < FirstSwitch
  BY <1>2 DEF FirstSwitch
<1> QED BY <1>1, <1>2, <1>3, <1>4, <1>6, <1>7, <1>8, <1>9, <1>10, CallDone

LEMMA WaitInv == SystemInv /\ WaitHealthy => SystemInv'
<1> SUFFICES ASSUME SystemInv, WaitHealthy PROVE SystemInv'
  OBVIOUS
<1>1. pc = "act" /\ ActUnchanged /\ UNCHANGED <<mem, dockerVars, task, base, nextTask, registry, step>>
  BY DEF WaitHealthy, Acting, ActUnchanged, diskVars
<1>2. step \in {9, 11, 12, 13} /\ mem \in Task /\ Progress(mem, step, step - 1)
  BY <1>1, ActKnows, StepLemma DEF WaitHealthy, Acting
<1>3. CallEnds
  BY CallLemma DEF WaitHealthy
<1>4. DockerKnows' /\ FileKnows(task)' /\ DockerTypes'
  BY <1>1, TaskStays DEF Still, dockerVars, SystemInv, DockerTypes
<1>5. Progress(mem, step, step)
  BY <1>2 DEF Progress, ServiceKnows, FirstSwitch
<1>6. Progress(mem, step, step)'
  BY <1>1, <1>5 DEF Progress, ServiceKnows, Original, dockerVars
<1>7. /\ ~(step < FirstSwitch)
      /\ \A s \in Service : Original(mem, s)
  <2>1. \A s \in Service : IF step < FirstSwitch THEN container[s].image = base[s] ELSE Original(mem, s)
    BY <1>2, ProgressFails
  <2>2. ~(step < FirstSwitch)
    BY <1>2 DEF FirstSwitch
  <2> QED BY <2>1, <2>2
<1>8. \A s \in Service : Original(mem, s)'
  BY <1>1, <1>7 DEF Original
<1> QED BY <1>1, <1>2, <1>3, <1>4, <1>6, <1>7, <1>8, CallDone

LEMMA AliasInv == SystemInv /\ CreateRollbackAlias => SystemInv'
<1> SUFFICES ASSUME SystemInv, CreateRollbackAlias PROVE SystemInv'
  OBVIOUS
<1> DEFINE tagged == [alias EXCEPT ![Svc][mem.id] = mem.original[Svc].image]
<1>1. /\ pc = "act" /\ ActUnchanged
      /\ UNCHANGED <<container, healthy, store, dumps, task, base, nextTask, registry, step>>
  BY DEF CreateRollbackAlias, Acting, ActUnchanged, diskVars
<1>2. /\ step \in {3, 4} /\ mem \in Task /\ Progress(mem, step, step - 1) /\ mem = task
      /\ mem.stage = Steps[step].stage /\ Svc \in Service /\ mem.id \in TaskId
  BY <1>1, ActKnows, StepLemma DEF CreateRollbackAlias, Acting
<1>3. CallEnds
  BY CallLemma DEF CreateRollbackAlias
<1>4. \A s \in Service : container[s].image = base[s]
  BY <1>1, <1>2, EarlyFails DEF FirstSwitch
<1>5. step < FirstSwitch /\ ~(step >= FirstCleanup)
  BY <1>2 DEF FirstSwitch, FirstCleanup
<1>6. mem.original[Svc].image = base[Svc]
  BY <1>2, SvcLemma DEF Progress, ServiceKnows
<1>7. \A s \in Service : base[s] \in store[s] /\ base[s] \in Image
  BY <1>2, <1>5 DEF Progress, ServiceKnows, Service, SystemInv, DockerTypes, FirstCleanup
<1>8. alias' \in {alias, tagged} /\ (pc' = "leave" => alias' = tagged)
  BY <1>5 DEF CreateRollbackAlias, Fails
<1>9. /\ tagged \in [Service -> [TaskId -> Image \cup {NoImage}]]
      /\ \A s \in Service, t \in TaskId :
           tagged[s][t] = IF s = Svc /\ t = mem.id THEN base[Svc] ELSE alias[s][t]
  BY <1>2, <1>6, <1>7 DEF SystemInv, DockerTypes
<1> HIDE DEF tagged
<1>10. DockerTypes'
  BY <1>1, <1>8, <1>9 DEF SystemInv, DockerTypes
<1>11. DockerKnows'
  <2>1. mem.id < nextTask /\ mem.id \in Nat /\ nextTask \in Nat
    BY <1>2, NumberLemma, UpdateAssumption DEF SystemInv, CounterTypes
  <2>2. ~(mem.id >= nextTask)
    BY <2>1
  <2>3. CASE alias' = alias
    BY <1>1, <2>3 DEF SystemInv, DockerKnows
  <2>4. CASE alias' = tagged
    <3> SUFFICES ASSUME NEW s \in Service, NEW t \in TaskId
                 PROVE  /\ tagged[s][t] # NoImage => tagged[s][t] \in store[s]
                        /\ t >= nextTask => tagged[s][t] = NoImage
                        /\ t = task.id => tagged[s][t] \in {NoImage, base[s]}
      BY <1>1, <2>4 DEF SystemInv, DockerKnows
    <3> QED BY <1>2, <1>7, <1>9, <2>2 DEF SystemInv, DockerKnows
  <2> QED BY <1>8, <2>3, <2>4
<1>12. FileKnows(task)'
  BY <1>1, <1>2, <1>4, StepLemma, StagesLemma DEF FileKnows
<1>13. CASE pc' = "leave" /\ mem' = [mem EXCEPT !.original[Svc].ref = mem.id]
  <2>1. Reoriginal(mem', mem, Svc, [image |-> base[Svc], ref |-> mem.id])
    BY <1>2, <1>6, <1>13, OriginalRefLemma, NumberLemma
  <2>2. mem'.id = mem.id /\ \A s \in Service : s = Svc => Original(mem, s)'
    BY <1>1, <2>1 DEF Reoriginal, Original
  <2>3. mem'.original[Svc].image = base[Svc]
    BY <2>1 DEF Reoriginal
  <2>4. alias'[Svc][mem.id] = base[Svc]
    BY <1>2, <1>8, <1>9, <1>13
  <2>5. Progress(mem, step, step)'
    <3>1. CASE step = 3
      <4>1. Svc = "backend" /\ step' = 3
        BY <1>1, <3>1, SvcLemma
      <4>2. mem.original["web"].image = base["web"] /\ mem'.original["web"] = mem.original["web"]
        BY <1>2, <2>1, <3>1, <4>1 DEF Progress, ServiceKnows, Reoriginal, Service
      <4> QED BY <1>1, <1>4, <1>7, <2>2, <2>3, <2>4, <4>1, <4>2
              DEF Progress, ServiceKnows, Service, FirstSwitch
    <3>2. CASE step = 4
      <4>1. Svc = "web" /\ step' = 4
        BY <1>1, <3>2, SvcLemma
      <4>2. Original(mem, "backend") /\ alias["backend"][mem.id] = base["backend"]
        BY <1>2, <3>2 DEF Progress, ServiceKnows, FirstCleanup
      <4>3. /\ alias'["backend"][mem.id] = base["backend"]
            /\ mem'.original["backend"] = mem.original["backend"]
        BY <1>2, <1>8, <1>9, <2>1, <4>1, <4>2 DEF Reoriginal, Service
      <4>4. Original(mem, "backend")' /\ mem'.original["backend"].image = base["backend"]
        BY <1>1, <2>2, <4>2, <4>3, OriginalImage DEF Original
      <4> QED BY <1>1, <1>4, <1>7, <2>2, <2>3, <2>4, <4>1, <4>3, <4>4
              DEF Progress, ServiceKnows, Service, FirstSwitch
    <3> QED BY <1>2, <3>1, <3>2
  <2> QED BY <1>1, <1>3, <1>10, <1>11, <1>12, <1>13, <2>1, <2>5, CallDone DEF Reoriginal
<1>14. CASE pc' = "fail" /\ mem' = [mem EXCEPT !.original[Svc] = Nothing]
  <2>1. Reoriginal(mem', mem, Svc, Nothing)
    BY <1>2, <1>14, OriginalLemma, NoTaskLemma
  <2> QED BY <1>1, <1>3, <1>4, <1>5, <1>10, <1>11, <1>12, <1>14, <2>1, CallDone DEF Reoriginal
<1> QED BY <1>5, <1>13, <1>14 DEF CreateRollbackAlias, Works, Fails

LEMMA DeployInv == SystemInv /\ DeployTarget => SystemInv'
<1> SUFFICES ASSUME SystemInv, DeployTarget PROVE SystemInv'
  OBVIOUS
<1> DEFINE c == [image |-> mem.target[Svc], ref |-> 0]
<1>1. /\ pc = "act" /\ ActUnchanged
      /\ UNCHANGED <<mem, alias, store, dumps, task, base, nextTask, registry, step>>
  BY DEF DeployTarget, Acting, ActUnchanged, diskVars
<1>2. /\ step \in {8, 10} /\ mem \in Task /\ Progress(mem, step, step - 1) /\ mem = task
      /\ mem.stage = Steps[step].stage /\ Svc \in Service /\ mem.target[Svc] \in Image /\ FileKnows(mem)
  BY <1>1, ActKnows, StepLemma DEF DeployTarget, Acting
<1>3. CallEnds
  BY CallLemma DEF DeployTarget
<1>4. ~(step < FirstSwitch) /\ ~(step >= FirstCleanup) /\ mem.stage \in SwitchStage
  BY <1>2, StepLemma DEF FirstSwitch, FirstCleanup
<1>5. c \in Ref /\ c.image = mem.target[Svc] /\ Nothing \in Ref /\ Nothing.image = NoImage
  BY <1>2, NoTaskLemma, UpdateAssumption DEF Ref
<1>6. \/ UNCHANGED <<container, healthy>> /\ pc' = "fail"
      \/ /\ mem.target[Svc] \in store[Svc]
         /\ \E h \in BOOLEAN : healthy' = [healthy EXCEPT ![Svc] = h]
         /\ \/ container' = [container EXCEPT ![Svc] = c]
            \/ container' = [container EXCEPT ![Svc] = Nothing] /\ pc' = "fail"
  BY <1>4, <1>5 DEF DeployTarget, Recreate, RecreateFails, Works, Fails
<1> HIDE DEF c
<1>7. DockerTypes'
  BY <1>1, <1>5, <1>6 DEF SystemInv, DockerTypes
<1>8. container \in [Service -> Ref]
  BY DEF SystemInv, DockerTypes
<1>9. \A s \in Service :
        \/ container'[s] = container[s]
        \/ s = Svc /\ container'[s].image \in {mem.target[s], NoImage} /\ mem.target[s] \in store[s]
  BY <1>5, <1>6, <1>8
<1>10. DockerKnows'
  BY <1>1, <1>2, <1>9 DEF SystemInv, DockerKnows
<1>11. FileKnows(task)'
  <2>1. mem.stage \notin {"none", "checking", "backing_up", "pulling", "failed", "cleaning",
                          "succeeded"}
    BY <1>4 DEF SwitchStage
  <2> QED BY <1>1, <1>2, <1>4, <2>1 DEF FileKnows, Original
<1>12. \A s \in Service : Original(mem, s)'
  BY <1>1, <1>2, <1>4 DEF FileKnows, Original
<1>13. ASSUME pc' = "leave" PROVE Progress(mem, step, step)'
  <2>1. container' = [container EXCEPT ![Svc] = c]
    BY <1>6, <1>13
  <2>2. container'[Svc].image = mem.target[Svc] /\ \A s \in Service : s # Svc => container'[s] = container[s]
    BY <1>2, <1>5, <1>8, <2>1
  <2>3. CASE step = 8
    <3>1. Svc = "backend" /\ step' = 8
      BY <1>1, <2>3, SvcLemma
    <3> QED BY <1>1, <1>2, <2>2, <2>3, <3>1 DEF Progress, ServiceKnows, Original, FirstSwitch
  <2>4. CASE step = 10
    <3>1. Svc = "web" /\ step' = 10
      BY <1>1, <2>4, SvcLemma
    <3> QED BY <1>1, <1>2, <2>2, <2>4, <3>1 DEF Progress, ServiceKnows, Original, FirstSwitch, Service
  <2> QED BY <1>2, <2>3, <2>4
<1> QED BY <1>1, <1>2, <1>3, <1>4, <1>7, <1>10, <1>11, <1>12, <1>13, CallDone

LEMMA RemoveInv == SystemInv /\ RemoveOldImage => SystemInv'
<1> SUFFICES ASSUME SystemInv, RemoveOldImage PROVE SystemInv'
  OBVIOUS
<1> DEFINE old == mem.original[Svc]
           untagged == [alias EXCEPT ![Svc][old.ref] = NoImage]
<1>1. /\ pc = "act" /\ ActUnchanged
      /\ UNCHANGED <<mem, container, healthy, dumps, task, base, nextTask, registry, step>>
  BY DEF RemoveOldImage, Acting, ActUnchanged, diskVars
<1>2. /\ step \in {14, 15} /\ mem \in Task /\ Progress(mem, step, step - 1) /\ mem = task
      /\ mem.stage = Steps[step].stage /\ Svc \in Service /\ FileKnows(mem) /\ mem.id \in TaskId
  BY <1>1, ActKnows, StepLemma DEF RemoveOldImage, Acting
<1>3. CallEnds
  BY CallLemma DEF RemoveOldImage
<1>4. step >= FirstCleanup /\ mem.stage = "cleaning"
  BY <1>2, StepLemma DEF FirstCleanup
<1>5. Original(mem, Svc) /\ old.image = base[Svc] /\ old.ref = mem.id
  BY <1>2, <1>4, OriginalImage DEF FileKnows
<1>6. /\ alias' \in {alias, untagged}
      /\ \/ store' = store
         \/ /\ store' = [store EXCEPT ![Svc] = @ \ {old.image}] /\ alias' = untagged
            /\ container[Svc].image # old.image /\ Tagged(Svc, old.image) = {old.ref}
  BY DEF RemoveOldImage, Works, Removable
<1>7. /\ untagged \in [Service -> [TaskId -> Image \cup {NoImage}]]
      /\ \A s \in Service, t \in TaskId :
           untagged[s][t] = IF s = Svc /\ t = mem.id THEN NoImage ELSE alias[s][t]
  BY <1>2, <1>5 DEF SystemInv, DockerTypes
<1> HIDE DEF untagged, old
<1>8. DockerTypes'
  BY <1>1, <1>6, <1>7 DEF SystemInv, DockerTypes
<1>9. DockerKnows'
  <2> SUFFICES ASSUME NEW s \in Service
               PROVE  /\ container[s].image # NoImage => container[s].image \in store'[s]
                      /\ \A t \in TaskId : /\ alias'[s][t] # NoImage => alias'[s][t] \in store'[s]
                                           /\ t >= nextTask => alias'[s][t] = NoImage
                                           /\ t = task.id => alias'[s][t] \in {NoImage, base[s]}
    BY <1>1 DEF SystemInv, DockerKnows
  <2>1. \A t \in TaskId : alias'[s][t] \in {NoImage, alias[s][t]}
    BY <1>6, <1>7
  <2>2. CASE store' = store
    BY <2>1, <2>2 DEF SystemInv, DockerKnows
  <2>3. CASE /\ store' = [store EXCEPT ![Svc] = @ \ {old.image}] /\ alias' = untagged
             /\ container[Svc].image # old.image /\ Tagged(Svc, old.image) = {old.ref}
    <3>1. store'[s] = IF s = Svc THEN store[s] \ {old.image} ELSE store[s]
      BY <1>2, <2>3 DEF SystemInv, DockerTypes
    <3>2. \A t \in TaskId : s = Svc /\ alias[s][t] = old.image => t = mem.id
      BY <1>5, <2>3 DEF Tagged
    <3>3. \A t \in TaskId : s = Svc /\ alias'[s][t] # NoImage => alias'[s][t] # old.image
      BY <1>2, <1>7, <2>3, <3>2
    <3> QED BY <2>1, <2>3, <3>1, <3>3 DEF SystemInv, DockerKnows
  <2> QED BY <1>6, <2>2, <2>3
<1>10. FileKnows(task)'
  BY <1>1, <1>2, <1>4, StagesLemma DEF FileKnows, Original
<1>11. Progress(mem, step, step)'
  BY <1>1, <1>2 DEF Progress, ServiceKnows, Original, FirstSwitch, FirstCleanup
<1>12. pc' # "fail"
  BY <1>3, <1>4 DEF CallEnds
<1> QED BY <1>1, <1>2, <1>3, <1>8, <1>9, <1>10, <1>11, <1>12, CallDone

-----------------------------------------------------------------------------
(* The calls of a rollback.                                                *)

LEMMA RollbackKnows ==
  ASSUME SystemInv, pc = "rollback"
  PROVE  /\ mem = task /\ mem \in Task /\ mem.stage = "rolling_back" /\ step \in 1..5 /\ Open(task)
         /\ FileKnows(mem) /\ mem.id \in TaskId
         /\ ~failing => /\ step >= 3 => container["backend"] = mem.original["backend"]
                        /\ step = 5 => container["web"] = mem.original["web"]
BY MemTask DEF SystemInv, JobKnows

LEMMA RollbackTypes ==
  ASSUME SystemInv, pc = "rollback", step \in 1..4, step' = step + 1,
         NEW possible, RollbackDone(possible) \/ RollbackFails(possible),
         UNCHANGED <<diskVars, phase, cancelled, pc, round, mem, check, nextTask, saveFaults, base>>
  PROVE  FileTypes' /\ ProcessTypes' /\ CounterTypes' /\ CheckKnows' /\ VersionsKnow'
<1>1. UNCHANGED <<task, lastCheck, fresh, phase, cancelled, pc, round, mem, check, nextTask,
                  saveFaults, base>>
  BY DEF diskVars
<1>2. faults' \in 0..MaxFaults /\ failing' \in BOOLEAN
  BY BreaksLemma DEF RollbackDone, RollbackFails, SystemInv, CounterTypes, ProcessTypes
<1>3. FileTypes'
  BY <1>1 DEF SystemInv, FileTypes
<1>4. ProcessTypes'
  <2>1. step' \in 0..16
    OBVIOUS
  <2> QED BY <1>1, <1>2, <2>1 DEF SystemInv, ProcessTypes
<1>5. CounterTypes'
  BY <1>1, <1>2 DEF SystemInv, CounterTypes
<1>6. CheckKnows'
  BY <1>1 DEF SystemInv, CheckKnows, Seen
<1>7. VersionsKnow'
  BY <1>1 DEF SystemInv, VersionsKnow, Newer, SameVersion
<1> QED BY <1>3, <1>4, <1>5, <1>6, <1>7

LEMMA DeployRollbackInv == SystemInv /\ DeployRollback => SystemInv'
<1> SUFFICES ASSUME SystemInv, DeployRollback PROVE SystemInv'
  OBVIOUS
<1> DEFINE s0 == RollbackSvc
           c == [image |-> alias[s0][mem.id], ref |-> mem.id]
           local == (\A u \in Service : mem.original[u].ref = mem.id) /\ c.image # NoImage
<1>1. /\ pc = "rollback" /\ step \in {1, 3} /\ step' = step + 1
      /\ UNCHANGED <<diskVars, phase, cancelled, pc, round, mem, check, alias, store, dumps,
                     registry, nextTask, saveFaults, base>>
      /\ task' = task
  BY DEF DeployRollback, diskVars
<1>2. /\ mem = task /\ mem \in Task /\ mem.stage = "rolling_back" /\ Open(task)
      /\ FileKnows(mem) /\ mem.id \in TaskId
      /\ ~failing /\ step >= 3 => container["backend"] = mem.original["backend"]
  BY <1>1, RollbackKnows
<1>3. s0 \in Service /\ (step = 3 => s0 = "web")
  BY <1>1 DEF RollbackSvc, Service
<1>4. FileTypes' /\ ProcessTypes' /\ CounterTypes' /\ CheckKnows' /\ VersionsKnow'
  <2>1. \E possible : RollbackDone(possible) \/ RollbackFails(possible)
    BY DEF DeployRollback
  <2> QED BY <1>1, <2>1, RollbackTypes
<1>5. /\ \/ UNCHANGED <<container, healthy>>
         \/ /\ c.image # NoImage
            /\ \E h \in BOOLEAN : healthy' = [healthy EXCEPT ![s0] = h]
            /\ \/ container' = [container EXCEPT ![s0] = c]
               \/ container' = [container EXCEPT ![s0] = Nothing]
      /\ ~failing' => failing = FALSE
  <2>1. \/ RollbackDone(local) /\ Recreate(s0, c)
        \/ RollbackFails(local) /\ RecreateFails(s0, c, local)
    BY DEF DeployRollback
  <2>2. local => c.image # NoImage
    OBVIOUS
  <2> HIDE DEF local, c, s0
  <2>3. ~failing' => failing = FALSE
    BY <2>1 DEF RollbackDone, RollbackFails, SystemInv, ProcessTypes
  <2>4. UNCHANGED <<container, healthy>> \/ (local /\ (Recreate(s0, c) \/ Recreate(s0, Nothing)))
    BY <2>1 DEF RollbackDone, RecreateFails
  <2> QED BY <2>2, <2>3, <2>4 DEF Recreate
<1>6. alias[s0][mem.id] \in {NoImage, base[s0]} /\ base[s0] \in Image
  BY <1>2, <1>3 DEF SystemInv, DockerKnows, DockerTypes
<1>7. c \in Ref /\ c.image = alias[s0][mem.id] /\ Nothing \in Ref /\ Nothing.image = NoImage
  BY <1>2, <1>6, NoTaskLemma DEF Ref
<1> HIDE DEF c, s0
<1>8. DockerTypes'
  BY <1>1, <1>3, <1>5, <1>7 DEF SystemInv, DockerTypes
<1>9. \A s \in Service :
        \/ container'[s] = container[s]
        \/ s = s0 /\ container'[s].image \in {NoImage, alias[s][mem.id]} /\ alias[s][mem.id] # NoImage
  BY <1>3, <1>5, <1>7 DEF SystemInv, DockerTypes
<1>10. DockerKnows'
  BY <1>1, <1>2, <1>6, <1>9 DEF SystemInv, DockerKnows
<1>11. FileKnows(task)'
  BY <1>1, <1>2, StagesLemma DEF FileKnows, Original
<1>12. JobKnows'
  <2>1. step' \in 1..5 /\ step' # 5 /\ (step' >= 3 => step = 3)
    BY <1>1
  <2>2. ~failing' /\ step = 3 => container'["backend"] = mem'.original["backend"]
    BY <1>1, <1>2, <1>3, <1>5, <1>9 DEF Service
  <2> QED BY <1>1, <1>2, <2>1, <2>2 DEF JobKnows, Open
<1> QED BY <1>4, <1>8, <1>10, <1>11, <1>12 DEF SystemInv

LEMMA WaitRollbackInv == SystemInv /\ WaitRollbackHealthy => SystemInv'
<1> SUFFICES ASSUME SystemInv, WaitRollbackHealthy PROVE SystemInv'
  OBVIOUS
<1> DEFINE s0 == RollbackSvc
<1>1. /\ pc = "rollback" /\ step \in {2, 4} /\ step' = step + 1
      /\ UNCHANGED <<diskVars, phase, cancelled, pc, round, mem, check, dockerVars, registry,
                     nextTask, saveFaults, base>>
      /\ task' = task
  BY DEF WaitRollbackHealthy, diskVars
<1>2. /\ mem = task /\ mem.stage = "rolling_back" /\ Open(task)
      /\ ~failing /\ step >= 3 => container["backend"] = mem.original["backend"]
  BY <1>1, RollbackKnows
<1>3. (step = 2 => s0 = "backend") /\ (step = 4 => s0 = "web")
  BY <1>1 DEF RollbackSvc
<1>4. FileTypes' /\ ProcessTypes' /\ CounterTypes' /\ CheckKnows' /\ VersionsKnow'
  <2>1. \E possible : RollbackDone(possible) \/ RollbackFails(possible)
    BY DEF WaitRollbackHealthy
  <2> QED BY <1>1, <2>1, RollbackTypes
<1>5. DockerKnows' /\ FileKnows(task)' /\ DockerTypes'
  BY <1>1, TaskStays DEF Still, dockerVars, SystemInv, DockerTypes
<1>6. ~failing' => failing = FALSE /\ container[s0] = mem.original[s0]
  BY DEF WaitRollbackHealthy, RollbackDone, RollbackFails, InspectsRollback, SystemInv, ProcessTypes
<1>7. JobKnows'
  <2>1. step' \in 1..5 /\ (step' = 5 => step = 4)
    BY <1>1
  <2>2. ~failing' => /\ container'["backend"] = mem'.original["backend"]
                     /\ step = 4 => container'["web"] = mem'.original["web"]
    <3>1. CASE step = 2
      BY <1>1, <1>3, <1>6, <3>1 DEF dockerVars
    <3>2. CASE step = 4
      <4>1. step >= 3
        BY <3>2
      <4> QED BY <1>1, <1>2, <1>3, <1>6, <3>2, <4>1 DEF dockerVars
    <3> QED BY <1>1, <3>1, <3>2
  <2> QED BY <1>1, <1>2, <2>1, <2>2 DEF JobKnows, Open
<1> QED BY <1>4, <1>5, <1>7 DEF SystemInv

-----------------------------------------------------------------------------
(* The Owner's checks.                                                     *)

\* A check leaves all but itself and the last check alone.
LEMMA CheckBeside ==
  ASSUME SystemInv,
         UNCHANGED <<task, phase, cancelled, jobVars, dockerVars, registry, nextTask, faults, base>>,
         lastCheck' \in CheckResult, fresh' \in BOOLEAN, saveFaults' \in 0..MaxSaveFaults,
         check' \in [at : {"none", "web", "resolve"}, seen : [Service -> Ref]],
         CheckKnows', VersionsKnow'
  PROVE  SystemInv'
<1>1. FileTypes' /\ ProcessTypes' /\ DockerTypes' /\ CounterTypes'
  BY DEF SystemInv, FileTypes, ProcessTypes, DockerTypes, CounterTypes, jobVars, dockerVars
<1>2. DockerKnows' /\ FileKnows(task)' /\ JobKnows'
  BY TaskStays DEF Still, dockerVars, jobVars
<1> QED BY <1>1, <1>2 DEF SystemInv

LEMMA CheckSees ==
  ASSUME SystemInv, NEW s \in Service, CheckInspects(s)
  PROVE  /\ container[s] \in Ref
         /\ container[s].image \in {base[s], task.target[s]} \ {NoImage}
         /\ task.stage = "succeeded" => container[s].image = task.target[s]
<1>1. container[s].image # NoImage
  BY DEF CheckInspects, InspectsAware, Inspects, InspectsRollback
<1> QED BY <1>1 DEF SystemInv, DockerTypes, DockerKnows, FileKnows

LEMMA CheckReads ==
  ASSUME SystemInv, CheckBackend \/ CheckWeb \/ CheckError
  PROVE  SystemInv'
<1>1. /\ UNCHANGED <<task, phase, cancelled, jobVars, dockerVars, registry, nextTask, faults, base>>
      /\ UNCHANGED <<lastCheck, fresh, saveFaults>>
  BY DEF CheckBackend, CheckWeb, CheckError, diskVars
<1>2. lastCheck' \in CheckResult /\ fresh' \in BOOLEAN /\ saveFaults' \in 0..MaxSaveFaults
  BY <1>1 DEF SystemInv, FileTypes, CounterTypes
<1>3. VersionsKnow'
  BY <1>1, TaskStays DEF Still, dockerVars
<1>4. NoRequest \in [at : {"none", "web", "resolve"}, seen : [Service -> Ref]] /\ NoRequest.at = "none"
  BY NoTaskLemma DEF NoRequest
<1>5. "backend" \in Service /\ "web" \in Service
  BY DEF Service
<1>6. CASE CheckBackend
  <2> DEFINE seen == [NoRequest.seen EXCEPT !["backend"] = container["backend"]]
  <2>1. check' = [at |-> "web", seen |-> seen]
    BY <1>6 DEF CheckBackend
  <2>2. seen \in [Service -> Ref] /\ seen["backend"] = container["backend"]
    BY <1>4, <1>5, <1>6, CheckSees DEF CheckBackend
  <2> HIDE DEF seen
  <2>3. /\ check' \in [at : {"none", "web", "resolve"}, seen : [Service -> Ref]]
        /\ check'.at = "web" /\ check'.seen["backend"] = container["backend"]
    BY <2>1, <2>2
  <2>4. CheckKnows'
    BY <1>1, <1>5, <1>6, <2>3, CheckSees DEF CheckKnows, Seen, CheckBackend
  <2> QED BY <1>1, <1>2, <1>3, <2>3, <2>4, CheckBeside
<1>7. CASE CheckWeb
  <2> DEFINE seen == [check.seen EXCEPT !["web"] = container["web"]]
  <2>1. check \in [at : {"none", "web", "resolve"}, seen : [Service -> Ref]] /\ check.at = "web"
    BY <1>7 DEF SystemInv, ProcessTypes, CheckWeb
  <2>2. /\ seen \in [Service -> Ref] /\ seen["web"] = container["web"]
        /\ seen["backend"] = check.seen["backend"]
    BY <1>5, <1>7, <2>1, CheckSees DEF CheckWeb
  <2>3. check' = [check EXCEPT !.at = "resolve", !.seen = seen]
    BY <1>7, <2>1 DEF CheckWeb
  <2> HIDE DEF seen
  <2>4. /\ check' \in [at : {"none", "web", "resolve"}, seen : [Service -> Ref]]
        /\ check'.at = "resolve" /\ check'.seen = seen
    BY <2>1, <2>2, <2>3
  <2>5. CheckKnows'
    BY <1>1, <1>5, <1>7, <2>1, <2>2, <2>4, CheckSees DEF CheckKnows, Seen, CheckWeb, SystemInv
  <2> QED BY <1>1, <1>2, <1>3, <2>4, <2>5, CheckBeside
<1>8. CASE CheckError
  <2>1. CheckKnows'
    BY <1>4, <1>8 DEF CheckError, CheckKnows
  <2> QED BY <1>1, <1>2, <1>3, <1>4, <1>8, <2>1, CheckBeside DEF CheckError
<1> QED BY <1>6, <1>7, <1>8

\* What a check saw is a real image, no older than what its service returns to.
LEMMA SeenLemma ==
  ASSUME SystemInv, NEW s \in Service, Seen(s)
  PROVE  /\ check.seen[s].image \in Image /\ VersionOf[check.seen[s].image] \in Nat
         /\ VersionOf[IF task.stage = "succeeded" THEN task.target[s] ELSE base[s]] \in Nat
         /\ VersionOf[check.seen[s].image]
              >= VersionOf[IF task.stage = "succeeded" THEN task.target[s] ELSE base[s]]
<1>1. base[s] \in Image /\ VersionOf[base[s]] \in Nat
  BY NumberLemma DEF SystemInv, DockerTypes
<1>2. CASE task.id = 0
  <2>1. task.target[s] = NoImage /\ task.stage = "none"
    BY <1>2, NoTaskLemma DEF SystemInv, FileTypes
  <2> QED BY <1>1, <2>1 DEF Seen
<1>3. CASE task.id # 0
  <2>1. /\ task.target[s] \in Image /\ VersionOf[task.target[s]] \in Nat
        /\ VersionOf[task.target[s]] > VersionOf[base[s]]
    BY <1>3, NumberLemma DEF SystemInv, FileTypes, VersionsKnow
  <2> QED BY <1>1, <2>1 DEF Seen
<1> QED BY <1>2, <1>3

LEMMA CheckSaveInv == SystemInv /\ CheckSave => SystemInv'
<1> SUFFICES ASSUME SystemInv, CheckSave PROVE SystemInv'
  OBVIOUS
<1> DEFINE newer == VersionOf[registry["backend"]] > VersionOf[check.seen["backend"].image]
           found == [current |-> check.seen, target |-> registry, available |-> newer]
<1>1. /\ UNCHANGED <<task, phase, cancelled, jobVars, dockerVars, registry, nextTask, faults, base>>
      /\ check' = NoRequest /\ check.at = "resolve" /\ Comparable(check.seen, registry)
      /\ \/ lastCheck' = found /\ fresh' = TRUE
         \/ UNCHANGED <<lastCheck, fresh>>
      /\ Save(TRUE) \/ Save(FALSE)
  BY DEF CheckSave
<1>2. NoRequest \in [at : {"none", "web", "resolve"}, seen : [Service -> Ref]] /\ NoRequest.at = "none"
  BY NoTaskLemma DEF NoRequest
<1>3. saveFaults' \in 0..MaxSaveFaults
  BY <1>1, SaveLemma DEF SystemInv
<1>4. CheckKnows'
  BY <1>1, <1>2 DEF CheckKnows
<1>5. "backend" \in Service /\ "web" \in Service /\ \A s \in Service : s \in {"backend", "web"}
  BY DEF Service
<1>6. \A s \in Service : Seen(s)
  BY <1>1, <1>5 DEF SystemInv, CheckKnows
<1>7. \A s \in Service : /\ check.seen[s].image \in Image /\ registry[s] \in Image
                         /\ VersionOf[registry[s]] \in Nat /\ VersionOf[check.seen[s].image] \in Nat
  BY <1>6, SeenLemma, NumberLemma DEF SystemInv, DockerTypes
<1>8. newer \in BOOLEAN
  BY <1>5, <1>7
<1>9. /\ found \in CheckResult /\ found.target = registry /\ found.current = check.seen
      /\ found.available = newer
  BY <1>8 DEF CheckResult, SystemInv, ProcessTypes, DockerTypes
<1>10. \A s \in Service : newer => VersionOf[registry[s]] > VersionOf[check.seen[s].image]
  BY <1>1, <1>5, <1>7 DEF Comparable
<1>11. \A s \in Service : newer => Newer(registry, s)
  BY <1>6, <1>7, <1>10, SeenLemma DEF Newer
<1>12. SameVersion(registry) /\ registry \in [Service -> Image]
  BY <1>1 DEF Comparable, SameVersion, SystemInv, DockerTypes
<1>13. CASE lastCheck' = found /\ fresh' = TRUE
  <2>1. VersionsKnow'
    <3>1. found.available <=> newer
      BY <1>9
    <3>2. task.stage = "succeeded" => \A s \in Service : check.seen[s].image = task.target[s]
      BY <1>6 DEF Seen
    <3> HIDE DEF newer, found
    <3>3. /\ lastCheck'.target = registry /\ lastCheck'.current = check.seen
          /\ lastCheck'.available <=> newer
      BY <1>9, <1>13, <3>1
    <3> QED BY <1>1, <1>11, <1>12, <3>2, <3>3 DEF VersionsKnow, Newer, SameVersion, SystemInv
  <2> QED BY <1>1, <1>2, <1>3, <1>4, <1>9, <1>13, <2>1, CheckBeside
<1>14. CASE UNCHANGED <<lastCheck, fresh>>
  <2>1. VersionsKnow'
    BY <1>1, <1>14, TaskStays DEF Still, dockerVars
  <2> QED BY <1>1, <1>2, <1>3, <1>4, <1>14, <2>1, CheckBeside DEF SystemInv, FileTypes
<1> QED BY <1>1, <1>13, <1>14

-----------------------------------------------------------------------------
(* Start, the process and the surroundings.                                *)

\* Without a task that blocks it no job runs, and the services run what the
\* next task returns to.
LEMMA StartFinds ==
  ASSUME SystemInv, ~Blocks(task)
  PROVE  /\ pc = "none"
         /\ \A s \in Service :
              /\ container[s].image = IF task.stage = "succeeded" THEN task.target[s] ELSE base[s]
              /\ container[s].image \in Image /\ container[s].image \in store[s]
<1>1. pc = "none"
  BY DEF Blocks, SystemInv, JobKnows
<1>2. task.stage \in {"none", "failed", "succeeded"} /\ (task.stage = "succeeded" => task.id # 0)
  <2>1. CASE task.id = 0
    BY <2>1, NoTaskLemma DEF SystemInv, FileTypes
  <2>2. CASE task.id # 0
    BY <2>2 DEF Blocks, Open, Terminal
  <2> QED BY <2>1, <2>2
<1>3. \A s \in Service : container[s].image = IF task.stage = "succeeded" THEN task.target[s] ELSE base[s]
  BY <1>2 DEF SystemInv, FileKnows
<1>4. \A s \in Service : container[s].image \in Image
  BY <1>2, <1>3 DEF SystemInv, FileTypes, DockerTypes
<1>5. \A s \in Service : container[s].image \in store[s]
  BY <1>4, NumberLemma DEF SystemInv, DockerKnows
<1> QED BY <1>1, <1>3, <1>4, <1>5

LEMMA StartInv == SystemInv /\ Start => SystemInv'
<1> SUFFICES ASSUME SystemInv, Start PROVE SystemInv'
  OBVIOUS
<1> DEFINE t == [id |-> nextTask, original |-> lastCheck.current, target |-> lastCheck.target,
                 stage |-> "checking", rolledBack |-> FALSE, cleanup |-> "not_run"]
           home == [s \in Service |-> container[s].image]
<1>1. /\ MayStart /\ nextTask \in TaskId /\ nextTask' = nextTask + 1
      /\ \/ /\ Save(TRUE) /\ task' = t /\ mem' = t /\ pc' = "enter" /\ step' = 1
            /\ round' = 0 /\ failing' = FALSE
         \/ Save(FALSE) /\ task' \in {task, t} /\ UNCHANGED jobVars
      /\ base' = IF task' = t THEN home ELSE base
      /\ UNCHANGED <<lastCheck, fresh, phase, cancelled, check, dockerVars, registry, faults>>
  BY DEF Start
<1>2. /\ pc = "none" /\ ~Locked /\ lastCheck.available
      /\ \A s \in Service :
              /\ container[s].image = IF task.stage = "succeeded" THEN task.target[s] ELSE base[s]
              /\ container[s].image \in Image /\ container[s].image \in store[s]
  BY <1>1, StartFinds DEF MayStart
<1>3. /\ lastCheck \in CheckResult /\ lastCheck.target \in [Service -> Image]
      /\ SameVersion(lastCheck.target) /\ \A s \in Service : Newer(lastCheck.target, s)
  BY <1>2 DEF SystemInv, VersionsKnow, FileTypes
<1>4. saveFaults' \in 0..MaxSaveFaults
  BY <1>1, SaveLemma DEF SystemInv
<1>5. /\ nextTask \in Nat /\ task.id \in Nat /\ task.id < nextTask
      /\ nextTask' \in 1..(MaxTasks + 1) /\ nextTask' > nextTask
  <2>1. nextTask \in Nat /\ task.id \in Nat /\ task.id < nextTask
    <3>1. task.id \in TaskId \cup {0}
      BY TaskRecord DEF SystemInv, FileTypes
    <3>2. nextTask \in TaskId /\ task.id < nextTask
      BY <1>1 DEF SystemInv, CounterTypes
    <3>3. \A k \in TaskId : k \in Nat
      BY NumberLemma
    <3>4. task.id = 0 \/ task.id \in Nat
      BY <3>1, <3>3
    <3> QED BY <3>2, <3>3, <3>4
  <2> QED BY <1>1, <2>1, UpdateAssumption DEF TaskId
<1>6. /\ t \in Task /\ t.id = nextTask /\ t.target = lastCheck.target /\ t.stage = "checking"
  <2>1. /\ lastCheck.current \in [Service -> Ref]
        /\ lastCheck.target \in [Service -> Image \cup {NoImage}]
    BY <1>3 DEF CheckResult
  <2> QED BY <1>1, <2>1, StagesLemma DEF Task
<1>7. home \in [Service -> Image] /\ \A s \in Service : home[s] = container[s].image
  BY <1>2
<1> HIDE DEF t, home
<1>8. t # task
  BY <1>5, <1>6
<1>9. CheckKnows'
  BY <1>1, <1>2 DEF Locked, CheckKnows
<1>10. CASE task' = task
  <2>1. /\ base' = base /\ jobVars' = jobVars
    BY <1>1, <1>8, <1>10
  <2>2. FileTypes' /\ ProcessTypes' /\ DockerTypes'
    BY <1>1, <1>10, <2>1 DEF SystemInv, FileTypes, ProcessTypes, DockerTypes, jobVars, dockerVars
  <2>3. CounterTypes'
    BY <1>1, <1>4, <1>5, <1>10 DEF SystemInv, CounterTypes
  <2>4. DockerKnows'
    <3>1. \A k \in TaskId : k >= nextTask' => k >= nextTask
      BY <1>5, NumberLemma
    <3> QED BY <1>1, <1>10, <2>1, <3>1 DEF SystemInv, DockerKnows, dockerVars
  <2>5. FileKnows(task)'
    BY <1>1, <1>10, <2>1 DEF SystemInv, FileKnows, Original, dockerVars
  <2>6. JobKnows'
    BY <1>2, <2>1 DEF JobKnows, jobVars
  <2>7. VersionsKnow'
    BY <1>1, <1>10, <2>1 DEF SystemInv, VersionsKnow, Newer, SameVersion
  <2> QED BY <1>9, <2>2, <2>3, <2>4, <2>5, <2>6, <2>7 DEF SystemInv
<1>11. CASE task' = t
  <2>1. base' = home
    BY <1>1, <1>11
  <2>2. mem' \in Task
    BY <1>1, <1>6 DEF SystemInv, FileTypes, jobVars
  <2>3. FileTypes'
    BY <1>1, <1>3, <1>5, <1>6, <1>11, <2>2 DEF SystemInv, FileTypes
  <2>4. ProcessTypes'
    <3>1. step' \in 0..16 /\ round' \in 0..(StableRounds - 1)
      <4>1. (step' = 1 /\ round' = 0) \/ (step' = step /\ round' = round)
        BY <1>1 DEF jobVars
      <4> QED BY <4>1, NumberLemma DEF SystemInv, ProcessTypes
    <3>2. pc' \in {pc, "enter"} /\ failing' \in BOOLEAN
      BY <1>1 DEF SystemInv, ProcessTypes, jobVars
    <3> QED BY <1>1, <3>1, <3>2 DEF SystemInv, ProcessTypes
  <2>5. DockerTypes'
    BY <1>1, <1>7, <2>1 DEF SystemInv, DockerTypes, dockerVars
  <2>6. CounterTypes'
    BY <1>1, <1>4, <1>5, <1>6, <1>11 DEF SystemInv, CounterTypes
  <2>7. DockerKnows'
    <3>1. \A k \in TaskId : (k >= nextTask' => k >= nextTask) /\ (k = nextTask => k >= nextTask)
      BY <1>5, NumberLemma
    <3> QED BY <1>1, <1>6, <1>7, <1>11, <2>1, <3>1 DEF SystemInv, DockerKnows, dockerVars
  <2>8. FileKnows(task)'
    BY <1>1, <1>6, <1>7, <1>11, <2>1, StagesLemma DEF FileKnows, dockerVars
  <2>9. VersionsKnow'
    <3>1. \A s \in Service : VersionOf[lastCheck.target[s]] > VersionOf[home[s]]
      BY <1>2, <1>3, <1>7 DEF Newer
    <3> QED BY <1>1, <1>3, <1>6, <1>11, <2>1, <3>1 DEF VersionsKnow, Newer, SameVersion
  <2>10. JobKnows'
    <3>1. ASSUME UNCHANGED jobVars PROVE JobKnows'
      BY <1>2, <3>1 DEF JobKnows, jobVars
    <3>2. ASSUME mem' = t, pc' = "enter", step' = 1 PROVE JobKnows'
      <4>1. Open(task)'
        BY <1>5, <1>6, <1>11, StagesLemma DEF Open
      <4>2. \A s \in Service : base'[s] \in store'[s] /\ container'[s].image = base'[s]
        BY <1>1, <1>2, <1>7, <2>1 DEF dockerVars
      <4>3. step' - 1 = 0
        BY <3>2
      <4>4. Progress(mem, step, step - 1)'
        BY <4>2, <4>3 DEF Progress, ServiceKnows, Service
      <4> QED BY <1>11, <3>2, <4>1, <4>4 DEF JobKnows
    <3> QED BY <1>1, <3>1, <3>2
  <2> QED BY <1>9, <2>3, <2>4, <2>5, <2>6, <2>7, <2>8, <2>9, <2>10 DEF SystemInv
<1> QED BY <1>1, <1>10, <1>11

LEMMA BootInv == SystemInv /\ Boot => SystemInv'
<1> SUFFICES ASSUME SystemInv, Boot PROVE SystemInv'
  OBVIOUS
<1>1. /\ UNCHANGED <<task, lastCheck, fresh, step, round, failing, check, dockerVars, registry, nextTask,
                     faults, saveFaults, base>>
      /\ cancelled' = FALSE /\ phase' \in {"recovering", "serving"}
      /\ \/ Open(task) /\ pc' = "recover" /\ mem' = task
         \/ UNCHANGED <<pc, mem>>
  BY DEF Boot, diskVars
<1>2. FileTypes' /\ DockerTypes' /\ CounterTypes'
  BY <1>1 DEF SystemInv, FileTypes, DockerTypes, CounterTypes, dockerVars
<1>3. ProcessTypes'
  BY <1>1 DEF SystemInv, ProcessTypes
<1>4. DockerKnows' /\ FileKnows(task)' /\ CheckKnows' /\ VersionsKnow'
  BY <1>1, TaskStays DEF Still, dockerVars
<1>5. JobKnows'
  <2>1. ASSUME Open(task), pc' = "recover", mem' = task PROVE JobKnows'
    BY <1>1, <2>1 DEF JobKnows, Open
  <2>2. ASSUME UNCHANGED <<pc, mem>> PROVE JobKnows'
    BY <1>1, <2>2, TaskStays DEF Still, dockerVars
  <2> QED BY <1>1, <2>1, <2>2
<1> QED BY <1>2, <1>3, <1>4, <1>5 DEF SystemInv

LEMMA DieInv ==
  ASSUME SystemInv, Crash \/ Exit
  PROVE  SystemInv'
<1>1. /\ UNCHANGED <<task, lastCheck, fresh, dockerVars, registry, nextTask, saveFaults, base, cancelled>>
      /\ phase' = "down" /\ check' = NoRequest /\ pc' = "none" /\ step' = 0 /\ round' = 0
      /\ failing' = FALSE /\ mem' = NoTask
  BY DEF Crash, Exit, Die, diskVars
<1>2. faults' \in 0..MaxFaults
  BY UpdateAssumption DEF Crash, Exit, SystemInv, CounterTypes
<1>3. FileTypes' /\ DockerTypes' /\ CounterTypes'
  BY <1>1, <1>2, NoTaskLemma DEF SystemInv, FileTypes, DockerTypes, CounterTypes, dockerVars
<1>4. ProcessTypes'
  <2>1. NoRequest \in [at : {"none", "web", "resolve"}, seen : [Service -> Ref]]
    BY NoTaskLemma DEF NoRequest
  <2>2. step' \in 0..16 /\ round' \in 0..(StableRounds - 1)
    BY <1>1, NumberLemma
  <2> QED BY <1>1, <2>1, <2>2 DEF SystemInv, ProcessTypes
<1>5. DockerKnows' /\ FileKnows(task)' /\ VersionsKnow'
  BY <1>1, TaskStays DEF Still, dockerVars
<1>6. JobKnows' /\ CheckKnows'
  BY <1>1 DEF JobKnows, CheckKnows, NoRequest
<1> QED BY <1>3, <1>4, <1>5, <1>6 DEF SystemInv

\* Signals, the clock, releases and the health of the services.
LEMMA OutsideInv ==
  ASSUME SystemInv,
         \/ Terminate \/ CheckExpires
         \/ \E s \in Service, i \in Image : Publish(s, i)
         \/ \E s \in Service : HealthChanges(s)
  PROVE  SystemInv'
<1>1. UNCHANGED <<task, lastCheck, phase, pc, step, round, failing, mem, check, container, alias, store,
                  dumps, nextTask, saveFaults, base>>
  BY DEF Terminate, CheckExpires, Publish, HealthChanges, diskVars, jobVars, dockerVars
<1>2. /\ fresh' \in BOOLEAN /\ cancelled' \in BOOLEAN
      /\ healthy' \in [Service -> BOOLEAN] /\ registry' \in [Service -> Image]
  BY DEF Terminate, CheckExpires, Publish, HealthChanges, diskVars, dockerVars,
         SystemInv, FileTypes, ProcessTypes, DockerTypes
<1>3. faults' \in 0..MaxFaults
  <2>1. faults \in 0..MaxFaults /\ MaxFaults \in Nat
    BY UpdateAssumption DEF SystemInv, CounterTypes
  <2>2. faults' = faults \/ (faults < MaxFaults /\ faults' = faults + 1)
    BY DEF Terminate, CheckExpires, Publish, HealthChanges
  <2> QED BY <2>1, <2>2
<1>4. FileTypes' /\ ProcessTypes' /\ DockerTypes' /\ CounterTypes'
  BY <1>1, <1>2, <1>3 DEF SystemInv, FileTypes, ProcessTypes, DockerTypes, CounterTypes
<1>5. DockerKnows' /\ FileKnows(task)' /\ JobKnows' /\ CheckKnows' /\ VersionsKnow'
  BY <1>1, TaskStays DEF Still
<1> QED BY <1>4, <1>5 DEF SystemInv

-----------------------------------------------------------------------------
LEMMA SystemStep == SystemInv /\ [Next]_vars => SystemInv'
<1> SUFFICES ASSUME SystemInv, [Next]_vars PROVE SystemInv'
  OBVIOUS
<1>1. CASE UNCHANGED vars
  <2>1. UNCHANGED <<task, lastCheck, check, pc, step, mem, failing>> /\ Still
    BY <1>1 DEF vars, Still
  <2>2. FileTypes' /\ ProcessTypes' /\ DockerTypes' /\ CounterTypes'
    BY <1>1 DEF vars, SystemInv, FileTypes, ProcessTypes, DockerTypes, CounterTypes
  <2> QED BY <2>1, <2>2, TaskStays DEF SystemInv
<1>2. CASE JobStep
  BY <1>2, EnterInv, LeaveInv, InspectInv, AliasInv, BackupInv, PullInv, DeployInv, WaitInv, RemoveInv,
     FinishInv, HandleFailureInv, DeployRollbackInv, WaitRollbackInv, EndRollbackInv, RecoverInv,
     RecoverWaitInv DEF JobStep
<1>3. CASE CheckBackend \/ CheckStep
  BY <1>3, CheckReads, CheckSaveInv DEF CheckStep
<1>4. CASE Start \/ Boot \/ Crash \/ Exit
  BY <1>4, StartInv, BootInv, DieInv
<1>5. CASE \/ Terminate \/ CheckExpires
           \/ \E s \in Service, i \in Image : Publish(s, i)
           \/ \E s \in Service : HealthChanges(s)
  BY <1>5, OutsideInv
<1> QED BY <1>1, <1>2, <1>3, <1>4, <1>5 DEF Next

\* In every reachable state Docker is as the stage in the state file promises,
\* so that Recover can end the task from there, and the job of Manager.run is
\* where its completed steps put it.
THEOREM SystemInvariant == Spec => []SystemInv
BY SystemInit, SystemStep, PTL DEF Spec

\* Every variable keeps its type: no step of the job leaves Steps, and no round
\* leaves the stable window.
THEOREM SystemTypes == Spec => []TypeOK
<1>1. SystemInv => TypeOK
  BY TypesFollow DEF SystemInv
<1> QED BY <1>1, SystemInvariant, PTL

\* A failed task leaves both services on the images they ran before it, however
\* it failed.
THEOREM FailureRestores == Spec => []FailedLeavesOriginal
<1>1. SystemInv => FailedLeavesOriginal
  BY DEF SystemInv, FileKnows, FailedLeavesOriginal
<1> QED BY <1>1, SystemInvariant, PTL

\* After an upgrade both services run its target, and the last check says so.
THEOREM SuccessIsCurrent == Spec => []SucceededIsCurrent
<1>1. SystemInv => SucceededIsCurrent
  BY DEF SystemInv, FileKnows, VersionsKnow, SucceededIsCurrent
<1> QED BY <1>1, SystemInvariant, PTL

\* From the first switch until cleaning the database backup, the alias and the
\* image of each original are there for rollback and Recover.
THEOREM RollbackIsPossible == Spec => []RollbackPossible
<1>1. SystemInv => RollbackPossible
  BY DEF SystemInv, FileKnows, SwitchStage, Original, RollbackPossible
<1> QED BY <1>1, SystemInvariant, PTL

\* A start request can start a task only while no job of an earlier one runs,
\* across crashes and recovery.
THEOREM NoSecondTask == Spec => []OneTaskAtATime
<1>1. SystemInv => OneTaskAtATime
  BY StartFinds DEF OneTaskAtATime, MayStart
<1> QED BY <1>1, SystemInvariant, PTL

\* A step that changes a container leaves the task and its base alone.
LEMMA ContainerStep ==
  ASSUME [Next]_vars
  PROVE  container' = container \/ UNCHANGED <<task, base>>
<1>1. CASE UNCHANGED vars
  BY <1>1 DEF vars
<1>2. CASE DeployTarget \/ DeployRollback
  BY <1>2 DEF DeployTarget, DeployRollback, ActUnchanged, diskVars
<1>3. CASE \/ Enter \/ Leave \/ Inspect \/ CreateRollbackAlias \/ BackupDatabase \/ PullTarget
           \/ WaitHealthy \/ RemoveOldImage
  BY <1>3 DEF Enter, Leave, Inspect, CreateRollbackAlias, BackupDatabase, PullTarget, WaitHealthy,
              RemoveOldImage, dockerVars
<1>4. CASE Finish \/ HandleFailure \/ WaitRollbackHealthy \/ EndRollback \/ Recover \/ RecoverWait
  BY <1>4 DEF Finish, HandleFailure, WaitRollbackHealthy, EndRollback, Recover, RecoverWait, dockerVars
<1>5. CASE CheckBackend \/ CheckStep \/ Start \/ Boot \/ Crash \/ Exit \/ Terminate \/ CheckExpires
  BY <1>5 DEF CheckBackend, CheckStep, CheckWeb, CheckError, CheckSave, Start, Boot, Crash, Exit, Die,
              Terminate, CheckExpires, dockerVars
<1>6. CASE \/ \E s \in Service, i \in Image : Publish(s, i)
           \/ \E s \in Service : HealthChanges(s)
  BY <1>6 DEF Publish, HealthChanges, dockerVars
<1> QED BY <1>1, <1>2, <1>3, <1>4, <1>5, <1>6 DEF Next, JobStep

\* A service only moves to a newer version than it ran when the task started,
\* or back.
THEOREM OnlyNewer == Spec => NewerOnly
<1> DEFINE Moves ==
      \A s \in Service : LET i == container'[s].image
                         IN  i \notin {container[s].image, base[s], NoImage} =>
                               VersionOf[i] > VersionOf[base[s]]
<1>1. SystemInv /\ [Next]_vars => [Moves]_vars
  <2> SUFFICES ASSUME SystemInv, [Next]_vars, NEW s \in Service,
                      container'[s].image \notin {container[s].image, base[s], NoImage}
               PROVE  VersionOf[container'[s].image] > VersionOf[base[s]]
    OBVIOUS
  <2>1. SystemInv'
    BY SystemStep
  <2>2. UNCHANGED <<task, base>>
    BY ContainerStep
  <2>3. container'[s].image = task.target[s] /\ task.target[s] # NoImage
    BY <2>1, <2>2 DEF SystemInv, DockerKnows
  <2>4. task.id # 0
    BY <2>3, NoTaskLemma DEF SystemInv, FileTypes
  <2> QED BY <2>3, <2>4 DEF SystemInv, VersionsKnow
<1> QED BY <1>1, SystemInvariant, PTL DEF Spec, NewerOnly
=============================================================================
