---------------------------- MODULE SystemUpdate ----------------------------
(***************************************************************************)
(* The Owner-driven upgrade of the backend and web containers: the         *)
(* Manager, its state file, the version checker and the Docker platform    *)
(* (internal/systemupdate), and the updater process that recovers an       *)
(* interrupted task before it serves (updater/cmd/ace-updater).            *)
(*                                                                         *)
(* One job thread runs a task (run, rollback or Recover); Check and Start  *)
(* come in over HTTP.  Every save of the state file takes the Manager's    *)
(* mutex, a Check keeps it from its first inspection to its save, and the  *)
(* Docker commands of the job run without it.  The process may be killed   *)
(* or told to stop between any two steps; Docker commands, saves and       *)
(* health checks may fail.                                                 *)
(*                                                                         *)
(* An image is a number (its digest); a container reference or an image    *)
(* tag is 0 for the project's repository and t for the rollback alias of   *)
(* task t.  Error codes and the public views are left out.                 *)
(***************************************************************************)
EXTENDS Integers, Sequences

CONSTANTS
  Image,          \* digests a service's repository can hold
  VersionOf,      \* [Image -> Nat]: the OCI version label
  FirstImage,     \* the image both services run at first
  MaxTasks,       \* bound on the tasks started
  MaxFaults,      \* bound on crashes, stops, failed commands and lost health
  MaxSaveFaults,  \* bound on failed saves of the state file
  StableRounds    \* health rounds that fit into the stable window

ASSUME UpdateAssumption ==
  /\ Image \subseteq Nat \ {0}
  /\ VersionOf \in [Image -> Nat]
  /\ FirstImage \in Image
  /\ MaxTasks \in Nat /\ MaxFaults \in Nat /\ MaxSaveFaults \in Nat
  /\ StableRounds \in Nat \ {0}

VARIABLES
  \* the state file
  task,        \* the current or last task
  lastCheck,   \* the last check
  fresh,       \* the last check is younger than checkTTL
  \* the updater process
  phase,       \* down, recovering (before it listens) or serving
  cancelled,   \* the root context is cancelled
  pc,          \* what the job thread does next
  step,        \* its step in Steps, or in a rollback or recovery
  round,       \* rounds of the stable window done
  failing,     \* rollbackErr, or cleanupPending
  mem,         \* the job's copy of the task
  check,       \* the Check that holds the mutex
  \* Docker, PostgreSQL and the registry
  container,   \* [Service -> the image it runs and the reference it was made from]
  healthy,     \* [Service -> its container and HTTP health]
  alias,       \* [Service -> [task -> the image its rollback alias tags]]
  store,       \* [Service -> local images]
  dumps,       \* tasks with a finished database backup
  registry,    \* [Service -> the image its stable tag names]
  \* bounds and history
  nextTask, faults, saveFaults,
  base         \* [Service -> the image it ran when the last task started]

diskVars   == <<task, lastCheck, fresh>>
jobVars    == <<pc, step, round, failing, mem>>
dockerVars == <<container, healthy, alias, store, dumps>>
vars == <<task, lastCheck, fresh, phase, cancelled, pc, step, round, failing,
          mem, check, container, healthy, alias, store, dumps, registry,
          nextTask, faults, saveFaults, base>>

Service  == {"backend", "web"}
TaskId   == 1..MaxTasks
NoImage  == 0
Terminal == {"succeeded", "failed", "manual_intervention"}
Stage    == {"checking", "backing_up", "pulling", "switching_backend",
             "checking_backend", "switching_web", "checking_web", "stabilizing",
             "cleaning", "rolling_back"} \cup Terminal
Ref       == [image : Image \cup {NoImage}, ref : TaskId \cup {0}]
Nothing   == [image |-> NoImage, ref |-> 0]
Task      == [id : TaskId \cup {0}, original : [Service -> Ref],
              target : [Service -> Image \cup {NoImage}], stage : Stage \cup {"none"},
              rolledBack : BOOLEAN, cleanup : {"not_run", "complete", "pending"}]
NoTask    == [id |-> 0, original |-> [s \in Service |-> Nothing],
              target |-> [s \in Service |-> NoImage], stage |-> "none",
              rolledBack |-> FALSE, cleanup |-> "not_run"]
CheckResult == [current : [Service -> Ref], target : [Service -> Image \cup {NoImage}],
                available : BOOLEAN]
NoCheck   == [current |-> [s \in Service |-> Nothing],
              target |-> [s \in Service |-> NoImage], available |-> FALSE]
NoRequest == [at |-> "none", seen |-> [s \in Service |-> Nothing]]

Call(op, svc, stage) == [op |-> op, svc |-> svc, stage |-> stage]

\* run: the calls of one upgrade and the stage each is made under.
Inspection    == <<Call("inspect", "backend", "checking"), Call("inspect", "web", "checking")>>
Aliases       == <<Call("alias", "backend", "backing_up"), Call("alias", "web", "backing_up")>>
Backup        == <<Call("backup", "backend", "backing_up")>>
Pull          == <<Call("pull", "backend", "pulling"), Call("pull", "web", "pulling")>>
SwitchBackend == <<Call("deploy", "backend", "switching_backend"),
                   Call("wait", "backend", "checking_backend")>>
SwitchWeb     == <<Call("deploy", "web", "switching_web"), Call("wait", "web", "checking_web")>>
Stabilize     == <<Call("wait", "backend", "stabilizing"), Call("wait", "web", "stabilizing")>>
Cleanup       == <<Call("remove", "backend", "cleaning"), Call("remove", "web", "cleaning")>>

\* Mutant: the web image gets no alias.
StepsOneAlias ==
  Inspection \o <<Aliases[1], Aliases[1]>> \o Backup \o Pull \o SwitchBackend \o SwitchWeb
    \o Stabilize \o Cleanup

\* Mutant: the web is switched before the backend.
StepsWebFirst ==
  Inspection \o Aliases \o Backup \o Pull \o SwitchWeb \o SwitchBackend \o Stabilize \o Cleanup

Steps ==
  Inspection \o Aliases \o Backup \o Pull \o SwitchBackend \o SwitchWeb \o Stabilize \o Cleanup

FirstSwitch  == 8    \* failures from here on roll back
FirstStable  == 12   \* stabilize repeats 12 and 13
FirstCleanup == 14   \* a failure here leaves a pending cleanup

Init ==
  /\ task = NoTask /\ lastCheck = NoCheck /\ fresh = FALSE
  /\ phase = "serving" /\ cancelled = FALSE
  /\ pc = "none" /\ step = 0 /\ round = 0 /\ failing = FALSE /\ mem = NoTask
  /\ check = NoRequest
  /\ container = [s \in Service |-> [image |-> FirstImage, ref |-> 0]]
  /\ healthy = [s \in Service |-> TRUE]
  /\ alias = [s \in Service |-> [t \in TaskId |-> NoImage]]
  /\ store = [s \in Service |-> {FirstImage}]
  /\ dumps = {} /\ registry = [s \in Service |-> FirstImage]
  /\ nextTask = 1 /\ faults = 0 /\ saveFaults = 0
  /\ base = [s \in Service |-> FirstImage]

(***************************************************************************)
(* What the platform reads from Docker.                                    *)
(***************************************************************************)
Tagged(s, i) == {t \in TaskId : alias[s][t] = i}

\* inspectService: one container, made from the repository, whose image has
\* no tag outside the repository.
Inspects(s) ==
  /\ container[s].image # NoImage
  /\ container[s].ref = 0
  /\ Tagged(s, container[s].image) = {}

\* inspectRollbackService: the container and image of this very task's alias.
InspectsRollback(s, expected, id) ==
  /\ expected.ref = id /\ expected.image # NoImage
  /\ container[s] = expected
  /\ Tagged(s, expected.image) = {id}

\* taskAwareRuntime.InspectService.
InspectsAware(s, t) ==
  Inspects(s) \/ (t.original[s].ref # 0 /\ InspectsRollback(s, t.original[s], t.id))

HasRollbackImages(original) ==
  \A s \in Service : original[s].image # NoImage /\ original[s].ref # 0

\* What Check can read: with a task that has rollback images, its aliases too.
CheckInspects(s) ==
  IF HasRollbackImages(task.original) THEN InspectsAware(s, task) ELSE Inspects(s)

(***************************************************************************)
(* The state file and the end of a job.                                    *)
(***************************************************************************)
Locked == check.at # "none"

\* Store.Save returns nil or an error.  One that fails may have replaced the
\* file: the directory sync comes last.
Save(ok) ==
  /\ ok \/ saveFaults < MaxSaveFaults
  /\ saveFaults' = IF ok THEN saveFaults ELSE saveFaults + 1

\* saveTask.  The task in the file is the job's own: Start is refused while it
\* is open.
SaveTask(t, ok) ==
  /\ ~Locked /\ task.id = t.id
  /\ Save(ok)
  /\ task' \in {t} \cup IF ok THEN {} ELSE {task}

\* The job ends.  An error of Recover ends the process.
Return(ok) ==
  /\ pc' = "none" /\ step' = 0 /\ round' = 0 /\ failing' = FALSE /\ mem' = NoTask
  /\ phase' = IF phase # "recovering" THEN phase ELSE IF ok THEN "serving" ELSE "down"

\* markFailed and markManualIntervention.
Conclude(t, stage, rolledBack) ==
  \E ok \in BOOLEAN :
    /\ SaveTask([t EXCEPT !.stage = stage, !.rolledBack = rolledBack], ok)
    /\ Return(ok)

\* rollback, up to its first save.
BeginRollback(t) ==
  LET u == [t EXCEPT !.stage = "rolling_back"]
  IN  IF ~HasRollbackImages(t.original)
        THEN Conclude(t, "manual_intervention", FALSE)
        ELSE \/ /\ SaveTask(u, TRUE)
                /\ pc' = "rollback" /\ step' = 1 /\ round' = 0 /\ failing' = FALSE
                /\ mem' = u /\ UNCHANGED phase
             \/ SaveTask(u, FALSE) /\ Return(FALSE)

(***************************************************************************)
(* The job: perform saves the stage, makes the call, and saves the result. *)
(***************************************************************************)
\* A save of perform failed; in the cleaning loop the job just ends.
SaveFailed(t) ==
  IF step >= FirstCleanup THEN Return(FALSE)
  ELSE pc' = "fail" /\ mem' = t /\ UNCHANGED <<phase, step, round, failing>>

Enter ==
  LET t == [mem EXCEPT !.stage = Steps[step].stage]
  IN
  /\ pc = "enter"
  /\ \/ SaveTask(t, TRUE) /\ pc' = "act" /\ mem' = t /\ UNCHANGED <<phase, step, round, failing>>
     \/ SaveTask(t, FALSE) /\ SaveFailed(t)
  /\ UNCHANGED <<lastCheck, fresh, cancelled, check, dockerVars, registry, nextTask, faults, base>>

\* Mutant: one round more than fits into the stable window.
AdvanceLate ==
  IF step = FirstCleanup - 1 /\ round < StableRounds
    THEN step' = FirstStable /\ round' = round + 1 /\ pc' = "enter"
    ELSE /\ step' = step + 1 /\ round' = IF step = FirstCleanup - 1 THEN 0 ELSE round
         /\ pc' = IF step = Len(Steps) THEN "finish" ELSE "enter"

\* The next step; the stable window repeats its two health checks.
Advance ==
  IF step = FirstCleanup - 1 /\ round + 1 < StableRounds
    THEN step' = FirstStable /\ round' = round + 1 /\ pc' = "enter"
    ELSE /\ step' = step + 1 /\ round' = IF step = FirstCleanup - 1 THEN 0 ELSE round
         /\ pc' = IF step = Len(Steps) THEN "finish" ELSE "enter"

Leave ==
  /\ pc = "leave"
  /\ \/ SaveTask(mem, TRUE) /\ Advance /\ UNCHANGED <<phase, failing, mem>>
     \/ SaveTask(mem, FALSE) /\ SaveFailed(mem)
  /\ UNCHANGED <<lastCheck, fresh, cancelled, check, dockerVars, registry, nextTask, faults, base>>

Acting(op) == pc = "act" /\ Steps[step].op = op
Svc == Steps[step].svc

\* The call returned nil.
Works(possible) == possible /\ ~cancelled /\ pc' = "leave" /\ UNCHANGED <<failing, faults>>

\* A command that cannot work fails; any other fails when the root context is
\* cancelled or by a fault.
Breaks(possible) ==
  /\ ~possible \/ cancelled \/ faults < MaxFaults
  /\ faults' = IF ~possible \/ cancelled THEN faults ELSE faults + 1

\* The call returned an error: perform gives up, the cleaning loop goes on.
Fails(possible) ==
  /\ Breaks(possible)
  /\ IF step >= FirstCleanup THEN pc' = "leave" /\ failing' = TRUE
     ELSE pc' = "fail" /\ UNCHANGED failing

ActUnchanged ==
  UNCHANGED <<diskVars, phase, cancelled, step, round, check, registry, nextTask,
              saveFaults, base>>

Inspect ==
  /\ Acting("inspect")
  /\ \/ /\ Works(Inspects(Svc))
        /\ mem' = [mem EXCEPT !.original[Svc] = container[Svc]]
     \/ Fails(Inspects(Svc)) /\ UNCHANGED mem
  /\ ActUnchanged /\ UNCHANGED dockerVars

\* docker image tag; a failed call may have set the tag, and its empty result
\* replaces the original in the job's copy.
CreateRollbackAlias ==
  LET tagged == [alias EXCEPT ![Svc][mem.id] = mem.original[Svc].image]
  IN
  /\ Acting("alias")
  /\ \/ /\ Works(TRUE) /\ alias' = tagged
        /\ mem' = [mem EXCEPT !.original[Svc].ref = mem.id]
     \/ /\ Fails(TRUE) /\ alias' \in {alias, tagged}
        /\ mem' = [mem EXCEPT !.original[Svc] = Nothing]
  /\ ActUnchanged /\ UNCHANGED <<container, healthy, store, dumps>>

\* The dump is renamed into place last.
BackupDatabase ==
  /\ Acting("backup")
  /\ \/ Works(TRUE) /\ dumps' = dumps \cup {mem.id}
     \/ Fails(TRUE) /\ UNCHANGED dumps
  /\ ActUnchanged /\ UNCHANGED <<mem, container, healthy, alias, store>>

\* Pull by digest and inspect what was pulled.
PullTarget ==
  LET image  == mem.target[Svc]
      clean  == Tagged(Svc, image) = {}
      pulled == [store EXCEPT ![Svc] = @ \cup {image}]
  IN
  /\ Acting("pull")
  /\ \/ Works(clean) /\ store' = pulled
     \/ Fails(clean) /\ store' \in {store, pulled}
  /\ ActUnchanged /\ UNCHANGED <<mem, container, healthy, alias, dumps>>

\* docker compose up --force-recreate of one service.  A failed or killed call
\* may leave the old container, none, or the new one.
Recreate(s, c) ==
  /\ container' = [container EXCEPT ![s] = c]
  /\ \E h \in BOOLEAN : healthy' = [healthy EXCEPT ![s] = h]

RecreateFails(s, c, possible) ==
  \/ UNCHANGED <<container, healthy>>
  \/ possible /\ (Recreate(s, c) \/ Recreate(s, Nothing))

DeployTarget ==
  LET c == [image |-> mem.target[Svc], ref |-> 0]
      local == c.image \in store[Svc]
  IN
  /\ Acting("deploy")
  /\ \/ Works(local) /\ Recreate(Svc, c)
     \/ Fails(local) /\ RecreateFails(Svc, c, local)
  /\ ActUnchanged /\ UNCHANGED <<mem, alias, store, dumps>>

WaitHealthy ==
  LET well == Inspects(Svc) /\ healthy[Svc]
  IN
  /\ Acting("wait")
  /\ Works(well) \/ Fails(well)
  /\ ActUnchanged /\ UNCHANGED <<mem, dockerVars>>

\* RemoveOldImage: only an unused image under this alias alone; first the
\* tags, then the image.
Removable(s, old) ==
  /\ old.image \in store[s] /\ old.ref # 0
  /\ container[s].image # old.image
  /\ Tagged(s, old.image) = {old.ref}

RemoveOldImage ==
  LET old == mem.original[Svc]
      untagged == [alias EXCEPT ![Svc][old.ref] = NoImage]
  IN
  /\ Acting("remove")
  /\ \/ /\ Works(Removable(Svc, old)) /\ alias' = untagged
        /\ store' = [store EXCEPT ![Svc] = @ \ {old.image}]
     \/ /\ Fails(Removable(Svc, old))
        /\ alias' = alias \/ (Removable(Svc, old) /\ alias' = untagged)
        /\ UNCHANGED store
  /\ ActUnchanged /\ UNCHANGED <<mem, container, healthy, dumps>>

\* Mutant: the last check keeps the version it was made under.
FinishedCheckStale(t) == lastCheck

\* finishTask: the last check now runs the target.
FinishedCheck(t) ==
  [lastCheck EXCEPT
     !.current = [s \in Service |-> [image |-> t.target[s], ref |-> 0]],
     !.available = VersionOf[lastCheck.target["backend"]] > VersionOf[t.target["backend"]]]

Finish ==
  LET t == [mem EXCEPT !.stage = "succeeded",
                       !.cleanup = IF failing THEN "pending" ELSE "complete"]
  IN
  /\ pc = "finish"
  /\ \E ok \in BOOLEAN :
       /\ SaveTask(t, ok) /\ Return(ok)
       /\ lastCheck' = IF task' = t THEN FinishedCheck(t) ELSE lastCheck
  /\ UNCHANGED <<fresh, cancelled, check, dockerVars, registry, nextTask, faults, base>>

\* handleFailure: a cancelled job leaves its checkpoint to the next process.
HandleFailure ==
  /\ pc = "fail"
  /\ IF cancelled THEN Return(FALSE) /\ UNCHANGED <<task, saveFaults>>
     ELSE IF step >= FirstSwitch THEN BeginRollback(mem)
     ELSE Conclude(mem, "failed", FALSE)
  /\ UNCHANGED <<lastCheck, fresh, cancelled, check, dockerVars, registry, nextTask, faults, base>>

(***************************************************************************)
(* rollback: both services are deployed and checked, whatever fails.       *)
(***************************************************************************)
RollbackSvc == IF step <= 2 THEN "backend" ELSE "web"

RollbackDone(possible) == possible /\ ~cancelled /\ UNCHANGED <<failing, faults>>
RollbackFails(possible) == Breaks(possible) /\ failing' = TRUE

DeployRollback ==
  LET s == RollbackSvc
      c == [image |-> alias[s][mem.id], ref |-> mem.id]
      local == /\ \A u \in Service : mem.original[u].ref = mem.id
               /\ c.image # NoImage
  IN
  /\ pc = "rollback" /\ step \in {1, 3}
  /\ \/ RollbackDone(local) /\ Recreate(s, c)
     \/ RollbackFails(local) /\ RecreateFails(s, c, local)
  /\ step' = step + 1
  /\ UNCHANGED <<diskVars, phase, cancelled, pc, round, mem, check, alias, store, dumps,
                 registry, nextTask, saveFaults, base>>

WaitRollbackHealthy ==
  LET s == RollbackSvc
      well == InspectsRollback(s, mem.original[s], mem.id) /\ healthy[s]
  IN
  /\ pc = "rollback" /\ step \in {2, 4}
  /\ RollbackDone(well) \/ RollbackFails(well)
  /\ step' = step + 1
  /\ UNCHANGED <<diskVars, phase, cancelled, pc, round, mem, check, dockerVars, registry,
                 nextTask, saveFaults, base>>

EndRollback ==
  /\ pc = "rollback" /\ step = 5
  /\ IF failing /\ cancelled THEN Return(FALSE) /\ UNCHANGED <<task, saveFaults>>
     ELSE IF failing THEN Conclude(mem, "manual_intervention", FALSE)
     ELSE Conclude(mem, "failed", TRUE)
  /\ UNCHANGED <<lastCheck, fresh, cancelled, check, dockerVars, registry, nextTask, faults, base>>

(***************************************************************************)
(* The process: start with recovery, stop, crash.                          *)
(***************************************************************************)
Open(t) == t.id # 0 /\ t.stage \notin Terminal

\* Mutant: a task that has switched nothing yet is not recovered.
BootLateStages ==
  /\ phase = "down"
  /\ cancelled' = FALSE
  /\ IF Open(task) /\ task.stage \notin {"checking", "backing_up", "pulling"}
       THEN phase' = "recovering" /\ pc' = "recover" /\ mem' = task
       ELSE phase' = "serving" /\ UNCHANGED <<pc, mem>>
  /\ UNCHANGED <<diskVars, step, round, failing, check, dockerVars, registry, nextTask,
                 faults, saveFaults, base>>

\* main recovers an open task before it serves.
Boot ==
  /\ phase = "down"
  /\ cancelled' = FALSE
  /\ IF Open(task) THEN phase' = "recovering" /\ pc' = "recover" /\ mem' = task
     ELSE phase' = "serving" /\ UNCHANGED <<pc, mem>>
  /\ UNCHANGED <<diskVars, step, round, failing, check, dockerVars, registry, nextTask,
                 faults, saveFaults, base>>

\* Mutant: a restart during a switch counts as a plain failure.
RecoveryNoRollback(t, runs) ==
  CASE t.stage = "cleaning" -> "clean"
    [] OTHER -> "fail"

\* The branch Recover takes for a task when both services could be inspected
\* and run these images.
Recovery(t, runs) ==
  CASE t.stage \in {"checking", "backing_up", "pulling"} ->
         IF runs = [s \in Service |-> t.original[s].image] THEN "fail" ELSE "manual"
    [] t.stage = "cleaning" ->
         IF ~HasRollbackImages(t.original) THEN "manual"
         ELSE IF runs = t.target THEN "clean" ELSE "rollback"
    [] OTHER -> "rollback"

\* Recover, up to its decision.
Recover ==
  LET seen == \A s \in Service : InspectsAware(s, mem)
      branch == Recovery(mem, [s \in Service |-> container[s].image])
  IN
  /\ pc = "recover"
  /\ \/ /\ Breaks(seen)
        /\ IF cancelled THEN Return(FALSE) /\ UNCHANGED <<task, saveFaults>>
           ELSE Conclude(mem, "manual_intervention", FALSE)
     \/ /\ seen /\ ~cancelled /\ UNCHANGED faults
        /\ \/ branch = "fail" /\ Conclude(mem, "failed", FALSE)
           \/ branch = "manual" /\ Conclude(mem, "manual_intervention", FALSE)
           \/ branch = "rollback" /\ BeginRollback(mem)
           \/ /\ branch = "clean" /\ pc' = "recoverWait" /\ step' = 1
              /\ UNCHANGED <<task, saveFaults, phase, round, failing, mem>>
  /\ UNCHANGED <<lastCheck, fresh, cancelled, check, dockerVars, registry, nextTask, base>>

\* The health checks before resumeCleanup; any error rolls back, a cancelled
\* context included.
RecoverWait ==
  LET s == IF step = 1 THEN "backend" ELSE "web"
      well == Inspects(s) /\ healthy[s]
  IN
  /\ pc = "recoverWait"
  /\ \/ /\ well /\ ~cancelled
        /\ IF step = 1 THEN step' = 2 /\ UNCHANGED pc ELSE step' = FirstCleanup /\ pc' = "enter"
        /\ UNCHANGED <<task, saveFaults, faults, phase, round, failing, mem>>
     \/ Breaks(well) /\ BeginRollback(mem)
  /\ UNCHANGED <<lastCheck, fresh, cancelled, check, dockerVars, registry, nextTask, base>>

\* The process is gone, its job and its requests with it.
Die ==
  /\ phase' = "down" /\ check' = NoRequest
  /\ pc' = "none" /\ step' = 0 /\ round' = 0 /\ failing' = FALSE /\ mem' = NoTask
  /\ UNCHANGED <<diskVars, dockerVars, registry, nextTask, saveFaults, base>>

Crash ==
  /\ phase # "down" /\ faults < MaxFaults
  /\ faults' = faults + 1
  /\ Die /\ UNCHANGED cancelled

\* SIGTERM cancels the root context; main shuts the server down and returns
\* without waiting for the job.
Terminate ==
  /\ phase # "down" /\ ~cancelled /\ faults < MaxFaults
  /\ faults' = faults + 1 /\ cancelled' = TRUE
  /\ UNCHANGED <<diskVars, phase, jobVars, check, dockerVars, registry, nextTask,
                 saveFaults, base>>

Exit == cancelled /\ phase = "serving" /\ Die /\ UNCHANGED <<cancelled, faults>>

(***************************************************************************)
(* The Owner's requests.                                                   *)
(***************************************************************************)
\* Check takes the mutex and inspects the backend; an unreadable service, an
\* unreachable registry or a lost client ends it with an error.
CheckBackend ==
  /\ phase = "serving" /\ ~Locked /\ CheckInspects("backend")
  /\ check' = [at |-> "web", seen |-> [NoRequest.seen EXCEPT !["backend"] = container["backend"]]]
  /\ UNCHANGED <<diskVars, phase, cancelled, jobVars, dockerVars, registry, nextTask,
                 faults, saveFaults, base>>

CheckWeb ==
  /\ check.at = "web" /\ CheckInspects("web")
  /\ check' = [check EXCEPT !.at = "resolve", !.seen["web"] = container["web"]]
  /\ UNCHANGED <<diskVars, phase, cancelled, jobVars, dockerVars, registry, nextTask,
                 faults, saveFaults, base>>

CheckError ==
  /\ Locked /\ check' = NoRequest
  /\ UNCHANGED <<diskVars, phase, cancelled, jobVars, dockerVars, registry, nextTask,
                 faults, saveFaults, base>>

\* Checker.Check's comparison of the running and the published pair.
Comparable(current, target) ==
  /\ VersionOf[current["backend"].image] = VersionOf[current["web"].image]
  /\ VersionOf[target["backend"]] = VersionOf[target["web"]]
  /\ VersionOf[target["backend"]] >= VersionOf[current["backend"].image]

CheckSave ==
  LET found == [current |-> check.seen, target |-> registry,
                available |-> VersionOf[registry["backend"]]
                                > VersionOf[check.seen["backend"].image]]
  IN
  /\ check.at = "resolve" /\ Comparable(check.seen, registry)
  /\ check' = NoRequest
  /\ \/ \E ok \in BOOLEAN : Save(ok) /\ lastCheck' = found /\ fresh' = TRUE
     \/ Save(FALSE) /\ UNCHANGED <<lastCheck, fresh>>
  /\ UNCHANGED <<task, phase, cancelled, jobVars, dockerVars, registry, nextTask, faults, base>>

\* Mutant: an open task does not block a new one.
BlocksManualOnly(t) == t.stage = "manual_intervention"

\* A task that refuses Start with ErrUpdateTaskActive.
Blocks(t) == Open(t) \/ t.stage = "manual_intervention"

\* Start's conditions on the state file.
MayStart ==
  /\ phase = "serving" /\ ~Locked
  /\ ~Blocks(task)
  /\ lastCheck # NoCheck /\ fresh /\ lastCheck.available

\* Start records the task and launches run.  When the save fails no job is
\* launched, whether or not the file has the task.
Start ==
  LET t == [id |-> nextTask, original |-> lastCheck.current, target |-> lastCheck.target,
            stage |-> "checking", rolledBack |-> FALSE, cleanup |-> "not_run"]
  IN
  /\ MayStart /\ nextTask \in TaskId
  /\ nextTask' = nextTask + 1
  /\ \/ /\ Save(TRUE) /\ task' = t /\ mem' = t /\ pc' = "enter" /\ step' = 1
        /\ round' = 0 /\ failing' = FALSE
     \/ Save(FALSE) /\ task' \in {task, t} /\ UNCHANGED jobVars
  /\ base' = IF task' = t THEN [s \in Service |-> container[s].image] ELSE base
  /\ UNCHANGED <<lastCheck, fresh, phase, cancelled, check, dockerVars, registry, faults>>

\* The check grows older than checkTTL, or the clock is set back.
CheckExpires ==
  /\ fresh /\ fresh' = FALSE
  /\ UNCHANGED <<task, lastCheck, phase, cancelled, jobVars, check, dockerVars, registry,
                 nextTask, faults, saveFaults, base>>

\* A release moves a service's stable tag.
Publish(s, i) ==
  /\ i > registry[s] /\ registry' = [registry EXCEPT ![s] = i]
  /\ UNCHANGED <<diskVars, phase, cancelled, jobVars, check, dockerVars, nextTask, faults,
                 saveFaults, base>>

\* A service loses or regains its health.
HealthChanges(s) ==
  /\ healthy[s] => faults < MaxFaults
  /\ faults' = IF healthy[s] THEN faults + 1 ELSE faults
  /\ container[s].image # NoImage
  /\ healthy' = [healthy EXCEPT ![s] = ~@]
  /\ UNCHANGED <<diskVars, phase, cancelled, jobVars, check, container, alias, store, dumps,
                 registry, nextTask, saveFaults, base>>

JobStep ==
  \/ Enter \/ Leave \/ Inspect \/ CreateRollbackAlias \/ BackupDatabase \/ PullTarget
  \/ DeployTarget \/ WaitHealthy \/ RemoveOldImage \/ Finish \/ HandleFailure
  \/ DeployRollback \/ WaitRollbackHealthy \/ EndRollback
  \/ Recover \/ RecoverWait

CheckStep == CheckWeb \/ CheckError \/ CheckSave

Next ==
  \/ JobStep \/ CheckBackend \/ CheckStep \/ Start
  \/ Boot \/ Crash \/ Terminate \/ Exit
  \/ CheckExpires
  \/ \E s \in Service, i \in Image : Publish(s, i)
  \/ \E s \in Service : HealthChanges(s)

Spec == Init /\ [][Next]_vars

(***************************************************************************)
(* Fairness: the job and a Check go on, a terminated process exits, and    *)
(* Docker restarts the updater (restart: unless-stopped).  The job's is    *)
(* strong because its saves compete with Checks for the mutex, which Go    *)
(* hands to a waiter that starves.                                         *)
(***************************************************************************)
FairSpec ==
  Spec /\ SF_vars(JobStep) /\ WF_vars(CheckStep) /\ WF_vars(Exit) /\ WF_vars(Boot)

(***************************************************************************)
(* Properties.                                                             *)
(***************************************************************************)
\* Type invariant: the state file, the job and Docker keep their shapes.
TypeOK ==
  /\ task \in Task /\ mem \in Task /\ lastCheck \in CheckResult /\ fresh \in BOOLEAN
  /\ phase \in {"down", "recovering", "serving"} /\ cancelled \in BOOLEAN
  /\ pc \in {"none", "enter", "act", "leave", "finish", "fail", "rollback", "recover",
             "recoverWait"}
  /\ step \in 0..(Len(Steps) + 1) /\ round \in 0..(StableRounds - 1) /\ failing \in BOOLEAN
  /\ check.at \in {"none", "web", "resolve"} /\ check.seen \in [Service -> Ref]
  /\ container \in [Service -> Ref] /\ healthy \in [Service -> BOOLEAN]
  /\ alias \in [Service -> [TaskId -> Image \cup {NoImage}]]
  /\ store \in [Service -> SUBSET Image] /\ dumps \subseteq TaskId
  /\ registry \in [Service -> Image] /\ nextTask \in 1..(MaxTasks + 1)
  /\ faults \in 0..MaxFaults /\ saveFaults \in 0..MaxSaveFaults
  /\ base \in [Service -> Image \cup {NoImage}]

\* A failed task leaves both services on the images they ran when it started,
\* whether it failed before the switch, was rolled back, or was interrupted and
\* recovered (handleFailure, rollback, Recover).
FailedLeavesOriginal ==
  task.stage = "failed" => \A s \in Service : container[s].image = base[s]

\* After an upgrade both services run its target, and the last check, which a
\* concurrent Check may have written at any point of it, says so (finishTask).
SucceededIsCurrent ==
  task.stage = "succeeded" =>
    \A s \in Service : /\ container[s].image = task.target[s]
                       /\ lastCheck.current[s].image = container[s].image

\* From the first switch until cleaning, whenever the process dies, the state
\* file and Docker hold all a rollback needs: the database backup of the task and
\* the alias of each original.
RollbackPossible ==
  task.stage \in {"switching_backend", "checking_backend", "switching_web", "checking_web",
                  "stabilizing"}
  => /\ task.id \in dumps
     /\ \A s \in Service :
          /\ task.original[s] = [image |-> base[s], ref |-> task.id]
          /\ alias[s][task.id] = base[s] /\ base[s] \in store[s]

\* A request can start a task only while no job runs: the state file shows a
\* task as open as long as its job may still act.
OneTaskAtATime == MayStart => pc = "none"

\* A service is only ever moved to a newer version than it ran when the task
\* started, or back: no downgrade and no second upgrade to the same version
\* from an outdated check.
NewerOnly ==
  [][\A s \in Service :
       LET i == container'[s].image
       IN  i \notin {container[s].image, base[s], NoImage} =>
             VersionOf[i] > VersionOf[base[s]]]_vars

\* Every task ends, whatever Docker, the services and restarts do, as long as
\* the state file can be written.
TaskEnds == Open(task) ~> ~Open(task)

(***************************************************************************)
(* The abstract upgrade that this one implements.                          *)
(***************************************************************************)
\* What the stage in the state file tells the Owner.
PhaseOf(stage) ==
  CASE stage = "none" -> "never"
    [] stage \in {"checking", "backing_up", "pulling"} -> "prepares"
    [] stage = "rolling_back" -> "undoes"
    [] stage = "manual_intervention" -> "manual"
    [] stage \in {"succeeded", "failed"} -> stage
    [] OTHER -> "switches"

Runs == [s \in Service |-> container[s].image]

Upgrade == INSTANCE SystemUpgrade
             WITH runs <- Runs, was <- base, goal <- task.target, phase <- PhaseOf(task.stage)

\* The updater implements the abstract upgrade: seen from the images that the
\* services run and from the task in the state file, every Docker command, save,
\* failure, crash, recovery, check and start is a step of it, or none.
ImplementsUpgrade == Upgrade!Spec

\* Plan: "`checking|backing_up|pulling`: inspect both running services; if
\* originals still run, mark `failed/updater_restarted` without switching".
InterruptedBeforeSwitchFails ==
  [][/\ pc = "recover" /\ mem.stage \in {"checking", "backing_up", "pulling"}
     /\ \A s \in Service : container[s].image = mem.original[s].image
     => task'.stage # "manual_intervention"]_vars

\* Design: "回滚成功后任务进入 failed，页面显示安全摘要并允许重新检查更新": while
\* the services run what a rollback restored and no task is open, a check can
\* read them.
RecheckAfterRollback ==
  /\ phase = "serving" /\ task.stage = "failed"
  /\ \A s \in Service : container[s].ref # 0
  => \A s \in Service : CheckInspects(s)
=============================================================================
