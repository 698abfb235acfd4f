----------------------- MODULE SystemUpdateRefinement -----------------------
(***************************************************************************)
(* SystemUpdate implements SystemUpgrade, for any images, versions, number *)
(* of tasks, faults and health rounds.  SystemInv says what the stage in   *)
(* the state file promises about Docker; the stages of the abstract        *)
(* upgrade also need the converse, StageKnows: the file has not got ahead  *)
(* of the job, so that a job which has switched nothing finds a stage from *)
(* before the switch there.                                                *)
(***************************************************************************)
EXTENDS SystemUpdateProofs

Prepare == {"checking", "backing_up", "pulling"}
Replace == SwitchStage \cup {"cleaning"}

\* The stage in the file when the job is about to save one, or has failed.
StageKnows ==
  /\ pc = "enter" => IF step <= FirstSwitch THEN task.stage \in Prepare
                     ELSE task.stage \in Replace
  /\ pc = "fail" /\ step < FirstSwitch => task.stage \in Prepare

UpgradeInv == SystemInv /\ StageKnows

-----------------------------------------------------------------------------
(* The file and the job.                                                   *)

LEMMA StepsAre ==
  ASSUME NEW k \in 1..15
  PROVE  /\ k < FirstSwitch => Steps[k].stage \in Prepare
         /\ ~(k < FirstSwitch) => Steps[k].stage \in Replace
<1>1. k < 8 \/ (k >= 8 /\ k < 14) \/ k >= 14
  OBVIOUS
<1> QED BY <1>1, StepLemma DEF FirstSwitch, Prepare, Replace

\* A save writes the task or, when it fails, may leave the old one.
LEMMA SaveWrites ==
  ASSUME NEW t, NEW ok, SaveTask(t, ok)
  PROVE  task' \in {task, t} /\ (ok = TRUE => task' = t)
BY DEF SaveTask

\* A job that has ended, or neither enters a stage nor has failed, owes nothing.
LEMMA StageFree == pc' \notin {"enter", "fail"} => StageKnows'
BY DEF StageKnows

LEMMA StageEnter == UpgradeInv /\ Enter => StageKnows'
<1> SUFFICES ASSUME UpgradeInv, Enter PROVE StageKnows'
  OBVIOUS
<1> DEFINE t == [mem EXCEPT !.stage = Steps[step].stage]
<1>1. pc = "enter" /\ step \in 1..15 /\ mem = task /\ mem \in Task
  BY DEF Enter, UpgradeInv, SystemInv, JobKnows, FileTypes
<1>2. t.stage = Steps[step].stage
  BY <1>1 DEF Task
<1>3. \/ pc' = "act"
      \/ SaveTask(t, FALSE) /\ Return(FALSE)
      \/ SaveTask(t, FALSE) /\ pc' = "fail" /\ step' = step
  BY DEF Enter, SaveFailed
<1> HIDE DEF t
<1>4. CASE pc' = "act" \/ Return(FALSE)
  BY <1>4, StageFree DEF Return
<1>5. CASE SaveTask(t, FALSE) /\ pc' = "fail" /\ step' = step
  <2>1. task'.stage \in {task.stage, Steps[step].stage}
    BY <1>2, <1>5, SaveWrites
  <2>2. step < FirstSwitch => step <= FirstSwitch
    BY <1>1 DEF FirstSwitch
  <2>3. step < FirstSwitch => task.stage \in Prepare /\ Steps[step].stage \in Prepare
    BY <1>1, <2>2, StepsAre DEF UpgradeInv, StageKnows
  <2> QED BY <1>5, <2>1, <2>3 DEF StageKnows
<1> QED BY <1>3, <1>4, <1>5

LEMMA StageLeave == UpgradeInv /\ Leave => StageKnows'
<1> SUFFICES ASSUME UpgradeInv, Leave PROVE StageKnows'
  OBVIOUS
<1>1. /\ pc = "leave" /\ step \in 1..15 /\ mem.stage = Steps[step].stage
      /\ task.stage = mem.stage
  BY DEF Leave, UpgradeInv, SystemInv, JobKnows
<1>2. task'.stage = Steps[step].stage
  BY <1>1, SaveWrites DEF Leave
<1>3. \/ Advance \/ Return(FALSE) \/ (pc' = "fail" /\ step' = step)
  BY DEF Leave, SaveFailed
<1>4. CASE Return(FALSE)
  BY <1>4, StageFree DEF Return
<1>5. CASE pc' = "fail" /\ step' = step
  BY <1>1, <1>2, <1>5, StepsAre DEF StageKnows
<1>6. CASE Advance
  <2>1. CASE pc' = "finish"
    BY <2>1, StageFree
  <2>2. CASE pc' = "enter" /\ step' = step + 1
    <3>1. step' <= FirstSwitch <=> step < FirstSwitch
      BY <1>1, <2>2 DEF FirstSwitch
    <3> QED BY <1>1, <1>2, <2>2, <3>1, StepsAre DEF StageKnows
  <2>3. CASE pc' = "enter" /\ step' = 12 /\ step = 13
    <3>1. ~(step' <= FirstSwitch) /\ ~(step < FirstSwitch)
      BY <2>3 DEF FirstSwitch
    <3> QED BY <1>1, <1>2, <2>3, <3>1, StepsAre DEF StageKnows
  <2>4. FirstStable = 12 /\ FirstCleanup - 1 = 13
    BY DEF FirstStable, FirstCleanup
  <2>5. (pc' = "enter" /\ step' = 12 /\ step = 13) \/ (step' = step + 1 /\ pc' \in {"enter", "finish"})
    BY <1>6, <2>4 DEF Advance
  <2> QED BY <2>1, <2>2, <2>3, <2>5
<1> QED BY <1>3, <1>4, <1>5, <1>6

\* The calls of the job keep the file and the step.
CallStep ==
  \/ Inspect \/ CreateRollbackAlias \/ BackupDatabase \/ PullTarget \/ DeployTarget
  \/ WaitHealthy \/ RemoveOldImage

LEMMA StageCall == UpgradeInv /\ CallStep => StageKnows'
<1> SUFFICES ASSUME UpgradeInv, CallStep PROVE StageKnows'
  OBVIOUS
<1>1. pc = "act" /\ UNCHANGED <<task, step>>
  BY DEF CallStep, Inspect, CreateRollbackAlias, BackupDatabase, PullTarget, DeployTarget,
         WaitHealthy, RemoveOldImage, Acting, ActUnchanged, diskVars
<1>2. pc' \in {"leave", "fail"}
  BY DEF CallStep, Inspect, CreateRollbackAlias, BackupDatabase, PullTarget, DeployTarget,
         WaitHealthy, RemoveOldImage, Works, Fails
<1>3. step \in 1..15 /\ task.stage = Steps[step].stage
  BY <1>1, ActKnows DEF UpgradeInv
<1> QED BY <1>1, <1>2, <1>3, StepsAre DEF StageKnows

\* The steps after which no job runs, or one that rolls back or recovers.
LEMMA ConcludeEnds ==
  ASSUME NEW t, NEW stage, NEW b, Conclude(t, stage, b)
  PROVE  pc' = "none"
BY DEF Conclude, Return

LEMMA BeginRollbackPc ==
  ASSUME NEW t, BeginRollback(t)
  PROVE  pc' \in {"none", "rollback"}
BY ConcludeEnds DEF BeginRollback, Return

LEMMA StageOther ==
  /\ Finish \/ HandleFailure \/ DeployRollback \/ WaitRollbackHealthy \/ EndRollback
     \/ Recover
       => pc' \notin {"enter", "fail"}
  /\ Boot \/ Crash \/ Exit => pc' \notin {"enter", "fail"} \/ UNCHANGED <<task, pc, step>>
<1>1. Finish \/ HandleFailure \/ EndRollback \/ Recover => pc' \notin {"enter", "fail"}
  BY ConcludeEnds, BeginRollbackPc DEF Finish, HandleFailure, EndRollback, Recover, Return
<1>2. DeployRollback \/ WaitRollbackHealthy => pc' \notin {"enter", "fail"}
  BY DEF DeployRollback, WaitRollbackHealthy
<1>3. Boot \/ Crash \/ Exit => pc' \notin {"enter", "fail"} \/ UNCHANGED <<task, pc, step>>
  BY DEF Boot, Crash, Exit, Die, diskVars
<1> QED BY <1>1, <1>2, <1>3

LEMMA StageRecoverWait == UpgradeInv /\ RecoverWait => StageKnows'
<1> SUFFICES ASSUME UpgradeInv, RecoverWait PROVE StageKnows'
  OBVIOUS
<1>1. pc = "recoverWait" /\ mem = task /\ mem.stage = "cleaning"
  BY DEF RecoverWait, UpgradeInv, SystemInv, JobKnows
<1>2. CASE BeginRollback(mem)
  BY <1>2, BeginRollbackPc, StageFree
<1>3. CASE step' = FirstCleanup /\ pc' = "enter" /\ task' = task
  <2>1. ~(step' <= FirstSwitch)
    BY <1>3 DEF FirstCleanup, FirstSwitch
  <2> QED BY <1>1, <1>3, <2>1 DEF StageKnows, Replace
<1>4. CASE pc' = pc
  BY <1>1, <1>4, StageFree
<1> QED BY <1>2, <1>3, <1>4 DEF RecoverWait

LEMMA StageStart == UpgradeInv /\ Start => StageKnows'
<1> SUFFICES ASSUME UpgradeInv, Start PROVE StageKnows'
  OBVIOUS
<1>1. pc = "none"
  BY StartFinds DEF UpgradeInv, Start, MayStart
<1>2. (pc' = "enter" /\ step' = 1 /\ task'.stage = "checking") \/ pc' = pc
  <2> DEFINE t == [id |-> nextTask, original |-> lastCheck.current, target |-> lastCheck.target,
                   stage |-> "checking", rolledBack |-> FALSE, cleanup |-> "not_run"]
  <2>1. t.stage = "checking"
    OBVIOUS
  <2>2. (pc' = "enter" /\ step' = 1 /\ task' = t) \/ UNCHANGED jobVars
    BY DEF Start
  <2> HIDE DEF t
  <2> QED BY <2>1, <2>2 DEF jobVars
<1>3. CASE pc' = pc
  BY <1>1, <1>3, StageFree
<1>4. CASE pc' = "enter" /\ step' = 1 /\ task'.stage = "checking"
  BY <1>4 DEF StageKnows, FirstSwitch, Prepare
<1> QED BY <1>2, <1>3, <1>4

LEMMA StageBeside ==
  ASSUME UpgradeInv, UNCHANGED <<task, pc, step>>
  PROVE  StageKnows'
BY DEF UpgradeInv, StageKnows

LEMMA UpgradeInvStep == UpgradeInv /\ [Next]_vars => UpgradeInv'
<1> SUFFICES ASSUME UpgradeInv, [Next]_vars PROVE UpgradeInv'
  OBVIOUS
<1>1. SystemInv'
  BY SystemStep DEF UpgradeInv
<1>2. CASE Enter \/ Leave \/ CallStep \/ RecoverWait \/ Start
  BY <1>1, <1>2, StageEnter, StageLeave, StageCall, StageRecoverWait, StageStart DEF UpgradeInv
<1>3. CASE \/ Finish \/ HandleFailure \/ DeployRollback \/ WaitRollbackHealthy \/ EndRollback
           \/ Recover \/ Boot \/ Crash \/ Exit
  BY <1>1, <1>3, StageOther, StageFree, StageBeside DEF UpgradeInv
<1>4. CASE \/ CheckBackend \/ CheckStep \/ Terminate \/ CheckExpires
           \/ \E s \in Service, i \in Image : Publish(s, i)
           \/ \E s \in Service : HealthChanges(s)
           \/ UNCHANGED vars
  <2>1. UNCHANGED <<task, pc, step>>
    BY <1>4 DEF CheckBackend, CheckStep, CheckWeb, CheckError, CheckSave, Terminate, CheckExpires,
                Publish, HealthChanges, vars, diskVars, jobVars
  <2> QED BY <1>1, <2>1, StageBeside DEF UpgradeInv
<1> QED BY <1>2, <1>3, <1>4 DEF Next, JobStep, CallStep

LEMMA UpgradeInvInit == Init => UpgradeInv
<1>1. Init => StageKnows
  BY DEF Init, StageKnows
<1> QED BY <1>1, SystemInit DEF UpgradeInv

\* Whenever the job of Manager.run is about to save a stage or has failed before
\* its first switch, the state file shows a stage from before that switch.
THEOREM UpgradeInvariant == Spec => []UpgradeInv
BY UpgradeInvInit, UpgradeInvStep, PTL DEF Spec

-----------------------------------------------------------------------------
(* The steps, as the abstract upgrade sees them.                           *)

LEMMA Phases ==
  /\ PhaseOf("none") = "never" /\ PhaseOf("rolling_back") = "undoes"
  /\ PhaseOf("manual_intervention") = "manual"
  /\ PhaseOf("succeeded") = "succeeded" /\ PhaseOf("failed") = "failed"
  /\ \A g \in Prepare : PhaseOf(g) = "prepares"
  /\ \A g \in Replace : PhaseOf(g) = "switches"
BY DEF PhaseOf, Prepare, Replace, SwitchStage

LEMMA OpenStage ==
  ASSUME SystemInv, Open(task)
  PROVE  task.stage \in Prepare \cup Replace \cup {"rolling_back"}
<1>1. task.stage \in Stage /\ task.stage \notin Terminal
  BY TaskRecord DEF SystemInv, FileTypes, Open
<1> QED BY <1>1, StagesLemma DEF Prepare, Replace

LEMMA UpgradeStutter ==
  ASSUME UNCHANGED <<container, base>>, task'.target = task.target,
         PhaseOf(task'.stage) = PhaseOf(task.stage)
  PROVE  UNCHANGED Upgrade!vars
BY DEF Upgrade!vars, Runs

\* Images as functions: what the services run is what they ran, or the target.
LEMMA RunsAre ==
  ASSUME SystemInv
  PROVE  /\ (\A s \in Service : container[s].image = base[s]) => Runs = base
         /\ task.id # 0 /\ (\A s \in Service : container[s].image = task.target[s]) =>
              Runs = task.target
<1>1. base \in [Service -> Image] /\ (task.id # 0 => task.target \in [Service -> Image])
  BY DEF SystemInv, DockerTypes, FileTypes
<1> QED BY <1>1 DEF Runs

\* A save that moves the task to another stage: the stages that may follow.
Follows(old, new) ==
  \/ new = old
  \/ old \in Prepare /\ new \in Prepare \cup Replace
  \/ old \in Replace /\ new \in Replace
  \/ new \in {"rolling_back", "manual_intervention"}
  \/ new = "succeeded" /\ old = "cleaning"
  \/ /\ new = "failed" /\ old \in Prepare \cup {"rolling_back"}
     /\ \A s \in Service : container[s].image = base[s]

LEMMA SaveStep ==
  ASSUME SystemInv, Open(task), UNCHANGED <<container, base>>, task'.target = task.target,
         Follows(task.stage, task'.stage)
  PROVE  Upgrade!Next \/ UNCHANGED Upgrade!vars
<1>1. UNCHANGED <<Runs, base, task.target>>
  BY DEF Runs
<1>2. task.stage \in Prepare \cup Replace \cup {"rolling_back"}
  BY OpenStage
<1>3. task.id # 0
  BY DEF Open
<1>4. CASE PhaseOf(task'.stage) = PhaseOf(task.stage)
  BY <1>4, UpgradeStutter
<1>5. CASE task.stage \in Prepare /\ task'.stage \in Replace
  BY <1>1, <1>5, Phases DEF Upgrade!Next, Upgrade!Proceed
<1>6. CASE task'.stage = "rolling_back" /\ task.stage \in Prepare \cup Replace
  BY <1>1, <1>6, Phases DEF Upgrade!Next, Upgrade!Withdraw
<1>7. CASE task'.stage = "manual_intervention"
  BY <1>1, <1>2, <1>7, Phases DEF Upgrade!Next, Upgrade!AskOwner, Upgrade!Under
<1>8. CASE task'.stage = "succeeded" /\ task.stage = "cleaning"
  <2>1. Runs = task.target
    BY <1>3, <1>8, RunsAre DEF SystemInv, FileKnows
  <2>2. task.stage \in Replace
    BY <1>8 DEF Replace
  <2> QED BY <1>1, <1>8, <2>1, <2>2, Phases DEF Upgrade!Next, Upgrade!Succeed
<1>9. CASE /\ task'.stage = "failed" /\ task.stage \in Prepare \cup {"rolling_back"}
           /\ \A s \in Service : container[s].image = base[s]
  <2>1. Runs = base
    BY <1>9, RunsAre
  <2> QED BY <1>1, <1>9, <2>1, Phases DEF Upgrade!Next, Upgrade!Fail
<1> QED BY <1>2, <1>4, <1>5, <1>6, <1>7, <1>8, <1>9, Phases DEF Follows

\* markFailed and markManualIntervention.
LEMMA ConcludeStep ==
  ASSUME SystemInv, pc # "none", UNCHANGED <<container, base>>,
         NEW stage \in {"failed", "manual_intervention"}, NEW b \in BOOLEAN,
         Conclude(mem, stage, b),
         stage = "failed" => /\ task.stage \in Prepare \cup {"rolling_back"}
                             /\ \A s \in Service : container[s].image = base[s]
  PROVE  Upgrade!Next \/ UNCHANGED Upgrade!vars
<1> DEFINE u == [mem EXCEPT !.stage = stage, !.rolledBack = b]
<1>1. mem \in Task /\ mem.target = task.target /\ Open(task)
  BY MemTask
<1>2. Restaged(u, mem, stage)
  BY <1>1, RestageLemma, StagesLemma DEF Terminal
<1>3. task' \in {task, u}
  BY SaveWrites DEF Conclude
<1> HIDE DEF u
<1>4. task'.target = task.target /\ Follows(task.stage, task'.stage)
  BY <1>1, <1>2, <1>3 DEF Restaged, Follows
<1> QED BY <1>1, <1>4, SaveStep

LEMMA BeginRollbackStep ==
  ASSUME SystemInv, pc # "none", UNCHANGED <<container, base>>, BeginRollback(mem)
  PROVE  Upgrade!Next \/ UNCHANGED Upgrade!vars
<1> DEFINE u == [mem EXCEPT !.stage = "rolling_back"]
<1>1. mem \in Task /\ mem.target = task.target /\ Open(task)
  BY MemTask
<1>2. Restaged(u, mem, "rolling_back")
  BY <1>1, RestageLemma, StagesLemma
<1>3. CASE Conclude(mem, "manual_intervention", FALSE)
  BY <1>3, ConcludeStep
<1>4. CASE SaveTask(u, TRUE) \/ SaveTask(u, FALSE)
  <2>1. task' \in {task, u}
    BY <1>4, SaveWrites
  <2> HIDE DEF u
  <2>2. task'.target = task.target /\ Follows(task.stage, task'.stage)
    BY <1>1, <1>2, <2>1 DEF Restaged, Follows
  <2> QED BY <1>1, <2>2, SaveStep
<1> QED BY <1>3, <1>4 DEF BeginRollback

LEMMA JobStops ==
  ASSUME UNCHANGED <<container, base, task>>
  PROVE  UNCHANGED Upgrade!vars
BY DEF Upgrade!vars, Runs

LEMMA EnterStep == UpgradeInv /\ Enter => Upgrade!Next \/ UNCHANGED Upgrade!vars
<1> SUFFICES ASSUME UpgradeInv, Enter PROVE Upgrade!Next \/ UNCHANGED Upgrade!vars
  OBVIOUS
<1> DEFINE t == [mem EXCEPT !.stage = Steps[step].stage]
<1>1. /\ pc = "enter" /\ step \in 1..15 /\ mem = task /\ mem \in Task /\ Open(task) /\ SystemInv
      /\ UNCHANGED <<container, base>>
  BY DEF Enter, UpgradeInv, SystemInv, JobKnows, FileTypes, dockerVars
<1>2. Restaged(t, mem, Steps[step].stage)
  BY <1>1, RestageLemma, StepStage
<1>3. task' \in {task, t}
  BY SaveWrites DEF Enter
<1>4. Follows(task.stage, Steps[step].stage)
  <2>1. CASE step <= FirstSwitch
    BY <1>1, <2>1, StepsAre DEF UpgradeInv, StageKnows, Follows
  <2>2. CASE ~(step <= FirstSwitch)
    <3>1. ~(step < FirstSwitch)
      BY <1>1, <2>2 DEF FirstSwitch
    <3> QED BY <1>1, <2>2, <3>1, StepsAre DEF UpgradeInv, StageKnows, Follows
  <2> QED BY <2>1, <2>2
<1> HIDE DEF t
<1>5. task'.target = task.target /\ Follows(task.stage, task'.stage)
  BY <1>1, <1>2, <1>3, <1>4 DEF Restaged, Follows
<1> QED BY <1>1, <1>5, SaveStep

LEMMA LeaveStep == SystemInv /\ Leave => UNCHANGED Upgrade!vars
<1> SUFFICES ASSUME SystemInv, Leave PROVE UNCHANGED Upgrade!vars
  OBVIOUS
<1>1. /\ pc = "leave" /\ mem.target = task.target /\ mem.stage = task.stage
      /\ UNCHANGED <<container, base>>
  BY DEF Leave, SystemInv, JobKnows, dockerVars
<1>2. task' \in {task, mem}
  BY SaveWrites DEF Leave
<1> QED BY <1>1, <1>2, UpgradeStutter

LEMMA FinishStep == SystemInv /\ Finish => Upgrade!Next \/ UNCHANGED Upgrade!vars
<1> SUFFICES ASSUME SystemInv, Finish PROVE Upgrade!Next \/ UNCHANGED Upgrade!vars
  OBVIOUS
<1> DEFINE t == [mem EXCEPT !.stage = "succeeded",
                            !.cleanup = IF failing THEN "pending" ELSE "complete"]
<1>1. /\ pc = "finish" /\ mem = task /\ mem \in Task /\ mem.stage = "cleaning" /\ Open(task)
      /\ UNCHANGED <<container, base>>
  BY DEF Finish, SystemInv, JobKnows, FileTypes, dockerVars
<1>2. Restaged(t, mem, "succeeded")
  BY <1>1, RestageLemma, StagesLemma DEF Terminal
<1>3. task' \in {task, t}
  BY SaveWrites DEF Finish
<1> HIDE DEF t
<1>4. task'.target = task.target /\ Follows(task.stage, task'.stage)
  BY <1>1, <1>2, <1>3 DEF Restaged, Follows
<1> QED BY <1>1, <1>4, SaveStep

LEMMA HandleFailureStep ==
  UpgradeInv /\ HandleFailure => Upgrade!Next \/ UNCHANGED Upgrade!vars
<1> SUFFICES ASSUME UpgradeInv, HandleFailure PROVE Upgrade!Next \/ UNCHANGED Upgrade!vars
  OBVIOUS
<1>1. /\ pc = "fail" /\ SystemInv /\ UNCHANGED <<container, base>> /\ step \in 1..13
  BY DEF HandleFailure, UpgradeInv, SystemInv, JobKnows, dockerVars
<1>2. CASE UNCHANGED task
  BY <1>1, <1>2, JobStops
<1>3. CASE BeginRollback(mem)
  BY <1>1, <1>3, BeginRollbackStep
<1>4. CASE ~(step >= FirstSwitch) /\ Conclude(mem, "failed", FALSE)
  <2>1. step < FirstSwitch
    BY <1>1, <1>4 DEF FirstSwitch
  <2>2. task.stage \in Prepare /\ \A s \in Service : container[s].image = base[s]
    BY <1>1, <2>1 DEF UpgradeInv, StageKnows, SystemInv, JobKnows
  <2> QED BY <1>1, <1>4, <2>2, ConcludeStep
<1> QED BY <1>2, <1>3, <1>4 DEF HandleFailure

LEMMA EndRollbackStep == SystemInv /\ EndRollback => Upgrade!Next \/ UNCHANGED Upgrade!vars
<1> SUFFICES ASSUME SystemInv, EndRollback PROVE Upgrade!Next \/ UNCHANGED Upgrade!vars
  OBVIOUS
<1>1. /\ pc = "rollback" /\ step = 5 /\ UNCHANGED <<container, base>>
  BY DEF EndRollback, dockerVars
<1>2. /\ mem = task /\ mem.stage = "rolling_back" /\ FileKnows(mem)
      /\ ~failing => /\ container["backend"] = mem.original["backend"]
                     /\ container["web"] = mem.original["web"]
  BY <1>1, RollbackKnows
<1>3. \A s \in Service : mem.original[s].image = base[s]
  BY <1>2, OriginalImage DEF FileKnows
<1>4. ~failing => \A s \in Service : container[s].image = base[s]
  BY <1>2, <1>3 DEF Service
<1>5. CASE UNCHANGED task
  BY <1>1, <1>5, JobStops
<1>6. CASE Conclude(mem, "manual_intervention", FALSE)
  BY <1>1, <1>6, ConcludeStep
<1>7. CASE ~failing /\ Conclude(mem, "failed", TRUE)
  BY <1>1, <1>2, <1>4, <1>7, ConcludeStep
<1> QED BY <1>5, <1>6, <1>7 DEF EndRollback

LEMMA RecoverStep == SystemInv /\ Recover => Upgrade!Next \/ UNCHANGED Upgrade!vars
<1> SUFFICES ASSUME SystemInv, Recover PROVE Upgrade!Next \/ UNCHANGED Upgrade!vars
  OBVIOUS
<1>1. pc = "recover" /\ mem = task /\ FileKnows(mem) /\ UNCHANGED <<container, base>>
  BY DEF Recover, SystemInv, JobKnows, dockerVars
<1>2. CASE UNCHANGED task
  BY <1>1, <1>2, JobStops
<1>3. CASE Conclude(mem, "manual_intervention", FALSE)
  BY <1>1, <1>3, ConcludeStep
<1>4. CASE BeginRollback(mem)
  BY <1>1, <1>4, BeginRollbackStep
<1>5. CASE /\ Recovery(mem, [s \in Service |-> container[s].image]) = "fail"
           /\ Conclude(mem, "failed", FALSE)
  <2>1. mem.stage \in Prepare
    BY <1>5 DEF Recovery, Prepare
  <2>2. \A s \in Service : container[s].image = base[s]
    BY <1>1, <2>1 DEF FileKnows, Prepare
  <2> QED BY <1>1, <1>5, <2>1, <2>2, ConcludeStep
<1> QED BY <1>2, <1>3, <1>4, <1>5 DEF Recover

LEMMA RecoverWaitStep == SystemInv /\ RecoverWait => Upgrade!Next \/ UNCHANGED Upgrade!vars
<1> SUFFICES ASSUME SystemInv, RecoverWait PROVE Upgrade!Next \/ UNCHANGED Upgrade!vars
  OBVIOUS
<1>1. pc = "recoverWait" /\ UNCHANGED <<container, base>>
  BY DEF RecoverWait, dockerVars
<1>2. CASE UNCHANGED task
  BY <1>1, <1>2, JobStops
<1>3. CASE BeginRollback(mem)
  BY <1>1, <1>3, BeginRollbackStep
<1> QED BY <1>2, <1>3 DEF RecoverWait

-----------------------------------------------------------------------------
(* The steps that move a container.                                        *)

\* One service is recreated: what the services run, as a function.
LEMMA RunsMove ==
  ASSUME SystemInv, NEW s \in Service, NEW c, container' = [container EXCEPT ![s] = c]
  PROVE  Runs' = [Runs EXCEPT ![s] = c.image]
BY DEF SystemInv, DockerTypes, Runs

LEMMA DeployTargetStep == SystemInv /\ DeployTarget => Upgrade!Next \/ UNCHANGED Upgrade!vars
<1> SUFFICES ASSUME SystemInv, DeployTarget PROVE Upgrade!Next \/ UNCHANGED Upgrade!vars
  OBVIOUS
<1> DEFINE c == [image |-> mem.target[Svc], ref |-> 0]
<1>1. pc = "act" /\ UNCHANGED <<task, base>>
  BY DEF DeployTarget, Acting, ActUnchanged, diskVars
<1>2. /\ step \in {8, 10} /\ mem = task /\ mem.stage = Steps[step].stage /\ Svc \in Service
      /\ Progress(mem, step, step - 1)
  BY <1>1, ActKnows, StepLemma DEF DeployTarget, Acting
<1>3. PhaseOf(task.stage) = "switches"
  <2>1. step \in 1..15 /\ ~(step < FirstSwitch)
    BY <1>2 DEF FirstSwitch
  <2> QED BY <1>2, <2>1, StepsAre, Phases
<1>4. Svc = "web" => Runs["backend"] = task.target["backend"]
  <2>1. ASSUME Svc = "web" PROVE step = 10
    BY <1>2, <2>1, SvcLemma
  <2>2. step = 10 => container["backend"].image = task.target["backend"]
    BY <1>2 DEF Progress, ServiceKnows
  <2> QED BY <2>1, <2>2 DEF Runs, Service
<1>5. \/ UNCHANGED container
      \/ container' = [container EXCEPT ![Svc] = c]
      \/ container' = [container EXCEPT ![Svc] = Nothing]
  BY DEF DeployTarget, Recreate, RecreateFails
<1>6. c.image = task.target[Svc] /\ Nothing.image = NoImage
  BY <1>2, NoTaskLemma
<1> HIDE DEF c
<1>7. CASE UNCHANGED container
  BY <1>1, <1>7, JobStops
<1>8. CASE container' = [container EXCEPT ![Svc] = c] \/ container' = [container EXCEPT ![Svc] = Nothing]
  <2>1. \E i \in {task.target[Svc], NoImage} : Runs' = [Runs EXCEPT ![Svc] = i]
    BY <1>2, <1>6, <1>8, RunsMove
  <2>2. Upgrade!Switch(Svc)
    BY <1>1, <1>3, <1>4, <2>1 DEF Upgrade!Switch
  <2> QED BY <1>2, <2>2 DEF Upgrade!Next, Upgrade!Service, Service
<1> QED BY <1>5, <1>7, <1>8

LEMMA DeployRollbackStep ==
  SystemInv /\ DeployRollback => Upgrade!Next \/ UNCHANGED Upgrade!vars
<1> SUFFICES ASSUME SystemInv, DeployRollback PROVE Upgrade!Next \/ UNCHANGED Upgrade!vars
  OBVIOUS
<1> DEFINE s == RollbackSvc
           c == [image |-> alias[s][mem.id], ref |-> mem.id]
<1>1. pc = "rollback" /\ UNCHANGED <<task, base>>
  BY DEF DeployRollback, diskVars
<1>2. mem = task /\ mem.stage = "rolling_back" /\ mem.id \in TaskId
  BY <1>1, RollbackKnows
<1>3. s \in Service
  BY DEF RollbackSvc, Service
<1>4. PhaseOf(task.stage) = "undoes"
  BY <1>2, Phases
<1>5. \/ UNCHANGED container
      \/ container' = [container EXCEPT ![s] = c]
      \/ container' = [container EXCEPT ![s] = Nothing]
  BY DEF DeployRollback, Recreate, RecreateFails
<1>6. c.image \in {NoImage, base[s]} /\ Nothing.image = NoImage
  BY <1>2, <1>3, NoTaskLemma DEF SystemInv, DockerKnows
<1> HIDE DEF c, s
<1>7. CASE UNCHANGED container
  BY <1>1, <1>7, JobStops
<1>8. CASE container' = [container EXCEPT ![s] = c] \/ container' = [container EXCEPT ![s] = Nothing]
  <2>1. \E i \in {base[s], NoImage} : Runs' = [Runs EXCEPT ![s] = i]
    BY <1>3, <1>6, <1>8, RunsMove
  <2>2. Upgrade!Undo(s)
    BY <1>1, <1>4, <2>1 DEF Upgrade!Undo
  <2> QED BY <1>3, <2>2 DEF Upgrade!Next, Upgrade!Service, Service
<1> QED BY <1>5, <1>7, <1>8

\* The Owner starts a task on a pair that a check found to be newer.
LEMMA StartStep == SystemInv /\ Start => Upgrade!Next \/ UNCHANGED Upgrade!vars
<1> SUFFICES ASSUME SystemInv, Start PROVE Upgrade!Next \/ UNCHANGED Upgrade!vars
  OBVIOUS
<1> DEFINE t == [id |-> nextTask, original |-> lastCheck.current, target |-> lastCheck.target,
                 stage |-> "checking", rolledBack |-> FALSE, cleanup |-> "not_run"]
<1>1. /\ task' \in {task, t} /\ container' = container
      /\ base' = IF task' = t THEN Runs ELSE base
  BY DEF Start, dockerVars, Runs
<1>2. ~Blocks(task) /\ lastCheck.available
  BY DEF Start, MayStart
<1>3. t.stage = "checking" /\ t.target = lastCheck.target
  OBVIOUS
<1> HIDE DEF t
<1>4. \A s \in Service :
        /\ Runs[s] = IF task.stage = "succeeded" THEN task.target[s] ELSE base[s]
        /\ Runs[s] \in Image
  BY <1>2, StartFinds DEF Runs
<1>5. /\ lastCheck.target \in [Service -> Image] /\ SameVersion(lastCheck.target)
      /\ \A s \in Service : VersionOf[lastCheck.target[s]] > VersionOf[Runs[s]]
  BY <1>2, <1>4 DEF SystemInv, VersionsKnow, Newer
<1>6. PhaseOf(task.stage) \in Upgrade!Over
  <2>1. task.stage \in {"none", "failed", "succeeded"}
    <3>1. CASE task.id = 0
      BY <3>1, NoTaskLemma DEF SystemInv, FileTypes
    <3>2. CASE task.id # 0
      BY <1>2, <3>2 DEF Blocks, Open, Terminal
    <3> QED BY <3>1, <3>2
  <2> QED BY <2>1, Phases DEF Upgrade!Over
<1>7. CASE task' = task /\ task # t
  BY <1>1, <1>7, JobStops
<1>8. CASE task' = t
  <2>1. PhaseOf(task'.stage) = "prepares" /\ base' = Runs /\ task'.target = lastCheck.target
    BY <1>1, <1>3, <1>8, Phases DEF Prepare
  <2>2. Runs' = Runs
    BY <1>1 DEF Runs
  <2>3. \A s \in Service : Runs[s] # NoImage
    BY <1>4, NumberLemma
  <2>4. Upgrade!Begin(lastCheck.target)
    BY <1>5, <1>6, <2>1, <2>2, <2>3 DEF Upgrade!Begin, Upgrade!Service, Service, SameVersion
  <2> QED BY <1>5, <2>4 DEF Upgrade!Next, Upgrade!Service, Service
<1> QED BY <1>1, <1>7, <1>8

\* Every step of the updater is a step of the abstract upgrade, or none.
LEMMA UpgradeStep == UpgradeInv /\ [Next]_vars => [Upgrade!Next]_(Upgrade!vars)
<1> SUFFICES ASSUME UpgradeInv, [Next]_vars PROVE Upgrade!Next \/ UNCHANGED Upgrade!vars
  OBVIOUS
<1>1. SystemInv
  BY DEF UpgradeInv
<1>2. CASE \/ Enter \/ Leave \/ Finish \/ HandleFailure \/ EndRollback \/ Recover \/ RecoverWait
           \/ DeployTarget \/ DeployRollback \/ Start
  BY <1>1, <1>2, EnterStep, LeaveStep, FinishStep, HandleFailureStep, EndRollbackStep, RecoverStep,
     RecoverWaitStep, DeployTargetStep, DeployRollbackStep, StartStep
<1>3. CASE \/ Inspect \/ CreateRollbackAlias \/ BackupDatabase \/ PullTarget \/ WaitHealthy
           \/ RemoveOldImage \/ WaitRollbackHealthy
  <2>1. UNCHANGED <<container, base, task>>
    BY <1>3 DEF Inspect, CreateRollbackAlias, BackupDatabase, PullTarget, WaitHealthy,
                RemoveOldImage, WaitRollbackHealthy, ActUnchanged, diskVars, dockerVars
  <2> QED BY <2>1, JobStops
<1>4. CASE \/ CheckBackend \/ CheckStep \/ Boot \/ Crash \/ Terminate \/ Exit \/ CheckExpires
           \/ \E s \in Service, i \in Image : Publish(s, i)
           \/ \E s \in Service : HealthChanges(s)
           \/ UNCHANGED vars
  <2>1. UNCHANGED <<container, base, task>>
    BY <1>4 DEF CheckBackend, CheckStep, CheckWeb, CheckError, CheckSave, Boot, Crash, Exit, Die,
                Terminate, CheckExpires, Publish, HealthChanges, vars, diskVars, dockerVars
  <2> QED BY <2>1, JobStops
<1> QED BY <1>2, <1>3, <1>4 DEF Next, JobStep

\* The Manager, its state file, recovery and the Docker platform implement the
\* abstract upgrade: for any images, versions, tasks and faults, the services
\* move together to a newer pair, the web after the backend, or back; and what
\* the Owner is told of the outcome is what the services run.
THEOREM UpgradeRefinement == Spec => ImplementsUpgrade
<1>1. Init => Upgrade!Init
  BY NoTaskLemma, Phases DEF Init, Upgrade!Init, Runs, Upgrade!Service, Service, NoTask
<1>2. UpgradeInv /\ [Next]_vars => [Upgrade!Next]_(Upgrade!vars)
  BY UpgradeStep
<1> QED BY UpgradeInvariant, <1>1, <1>2, PTL DEF Spec, ImplementsUpgrade, Upgrade!Spec
=============================================================================
