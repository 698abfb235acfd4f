---------------------------- MODULE UpdateHelper ----------------------------
(***************************************************************************)
(* How a device replaces its own Agent: the update check of the Agent      *)
(* service (agent/cmd/ace-agent, agent/internal/update/checker.go), the    *)
(* detached AceAgentUpdater process that stops the service, backs it up,   *)
(* installs, starts, waits for health and otherwise restores the           *)
(* last-known-good executable (helper.go, helper_windows.go), and the      *)
(* Agent's promotion of the updater that the installer left behind         *)
(* (promote.go).                                                           *)
(*                                                                         *)
(* Files hold versions.  Every operation of the helper is one action with  *)
(* one action more for the ways it fails; a failure that the model does    *)
(* not force counts as a fault.  The service control manager, the          *)
(* installer and Windows' refusal to replace a running executable are      *)
(* modelled from how the code uses them.                                   *)
(***************************************************************************)
EXTENDS Integers

CONSTANTS
  MaxVersion,  \* bound: releases are 1 .. MaxVersion
  Good,        \* the releases whose service comes online
  Helper,      \* updater processes that may exist at the same time
  MaxFaults    \* bound on failed operations, crashes and restarts

Version == 1 .. MaxVersion
None    == 0                \* no file, no process
Corrupt == MaxVersion + 1   \* an executable of no release

ASSUME UpdateAssumption ==
  /\ MaxVersion \in Nat \ {0} /\ MaxFaults \in Nat
  /\ Good \subseteq Version /\ {1, MaxVersion} \subseteq Good

VARIABLES
  published,  \* the release in the server's signed manifest
  exe,        \* version of AceAgent.exe
  backup,     \* version of the last-known-good copy, or None
  installer,  \* [Version -> the staged installer: "none", "ok", "bad"]
  updater,    \* version of AceAgentUpdater.exe
  pending,    \* version of AceAgentUpdater.next.exe, or None
  service,    \* "running", "stopping" (STOP_PENDING) or "stopped"
  proc,       \* version that the service process runs, or None
  recover,    \* the service control manager will restart a crashed service
  promote,    \* the service's promotion of the pending updater: "check", "replace", "over"
  launched,   \* updatePending: this service process has launched a helper
  check,      \* the service's update check
  tray,       \* the tray application runs
  helper,     \* [Helper -> the updater process that runs RunHelper]
  gaveUp,     \* history: nothing is left that would start the service again
  faults

files  == <<exe, backup, installer, updater, pending>>
agent  == <<service, proc, recover, promote, launched, check, gaveUp>>
vars   == <<published, exe, backup, installer, updater, pending, service, proc,
            recover, promote, launched, check, tray, helper, gaveUp, faults>>

Idle == [pc |-> "idle", version |-> None]
Off  == [pc |-> "off", target |-> None, prev |-> None, tray |-> FALSE,
         ok |-> FALSE, lost |-> FALSE]
\* The rollback's program counters follow those of the update itself.
PC == {"off", "stop", "tray", "backup", "install", "configure",
       "startService", "health", "cleanup", "restart", "undoStop", "restore",
       "undoConfigure", "undoStart", "undoHealth", "end"}

Init ==
  /\ published = 1 /\ exe = 1 /\ backup = None /\ updater = 1 /\ pending = None
  /\ installer = [v \in Version |-> "none"]
  /\ service = "running" /\ proc = 1 /\ recover = FALSE /\ promote = "check"
  /\ launched = FALSE /\ check = Idle /\ tray \in BOOLEAN
  /\ helper = [h \in Helper |-> Off] /\ gaveUp = FALSE /\ faults = 0

At(h, pc) == helper[h].pc = pc
Goto(h, pc) == helper' = [helper EXCEPT ![h].pc = pc]
Fault == faults < MaxFaults /\ faults' = faults + 1

\* The service process starts from the installed executable, or ends.
ProcessStarts(v) ==
  /\ service' = "running" /\ proc' = v /\ recover' = FALSE /\ promote' = "check"
  /\ launched' = FALSE /\ check' = Idle /\ gaveUp' = FALSE
ProcessEnds(state) ==
  /\ service' = state /\ proc' = None /\ promote' = "over"
  /\ launched' = FALSE /\ check' = Idle

Publish ==
  /\ published < MaxVersion
  /\ published' = published + 1
  /\ UNCHANGED <<files, agent, tray, helper, faults>>

(***************************************************************************)
(* The Agent service: check, stage, launch; promotion.                     *)
(***************************************************************************)
\* runCheck up to the manifest: a release newer than the running Agent.
CheckRelease ==
  /\ service = "running" /\ check = Idle /\ ~launched
  /\ published > proc
  /\ check' = [pc |-> "stage", version |-> published]
  /\ UNCHANGED <<published, files, service, proc, recover, promote, launched,
                 gaveUp, tray, helper, faults>>

\* Checker.Stage: download to a partial file, compare its size and hash with
\* the manifest, rename.  A download that fails or does not match leaves
\* nothing; an installer that is running cannot be replaced.
\* Mutant: the hash is not compared.
StageBug ==
  /\ check.pc = "stage" /\ service = "running"
  /\ \/ /\ installer' = [installer EXCEPT ![check.version] = "ok"]
        /\ UNCHANGED faults
     \/ /\ Fault
        /\ installer' = [installer EXCEPT ![check.version] = "bad"]
  /\ check' = [check EXCEPT !.pc = "launch"]
  /\ UNCHANGED <<published, exe, backup, updater, pending, service, proc, recover,
                 promote, launched, gaveUp, tray, helper>>
Stage ==
  /\ check.pc = "stage" /\ service = "running"
  /\ \/ /\ \A h \in Helper : ~(At(h, "install") /\ helper[h].target = check.version)
        /\ installer' = [installer EXCEPT ![check.version] = "ok"]
        /\ check' = [check EXCEPT !.pc = "launch"]
        /\ UNCHANGED faults
     \/ Fault /\ check' = Idle /\ UNCHANGED installer
  /\ UNCHANGED <<published, exe, backup, updater, pending, service, proc, recover,
                 promote, launched, gaveUp, tray, helper>>

\* AcquireExecutionLock: the named mutex, held for as long as RunHelper runs.
\* Mutant: the mutex is not taken.
AcquireExecutionLockBug == TRUE
AcquireExecutionLock == \A h \in Helper : At(h, "off")

\* executeServiceUpdate: authorize and LaunchApply, under the controller's
\* launch gate.  The helper reaches its mutex within moments of its launch, and
\* exits if another one holds it: that is part of the step.
LaunchApply(h) ==
  /\ check.pc = "launch" /\ service = "running" /\ At(h, "off")
  /\ helper' = IF AcquireExecutionLock
               THEN [helper EXCEPT ![h] = [Off EXCEPT !.pc = "stop", !.target = check.version]]
               ELSE helper
  /\ launched' = TRUE /\ check' = Idle
  /\ UNCHANGED <<published, files, service, proc, recover, promote, gaveUp, tray, faults>>

\* The launch is refused or fails: the staged installer is removed.
LaunchFails ==
  /\ check.pc = "launch" /\ service = "running" /\ Fault
  /\ installer' = [installer EXCEPT ![check.version] = "none"]
  /\ check' = Idle
  /\ UNCHANGED <<published, exe, backup, updater, pending, service, proc, recover,
                 promote, launched, gaveUp, tray, helper>>

\* UpdatePendingTTL, which is long past the time a helper needs to stop the
\* service.
\* Mutant: an update stays pending for the life of the process.
PendingExpiresBug == FALSE /\ UNCHANGED vars
PendingExpires ==
  /\ launched /\ \A h \in Helper : ~At(h, "stop")
  /\ launched' = FALSE
  /\ UNCHANGED <<published, files, service, proc, recover, promote, check, gaveUp,
                 tray, helper, faults>>

\* PromotePendingUpdater up to its loop: only an updater of the Agent's own
\* version is promoted.
\* Mutant: any pending updater is.
CheckPendingUpdaterBug ==
  /\ promote = "check" /\ service = "running"
  /\ promote' = IF pending # None THEN "replace" ELSE "over"
  /\ UNCHANGED <<published, files, service, proc, recover, launched, check, gaveUp,
                 tray, helper, faults>>
CheckPendingUpdater ==
  /\ promote = "check" /\ service = "running"
  /\ \/ promote' = (IF pending = proc THEN "replace" ELSE "over") /\ UNCHANGED faults
     \/ promote' = "over" /\ Fault
  /\ UNCHANGED <<published, files, service, proc, recover, launched, check, gaveUp,
                 tray, helper>>

\* Its loop: the fixed updater is replaced, but not while it runs, and tried again
\* for 90 seconds.
PromotePendingUpdater ==
  /\ promote = "replace" /\ service = "running"
  /\ \/ /\ check.pc # "stage" /\ \A h \in Helper : At(h, "off")
        /\ updater' = pending /\ pending' = None /\ UNCHANGED faults
     \/ /\ IF \A h \in Helper : At(h, "off") THEN Fault ELSE UNCHANGED faults
        /\ UNCHANGED <<updater, pending>>
  /\ promote' = "over"
  /\ UNCHANGED <<published, exe, backup, installer, service, proc, recover, launched,
                 check, gaveUp, tray, helper>>

(***************************************************************************)
(* RunHelper.                                                              *)
(***************************************************************************)
\* StopService requests the stop and waits until the service has stopped.
StopService(h) ==
  /\ helper[h].pc \in {"stop", "undoStop"}
  /\ \/ /\ service = "running" /\ ProcessEnds("stopping")
        /\ UNCHANGED <<recover, gaveUp, helper>>
     \/ /\ service = "stopped"
        /\ Goto(h, IF At(h, "stop") THEN "tray" ELSE "restore")
        /\ UNCHANGED agent
  /\ UNCHANGED <<published, files, tray, faults>>

\* It cannot, or not within 30 seconds: before the update, the service is
\* started again; in the rollback the helper ends.
StopServiceFails(h) ==
  /\ Fault
  /\ \/ At(h, "stop") /\ Goto(h, "restart") /\ UNCHANGED gaveUp
     \/ /\ At(h, "undoStop")
        /\ helper' = [helper EXCEPT ![h].pc = "end", ![h].lost = TRUE]
        /\ gaveUp' = TRUE
  /\ UNCHANGED <<published, files, service, proc, recover, promote, launched, check, tray>>

StopTray(h) ==
  /\ At(h, "tray")
  /\ \/ /\ helper' = [helper EXCEPT ![h].pc = "backup", ![h].tray = tray]
        /\ tray' = FALSE /\ UNCHANGED faults
     \/ Fault /\ Goto(h, "restart") /\ UNCHANGED tray
  /\ UNCHANGED <<published, files, agent>>

BackupExecutable(h) ==
  /\ At(h, "backup")
  /\ \/ /\ backup' = exe
        /\ helper' = [helper EXCEPT ![h].pc = "install", ![h].prev = exe]
        /\ UNCHANGED faults
     \/ Fault /\ Goto(h, "restart") /\ UNCHANGED backup
  /\ UNCHANGED <<published, exe, installer, updater, pending, agent, tray>>

\* A service that was started again meanwhile is closed by the installer
\* (/FORCECLOSEAPPLICATIONS), by a stop or by force, after which it recovers.
CloseService ==
  \/ /\ service = "running"
     /\ ProcessEnds("stopped") /\ recover' \in BOOLEAN /\ UNCHANGED gaveUp
  \/ service # "running" /\ UNCHANGED agent

\* The installer closes the service, replaces AceAgent.exe and leaves its updater
\* as the pending one.  It fails without its file; a failure or a timeout may come
\* before or after each of the steps.
RunInstaller(h) ==
  /\ At(h, "install")
  /\ LET v == helper[h].target
         new == IF installer[v] = "ok" THEN v ELSE Corrupt
     IN  \/ /\ installer[v] # "none"
            /\ CloseService /\ exe' = new /\ pending' = v
            /\ Goto(h, "configure") /\ UNCHANGED faults
         \/ /\ installer[v] # "none" /\ Fault
            /\ \/ CloseService /\ exe' \in {exe, new} /\ pending' \in {pending, v}
               \/ UNCHANGED <<exe, pending, agent>>
            /\ Goto(h, "undoStop")
         \/ /\ installer[v] = "none"
            /\ Goto(h, "undoStop")
            /\ UNCHANGED <<exe, pending, agent, faults>>
  /\ UNCHANGED <<published, backup, installer, updater, tray>>

\* Mutant: a failed configuration restarts the service instead of rolling back.
ApplyServiceConfigurationBug(h) ==
  /\ \/ At(h, "configure") /\ Goto(h, "startService") /\ UNCHANGED <<gaveUp, faults>>
     \/ At(h, "undoConfigure") /\ Goto(h, "undoStart") /\ UNCHANGED <<gaveUp, faults>>
     \/ At(h, "configure") /\ Fault /\ Goto(h, "restart") /\ UNCHANGED gaveUp
  /\ UNCHANGED <<published, files, service, proc, recover, promote, launched, check, tray>>
ApplyServiceConfiguration(h) ==
  /\ \/ At(h, "configure") /\ Goto(h, "startService") /\ UNCHANGED <<gaveUp, faults>>
     \/ At(h, "undoConfigure") /\ Goto(h, "undoStart") /\ UNCHANGED <<gaveUp, faults>>
     \/ At(h, "configure") /\ Fault /\ Goto(h, "undoStop") /\ UNCHANGED gaveUp
     \/ At(h, "undoConfigure") /\ Fault /\ Goto(h, "end") /\ gaveUp' = TRUE
  /\ UNCHANGED <<published, files, service, proc, recover, promote, launched, check, tray>>

Starting == {"startService", "undoStart", "restart"}
Started(pc) == CASE pc = "startService" -> "health"
                 [] pc = "undoStart"    -> "undoHealth"
                 [] pc = "restart"      -> "end"

StartService(h) ==
  /\ helper[h].pc \in Starting
  /\ \/ service = "running" /\ UNCHANGED agent
     \/ service = "stopped" /\ ProcessStarts(exe)
  /\ Goto(h, Started(helper[h].pc))
  /\ UNCHANGED <<published, files, tray, faults>>

\* A service that is still stopping cannot be started; any start may fail, or
\* take longer than 30 seconds and succeed.
StartServiceFails(h) ==
  /\ helper[h].pc \in Starting
  /\ Goto(h, IF At(h, "startService") THEN "undoStop" ELSE "end")
  /\ \/ /\ service = "stopping" \/ service = "stopped"
        /\ gaveUp' = (gaveUp \/ ~At(h, "startService"))
        /\ UNCHANGED <<service, proc, recover, promote, launched, check>>
     \/ service = "stopped" /\ ProcessStarts(exe)
  /\ IF service = "stopping" THEN UNCHANGED faults ELSE Fault
  /\ UNCHANGED <<published, files, tray>>

\* The service answers on its pipe that it is online.
Healthy == service = "running" /\ proc \in Good

\* It does, or not within a minute.  The rollback ends whatever the answer.
WaitHealthy(h) ==
  /\ \/ /\ At(h, "health") /\ Healthy
        /\ Goto(h, "cleanup") /\ UNCHANGED faults
     \/ /\ At(h, "health")
        /\ IF Healthy THEN Fault ELSE UNCHANGED faults
        /\ Goto(h, "undoStop")
     \/ At(h, "undoHealth") /\ Goto(h, "end") /\ UNCHANGED faults
  /\ UNCHANGED <<published, files, agent, tray>>

\* Installer and backup are removed; what cannot be is only reported.
Cleanup(h) ==
  /\ At(h, "cleanup")
  /\ \/ /\ installer' = [installer EXCEPT ![helper[h].target] = "none"]
        /\ backup' = None /\ UNCHANGED faults
     \/ Fault /\ UNCHANGED <<installer, backup>>
  /\ helper' = [helper EXCEPT ![h].pc = "end", ![h].ok = TRUE]
  /\ UNCHANGED <<published, exe, updater, pending, agent, tray>>

\* restoreLastKnownGood retries for 5 seconds; the rollback goes on when it
\* fails.  A running executable cannot be replaced.
\* Mutant: a rollback that cannot restore ends at once.
RestoreExecutableBug(h) ==
  /\ At(h, "restore")
  /\ \/ /\ service # "running"
        /\ exe' = backup
        /\ Goto(h, "undoConfigure") /\ UNCHANGED faults
     \/ /\ IF service = "running" THEN UNCHANGED faults ELSE Fault
        /\ helper' = [helper EXCEPT ![h].pc = "end", ![h].lost = TRUE]
        /\ UNCHANGED exe
  /\ UNCHANGED <<published, backup, installer, updater, pending, agent, tray>>
RestoreExecutable(h) ==
  /\ At(h, "restore")
  /\ \/ /\ service # "running"
        /\ exe' = backup
        /\ Goto(h, "undoConfigure") /\ UNCHANGED faults
     \/ /\ IF service = "running" THEN UNCHANGED faults ELSE Fault
        /\ helper' = [helper EXCEPT ![h].pc = "undoConfigure", ![h].lost = TRUE]
        /\ UNCHANGED exe
  /\ UNCHANGED <<published, backup, installer, updater, pending, agent, tray>>

\* The deferred calls: the tray is started again if it was stopped, and the
\* mutex is released.
End(h) ==
  /\ At(h, "end")
  /\ \/ tray' = (tray \/ helper[h].tray) /\ UNCHANGED faults
     \/ helper[h].tray /\ Fault /\ UNCHANGED tray
  /\ helper' = [helper EXCEPT ![h] = Off]
  /\ UNCHANGED <<published, files, agent>>

(***************************************************************************)
(* The service control manager; crashes and restarts.                      *)
(***************************************************************************)
ServiceStops ==
  /\ service = "stopping"
  /\ service' = "stopped"
  /\ UNCHANGED <<published, files, proc, recover, promote, launched, check, gaveUp,
                 tray, helper, faults>>

\* The service process crashes, and its recovery action starts it a minute
\* later.
ServiceCrash ==
  /\ service = "running" /\ Fault
  /\ ProcessEnds("stopped") /\ recover' = TRUE
  /\ UNCHANGED <<published, files, gaveUp, tray, helper>>

Recover ==
  /\ recover /\ service = "stopped"
  /\ ProcessStarts(exe)
  /\ UNCHANGED <<published, files, tray, helper, faults>>

\* The helper is killed: its mutex is gone, and nobody ends what it began.
Kill(h) ==
  /\ ~At(h, "off") /\ Fault
  /\ helper' = [helper EXCEPT ![h] = Off]
  /\ gaveUp' = (gaveUp \/ service # "running")
  /\ UNCHANGED <<published, files, service, proc, recover, promote, launched, check, tray>>

\* The device restarts, with an automatic start of the service and, once
\* somebody logs on, of the tray.
Reboot ==
  /\ Fault
  /\ helper' = [h \in Helper |-> Off]
  /\ ProcessStarts(exe) /\ tray' = TRUE
  /\ UNCHANGED <<published, files>>

Agent == CheckRelease \/ Stage \/ (\E h \in Helper : LaunchApply(h)) \/ LaunchFails
           \/ PendingExpires
RunHelper(h) ==
  \/ StopService(h) \/ StopServiceFails(h) \/ StopTray(h)
  \/ BackupExecutable(h) \/ RunInstaller(h) \/ ApplyServiceConfiguration(h)
  \/ StartService(h) \/ StartServiceFails(h) \/ WaitHealthy(h) \/ Cleanup(h)
  \/ RestoreExecutable(h) \/ End(h)

Next ==
  \/ Publish \/ Agent \/ CheckPendingUpdater \/ PromotePendingUpdater
  \/ \E h \in Helper : RunHelper(h) \/ Kill(h)
  \/ ServiceStops \/ ServiceCrash \/ Recover \/ Reboot

Spec == Init /\ [][Next]_vars

\* The Agent checks every hour and its promotion and the helper are running
\* goroutines and processes; a service told to stop stops; recovery actions
\* fire.  Faults, publications and crashes are never promised.
Fairness ==
  /\ WF_vars(Agent) /\ WF_vars(CheckPendingUpdater) /\ WF_vars(PromotePendingUpdater)
  /\ \A h \in Helper : WF_vars(RunHelper(h))
  /\ WF_vars(ServiceStops) /\ WF_vars(Recover)
FairSpec == Spec /\ Fairness

(***************************************************************************)
(* Properties.                                                             *)
(***************************************************************************)
\* Files, service and processes; the Agent's process is there exactly while
\* the service runs.  Only releases are installed, backed up and run: a download
\* is compared with the signed manifest before it gets the name that the helper
\* runs (Checker.Stage).
TypeOK ==
  /\ published \in Version /\ exe \in Version /\ backup \in Version \cup {None}
  /\ installer \in [Version -> {"none", "ok", "bad"}]
  /\ updater \in Version /\ pending \in Version \cup {None}
  /\ service \in {"running", "stopping", "stopped"}
  /\ proc \in Version \cup {None} /\ (proc = None <=> service # "running")
  /\ recover \in BOOLEAN /\ promote \in {"check", "replace", "over"} /\ launched \in BOOLEAN
  /\ check \in [pc : {"idle", "stage", "launch"}, version : Version \cup {None}]
  /\ tray \in BOOLEAN /\ gaveUp \in BOOLEAN /\ faults \in 0 .. MaxFaults
  /\ helper \in [Helper -> [pc : PC, target : Version \cup {None},
                            prev : Version \cup {None}, tray : BOOLEAN,
                            ok : BOOLEAN, lost : BOOLEAN]]

\* While a helper may still have to roll back, the last-known-good copy is the
\* executable it found, and only its own installer has touched AceAgent.exe: no
\* second helper, launched by the service that the first one has just started,
\* overwrites either.
CanUndo == {"install", "configure", "startService", "health", "undoStop", "restore"}
BackupIsPrevious ==
  \A h \in Helper : helper[h].pc \in CanUndo =>
    backup = helper[h].prev /\ exe \in {helper[h].prev, helper[h].target}

\* A helper that reports success leaves the new executable, and it was that one
\* and not a restarted old process that answered "online"; one that reports
\* failure leaves the executable it found, unless its rollback could not stop
\* the service or restore the file.
VerdictMatchesDisk ==
  \A h \in Helper :
    /\ At(h, "cleanup") => exe = helper[h].target /\ proc \in {None, helper[h].target}
    /\ At(h, "end") /\ helper[h].ok => exe = helper[h].target
    /\ At(h, "end") /\ ~helper[h].ok /\ ~helper[h].lost /\ helper[h].prev # None =>
         exe = helper[h].prev

\* The updater never gets ahead of the Agent, although the installer leaves the
\* new updater behind before the new Agent has proved itself and a rollback
\* does not take it away.
UpdaterNotAhead == updater <= exe

\* The service comes back whatever fails: stopping it or the tray, the backup,
\* the installer, the configuration, the start, the health check or the
\* restore.  The exceptions are a last attempt that fails itself (gaveUp) and a
\* helper that is killed.
ServiceComesBack == service # "running" ~> service = "running" \/ gaveUp

\* The newest release, if it works, is installed in the end, whatever happened
\* to earlier ones.
NewestIsInstalled == published = MaxVersion ~> exe = MaxVersion \/ []gaveUp

=============================================================================
