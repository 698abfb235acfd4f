------------------------- MODULE UpdateHelperProofs -------------------------
(***************************************************************************)
(* Proofs about UpdateHelper for any number of releases, helpers and       *)
(* faults: the backup is the executable a helper found, a helper's verdict *)
(* is what the disk holds, the updater never gets ahead of the Agent, and  *)
(* AceAgent.exe only moves to a newer published release or back.           *)
(***************************************************************************)
EXTENDS UpdateHelper, TLAPS

-----------------------------------------------------------------------------
(* The inductive invariant.                                                *)

\* The named mutex: two helpers at work are the same one.
OneHelper ==
  \A h, k \in Helper : ~At(h, "off") /\ ~At(k, "off") => h = k

\* What carries the final name of an installer has passed the comparison with
\* the manifest.
StagedIsGood == \A v \in Version : installer[v] # "bad"

\* A running service runs the installed executable, since a running executable
\* cannot be replaced; its update check has found something newer than that, and
\* the updater it has checked for promotion is its own and still the pending one.
RunsInstalled ==
  /\ proc \in {None, exe}
  /\ check.pc # "idle" =>
       service = "running" /\ check.version \in Version /\ check.version > exe
  /\ promote = "replace" => service = "running" /\ pending = proc

\* What a helper with record r knows of the updater u, the backup b and the
\* executable e, by its place in RunHelper.
Knows(r, u, b, e) ==
  /\ r.pc # "off" => r.target \in Version /\ u <= r.target
  /\ r.pc # "end" => ~r.ok
  /\ r.pc \in {"stop", "tray", "backup", "restart"} => r.prev = None
  /\ r.pc \in CanUndo => /\ b = r.prev /\ r.prev \in Version /\ u <= r.prev
                         /\ e \in {r.prev, r.target}
  /\ r.pc \in {"configure", "startService", "health", "cleanup"} => e = r.target
  /\ r.pc \in {"undoConfigure", "undoStart", "undoHealth"} => r.lost \/ e = r.prev
  /\ r.pc = "end" /\ r.ok => e = r.target
  /\ r.pc = "end" /\ ~r.ok /\ ~r.lost /\ r.prev # None => e = r.prev

HelpersKnow == \A h \in Helper : Knows(helper[h], updater, backup, exe)

UpdateInv ==
  /\ TypeOK /\ OneHelper /\ StagedIsGood /\ RunsInstalled
  /\ UpdaterNotAhead /\ HelpersKnow

-----------------------------------------------------------------------------
(* What the actions have in common.                                        *)

HelperRec == [pc : PC, target : Version \cup {None}, prev : Version \cup {None},
              tray : BOOLEAN, ok : BOOLEAN, lost : BOOLEAN]

\* A release is a positive number, so that None is none.
LEMMA VersionLemma ==
  /\ Version \subseteq Int /\ None \notin Version /\ 1 \in Version
  /\ \A v \in Version : v >= 1 /\ v <= MaxVersion
  /\ \A v \in Version : v < MaxVersion => v + 1 \in Version
BY UpdateAssumption DEF Version, None

\* A helper that is off knows nothing about the files.
LEMMA OffKnows ==
  /\ Off \in HelperRec
  /\ \A u, b, e : Knows(Off, u, b, e)
  /\ \A r \in HelperRec : \A u, b, e : r.pc = "off" /\ ~r.ok => Knows(r, u, b, e)
<1>1. Off \in HelperRec
  BY DEF Off, HelperRec, PC
<1>2. \A u, b, e : Knows(Off, u, b, e)
  BY DEF Off, Knows, CanUndo
<1>3. ASSUME NEW r \in HelperRec, r.pc = "off", NEW u, NEW b, NEW e, ~r.ok
      PROVE  Knows(r, u, b, e)
  BY <1>3 DEF Knows, CanUndo
<1> QED BY <1>1, <1>2, <1>3

\* While one helper is at work, a step of that helper is judged by what it
\* knows afterwards: all others are off, whatever it does to the files.
LEMMA HelperStep ==
  ASSUME UpdateInv, NEW h \in Helper, ~At(h, "off"), NEW r \in HelperRec,
         helper' = [helper EXCEPT ![h] = r], Knows(r, updater', backup', exe')
  PROVE  helper' \in [Helper -> HelperRec] /\ OneHelper' /\ HelpersKnow'
<1>1. helper \in [Helper -> HelperRec]
  BY DEF UpdateInv, TypeOK, HelperRec
<1>2. /\ helper' \in [Helper -> HelperRec]
      /\ helper'[h] = r /\ \A k \in Helper : k # h => helper'[k] = helper[k]
  BY <1>1
<1>3. ASSUME NEW k \in Helper, k # h
      PROVE  helper[k].pc = "off" /\ ~helper[k].ok
  <2>1. helper[k].pc = "off"
    BY <1>3 DEF UpdateInv, OneHelper, At
  <2> QED BY <2>1 DEF UpdateInv, HelpersKnow, Knows
<1>4. OneHelper'
  BY <1>2, <1>3 DEF OneHelper, At
<1>5. ASSUME NEW k \in Helper
      PROVE  Knows(helper'[k], updater', backup', exe')
  <2>1. CASE k = h
    BY <2>1, <1>2
  <2>2. CASE k # h
    BY <2>2, <1>1, <1>2, <1>3, OffKnows
  <2> QED BY <2>1, <2>2
<1> QED BY <1>2, <1>4, <1>5 DEF HelpersKnow

\* The helper only goes on.
LEMMA GotoLemma ==
  ASSUME UpdateInv, NEW h \in Helper, NEW p \in PC, Goto(h, p)
  PROVE  \E r \in HelperRec :
           /\ helper' = [helper EXCEPT ![h] = r]
           /\ r = [helper[h] EXCEPT !.pc = p]
           /\ r.pc = p /\ r.target = helper[h].target /\ r.prev = helper[h].prev
           /\ r.tray = helper[h].tray /\ r.ok = helper[h].ok /\ r.lost = helper[h].lost
<1>1. helper \in [Helper -> HelperRec]
  BY DEF UpdateInv, TypeOK, HelperRec
<1>2. helper[h] \in HelperRec
  BY <1>1
<1> DEFINE r == [helper[h] EXCEPT !.pc = p]
<1>3. r \in HelperRec
  BY <1>2 DEF HelperRec
<1>4. helper' = [helper EXCEPT ![h] = r]
  BY <1>1 DEF Goto
<1>5. /\ r.pc = p /\ r.target = helper[h].target /\ r.prev = helper[h].prev
      /\ r.tray = helper[h].tray /\ r.ok = helper[h].ok /\ r.lost = helper[h].lost
  BY <1>2 DEF HelperRec
<1> QED BY <1>3, <1>4, <1>5

\* The parts of the invariant that a step of a helper may disturb through the
\* helper's record alone.
LEMMA Assemble ==
  ASSUME UpdateInv, helper' \in [Helper -> HelperRec], OneHelper', HelpersKnow',
         UNCHANGED <<published, updater, pending, exe, installer, service, proc, recover,
                     promote, launched, check>>,
         backup' \in Version \cup {None},
         tray' \in BOOLEAN, gaveUp' \in BOOLEAN, faults' \in 0 .. MaxFaults
  PROVE  UpdateInv'
<1>1. TypeOK'
  BY DEF UpdateInv, TypeOK, HelperRec
<1>2. StagedIsGood' /\ RunsInstalled' /\ UpdaterNotAhead'
  BY DEF UpdateInv, StagedIsGood, RunsInstalled, UpdaterNotAhead
<1> QED BY <1>1, <1>2 DEF UpdateInv

LEMMA FaultType ==
  ASSUME UpdateInv, Fault
  PROVE  faults' \in 0 .. MaxFaults
BY UpdateAssumption DEF UpdateInv, TypeOK, Fault

\* A step that touches neither the files nor a helper disturbs no helper.
LEMMA Aside ==
  ASSUME UpdateInv, UNCHANGED <<exe, backup, updater, helper>>
  PROVE  OneHelper' /\ HelpersKnow' /\ UpdaterNotAhead'
BY DEF UpdateInv, OneHelper, HelpersKnow, UpdaterNotAhead, At

\* A new service process runs the installed executable.
LEMMA StartsLemma ==
  ASSUME UpdateInv, ProcessStarts(exe), UNCHANGED exe
  PROVE  /\ RunsInstalled'
         /\ service' = "running" /\ proc' = exe /\ proc' \in Version
         /\ recover' \in BOOLEAN /\ promote' \in {"check", "replace", "over"} /\ launched' \in BOOLEAN
         /\ check' \in [pc : {"idle", "stage", "launch"}, version : Version \cup {None}]
         /\ gaveUp' \in BOOLEAN
BY DEF UpdateInv, TypeOK, ProcessStarts, RunsInstalled, Idle

\* A process that ended runs nothing.
LEMMA EndsLemma ==
  ASSUME UpdateInv, NEW s \in {"stopping", "stopped"}, ProcessEnds(s), UNCHANGED exe
  PROVE  /\ RunsInstalled'
         /\ service' = s /\ proc' = None
         /\ promote' \in {"check", "replace", "over"} /\ launched' \in BOOLEAN
         /\ check' \in [pc : {"idle", "stage", "launch"}, version : Version \cup {None}]
BY DEF UpdateInv, TypeOK, ProcessEnds, RunsInstalled, Idle

-----------------------------------------------------------------------------
LEMMA UpdateInit == Init => UpdateInv
<1> SUFFICES ASSUME Init PROVE UpdateInv
  OBVIOUS
<1>1. helper \in [Helper -> HelperRec] /\ \A h \in Helper : helper[h] = Off
  BY OffKnows DEF Init
<1>2. TypeOK
  <2>1. faults \in 0 .. MaxFaults
    BY UpdateAssumption DEF Init
  <2>2. proc \in Version \cup {None} /\ (proc = None <=> service # "running")
    BY VersionLemma DEF Init
  <2>3. check \in [pc : {"idle", "stage", "launch"}, version : Version \cup {None}]
    BY DEF Init, Idle
  <2> QED BY <1>1, <2>1, <2>2, <2>3, VersionLemma DEF Init, TypeOK, HelperRec
<1>3. OneHelper
  BY <1>1 DEF OneHelper, At, Off
<1>4. HelpersKnow
  BY <1>1, OffKnows DEF HelpersKnow
<1>5. StagedIsGood /\ RunsInstalled /\ UpdaterNotAhead
  BY DEF Init, StagedIsGood, RunsInstalled, UpdaterNotAhead, Idle
<1> QED BY <1>2, <1>3, <1>4, <1>5 DEF UpdateInv

-----------------------------------------------------------------------------
(* The server and the Agent service.                                       *)

LEMMA PublishInv == UpdateInv /\ Publish => UpdateInv'
<1> SUFFICES ASSUME UpdateInv, Publish PROVE UpdateInv'
  OBVIOUS
<1>1. TypeOK'
  BY VersionLemma DEF UpdateInv, TypeOK, Publish, files, agent
<1>2. StagedIsGood' /\ RunsInstalled'
  BY DEF UpdateInv, Publish, files, agent, StagedIsGood, RunsInstalled
<1> QED BY <1>1, <1>2, Aside DEF UpdateInv, Publish, files, agent

LEMMA CheckReleaseInv == UpdateInv /\ CheckRelease => UpdateInv'
<1> SUFFICES ASSUME UpdateInv, CheckRelease PROVE UpdateInv'
  OBVIOUS
<1>1. TypeOK'
  BY DEF UpdateInv, TypeOK, CheckRelease, files
<1>2. proc = exe
  BY DEF UpdateInv, TypeOK, RunsInstalled, CheckRelease
<1>3. StagedIsGood' /\ RunsInstalled'
  BY <1>2 DEF UpdateInv, TypeOK, CheckRelease, files, StagedIsGood, RunsInstalled
<1> QED BY <1>1, <1>3, Aside DEF UpdateInv, CheckRelease, files

LEMMA StageInv == UpdateInv /\ Stage => UpdateInv'
<1> SUFFICES ASSUME UpdateInv, Stage PROVE UpdateInv'
  OBVIOUS
<1>1. /\ check' \in [pc : {"idle", "stage", "launch"}, version : Version \cup {None}]
      /\ check'.pc = "idle" \/ check'.version = check.version
  BY DEF UpdateInv, TypeOK, Stage, Idle
<1>2. /\ installer' \in [Version -> {"none", "ok", "bad"}]
      /\ StagedIsGood'
  BY DEF UpdateInv, TypeOK, Stage, StagedIsGood
<1>3. faults' \in 0 .. MaxFaults
  BY FaultType DEF UpdateInv, TypeOK, Stage
<1>4. TypeOK'
  BY <1>1, <1>2, <1>3 DEF UpdateInv, TypeOK, Stage
<1>5. RunsInstalled'
  BY <1>1 DEF UpdateInv, Stage, RunsInstalled
<1> QED BY <1>2, <1>4, <1>5, Aside DEF UpdateInv, Stage

LEMMA LaunchApplyInv ==
  ASSUME UpdateInv, NEW h \in Helper, LaunchApply(h) PROVE UpdateInv'
<1>1. /\ check' \in [pc : {"idle", "stage", "launch"}, version : Version \cup {None}]
      /\ check'.pc = "idle"
  BY DEF LaunchApply, Idle
<1>2. StagedIsGood' /\ RunsInstalled' /\ UpdaterNotAhead'
  BY <1>1 DEF UpdateInv, LaunchApply, files, StagedIsGood, RunsInstalled, UpdaterNotAhead
<1>3. helper \in [Helper -> HelperRec]
  BY DEF UpdateInv, TypeOK, HelperRec
<1>4. CASE ~AcquireExecutionLock
  <2>1. TypeOK'
    BY <1>1, <1>4 DEF UpdateInv, TypeOK, LaunchApply, files
  <2> QED BY <2>1, <1>2, <1>4, Aside DEF UpdateInv, LaunchApply, files
<1>5. CASE AcquireExecutionLock
  <2> DEFINE r == [Off EXCEPT !.pc = "stop", !.target = check.version]
  <2>1. check.version \in Version /\ check.version > exe
    BY DEF UpdateInv, RunsInstalled, LaunchApply
  <2>2. /\ r \in HelperRec /\ r.pc = "stop" /\ r.target = check.version
        /\ r.prev = None /\ ~r.ok
    BY <2>1 DEF Off, HelperRec, PC
  <2>3. helper' = [helper EXCEPT ![h] = r]
    BY <1>5 DEF LaunchApply
  <2> HIDE DEF r
  <2>4. /\ helper' \in [Helper -> HelperRec]
        /\ helper'[h] = r /\ \A k \in Helper : k # h => helper'[k] = helper[k]
    BY <1>3, <2>2, <2>3
  <2>5. \A k \in Helper : helper[k].pc = "off"
    BY <1>5 DEF AcquireExecutionLock, At
  <2>6. OneHelper'
    BY <2>4, <2>5 DEF OneHelper, At
  <2>7. updater <= check.version
    <3>1. updater \in Int /\ exe \in Int /\ check.version \in Int
      BY <2>1, VersionLemma DEF UpdateInv, TypeOK
    <3> QED BY <2>1, <3>1 DEF UpdateInv, UpdaterNotAhead
  <2>8. Knows(r, updater, backup, exe)
    BY <2>1, <2>2, <2>7 DEF Knows, CanUndo
  <2>9. HelpersKnow'
    BY <2>4, <2>8 DEF UpdateInv, HelpersKnow, LaunchApply, files
  <2>10. TypeOK'
    BY <1>1, <2>4 DEF UpdateInv, TypeOK, LaunchApply, files, HelperRec
  <2> QED BY <1>2, <2>6, <2>9, <2>10 DEF UpdateInv
<1> QED BY <1>4, <1>5

LEMMA LaunchFailsInv == UpdateInv /\ LaunchFails => UpdateInv'
<1> SUFFICES ASSUME UpdateInv, LaunchFails PROVE UpdateInv'
  OBVIOUS
<1>1. /\ check' \in [pc : {"idle", "stage", "launch"}, version : Version \cup {None}]
      /\ check'.pc = "idle"
  BY DEF LaunchFails, Idle
<1>2. /\ installer' \in [Version -> {"none", "ok", "bad"}]
      /\ StagedIsGood'
  BY DEF UpdateInv, TypeOK, LaunchFails, StagedIsGood
<1>3. TypeOK'
  BY <1>1, <1>2, FaultType DEF UpdateInv, TypeOK, LaunchFails
<1>4. RunsInstalled'
  BY <1>1 DEF UpdateInv, LaunchFails, RunsInstalled
<1> QED BY <1>2, <1>3, <1>4, Aside DEF UpdateInv, LaunchFails

LEMMA PendingExpiresInv == UpdateInv /\ PendingExpires => UpdateInv'
<1> SUFFICES ASSUME UpdateInv, PendingExpires PROVE UpdateInv'
  OBVIOUS
<1>1. TypeOK'
  BY DEF UpdateInv, TypeOK, PendingExpires, files
<1>2. StagedIsGood' /\ RunsInstalled'
  BY DEF UpdateInv, PendingExpires, files, StagedIsGood, RunsInstalled
<1> QED BY <1>1, <1>2, Aside DEF UpdateInv, PendingExpires, files

\* The promotion goes on only with an updater of the running Agent's own version.
LEMMA CheckPendingInv == UpdateInv /\ CheckPendingUpdater => UpdateInv'
<1> SUFFICES ASSUME UpdateInv, CheckPendingUpdater PROVE UpdateInv'
  OBVIOUS
<1>1. faults' \in 0 .. MaxFaults
  BY FaultType DEF UpdateInv, TypeOK, CheckPendingUpdater
<1>2. TypeOK'
  BY <1>1 DEF UpdateInv, TypeOK, CheckPendingUpdater, files
<1>3. StagedIsGood' /\ RunsInstalled'
  BY DEF UpdateInv, CheckPendingUpdater, files, StagedIsGood, RunsInstalled
<1> QED BY <1>2, <1>3, Aside DEF UpdateInv, CheckPendingUpdater, files

\* The promoted updater is of the version of the running, hence the installed,
\* Agent; no helper is at work.
LEMMA PromoteInv == UpdateInv /\ PromotePendingUpdater => UpdateInv'
<1> SUFFICES ASSUME UpdateInv, PromotePendingUpdater PROVE UpdateInv'
  OBVIOUS
<1>1. pending = exe
  BY DEF UpdateInv, TypeOK, RunsInstalled, PromotePendingUpdater
<1>2. faults' \in 0 .. MaxFaults
  BY FaultType DEF UpdateInv, TypeOK, PromotePendingUpdater
<1>3. TypeOK'
  BY <1>1, <1>2 DEF UpdateInv, TypeOK, PromotePendingUpdater
<1>4. StagedIsGood' /\ RunsInstalled' /\ OneHelper'
  BY DEF UpdateInv, PromotePendingUpdater, StagedIsGood, RunsInstalled, OneHelper, At
<1>5. CASE UNCHANGED updater
  BY <1>3, <1>4, <1>5, Aside DEF UpdateInv, PromotePendingUpdater
<1>6. CASE updater' = pending /\ \A h \in Helper : At(h, "off")
  <2>1. UpdaterNotAhead'
    BY <1>1, <1>6, VersionLemma DEF UpdateInv, TypeOK, PromotePendingUpdater, UpdaterNotAhead
  <2>2. HelpersKnow'
    BY <1>6 DEF UpdateInv, PromotePendingUpdater, HelpersKnow, Knows, At, CanUndo
  <2> QED BY <1>3, <1>4, <2>1, <2>2 DEF UpdateInv
<1> QED BY <1>5, <1>6 DEF PromotePendingUpdater

-----------------------------------------------------------------------------
(* RunHelper.                                                              *)

LEMMA StopServiceInv ==
  ASSUME UpdateInv, NEW h \in Helper, StopService(h) PROVE UpdateInv'
<1>1. CASE service = "running" /\ ProcessEnds("stopping") /\ UNCHANGED <<recover, gaveUp, helper>>
  <2>1. UNCHANGED <<published, files, tray, faults>>
    BY DEF StopService
  <2>2. TypeOK' /\ RunsInstalled'
    BY <1>1, <2>1, EndsLemma, VersionLemma DEF UpdateInv, TypeOK, files
  <2>3. StagedIsGood'
    BY <2>1 DEF UpdateInv, StagedIsGood, files
  <2> QED BY <1>1, <2>1, <2>2, <2>3, Aside DEF UpdateInv, files
<1>2. CASE Goto(h, IF At(h, "stop") THEN "tray" ELSE "restore") /\ UNCHANGED agent
  <2> DEFINE p == IF At(h, "stop") THEN "tray" ELSE "restore"
  <2>1. PICK r \in HelperRec :
          /\ helper' = [helper EXCEPT ![h] = r]
          /\ r.pc = p /\ r.target = helper[h].target /\ r.prev = helper[h].prev
          /\ r.ok = helper[h].ok /\ r.lost = helper[h].lost
    BY <1>2, GotoLemma DEF PC
  <2>2. Knows(helper[h], updater, backup, exe)
    BY DEF UpdateInv, HelpersKnow
  <2>3. Knows(r, updater', backup', exe')
    BY <2>1, <2>2 DEF StopService, files, At, Knows, CanUndo
  <2>4. ~At(h, "off")
    BY DEF StopService, At
  <2>5. helper' \in [Helper -> HelperRec] /\ OneHelper' /\ HelpersKnow'
    BY <2>1, <2>3, <2>4, HelperStep
  <2> QED BY <1>2, <2>5, Assemble DEF StopService, files, agent, UpdateInv, TypeOK
<1> QED BY <1>1, <1>2 DEF StopService

\* A helper that only goes on to p, where what it knows is still so.
LEMMA GoesOn ==
  ASSUME UpdateInv, NEW h \in Helper, ~At(h, "off"), NEW p \in PC, Goto(h, p),
         UNCHANGED <<updater, backup, exe>>,
         \A r \in HelperRec :
           /\ r.pc = p /\ r.target = helper[h].target /\ r.prev = helper[h].prev
           /\ r.ok = helper[h].ok /\ r.lost = helper[h].lost
           => Knows(r, updater, backup, exe)
  PROVE  helper' \in [Helper -> HelperRec] /\ OneHelper' /\ HelpersKnow'
<1>1. PICK r \in HelperRec :
        /\ helper' = [helper EXCEPT ![h] = r]
        /\ r.pc = p /\ r.target = helper[h].target /\ r.prev = helper[h].prev
        /\ r.ok = helper[h].ok /\ r.lost = helper[h].lost
  BY GotoLemma
<1>2. Knows(r, updater', backup', exe')
  BY <1>1
<1> QED BY <1>1, <1>2, HelperStep

\* Which places of RunHelper may follow each other without a further effect.
Follows(p) ==
  CASE p = "stop" -> {"tray", "restart"}
    [] p = "tray" -> {"restart"}
    [] p = "backup" -> {"restart"}
    [] p = "install" -> {"undoStop"}
    [] p = "configure" -> {"startService", "undoStop"}
    [] p = "startService" -> {"health", "undoStop"}
    [] p = "health" -> {"cleanup", "undoStop"}
    [] p = "undoStop" -> {"restore"}
    [] p = "undoConfigure" -> {"undoStart", "end"}
    [] p = "undoStart" -> {"undoHealth", "end"}
    [] p = "undoHealth" -> {"end"}
    [] p = "restart" -> {"end"}
    [] OTHER -> {}

LEMMA FollowsLemma ==
  ASSUME UpdateInv, NEW h \in Helper, NEW p \in PC, p \in Follows(helper[h].pc), Goto(h, p),
         UNCHANGED <<updater, backup, exe>>
  PROVE  helper' \in [Helper -> HelperRec] /\ OneHelper' /\ HelpersKnow'
<1>1. Knows(helper[h], updater, backup, exe) /\ helper[h].pc \in PC
  BY DEF UpdateInv, HelpersKnow, TypeOK
<1>2. ASSUME NEW r \in HelperRec, r.pc = p, r.target = helper[h].target,
             r.prev = helper[h].prev, r.ok = helper[h].ok, r.lost = helper[h].lost
      PROVE  Knows(r, updater, backup, exe)
  BY <1>1, <1>2 DEF Knows, Follows, CanUndo, PC
<1>3. ~At(h, "off")
  BY DEF At, Follows
<1> QED BY <1>2, <1>3, GoesOn

LEMMA StopServiceFailsInv ==
  ASSUME UpdateInv, NEW h \in Helper, StopServiceFails(h) PROVE UpdateInv'
<1>1. faults' \in 0 .. MaxFaults
  BY FaultType DEF StopServiceFails
<1>2. CASE At(h, "stop") /\ Goto(h, "restart") /\ UNCHANGED gaveUp
  <2>1. helper' \in [Helper -> HelperRec] /\ OneHelper' /\ HelpersKnow'
    BY <1>2, FollowsLemma DEF StopServiceFails, files, At, PC, Follows
  <2> QED BY <1>1, <1>2, <2>1, Assemble DEF StopServiceFails, files, UpdateInv, TypeOK
<1>3. CASE /\ At(h, "undoStop") /\ gaveUp' = TRUE
           /\ helper' = [helper EXCEPT ![h].pc = "end", ![h].lost = TRUE]
  <2> DEFINE r == [helper[h] EXCEPT !.pc = "end", !.lost = TRUE]
  <2>1. helper \in [Helper -> HelperRec] /\ helper[h] \in HelperRec
    BY DEF UpdateInv, TypeOK, HelperRec
  <2>2. r \in HelperRec /\ r.pc = "end" /\ r.lost /\ r.ok = helper[h].ok /\ r.target = helper[h].target
    BY <2>1 DEF HelperRec, PC
  <2>3. helper' = [helper EXCEPT ![h] = r]
    BY <1>3, <2>1
  <2>4. Knows(helper[h], updater, backup, exe)
    BY DEF UpdateInv, HelpersKnow
  <2> HIDE DEF r
  <2>5. Knows(r, updater, backup, exe)
    BY <1>3, <2>2, <2>4 DEF Knows, CanUndo, At
  <2>6. helper' \in [Helper -> HelperRec] /\ OneHelper' /\ HelpersKnow'
    BY <1>3, <2>2, <2>3, <2>5, HelperStep DEF StopServiceFails, files, At
  <2> QED BY <1>1, <1>3, <2>6, Assemble DEF StopServiceFails, files, UpdateInv, TypeOK
<1> QED BY <1>2, <1>3 DEF StopServiceFails

LEMMA StopTrayInv ==
  ASSUME UpdateInv, NEW h \in Helper, StopTray(h) PROVE UpdateInv'
<1>1. faults' \in 0 .. MaxFaults /\ tray' \in BOOLEAN
  BY FaultType DEF StopTray, UpdateInv, TypeOK
<1>2. CASE helper' = [helper EXCEPT ![h].pc = "backup", ![h].tray = tray]
  <2> DEFINE r == [helper[h] EXCEPT !.pc = "backup", !.tray = tray]
  <2>1. helper \in [Helper -> HelperRec] /\ helper[h] \in HelperRec /\ tray \in BOOLEAN
    BY DEF UpdateInv, TypeOK, HelperRec
  <2>2. /\ r \in HelperRec /\ r.pc = "backup" /\ r.ok = helper[h].ok
        /\ r.target = helper[h].target /\ r.prev = helper[h].prev
    BY <2>1 DEF HelperRec, PC
  <2>3. helper' = [helper EXCEPT ![h] = r]
    BY <1>2, <2>1
  <2>4. Knows(helper[h], updater, backup, exe)
    BY DEF UpdateInv, HelpersKnow
  <2> HIDE DEF r
  <2>5. Knows(r, updater, backup, exe)
    BY <2>2, <2>4 DEF StopTray, Knows, CanUndo, At
  <2>6. helper' \in [Helper -> HelperRec] /\ OneHelper' /\ HelpersKnow'
    BY <2>2, <2>3, <2>5, HelperStep DEF StopTray, files, At
  <2> QED BY <1>1, <2>6, Assemble DEF StopTray, files, agent, UpdateInv, TypeOK
<1>3. CASE Goto(h, "restart")
  <2>1. helper' \in [Helper -> HelperRec] /\ OneHelper' /\ HelpersKnow'
    BY <1>3, FollowsLemma DEF StopTray, files, At, PC, Follows
  <2> QED BY <1>1, <2>1, Assemble DEF StopTray, files, agent, UpdateInv, TypeOK
<1> QED BY <1>2, <1>3 DEF StopTray

\* The backup is taken of the executable that the updater is not ahead of.
LEMMA BackupInv ==
  ASSUME UpdateInv, NEW h \in Helper, BackupExecutable(h) PROVE UpdateInv'
<1>1. faults' \in 0 .. MaxFaults /\ backup' \in Version \cup {None}
  BY FaultType DEF BackupExecutable, UpdateInv, TypeOK
<1>2. CASE backup' = exe /\ helper' = [helper EXCEPT ![h].pc = "install", ![h].prev = exe]
  <2> DEFINE r == [helper[h] EXCEPT !.pc = "install", !.prev = exe]
  <2>1. helper \in [Helper -> HelperRec] /\ helper[h] \in HelperRec /\ exe \in Version
    BY DEF UpdateInv, TypeOK, HelperRec
  <2>2. /\ r \in HelperRec /\ r.pc = "install" /\ r.ok = helper[h].ok
        /\ r.target = helper[h].target /\ r.prev = exe
    BY <2>1 DEF HelperRec, PC
  <2>3. helper' = [helper EXCEPT ![h] = r]
    BY <1>2, <2>1
  <2>4. Knows(helper[h], updater, backup, exe) /\ updater <= exe
    BY DEF UpdateInv, HelpersKnow, UpdaterNotAhead
  <2> HIDE DEF r
  <2>5. Knows(r, updater, exe, exe)
    BY <2>1, <2>2, <2>4 DEF BackupExecutable, Knows, CanUndo, At
  <2>6. helper' \in [Helper -> HelperRec] /\ OneHelper' /\ HelpersKnow'
    BY <1>2, <2>2, <2>3, <2>5, HelperStep DEF BackupExecutable, At
  <2> QED BY <1>1, <2>6, Assemble DEF BackupExecutable, agent, UpdateInv, TypeOK
<1>3. CASE Goto(h, "restart") /\ UNCHANGED backup
  <2>1. helper' \in [Helper -> HelperRec] /\ OneHelper' /\ HelpersKnow'
    BY <1>3, FollowsLemma DEF BackupExecutable, At, PC, Follows
  <2> QED BY <1>1, <2>1, Assemble DEF BackupExecutable, agent, UpdateInv, TypeOK
<1> QED BY <1>2, <1>3 DEF BackupExecutable

\* Whatever the installer left undone, the executable is the old or the new one.
LEMMA RunInstallerInv ==
  ASSUME UpdateInv, NEW h \in Helper, RunInstaller(h) PROVE UpdateInv'
<1> DEFINE v == helper[h].target
<1>1. /\ v \in Version /\ updater <= v /\ Knows(helper[h], updater, backup, exe)
      /\ helper[h].pc = "install"
  BY DEF UpdateInv, HelpersKnow, Knows, RunInstaller, At
<1>2. installer[v] # "bad" /\ installer[v] \in {"none", "ok", "bad"}
  BY <1>1 DEF UpdateInv, StagedIsGood, TypeOK
<1>3. /\ exe' \in {exe, v} /\ pending' \in {pending, v} /\ faults' \in 0 .. MaxFaults
  BY <1>2, FaultType DEF RunInstaller, UpdateInv, TypeOK
<1>10. \/ UNCHANGED agent /\ (service # "running" \/ UNCHANGED <<exe, pending>>)
       \/ ProcessEnds("stopped") /\ recover' \in BOOLEAN /\ UNCHANGED gaveUp
  BY DEF RunInstaller, CloseService
<1>4. UNCHANGED <<published, backup, installer, updater, tray>>
  BY DEF RunInstaller
<1>5. \/ Goto(h, "configure") /\ exe' = v
      \/ Goto(h, "undoStop")
  BY <1>2 DEF RunInstaller
<1>6. helper' \in [Helper -> HelperRec] /\ OneHelper' /\ HelpersKnow'
  <2>1. PICK p \in PC :
          /\ Goto(h, p) /\ p \in {"configure", "undoStop"}
          /\ p = "configure" => exe' = v
    BY <1>5 DEF PC
  <2>2. PICK r \in HelperRec :
          /\ helper' = [helper EXCEPT ![h] = r]
          /\ r.pc = p /\ r.target = helper[h].target /\ r.prev = helper[h].prev
          /\ r.ok = helper[h].ok /\ r.lost = helper[h].lost
    BY <2>1, GotoLemma
  <2>3. Knows(r, updater, backup, exe')
    BY <1>1, <1>3, <2>1, <2>2 DEF Knows, CanUndo
  <2> QED BY <1>1, <1>4, <2>2, <2>3, HelperStep DEF At
<1>7. ASSUME UNCHANGED agent, service # "running" \/ UNCHANGED <<exe, pending>>
      PROVE  TypeOK' /\ RunsInstalled'
  <2>1. TypeOK'
    BY <1>1, <1>3, <1>4, <1>6, <1>7 DEF UpdateInv, TypeOK, agent, HelperRec
  <2>2. RunsInstalled'
    <3>1. CASE UNCHANGED <<exe, pending>>
      BY <1>7, <3>1 DEF UpdateInv, RunsInstalled, agent
    <3>2. CASE service # "running"
      BY <1>7, <3>2 DEF UpdateInv, TypeOK, RunsInstalled, agent
    <3> QED BY <1>7, <3>1, <3>2
  <2> QED BY <2>1, <2>2
<1>8. ASSUME ProcessEnds("stopped"), recover' \in BOOLEAN, UNCHANGED gaveUp
      PROVE  TypeOK' /\ RunsInstalled'
  <2>1. /\ service' = "stopped" /\ proc' = None /\ promote' = "over" /\ launched' = FALSE
        /\ check' = Idle
    BY <1>8 DEF ProcessEnds
  <2>2. check' \in [pc : {"idle", "stage", "launch"}, version : Version \cup {None}]
        /\ check'.pc = "idle"
    BY <2>1 DEF Idle
  <2>3. TypeOK'
    BY <1>1, <1>3, <1>4, <1>6, <1>8, <2>1, <2>2, VersionLemma DEF UpdateInv, TypeOK, HelperRec
  <2>4. RunsInstalled'
    BY <2>1, <2>2 DEF RunsInstalled
  <2> QED BY <2>3, <2>4
<1>9. StagedIsGood' /\ UpdaterNotAhead'
  BY <1>1, <1>3, <1>4 DEF UpdateInv, StagedIsGood, UpdaterNotAhead
<1> QED BY <1>6, <1>7, <1>8, <1>9, <1>10 DEF UpdateInv

LEMMA ConfigureInv ==
  ASSUME UpdateInv, NEW h \in Helper, ApplyServiceConfiguration(h) PROVE UpdateInv'
<1>1. faults' \in 0 .. MaxFaults /\ gaveUp' \in BOOLEAN
  BY FaultType DEF ApplyServiceConfiguration, UpdateInv, TypeOK
<1>2. UNCHANGED <<published, files, service, proc, recover, promote, launched, check, tray>>
  BY DEF ApplyServiceConfiguration
<1>3. PICK p \in PC : p \in Follows(helper[h].pc) /\ Goto(h, p)
  BY DEF ApplyServiceConfiguration, At, PC, Follows
<1>4. helper' \in [Helper -> HelperRec] /\ OneHelper' /\ HelpersKnow'
  BY <1>2, <1>3, FollowsLemma DEF files
<1> QED BY <1>1, <1>2, <1>4, Assemble DEF files, UpdateInv, TypeOK

\* A service that starts is of the installed executable.
LEMMA StartServiceInv ==
  ASSUME UpdateInv, NEW h \in Helper, StartService(h) \/ StartServiceFails(h)
  PROVE  UpdateInv'
<1>1. UNCHANGED <<published, files, tray>> /\ faults' \in 0 .. MaxFaults
  BY FaultType DEF StartService, StartServiceFails, UpdateInv, TypeOK
<1>2. PICK p \in PC : p \in Follows(helper[h].pc) /\ Goto(h, p)
  BY DEF StartService, StartServiceFails, Starting, Started, At, PC, Follows
<1>3. helper' \in [Helper -> HelperRec] /\ OneHelper' /\ HelpersKnow'
  BY <1>1, <1>2, FollowsLemma DEF files
<1>4. CASE UNCHANGED <<service, proc, recover, promote, launched, check>> /\ gaveUp' \in BOOLEAN
  BY <1>1, <1>3, <1>4, Assemble DEF files, UpdateInv, TypeOK
<1>5. CASE ProcessStarts(exe)
  <2>1. TypeOK' /\ RunsInstalled'
    BY <1>1, <1>3, <1>5, StartsLemma, VersionLemma DEF UpdateInv, TypeOK, files, HelperRec
  <2>2. StagedIsGood' /\ UpdaterNotAhead'
    BY <1>1 DEF UpdateInv, StagedIsGood, UpdaterNotAhead, files
  <2> QED BY <1>3, <2>1, <2>2 DEF UpdateInv
<1> QED
  BY <1>4, <1>5 DEF StartService, StartServiceFails, agent, UpdateInv, TypeOK

LEMMA WaitHealthyInv ==
  ASSUME UpdateInv, NEW h \in Helper, WaitHealthy(h) PROVE UpdateInv'
<1>1. UNCHANGED <<published, files, agent, tray>> /\ faults' \in 0 .. MaxFaults
  BY FaultType DEF WaitHealthy, UpdateInv, TypeOK
<1>2. PICK p \in PC : p \in Follows(helper[h].pc) /\ Goto(h, p)
  BY DEF WaitHealthy, At, PC, Follows
<1>3. helper' \in [Helper -> HelperRec] /\ OneHelper' /\ HelpersKnow'
  BY <1>1, <1>2, FollowsLemma DEF files
<1> QED BY <1>1, <1>3, Assemble DEF files, agent, UpdateInv, TypeOK

LEMMA CleanupInv ==
  ASSUME UpdateInv, NEW h \in Helper, Cleanup(h) PROVE UpdateInv'
<1> DEFINE r == [helper[h] EXCEPT !.pc = "end", !.ok = TRUE]
<1>1. helper \in [Helper -> HelperRec] /\ helper[h] \in HelperRec
  BY DEF UpdateInv, TypeOK, HelperRec
<1>2. r \in HelperRec /\ r.pc = "end" /\ r.ok /\ r.target = helper[h].target
  BY <1>1 DEF HelperRec, PC
<1>3. helper' = [helper EXCEPT ![h] = r]
  BY <1>1 DEF Cleanup
<1>4. Knows(helper[h], updater, backup, exe)
  BY DEF UpdateInv, HelpersKnow
<1> HIDE DEF r
<1>5. Knows(r, updater, backup', exe)
  BY <1>2, <1>4 DEF Cleanup, Knows, CanUndo, At
<1>6. helper' \in [Helper -> HelperRec] /\ OneHelper' /\ HelpersKnow'
  BY <1>2, <1>3, <1>5, HelperStep DEF Cleanup, At
<1>7. /\ installer' \in [Version -> {"none", "ok", "bad"}] /\ StagedIsGood'
      /\ backup' \in Version \cup {None} /\ faults' \in 0 .. MaxFaults
  BY FaultType DEF Cleanup, UpdateInv, TypeOK, StagedIsGood
<1>8. TypeOK'
  BY <1>6, <1>7 DEF UpdateInv, TypeOK, Cleanup, agent, HelperRec
<1>9. RunsInstalled' /\ UpdaterNotAhead'
  BY DEF UpdateInv, RunsInstalled, UpdaterNotAhead, Cleanup, agent
<1> QED BY <1>6, <1>7, <1>8, <1>9 DEF UpdateInv

\* The restored executable is the one the helper found.
LEMMA RestoreInv ==
  ASSUME UpdateInv, NEW h \in Helper, RestoreExecutable(h) PROVE UpdateInv'
<1>1. /\ Knows(helper[h], updater, backup, exe) /\ helper[h].pc = "restore"
      /\ backup = helper[h].prev /\ backup \in Version /\ updater <= backup
  BY DEF UpdateInv, HelpersKnow, Knows, CanUndo, RestoreExecutable, At
<1>2. UNCHANGED <<published, backup, installer, updater, pending, agent, tray>>
  BY DEF RestoreExecutable
<1>3. faults' \in 0 .. MaxFaults
  BY FaultType DEF RestoreExecutable, UpdateInv, TypeOK
<1>4. CASE service # "running" /\ exe' = backup /\ Goto(h, "undoConfigure")
  <2>1. PICK r \in HelperRec :
          /\ helper' = [helper EXCEPT ![h] = r]
          /\ r.pc = "undoConfigure" /\ r.target = helper[h].target
          /\ r.prev = helper[h].prev /\ r.ok = helper[h].ok
    BY <1>4, GotoLemma DEF PC
  <2>2. Knows(r, updater, backup, backup)
    BY <1>1, <2>1 DEF Knows, CanUndo
  <2>3. helper' \in [Helper -> HelperRec] /\ OneHelper' /\ HelpersKnow'
    BY <1>1, <1>2, <1>4, <2>1, <2>2, HelperStep DEF At
  <2>4. TypeOK'
    BY <1>1, <1>2, <1>3, <1>4, <2>3 DEF UpdateInv, TypeOK, agent, HelperRec
  <2>5. StagedIsGood' /\ RunsInstalled' /\ UpdaterNotAhead'
    BY <1>1, <1>2, <1>4
    DEF UpdateInv, TypeOK, StagedIsGood, RunsInstalled, UpdaterNotAhead, agent
  <2> QED BY <2>3, <2>4, <2>5 DEF UpdateInv
<1>5. CASE /\ helper' = [helper EXCEPT ![h].pc = "undoConfigure", ![h].lost = TRUE]
           /\ UNCHANGED exe
  <2> DEFINE r == [helper[h] EXCEPT !.pc = "undoConfigure", !.lost = TRUE]
  <2>1. helper \in [Helper -> HelperRec] /\ helper[h] \in HelperRec
    BY DEF UpdateInv, TypeOK, HelperRec
  <2>2. /\ r \in HelperRec /\ r.pc = "undoConfigure" /\ r.lost
        /\ r.ok = helper[h].ok /\ r.target = helper[h].target
    BY <2>1 DEF HelperRec, PC
  <2>3. helper' = [helper EXCEPT ![h] = r]
    BY <1>5, <2>1
  <2> HIDE DEF r
  <2>4. Knows(r, updater, backup, exe)
    BY <1>1, <2>2 DEF Knows, CanUndo
  <2>5. helper' \in [Helper -> HelperRec] /\ OneHelper' /\ HelpersKnow'
    BY <1>1, <1>2, <1>5, <2>2, <2>3, <2>4, HelperStep DEF At
  <2> QED BY <1>2, <1>3, <1>5, <2>5, Assemble DEF agent, UpdateInv, TypeOK
<1> QED BY <1>4, <1>5 DEF RestoreExecutable

\* The helper is gone, at its end or killed.
LEMMA GoneInv ==
  ASSUME UpdateInv, NEW h \in Helper, End(h) \/ Kill(h) PROVE UpdateInv'
<1>1. /\ ~At(h, "off") /\ helper' = [helper EXCEPT ![h] = Off]
      /\ UNCHANGED <<published, files, service, proc, recover, promote, launched, check>>
      /\ tray' \in BOOLEAN /\ gaveUp' \in BOOLEAN /\ faults' \in 0 .. MaxFaults
  <2>1. CASE End(h)
    <3>1. helper[h].tray \in BOOLEAN
      BY DEF UpdateInv, TypeOK
    <3>2. tray' \in BOOLEAN
      BY <2>1, <3>1 DEF End, UpdateInv, TypeOK
    <3> QED BY <2>1, <3>2, FaultType DEF End, At, agent, UpdateInv, TypeOK
  <2>2. CASE Kill(h)
    BY <2>2, FaultType DEF Kill, At, UpdateInv, TypeOK
  <2> QED BY <2>1, <2>2
<1>2. helper' \in [Helper -> HelperRec] /\ OneHelper' /\ HelpersKnow'
  BY <1>1, OffKnows, HelperStep
<1> QED BY <1>1, <1>2, Assemble DEF files, UpdateInv, TypeOK

-----------------------------------------------------------------------------
(* The service control manager.                                            *)

LEMMA ServiceStopsInv == UpdateInv /\ ServiceStops => UpdateInv'
<1> SUFFICES ASSUME UpdateInv, ServiceStops PROVE UpdateInv'
  OBVIOUS
<1>1. TypeOK'
  BY DEF UpdateInv, TypeOK, ServiceStops, files
<1>2. StagedIsGood' /\ RunsInstalled'
  BY DEF UpdateInv, ServiceStops, files, StagedIsGood, RunsInstalled
<1> QED BY <1>1, <1>2, Aside DEF UpdateInv, ServiceStops, files

LEMMA ServiceCrashInv == UpdateInv /\ ServiceCrash => UpdateInv'
<1> SUFFICES ASSUME UpdateInv, ServiceCrash PROVE UpdateInv'
  OBVIOUS
<1>1. TypeOK' /\ RunsInstalled'
  BY EndsLemma, FaultType, VersionLemma DEF UpdateInv, TypeOK, ServiceCrash, files
<1>2. StagedIsGood'
  BY DEF UpdateInv, ServiceCrash, files, StagedIsGood
<1> QED BY <1>1, <1>2, Aside DEF UpdateInv, ServiceCrash, files

LEMMA RecoverInv == UpdateInv /\ Recover => UpdateInv'
<1> SUFFICES ASSUME UpdateInv, Recover PROVE UpdateInv'
  OBVIOUS
<1>1. TypeOK' /\ RunsInstalled'
  BY StartsLemma, VersionLemma DEF UpdateInv, TypeOK, Recover, files
<1>2. StagedIsGood'
  BY DEF UpdateInv, Recover, files, StagedIsGood
<1> QED BY <1>1, <1>2, Aside DEF UpdateInv, Recover, files

LEMMA RebootInv == UpdateInv /\ Reboot => UpdateInv'
<1> SUFFICES ASSUME UpdateInv, Reboot PROVE UpdateInv'
  OBVIOUS
<1>1. helper' \in [Helper -> HelperRec] /\ \A h \in Helper : helper'[h] = Off
  BY OffKnows DEF Reboot
<1>2. TypeOK' /\ RunsInstalled'
  BY <1>1, StartsLemma, FaultType, VersionLemma DEF UpdateInv, TypeOK, Reboot, files, HelperRec
<1>3. StagedIsGood' /\ UpdaterNotAhead'
  BY DEF UpdateInv, Reboot, files, StagedIsGood, UpdaterNotAhead
<1>4. OneHelper' /\ HelpersKnow'
  BY <1>1, OffKnows DEF OneHelper, HelpersKnow, At, Off
<1> QED BY <1>2, <1>3, <1>4 DEF UpdateInv

-----------------------------------------------------------------------------
LEMMA UpdateStep == UpdateInv /\ [Next]_vars => UpdateInv'
<1> SUFFICES ASSUME UpdateInv, [Next]_vars PROVE UpdateInv'
  OBVIOUS
<1>1. CASE UNCHANGED vars
  <2>1. TypeOK' /\ StagedIsGood' /\ RunsInstalled'
    BY <1>1 DEF vars, UpdateInv, TypeOK, StagedIsGood, RunsInstalled
  <2> QED BY <1>1, <2>1, Aside DEF vars, UpdateInv
<1>2. CASE Publish \/ CheckPendingUpdater \/ PromotePendingUpdater
  BY <1>2, PublishInv, CheckPendingInv, PromoteInv
<1>3. CASE Agent
  BY <1>3, CheckReleaseInv, StageInv, LaunchApplyInv, LaunchFailsInv,
     PendingExpiresInv DEF Agent
<1>4. ASSUME NEW h \in Helper, RunHelper(h) \/ Kill(h)
      PROVE  UpdateInv'
  BY <1>4, StopServiceInv, StopServiceFailsInv, StopTrayInv, BackupInv,
     RunInstallerInv, ConfigureInv, StartServiceInv, WaitHealthyInv, CleanupInv,
     RestoreInv, GoneInv DEF RunHelper
<1>5. CASE ServiceStops \/ ServiceCrash \/ Recover \/ Reboot
  BY <1>5, ServiceStopsInv, ServiceCrashInv, RecoverInv, RebootInv
<1> QED BY <1>1, <1>2, <1>3, <1>4, <1>5 DEF Next

\* In every reachable state a helper knows, by its place in RunHelper and its
\* rollback, which version the executable, the backup and the updater are.
THEOREM UpdateInvariant == Spec => []UpdateInv
BY UpdateInit, UpdateStep, PTL DEF Spec

\* The files, the service and the helpers stay within their types, and only
\* releases are ever installed, backed up or run.
THEOREM UpdateTypes == Spec => []TypeOK
<1>1. UpdateInv => TypeOK
  BY DEF UpdateInv
<1> QED BY <1>1, UpdateInvariant, PTL

\* While a helper may still roll back, the last-known-good copy is the
\* executable it found, and nobody else has touched AceAgent.exe.
THEOREM RollbackHasBackup == Spec => []BackupIsPrevious
<1>1. UpdateInv => BackupIsPrevious
  BY DEF UpdateInv, HelpersKnow, Knows, BackupIsPrevious
<1> QED BY <1>1, UpdateInvariant, PTL

\* What a helper reports is what the disk holds, whichever operations of
\* RunHelper and its rollback failed.
THEOREM HelperVerdict == Spec => []VerdictMatchesDisk
<1>1. UpdateInv => VerdictMatchesDisk
  BY DEF UpdateInv, HelpersKnow, Knows, RunsInstalled, VerdictMatchesDisk, At
<1> QED BY <1>1, UpdateInvariant, PTL

\* The updater that the service promotes at its start is never newer than the
\* installed Agent, a rolled-back one included.
THEOREM UpdaterBehindAgent == Spec => []UpdaterNotAhead
<1>1. UpdateInv => UpdaterNotAhead
  BY DEF UpdateInv
<1> QED BY <1>1, UpdateInvariant, PTL

-----------------------------------------------------------------------------
(* How AceAgent.exe changes.                                               *)

\* A helper with record r works for a release that the server has published
\* (p), and one newer than the executable (e) that it found.
Ahead(r, e, p) ==
  /\ r.pc # "off" => r.target <= p
  /\ r.pc \in {"stop", "tray", "backup"} => e < r.target
  /\ r.pc \in CanUndo => r.prev < r.target

PublishedFirst ==
  /\ exe <= published
  /\ check.pc # "idle" => check.version <= published
  /\ \A h \in Helper : Ahead(helper[h], exe, published)

\* AceAgent.exe changes only with the service not running, or closed by the same
\* step, and only at two places: the installer (RunInstaller) puts a newer,
\* published release in the place of the executable that the helper has backed up,
\* and the rollback (restoreLastKnownGood) puts that very executable back.
ExecutableMoves ==
  [][exe' # exe =>
       /\ service' # "running"
       /\ \E h \in Helper :
            \/ /\ At(h, "install") /\ exe = helper[h].prev /\ exe' = helper[h].target
               /\ exe' > exe /\ exe' <= published
            \/ At(h, "restore") /\ exe = helper[h].target /\ exe' = helper[h].prev]_vars

\* How a step of RunHelper changes the record o to r while the executable
\* changes from e to f.
Advances(o, r, e, f) ==
  \/ r.pc = "off" /\ f = e
  \/ /\ o.pc # "off" /\ r.target = o.target
     /\ r.pc \in {"stop", "tray", "backup"} => o.pc \in {"stop", "tray", "backup"} /\ f = e
     /\ r.pc = "install" => o.pc = "backup" /\ r.prev = e
     /\ r.pc \in CanUndo \ {"install"} => o.pc \in CanUndo /\ r.prev = o.prev
     /\ \/ f = e
        \/ o.pc = "install" /\ f = o.target
        \/ o.pc = "restore" /\ f = o.prev

LEMMA VersionOrNone == \A v \in Version \cup {None} : v \in Int
BY VersionLemma DEF None

LEMMA AdvancesAhead ==
  ASSUME NEW o \in HelperRec, NEW r \in HelperRec, NEW e \in Version, NEW f \in Version,
         NEW p \in Version, Ahead(o, e, p), Advances(o, r, e, f)
  PROVE  Ahead(r, f, p)
<1>1. /\ o.target \in Int /\ r.target \in Int /\ o.prev \in Int /\ r.prev \in Int
      /\ e \in Int /\ f \in Int /\ p \in Int
  BY VersionOrNone DEF HelperRec
<1> QED BY <1>1 DEF Ahead, Advances, CanUndo

\* A helper that only goes on to a place that follows.
LEMMA FollowsAdvances ==
  ASSUME UpdateInv, NEW h \in Helper, NEW p \in PC, Goto(h, p), UNCHANGED exe,
         p \in Follows(helper[h].pc)
  PROVE  \E r \in HelperRec :
           helper' = [helper EXCEPT ![h] = r] /\ Advances(helper[h], r, exe, exe')
<1>1. PICK r \in HelperRec :
        /\ helper' = [helper EXCEPT ![h] = r]
        /\ r.pc = p /\ r.target = helper[h].target /\ r.prev = helper[h].prev
  BY GotoLemma
<1>2. helper[h].pc \in PC
  BY DEF UpdateInv, TypeOK
<1>3. Advances(helper[h], r, exe, exe')
  BY <1>1, <1>2 DEF Advances, Follows, CanUndo, PC
<1> QED BY <1>1, <1>3

\* Every step of a helper advances its record, or changes no helper and no
\* executable.
LEMMA HelperAdvances ==
  ASSUME UpdateInv, NEW h \in Helper, RunHelper(h) \/ Kill(h)
  PROVE  \/ UNCHANGED <<helper, exe>>
         \/ \E r \in HelperRec :
              helper' = [helper EXCEPT ![h] = r] /\ Advances(helper[h], r, exe, exe')
<1>1. helper \in [Helper -> HelperRec] /\ helper[h] \in HelperRec /\ exe \in Version
      /\ tray \in BOOLEAN
  BY DEF UpdateInv, TypeOK, HelperRec
<1> DEFINE Goal == \E r \in HelperRec :
              helper' = [helper EXCEPT ![h] = r] /\ Advances(helper[h], r, exe, exe')
<1>2. ASSUME NEW r \in HelperRec, helper' = [helper EXCEPT ![h] = r],
             Advances(helper[h], r, exe, exe')
      PROVE  Goal
  BY <1>2
<1>3. CASE /\ UNCHANGED exe
           /\ \E p \in PC : p \in Follows(helper[h].pc) /\ Goto(h, p)
  BY <1>3, FollowsAdvances
<1> HIDE DEF Goal
<1>4. CASE StopService(h)
  <2>1. UNCHANGED exe
    BY <1>4 DEF StopService, files
  <2>2. UNCHANGED helper \/ \E p \in PC : p \in Follows(helper[h].pc) /\ Goto(h, p)
    BY <1>4 DEF StopService, At, PC, Follows
  <2> QED BY <1>3, <2>1, <2>2 DEF Goal
<1>5. CASE StopServiceFails(h)
  <2>1. UNCHANGED exe
    BY <1>5 DEF StopServiceFails, files
  <2>2. CASE At(h, "stop") /\ Goto(h, "restart")
    <3>1. \E p \in PC : p \in Follows(helper[h].pc) /\ Goto(h, p)
      BY <2>2 DEF At, PC, Follows
    <3> QED BY <1>3, <2>1, <3>1 DEF Goal
  <2>3. CASE /\ At(h, "undoStop")
             /\ helper' = [helper EXCEPT ![h].pc = "end", ![h].lost = TRUE]
    <3> DEFINE r == [helper[h] EXCEPT !.pc = "end", !.lost = TRUE]
    <3>1. r \in HelperRec /\ r.pc = "end" /\ r.target = helper[h].target
      BY <1>1 DEF HelperRec, PC
    <3>2. helper' = [helper EXCEPT ![h] = r]
      BY <1>1, <2>3
    <3> HIDE DEF r
    <3>3. Advances(helper[h], r, exe, exe')
      BY <2>1, <2>3, <3>1 DEF Advances, CanUndo, At
    <3> QED BY <1>2, <3>1, <3>2, <3>3 DEF Goal
  <2> QED BY <1>5, <2>2, <2>3 DEF StopServiceFails
<1>6. CASE StopTray(h)
  <2>1. UNCHANGED exe
    BY <1>6 DEF StopTray, files
  <2>2. CASE Goto(h, "restart")
    <3>1. \E p \in PC : p \in Follows(helper[h].pc) /\ Goto(h, p)
      BY <1>6, <2>2 DEF StopTray, At, PC, Follows
    <3> QED BY <1>3, <2>1, <3>1 DEF Goal
  <2>3. CASE helper' = [helper EXCEPT ![h].pc = "backup", ![h].tray = tray]
    <3> DEFINE r == [helper[h] EXCEPT !.pc = "backup", !.tray = tray]
    <3>1. r \in HelperRec /\ r.pc = "backup" /\ r.target = helper[h].target
      BY <1>1 DEF HelperRec, PC
    <3>2. helper' = [helper EXCEPT ![h] = r]
      BY <1>1, <2>3
    <3> HIDE DEF r
    <3>3. Advances(helper[h], r, exe, exe')
      BY <1>6, <2>1, <3>1 DEF Advances, CanUndo, At, StopTray
    <3> QED BY <1>2, <3>1, <3>2, <3>3 DEF Goal
  <2> QED BY <1>6, <2>2, <2>3 DEF StopTray
<1>7. CASE BackupExecutable(h)
  <2>1. UNCHANGED exe
    BY <1>7 DEF BackupExecutable
  <2>2. CASE Goto(h, "restart")
    <3>1. \E p \in PC : p \in Follows(helper[h].pc) /\ Goto(h, p)
      BY <1>7, <2>2 DEF BackupExecutable, At, PC, Follows
    <3> QED BY <1>3, <2>1, <3>1 DEF Goal
  <2>3. CASE helper' = [helper EXCEPT ![h].pc = "install", ![h].prev = exe]
    <3> DEFINE r == [helper[h] EXCEPT !.pc = "install", !.prev = exe]
    <3>1. r \in HelperRec /\ r.pc = "install" /\ r.target = helper[h].target /\ r.prev = exe
      BY <1>1 DEF HelperRec, PC
    <3>2. helper' = [helper EXCEPT ![h] = r]
      BY <1>1, <2>3
    <3> HIDE DEF r
    <3>3. Advances(helper[h], r, exe, exe')
      BY <1>7, <2>1, <3>1 DEF Advances, CanUndo, At, BackupExecutable
    <3> QED BY <1>2, <3>1, <3>2, <3>3 DEF Goal
  <2> QED BY <1>7, <2>2, <2>3 DEF BackupExecutable
<1>8. CASE RunInstaller(h)
  <2>1. helper[h].pc = "install" /\ helper[h].target \in Version
    BY <1>8 DEF RunInstaller, At, UpdateInv, HelpersKnow, Knows
  <2>2. installer[helper[h].target] # "bad" /\ installer[helper[h].target] \in {"none", "ok", "bad"}
    BY <2>1 DEF UpdateInv, StagedIsGood, TypeOK
  <2>3. exe' \in {exe, helper[h].target}
    BY <1>8, <2>2 DEF RunInstaller
  <2>4. PICK p \in PC : Goto(h, p) /\ p \in {"configure", "undoStop"}
    BY <1>8 DEF RunInstaller, PC
  <2>5. PICK r \in HelperRec :
          /\ helper' = [helper EXCEPT ![h] = r]
          /\ r.pc = p /\ r.target = helper[h].target /\ r.prev = helper[h].prev
    BY <2>4, GotoLemma
  <2>6. Advances(helper[h], r, exe, exe')
    BY <2>1, <2>3, <2>4, <2>5 DEF Advances, CanUndo
  <2> QED BY <1>2, <2>5, <2>6 DEF Goal
<1>9. CASE ApplyServiceConfiguration(h) \/ WaitHealthy(h)
  <2>1. UNCHANGED exe
    BY <1>9 DEF ApplyServiceConfiguration, WaitHealthy, files
  <2>2. \E p \in PC : p \in Follows(helper[h].pc) /\ Goto(h, p)
    BY <1>9 DEF ApplyServiceConfiguration, WaitHealthy, At, PC, Follows
  <2> QED BY <1>3, <2>1, <2>2 DEF Goal
<1>10. CASE StartService(h) \/ StartServiceFails(h)
  <2>1. UNCHANGED exe
    BY <1>10 DEF StartService, StartServiceFails, files
  <2>2. \E p \in PC : p \in Follows(helper[h].pc) /\ Goto(h, p)
    BY <1>10 DEF StartService, StartServiceFails, Starting, Started, At, PC, Follows
  <2> QED BY <1>3, <2>1, <2>2 DEF Goal
<1>11. CASE Cleanup(h)
  <2> DEFINE r == [helper[h] EXCEPT !.pc = "end", !.ok = TRUE]
  <2>1. r \in HelperRec /\ r.pc = "end" /\ r.target = helper[h].target
    BY <1>1 DEF HelperRec, PC
  <2>2. helper' = [helper EXCEPT ![h] = r] /\ UNCHANGED exe /\ At(h, "cleanup")
    BY <1>1, <1>11 DEF Cleanup
  <2> HIDE DEF r
  <2>3. Advances(helper[h], r, exe, exe')
    BY <2>1, <2>2 DEF Advances, CanUndo, At
  <2> QED BY <1>2, <2>1, <2>2, <2>3 DEF Goal
<1>12. CASE RestoreExecutable(h)
  <2>1. helper[h].pc = "restore" /\ backup = helper[h].prev
    BY <1>12 DEF RestoreExecutable, At, UpdateInv, HelpersKnow, Knows, CanUndo
  <2>2. CASE exe' = backup /\ Goto(h, "undoConfigure")
    <3>1. PICK r \in HelperRec :
            /\ helper' = [helper EXCEPT ![h] = r]
            /\ r.pc = "undoConfigure" /\ r.target = helper[h].target
      BY <2>2, GotoLemma DEF PC
    <3>2. Advances(helper[h], r, exe, exe')
      BY <2>1, <2>2, <3>1 DEF Advances, CanUndo
    <3> QED BY <1>2, <3>1, <3>2 DEF Goal
  <2>3. CASE /\ helper' = [helper EXCEPT ![h].pc = "undoConfigure", ![h].lost = TRUE]
             /\ UNCHANGED exe
    <3> DEFINE r == [helper[h] EXCEPT !.pc = "undoConfigure", !.lost = TRUE]
    <3>1. r \in HelperRec /\ r.pc = "undoConfigure" /\ r.target = helper[h].target
      BY <1>1 DEF HelperRec, PC
    <3>2. helper' = [helper EXCEPT ![h] = r]
      BY <1>1, <2>3
    <3> HIDE DEF r
    <3>3. Advances(helper[h], r, exe, exe')
      BY <2>1, <2>3, <3>1 DEF Advances, CanUndo
    <3> QED BY <1>2, <3>1, <3>2, <3>3 DEF Goal
  <2> QED BY <1>12, <2>2, <2>3 DEF RestoreExecutable
<1>13. CASE End(h) \/ Kill(h)
  <2>1. /\ helper' = [helper EXCEPT ![h] = Off] /\ Off \in HelperRec
        /\ Off.pc = "off" /\ UNCHANGED exe
    BY <1>13, OffKnows DEF End, Kill, Off, files
  <2>2. Advances(helper[h], Off, exe, exe')
    BY <2>1 DEF Advances
  <2> QED BY <1>2, <2>1, <2>2 DEF Goal
<1> QED BY <1>4, <1>5, <1>6, <1>7, <1>8, <1>9, <1>10, <1>11, <1>12, <1>13 DEF RunHelper, Goal

\* A step of a helper publishes nothing and starts no check.
LEMMA HelperLeaves ==
  ASSUME NEW h \in Helper, RunHelper(h) \/ Kill(h)
  PROVE  /\ published' = published
         /\ check' = check \/ check' = Idle
<1>1. CASE Kill(h)
  BY <1>1 DEF Kill
<1>2. CASE StopService(h) \/ StopServiceFails(h) \/ StopTray(h) \/ BackupExecutable(h)
  BY <1>2 DEF StopService, StopServiceFails, StopTray, BackupExecutable, agent, ProcessEnds
<1>3. CASE RunInstaller(h) \/ ApplyServiceConfiguration(h) \/ WaitHealthy(h) \/ Cleanup(h)
  BY <1>3 DEF RunInstaller, CloseService, ProcessEnds, ApplyServiceConfiguration, WaitHealthy,
              Cleanup, agent
<1>4. CASE StartService(h) \/ StartServiceFails(h)
  BY <1>4 DEF StartService, StartServiceFails, ProcessStarts, agent
<1>5. CASE RestoreExecutable(h) \/ End(h)
  BY <1>5 DEF RestoreExecutable, End, agent
<1> QED BY <1>1, <1>2, <1>3, <1>4, <1>5 DEF RunHelper

LEMMA HelperPublished ==
  ASSUME UpdateInv, UpdateInv', PublishedFirst, NEW h \in Helper, RunHelper(h) \/ Kill(h)
  PROVE  PublishedFirst'
<1>1. /\ helper \in [Helper -> HelperRec] /\ exe \in Version /\ exe' \in Version
      /\ published \in Version /\ published' = published
      /\ check' = check \/ check'.pc = "idle"
  BY HelperLeaves DEF UpdateInv, TypeOK, HelperRec, Idle
<1>2. check'.pc # "idle" => check'.version <= published'
  BY <1>1 DEF PublishedFirst
<1>3. CASE UNCHANGED <<helper, exe>>
  BY <1>1, <1>2, <1>3 DEF PublishedFirst
<1>4. ASSUME NEW r \in HelperRec, helper' = [helper EXCEPT ![h] = r],
             Advances(helper[h], r, exe, exe')
      PROVE  PublishedFirst'
  <2>1. helper[h] \in HelperRec /\ Ahead(helper[h], exe, published)
    BY <1>1 DEF PublishedFirst
  <2>2. Ahead(r, exe', published)
    BY <1>1, <1>4, <2>1, AdvancesAhead
  <2>3. exe' <= published
    <3>1. exe \in Int /\ published \in Int /\ helper[h].target \in Int /\ helper[h].prev \in Int
      BY <1>1, <2>1, VersionOrNone DEF HelperRec
    <3>2. exe <= published
      BY DEF PublishedFirst
    <3>3. CASE exe' = exe
      BY <3>2, <3>3
    <3>4. CASE helper[h].pc = "install" /\ exe' = helper[h].target
      BY <2>1, <3>1, <3>4 DEF Ahead
    <3>5. CASE helper[h].pc = "restore" /\ exe' = helper[h].prev
      BY <2>1, <3>1, <3>5 DEF Ahead, CanUndo
    <3> QED BY <1>4, <3>3, <3>4, <3>5 DEF Advances
  <2>4. ASSUME NEW k \in Helper
        PROVE  Ahead(helper'[k], exe', published)
    <3>1. CASE k = h
      BY <1>1, <1>4, <2>2, <3>1
    <3>2. CASE k # h /\ ~At(h, "off")
      <4>1. helper'[k] = helper[k] /\ helper[k].pc = "off"
        BY <1>1, <1>4, <3>2 DEF UpdateInv, OneHelper, At
      <4> QED BY <4>1 DEF Ahead, CanUndo
    <3>3. ~At(h, "off")
      BY DEF RunHelper, Kill, At, StopService, StopServiceFails, StopTray,
             BackupExecutable, RunInstaller, ApplyServiceConfiguration, StartService,
             StartServiceFails, Starting, WaitHealthy, Cleanup, RestoreExecutable, End
    <3> QED BY <3>1, <3>2, <3>3
  <2> QED BY <1>1, <1>2, <2>3, <2>4 DEF PublishedFirst
<1> QED BY <1>3, <1>4, HelperAdvances

\* A step of the server or of the service leaves the executable and, but for a
\* launch, the helpers alone.
LEMMA AsidePublished ==
  ASSUME UpdateInv, UpdateInv', PublishedFirst, UNCHANGED <<exe, helper>>,
         published' >= published,
         check'.pc # "idle" => check'.version <= published'
  PROVE  PublishedFirst'
<1>1. published \in Int /\ published' \in Int /\ exe \in Int
  BY VersionLemma DEF UpdateInv, TypeOK
<1>2. ASSUME NEW h \in Helper
      PROVE  Ahead(helper[h], exe, published')
  <2>1. helper[h].target \in Int /\ Ahead(helper[h], exe, published)
    BY VersionOrNone DEF UpdateInv, TypeOK, PublishedFirst
  <2> QED BY <1>1, <2>1 DEF Ahead
<1> QED BY <1>1, <1>2 DEF PublishedFirst

LEMMA LaunchPublished ==
  ASSUME UpdateInv, UpdateInv', PublishedFirst, NEW h \in Helper, LaunchApply(h)
  PROVE  PublishedFirst'
<1>1. /\ UNCHANGED <<exe, published>> /\ check'.pc = "idle"
      /\ check.version <= published /\ check.version > exe /\ exe <= published
      /\ check.version \in Int /\ exe \in Int /\ published \in Int
  BY VersionLemma
  DEF LaunchApply, files, Idle, UpdateInv, TypeOK, RunsInstalled, PublishedFirst
<1>2. CASE ~AcquireExecutionLock
  BY <1>1, <1>2, AsidePublished DEF LaunchApply
<1>3. CASE AcquireExecutionLock
  <2> DEFINE r == [Off EXCEPT !.pc = "stop", !.target = check.version]
  <2>1. r.pc = "stop" /\ r.target = check.version
    BY DEF Off
  <2>2. helper' = [helper EXCEPT ![h] = r]
    BY <1>3 DEF LaunchApply
  <2> HIDE DEF r
  <2>3. Ahead(r, exe, published)
    BY <1>1, <2>1 DEF Ahead, CanUndo
  <2>4. \A k \in Helper : helper'[k] = r \/ helper'[k] = helper[k]
    BY <2>2 DEF UpdateInv, TypeOK
  <2> QED BY <1>1, <2>3, <2>4 DEF PublishedFirst
<1> QED BY <1>2, <1>3

LEMMA PublishedStep ==
  UpdateInv /\ UpdateInv' /\ PublishedFirst /\ [Next]_vars => PublishedFirst'
<1> SUFFICES ASSUME UpdateInv, UpdateInv', PublishedFirst, [Next]_vars
             PROVE  PublishedFirst'
  OBVIOUS
<1>1. published \in Int /\ check.version \in Int /\ published >= published
  BY VersionOrNone DEF UpdateInv, TypeOK
<1>2. CASE UNCHANGED vars
  BY <1>2 DEF vars, PublishedFirst
<1>3. CASE Publish
  BY <1>1, <1>3, AsidePublished DEF Publish, files, agent, PublishedFirst
<1>4. CASE CheckRelease
  BY <1>1, <1>4, AsidePublished DEF CheckRelease, files
<1>5. CASE Stage \/ LaunchFails \/ PendingExpires \/ CheckPendingUpdater
             \/ PromotePendingUpdater
  <2>1. UNCHANGED <<published, exe, helper>>
    BY <1>5 DEF Stage, LaunchFails, PendingExpires, CheckPendingUpdater,
                PromotePendingUpdater, files
  <2>2. check'.pc # "idle" => check'.version = check.version /\ check.pc # "idle"
    BY <1>5 DEF Stage, LaunchFails, PendingExpires, CheckPendingUpdater,
                PromotePendingUpdater, Idle, UpdateInv, TypeOK
  <2> QED BY <1>1, <2>1, <2>2, AsidePublished DEF PublishedFirst
<1>6. ASSUME NEW h \in Helper, LaunchApply(h)
      PROVE  PublishedFirst'
  BY <1>6, LaunchPublished
<1>7. ASSUME NEW h \in Helper, RunHelper(h) \/ Kill(h)
      PROVE  PublishedFirst'
  BY <1>7, HelperPublished
<1>8. CASE ServiceStops \/ ServiceCrash \/ Recover
  <2>1. UNCHANGED <<published, exe, helper>>
    BY <1>8 DEF ServiceStops, ServiceCrash, Recover, files
  <2>2. check' = check \/ check' = Idle
    BY <1>8 DEF ServiceStops, ServiceCrash, Recover, ProcessStarts, ProcessEnds
  <2> QED BY <1>1, <2>1, <2>2, AsidePublished DEF PublishedFirst, Idle
<1>9. CASE Reboot
  <2>1. \A h \in Helper : helper'[h].pc = "off"
    BY <1>9 DEF Reboot, Off
  <2>2. UNCHANGED <<published, exe>> /\ check'.pc = "idle"
    BY <1>9 DEF Reboot, files, ProcessStarts, Idle
  <2> QED BY <2>1, <2>2 DEF PublishedFirst, Ahead, CanUndo
<1> QED BY <1>2, <1>3, <1>4, <1>5, <1>6, <1>7, <1>8, <1>9 DEF Next, Agent

\* Nothing older than what a device runs, and nothing the server has not
\* published, is ever on its way to it: not in the service's check, and not in
\* a helper that the service launched before it was restarted.
THEOREM PublishedInvariant == Spec => [](UpdateInv /\ PublishedFirst)
<1>1. Init => PublishedFirst
  BY UpdateAssumption DEF Init, PublishedFirst, Idle, Off, Ahead, CanUndo
<1> QED BY <1>1, PublishedStep, UpdateInvariant, PTL DEF Spec

\* AceAgent.exe changes only with the service not running: forward, from the
\* executable that the helper has backed up to a newer published release, or
\* back to that executable; whatever fails, is killed or restarted, and
\* whichever releases appear meanwhile.
THEOREM ExecutableOnlyMoves == Spec => ExecutableMoves
<1> DEFINE Moves ==
      exe' # exe =>
        /\ service' # "running"
        /\ \E h \in Helper :
             \/ /\ At(h, "install") /\ exe = helper[h].prev /\ exe' = helper[h].target
                /\ exe' > exe /\ exe' <= published
             \/ At(h, "restore") /\ exe = helper[h].target /\ exe' = helper[h].prev
<1>1. UpdateInv /\ PublishedFirst /\ [Next]_vars => [Moves]_vars
  <2> SUFFICES ASSUME UpdateInv, PublishedFirst, Next, exe' # exe
               PROVE  /\ service' # "running"
                      /\ \E h \in Helper :
                           \/ /\ At(h, "install") /\ exe = helper[h].prev
                              /\ exe' = helper[h].target
                              /\ exe' > exe /\ exe' <= published
                           \/ At(h, "restore") /\ exe = helper[h].target /\ exe' = helper[h].prev
    BY DEF vars
  <2>1. PICK h \in Helper : RunHelper(h) \/ Kill(h)
    BY DEF Next, Agent, Publish, CheckRelease, Stage, LaunchApply, LaunchFails,
           PendingExpires, CheckPendingUpdater, PromotePendingUpdater, ServiceStops,
           ServiceCrash, Recover, Reboot, files
  <2>2. RunInstaller(h) \/ RestoreExecutable(h)
    BY <2>1 DEF RunHelper, Kill, StopService, StopServiceFails, StopTray,
           BackupExecutable, ApplyServiceConfiguration, StartService,
           StartServiceFails, WaitHealthy, Cleanup, End, files
  <2>3. /\ Knows(helper[h], updater, backup, exe) /\ Ahead(helper[h], exe, published)
        /\ helper[h].pc \in CanUndo
    BY <2>2 DEF UpdateInv, HelpersKnow, PublishedFirst, RunInstaller, RestoreExecutable, At, CanUndo
  <2>4. /\ backup = helper[h].prev /\ exe \in {helper[h].prev, helper[h].target}
        /\ helper[h].target \in Version /\ helper[h].prev \in Version
        /\ helper[h].prev < helper[h].target /\ helper[h].target <= published
    BY <2>3 DEF Knows, Ahead, CanUndo
  <2>5. CASE RunInstaller(h)
    <3>1. installer[helper[h].target] # "bad" /\ installer[helper[h].target] \in {"none", "ok", "bad"}
      BY <2>4 DEF UpdateInv, StagedIsGood, TypeOK
    <3>2. At(h, "install") /\ exe' = helper[h].target /\ service' # "running"
      BY <2>5, <3>1 DEF RunInstaller, CloseService, ProcessEnds, agent
    <3>3. exe = helper[h].prev
      BY <2>4, <3>2
    <3> QED BY <2>4, <3>2, <3>3, VersionLemma
  <2>6. CASE RestoreExecutable(h)
    <3>1. At(h, "restore") /\ exe' = backup /\ service' # "running"
      BY <2>6 DEF RestoreExecutable, agent
    <3> QED BY <2>4, <3>1
  <2> QED BY <2>2, <2>5, <2>6
<1> QED BY <1>1, PublishedInvariant, PTL DEF Spec, ExecutableMoves

=============================================================================
