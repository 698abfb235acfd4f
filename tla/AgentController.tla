-------------------------- MODULE AgentController --------------------------
(***************************************************************************)
(* The life cycle of the Windows Agent: Controller                         *)
(* (agent/internal/controller) inside the Windows service                  *)
(* (agent/internal/windowsservice), driven over local IPC                  *)
(* (agent/internal/ipc) and by its own goroutines: the pairing polls, the  *)
(* update flights and the worker.                                          *)
(*                                                                         *)
(* A section under Controller.mu is one action.  launchGate is held over   *)
(* several: from the save of a configuration to the start of its worker,   *)
(* and while the update helper is launched.  A configuration is an         *)
(* identity the server issued, still pairing or enrolled; identities are   *)
(* numbered in the order they were issued.  Server addresses, versions and *)
(* error texts are left out.                                               *)
(***************************************************************************)
EXTENDS Integers

CONSTANTS
  MaxIds,       \* bound on the identities issued
  MaxFaults,    \* bound on crashes, stops and failed polls
  MaxFileFaults \* bound on failed saves and loads of the configuration

ASSUME ControllerAssumption ==
  MaxIds \in Nat /\ MaxFaults \in Nat /\ MaxFileFaults \in Nat

VARIABLES
  disk,        \* the configuration file
  \* the server
  nextId,      \* the next identity it issues
  decision,    \* [Id -> what became of its pairing]
  overdue,     \* pairings past their ExpiresAt
  \* the service process
  phase,       \* down, serving, stopping (context cancelled) or draining (shuttingDown)
  config,      \* Controller.config
  status,      \* Controller.status: the state and the identity it is about
  generation,  \* Controller.generation
  gate,        \* who holds launchGate
  request,     \* the Enroll or StartPairing that holds enrollmentMu
  restart,     \* the RestartWorker under way
  polls,       \* [Gen -> the pairing poll of the generation]
  flights,     \* [Gen -> the update flight of the generation]
  pending,     \* an update helper was launched less than UpdatePendingTTL ago
  worker,      \* the configuration of the current worker
  retired,     \* the configurations of replaced workers that have not ended
  \* bound and history
  faults,      \* [crashes, stops and polls; file operations]
  recent       \* this process launched a helper less than UpdatePendingTTL ago

vars == <<disk, nextId, decision, overdue, phase, config, status, generation, gate,
          request, restart, polls, flights, pending, worker, retired, faults, recent>>

serverVars == <<nextId, decision, overdue>>
updateVars == <<flights, pending, recent>>
workerVars == <<worker, retired>>

Id  == 1..MaxIds
Gen == 1..(2 * MaxIds + 1)   \* an identity activates at most two configurations

Config   == [kind : {"pairing", "enrolled"}, id : Id] \cup {[kind |-> "none", id |-> 0]}
NoConfig == [kind |-> "none", id |-> 0]
Pairing(i)  == [kind |-> "pairing", id |-> i]
Enrolled(i) == [kind |-> "enrolled", id |-> i]

\* The states of the status; "worker" is what a worker is said to do: starting,
\* online, error or stopped.
State  == {"worker", "waiting", "degraded", "pairing_recovery", "waiting_for_approval",
           "pairing_rejected", "pairing_expired", "error", "updating"}
Status == [state : State, id : Id \cup {0}]
Shows(state, i) == [state |-> state, id |-> i]   \* i is 0 unless it is about a pairing
OfWorker == Shows("worker", 0)

NoRequest == [at |-> "none", config |-> NoConfig]
NoPoll    == [at |-> "none", id |-> 0]
NoFlight  == [at |-> "none", config |-> NoConfig]

Init ==
  /\ disk = NoConfig /\ nextId = 1 /\ decision = [i \in Id |-> "none"] /\ overdue = {}
  /\ phase = "down" /\ config = NoConfig /\ status = OfWorker
  /\ generation = 1 /\ gate = "free" /\ request = NoRequest /\ restart = NoRequest
  /\ polls = [g \in Gen |-> NoPoll] /\ flights = [g \in Gen |-> NoFlight]
  /\ pending = FALSE /\ worker = NoConfig /\ retired = {} /\ faults = [run |-> 0, file |-> 0] /\ recent = FALSE

Up == phase # "down"
ShuttingDown == phase = "draining"

\* The context of generation g: cancelled by the next generation, and with the
\* service's own context.
Done(g) == g # generation \/ phase # "serving"

Fault == faults.run < MaxFaults /\ faults' = [faults EXCEPT !.run = @ + 1]
FileFault == faults.file < MaxFileFaults /\ faults' = [faults EXCEPT !.file = @ + 1]

\* Mutant: launchGate does not exclude.
GateFreeAlways == TRUE

\* launchGate can be acquired.
GateFree == gate = "free"

(***************************************************************************)
(* Activation of a configuration and the worker.                           *)
(***************************************************************************)
\* activateConfigurationLocked.  The flight of an older generation is
\* forgotten, not ended.
Activate(c, shown) ==
  /\ generation' = generation + 1 /\ config' = c /\ pending' = FALSE /\ status' = shown

\* startWorker: the current worker is cancelled, not awaited.
StartWorker(c) ==
  IF ShuttingDown THEN UNCHANGED <<worker, retired, status>>
  ELSE /\ retired' = retired \cup ({worker} \ {NoConfig})
       /\ worker' = c
       /\ status' = OfWorker

\* A report of the current worker, or of one that is being cancelled.
ReportStatus(c) ==
  /\ Up /\ c \in {worker} \cup retired /\ c # NoConfig
  /\ status' = OfWorker
  /\ UNCHANGED <<disk, serverVars, phase, config, generation, gate, request, restart, polls,
                 updateVars, workerVars, faults>>

\* A cancelled worker reports that it stopped and ends.
RetiredEnds(c) ==
  /\ c \in retired /\ retired' = retired \ {c}
  /\ status' = OfWorker
  /\ UNCHANGED <<disk, serverVars, phase, config, generation, gate, request, restart, polls,
                 updateVars, worker, faults>>

WorkerEnds ==
  /\ worker # NoConfig /\ phase \in {"stopping", "draining"}
  /\ worker' = NoConfig /\ status' = OfWorker
  /\ UNCHANGED <<disk, serverVars, phase, config, generation, gate, request, restart, polls,
                 updateVars, retired, faults>>

(***************************************************************************)
(* Bootstrap, before anything else of the process runs.                    *)
(***************************************************************************)
Bootstrap ==
  /\ phase = "down" /\ phase' = "serving" /\ generation' = 1
  /\ \/ /\ disk = NoConfig
        /\ status' = Shows("waiting", 0) /\ UNCHANGED <<config, polls, worker, faults>>
     \/ /\ disk # NoConfig /\ FileFault   \* the file cannot be read
        /\ status' = Shows("degraded", 0) /\ UNCHANGED <<config, polls, worker>>
     \/ /\ disk.kind = "pairing" /\ config' = disk /\ UNCHANGED <<worker, faults>>
        /\ IF disk.id \in overdue
             THEN status' = Shows("pairing_expired", disk.id) /\ UNCHANGED polls
             ELSE /\ status' = Shows("pairing_recovery", disk.id)
                  /\ polls' = [polls EXCEPT ![1] = [at |-> "timer", id |-> disk.id]]
     \/ /\ disk.kind = "enrolled" /\ config' = disk /\ worker' = disk
        /\ status' = OfWorker /\ UNCHANGED <<polls, faults>>
  /\ UNCHANGED <<disk, serverVars, gate, request, restart, updateVars, retired>>

(***************************************************************************)
(* Enroll and StartPairing: a call to the server, then save, activate and  *)
(* start under launchGate.                                                 *)
(***************************************************************************)
Request(kind) ==
  /\ phase = "serving" /\ request = NoRequest /\ ~pending
  /\ request' = [at |-> "call", config |-> [kind |-> kind, id |-> 0]]
  /\ UNCHANGED <<disk, serverVars, phase, config, status, generation, gate, restart, polls,
                 updateVars, workerVars, faults>>

RequestEnds == request' = NoRequest /\ UNCHANGED <<disk, gate>>

\* Mutant: an answer without an identity is taken.
CompleteAny(i) == TRUE

\* The answer names an identity.
Complete(i) == i # 0

\* The server's answer, possibly incomplete, or an error.
RequestAnswered ==
  /\ request.at = "call"
  /\ \/ /\ nextId \in Id /\ nextId' = nextId + 1
        /\ decision' = IF request.config.kind = "pairing"
                         THEN [decision EXCEPT ![nextId] = "pending"] ELSE decision
        /\ \E i \in {0, nextId} :
             IF Complete(i)
               THEN /\ request' = [at |-> "gate", config |-> [request.config EXCEPT !.id = i]]
                    /\ UNCHANGED <<disk, gate>>
               ELSE RequestEnds
     \/ RequestEnds /\ UNCHANGED <<nextId, decision>>
  /\ UNCHANGED <<overdue, phase, config, status, generation, restart, polls,
                 updateVars, workerVars, faults>>

\* Mutant: hasPendingUpdate is not asked again under the gate.
MaySaveUnchecked == TRUE

\* The second hasPendingUpdate, under the gate.
MaySave == ~pending

\* launchGate and SaveConfig.  The request ends instead when an update is
\* pending, the save fails, or its own context (a deadline, or a stop) is over
\* before it gets the gate; a request whose context is over may still get it.
RequestSave ==
  /\ request.at = "gate"
  /\ \/ /\ GateFree /\ MaySave /\ gate' = "request" /\ disk' = request.config
        /\ request' = [request EXCEPT !.at = "saved"]
     \/ RequestEnds
  /\ UNCHANGED faults
  /\ UNCHANGED <<serverVars, phase, config, status, generation, restart, polls, updateVars,
                 workerVars>>

RequestActivate ==
  LET c == request.config
  IN
  /\ request.at = "saved"
  /\ \/ /\ c.kind = "pairing" /\ Activate(c, Shows("waiting_for_approval", c.id))
        /\ polls' = [polls EXCEPT ![generation + 1] = [at |-> "timer", id |-> c.id]]
        /\ gate' = "free" /\ request' = NoRequest
     \/ /\ c.kind = "enrolled" /\ Activate(c, OfWorker)
        /\ request' = [request EXCEPT !.at = "activated"] /\ UNCHANGED <<polls, gate>>
  /\ UNCHANGED <<disk, serverVars, phase, restart, flights, recent, workerVars, faults>>

RequestStart ==
  /\ request.at = "activated" /\ StartWorker(request.config)
  /\ gate' = "free" /\ request' = NoRequest
  /\ UNCHANGED <<disk, serverVars, phase, config, generation, restart, polls, updateVars, faults>>

(***************************************************************************)
(* RestartWorker reads the configuration and then starts its worker.       *)
(***************************************************************************)
RestartRead ==
  /\ phase = "serving" /\ restart = NoRequest /\ config.kind = "enrolled"
  /\ restart' = [at |-> "start", config |-> config]
  /\ UNCHANGED <<disk, serverVars, phase, config, status, generation, gate, request, polls,
                 updateVars, workerVars, faults>>

RestartStart ==
  /\ restart.at = "start" /\ StartWorker(restart.config) /\ restart' = NoRequest
  /\ UNCHANGED <<disk, serverVars, phase, config, generation, gate, request, polls, updateVars,
                 faults>>

(***************************************************************************)
(* The pairing poll of a generation.                                       *)
(***************************************************************************)
PollAt(g, at) == polls' = [polls EXCEPT ![g].at = at]
PollEnds(g) == polls' = [polls EXCEPT ![g] = NoPoll]

\* Mutant: a poll that decided nothing is not repeated.
PollAgainNever(g) == PollEnds(g)

\* timer.Reset, and the next round of the loop: the timer cannot have fired
\* yet, so a cancelled poll ends.
PollAgain(g) == IF Done(g) THEN PollEnds(g) ELSE PollAt(g, "timer")

\* Mutant: a poll acts whatever configuration is active.
IsCurrentAlways(g) == TRUE

\* The pairing of this poll is still the active configuration.
IsCurrent(g) == generation = g /\ config = Pairing(polls[g].id) /\ ~ShuttingDown

\* setPairingTerminalState, and the poll ends.
Verdict(g, state) ==
  /\ status' = IF IsCurrent(g) THEN Shows(state, config.id) ELSE status
  /\ PollEnds(g)

PollUnchanged ==
  UNCHANGED <<serverVars, phase, config, generation, request, restart, updateVars, workerVars>>

PollFires(g) ==
  /\ polls[g].at = "timer"
  /\ \/ Done(g) /\ PollEnds(g) /\ UNCHANGED status
     \/ polls[g].id \in overdue /\ Verdict(g, "pairing_expired")
     \/ PollAt(g, "call") /\ UNCHANGED status   \* not expired by the device's clock
  /\ PollUnchanged /\ UNCHANGED <<disk, gate, faults>>

\* PollPairing returns; an error that decides nothing is retried.
PollAnswers(g) ==
  LET d == decision[polls[g].id]
  IN
  /\ polls[g].at = "call"
  /\ \/ d = "pending" /\ PollAgain(g) /\ UNCHANGED <<status, faults>>
     \/ d = "approved" /\ PollAt(g, "approved") /\ UNCHANGED <<status, faults>>
     \/ d = "rejected" /\ Verdict(g, "pairing_rejected") /\ UNCHANGED faults
     \/ /\ d = "pending" /\ polls[g].id \in overdue
        /\ Verdict(g, "pairing_expired") /\ UNCHANGED faults
     \/ Done(g) /\ PollAgain(g) /\ UNCHANGED <<status, faults>>
     \/ ~Done(g) /\ Fault /\ PollAgain(g) /\ UNCHANGED status
  /\ PollUnchanged /\ UNCHANGED <<disk, gate>>

\* approvePairing: launchGate, the check that the pairing is current, SaveConfig.
ApproveSave(g) ==
  /\ polls[g].at = "approved"
  /\ \/ /\ GateFree /\ IsCurrent(g)
        /\ \/ /\ disk' = Enrolled(polls[g].id) /\ gate' = "poll" /\ PollAt(g, "saved")
              /\ UNCHANGED <<status, faults>>
           \/ FileFault /\ Verdict(g, "error") /\ UNCHANGED <<disk, gate>>
     \/ /\ (GateFree /\ ~IsCurrent(g)) \/ Done(g)
        /\ PollEnds(g) /\ UNCHANGED <<disk, gate, status, faults>>
  /\ PollUnchanged

ApproveActivate(g) ==
  /\ polls[g].at = "saved"
  /\ \/ /\ IsCurrent(g)
        /\ Activate(Enrolled(polls[g].id), OfWorker)
        /\ PollAt(g, "activated") /\ UNCHANGED gate
     \/ /\ ~IsCurrent(g) /\ PollEnds(g) /\ gate' = "free"
        /\ UNCHANGED <<generation, config, pending, status>>
  /\ UNCHANGED <<disk, serverVars, phase, request, restart, flights, recent, workerVars, faults>>

ApproveStart(g) ==
  /\ polls[g].at = "activated" /\ StartWorker(Enrolled(polls[g].id))
  /\ gate' = "free" /\ PollEnds(g)
  /\ UNCHANGED <<disk, serverVars, phase, config, generation, request, restart, updateVars, faults>>

(***************************************************************************)
(* Update checks: one flight per generation, whose helper launch needs the *)
(* gate.                                                                   *)
(***************************************************************************)
FlightUnchanged ==
  UNCHANGED <<disk, serverVars, phase, config, generation, request, restart, polls, workerVars,
              faults>>

FlightAt(g, at) == flights' = [flights EXCEPT ![g].at = at]

\* CheckUpdate, from IPC or the scheduler: joins the flight of the generation,
\* repeats a pending result, or starts a flight.  Without a server address the
\* check fails at once.
CheckUpdate ==
  /\ phase \in {"serving", "stopping"} /\ GateFree /\ config.kind = "enrolled"
  /\ flights[generation] = NoFlight /\ ~pending
  /\ flights' = [flights EXCEPT ![generation] = [at |-> "check", config |-> config]]
  /\ FlightUnchanged /\ UNCHANGED <<status, gate, pending, recent>>

\* ProcessClient.Check.
FlightChecked(g) ==
  /\ flights[g].at = "check"
  /\ FlightAt(g, "end") \/ FlightAt(g, "authorize")
  /\ FlightUnchanged /\ UNCHANGED <<status, gate, pending, recent>>

\* Mutants: the generation is not compared; a pending helper does not matter.
MayLaunchAnyGeneration(g) == ~ShuttingDown /\ ~pending
MayLaunchAgain(g) == ~ShuttingDown /\ g = generation

MayLaunch(g) == ~ShuttingDown /\ g = generation /\ ~pending

\* Mutant: a refused launch keeps the gate.
AuthorizeKeepsGate(g) ==
  /\ flights[g].at = "authorize" /\ GateFree
  /\ gate' = "flight"
  /\ IF MayLaunch(g) THEN FlightAt(g, "launch") ELSE FlightAt(g, "end")
  /\ FlightUnchanged /\ UNCHANGED <<status, pending, recent>>

\* authorizeUpdateLaunch: the gate stays held until finish.
Authorize(g) ==
  /\ flights[g].at = "authorize" /\ GateFree
  /\ IF MayLaunch(g) THEN FlightAt(g, "launch") /\ gate' = "flight"
     ELSE FlightAt(g, "end") /\ UNCHANGED gate
  /\ FlightUnchanged /\ UNCHANGED <<status, pending, recent>>

\* LaunchApply and finish.
Launch(g) ==
  /\ flights[g].at = "launch" /\ FlightAt(g, "end") /\ gate' = "free"
  /\ \/ /\ status' = Shows("updating", 0)
        /\ pending' = TRUE /\ recent' = TRUE
     \/ UNCHANGED <<status, pending, recent>>
  /\ FlightUnchanged

\* The end of executeUpdateFlight.
FlightEnds(g) ==
  /\ flights[g].at = "end" /\ GateFree
  /\ flights' = [flights EXCEPT ![g] = NoFlight]
  /\ FlightUnchanged /\ UNCHANGED <<status, gate, pending, recent>>

\* UpdatePendingTTL passes.
PendingExpires ==
  /\ recent /\ recent' = FALSE /\ pending' = FALSE
  /\ UNCHANGED flights /\ FlightUnchanged /\ UNCHANGED <<status, gate>>

(***************************************************************************)
(* The service: stop, shutdown, crash; and the server's side of pairing.   *)
(***************************************************************************)
\* The service is told to stop: the service's context is cancelled, IPC drains its handlers.
Stop ==
  /\ phase = "serving" /\ Fault /\ phase' = "stopping"
  /\ UNCHANGED <<disk, serverVars, config, status, generation, gate, request, restart, polls,
                 updateVars, workerVars>>

\* Shutdown, once every IPC handler has returned and the gate is free.
Shutdown ==
  /\ phase = "stopping" /\ request = NoRequest /\ restart = NoRequest /\ GateFree
  /\ phase' = "draining"
  /\ UNCHANGED <<disk, serverVars, config, status, generation, gate, request, restart, polls,
                 updateVars, workerVars, faults>>

Quiet ==
  /\ worker = NoConfig /\ retired = {}
  /\ \A g \in Gen : polls[g] = NoPoll /\ flights[g] = NoFlight

Exit ==
  /\ phase' = "down" /\ config' = NoConfig /\ status' = OfWorker
  /\ generation' = 1 /\ gate' = "free" /\ request' = NoRequest /\ restart' = NoRequest
  /\ polls' = [g \in Gen |-> NoPoll] /\ flights' = [g \in Gen |-> NoFlight]
  /\ pending' = FALSE /\ worker' = NoConfig /\ retired' = {} /\ recent' = FALSE
  /\ UNCHANGED <<disk, serverVars>>

\* workerGroup.Wait returned.
ShutdownDone == phase = "draining" /\ Quiet /\ Exit /\ UNCHANGED faults

\* The 15 seconds of Shutdown are over, or the process dies.
Crash == Up /\ Fault /\ Exit

\* Somebody still asks for the pairing.
Wanted(i) == disk = Pairing(i) \/ \E g \in Gen : polls[g].id = i

\* The Owner approves or rejects a pairing.
Decide(i, d) ==
  /\ decision[i] = "pending" /\ Wanted(i) /\ decision' = [decision EXCEPT ![i] = d]
  /\ UNCHANGED <<disk, nextId, overdue, phase, config, status, generation, gate, request,
                 restart, polls, updateVars, workerVars, faults>>

\* ExpiresAt passes.
Expire(i) ==
  /\ decision[i] # "none" /\ Wanted(i) /\ i \notin overdue /\ overdue' = overdue \cup {i}
  /\ UNCHANGED <<disk, nextId, decision, phase, config, status, generation, gate, request,
                 restart, polls, updateVars, workerVars, faults>>

RequestStep == RequestAnswered \/ RequestSave \/ RequestActivate \/ RequestStart
PollStep(g) ==
  PollFires(g) \/ PollAnswers(g) \/ ApproveSave(g) \/ ApproveActivate(g) \/ ApproveStart(g)
FlightStep(g) == FlightChecked(g) \/ Authorize(g) \/ Launch(g) \/ FlightEnds(g)
WorkerStep == WorkerEnds \/ \E c \in retired : RetiredEnds(c)

Next ==
  \/ Bootstrap \/ Stop \/ Shutdown \/ ShutdownDone \/ Crash
  \/ \E kind \in {"pairing", "enrolled"} : Request(kind)
  \/ RequestStep \/ RestartRead \/ RestartStart
  \/ CheckUpdate \/ PendingExpires
  \/ \E g \in Gen : PollStep(g) \/ FlightStep(g)
  \/ WorkerStep \/ \E c \in {worker} \cup retired : ReportStatus(c)
  \/ \E i \in Id, d \in {"approved", "rejected"} : Decide(i, d)
  \/ \E i \in Id : Expire(i)

Spec == Init /\ [][Next]_vars

(***************************************************************************)
(* Fairness: goroutines run, a call returns, a cancelled worker ends, the  *)
(* service is started again.  Shutdown has strong fairness: update checks  *)
(* may take launchGate before it again and again, and a channel serves its *)
(* receivers in order.                                                     *)
(***************************************************************************)
FairSpec ==
  /\ Spec
  /\ WF_vars(Bootstrap) /\ SF_vars(Shutdown) /\ WF_vars(ShutdownDone)
  /\ WF_vars(RequestStep) /\ WF_vars(RestartStart) /\ WF_vars(WorkerStep)
  /\ \A g \in Gen : WF_vars(PollStep(g)) /\ WF_vars(FlightStep(g))

(***************************************************************************)
(* Properties.                                                             *)
(***************************************************************************)
\* Type invariant: every variable keeps the type of its field.
TypeOK ==
  /\ disk \in Config /\ config \in Config /\ nextId \in 1..(MaxIds + 1)
  /\ decision \in [Id -> {"none", "pending", "approved", "rejected"}] /\ overdue \subseteq Id
  /\ phase \in {"down", "serving", "stopping", "draining"} /\ status \in Status
  /\ generation \in Gen /\ gate \in {"free", "request", "poll", "flight"}
  /\ request.at \in {"none", "call", "gate", "saved", "activated"}
  /\ restart.at \in {"none", "start"} /\ restart.config \in Config
  /\ \A g \in Gen :
       /\ polls[g].at \in {"none", "timer", "call", "approved", "saved", "activated"}
       /\ flights[g].at \in {"none", "check", "authorize", "launch", "end"}
       /\ flights[g].config \in Config
  /\ pending \in BOOLEAN /\ recent \in BOOLEAN
  /\ worker \in Config /\ retired \subseteq Config
  /\ faults \in [run : 0..MaxFaults, file : 0..MaxFileFaults]

\* A pairing shown as rejected or expired is the active one, and the server or
\* the clock said so: no poll of an earlier generation reports on a later
\* pairing (setPairingTerminalState).
VerdictIsReal ==
  /\ status.state = "pairing_rejected" =>
       config = Pairing(status.id) /\ decision[status.id] = "rejected"
  /\ status.state = "pairing_expired" =>
       config = Pairing(status.id) /\ status.id \in overdue

\* While a helper is launched, the configuration it was authorised for is the
\* active and the saved one: no switch slips in between the check of the
\* generation and the launch (launchGate).
LaunchUnderConfig ==
  \A g \in Gen : flights[g].at = "launch" =>
    g = generation /\ config = flights[g].config /\ disk = config

\* Between the save of a configuration and its activation nothing else saves
\* or launches, so the saved configuration is the one that becomes active.
SavedIsActive ==
  Up /\ gate = "free" /\ config # NoConfig => disk = config

\* A configuration is not switched, and no second helper is launched, within
\* UpdatePendingTTL of a launch (hasPendingUpdate, authorizeUpdateLaunch).
QuietAfterLaunch ==
  [][recent /\ recent' => disk' = disk /\ \A g \in Gen : flights'[g].at # "launch"]_vars

\* The saved identity is never replaced by one issued earlier: an approval
\* that arrives for an abandoned pairing is dropped, whenever it arrives.
NewestIdentity == [][disk'.id >= disk.id]_vars

\* A stopped service comes down by itself, without the timeout of Shutdown:
\* nobody keeps launchGate, and every goroutine notices its context.
StopCompletes == phase = "stopping" ~> phase = "down"

\* An approved pairing ends in an enrolled configuration, through crashes,
\* restarts and failed polls, unless it expires or is replaced first (a failed
\* save ends the poll until the next start, so saves succeed here).
ApprovedIsEnrolled ==
  \A i \in Id :
    disk = Pairing(i) /\ decision[i] = "approved" ~> disk # Pairing(i) \/ i \in overdue
=============================================================================
