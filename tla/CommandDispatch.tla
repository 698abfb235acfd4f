-------------------------- MODULE CommandDispatch --------------------------
(***************************************************************************)
(* The remote command centre: the PostgreSQL command queue                 *)
(* (internal/postgres/commands.go), the HTTP calls that drive it           *)
(* (internal/api/router.go, agent/internal/agent/client.go), and the       *)
(* Agent's command worker (agent/internal/app/command_worker.go) with its  *)
(* executor (agent/internal/command).                                      *)
(*                                                                         *)
(* A store method is one action: it is one transaction, or one guarded     *)
(* UPDATE.  Calls are requests in a network that delays or loses them, and *)
(* whose answers may be lost; a request the Agent gave up on may still     *)
(* reach the server.  Time is the server's clock; a device's clock differs *)
(* from it by Skew.                                                        *)
(***************************************************************************)
EXTENDS Integers

CONSTANTS
  Tasks,          \* ids of command_tasks rows
  Nodes,          \* ids of Windows nodes
  Slots,          \* worker incarnations that can coexist on a device
  NoExec,         \* no execution
  LeaseDuration,  \* commandLeaseDuration (35 minutes)
  Timeout,        \* timeout_seconds of a command (at most 30 minutes)
  Skew,           \* device clock minus server clock
  MaxFaults       \* bound on crashes, restarts, lost calls and slow workers

Exec   == Tasks \X Nodes   \* command_executions, UNIQUE (task_id, node_id)
Worker == Nodes \X Slots   \* the workers that may run on each device

ASSUME DispatchAssumption ==
  /\ NoExec \notin Exec
  /\ LeaseDuration \in Nat \ {0}
  /\ Timeout \in Nat \ {0}
  /\ Skew \in Int
  /\ MaxFaults \in Nat

VARIABLES
  \* command_tasks and command_executions
  tasks,         \* the command_tasks rows that exist
  created_at,    \* [Tasks -> time]
  retried_from,  \* [Tasks -> set with the source task, or {}]
  status,        \* [Exec -> Status]; "absent" is a row that does not exist
  attempt,       \* [Exec -> Nat]
  lease,         \* [Exec -> lease token hash; 0 is NULL]
  expires,       \* [Exec -> lease_expires_at; 0 is NULL]
  result,        \* [Exec -> the completion columns; "none" is unset]
  nextLease,     \* the next fresh opaque lease token
  clock,         \* the server's clock
  \* the network
  net,           \* requests sent and not yet handled
  answer,        \* [Worker -> the answer on its way to the waiting worker]
  \* the devices
  pc,            \* [Worker -> where its loop is]
  cancelled,     \* [Worker -> its context is cancelled]
  job,           \* [Worker -> the claim it works on]
  done,          \* [Worker -> the completion it reports]
  deadline,      \* [Worker -> when its process times out]
  procs,         \* the command processes alive on the devices
  \* bound and history
  faults,        \* faults so far
  launches,      \* [Exec -> processes ever started for it]
  outcome,       \* [Exec -> how its process ended]
  acked          \* [Exec -> the completion the server acknowledged]

taskVars   == <<tasks, created_at, retried_from>>
rowVars    == <<status, attempt, lease, expires, result, nextLease>>
workerVars == <<pc, cancelled, job, done, deadline, procs, launches, outcome, acked>>
vars == <<tasks, created_at, retried_from, status, attempt, lease, expires,
          result, nextLease, clock, net, answer, pc, cancelled, job, done,
          deadline, procs, faults, launches, outcome, acked>>

Outcome  == {"succeeded", "failed", "timed_out"}
Terminal == Outcome
Status   == {"absent", "queued", "leased", "running"} \cup Terminal
NoJob    == [exec |-> NoExec, lease |-> 0, expires |-> 0]
Job      == [exec : Exec \cup {NoExec}, lease : Nat, expires : Nat]
PC       == {"off", "idle", "claimWait", "start", "startWait", "execute",
             "complete", "completeWait"}
Request  == [kind : {"claim", "start", "complete"}, worker : Worker,
             exec : Exec \cup {NoExec}, lease : Nat,
             outcome : Outcome \cup {"none"}]

NodeOf(x) == x[2]          \* the device of an execution
DeviceOf(w) == w[1]        \* the device of a worker
AgentNow == clock + Skew   \* time.Now() on the device

Init ==
  /\ tasks = {} /\ created_at = [t \in Tasks |-> 0]
  /\ retried_from = [t \in Tasks |-> {}]
  /\ status = [e \in Exec |-> "absent"] /\ attempt = [e \in Exec |-> 0]
  /\ lease = [e \in Exec |-> 0] /\ expires = [e \in Exec |-> 0]
  /\ result = [e \in Exec |-> "none"]
  /\ nextLease = 1 /\ clock = 0 /\ net = {}
  /\ answer = [w \in Worker |-> "none"]
  /\ pc = [w \in Worker |-> "off"]
  /\ cancelled = [w \in Worker |-> FALSE]
  /\ job = [w \in Worker |-> NoJob]
  /\ done = [w \in Worker |-> "none"]
  /\ deadline = [w \in Worker |-> 0]
  /\ procs = {} /\ faults = 0
  /\ launches = [e \in Exec |-> 0]
  /\ outcome = [e \in Exec |-> "none"] /\ acked = [e \in Exec |-> "none"]

(***************************************************************************)
(* The Owner's requests.                                                   *)
(***************************************************************************)
\* insertCommand: the task and one queued execution per target, in the
\* caller's transaction.
InsertCommand(t, targets, source) ==
  /\ t \notin tasks
  /\ tasks' = tasks \cup {t}
  /\ created_at' = [created_at EXCEPT ![t] = clock]
  /\ retried_from' = [retried_from EXCEPT ![t] = source]
  /\ status' = [e \in Exec |->
                  IF e[1] = t /\ NodeOf(e) \in targets THEN "queued" ELSE status[e]]
  /\ UNCHANGED <<attempt, lease, expires, result, nextLease, clock, net,
                 answer, faults, workerVars>>

CreateCommand(t, targets) == targets # {} /\ InsertCommand(t, targets, {})

\* Mutant: retries every device that has not succeeded.
RetryTargetsUnfinished(s) ==
  {n \in Nodes : status[<<s, n>>] \notin {"absent", "succeeded"}}

\* The devices on which a task failed or timed out.
RetryTargets(s) == {n \in Nodes : status[<<s, n>>] \in {"failed", "timed_out"}}

RetryCommand(t, s) ==
  /\ s \in tasks
  /\ RetryTargets(s) # {}
  /\ InsertCommand(t, RetryTargets(s), {s})

(***************************************************************************)
(* The store's handlers of the Agent's calls.  An answer reaches the       *)
(* worker only if it still waits for that very call.                       *)
(***************************************************************************)
WaitOf(kind) == CASE kind = "claim" -> "claimWait"
                  [] kind = "start" -> "startWait"
                  [] OTHER -> "completeWait"

Awaited(r) ==
  /\ pc[r.worker] = WaitOf(r.kind)
  /\ job[r.worker].lease = r.lease
  /\ answer[r.worker] = "none"

Reply(r, a) ==
  /\ net' = net \ {r}
  /\ answer' = IF Awaited(r) THEN [answer EXCEPT ![r.worker] = a] ELSE answer

\* Rows of device n whose lease ran out, by status.
Expired(n, s) ==
  {e \in Exec : NodeOf(e) = n /\ status[e] = s /\ expires[e] <= clock}

\* Mutant: the sweep uses a status the schema does not know.
SweptStatusUnknown(n) ==
  [e \in Exec |-> IF e \in Expired(n, "running") THEN "expired" ELSE status[e]]

\* Mutant: the sweep queues started rows again.
SweptStatusRequeue(n) ==
  [e \in Exec |-> IF e \in Expired(n, "running") \cup Expired(n, "leased")
                    THEN "queued" ELSE status[e]]

\* Mutant: the sweep fails every started row with an old lease, decided or not.
SweptStatusAll(n) ==
  [e \in Exec |-> CASE /\ NodeOf(e) = n /\ expires[e] <= clock
                       /\ status[e] \in {"running"} \cup Terminal -> "failed"
                    [] e \in Expired(n, "leased") -> "queued"
                    [] OTHER -> status[e]]

\* Mutant: the sweep forgets the leased rows.
SweptStatusNoRecovery(n) ==
  [e \in Exec |-> IF e \in Expired(n, "running") THEN "failed" ELSE status[e]]

\* What the sweep at the head of ClaimCommand makes of the rows of device n: a
\* running row fails and keeps its lease, a leased row is queued again.
SweptStatus(n) ==
  [e \in Exec |-> CASE e \in Expired(n, "running") -> "failed"
                    [] e \in Expired(n, "leased")  -> "queued"
                    [] OTHER -> status[e]]

\* The queued rows ClaimCommand may select: those of the oldest task (the
\* order of ids of equally old tasks is arbitrary).
Claimable(n) ==
  LET queued == {e \in Exec : NodeOf(e) = n /\ SweptStatus(n)[e] = "queued"}
  IN  {e \in queued : \A f \in queued : created_at[e[1]] <= created_at[f[1]]}

Cleared(f, n) == [e \in Exec |-> IF e \in Expired(n, "leased") THEN 0 ELSE f[e]]

\* ClaimCommand: one transaction that sweeps the device's expired rows and
\* leases the oldest queued one under a fresh token.
ClaimCommand(r) ==
  LET n == DeviceOf(r.worker)
  IN
  /\ r \in net /\ r.kind = "claim"
  /\ \/ /\ Claimable(n) = {}
        /\ status' = SweptStatus(n)
        /\ lease' = Cleared(lease, n) /\ expires' = Cleared(expires, n)
        /\ Reply(r, "empty")
        /\ UNCHANGED <<attempt, nextLease, job>>
     \/ \E e \in Claimable(n) :
          /\ status' = [SweptStatus(n) EXCEPT ![e] = "leased"]
          /\ attempt' = [attempt EXCEPT ![e] = @ + 1]
          /\ lease' = [Cleared(lease, n) EXCEPT ![e] = nextLease]
          /\ expires' = [Cleared(expires, n) EXCEPT ![e] = clock + LeaseDuration]
          /\ nextLease' = nextLease + 1
          /\ Reply(r, "claimed")
          /\ job' = IF Awaited(r)
                      THEN [job EXCEPT ![r.worker] =
                              [exec |-> e, lease |-> nextLease,
                               expires |-> clock + LeaseDuration]]
                      ELSE job
  /\ UNCHANGED <<result, clock, faults, taskVars, pc, cancelled, done,
                 deadline, procs, launches, outcome, acked>>

\* Mutant: the lease token is not compared.
LeaseValidNoToken(r) ==
  expires[r.exec] > clock /\ status[r.exec] \in {"leased", "running"}

\* The guard StartCommand and CompleteCommand share.
LeaseValid(r) ==
  /\ lease[r.exec] = r.lease
  /\ expires[r.exec] > clock
  /\ status[r.exec] \in {"leased", "running"}

StartCommand(r) ==
  /\ r \in net /\ r.kind = "start"
  /\ \/ /\ LeaseValid(r)
        /\ status' = [status EXCEPT ![r.exec] = "running"]
        /\ Reply(r, "ok")
     \/ /\ ~LeaseValid(r)
        /\ Reply(r, "rejected")
        /\ UNCHANGED status
  /\ UNCHANGED <<attempt, lease, expires, result, nextLease, clock, faults,
                 taskVars, workerVars>>

\* Mutant: compares the status alone.
SameCompletionStatus(r) ==
  lease[r.exec] = r.lease /\ status[r.exec] = r.outcome

\* sameCommandCompletion: the stored row is the result of this very request.
SameCompletion(r) ==
  lease[r.exec] = r.lease /\ status[r.exec] = r.outcome /\ result[r.exec] = r.outcome

CompleteCommand(r) ==
  /\ r \in net /\ r.kind = "complete"
  /\ \/ /\ LeaseValid(r)
        /\ status' = [status EXCEPT ![r.exec] = r.outcome]
        /\ result' = [result EXCEPT ![r.exec] = r.outcome]
        /\ Reply(r, "ok")
     \/ /\ ~LeaseValid(r)
        /\ Reply(r, IF SameCompletion(r) THEN "ok" ELSE "rejected")
        /\ UNCHANGED <<status, result>>
  /\ UNCHANGED <<attempt, lease, expires, nextLease, clock, faults,
                 taskVars, workerVars>>

(***************************************************************************)
(* The worker's loop: CommandWorker.Run, start, complete and Execute.      *)
(***************************************************************************)
Live(n) == {w \in Worker : DeviceOf(w) = n /\ pc[w] # "off" /\ ~cancelled[w]}

RequestOf(w, kind) ==
  [kind |-> kind, worker |-> w, exec |-> job[w].exec, lease |-> job[w].lease,
   outcome |-> done[w]]

\* A worker issues a call; with a cancelled context the client sends nothing.
Send(w, kind, from) ==
  /\ pc[w] = from /\ ~cancelled[w]
  /\ net' = net \cup {RequestOf(w, kind)}
  /\ answer' = [answer EXCEPT ![w] = "none"]
  /\ pc' = [pc EXCEPT ![w] = WaitOf(kind)]
  /\ UNCHANGED <<rowVars, taskVars, clock, cancelled, job, done, deadline,
                 procs, faults, launches, outcome, acked>>

SendClaim(w)    == Send(w, "claim", "idle")
SendStart(w)    == Send(w, "start", "start")
SendComplete(w) == Send(w, "complete", "complete")

\* Back to the head of the loop, the claim dropped.
Loop(w) ==
  /\ pc' = [pc EXCEPT ![w] = "idle"]
  /\ job' = [job EXCEPT ![w] = NoJob]
  /\ done' = [done EXCEPT ![w] = "none"]
  /\ answer' = [answer EXCEPT ![w] = "none"]

\* The claim arrives.  The client refuses one whose lease is over by the
\* device's clock.
ReceiveClaim(w) ==
  /\ pc[w] = "claimWait" /\ answer[w] \in {"empty", "claimed"}
  /\ \/ /\ answer[w] = "claimed" /\ job[w].expires > AgentNow
        /\ pc' = [pc EXCEPT ![w] = "start"]
        /\ answer' = [answer EXCEPT ![w] = "none"]
        /\ UNCHANGED <<job, done>>
     \/ /\ answer[w] = "empty" \/ job[w].expires <= AgentNow
        /\ Loop(w)
  /\ UNCHANGED <<rowVars, taskVars, clock, net, cancelled, deadline, procs,
                 faults, launches, outcome, acked>>

\* start returned true: Execute launches the process, even when the context
\* was cancelled meanwhile; or the process cannot be started.
ReceiveStart(w) ==
  /\ pc[w] = "startWait" /\ answer[w] \in {"ok", "rejected"}
  /\ \/ /\ answer[w] = "rejected"
        /\ Loop(w)
        /\ UNCHANGED <<procs, launches, deadline, outcome>>
     \/ /\ answer[w] = "ok"
        /\ pc' = [pc EXCEPT ![w] = "execute"]
        /\ answer' = [answer EXCEPT ![w] = "none"]
        /\ procs' = procs \cup {[exec |-> job[w].exec, lease |-> job[w].lease]}
        /\ launches' = [launches EXCEPT ![job[w].exec] = @ + 1]
        /\ deadline' = [deadline EXCEPT ![w] = clock + Timeout]
        /\ UNCHANGED <<job, done, outcome>>
     \/ /\ answer[w] = "ok"
        /\ pc' = [pc EXCEPT ![w] = "complete"]
        /\ answer' = [answer EXCEPT ![w] = "none"]
        /\ done' = [done EXCEPT ![w] = "failed"]
        /\ outcome' = [outcome EXCEPT ![job[w].exec] = "failed"]
        /\ UNCHANGED <<job, procs, launches, deadline>>
  /\ UNCHANGED <<rowVars, taskVars, clock, net, cancelled, faults, acked>>

\* Execute returns: the process ended, or was killed at its timeout or when
\* the context was cancelled.
Outcomes(w) ==
  (IF clock >= deadline[w] THEN {"timed_out"} ELSE {})
    \cup (IF cancelled[w] THEN {"failed"} ELSE {"succeeded", "failed"})

ExecuteReturns(w) ==
  /\ pc[w] = "execute"
  /\ \E o \in Outcomes(w) :
       /\ done' = [done EXCEPT ![w] = o]
       /\ outcome' = [outcome EXCEPT ![job[w].exec] = o]
  /\ procs' = procs \ {[exec |-> job[w].exec, lease |-> job[w].lease]}
  /\ pc' = [pc EXCEPT ![w] = "complete"]
  /\ UNCHANGED <<rowVars, taskVars, clock, net, answer, cancelled, job,
                 deadline, faults, launches, acked>>

ReceiveComplete(w) ==
  /\ pc[w] = "completeWait" /\ answer[w] \in {"ok", "rejected"}
  /\ acked' = IF answer[w] = "ok"
                THEN [acked EXCEPT ![job[w].exec] = done[w]] ELSE acked
  /\ Loop(w)
  /\ UNCHANGED <<rowVars, taskVars, clock, net, cancelled, deadline, procs,
                 faults, launches, outcome>>

\* A call that failed is repeated while the lease lasts by the device's clock
\* and the context is not cancelled; a failed claim goes back to the loop.
RetryOrDrop(w) ==
  IF pc[w] = "claimWait" \/ cancelled[w] \/ AgentNow >= job[w].expires
    THEN Loop(w)
    ELSE /\ pc' = [pc EXCEPT ![w] = IF pc[w] = "startWait" THEN "start" ELSE "complete"]
         /\ answer' = [answer EXCEPT ![w] = "none"]
         /\ UNCHANGED <<job, done>>

Waiting(w) == pc[w] \in {"claimWait", "startWait", "completeWait"}

\* The call fails: the network lost the request or its answer, the client's
\* timeout expired, or the server answered with an error.  The request may
\* still be handled later.
CallFails(w) ==
  /\ Waiting(w) /\ ~cancelled[w] /\ faults < MaxFaults
  /\ faults' = faults + 1
  /\ net' \in {net, net \ {r \in net : r.worker = w}}
  /\ RetryOrDrop(w)
  /\ UNCHANGED <<rowVars, taskVars, clock, cancelled, deadline, procs,
                 launches, outcome, acked>>

\* A cancelled context ends the call under way, the wait between two calls, a
\* call about to be sent, and then the loop.
Cancelled(w) ==
  /\ cancelled[w] /\ pc[w] \notin {"off", "execute"}
  /\ IF pc[w] = "idle"
       THEN pc' = [pc EXCEPT ![w] = "off"] /\ UNCHANGED <<job, done, answer>>
       ELSE Loop(w)
  /\ UNCHANGED <<rowVars, taskVars, clock, net, cancelled, deadline, procs,
                 faults, launches, outcome, acked>>

(***************************************************************************)
(* The worker's life: Controller.startWorker, Shutdown, a crash of the     *)
(* Agent process, and time.                                                *)
(***************************************************************************)
\* startWorker cancels the previous worker without waiting for it.  Starting a
\* worker where one is live (RestartWorker, a new enrolment) counts as a fault.
StartWorker(w) ==
  LET live == Live(DeviceOf(w))
  IN
  /\ pc[w] = "off"
  /\ live # {} => faults < MaxFaults
  /\ faults' = IF live = {} THEN faults ELSE faults + 1
  /\ pc' = [pc EXCEPT ![w] = "idle"]
  /\ cancelled' = [v \in Worker |->
                     IF v = w THEN FALSE ELSE v \in live \/ cancelled[v]]
  /\ UNCHANGED <<rowVars, taskVars, clock, net, answer, job, done, deadline,
                 procs, launches, outcome, acked>>

\* The service is stopped: Shutdown cancels the worker.
StopService(n) ==
  /\ Live(n) # {} /\ faults < MaxFaults
  /\ faults' = faults + 1
  /\ cancelled' = [v \in Worker |-> v \in Live(n) \/ cancelled[v]]
  /\ UNCHANGED <<rowVars, taskVars, clock, net, answer, pc, job, done,
                 deadline, procs, launches, outcome, acked>>

\* The Agent process dies.  Its command process is in no job object, so it
\* outlives the Agent.
Crash(n) ==
  /\ faults < MaxFaults /\ \E w \in Worker : DeviceOf(w) = n /\ pc[w] # "off"
  /\ faults' = faults + 1
  /\ pc' = [w \in Worker |-> IF DeviceOf(w) = n THEN "off" ELSE pc[w]]
  /\ job' = [w \in Worker |-> IF DeviceOf(w) = n THEN NoJob ELSE job[w]]
  /\ done' = [w \in Worker |-> IF DeviceOf(w) = n THEN "none" ELSE done[w]]
  /\ answer' = [w \in Worker |-> IF DeviceOf(w) = n THEN "none" ELSE answer[w]]
  /\ UNCHANGED <<rowVars, taskVars, clock, net, cancelled, deadline, procs,
                 launches, outcome, acked>>

Supervised(p) ==
  \E w \in Worker : pc[w] = "execute" /\ job[w].exec = p.exec /\ job[w].lease = p.lease

\* A process left behind by a crash ends by itself.
OrphanExits(p) ==
  /\ p \in procs /\ ~Supervised(p)
  /\ procs' = procs \ {p}
  /\ UNCHANGED <<rowVars, taskVars, clock, net, answer, pc, cancelled, job,
                 done, deadline, faults, launches, outcome, acked>>

\* A live worker holds a lease that the next tick of the clock ends.
Slow ==
  \E w \in Worker :
    /\ pc[w] \notin {"off", "idle"} /\ ~cancelled[w]
    /\ job[w].exec # NoExec /\ job[w].expires = clock + 1

\* Time passes while some lease or process depends on it; a process does not
\* outlive its timeout.  Being slow enough to lose a lease counts as a fault.
Tick ==
  /\ \/ \E e \in Exec : status[e] \in {"leased", "running"} /\ expires[e] > clock
     \/ \E w \in Worker : pc[w] = "execute"
  /\ \A w \in Worker : pc[w] = "execute" => clock < deadline[w]
  /\ Slow => faults < MaxFaults
  /\ faults' = IF Slow THEN faults + 1 ELSE faults
  /\ clock' = clock + 1
  /\ UNCHANGED <<rowVars, taskVars, net, answer, workerVars>>

Serve(r) == ClaimCommand(r) \/ StartCommand(r) \/ CompleteCommand(r)

WorkerStep(w) ==
  \/ SendClaim(w) \/ SendStart(w) \/ SendComplete(w)
  \/ ReceiveClaim(w) \/ ReceiveStart(w) \/ ReceiveComplete(w)
  \/ ExecuteReturns(w) \/ Cancelled(w)

Next ==
  \/ \E t \in Tasks, targets \in SUBSET Nodes : CreateCommand(t, targets)
  \/ \E t, s \in Tasks : RetryCommand(t, s)
  \/ \E r \in net : Serve(r)
  \/ \E w \in Worker : WorkerStep(w) \/ CallFails(w) \/ StartWorker(w)
  \/ \E n \in Nodes : StopService(n) \/ Crash(n)
  \/ \E p \in procs : OrphanExits(p)
  \/ Tick

Spec == Init /\ [][Next]_vars

(***************************************************************************)
(* Fairness: goroutines keep running, an awaited request is handled, time  *)
(* passes, and the service manager brings a worker back where none lives   *)
(* (automatic start and recovery actions of the Windows service).          *)
(***************************************************************************)
ServeAwaited(w) == \E r \in net : r.worker = w /\ Awaited(r) /\ Serve(r)
Recover(n) == Live(n) = {} /\ \E w \in Worker : DeviceOf(w) = n /\ StartWorker(w)

FairSpec ==
  /\ Spec
  /\ \A w \in Worker : WF_vars(WorkerStep(w)) /\ WF_vars(ServeAwaited(w))
  /\ \A n \in Nodes : WF_vars(Recover(n))
  /\ WF_vars(Tick)

(***************************************************************************)
(* Properties.                                                             *)
(***************************************************************************)
\* Type invariant: every variable keeps the type of its column, request or
\* worker field.
TypeOK ==
  /\ tasks \in SUBSET Tasks
  /\ created_at \in [Tasks -> Nat]
  /\ retried_from \in [Tasks -> SUBSET Tasks]
  /\ status \in [Exec -> Status]
  /\ attempt \in [Exec -> Nat]
  /\ lease \in [Exec -> Nat]
  /\ expires \in [Exec -> Nat]
  /\ result \in [Exec -> Outcome \cup {"none"}]
  /\ nextLease \in Nat /\ clock \in Nat
  /\ net \in SUBSET Request
  /\ answer \in [Worker -> {"none", "empty", "claimed", "ok", "rejected"}]
  /\ pc \in [Worker -> PC]
  /\ cancelled \in [Worker -> BOOLEAN]
  /\ job \in [Worker -> Job]
  /\ done \in [Worker -> Outcome \cup {"none"}]
  /\ deadline \in [Worker -> Nat]
  /\ procs \in SUBSET [exec : Exec, lease : Nat]
  /\ faults \in Nat
  /\ launches \in [Exec -> Nat]
  /\ outcome \in [Exec -> Outcome \cup {"none"}]
  /\ acked \in [Exec -> Outcome \cup {"none"}]

\* At most one process is ever started for an execution, whatever calls are
\* lost or late, leases expire, and workers crash or overlap: ClaimCommand
\* queues again only rows StartCommand never accepted, and a row is only
\* started under the lease of its last claim.
AtMostOnce == \A e \in Exec : launches[e] <= 1

\* A process exists only for an execution the store has recorded as started
\* ("start, then launch"), so a crash always leaves a row the sweep fails and
\* never one it queues again.
LaunchedIsRecorded ==
  \A e \in Exec : launches[e] > 0 => status[e] \in {"running"} \cup Terminal

\* The completion columns hold what the execution's own process did: no late,
\* repeated or foreign report is ever stored.
StoredResultIsReal ==
  \A e \in Exec :
    result[e] # "none" => result[e] = outcome[e] /\ status[e] = result[e]

\* A completion the worker saw acknowledged is the one in the store, even when
\* the acknowledgement came from the idempotent path of CompleteCommand.
AckedResultIsStored ==
  \A e \in Exec : acked[e] # "none" => result[e] = acked[e]

\* A retry task targets exactly devices on which its source ended failed or
\* timed out, and this stays so (RetryCommand reads it once).
RetryOnlyFailures ==
  \A t \in tasks : \A s \in retried_from[t] : \A n \in Nodes :
    status[<<t, n>>] # "absent" => status[<<s, n>>] \in {"failed", "timed_out"}

\* The status of an execution only moves along the life cycle of the design:
\* a started row is never queued again and a terminal row never changes, its
\* stored completion included.
LifeCycleStep ==
  \A e \in Exec :
    /\ status[e] = "running" => status'[e] \in {"running"} \cup Terminal
    /\ status[e] \in Terminal => status'[e] = status[e] /\ result'[e] = result[e]
    /\ status[e] # "absent" => status'[e] # "absent"

LifeCycle == [][LifeCycleStep]_vars

\* Every execution the Owner creates is eventually decided: the device claims
\* it, and lost calls, crashes and abandoned leases only delay it.
EventuallyDecided ==
  \A e \in Exec : status[e] # "absent" ~> status[e] \in Terminal

\* Design: "Agent 每台设备同时最多执行一个远程命令" (a device runs at most one
\* remote command at a time).
OneCommandPerDevice ==
  \A p, q \in procs : NodeOf(p.exec) = NodeOf(q.exec) => p = q

(***************************************************************************)
(* The abstract command centre that this one implements.                   *)
(***************************************************************************)
\* What a row tells the Owner.  A row the sweep failed has no completion.
PhaseOf(e) ==
  CASE status[e] \in {"queued", "leased"} -> "open"
    [] status[e] = "running" -> "started"
    [] status[e] = "failed" /\ result[e] = "none" -> "lost"
    [] OTHER -> status[e]

Phases == [e \in Exec |-> PhaseOf(e)]

Once == INSTANCE CommandOnce
          WITH Job <- Exec, phase <- Phases, runs <- launches, ended <- outcome

\* The queue and the workers together implement the abstract command centre:
\* seen from the rows, the processes and their results, every claim, sweep,
\* start, completion, lost call, crash and restart is a step of it, or none.
ImplementsOnce == Once!Spec
=============================================================================
