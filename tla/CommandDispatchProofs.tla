----------------------- MODULE CommandDispatchProofs -----------------------
(***************************************************************************)
(* Machine-checked proofs about CommandDispatch, for any number of tasks,  *)
(* devices, overlapping workers and faults, and any clock skew.            *)
(*                                                                         *)
(* The inductive invariant IInv follows a lease token through the system:  *)
(* it is fresh when ClaimCommand issues it, at most one worker ever holds  *)
(* it, the worker whose StartCommand was accepted holds the token of the   *)
(* row, and a row with a process or a result has no other worker that      *)
(* could still start it.                                                   *)
(***************************************************************************)
EXTENDS CommandDispatch, TLAPS

Started  == {"running"} \cup Terminal

\* The worker holds a claim.
Holds(w) ==
  \/ pc[w] \in {"start", "startWait", "execute", "complete", "completeWait"}
  \/ pc[w] = "claimWait" /\ answer[w] = "claimed"

\* The worker's start was accepted.
MayRun(w) ==
  \/ pc[w] \in {"execute", "complete", "completeWait"}
  \/ pc[w] = "startWait" /\ answer[w] = "ok"

\* The worker holds the lease that row e has now.
Owns(w, e) == Holds(w) /\ job[w].exec = e /\ job[w].lease = lease[e]

\* Tokens in use were issued, and a token has one holder.
TokenInv ==
  /\ nextLease > 0
  /\ \A e \in Exec : lease[e] < nextLease
  /\ \A r \in net : r.lease < nextLease
  /\ \A w \in Worker :
       /\ job[w].lease < nextLease
       /\ Holds(w) => job[w].exec \in Exec /\ job[w].lease > 0
       /\ ~Holds(w) => job[w].lease = 0
  /\ \A v, w \in Worker :
       Holds(v) /\ Holds(w) /\ job[v].lease = job[w].lease => v = w

\* Which rows have a lease.
RowInv ==
  \A e \in Exec :
    /\ status[e] \in {"absent", "queued"} => lease[e] = 0
    /\ status[e] \in {"leased"} \cup Started => lease[e] > 0

\* A request names the execution of the claim it was sent under.
NetInv ==
  \A r \in net :
    /\ r.kind # "claim" => r.exec \in Exec /\ r.lease > 0
    /\ r.kind # "claim" =>
         \A w \in Worker : Holds(w) /\ job[w].lease = r.lease => job[w].exec = r.exec
    /\ r.kind = "complete" =>
         /\ r.outcome \in Outcome /\ r.outcome = outcome[r.exec]
         /\ lease[r.exec] = r.lease /\ status[r.exec] \in Started

\* A worker that may run owns a started row.
StartInv ==
  \A w \in Worker :
    MayRun(w) => Owns(w, job[w].exec) /\ status[job[w].exec] \in Started

\* A row with a process has one launch, and its owner is past the start.
LaunchInv ==
  \A e \in Exec : launches[e] # 0 =>
    /\ launches[e] = 1 /\ status[e] \in Started
    /\ \A w \in Worker : Owns(w, e) => pc[w] \in {"execute", "complete", "completeWait"}

\* A row whose process ended has an owner that only reports.
OutcomeInv ==
  /\ \A e \in Exec : outcome[e] # "none" =>
       /\ status[e] \in Started
       /\ \A w \in Worker : Owns(w, e) => pc[w] \in {"complete", "completeWait"}
  /\ \A w \in Worker : pc[w] \in {"complete", "completeWait"} =>
       done[w] \in Outcome /\ done[w] = outcome[job[w].exec]

\* Stored and acknowledged completions.
ResultInv ==
  /\ StoredResultIsReal
  /\ \A w \in Worker :
       pc[w] = "completeWait" /\ answer[w] = "ok" => result[job[w].exec] = done[w]
  /\ AckedResultIsStored

\* A task that does not exist has no rows.
TaskInv ==
  \A t \in Tasks : t \notin tasks => \A n \in Nodes : status[<<t, n>>] = "absent"

IInv == TypeOK /\ TokenInv /\ RowInv /\ NetInv /\ StartInv /\ LaunchInv
          /\ OutcomeInv /\ ResultInv /\ TaskInv /\ RetryOnlyFailures

-----------------------------------------------------------------------------
\* What the sweep leaves of a row: started rows stay started under their lease,
\* and a row is queued without one.
LEMMA SweepLemma ==
  ASSUME TypeOK, NEW n \in Nodes
  PROVE  /\ SweptStatus(n) \in [Exec -> Status]
         /\ Cleared(lease, n) \in [Exec -> Nat]
         /\ Cleared(expires, n) \in [Exec -> Nat]
         /\ \A e \in Exec :
              /\ status[e] \in Terminal => SweptStatus(n)[e] = status[e]
              /\ status[e] \in Started =>
                   SweptStatus(n)[e] \in Started /\ Cleared(lease, n)[e] = lease[e]
              /\ status[e] \notin Started => SweptStatus(n)[e] \notin Started
              /\ status[e] = "absent" <=> SweptStatus(n)[e] = "absent"
              /\ SweptStatus(n)[e] = "leased" =>
                   status[e] = "leased" /\ Cleared(lease, n)[e] = lease[e]
              /\ SweptStatus(n)[e] = "queued" =>
                   \/ status[e] = "queued" /\ Cleared(lease, n)[e] = lease[e]
                   \/ status[e] = "leased" /\ Cleared(lease, n)[e] = 0
              /\ Cleared(lease, n)[e] \in {0, lease[e]}
<1>1. Exec = Exec /\ \A e \in Exec : e \in Expired(n, "leased") => status[e] = "leased"
  BY DEF Expired
<1>2. \A e \in Exec : e \in Expired(n, "running") => status[e] = "running"
  BY DEF Expired
<1> QED
  BY <1>1, <1>2 DEF TypeOK, SweptStatus, Cleared, Started, Terminal, Outcome, Status

\* A request comes from a device.
LEMMA DeviceLemma ==
  ASSUME NEW w \in Worker
  PROVE  DeviceOf(w) \in Nodes
BY DEF Worker, DeviceOf

-----------------------------------------------------------------------------
\* A step of the workers alone: the rows stay, and each worker stands still,
\* drops its claim, or keeps it without changing which side of the launch and
\* of the report it is on.
Keeps(w) ==
  /\ pc'[w] = pc[w] /\ job'[w] = job[w] /\ done'[w] = done[w] /\ answer'[w] = answer[w]

Drops(w) ==
  /\ pc'[w] \in {"off", "idle"} \/ (pc'[w] = "claimWait" /\ answer'[w] = "none")
  /\ job'[w].lease = 0

Carries(w) ==
  /\ Holds(w) /\ job'[w] = job[w] /\ done'[w] = done[w] /\ answer'[w] = "none"
  /\ \/ /\ pc[w] \in {"claimWait", "start", "startWait"}
        /\ pc'[w] \in {"start", "startWait"}
     \/ pc[w] \in {"complete", "completeWait"} /\ pc'[w] \in {"complete", "completeWait"}

\* A request a worker may add to the network.
Sent(r) ==
  \/ r.kind = "claim" /\ r.lease = 0
  \/ \E w \in Worker :
       /\ r.kind = "start" \/ (r.kind = "complete" /\ pc[w] = "complete")
       /\ Holds(w) /\ r.exec = job[w].exec /\ r.lease = job[w].lease
       /\ r.outcome = done[w]

\* Such a step of the workers keeps the invariant.
LEMMA WorkerMove ==
  ASSUME IInv, TypeOK', UNCHANGED <<tasks, retried_from, launches, outcome, rowVars>>,
         \A w \in Worker : Keeps(w) \/ Drops(w) \/ Carries(w),
         \A r \in net' : r \in net \/ Sent(r),
         \A e \in Exec : acked'[e] \in {acked[e], result[e]}
  PROVE  IInv'
<1> USE DEF rowVars
<1>1. \A w \in Worker :
        /\ Holds(w)' => Holds(w) /\ job'[w] = job[w]
        /\ ~Holds(w)' => job'[w].lease = 0
        /\ MayRun(w)' => MayRun(w)
  <2> TAKE w \in Worker
  <2>1. CASE Keeps(w)
    BY <2>1 DEF Keeps, IInv, TokenInv, Holds, MayRun
  <2>2. CASE Drops(w)
    BY <2>2 DEF Drops, Holds, MayRun
  <2>3. CASE Carries(w)
    BY <2>3 DEF Carries, Holds, MayRun
  <2> QED BY <2>1, <2>2, <2>3
<1>2. TokenInv'
  <2>1. \A r \in net' : r.lease < nextLease
    BY DEF Sent, IInv, TokenInv
  <2> QED BY <1>1, <2>1 DEF IInv, TokenInv
<1>3. RowInv'
  BY DEF IInv, RowInv
<1>4. NetInv'
  <2> SUFFICES ASSUME NEW r \in net', r.kind # "claim"
               PROVE  /\ r.exec \in Exec /\ r.lease > 0
                      /\ \A w \in Worker : Holds(w) /\ job[w].lease = r.lease => job[w].exec = r.exec
                      /\ r.kind = "complete" =>
                           /\ r.outcome \in Outcome /\ r.outcome = outcome[r.exec]
                           /\ lease[r.exec] = r.lease /\ status[r.exec] \in Started
    BY <1>1 DEF NetInv
  <2>1. CASE r \in net
    BY <2>1 DEF IInv, NetInv
  <2>2. CASE Sent(r)
    <3>1. PICK w \in Worker :
            /\ r.kind = "start" \/ (r.kind = "complete" /\ pc[w] = "complete")
            /\ Holds(w) /\ r.exec = job[w].exec /\ r.lease = job[w].lease
            /\ r.outcome = done[w]
      BY <2>2 DEF Sent
    <3>2. r.exec \in Exec /\ r.lease > 0
      BY <3>1 DEF IInv, TokenInv
    <3>3. \A v \in Worker : Holds(v) /\ job[v].lease = r.lease => job[v].exec = r.exec
      BY <3>1 DEF IInv, TokenInv
    <3>4. r.kind = "complete" =>
            /\ r.outcome \in Outcome /\ r.outcome = outcome[r.exec]
            /\ lease[r.exec] = r.lease /\ status[r.exec] \in Started
      BY <3>1 DEF IInv, OutcomeInv, StartInv, MayRun, Owns
    <3> QED BY <3>2, <3>3, <3>4
  <2> QED BY <2>1, <2>2
<1>5. StartInv'
  BY <1>1 DEF IInv, StartInv, Owns, MayRun, Holds
<1>6. \A w \in Worker :
        /\ Holds(w)' /\ pc[w] \in {"execute", "complete", "completeWait"}
             => pc'[w] \in {"execute", "complete", "completeWait"}
        /\ Holds(w)' /\ pc[w] \in {"complete", "completeWait"}
             => pc'[w] \in {"complete", "completeWait"}
        /\ pc'[w] \in {"complete", "completeWait"} =>
             /\ pc[w] \in {"complete", "completeWait"} /\ done'[w] = done[w]
             /\ job'[w] = job[w]
        /\ pc'[w] = "completeWait" /\ answer'[w] = "ok" => pc[w] = "completeWait" /\ answer[w] = "ok"
  BY DEF Keeps, Drops, Carries, Holds
<1>7. LaunchInv'
  BY <1>1, <1>6 DEF IInv, LaunchInv, Owns
<1>8. OutcomeInv'
  BY <1>1, <1>6 DEF IInv, OutcomeInv, Owns
<1>9. ResultInv'
  <2>1. StoredResultIsReal'
    BY DEF IInv, ResultInv, StoredResultIsReal
  <2>2. AckedResultIsStored'
    BY DEF IInv, ResultInv, AckedResultIsStored
  <2> QED
    BY <1>6, <2>1, <2>2 DEF IInv, ResultInv
<1>10. TaskInv' /\ RetryOnlyFailures'
  BY DEF IInv, TaskInv, RetryOnlyFailures
<1> QED
  BY <1>2, <1>3, <1>4, <1>5, <1>7, <1>8, <1>9, <1>10 DEF IInv

-----------------------------------------------------------------------------
\* Types, action by action.
LEMMA TypeInit == Init => TypeOK
BY DispatchAssumption DEF Init, TypeOK, Status, Outcome, Terminal, NoJob, Job, PC

\* The head of the loop leaves every worker field in its type.
LEMMA LoopType ==
  ASSUME TypeOK, NEW w \in Worker, Loop(w)
  PROVE  /\ pc' \in [Worker -> PC] /\ job' \in [Worker -> Job]
         /\ done' \in [Worker -> Outcome \cup {"none"}]
         /\ answer' \in [Worker -> {"none", "empty", "claimed", "ok", "rejected"}]
BY DEF TypeOK, Loop, PC, Job, NoJob

\* A cleared claim.
LEMMA LoopMove ==
  ASSUME TypeOK, NEW w \in Worker, Loop(w)
  PROVE  Drops(w) /\ \A v \in Worker : v # w => Keeps(v)
BY DEF TypeOK, Loop, Drops, Keeps, NoJob

\* A call is sent with the lease the worker holds and the outcome it reports.
LEMMA SendStep ==
  ASSUME IInv, NEW w \in Worker, SendClaim(w) \/ SendStart(w) \/ SendComplete(w)
  PROVE  IInv'
<1> USE DEF taskVars, rowVars, workerVars
<1>0. PICK kind \in {"claim", "start", "complete"}, from \in {"idle", "start", "complete"} :
        /\ Send(w, kind, from)
        /\ \/ kind = "claim" /\ from = "idle" /\ WaitOf(kind) = "claimWait"
           \/ kind = "start" /\ from = "start" /\ WaitOf(kind) = "startWait"
           \/ kind = "complete" /\ from = "complete" /\ WaitOf(kind) = "completeWait"
  BY DEF SendClaim, SendStart, SendComplete, WaitOf
<1>1. RequestOf(w, kind) \in Request
  BY DEF RequestOf, Request, IInv, TypeOK, Job
<1>2. TypeOK'
  BY <1>0, <1>1 DEF Send, IInv, TypeOK, PC
<1>3. \A v \in Worker : Keeps(v) \/ Drops(v) \/ Carries(v)
  <2>1. \A v \in Worker : v # w => Keeps(v)
    BY <1>0 DEF Send, Keeps, IInv, TypeOK
  <2>2. kind = "claim" => Drops(w)
    BY <1>0 DEF Send, Drops, IInv, TypeOK, TokenInv, Holds
  <2>3. kind # "claim" => Carries(w)
    BY <1>0 DEF Send, Carries, IInv, TypeOK, Holds
  <2> QED BY <2>1, <2>2, <2>3
<1>4. Sent(RequestOf(w, kind))
  <2>1. kind = "claim" => job[w].lease = 0
    BY <1>0 DEF Send, IInv, TokenInv, Holds
  <2>2. kind # "claim" => Holds(w) /\ (kind = "complete" => pc[w] = "complete")
    BY <1>0 DEF Send, Holds
  <2>3. /\ RequestOf(w, kind).kind = kind /\ RequestOf(w, kind).exec = job[w].exec
        /\ RequestOf(w, kind).lease = job[w].lease /\ RequestOf(w, kind).outcome = done[w]
    BY DEF RequestOf
  <2>4. CASE kind = "claim"
    BY <2>1, <2>3, <2>4 DEF Sent
  <2>5. CASE kind # "claim"
    BY <1>0, <2>2, <2>3, <2>5 DEF Sent
  <2> QED BY <2>4, <2>5
<1>5. net' = net \cup {RequestOf(w, kind)}
  BY <1>0 DEF Send
<1>6. UNCHANGED <<tasks, retried_from, launches, outcome, rowVars, acked>>
  BY <1>0 DEF Send
<1>7. \A r \in net' : r \in net \/ Sent(r)
  BY <1>4, <1>5
<1> QED BY <1>2, <1>3, <1>6, <1>7, WorkerMove

\* A claim that arrives is carried into start, or dropped as over.
LEMMA ReceiveClaimStep ==
  ASSUME IInv, NEW w \in Worker, ReceiveClaim(w)
  PROVE  IInv'
<1> USE DEF taskVars, rowVars, workerVars
<1>1. CASE Loop(w)
  <2>1. TypeOK'
    BY <1>1, LoopType DEF ReceiveClaim, IInv, TypeOK
  <2>2. \A v \in Worker : Keeps(v) \/ Drops(v)
    BY <1>1, LoopMove DEF IInv
  <2> QED BY <2>1, <2>2, WorkerMove DEF ReceiveClaim
<1>2. CASE answer[w] = "claimed" /\ pc' = [pc EXCEPT ![w] = "start"]
             /\ answer' = [answer EXCEPT ![w] = "none"] /\ UNCHANGED <<job, done>>
  <2>1. TypeOK'
    BY <1>2 DEF ReceiveClaim, IInv, TypeOK, PC
  <2>2. \A v \in Worker : Keeps(v) \/ Carries(v)
    BY <1>2 DEF ReceiveClaim, Keeps, Carries, Holds, IInv, TypeOK
  <2> QED BY <2>1, <2>2, WorkerMove DEF ReceiveClaim
<1> QED BY <1>1, <1>2 DEF ReceiveClaim

\* The acknowledgement of a completion matches what the store holds.
LEMMA ReceiveCompleteStep ==
  ASSUME IInv, NEW w \in Worker, ReceiveComplete(w)
  PROVE  IInv'
<1> USE DEF taskVars, rowVars, workerVars
<1>1. TypeOK'
  <2>1. acked' \in [Exec -> Outcome \cup {"none"}]
    BY DEF ReceiveComplete, IInv, TypeOK
  <2> QED BY <2>1, LoopType DEF ReceiveComplete, IInv, TypeOK
<1>2. \A v \in Worker : Keeps(v) \/ Drops(v)
  BY LoopMove DEF IInv, ReceiveComplete
<1>3. \A e \in Exec : acked'[e] \in {acked[e], result[e]}
  BY DEF ReceiveComplete, IInv, TypeOK, ResultInv
<1> QED BY <1>1, <1>2, <1>3, WorkerMove DEF ReceiveComplete

\* A failed call is repeated under the same claim or the claim is dropped; the
\* request it leaves behind is one the store still answers soundly.
LEMMA CallFailsStep ==
  ASSUME IInv, NEW w \in Worker, CallFails(w)
  PROVE  IInv'
<1> USE DEF taskVars, rowVars, workerVars
<1>0. net' \subseteq net
  BY DEF CallFails
<1>1. CASE Loop(w)
  <2>1. TypeOK'
    BY <1>0, <1>1, LoopType DEF CallFails, IInv, TypeOK
  <2>2. \A v \in Worker : Keeps(v) \/ Drops(v)
    BY <1>1, LoopMove DEF IInv
  <2> QED BY <1>0, <2>1, <2>2, WorkerMove DEF CallFails
<1>2. CASE ~(pc[w] = "claimWait" \/ cancelled[w] \/ AgentNow >= job[w].expires)
  <2>0. /\ pc' = [pc EXCEPT ![w] = IF pc[w] = "startWait" THEN "start" ELSE "complete"]
        /\ answer' = [answer EXCEPT ![w] = "none"]
        /\ UNCHANGED <<job, done>>
        /\ pc[w] \in {"startWait", "completeWait"}
    BY <1>2 DEF CallFails, RetryOrDrop, Waiting
  <2>1. TypeOK'
    BY <1>0, <2>0 DEF CallFails, IInv, TypeOK, PC
  <2>2. \A v \in Worker : Keeps(v) \/ Carries(v)
    BY <2>0 DEF Keeps, Carries, Holds, IInv, TypeOK
  <2> QED BY <1>0, <2>1, <2>2, WorkerMove DEF CallFails
<1> QED BY <1>1, <1>2 DEF CallFails, RetryOrDrop

\* A cancelled worker drops its claim and then leaves the loop.
LEMMA CancelledStep ==
  ASSUME IInv, NEW w \in Worker, Cancelled(w)
  PROVE  IInv'
<1> USE DEF taskVars, rowVars, workerVars
<1>1. CASE Loop(w)
  <2>1. TypeOK'
    BY <1>1, LoopType DEF Cancelled, IInv, TypeOK
  <2>2. \A v \in Worker : Keeps(v) \/ Drops(v)
    BY <1>1, LoopMove DEF IInv
  <2> QED BY <2>1, <2>2, WorkerMove DEF Cancelled
<1>2. CASE pc[w] = "idle"
  <2>0. pc' = [pc EXCEPT ![w] = "off"] /\ UNCHANGED <<job, done, answer>>
    BY <1>2 DEF Cancelled
  <2>1. TypeOK'
    BY <2>0 DEF Cancelled, IInv, TypeOK, PC
  <2>2. \A v \in Worker : Keeps(v) \/ Drops(v)
    <3>1. job[w].lease = 0
      BY <1>2 DEF IInv, TokenInv, Holds
    <3>2. pc \in [Worker -> PC]
      BY DEF IInv, TypeOK
    <3>3. Drops(w)
      BY <2>0, <3>1, <3>2 DEF Drops
    <3>4. \A v \in Worker : v # w => Keeps(v)
      BY <2>0, <3>2 DEF Keeps
    <3> QED BY <3>3, <3>4
  <2> QED BY <2>1, <2>2, WorkerMove DEF Cancelled
<1> QED BY <1>1, <1>2 DEF Cancelled

\* A new worker (startWorker) has no claim, and cancels its predecessor.
LEMMA StartWorkerStep ==
  ASSUME IInv, NEW w \in Worker, StartWorker(w)
  PROVE  IInv'
<1> USE DEF taskVars, rowVars, workerVars
<1>1. TypeOK'
  <2>1. cancelled' \in [Worker -> BOOLEAN]
    BY Zenon DEF StartWorker, IInv, TypeOK
  <2>2. /\ pc' = [pc EXCEPT ![w] = "idle"] /\ faults' \in {faults, faults + 1}
        /\ UNCHANGED <<rowVars, taskVars, clock, net, answer, job, done, deadline,
                       procs, launches, outcome, acked>>
    BY DEF StartWorker
  <2> QED BY <2>1, <2>2 DEF IInv, TypeOK, PC
<1>2. \A v \in Worker : Keeps(v) \/ Drops(v)
  <2>1. job[w].lease = 0
    BY DEF StartWorker, IInv, TokenInv, Holds
  <2>2. pc \in [Worker -> PC] /\ pc' = [pc EXCEPT ![w] = "idle"] /\ UNCHANGED <<job, done, answer>>
    BY DEF StartWorker, IInv, TypeOK
  <2>3. Drops(w)
    BY <2>1, <2>2 DEF Drops
  <2>4. \A v \in Worker : v # w => Keeps(v)
    BY <2>2 DEF Keeps
  <2> QED BY <2>3, <2>4
<1> QED BY <1>1, <1>2, WorkerMove DEF StartWorker

\* A stop or crash of the Agent only drops claims.
LEMMA DeviceStep ==
  ASSUME IInv, NEW n \in Nodes, StopService(n) \/ Crash(n)
  PROVE  IInv'
<1> USE DEF taskVars, rowVars, workerVars
<1>1. CASE StopService(n)
  <2>1. TypeOK'
    BY <1>1 DEF StopService, IInv, TypeOK
  <2>2. \A v \in Worker : Keeps(v)
    BY <1>1 DEF StopService, Keeps
  <2> QED BY <1>1, <2>1, <2>2, WorkerMove DEF StopService
<1>2. CASE Crash(n)
  <2>1. TypeOK'
    BY <1>2 DEF Crash, IInv, TypeOK, PC, Job, NoJob
  <2>2. \A v \in Worker : Keeps(v) \/ Drops(v)
    BY <1>2 DEF Crash, Keeps, Drops, NoJob, IInv, TypeOK
  <2> QED BY <1>2, <2>1, <2>2, WorkerMove DEF Crash
<1> QED BY <1>1, <1>2

\* Time and a process left behind touch no row and no claim.
LEMMA EnvironmentStep ==
  ASSUME IInv, (\E p \in procs : OrphanExits(p)) \/ Tick
  PROVE  IInv'
<1> USE DEF taskVars, rowVars, workerVars
<1>1. TypeOK'
  BY DEF OrphanExits, Tick, IInv, TypeOK
<1>2. \A v \in Worker : Keeps(v)
  BY DEF OrphanExits, Tick, Keeps
<1> QED BY <1>1, <1>2, WorkerMove DEF OrphanExits, Tick

\* insertCommand adds queued rows of a new task only, and for a retry only on
\* devices whose source row failed.
LEMMA InsertStep ==
  ASSUME IInv, NEW t \in Tasks, NEW targets \in SUBSET Nodes, NEW source \in SUBSET tasks,
         InsertCommand(t, targets, source),
         \A s \in source : targets \subseteq RetryTargets(s)
  PROVE  IInv' /\ \A e \in Exec : status[e] # "absent" => status'[e] = status[e]
<1> USE DEF taskVars, rowVars, workerVars
<1>0. t \notin tasks /\ tasks \subseteq Tasks
  BY DEF InsertCommand, IInv, TypeOK
<1>1. \A e \in Exec : status[e] # "absent" => status'[e] = status[e]
  <2> SUFFICES ASSUME NEW e \in Exec, status[e] # "absent", e[1] = t
               PROVE  FALSE
    BY DEF InsertCommand
  <2>1. e = <<t, e[2]>> /\ e[2] \in Nodes
    BY DEF Exec
  <2> QED BY <1>0, <2>1 DEF IInv, TaskInv
<1>2. \A e \in Exec : status[e] = "absent" => status'[e] \in {"absent", "queued"}
  BY DEF InsertCommand
<1>3. TypeOK'
  BY <1>0 DEF InsertCommand, IInv, TypeOK, Status
<1>4. TokenInv'
  BY DEF InsertCommand, IInv, TokenInv, Holds
<1>5. RowInv'
  BY <1>1, <1>2 DEF InsertCommand, IInv, RowInv, Started, Terminal, Outcome
<1>a. \A e \in Exec : status[e] \in Started => status'[e] \in Started
  BY <1>1 DEF Started, Terminal, Outcome
<1>b. UNCHANGED <<net, pc, answer, job, done, lease, result, launches, outcome, acked>>
  BY DEF InsertCommand
<1>c. NetInv'
  BY <1>a, <1>b DEF IInv, NetInv, Holds
<1>d. StartInv'
  BY <1>a, <1>b DEF IInv, StartInv, TokenInv, MayRun, Owns, Holds
<1>e. LaunchInv'
  BY <1>a, <1>b DEF IInv, LaunchInv, Owns, Holds
<1>f. OutcomeInv'
  BY <1>a, <1>b DEF IInv, OutcomeInv, Owns, Holds
<1>6. NetInv' /\ StartInv' /\ LaunchInv' /\ OutcomeInv'
  BY <1>c, <1>d, <1>e, <1>f
<1>7. ResultInv'
  BY <1>1 DEF InsertCommand, IInv, ResultInv, StoredResultIsReal, AckedResultIsStored,
              TypeOK, Outcome
<1>8. TaskInv'
  BY DEF InsertCommand, IInv, TaskInv, Exec, NodeOf
<1>9. RetryOnlyFailures'
  <2> SUFFICES ASSUME NEW u \in tasks', NEW s \in retried_from'[u], NEW n \in Nodes,
                      status'[<<u, n>>] # "absent"
               PROVE  status'[<<s, n>>] \in {"failed", "timed_out"}
    BY DEF RetryOnlyFailures
  <2>0. <<u, n>> \in Exec /\ u \in Tasks /\ tasks' = tasks \cup {t}
    BY <1>0 DEF InsertCommand, Exec
  <2>1. CASE u = t
    <3>1. s \in source /\ n \in targets /\ s \in Tasks /\ <<s, n>> \in Exec
      BY <1>0, <2>0, <2>1 DEF InsertCommand, NodeOf, IInv, TypeOK, TaskInv, Exec
    <3>2. status[<<s, n>>] \in {"failed", "timed_out"}
      BY <3>1 DEF RetryTargets
    <3> QED BY <1>1, <3>1, <3>2
  <2>2. CASE u # t
    <3>1. u \in tasks /\ s \in retried_from[u] /\ s \in Tasks /\ <<s, n>> \in Exec
      BY <2>0, <2>2 DEF InsertCommand, IInv, TypeOK, Exec
    <3>2. status[<<u, n>>] # "absent"
      BY <2>0, <2>2 DEF InsertCommand
    <3>3. status[<<s, n>>] \in {"failed", "timed_out"}
      BY <3>1, <3>2 DEF IInv, RetryOnlyFailures
    <3> QED BY <1>1, <3>1, <3>3
  <2> QED BY <2>1, <2>2
<1> QED
  BY <1>1, <1>3, <1>4, <1>5, <1>6, <1>7, <1>8, <1>9 DEF IInv

\* StartCommand marks a row started for the worker whose lease it has.
LEMMA StartStep ==
  ASSUME IInv, NEW r \in net, StartCommand(r)
  PROVE  /\ IInv'
         /\ \A e \in Exec : status'[e] # status[e] =>
              status[e] = "leased" /\ status'[e] = "running"
<1> USE DEF taskVars, rowVars, workerVars
<1>0. /\ r.worker \in Worker /\ r.exec \in Exec /\ r.lease > 0
      /\ \A w \in Worker : Holds(w) /\ job[w].lease = r.lease => job[w].exec = r.exec
  BY DEF StartCommand, IInv, TypeOK, NetInv, Request
<1>1. UNCHANGED <<attempt, lease, expires, result, nextLease, clock, faults, tasks,
                  created_at, retried_from, pc, cancelled, job, done, deadline, procs,
                  launches, outcome, acked>>
  BY DEF StartCommand
<1>2. /\ status' = status \/ (LeaseValid(r) /\ status' = [status EXCEPT ![r.exec] = "running"])
      /\ net' = net \ {r}
      /\ \/ answer' = answer
         \/ /\ Awaited(r) /\ pc[r.worker] = "startWait"
            /\ \/ answer' = [answer EXCEPT ![r.worker] = "rejected"]
               \/ /\ answer' = [answer EXCEPT ![r.worker] = "ok"]
                  /\ LeaseValid(r) /\ status' = [status EXCEPT ![r.exec] = "running"]
  BY DEF StartCommand, Reply, Awaited, WaitOf
<1>3. TypeOK'
  BY <1>0, <1>1, <1>2 DEF IInv, TypeOK, Status
<1>4. \A e \in Exec : status'[e] # status[e] => status[e] = "leased" /\ status'[e] = "running"
  BY <1>0, <1>2 DEF LeaseValid, IInv, TypeOK
<1>5. \A e \in Exec : status[e] \in Started => status'[e] \in Started
  BY <1>4 DEF Started
<1>6. \A w \in Worker : Holds(w)' <=> Holds(w)
  BY <1>1, <1>2 DEF Holds, IInv, TypeOK
<1>7. TokenInv'
  BY <1>1, <1>2, <1>6 DEF IInv, TokenInv
<1>8. RowInv'
  BY <1>1, <1>4 DEF IInv, RowInv, Started, Terminal, Outcome
<1>9. NetInv'
  BY <1>1, <1>2, <1>5, <1>6 DEF IInv, NetInv
<1>10. StartInv'
  <2> SUFFICES ASSUME NEW w \in Worker, MayRun(w)'
               PROVE  Owns(w, job[w].exec)' /\ status'[job[w].exec] \in Started
    BY <1>1 DEF StartInv
  <2>1. CASE MayRun(w)
    BY <1>1, <1>5, <1>6, <2>1 DEF IInv, StartInv, Owns, TokenInv
  <2>2. CASE ~MayRun(w)
    <3>1. /\ w = r.worker /\ Awaited(r) /\ pc[w] = "startWait" /\ LeaseValid(r)
          /\ status' = [status EXCEPT ![r.exec] = "running"]
      BY <1>0, <1>1, <1>2, <2>2 DEF MayRun, IInv, TypeOK
    <3>2. Holds(w) /\ job[w].lease = r.lease /\ lease[r.exec] = r.lease
      BY <3>1 DEF Awaited, LeaseValid, Holds
    <3>3. job[w].exec = r.exec
      BY <1>0, <3>2
    <3> QED BY <1>0, <1>1, <1>6, <3>1, <3>2, <3>3 DEF Owns, Started, IInv, TypeOK
  <2> QED BY <2>1, <2>2
<1>11. LaunchInv'
  BY <1>1, <1>5, <1>6 DEF IInv, LaunchInv, Owns
<1>12. OutcomeInv'
  BY <1>1, <1>5, <1>6 DEF IInv, OutcomeInv, Owns
<1>13. ResultInv'
  <2>1. StoredResultIsReal'
    BY <1>1, <1>4 DEF IInv, ResultInv, StoredResultIsReal, TypeOK, Outcome
  <2>2. AckedResultIsStored'
    BY <1>1 DEF IInv, ResultInv, AckedResultIsStored
  <2>3. \A w \in Worker : pc'[w] = "completeWait" /\ answer'[w] = "ok" => answer[w] = "ok"
    BY <1>0, <1>1, <1>2 DEF IInv, TypeOK
  <2> QED BY <1>1, <2>1, <2>2, <2>3 DEF IInv, ResultInv
<1>14. TaskInv' /\ RetryOnlyFailures'
  <2>1. \A t \in Tasks, n \in Nodes : <<t, n>> \in Exec
    BY DEF Exec
  <2> QED BY <1>1, <1>4, <2>1 DEF IInv, TaskInv, RetryOnlyFailures, TypeOK
<1> QED
  BY <1>3, <1>4, <1>7, <1>8, <1>9, <1>10, <1>11, <1>12, <1>13, <1>14 DEF IInv

\* CompleteCommand stores the outcome of the row's own process, once.
LEMMA CompleteStep ==
  ASSUME IInv, NEW r \in net, CompleteCommand(r)
  PROVE  /\ IInv'
         /\ \A e \in Exec :
              /\ status'[e] # status[e] => status[e] = "running" /\ status'[e] \in Terminal
              /\ status[e] \in Terminal => result'[e] = result[e]
<1> USE DEF taskVars, rowVars, workerVars
<1>0. /\ r.worker \in Worker /\ r.exec \in Exec /\ r.lease > 0
      /\ r.outcome \in Outcome /\ r.outcome = outcome[r.exec]
      /\ lease[r.exec] = r.lease /\ status[r.exec] \in Started
      /\ \A w \in Worker : Holds(w) /\ job[w].lease = r.lease => job[w].exec = r.exec
  BY DEF CompleteCommand, IInv, TypeOK, NetInv, Request
<1>1. UNCHANGED <<attempt, lease, expires, nextLease, clock, faults, tasks,
                  created_at, retried_from, pc, cancelled, job, done, deadline, procs,
                  launches, outcome, acked>>
  BY DEF CompleteCommand
<1>2. /\ \/ UNCHANGED <<status, result>>
         \/ /\ status[r.exec] \in {"leased", "running"}
            /\ status' = [status EXCEPT ![r.exec] = r.outcome]
            /\ result' = [result EXCEPT ![r.exec] = r.outcome]
      /\ net' = net \ {r}
      /\ \/ answer' = answer
         \/ /\ Awaited(r) /\ pc[r.worker] = "completeWait"
            /\ \/ answer' = [answer EXCEPT ![r.worker] = "rejected"]
               \/ /\ answer' = [answer EXCEPT ![r.worker] = "ok"]
                  /\ result'[r.exec] = r.outcome
  <2>1. CASE LeaseValid(r)
    BY <1>0, <2>1 DEF CompleteCommand, Reply, Awaited, WaitOf, LeaseValid, IInv, TypeOK
  <2>2. CASE ~LeaseValid(r)
    BY <1>0, <2>2 DEF CompleteCommand, Reply, Awaited, WaitOf, SameCompletion
  <2> QED BY <2>1, <2>2
<1>3. TypeOK'
  BY <1>0, <1>1, <1>2 DEF IInv, TypeOK, Status, Terminal
<1>4. \A e \in Exec :
        status'[e] # status[e] => status[e] = "running" /\ status'[e] \in Terminal
  BY <1>0, <1>2 DEF IInv, TypeOK, Started, Terminal, Outcome
<1>5. \A e \in Exec : status[e] \in Started => status'[e] \in Started
  BY <1>4 DEF Started
<1>6. \A w \in Worker : (Holds(w)' <=> Holds(w)) /\ (MayRun(w)' <=> MayRun(w))
  BY <1>1, <1>2 DEF Holds, MayRun, IInv, TypeOK
<1>7. TokenInv'
  BY <1>1, <1>2, <1>6 DEF IInv, TokenInv
<1>8. RowInv'
  BY <1>1, <1>4 DEF IInv, RowInv, Started, Terminal, Outcome
<1>9. NetInv'
  BY <1>1, <1>2, <1>5, <1>6 DEF IInv, NetInv
<1>10. StartInv'
  BY <1>1, <1>5, <1>6 DEF IInv, StartInv, Owns, TokenInv
<1>11. LaunchInv'
  BY <1>1, <1>5, <1>6 DEF IInv, LaunchInv, Owns
<1>12. OutcomeInv'
  BY <1>1, <1>5, <1>6 DEF IInv, OutcomeInv, Owns
<1>13. \A e \in Exec : result[e] # "none" => status[e] \in Terminal /\ result'[e] = result[e]
  <2>1. \A e \in Exec : result[e] # "none" => status[e] \in Terminal
    BY DEF IInv, ResultInv, StoredResultIsReal, TypeOK, Terminal
  <2> QED BY <1>0, <1>2, <2>1 DEF IInv, TypeOK, Terminal, Outcome
<1>14. ResultInv'
  <2>1. StoredResultIsReal'
    BY <1>0, <1>1, <1>2 DEF IInv, ResultInv, StoredResultIsReal, TypeOK
  <2>2. AckedResultIsStored'
    BY <1>1, <1>13 DEF IInv, ResultInv, AckedResultIsStored, TypeOK
  <2>3. ASSUME NEW w \in Worker, pc'[w] = "completeWait", answer'[w] = "ok"
        PROVE  result'[job'[w].exec] = done'[w]
    <3>0. done[w] \in Outcome /\ done[w] = outcome[job[w].exec] /\ Holds(w) /\ job[w].exec \in Exec
      BY <1>1, <2>3 DEF IInv, OutcomeInv, TokenInv, Holds
    <3>1. CASE answer[w] = "ok"
      <4>1. result[job[w].exec] = done[w]
        BY <1>1, <2>3, <3>1 DEF IInv, ResultInv
      <4> QED BY <1>1, <1>13, <3>0, <4>1 DEF Outcome
    <3>2. CASE answer[w] # "ok"
      <4>1. w = r.worker /\ Awaited(r) /\ result'[r.exec] = r.outcome
        BY <1>0, <1>2, <2>3, <3>2 DEF IInv, TypeOK
      <4>2. job[w].exec = r.exec
        BY <1>0, <3>0, <4>1 DEF Awaited
      <4> QED BY <1>0, <1>1, <3>0, <4>1, <4>2
    <3> QED BY <3>1, <3>2
  <2> QED BY <2>1, <2>2, <2>3 DEF ResultInv
<1>15. TaskInv' /\ RetryOnlyFailures'
  <2>1. \A t \in Tasks, n \in Nodes : <<t, n>> \in Exec
    BY DEF Exec
  <2> QED BY <1>1, <1>4, <2>1 DEF IInv, TaskInv, RetryOnlyFailures, TypeOK
<1>16. \A e \in Exec : status[e] \in Terminal => result'[e] = result[e]
  BY <1>2, <1>0 DEF IInv, TypeOK, Terminal, Outcome
<1> QED
  BY <1>3, <1>4, <1>7, <1>8, <1>9, <1>10, <1>11, <1>12, <1>14, <1>15, <1>16 DEF IInv

\* A worker whose start was accepted launches the process of its row, or ends
\* it: the row has no outcome yet and no other worker owns it.
LEMMA OwnerMove ==
  ASSUME IInv, TypeOK', NEW w \in Worker, NEW e \in Exec, e = job[w].exec,
         MayRun(w), outcome[e] = "none",
         UNCHANGED <<tasks, retried_from, status, lease, result, nextLease, net, acked, job>>,
         \A v \in Worker :
           v # w => pc'[v] = pc[v] /\ answer'[v] = answer[v] /\ done'[v] = done[v],
         \A f \in Exec : f # e => launches'[f] = launches[f] /\ outcome'[f] = outcome[f],
         \/ /\ pc'[w] = "execute" /\ launches[e] = 0
            /\ launches'[e] = 1 /\ outcome'[e] = "none"
         \/ /\ pc'[w] = "complete" /\ done'[w] \in Outcome
            /\ outcome'[e] = done'[w] /\ launches'[e] = launches[e]
  PROVE  IInv'
<1>0. Holds(w) /\ job[w].lease = lease[e] /\ status[e] \in Started
  BY DEF IInv, StartInv, Owns
<1>1. pc'[w] \in {"execute", "complete"}
  OBVIOUS
<1>2. \A v \in Worker : (Holds(v)' <=> Holds(v)) /\ (MayRun(v)' <=> MayRun(v))
  BY <1>0, <1>1 DEF Holds, MayRun
<1>3. \A v \in Worker, f \in Exec : Owns(v, f)' <=> Owns(v, f)
  BY <1>2 DEF Owns
<1>4. \A v \in Worker : Owns(v, e) => v = w
  BY <1>0 DEF Owns, IInv, TokenInv
<1>5. TokenInv'
  BY <1>2 DEF IInv, TokenInv
<1>6. RowInv'
  BY DEF IInv, RowInv
<1>7. NetInv'
  <2>1. \A r \in net : r.kind = "complete" => outcome'[r.exec] = outcome[r.exec]
    BY DEF IInv, NetInv, Outcome
  <2> QED BY <1>2, <2>1 DEF IInv, NetInv
<1>8. StartInv'
  BY <1>2 DEF IInv, StartInv, Owns
<1>9. LaunchInv'
  <2>1. ASSUME NEW f \in Exec, launches'[f] # 0
        PROVE  /\ launches'[f] = 1 /\ status[f] \in Started
               /\ \A v \in Worker : Owns(v, f) => pc'[v] \in {"execute", "complete", "completeWait"}
    <3>1. CASE f = e
      BY <1>0, <1>1, <1>4, <2>1, <3>1 DEF IInv, LaunchInv
    <3>2. CASE f # e
      <4>1. launches[f] # 0 /\ launches'[f] = launches[f]
        BY <2>1, <3>2
      <4> QED BY <1>1, <4>1 DEF IInv, LaunchInv
    <3> QED BY <3>1, <3>2
  <2> QED BY <1>3, <2>1 DEF LaunchInv
<1>10. OutcomeInv'
  <2>1. ASSUME NEW f \in Exec, outcome'[f] # "none"
        PROVE  /\ status[f] \in Started
               /\ \A v \in Worker : Owns(v, f) => pc'[v] \in {"complete", "completeWait"}
    <3>1. CASE f = e
      BY <1>0, <1>4, <2>1, <3>1
    <3>2. CASE f # e
      <4>1. outcome[f] # "none" /\ ~Owns(w, f)
        BY <2>1, <3>2 DEF Owns
      <4> QED BY <4>1 DEF IInv, OutcomeInv
    <3> QED BY <3>1, <3>2
  <2>2. ASSUME NEW v \in Worker, pc'[v] \in {"complete", "completeWait"}
        PROVE  done'[v] \in Outcome /\ done'[v] = outcome'[job[v].exec]
    <3>1. CASE v = w
      BY <2>2, <3>1
    <3>2. CASE v # w
      <4>1. done[v] \in Outcome /\ done[v] = outcome[job[v].exec]
        BY <2>2, <3>2 DEF IInv, OutcomeInv
      <4>2. job[v].exec # e /\ job[v].exec \in Exec
        BY <2>2, <3>2, <4>1 DEF Outcome, IInv, TokenInv, Holds
      <4> QED BY <3>2, <4>1, <4>2
    <3> QED BY <3>1, <3>2
  <2> QED BY <1>3, <2>1, <2>2 DEF OutcomeInv
<1>11. ResultInv'
  <2>1. result[e] = "none"
    BY DEF IInv, ResultInv, StoredResultIsReal
  <2>2. StoredResultIsReal'
    BY <2>1 DEF IInv, ResultInv, StoredResultIsReal
  <2>3. AckedResultIsStored'
    BY DEF IInv, ResultInv, AckedResultIsStored
  <2> QED BY <1>1, <2>2, <2>3 DEF IInv, ResultInv
<1>12. TaskInv' /\ RetryOnlyFailures'
  BY DEF IInv, TaskInv, RetryOnlyFailures
<1> QED
  BY <1>5, <1>6, <1>7, <1>8, <1>9, <1>10, <1>11, <1>12 DEF IInv

\* The launch: the row was started for this worker and has no process yet.
LEMMA ReceiveStartStep ==
  ASSUME IInv, NEW w \in Worker, ReceiveStart(w)
  PROVE  IInv'
<1> USE DEF taskVars, rowVars, workerVars
<1>1. CASE Loop(w) /\ UNCHANGED <<procs, launches, deadline, outcome>>
  <2>1. TypeOK'
    BY <1>1, LoopType DEF ReceiveStart, IInv, TypeOK
  <2>2. \A v \in Worker : Keeps(v) \/ Drops(v)
    BY <1>1, LoopMove DEF IInv
  <2> QED BY <1>1, <2>1, <2>2, WorkerMove DEF ReceiveStart
<1>2. CASE /\ answer[w] = "ok" /\ answer' = [answer EXCEPT ![w] = "none"]
           /\ \/ /\ pc' = [pc EXCEPT ![w] = "execute"]
                 /\ procs' = procs \cup {[exec |-> job[w].exec, lease |-> job[w].lease]}
                 /\ launches' = [launches EXCEPT ![job[w].exec] = @ + 1]
                 /\ deadline' = [deadline EXCEPT ![w] = clock + Timeout]
                 /\ UNCHANGED <<job, done, outcome>>
              \/ /\ pc' = [pc EXCEPT ![w] = "complete"]
                 /\ done' = [done EXCEPT ![w] = "failed"]
                 /\ outcome' = [outcome EXCEPT ![job[w].exec] = "failed"]
                 /\ UNCHANGED <<job, procs, launches, deadline>>
  <2>0. /\ pc[w] = "startWait" /\ MayRun(w) /\ Owns(w, job[w].exec) /\ job[w].exec \in Exec
        /\ UNCHANGED <<tasks, created_at, retried_from, status, attempt, lease, expires,
                       result, nextLease, clock, net, cancelled, faults, acked, job>>
    BY <1>2 DEF ReceiveStart, MayRun, Holds, IInv, StartInv, TokenInv
  <2>1. launches[job[w].exec] = 0 /\ outcome[job[w].exec] = "none"
    BY <2>0 DEF IInv, LaunchInv, OutcomeInv
  <2>2. job[w].lease \in Nat /\ Timeout \in Nat
    BY DispatchAssumption DEF IInv, TypeOK, Job
  <2>3. PICK e \in Exec : e = job[w].exec
    BY <2>0
  <2>4. /\ pc' \in [Worker -> PC] /\ answer' \in [Worker -> {"none", "empty", "claimed", "ok", "rejected"}]
        /\ launches' \in [Exec -> Nat] /\ deadline' \in [Worker -> Nat]
        /\ done' \in [Worker -> Outcome \cup {"none"}] /\ outcome' \in [Exec -> Outcome \cup {"none"}]
    BY <1>2, <2>0, <2>2 DEF IInv, TypeOK, PC, Outcome
  <2>5. procs' \in SUBSET [exec : Exec, lease : Nat]
    BY <1>2, <2>0, <2>2 DEF IInv, TypeOK
  <2>6. TypeOK'
    BY <2>0, <2>4, <2>5 DEF IInv, TypeOK
  <2>7. /\ \A v \in Worker : v # w => pc'[v] = pc[v] /\ answer'[v] = answer[v] /\ done'[v] = done[v]
        /\ \A f \in Exec : f # e => launches'[f] = launches[f] /\ outcome'[f] = outcome[f]
        /\ \/ pc'[w] = "execute" /\ launches[e] = 0 /\ launches'[e] = 1 /\ outcome'[e] = "none"
           \/ /\ pc'[w] = "complete" /\ done'[w] \in Outcome /\ outcome'[e] = done'[w]
              /\ launches'[e] = launches[e]
    BY <1>2, <2>1, <2>3 DEF IInv, TypeOK, Outcome
  <2> QED BY <2>0, <2>1, <2>3, <2>6, <2>7, OwnerMove
<1> QED BY <1>1, <1>2 DEF ReceiveStart

\* The process ends while its row has no outcome.
LEMMA ExecuteReturnsStep ==
  ASSUME IInv, NEW w \in Worker, ExecuteReturns(w)
  PROVE  IInv'
<1> USE DEF taskVars, rowVars, workerVars
<1>0. /\ pc[w] = "execute" /\ MayRun(w) /\ Owns(w, job[w].exec) /\ job[w].exec \in Exec
      /\ UNCHANGED <<tasks, created_at, retried_from, status, attempt, lease, expires,
                     result, nextLease, clock, net, answer, cancelled, job, deadline,
                     faults, launches, acked>>
  BY DEF ExecuteReturns, MayRun, Holds, IInv, StartInv, TokenInv
<1>1. outcome[job[w].exec] = "none"
  BY <1>0 DEF IInv, OutcomeInv
<1>2. PICK o \in Outcome : /\ done' = [done EXCEPT ![w] = o]
                           /\ outcome' = [outcome EXCEPT ![job[w].exec] = o]
  BY DEF ExecuteReturns, Outcomes, Outcome
<1>3. PICK e \in Exec : e = job[w].exec
  BY <1>0
<1>4. pc' = [pc EXCEPT ![w] = "complete"] /\ procs' \subseteq procs
  BY DEF ExecuteReturns
<1>5. TypeOK'
  BY <1>0, <1>2, <1>4 DEF IInv, TypeOK, PC
<1>6. /\ \A v \in Worker : v # w => pc'[v] = pc[v] /\ answer'[v] = answer[v] /\ done'[v] = done[v]
      /\ \A f \in Exec : f # e => launches'[f] = launches[f] /\ outcome'[f] = outcome[f]
      /\ pc'[w] = "complete" /\ done'[w] \in Outcome /\ outcome'[e] = done'[w]
      /\ launches'[e] = launches[e]
  BY <1>0, <1>2, <1>3, <1>4 DEF IInv, TypeOK
<1> QED BY <1>0, <1>1, <1>3, <1>5, <1>6, OwnerMove

\* A claim sweeps and leases under a token nobody has: started rows stay, so
\* no running worker loses the row it owns.
LEMMA ClaimStep ==
  ASSUME IInv, NEW r \in net, ClaimCommand(r)
  PROVE  /\ IInv'
         /\ \A e \in Exec :
              /\ status[e] \in Started => status'[e] \in Started
              /\ status[e] \in Terminal => status'[e] = status[e]
              /\ status[e] # "absent" => status'[e] # "absent"
<1> USE DEF taskVars, rowVars, workerVars
<1> DEFINE n == DeviceOf(r.worker)
<1>0. r.worker \in Worker /\ n \in Nodes /\ r.kind = "claim"
  BY DeviceLemma DEF ClaimCommand, IInv, TypeOK, Request
<1>1. UNCHANGED <<result, clock, faults, tasks, created_at, retried_from, pc, cancelled,
                  done, deadline, procs, launches, outcome, acked>>
  BY DEF ClaimCommand
<1> HIDE DEF n
<1>s. /\ SweptStatus(n) \in [Exec -> Status]
      /\ Cleared(lease, n) \in [Exec -> Nat]
      /\ Cleared(expires, n) \in [Exec -> Nat]
      /\ \A e \in Exec :
           /\ status[e] \in Terminal => SweptStatus(n)[e] = status[e]
           /\ status[e] \in Started =>
                SweptStatus(n)[e] \in Started /\ Cleared(lease, n)[e] = lease[e]
           /\ status[e] \notin Started => SweptStatus(n)[e] \notin Started
           /\ status[e] = "absent" <=> SweptStatus(n)[e] = "absent"
           /\ SweptStatus(n)[e] = "leased" =>
                status[e] = "leased" /\ Cleared(lease, n)[e] = lease[e]
           /\ SweptStatus(n)[e] = "queued" =>
                \/ status[e] = "queued" /\ Cleared(lease, n)[e] = lease[e]
                \/ status[e] = "leased" /\ Cleared(lease, n)[e] = 0
           /\ Cleared(lease, n)[e] \in {0, lease[e]}
  BY <1>0, SweepLemma DEF IInv
\* What the step does, row by row and worker by worker.
<1>2. /\ TypeOK'
      /\ net' = net \ {r}
      /\ nextLease' \in {nextLease, nextLease + 1}
      /\ \A e \in Exec :
           \/ status'[e] = SweptStatus(n)[e] /\ lease'[e] = Cleared(lease, n)[e]
           \/ /\ status'[e] = "leased" /\ lease'[e] = nextLease
              /\ nextLease' = nextLease + 1 /\ SweptStatus(n)[e] = "queued"
      /\ \A w \in Worker : w # r.worker => job'[w] = job[w] /\ answer'[w] = answer[w]
      /\ \/ job'[r.worker] = job[r.worker] /\ answer'[r.worker] = answer[r.worker]
         \/ /\ pc[r.worker] = "claimWait" /\ answer[r.worker] = "none"
            /\ job'[r.worker] = job[r.worker] /\ answer'[r.worker] = "empty"
         \/ /\ pc[r.worker] = "claimWait" /\ answer[r.worker] = "none"
            /\ answer'[r.worker] = "claimed" /\ nextLease' = nextLease + 1
            /\ job'[r.worker].lease = nextLease /\ job'[r.worker].exec \in Exec
  <2>1. CASE /\ status' = SweptStatus(n)
             /\ lease' = Cleared(lease, n) /\ expires' = Cleared(expires, n)
             /\ Reply(r, "empty")
             /\ UNCHANGED <<attempt, nextLease, job>>
    <3>1. net' = net \ {r} /\ answer' \in [Worker -> {"none", "empty", "claimed", "ok", "rejected"}]
      BY <2>1 DEF Reply, IInv, TypeOK
    <3>2. TypeOK'
      BY <1>1, <1>s, <2>1, <3>1 DEF IInv, TypeOK
    <3>3. /\ \A w \in Worker : w # r.worker => answer'[w] = answer[w]
          /\ \/ answer'[r.worker] = answer[r.worker]
             \/ /\ pc[r.worker] = "claimWait" /\ answer[r.worker] = "none"
                /\ answer'[r.worker] = "empty"
      BY <1>0, <2>1 DEF Reply, Awaited, WaitOf, IInv, TypeOK
    <3> QED BY <1>s, <2>1, <3>1, <3>2, <3>3
  <2>2. CASE \E e \in Claimable(n) :
          /\ status' = [SweptStatus(n) EXCEPT ![e] = "leased"]
          /\ attempt' = [attempt EXCEPT ![e] = @ + 1]
          /\ lease' = [Cleared(lease, n) EXCEPT ![e] = nextLease]
          /\ expires' = [Cleared(expires, n) EXCEPT ![e] = clock + LeaseDuration]
          /\ nextLease' = nextLease + 1
          /\ Reply(r, "claimed")
          /\ job' = IF Awaited(r)
                      THEN [job EXCEPT ![r.worker] =
                              [exec |-> e, lease |-> nextLease,
                               expires |-> clock + LeaseDuration]]
                      ELSE job
    <3>1. PICK e \in Claimable(n) :
          /\ status' = [SweptStatus(n) EXCEPT ![e] = "leased"]
          /\ attempt' = [attempt EXCEPT ![e] = @ + 1]
          /\ lease' = [Cleared(lease, n) EXCEPT ![e] = nextLease]
          /\ expires' = [Cleared(expires, n) EXCEPT ![e] = clock + LeaseDuration]
          /\ nextLease' = nextLease + 1
          /\ Reply(r, "claimed")
          /\ job' = IF Awaited(r)
                      THEN [job EXCEPT ![r.worker] =
                              [exec |-> e, lease |-> nextLease,
                               expires |-> clock + LeaseDuration]]
                      ELSE job
      BY <2>2
    <3>2. e \in Exec /\ SweptStatus(n)[e] = "queued"
      BY DEF Claimable
    <3>3. clock + LeaseDuration \in Nat /\ nextLease \in Nat /\ nextLease + 1 \in Nat
      BY DispatchAssumption DEF IInv, TypeOK
    <3>4. [exec |-> e, lease |-> nextLease, expires |-> clock + LeaseDuration] \in Job
      BY <3>2, <3>3 DEF Job
    <3>5. job' \in [Worker -> Job]
      BY <1>0, <3>1, <3>4 DEF IInv, TypeOK
    <3>6. net' = net \ {r} /\ answer' \in [Worker -> {"none", "empty", "claimed", "ok", "rejected"}]
      BY <3>1 DEF Reply, IInv, TypeOK
    <3>7. TypeOK'
      BY <1>1, <1>s, <3>1, <3>2, <3>3, <3>5, <3>6 DEF IInv, TypeOK, Status
    <3>8. \/ ~Awaited(r) /\ job' = job /\ answer' = answer
          \/ /\ Awaited(r) /\ answer' = [answer EXCEPT ![r.worker] = "claimed"]
             /\ job' = [job EXCEPT ![r.worker] = [exec |-> e, lease |-> nextLease,
                                                  expires |-> clock + LeaseDuration]]
      BY <3>1 DEF Reply
    <3>9. /\ \A w \in Worker : w # r.worker => job'[w] = job[w] /\ answer'[w] = answer[w]
          /\ \/ job'[r.worker] = job[r.worker] /\ answer'[r.worker] = answer[r.worker]
             \/ /\ pc[r.worker] = "claimWait" /\ answer[r.worker] = "none"
                /\ answer'[r.worker] = "claimed"
                /\ job'[r.worker].lease = nextLease /\ job'[r.worker].exec \in Exec
      BY <1>0, <3>2, <3>8 DEF Awaited, WaitOf, IInv, TypeOK
    <3>10. \A f \in Exec :
             \/ status'[f] = SweptStatus(n)[f] /\ lease'[f] = Cleared(lease, n)[f]
             \/ /\ status'[f] = "leased" /\ lease'[f] = nextLease
                /\ SweptStatus(n)[f] = "queued"
      BY <1>s, <3>1, <3>2
    <3> QED BY <3>1, <3>6, <3>7, <3>9, <3>10
  <2> QED BY <2>1, <2>2 DEF ClaimCommand, n
<1>3. \A e \in Exec :
        /\ status[e] \in Started => status'[e] \in Started /\ lease'[e] = lease[e]
        /\ status[e] \in Terminal => status'[e] = status[e]
        /\ status[e] = "absent" <=> status'[e] = "absent"
        /\ lease'[e] \in {0, lease[e]} \/ (lease'[e] = nextLease /\ nextLease' = nextLease + 1)
  BY <1>s, <1>2 DEF Started, Terminal, Outcome
<1>4. \A w \in Worker :
        \/ (Holds(w)' <=> Holds(w)) /\ job'[w] = job[w]
        \/ /\ w = r.worker /\ Holds(w)' /\ ~Holds(w) /\ ~MayRun(w)' /\ job'[w].lease = nextLease
           /\ nextLease' = nextLease + 1 /\ job'[w].exec \in Exec
           /\ pc[w] = "claimWait"
  BY <1>1, <1>2 DEF Holds, MayRun
<1>n. nextLease \in Nat /\ nextLease > 0
  BY DEF IInv, TypeOK, TokenInv
<1>t. /\ \A e \in Exec : lease[e] \in Nat /\ lease[e] < nextLease
      /\ \A w \in Worker : job[w].lease \in Nat /\ job[w].lease < nextLease
      /\ \A q \in net : q.lease \in Nat /\ q.lease < nextLease
  BY DEF IInv, TypeOK, TokenInv, Job, Request
<1>5. TokenInv'
  <2>1. nextLease' > 0 /\ nextLease' >= nextLease /\ nextLease' \in Nat
    BY <1>n, <1>2
  <2>2. \A e \in Exec : lease'[e] < nextLease'
    BY <1>n, <1>t, <1>3, <2>1
  <2>3. \A q \in net' : q.lease < nextLease'
    BY <1>n, <1>t, <1>2, <2>1
  <2>4. \A w \in Worker :
          /\ job'[w].lease < nextLease'
          /\ Holds(w)' => job'[w].exec \in Exec /\ job'[w].lease > 0
          /\ ~Holds(w)' => job'[w].lease = 0
    BY <1>n, <1>t, <1>4, <2>1 DEF IInv, TokenInv
  <2>5. \A v, w \in Worker :
          Holds(v)' /\ Holds(w)' /\ job'[v].lease = job'[w].lease => v = w
    BY <1>n, <1>t, <1>4 DEF IInv, TokenInv
  <2> QED BY <2>1, <2>2, <2>3, <2>4, <2>5 DEF TokenInv
<1>6. RowInv'
  <2> SUFFICES ASSUME NEW e \in Exec
               PROVE  /\ status'[e] \in {"absent", "queued"} => lease'[e] = 0
                      /\ status'[e] \in {"leased"} \cup Started => lease'[e] > 0
    BY DEF RowInv
  <2>1. CASE status'[e] = "leased" /\ lease'[e] = nextLease
    BY <1>n, <2>1 DEF Started, Terminal, Outcome
  <2>2. CASE status'[e] = SweptStatus(n)[e] /\ lease'[e] = Cleared(lease, n)[e]
    <3>1. CASE status[e] \in Started
      BY <1>s, <2>2, <3>1 DEF IInv, RowInv, Started, Terminal, Outcome
    <3>2. CASE status[e] \notin Started
      BY <1>s, <2>2, <3>2 DEF IInv, RowInv, TypeOK, Status, Started, Terminal, Outcome
    <3> QED BY <3>1, <3>2
  <2> QED BY <1>2, <2>1, <2>2
<1>7. NetInv'
  <2> SUFFICES ASSUME NEW q \in net', q.kind # "claim"
               PROVE  /\ q.exec \in Exec /\ q.lease > 0
                      /\ \A w \in Worker : Holds(w)' /\ job'[w].lease = q.lease => job'[w].exec = q.exec
                      /\ q.kind = "complete" =>
                           /\ q.outcome \in Outcome /\ q.outcome = outcome[q.exec]
                           /\ lease'[q.exec] = q.lease /\ status'[q.exec] \in Started
    BY <1>1 DEF NetInv
  <2>1. q \in net
    BY <1>2
  <2>2. /\ q.exec \in Exec /\ q.lease > 0
        /\ \A w \in Worker : Holds(w) /\ job[w].lease = q.lease => job[w].exec = q.exec
        /\ q.kind = "complete" =>
             /\ q.outcome \in Outcome /\ q.outcome = outcome[q.exec]
             /\ lease[q.exec] = q.lease /\ status[q.exec] \in Started
    BY <2>1 DEF IInv, NetInv
  <2>3. \A w \in Worker : Holds(w)' /\ job'[w].lease = q.lease => job'[w].exec = q.exec
    BY <1>n, <1>t, <1>4, <2>1, <2>2
  <2> QED BY <1>3, <2>2, <2>3
<1>8. \A w \in Worker : MayRun(w)' => MayRun(w) /\ job'[w] = job[w] /\ (Holds(w)' <=> Holds(w))
  BY <1>0, <1>1, <1>2, <1>4 DEF MayRun
<1>9. StartInv'
  <2> SUFFICES ASSUME NEW w \in Worker, MayRun(w)'
               PROVE  Owns(w, job[w].exec)' /\ status'[job'[w].exec] \in Started
    BY DEF StartInv
  <2>1. /\ MayRun(w) /\ job'[w] = job[w] /\ Holds(w)' /\ job[w].exec \in Exec
        /\ status[job[w].exec] \in Started /\ job[w].lease = lease[job[w].exec]
    BY <1>8 DEF IInv, StartInv, Owns, TokenInv
  <2> QED BY <1>3, <2>1 DEF Owns
<1>10. \A w \in Worker, e \in Exec : status[e] \in Started /\ Owns(w, e)' => Owns(w, e)
  BY <1>n, <1>t, <1>3, <1>4 DEF Owns
<1>11. LaunchInv'
  BY <1>1, <1>3, <1>10 DEF IInv, LaunchInv
<1>12. OutcomeInv'
  <2>1. \A w \in Worker : pc[w] \in {"complete", "completeWait"} => job'[w] = job[w]
    BY <1>4
  <2> QED BY <1>1, <1>3, <1>10, <2>1 DEF IInv, OutcomeInv
<1>13. ResultInv'
  <2>1. StoredResultIsReal'
    <3>1. \A e \in Exec : result[e] # "none" => status[e] \in Terminal
      BY DEF IInv, ResultInv, StoredResultIsReal, TypeOK, Terminal
    <3> QED BY <1>1, <1>3, <3>1 DEF IInv, ResultInv, StoredResultIsReal
  <2>2. AckedResultIsStored'
    BY <1>1 DEF IInv, ResultInv, AckedResultIsStored
  <2>3. \A w \in Worker : pc[w] = "completeWait" => job'[w] = job[w] /\ (answer'[w] = "ok" => answer[w] = "ok")
    BY <1>0, <1>2, <1>4
  <2> QED BY <1>1, <2>1, <2>2, <2>3 DEF IInv, ResultInv
<1>14. TaskInv' /\ RetryOnlyFailures'
  <2>1. \A t \in Tasks, m \in Nodes : <<t, m>> \in Exec
    BY DEF Exec
  <2>2. \A e \in Exec : status[e] \in {"failed", "timed_out"} => status'[e] = status[e]
    BY <1>3 DEF Terminal, Outcome
  <2> QED BY <1>1, <1>3, <2>1, <2>2 DEF IInv, TaskInv, RetryOnlyFailures, TypeOK
<1> QED
  BY <1>2, <1>3, <1>5, <1>6, <1>7, <1>9, <1>11, <1>12, <1>13, <1>14 DEF IInv

-----------------------------------------------------------------------------
\* The initial state satisfies the invariant.
LEMMA InitInv == Init => IInv
<1> SUFFICES ASSUME Init PROVE IInv
  OBVIOUS
<1>1. TypeOK
  BY TypeInit
<1>2. \A w \in Worker : ~Holds(w) /\ ~MayRun(w) /\ job[w].lease = 0
  BY DEF Init, Holds, MayRun, NoJob
<1>3. TokenInv /\ RowInv
  BY <1>1, <1>2 DEF Init, TokenInv, RowInv, Started, Terminal, Outcome
<1>4. NetInv /\ StartInv /\ LaunchInv /\ OutcomeInv
  BY <1>2 DEF Init, NetInv, StartInv, LaunchInv, OutcomeInv, Holds
<1>5. ResultInv
  BY DEF Init, ResultInv, StoredResultIsReal, AckedResultIsStored
<1>6. TaskInv /\ RetryOnlyFailures
  BY DEF Init, TaskInv, RetryOnlyFailures, Exec
<1> QED BY <1>1, <1>3, <1>4, <1>5, <1>6 DEF IInv

\* Every step keeps the invariant, and moves rows only along the life cycle.
LEMMA NextInv == IInv /\ [Next]_vars => IInv' /\ LifeCycleStep
<1> SUFFICES ASSUME IInv, [Next]_vars PROVE IInv' /\ LifeCycleStep
  OBVIOUS
<1> USE DEF taskVars, rowVars, workerVars
<1>0. UNCHANGED <<status, result>> => LifeCycleStep
  BY DEF LifeCycleStep
<1>1. ASSUME NEW t \in Tasks, NEW targets \in SUBSET Nodes, CreateCommand(t, targets)
      PROVE  IInv' /\ LifeCycleStep
  <2>1. InsertCommand(t, targets, {}) /\ {} \in SUBSET tasks /\ result' = result
    BY <1>1 DEF CreateCommand, InsertCommand
  <2>2. IInv' /\ \A e \in Exec : status[e] # "absent" => status'[e] = status[e]
    BY <2>1, InsertStep
  <2> QED BY <2>1, <2>2 DEF LifeCycleStep, Terminal, Outcome
<1>2. ASSUME NEW t \in Tasks, NEW s \in Tasks, RetryCommand(t, s)
      PROVE  IInv' /\ LifeCycleStep
  <2>1. /\ InsertCommand(t, RetryTargets(s), {s}) /\ {s} \in SUBSET tasks /\ result' = result
        /\ RetryTargets(s) \in SUBSET Nodes
    BY <1>2 DEF RetryCommand, InsertCommand, RetryTargets
  <2>2. IInv' /\ \A e \in Exec : status[e] # "absent" => status'[e] = status[e]
    BY <2>1, InsertStep
  <2> QED BY <2>1, <2>2 DEF LifeCycleStep, Terminal, Outcome
<1>3. ASSUME NEW r \in net, ClaimCommand(r) PROVE IInv' /\ LifeCycleStep
  <2>1. result' = result
    BY <1>3 DEF ClaimCommand
  <2> QED BY <1>3, <2>1, ClaimStep DEF LifeCycleStep, Started
<1>4. ASSUME NEW r \in net, StartCommand(r) PROVE IInv' /\ LifeCycleStep
  <2>1. result' = result
    BY <1>4 DEF StartCommand
  <2> QED BY <1>4, <2>1, StartStep DEF LifeCycleStep, Terminal, Outcome
<1>5. ASSUME NEW r \in net, CompleteCommand(r) PROVE IInv' /\ LifeCycleStep
  BY <1>5, CompleteStep DEF LifeCycleStep, Terminal, Outcome
<1>6. ASSUME NEW w \in Worker, WorkerStep(w) PROVE IInv' /\ LifeCycleStep
  <2>1. IInv'
    BY <1>6, SendStep, ReceiveClaimStep, ReceiveStartStep, ReceiveCompleteStep,
       ExecuteReturnsStep, CancelledStep DEF WorkerStep
  <2>2. UNCHANGED <<status, result>>
    BY <1>6 DEF WorkerStep, SendClaim, SendStart, SendComplete, Send, ReceiveClaim,
                ReceiveStart, ReceiveComplete, ExecuteReturns, Cancelled
  <2> QED BY <1>0, <2>1, <2>2
<1>7. ASSUME NEW w \in Worker, CallFails(w) \/ StartWorker(w) PROVE IInv' /\ LifeCycleStep
  <2>1. UNCHANGED <<status, result>>
    BY <1>7 DEF CallFails, StartWorker
  <2> QED BY <1>0, <1>7, <2>1, CallFailsStep, StartWorkerStep
<1>8. ASSUME NEW n \in Nodes, StopService(n) \/ Crash(n) PROVE IInv' /\ LifeCycleStep
  <2>1. UNCHANGED <<status, result>>
    BY <1>8 DEF StopService, Crash
  <2> QED BY <1>0, <1>8, <2>1, DeviceStep
<1>9. ASSUME (\E p \in procs : OrphanExits(p)) \/ Tick PROVE IInv' /\ LifeCycleStep
  <2>1. UNCHANGED <<status, result>>
    BY <1>9 DEF OrphanExits, Tick
  <2> QED BY <1>0, <1>9, <2>1, EnvironmentStep
<1>10. CASE UNCHANGED vars
  <2>1. TypeOK'
    BY <1>10 DEF vars, IInv, TypeOK
  <2>2. \A v \in Worker : Keeps(v)
    BY <1>10 DEF vars, Keeps
  <2> QED BY <1>0, <1>10, <2>1, <2>2, WorkerMove DEF vars
<1> QED
  BY <1>1, <1>2, <1>3, <1>4, <1>5, <1>6, <1>7, <1>8, <1>9, <1>10 DEF Next, Serve

\* The invariant holds in every reachable state.
LEMMA Invariance == Spec => []IInv
<1>1. IInv /\ [Next]_vars => IInv'
  BY NextInv
<1> QED BY InitInv, <1>1, PTL DEF Spec

-----------------------------------------------------------------------------
\* Every variable keeps its type, for any number of tasks, devices, workers
\* and faults.
THEOREM TypeCorrect == Spec => []TypeOK
<1>1. IInv => TypeOK
  BY DEF IInv
<1> QED BY Invariance, <1>1, PTL

\* No execution is ever launched twice, whatever the network loses or delays
\* and however often workers crash, restart or overlap.
THEOREM LaunchAtMostOnce == Spec => []AtMostOnce
<1>1. IInv => AtMostOnce
  BY DEF IInv, TypeOK, LaunchInv, AtMostOnce
<1> QED BY Invariance, <1>1, PTL

\* A launched execution is recorded as started or ended in the store.
THEOREM LaunchRecorded == Spec => []LaunchedIsRecorded
<1>1. IInv => LaunchedIsRecorded
  BY DEF IInv, TypeOK, LaunchInv, LaunchedIsRecorded, Started
<1> QED BY Invariance, <1>1, PTL

\* The stored completion is what the execution's own process did.
THEOREM ResultReal == Spec => []StoredResultIsReal
<1>1. IInv => StoredResultIsReal
  BY DEF IInv, ResultInv
<1> QED BY Invariance, <1>1, PTL

\* An acknowledged completion is the stored one.
THEOREM AckStored == Spec => []AckedResultIsStored
<1>1. IInv => AckedResultIsStored
  BY DEF IInv, ResultInv
<1> QED BY Invariance, <1>1, PTL

\* A retry targets only devices on which its source ended in failure.
THEOREM RetrySound == Spec => []RetryOnlyFailures
<1>1. IInv => RetryOnlyFailures
  BY DEF IInv
<1> QED BY Invariance, <1>1, PTL

\* Rows only move forward along the life cycle, and a decided row never changes.
THEOREM LifeCycleKept == Spec => LifeCycle
<1>1. IInv /\ [Next]_vars => [LifeCycleStep]_vars
  BY NextInv
<1> QED BY Invariance, <1>1, PTL DEF Spec, LifeCycle

-----------------------------------------------------------------------------
\* Rows, processes and results that stay are a stutter of the abstract command
\* centre.
LEMMA OnceStutter ==
  UNCHANGED <<status, result, launches, outcome>> => UNCHANGED Once!vars
BY DEF Once!vars, Phases, PhaseOf

\* A new task requests its command on the devices it targets.
LEMMA OnceInsert ==
  ASSUME IInv, NEW t \in Tasks, NEW targets \in SUBSET Nodes, NEW source,
         InsertCommand(t, targets, source)
  PROVE  Once!Next
<1> DEFINE S == {e \in Exec : e[1] = t /\ NodeOf(e) \in targets}
<1>1. \A e \in S : status[e] = "absent"
  <2>1. \A e \in S : e = <<t, e[2]>> /\ e[2] \in Nodes
    BY DEF Exec
  <2> QED BY <2>1 DEF IInv, TaskInv, InsertCommand
<1>2. \A e \in S : Phases[e] = "absent"
  BY <1>1 DEF Phases, PhaseOf
<1>3. UNCHANGED <<result, launches, outcome>>
  BY DEF InsertCommand, workerVars
<1>4. \A e \in Exec : status'[e] = IF e \in S THEN "queued" ELSE status[e]
  BY DEF InsertCommand
<1>5. \A e \in Exec : PhaseOf(e)' = IF e \in S THEN "open" ELSE PhaseOf(e)
  BY <1>3, <1>4 DEF PhaseOf
<1>6. Phases' = [e \in Exec |-> IF e \in S THEN "open" ELSE Phases[e]]
  BY <1>5 DEF Phases
<1>7. Once!Request(S)
  BY <1>2, <1>3, <1>6 DEF Once!Request
<1> QED BY <1>7 DEF Once!Next

\* What the sweep makes of the rows of device n, for the Owner.
LEMMA SweepRows ==
  ASSUME TypeOK, NEW n \in Nodes, NEW e \in Exec
  PROVE  /\ e \in Expired(n, "running") => SweptStatus(n)[e] = "failed"
         /\ e \notin Expired(n, "running") =>
              \/ SweptStatus(n)[e] = status[e]
              \/ status[e] = "leased" /\ SweptStatus(n)[e] = "queued"
<1>1. e \in Expired(n, "leased") => status[e] = "leased"
  BY DEF Expired
<1>2. CASE e \in Expired(n, "running")
  <2>1. e \notin Expired(n, "leased")
    BY <1>2 DEF Expired
  <2> QED BY <1>2, <2>1 DEF SweptStatus
<1>3. CASE e \notin Expired(n, "running") /\ e \in Expired(n, "leased")
  BY <1>1, <1>3 DEF SweptStatus
<1>4. CASE e \notin Expired(n, "running") /\ e \notin Expired(n, "leased")
  BY <1>4 DEF SweptStatus
<1> QED BY <1>2, <1>3, <1>4

\* A claim gives up the started rows whose lease ran out; what else it does to
\* the rows, the Owner does not see.
LEMMA OnceClaim ==
  ASSUME IInv, NEW r \in net, ClaimCommand(r)
  PROVE  Once!Next
<1> DEFINE n == DeviceOf(r.worker)
           S == Expired(n, "running")
<1>1. S \subseteq Exec /\ \A e \in S : status[e] = "running"
  BY DEF Expired
<1>2. UNCHANGED <<result, launches, outcome>>
  BY DEF ClaimCommand
<1>3. \A e \in Exec :
        /\ e \in S => status'[e] = "failed"
        /\ e \notin S =>
             \/ status'[e] = status[e]
             \/ status[e] \in {"queued", "leased"} /\ status'[e] \in {"queued", "leased"}
  <2>1. \A e \in Exec :
          /\ e \in S => SweptStatus(n)[e] = "failed"
          /\ e \notin S =>
               \/ SweptStatus(n)[e] = status[e]
               \/ status[e] = "leased" /\ SweptStatus(n)[e] = "queued"
    BY SweepRows, DeviceLemma DEF IInv, TypeOK, Request
  <2>2. \A e \in Claimable(n) : e \in Exec /\ SweptStatus(n)[e] = "queued"
    BY DEF Claimable
  <2>3. SweptStatus(n) \in [Exec -> Status]
    BY SweepLemma, DeviceLemma DEF IInv, TypeOK, Request
  <2>4. \/ status' = SweptStatus(n)
        \/ \E e \in Claimable(n) : status' = [SweptStatus(n) EXCEPT ![e] = "leased"]
    BY DEF ClaimCommand
  <2>5. CASE status' = SweptStatus(n)
    BY <2>1, <2>5
  <2>6. ASSUME NEW e \in Claimable(n), status' = [SweptStatus(n) EXCEPT ![e] = "leased"]
        PROVE  \A f \in Exec :
                 /\ f \in S => status'[f] = "failed"
                 /\ f \notin S =>
                      \/ status'[f] = status[f]
                      \/ /\ status[f] \in {"queued", "leased"}
                         /\ status'[f] \in {"queued", "leased"}
    <3>1. e \in Exec /\ e \notin S /\ status[e] \in {"queued", "leased"}
      BY <2>1, <2>2
    <3>2. status'[e] = "leased" /\ \A f \in Exec : f # e => status'[f] = SweptStatus(n)[f]
      BY <2>3, <2>6, <3>1
    <3> QED BY <2>1, <3>1, <3>2
  <2>7. CASE \E e \in Claimable(n) : status' = [SweptStatus(n) EXCEPT ![e] = "leased"]
    <3> PICK e \in Claimable(n) : status' = [SweptStatus(n) EXCEPT ![e] = "leased"]
      BY <2>7
    <3> QED BY <2>6
  <2> QED BY <2>4, <2>5, <2>7
<1>4. \A e \in S : result[e] = "none"
  BY <1>1 DEF IInv, TypeOK, ResultInv, StoredResultIsReal, Outcome
<1>5. \A e \in Exec : PhaseOf(e)' = IF e \in S THEN "lost" ELSE PhaseOf(e)
  BY <1>1, <1>2, <1>3, <1>4 DEF PhaseOf
<1>6. Phases' = [e \in Exec |-> IF e \in S THEN "lost" ELSE Phases[e]]
  BY <1>5 DEF Phases
<1>7. \A e \in S : Phases[e] = "started"
  BY <1>1 DEF Phases, PhaseOf
<1>8. Once!GiveUp(S)
  BY <1>2, <1>6, <1>7 DEF Once!GiveUp
<1> QED BY <1>1, <1>8 DEF Once!Next

\* The first accepted start of a row is the point of no return.
LEMMA OnceStart ==
  ASSUME IInv, NEW r \in net, StartCommand(r)
  PROVE  Once!Next \/ UNCHANGED Once!vars
<1>1. UNCHANGED <<result, launches, outcome>>
  BY DEF StartCommand, workerVars
<1>2. CASE UNCHANGED status
  BY <1>1, <1>2, OnceStutter
<1>3. CASE LeaseValid(r) /\ status' = [status EXCEPT ![r.exec] = "running"]
  <2>1. r.exec \in Exec /\ r.kind = "start"
    BY DEF IInv, NetInv, StartCommand
  <2>2. status'[r.exec] = "running" /\ \A e \in Exec : e # r.exec => status'[e] = status[e]
    BY <1>3, <2>1 DEF IInv, TypeOK
  <2>3. CASE status[r.exec] = "running"
    <3>1. status' = status
      BY <1>3, <2>1, <2>3 DEF IInv, TypeOK
    <3> QED BY <1>1, <3>1, OnceStutter
  <2>4. CASE status[r.exec] = "leased"
    <3>1. \A e \in Exec : PhaseOf(e)' = IF e = r.exec THEN "started" ELSE PhaseOf(e)
      BY <1>1, <2>2 DEF PhaseOf
    <3>2. Phases' = [Phases EXCEPT ![r.exec] = "started"] /\ Phases[r.exec] = "open"
      BY <2>1, <2>4, <3>1 DEF Phases, PhaseOf
    <3>3. Once!Accept(r.exec)
      BY <1>1, <3>2 DEF Once!Accept
    <3> QED BY <2>1, <3>3 DEF Once!Next
  <2> QED BY <1>3, <2>3, <2>4 DEF LeaseValid
<1> QED BY <1>2, <1>3 DEF StartCommand

\* An accepted completion reports what the process did.
LEMMA OnceComplete ==
  ASSUME IInv, NEW r \in net, CompleteCommand(r)
  PROVE  Once!Next \/ UNCHANGED Once!vars
<1>1. UNCHANGED <<launches, outcome>>
  BY DEF CompleteCommand, workerVars
<1>2. CASE UNCHANGED <<status, result>>
  BY <1>1, <1>2, OnceStutter
<1>3. CASE /\ LeaseValid(r)
           /\ status' = [status EXCEPT ![r.exec] = r.outcome]
           /\ result' = [result EXCEPT ![r.exec] = r.outcome]
  <2>1. /\ r.exec \in Exec /\ r.outcome \in Outcome /\ r.outcome = outcome[r.exec]
        /\ status[r.exec] = "running"
    BY <1>3 DEF IInv, NetInv, CompleteCommand, LeaseValid, Started, Terminal, Outcome
  <2>2. /\ status'[r.exec] = r.outcome /\ result'[r.exec] = r.outcome
        /\ \A e \in Exec : e # r.exec => status'[e] = status[e] /\ result'[e] = result[e]
    BY <1>3, <2>1 DEF IInv, TypeOK
  <2>3. \A e \in Exec : PhaseOf(e)' = IF e = r.exec THEN r.outcome ELSE PhaseOf(e)
    BY <2>1, <2>2 DEF PhaseOf, Outcome
  <2>4. Phases' = [Phases EXCEPT ![r.exec] = r.outcome] /\ Phases[r.exec] = "started"
    BY <2>1, <2>3 DEF Phases, PhaseOf
  <2>5. Once!Report(r.exec)
    BY <1>1, <2>1, <2>4 DEF Once!Report, Outcome
  <2> QED BY <2>1, <2>5 DEF Once!Next
<1> QED BY <1>2, <1>3 DEF CompleteCommand

\* A worker whose start was accepted launches the one process of its row.
LEMMA OnceWorker ==
  ASSUME IInv, NEW w \in Worker, WorkerStep(w)
  PROVE  Once!Next \/ UNCHANGED Once!vars
<1> DEFINE e == job[w].exec
<1>1. UNCHANGED <<status, result>>
  BY DEF WorkerStep, SendClaim, SendStart, SendComplete, Send, ReceiveClaim, rowVars,
         ReceiveStart, ReceiveComplete, ExecuteReturns, Cancelled
<1>2. UNCHANGED Phases
  BY <1>1 DEF Phases, PhaseOf
<1>3. ASSUME MayRun(w) PROVE e \in Exec /\ Owns(w, e) /\ Phases[e] \notin {"absent", "open"}
  <2>1. e \in Exec /\ Owns(w, e) /\ status[e] \in Started
    BY <1>3 DEF IInv, StartInv, TokenInv, Owns
  <2> QED BY <2>1 DEF Phases, PhaseOf, Started, Terminal, Outcome
<1>4. CASE ReceiveStart(w)
  <2>1. CASE UNCHANGED <<launches, outcome>>
    BY <1>1, <2>1, OnceStutter
  <2>2. ASSUME answer[w] = "ok"
        PROVE  /\ e \in Exec /\ Phases[e] \notin {"absent", "open"}
               /\ launches[e] = 0 /\ outcome[e] = "none"
    <3>1. MayRun(w) /\ pc[w] = "startWait"
      BY <1>4, <2>2 DEF ReceiveStart, MayRun
    <3> QED BY <1>3, <3>1 DEF IInv, LaunchInv, OutcomeInv
  <2>3. CASE /\ answer[w] = "ok" /\ launches' = [launches EXCEPT ![e] = @ + 1]
             /\ outcome' = outcome
    <3>1. launches' = [launches EXCEPT ![e] = 1]
      <4>1. launches[e] + 1 = 1 /\ launches \in [Exec -> Nat]
        BY <2>2, <2>3 DEF IInv, TypeOK
      <4> HIDE DEF e
      <4> QED BY <2>2, <2>3, <4>1
    <3>2. Once!Launch(e)
      BY <1>2, <2>2, <2>3, <3>1 DEF Once!Launch
    <3> QED BY <2>2, <2>3, <3>2 DEF Once!Next
  <2>4. CASE /\ answer[w] = "ok" /\ outcome' = [outcome EXCEPT ![e] = "failed"]
             /\ launches' = launches
    <3>1. Once!End(e)
      BY <1>2, <2>2, <2>4 DEF Once!End, Outcome
    <3> QED BY <2>2, <2>4, <3>1 DEF Once!Next
  <2> QED BY <1>4, <2>1, <2>3, <2>4 DEF ReceiveStart
<1>5. CASE ExecuteReturns(w)
  <2>1. MayRun(w) /\ pc[w] = "execute"
    BY <1>5 DEF ExecuteReturns, MayRun
  <2>2. e \in Exec /\ Phases[e] \notin {"absent", "open"} /\ outcome[e] = "none"
    BY <1>3, <2>1 DEF IInv, OutcomeInv
  <2>3. \E o \in Outcome : outcome' = [outcome EXCEPT ![e] = o]
    BY <1>5 DEF ExecuteReturns, Outcomes, Outcome
  <2>4. launches' = launches
    BY <1>5 DEF ExecuteReturns
  <2>5. Once!End(e)
    BY <1>2, <2>2, <2>3, <2>4 DEF Once!End
  <2> QED BY <2>2, <2>5 DEF Once!Next
<1>6. CASE ~ReceiveStart(w) /\ ~ExecuteReturns(w)
  <2>1. UNCHANGED <<launches, outcome>>
    BY <1>6 DEF WorkerStep, SendClaim, SendStart, SendComplete, Send, ReceiveClaim,
                ReceiveComplete, Cancelled
  <2> QED BY <1>1, <2>1, OnceStutter
<1> QED BY <1>4, <1>5, <1>6

\* Every step is a step of the abstract command centre, or none.
LEMMA OnceStep == IInv /\ [Next]_vars => [Once!Next]_(Once!vars)
<1> SUFFICES ASSUME IInv, [Next]_vars PROVE Once!Next \/ UNCHANGED Once!vars
  OBVIOUS
<1>1. ASSUME NEW t \in Tasks, NEW targets \in SUBSET Nodes, CreateCommand(t, targets)
      PROVE  Once!Next
  BY <1>1, OnceInsert DEF CreateCommand
<1>2. ASSUME NEW t \in Tasks, NEW s \in Tasks, RetryCommand(t, s)
      PROVE  Once!Next
  <2>1. RetryTargets(s) \in SUBSET Nodes
    BY DEF RetryTargets
  <2> QED BY <1>2, <2>1, OnceInsert DEF RetryCommand
<1>3. ASSUME NEW r \in net, Serve(r)
      PROVE  Once!Next \/ UNCHANGED Once!vars
  BY <1>3, OnceClaim, OnceStart, OnceComplete DEF Serve
<1>4. ASSUME NEW w \in Worker, WorkerStep(w)
      PROVE  Once!Next \/ UNCHANGED Once!vars
  BY <1>4, OnceWorker
<1>5. CASE \/ \E w \in Worker : CallFails(w) \/ StartWorker(w)
           \/ \E n \in Nodes : StopService(n) \/ Crash(n)
           \/ \E p \in procs : OrphanExits(p)
           \/ Tick
           \/ UNCHANGED vars
  <2>1. UNCHANGED <<status, result, launches, outcome>>
    BY <1>5 DEF CallFails, StartWorker, StopService, Crash, OrphanExits, Tick, vars,
                rowVars, workerVars
  <2> QED BY <2>1, OnceStutter
<1> QED BY <1>1, <1>2, <1>3, <1>4, <1>5 DEF Next

\* The queue and the workers implement the abstract command centre: for any
\* number of tasks, devices, workers and faults, a command is accepted once,
\* launched at most once and reported as its process ended, or given up.
THEOREM Refinement == Spec => ImplementsOnce
<1>1. Init => Once!Init
  BY DEF Init, Once!Init, Phases, PhaseOf
<1>2. IInv /\ [Next]_vars => [Once!Next]_(Once!vars)
  BY OnceStep
<1> QED BY Invariance, <1>1, <1>2, PTL DEF Spec, ImplementsOnce, Once!Spec
=============================================================================
