---------------------------- MODULE UsageReport ----------------------------
(***************************************************************************)
(* How the totals of NetworkUsage reach the server: the heartbeat of the   *)
(* running worker, which begins with a sample and carries what it returned *)
(* (agent/internal/app/worker.go), and the server's node row, which keeps  *)
(* the last report (internal/api/router.go, internal/postgres/store.go).   *)
(*                                                                         *)
(* A worker that was replaced sends nothing more: its context is cancelled *)
(* and every call it makes ends at once, but a heartbeat that was under    *)
(* way may still arrive.                                                   *)
(***************************************************************************)
EXTENDS Integers

CONSTANTS
  LastReportDay,  \* bound: reports are of the days 0 .. LastReportDay
  MaxReportTotal, \* bound on a report's total
  MaxFailures,    \* bound on failed samples and calls
  MaxRestarts     \* bound on replaced workers and crashes

ASSUME ReportAssumption ==
  /\ LastReportDay \in Nat /\ MaxReportTotal \in Nat
  /\ MaxFailures \in Nat /\ MaxRestarts \in Nat

\* The usage fields of a heartbeat, and of the node's row.  No property tells the
\* two directions, or the day's total and the month's, apart.
Report == [day : 0 .. LastReportDay, total : 0 .. MaxReportTotal]
Unavailable == [day |-> -1, total |-> 0]

VARIABLES
  sampled,  \* what the running worker's sampler returned last: none or one report
  beat,     \* heartbeats that wait for an answer: none or one
  late,     \* heartbeats that the Agent gave up on and may still arrive
  row,      \* the usage columns of the node's row
  \* bounds
  failures, restarts

reportVars == <<sampled, beat, late, row, failures, restarts>>

ReportInit ==
  /\ sampled = {} /\ beat = {} /\ late = {} /\ row = Unavailable
  /\ failures = 0 /\ restarts = 0

Failure == failures < MaxFailures /\ failures' = failures + 1

\* The heartbeat begins with a sample, which may return any report: the day may
\* have turned, or the clock have been set back.
Sample ==
  /\ beat = {}
  /\ \E r \in Report : sampled' = {r} /\ beat' = {r}
  /\ UNCHANGED <<late, row, failures, restarts>>

\* The counters cannot be read: the heartbeat goes out without usage.
SampleFails ==
  /\ beat = {} /\ Failure
  /\ beat' = {Unavailable}
  /\ UNCHANGED <<sampled, late, row, restarts>>

\* recordHeartbeat: the row takes over whatever the heartbeat says.
\* Mutant: a heartbeat of another day than the row's is dropped as stale.
RecordHeartbeatBug(b) == row' = IF row.day \in {-1, b.day} THEN b ELSE row
RecordHeartbeat(b) == row' = b

Deliver ==
  /\ \E b \in beat : RecordHeartbeat(b)
  /\ beat' = {}
  /\ UNCHANGED <<sampled, late, failures, restarts>>

\* The call times out before it reaches the server, which it may still do.
Timeout ==
  /\ beat # {} /\ Failure
  /\ late' = late \cup beat /\ beat' = {}
  /\ UNCHANGED <<sampled, row, restarts>>

ArriveLate(b) ==
  /\ b \in late
  /\ late' = late \ {b}
  /\ \/ RecordHeartbeat(b)
     \/ UNCHANGED row
  /\ UNCHANGED <<sampled, beat, failures, restarts>>

\* startWorker cancels the call that is under way, a crash ends it; either way the
\* next worker has a new sampler.
ReplaceWorker ==
  /\ restarts < MaxRestarts /\ restarts' = restarts + 1
  /\ sampled' = {} /\ beat' = {} /\ late' = late \cup beat
  /\ UNCHANGED <<row, failures>>

ReportNext ==
  \/ Sample \/ SampleFails \/ Deliver \/ Timeout \/ ReplaceWorker
  \/ \E b \in late : ArriveLate(b)

\* The worker's ticker fires for as long as it runs, and a server that is
\* reached again and again answers in the end.
ReportFairness == WF_reportVars(Sample) /\ SF_reportVars(Deliver)

ReportSpec == ReportInit /\ [][ReportNext]_reportVars /\ ReportFairness

\* The server's row catches up with the sampler of the running worker again and
\* again, although workers are replaced and a late heartbeat may put an older
\* total into it.
ServerCatchesUp == []<>(sampled # {} /\ row \in sampled)

=============================================================================
