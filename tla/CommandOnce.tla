---------------------------- MODULE CommandOnce ----------------------------
(***************************************************************************)
(* What the command centre promises the Owner of a remote command, without *)
(* leases, clocks, workers or a network: the command is requested once for *)
(* each device, there is a point of no return after which it is never      *)
(* handed out again, its process is started at most once and only past     *)
(* that point, and the Owner is told either what the process did or that   *)
(* its fate is unknown, and nothing else ever after.                       *)
(***************************************************************************)
EXTENDS Naturals

CONSTANTS
  Job,      \* a command on a device
  Outcome   \* how a process can end

VARIABLES
  phase,    \* [Job -> what the Owner is told]
  runs,     \* [Job -> processes started]
  ended     \* [Job -> how its process ended, or "none"]

vars == <<phase, runs, ended>>

Init ==
  /\ phase = [j \in Job |-> "absent"]
  /\ runs = [j \in Job |-> 0]
  /\ ended = [j \in Job |-> "none"]

\* The Owner requests a command on some devices.
Request(S) ==
  /\ \A j \in S : phase[j] = "absent"
  /\ phase' = [j \in Job |-> IF j \in S THEN "open" ELSE phase[j]]
  /\ UNCHANGED <<runs, ended>>

\* The point of no return.
Accept(j) ==
  /\ phase[j] = "open"
  /\ phase' = [phase EXCEPT ![j] = "started"]
  /\ UNCHANGED <<runs, ended>>

\* The one process.  The Owner may have been told "lost" already.
Launch(j) ==
  /\ phase[j] \notin {"absent", "open"} /\ runs[j] = 0 /\ ended[j] = "none"
  /\ runs' = [runs EXCEPT ![j] = 1]
  /\ UNCHANGED <<phase, ended>>

\* The process ends, or turns out not to start.
End(j) ==
  /\ phase[j] \notin {"absent", "open"} /\ ended[j] = "none"
  /\ \E o \in Outcome : ended' = [ended EXCEPT ![j] = o]
  /\ UNCHANGED <<phase, runs>>

\* The Owner is told what the process did.
Report(j) ==
  /\ phase[j] = "started" /\ ended[j] # "none"
  /\ phase' = [phase EXCEPT ![j] = ended[j]]
  /\ UNCHANGED <<runs, ended>>

\* The Owner is told that the fate of some commands is unknown.
GiveUp(S) ==
  /\ \A j \in S : phase[j] = "started"
  /\ phase' = [j \in Job |-> IF j \in S THEN "lost" ELSE phase[j]]
  /\ UNCHANGED <<runs, ended>>

Next ==
  \/ \E S \in SUBSET Job : Request(S) \/ GiveUp(S)
  \/ \E j \in Job : Accept(j) \/ Launch(j) \/ End(j) \/ Report(j)

Spec == Init /\ [][Next]_vars

=============================================================================
