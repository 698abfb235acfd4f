---------------------------- MODULE NetworkUsage ----------------------------
(***************************************************************************)
(* The bytes a device has sent and received today and this month: the      *)
(* sampler that turns the operating system's counters into totals and      *)
(* checkpoints them in a file (agent/internal/agent/network_usage.go), in  *)
(* workers (agent/internal/app/worker.go) that the controller replaces     *)
(* (agent/internal/controller/controller.go).  How the totals reach the    *)
(* server is UsageReport's.                                                *)
(*                                                                         *)
(* Every worker has a sampler of its own, and all of them share one        *)
(* checkpoint.  A worker that is replaced is only cancelled: it still ends *)
(* the sample it has begun, and may begin another, next to its successor.  *)
(* A worker samples at the start of a heartbeat, here at any time.         *)
(*                                                                         *)
(* A day is a number, counted in Beijing time, and a month a run of days.  *)
(* The month of a state follows from its day, which Sample always sets     *)
(* together.  The rates in a heartbeat are left out.                       *)
(***************************************************************************)
EXTENDS Integers, FiniteSetsExt

CONSTANTS
  Worker,        \* workers that may be alive at the same time
  First,         \* the one that runs first
  MaxDay,        \* bound: days are 0 .. MaxDay
  DaysPerMonth,
  MaxBytes,      \* bound on the bytes moved, in each direction
  MaxCounter,    \* bound on the counters after a change of interfaces
  MaxFaults,     \* bound on failed calls and changes of clock and interfaces
  MaxStarts      \* bound on replaced workers and crashes

ASSUME UsageAssumption ==
  /\ MaxDay \in Nat /\ DaysPerMonth \in Nat \ {0}
  /\ First \in Worker /\ MaxBytes \in [{"up", "down"} -> Nat]
  /\ MaxCounter \in Nat /\ MaxFaults \in Nat /\ MaxStarts \in Nat

Day == 0 .. MaxDay
NoDay == -1
Dir == {"up", "down"}
Month(d) == IF d = NoDay THEN NoDay ELSE d \div DaysPerMonth
Zero == [x \in Dir |-> 0]
Counter == [Dir -> Nat]

\* NetworkUsageState; the zero value is a state that is not initialized.  Two
\* fields are history: the reading of its first sample, and the last total that
\* it had for every day.
State == [init : BOOLEAN, day : Day \cup {NoDay}, today : Counter, month : Counter,
          prev : Counter, first : Counter, ledger : [Day -> Counter]]
Fresh == [init |-> FALSE, day |-> NoDay, today |-> Zero, month |-> Zero, prev |-> Zero,
          first |-> Zero, ledger |-> [d \in Day |-> Zero]]

\* A worker: where its sampler is in Sample, whether it has loaded the checkpoint,
\* its state, and the counters and the day that it has read.
Sampler == [pc : {"gone", "idle", "read", "save"}, loaded : BOOLEAN, state : State,
            at : Counter, on : Day \cup {NoDay}]
Gone == [pc |-> "gone", loaded |-> FALSE, state |-> Fresh, at |-> Zero, on |-> NoDay]
New  == [Gone EXCEPT !.pc = "idle"]

VARIABLES
  day,      \* the device's clock
  counter,  \* the operating system's counters
  sampler,  \* [Worker -> its sampler]
  running,  \* the worker that is not cancelled
  file,     \* the checkpoint; Fresh stands for a missing file
  \* bounds and history
  faults, starts,
  moved,    \* bytes moved so far
  back,     \* bytes by which the counters jumped up although none moved
  raced,    \* the checkpoint changed between a reading and the load that followed
  clean     \* neither that nor a change of clock or interfaces happened so far

vars == <<day, counter, sampler, running, file, faults, starts,
          moved, back, raced, clean>>

Init ==
  /\ day = 0 /\ counter = [x \in Dir |-> 1]
  /\ running = First
  /\ sampler = [w \in Worker |-> IF w = running THEN New ELSE Gone]
  /\ file = Fresh
  /\ faults = 0 /\ starts = 0 /\ moved = Zero /\ back = Zero
  /\ raced = FALSE /\ clean = TRUE

Fault == faults < MaxFaults /\ faults' = faults + 1

(***************************************************************************)
(* The sampler.                                                            *)
(***************************************************************************)
\* rollPeriod, on a state s for a sample of day d.
\* Mutant: a new month keeps the day's total.
RollPeriodBug(s, d) ==
  [s EXCEPT !.month = IF Month(s.day) # Month(d) THEN Zero ELSE @,
            !.today = IF s.day # d /\ Month(s.day) = Month(d) THEN Zero ELSE @]
\* Mutant: a new day starts from a new baseline.
RollPeriodBug2(s, d) ==
  [s EXCEPT !.month = IF Month(s.day) # Month(d) THEN Zero ELSE @,
            !.today = IF s.day # d THEN Zero ELSE @,
            !.init  = @ /\ s.day = d]
RollPeriod(s, d) ==
  [s EXCEPT !.month = IF Month(s.day) # Month(d) THEN Zero ELSE @,
            !.today = IF s.day # d THEN Zero ELSE @]

\* What the counters have grown by when c is read; nothing when either of them
\* went back.
\* Mutant: the first reading counts from zero.
IncreaseBug(s, c) ==
  IF \A x \in Dir : c[x] >= s.prev[x]
  THEN [x \in Dir |-> c[x] - s.prev[x]] ELSE Zero
\* Mutant: a counter that went back is subtracted all the same.
IncreaseBug2(s, c) ==
  IF s.init THEN [x \in Dir |-> c[x] - s.prev[x]] ELSE Zero
Increase(s, c) ==
  IF s.init /\ \A x \in Dir : c[x] >= s.prev[x]
  THEN [x \in Dir |-> c[x] - s.prev[x]] ELSE Zero

Plus(a, b) == [x \in Dir |-> a[x] + b[x]]

\* The state s after a sample of the counters c on day d.
Sampled(s, c, d) ==
  LET r == RollPeriod(s, d)
      today == Plus(r.today, Increase(r, c))
  IN  [init |-> TRUE, day |-> d, today |-> today, month |-> Plus(r.month, Increase(r, c)),
       prev |-> c, first |-> IF s.init THEN s.first ELSE c,
       ledger |-> [s.ledger EXCEPT ![d] = today]]

\* Sample, at the start of a heartbeat: the counters and the clock.
ReadCounters(w) ==
  /\ sampler[w].pc = "idle"
  /\ sampler' = [sampler EXCEPT ![w].pc = "read", ![w].at = counter, ![w].on = day]
  /\ UNCHANGED <<day, counter, running, file, faults, starts,
                 moved, back, raced, clean>>

\* The first sample loads the checkpoint; when that fails, the sampler starts
\* afresh.
Account(w) ==
  /\ sampler[w].pc = "read"
  /\ \E s \in {sampler[w].state, file, Fresh} :
       /\ \/ sampler[w].loaded /\ s = sampler[w].state /\ UNCHANGED faults
          \/ ~sampler[w].loaded /\ s = file /\ UNCHANGED faults
          \/ ~sampler[w].loaded /\ s = Fresh /\ Fault
       /\ sampler' = [sampler EXCEPT
            ![w] = [pc |-> "save", loaded |-> TRUE,
                    state |-> Sampled(s, sampler[w].at, sampler[w].on),
                    at |-> Zero, on |-> NoDay]]
  /\ UNCHANGED <<day, counter, running, file, starts, moved, back,
                 raced, clean>>

\* SaveNetworkUsageState replaces the checkpoint atomically; when it cannot, that
\* is only reported.
Save(w) ==
  /\ sampler[w].pc = "save"
  /\ sampler' = [sampler EXCEPT ![w].pc = "idle"]
  /\ \/ /\ file' = sampler[w].state
        /\ raced' = (raced \/ \E v \in Worker : sampler[v].pc = "read" /\ ~sampler[v].loaded)
        /\ clean' = (clean /\ ~raced')
        /\ UNCHANGED faults
     \/ Fault /\ UNCHANGED <<file, raced, clean>>
  /\ UNCHANGED <<day, counter, running, starts, moved, back>>

(***************************************************************************)
(* Workers.                                                                *)
(***************************************************************************)
\* startWorker: a new worker, with a new sampler.  The one before is cancelled,
\* and with it the call that carries its heartbeat, but nobody waits for it.
StartWorker(v) ==
  /\ starts < MaxStarts /\ starts' = starts + 1
  /\ sampler[v].pc = "gone"
  /\ sampler' = [sampler EXCEPT ![v] = New] /\ running' = v
  /\ UNCHANGED <<day, counter, file, faults, moved, back, raced, clean>>

\* A cancelled worker ends between two heartbeats, although select may choose the
\* ticker first.
EndWorker(w) ==
  /\ w # running /\ sampler[w].pc = "idle"
  /\ sampler' = [sampler EXCEPT ![w] = Gone]
  /\ UNCHANGED <<day, counter, running, file, faults, starts, moved, back,
                 raced, clean>>

\* The Agent's process ends anywhere and is started again.
Crash ==
  /\ starts < MaxStarts /\ starts' = starts + 1
  /\ sampler' = [w \in Worker |-> IF w = running THEN New ELSE Gone]
  /\ UNCHANGED <<day, counter, running, file, faults, moved, back, raced, clean>>

(***************************************************************************)
(* The device.                                                             *)
(***************************************************************************)
Move(x) ==
  /\ moved[x] < MaxBytes[x]
  /\ counter' = [counter EXCEPT ![x] = @ + 1] /\ moved' = [moved EXCEPT ![x] = @ + 1]
  /\ UNCHANGED <<day, sampler, running, file, faults, starts, back,
                 raced, clean>>

NextDay ==
  /\ day < MaxDay
  /\ day' = day + 1
  /\ UNCHANGED <<counter, sampler, running, file, faults, starts, moved, back,
                 raced, clean>>

ClockBack ==
  /\ day > 0 /\ Fault
  /\ day' = day - 1 /\ clean' = FALSE
  /\ UNCHANGED <<counter, sampler, running, file, starts, moved, back, raced>>

\* The counters are sums over the interfaces: a restart of the device, or an
\* interface that goes away, takes from them, and one that comes back with its
\* own counters adds to them.
ChangeInterfaces ==
  /\ Fault
  /\ counter' \in [Dir -> 0 .. MaxCounter] /\ counter' # counter
  /\ back' = [x \in Dir |-> IF counter'[x] > counter[x]
                            THEN back[x] + (counter'[x] - counter[x]) ELSE back[x]]
  /\ clean' = FALSE
  /\ UNCHANGED <<day, sampler, running, file, starts, moved, raced>>

\* The next step of worker w.
Step(w) == ReadCounters(w) \/ Account(w) \/ Save(w)

Next ==
  \/ \E w \in Worker : Step(w) \/ StartWorker(w) \/ EndWorker(w)
  \/ \E x \in Dir : Move(x)
  \/ Crash \/ NextDay \/ ClockBack \/ ChangeInterfaces

Spec == Init /\ [][Next]_vars

(***************************************************************************)
(* Properties.                                                             *)
(***************************************************************************)
\* What the samplers and the checkpoint have accounted for.
Accounts == {file} \cup {sampler[w].state : w \in Worker}

Total(s, x) == MapThenSumSet(LAMBDA d : s.ledger[d][x], Day)
MonthTotal(s, x) ==
  MapThenSumSet(LAMBDA d : s.ledger[d][x], {d \in Day : Month(d) = Month(s.day)})

\* The samplers and the checkpoint.
TypeOK ==
  /\ day \in Day /\ counter \in Counter
  /\ running \in Worker /\ sampler \in [Worker -> Sampler] /\ file \in State
  /\ faults \in 0 .. MaxFaults /\ starts \in 0 .. MaxStarts
  /\ moved \in Counter /\ back \in Counter /\ raced \in BOOLEAN /\ clean \in BOOLEAN

\* Today's bytes are part of this month's in every sampler, which is what
\* heartbeats report, and in the checkpoint: day and month turn independently,
\* also when the clock is set back or a replaced worker samples late, and always
\* before the new bytes are added.
TodayWithinMonth ==
  \A s \in Accounts, x \in Dir : s.today[x] <= s.month[x]

\* No account counts a byte twice: the totals that a sampler or the checkpoint,
\* with the checkpoints it goes back to, had for all days together never exceed
\* the bytes moved and those that interfaces brought back (which Sample cannot
\* tell from traffic), whatever crashes, failed saves and loads, clock changes
\* and replaced workers there were.  The exception is a replaced worker that
\* saves after its successor has read the counters for the first time and before
\* it loads the checkpoint: the older reading then looks like a reset, and what
\* the checkpoint holds already is counted again.
NoByteTwice ==
  ~raced => \A s \in Accounts, x \in Dir : Total(s, x) <= moved[x] + back[x]

\* As long as no reading was older than the checkpoint and neither clock nor
\* interfaces changed, every account holds every byte since its first sample
\* exactly once, in a day and in the month of that day, also across midnight,
\* failed saves, crashes and workers that overlap.
EveryByteCounted ==
  clean => \A s \in Accounts, x \in Dir :
             s.init => /\ Total(s, x) = s.prev[x] - s.first[x]
                       /\ s.month[x] = MonthTotal(s, x)

=============================================================================
