----------------------- MODULE AgentControllerProofs -----------------------
(***************************************************************************)
(* Proofs about AgentController for any number of identities and faults.   *)
(* The inductive invariant says, for each holder of launchGate, what the   *)
(* holder may rely on between two sections under Controller.mu, and that   *)
(* identities and generations only grow.                                   *)
(***************************************************************************)
EXTENDS AgentController, TLAPS

-----------------------------------------------------------------------------
(* The inductive invariant.                                                *)

RequestRec == [at : {"none", "call", "gate", "saved", "activated"},
               config : [kind : {"none", "pairing", "enrolled"}, id : Id \cup {0}]]
PollRec    == [at : {"none", "timer", "call", "approved", "saved", "activated"},
               id : Id \cup {0}]
FlightRec  == [at : {"none", "check", "authorize", "launch", "end"}, config : Config]

Shapes ==
  /\ request \in RequestRec /\ restart \in [at : {"none", "start"}, config : Config]
  /\ polls \in [Gen -> PollRec] /\ flights \in [Gen -> FlightRec]

\* Nothing is under way in a process that does not run.
DownIsIdle ==
  phase = "down" =>
    /\ gate = "free" /\ request.at = "none" /\ config = NoConfig /\ ~pending
    /\ \A g \in Gen : polls[g].at = "none" /\ flights[g].at = "none"

\* Only issued identities are used, and every identity gets at most two
\* generations.
IdsIssued == disk.id < nextId /\ config.id < nextId
GenerationBound ==
  generation <= 2 * config.id + (IF config.kind = "pairing" THEN 0 ELSE 1)

\* What the Enroll or StartPairing under way knows.
RequestKnows(r) ==
  /\ r.at = "call" => r.config.kind # "none"
  /\ r.at \in {"gate", "saved", "activated"} =>
       r.config \in Config /\ r.config # NoConfig /\ r.config.id < nextId
  /\ r.at = "gate" => disk.id < r.config.id /\ config.id < r.config.id
  /\ r.at = "saved" => disk = r.config /\ config.id < r.config.id
  /\ r.at = "activated" => disk = r.config /\ config = r.config
  /\ r.at \in {"saved", "activated"} => gate = "request" /\ ~pending

\* What the poll p of generation g knows.
PollKnows(g, p) ==
  /\ p.at # "none" => p.id \in Id /\ p.id < nextId
  /\ p.at = "saved" => /\ generation = g /\ phase # "draining"
                       /\ config = Pairing(p.id) /\ disk = Enrolled(p.id)
  /\ p.at = "activated" => /\ generation = g + 1
                           /\ config = Enrolled(p.id) /\ disk = Enrolled(p.id)
  /\ p.at \in {"saved", "activated"} => gate = "poll" /\ ~pending

\* What the flight f of generation g knows.
FlightKnows(g, f) ==
  /\ f.at # "none" => /\ f.config.kind = "enrolled" /\ g <= generation
                      /\ g = generation => f.config = config
  /\ f.at = "launch" => g = generation /\ disk = config /\ gate = "flight" /\ ~pending

\* pending is not cleared before its time, and only an enrolled Agent updates.
PendingIsRecent == recent = pending /\ (pending => config.kind = "enrolled")

\* The types of everything that Shapes leaves out.
CoreTypes ==
  /\ disk \in Config /\ config \in Config /\ nextId \in 1..(MaxIds + 1)
  /\ decision \in [Id -> {"none", "pending", "approved", "rejected"}] /\ overdue \subseteq Id
  /\ phase \in {"down", "serving", "stopping", "draining"} /\ status \in Status
  /\ generation \in Gen /\ gate \in {"free", "request", "poll", "flight"}
  /\ pending \in BOOLEAN /\ recent \in BOOLEAN
  /\ worker \in Config /\ retired \subseteq Config
  /\ faults \in [run : 0..MaxFaults, file : 0..MaxFileFaults]

PollsKnow   == \A g \in Gen : PollKnows(g, polls[g])
FlightsKnow == \A g \in Gen : FlightKnows(g, flights[g])

ControllerInv ==
  /\ CoreTypes /\ Shapes /\ DownIsIdle /\ IdsIssued /\ GenerationBound
  /\ RequestKnows(request) /\ PollsKnow /\ FlightsKnow
  /\ PendingIsRecent /\ SavedIsActive /\ VerdictIsReal

-----------------------------------------------------------------------------
(* Configurations, and updates of one poll or flight.                      *)

LEMMA NumberLemma ==
  /\ Id \subseteq Nat /\ 0 \notin Id /\ Gen \subseteq Nat /\ 1 \in Gen
  /\ \A i \in Id : i >= 1 /\ i <= MaxIds
  /\ \A g \in Gen : g >= 1 /\ g <= 2 * MaxIds + 1
  /\ \A n \in Nat : n >= 1 /\ n <= 2 * MaxIds + 1 => n \in Gen
BY ControllerAssumption DEF Id, Gen

LEMMA ConfigLemma ==
  /\ NoConfig \in Config
  /\ NoConfig.kind = "none" /\ NoConfig.id = 0
  /\ \A i \in Id : /\ Pairing(i) \in Config /\ Enrolled(i) \in Config
                   /\ Pairing(i).kind = "pairing" /\ Pairing(i).id = i
                   /\ Enrolled(i).kind = "enrolled" /\ Enrolled(i).id = i
  /\ \A c \in Config : /\ c.kind \in {"none", "pairing", "enrolled"} /\ c.id \in Nat
                       /\ c # NoConfig => c.id \in Id /\ c.kind # "none"
                       /\ c.kind = "none" => c = NoConfig
                       /\ c.kind = "pairing" => c = Pairing(c.id) /\ c.id \in Id
                       /\ c.kind = "enrolled" => c = Enrolled(c.id) /\ c.id \in Id
<1>1. \A i \in Id : i \in Nat
  BY NumberLemma
<1> QED BY <1>1 DEF Config, NoConfig, Pairing, Enrolled

LEMMA TypesFollow == CoreTypes /\ Shapes => TypeOK
BY DEF CoreTypes, Shapes, TypeOK, RequestRec, PollRec, FlightRec

LEMMA PollAtLemma ==
  ASSUME Shapes, NEW g \in Gen, NEW p,
         p \in {"none", "timer", "call", "approved", "saved", "activated"}, PollAt(g, p)
  PROVE  \E r \in PollRec : /\ polls' = [polls EXCEPT ![g] = r]
                            /\ r.at = p /\ r.id = polls[g].id
<1> DEFINE r == [polls[g] EXCEPT !.at = p]
<1>1. polls[g] \in PollRec /\ polls \in [Gen -> PollRec]
  BY DEF Shapes
<1>2. r \in PollRec /\ r.at = p /\ r.id = polls[g].id
  BY <1>1 DEF PollRec
<1>3. polls' = [polls EXCEPT ![g] = r]
  BY <1>1 DEF PollAt
<1> QED BY <1>2, <1>3

LEMMA PollEndsLemma ==
  ASSUME Shapes, NEW g \in Gen, PollEnds(g)
  PROVE  \E r \in PollRec : polls' = [polls EXCEPT ![g] = r] /\ r.at = "none"
<1>1. NoPoll \in PollRec /\ NoPoll.at = "none"
  BY DEF NoPoll, PollRec
<1> QED BY <1>1 DEF PollEnds

LEMMA FlightAtLemma ==
  ASSUME Shapes, NEW g \in Gen, NEW p,
         p \in {"none", "check", "authorize", "launch", "end"}, FlightAt(g, p)
  PROVE  \E r \in FlightRec : /\ flights' = [flights EXCEPT ![g] = r]
                              /\ r.at = p /\ r.config = flights[g].config
<1> DEFINE r == [flights[g] EXCEPT !.at = p]
<1>1. flights[g] \in FlightRec /\ flights \in [Gen -> FlightRec]
  BY DEF Shapes
<1>2. r \in FlightRec /\ r.at = p /\ r.config = flights[g].config
  BY <1>1 DEF FlightRec
<1>3. flights' = [flights EXCEPT ![g] = r]
  BY <1>1 DEF FlightAt
<1> QED BY <1>2, <1>3

LEMMA FaultTypes ==
  ASSUME CoreTypes, Fault \/ FileFault
  PROVE  faults' \in [run : 0..MaxFaults, file : 0..MaxFileFaults]
<1>1. /\ faults \in [run : 0..MaxFaults, file : 0..MaxFileFaults]
      /\ faults.run \in Nat /\ faults.file \in Nat
  BY ControllerAssumption DEF CoreTypes
<1>2. CASE Fault
  <2>1. faults.run + 1 \in 0..MaxFaults
    BY <1>1, <1>2, ControllerAssumption DEF Fault
  <2> QED BY <1>1, <1>2, <2>1 DEF Fault
<1>3. CASE FileFault
  <2>1. faults.file + 1 \in 0..MaxFileFaults
    BY <1>1, <1>3, ControllerAssumption DEF FileFault
  <2> QED BY <1>1, <1>3, <2>1 DEF FileFault
<1> QED BY <1>2, <1>3

-----------------------------------------------------------------------------
(* What a step leaves alone.                                               *)

\* A step that touches neither the saved nor the active configuration, the
\* generation, the gate or the update that is pending.
Apart == UNCHANGED <<disk, config, generation, gate, pending, recent>>

LEMMA ApartKeeps ==
  ASSUME ControllerInv, Apart, nextId' \in {nextId, nextId + 1},
         phase' = phase \/ (Up /\ Up' /\ (phase' = "draining" => gate = "free"))
  PROVE  /\ IdsIssued' /\ GenerationBound' /\ PendingIsRecent' /\ SavedIsActive'
         /\ request' = request => RequestKnows(request)'
         /\ polls' = polls => PollsKnow'
         /\ flights' = flights => FlightsKnow'
<1>1. /\ nextId \in Nat /\ nextId' \in Nat /\ disk.id \in Nat /\ config.id \in Nat
      /\ \A n \in Nat : n < nextId => n < nextId'
  BY ConfigLemma, ControllerAssumption DEF ControllerInv, CoreTypes
<1>2. IdsIssued' /\ GenerationBound' /\ PendingIsRecent'
  BY <1>1 DEF ControllerInv, Apart, IdsIssued, GenerationBound, PendingIsRecent
<1>3. SavedIsActive'
  BY DEF ControllerInv, Apart, SavedIsActive, Up
<1>4. ASSUME request' = request PROVE RequestKnows(request)'
  <2>1. request.at \in {"gate", "saved", "activated"} => request.config.id \in Nat
    BY ConfigLemma DEF ControllerInv, RequestKnows
  <2> QED BY <1>1, <1>4, <2>1 DEF ControllerInv, Apart, RequestKnows
<1>5. ASSUME polls' = polls PROVE PollsKnow'
  <2> SUFFICES ASSUME NEW g \in Gen PROVE PollKnows(g, polls[g])'
    BY DEF PollsKnow
  <2>1. PollKnows(g, polls[g])
    BY DEF ControllerInv, PollsKnow
  <2>2. polls[g].at # "none" => polls[g].id \in Nat
    BY <2>1, NumberLemma DEF PollKnows
  <2> QED BY <1>1, <1>5, <2>1, <2>2 DEF Apart, PollKnows
<1>6. ASSUME flights' = flights PROVE FlightsKnow'
  BY <1>6 DEF ControllerInv, Apart, FlightsKnow, FlightKnows
<1> QED BY <1>2, <1>3, <1>4, <1>5, <1>6

\* A step of the poll g that leaves it without the gate.
LEMMA PollMoves ==
  ASSUME ControllerInv, Apart, UNCHANGED <<nextId, phase>>, NEW g \in Gen,
         NEW r \in PollRec, polls' = [polls EXCEPT ![g] = r],
         r.at \in {"none", "timer", "call", "approved"},
         r.at # "none" => r.id \in Id /\ r.id < nextId
  PROVE  PollsKnow' /\ polls' \in [Gen -> PollRec]
<1>1. polls' \in [Gen -> PollRec] /\ polls'[g] = r /\ \A h \in Gen : h # g => polls'[h] = polls[h]
  BY DEF ControllerInv, Shapes
<1> SUFFICES ASSUME NEW h \in Gen PROVE PollKnows(h, polls[h])'
  BY <1>1 DEF PollsKnow
<1>2. CASE h = g
  BY <1>1, <1>2 DEF Apart, PollKnows
<1>3. CASE h # g
  BY <1>1, <1>3 DEF ControllerInv, PollsKnow, Apart, PollKnows
<1> QED BY <1>2, <1>3

LEMMA FlightMoves ==
  ASSUME ControllerInv, Apart, NEW g \in Gen,
         NEW r \in FlightRec, flights' = [flights EXCEPT ![g] = r],
         r.at \in {"none", "check", "authorize", "end"},
         r.at # "none" => /\ r.config.kind = "enrolled" /\ g <= generation
                          /\ g = generation => r.config = config
  PROVE  FlightsKnow' /\ flights' \in [Gen -> FlightRec]
<1>1. /\ flights' \in [Gen -> FlightRec] /\ flights'[g] = r
      /\ \A h \in Gen : h # g => flights'[h] = flights[h]
  BY DEF ControllerInv, Shapes
<1> SUFFICES ASSUME NEW h \in Gen PROVE FlightKnows(h, flights[h])'
  BY <1>1 DEF FlightsKnow
<1>2. CASE h = g
  BY <1>1, <1>2 DEF Apart, FlightKnows
<1>3. CASE h # g
  BY <1>1, <1>3 DEF ControllerInv, FlightsKnow, Apart, FlightKnows
<1> QED BY <1>2, <1>3

\* A verdict stays real while the configuration stays and the status is not
\* about another pairing.
LEMMA VerdictKeeps ==
  ASSUME ControllerInv, config' = config, overdue \subseteq overdue',
         \A i \in Id : decision[i] = "rejected" /\ i < nextId => decision'[i] = "rejected",
         status' = status \/ status'.state \notin {"pairing_rejected", "pairing_expired"}
  PROVE  VerdictIsReal'
<1>1. CASE status' = status
  <2>1. status.state \in {"pairing_rejected", "pairing_expired"} =>
          config = Pairing(status.id) /\ config # NoConfig
    BY DEF ControllerInv, VerdictIsReal, Pairing, NoConfig
  <2>2. status.state \in {"pairing_rejected", "pairing_expired"} =>
          status.id \in Id /\ status.id < nextId
    BY <2>1, ConfigLemma DEF ControllerInv, CoreTypes, IdsIssued, Pairing
  <2> QED BY <1>1, <2>1, <2>2 DEF ControllerInv, VerdictIsReal
<1>2. CASE status'.state \notin {"pairing_rejected", "pairing_expired"}
  BY <1>2 DEF VerdictIsReal
<1> QED BY <1>1, <1>2

LEMMA StatusLemma ==
  /\ OfWorker \in Status /\ OfWorker.state = "worker"
  /\ \A s \in State, i \in Id \cup {0} :
       Shows(s, i) \in Status /\ Shows(s, i).state = s /\ Shows(s, i).id = i
BY DEF OfWorker, Status, State, Shows

-----------------------------------------------------------------------------
LEMMA ControllerInit == Init => ControllerInv
<1> SUFFICES ASSUME Init PROVE ControllerInv
  OBVIOUS
<1>1. CoreTypes
  <2>1. faults \in [run : 0..MaxFaults, file : 0..MaxFileFaults]
    BY ControllerAssumption DEF Init
  <2>2. nextId \in 1..(MaxIds + 1)
    BY ControllerAssumption DEF Init
  <2> QED BY <2>1, <2>2, ConfigLemma, NumberLemma, StatusLemma DEF Init, CoreTypes
<1>2. Shapes
  BY ConfigLemma DEF Init, Shapes, RequestRec, PollRec, FlightRec, NoRequest, NoPoll,
                     NoFlight, NoConfig
<1>3. request.at = "none" /\ \A g \in Gen : polls[g].at = "none" /\ flights[g].at = "none"
  BY DEF Init, NoRequest, NoPoll, NoFlight
<1>4. DownIsIdle /\ IdsIssued /\ GenerationBound
  BY <1>3, ConfigLemma DEF Init, DownIsIdle, IdsIssued, GenerationBound
<1>5. RequestKnows(request) /\ PollsKnow /\ FlightsKnow
  BY <1>3 DEF RequestKnows, PollsKnow, PollKnows, FlightsKnow, FlightKnows
<1>6. PendingIsRecent /\ SavedIsActive /\ VerdictIsReal
  BY StatusLemma DEF Init, PendingIsRecent, SavedIsActive, VerdictIsReal
<1> QED BY <1>1, <1>2, <1>4, <1>5, <1>6 DEF ControllerInv

-----------------------------------------------------------------------------
(* Steps beside the configuration.                                         *)

\* Worker reports, stops and the server's side of pairing.
LEMMA StatusStep ==
  ASSUME ControllerInv, Apart, UNCHANGED <<nextId, request, polls, flights>>,
         phase' = phase \/ (Up /\ Up' /\ (phase' = "draining" => gate = "free")),
         CoreTypes', Shapes', VerdictIsReal'
  PROVE  ControllerInv'
<1>1. DownIsIdle'
  BY DEF ControllerInv, DownIsIdle, Apart, Up
<1> QED BY <1>1, ApartKeeps DEF ControllerInv

LEMMA WorkerInv ==
  ASSUME ControllerInv, WorkerStep \/ \E c \in {worker} \cup retired : ReportStatus(c)
  PROVE  ControllerInv'
<1>1. /\ Apart /\ UNCHANGED <<nextId, request, polls, flights, phase, decision, overdue, restart,
                              faults>>
      /\ status' = OfWorker /\ worker' \in {worker, NoConfig} /\ retired' \subseteq retired
  BY DEF WorkerStep, WorkerEnds, RetiredEnds, ReportStatus, Apart, serverVars, updateVars,
         workerVars
<1>2. CoreTypes' /\ Shapes'
  BY <1>1, StatusLemma, ConfigLemma DEF ControllerInv, CoreTypes, Shapes, Apart
<1>3. VerdictIsReal'
  BY <1>1, StatusLemma, VerdictKeeps DEF Apart
<1> QED BY <1>1, <1>2, <1>3, StatusStep

LEMMA StopInv ==
  ASSUME ControllerInv, Stop \/ Shutdown
  PROVE  ControllerInv'
<1>1. /\ Apart /\ UNCHANGED <<nextId, request, polls, flights, decision, overdue, restart,
                              worker, retired, status>>
      /\ phase' \in {"stopping", "draining"} /\ Up /\ Up' /\ (phase' = "draining" => gate = "free")
  BY DEF Stop, Shutdown, Apart, serverVars, updateVars, workerVars, Up, GateFree
<1>2. faults' \in [run : 0..MaxFaults, file : 0..MaxFileFaults]
  BY FaultTypes DEF Stop, Shutdown, ControllerInv, CoreTypes
<1>3. CoreTypes' /\ Shapes'
  BY <1>1, <1>2 DEF ControllerInv, CoreTypes, Shapes, Apart
<1>4. VerdictIsReal'
  BY <1>1, VerdictKeeps DEF Apart
<1> QED BY <1>1, <1>3, <1>4, StatusStep

LEMMA ServerInv ==
  ASSUME ControllerInv, NEW i \in Id,
         Expire(i) \/ Decide(i, "approved") \/ Decide(i, "rejected")
  PROVE  ControllerInv'
<1>1. /\ Apart /\ UNCHANGED <<nextId, request, polls, flights, restart, phase,
                              worker, retired, status, faults>>
      /\ overdue' \in {overdue, overdue \cup {i}}
      /\ \/ decision' = decision
         \/ decision[i] = "pending" /\ decision' = [decision EXCEPT ![i] = "approved"]
         \/ decision[i] = "pending" /\ decision' = [decision EXCEPT ![i] = "rejected"]
  BY DEF Expire, Decide, Apart, updateVars, workerVars
<1>2. CoreTypes' /\ Shapes'
  BY <1>1 DEF ControllerInv, CoreTypes, Shapes, Apart
<1>3. \A j \in Id : decision[j] = "rejected" => decision'[j] = "rejected"
  BY <1>1 DEF ControllerInv, CoreTypes
<1>4. VerdictIsReal'
  BY <1>1, <1>3, VerdictKeeps DEF Apart
<1> QED BY <1>1, <1>2, <1>4, StatusStep

LEMMA RestartInv ==
  ASSUME ControllerInv, RestartRead \/ RestartStart
  PROVE  ControllerInv'
<1>1. /\ Apart /\ UNCHANGED <<nextId, request, polls, flights, phase, decision, overdue, faults>>
      /\ status' \in {status, OfWorker}
  BY DEF RestartRead, RestartStart, StartWorker, Apart, serverVars, updateVars, workerVars
<1>2. restart' \in [at : {"none", "start"}, config : Config]
  BY ConfigLemma DEF RestartRead, RestartStart, ControllerInv, CoreTypes, NoRequest
<1>3. worker' \in Config /\ retired' \subseteq Config
  BY DEF RestartRead, RestartStart, StartWorker, workerVars, ControllerInv, CoreTypes, Shapes
<1>4. CoreTypes' /\ Shapes'
  BY <1>1, <1>2, <1>3, StatusLemma DEF ControllerInv, CoreTypes, Shapes, Apart
<1>5. VerdictIsReal'
  BY <1>1, StatusLemma, VerdictKeeps DEF Apart
<1> QED BY <1>1, <1>4, <1>5, StatusStep

-----------------------------------------------------------------------------
(* Update flights.                                                         *)

\* A flight exists only in a process that runs.
LEMMA FlightUp ==
  ASSUME ControllerInv, NEW g \in Gen, flights[g].at # "none"
  PROVE  Up
BY DEF ControllerInv, DownIsIdle, Up

\* A flight that does not touch the gate.
LEMMA FlightBeside ==
  ASSUME ControllerInv, Up, Apart, FlightUnchanged, UNCHANGED status,
         FlightsKnow', flights' \in [Gen -> FlightRec]
  PROVE  ControllerInv'
<1>1. UNCHANGED <<nextId, request, polls, phase, decision, overdue, restart, worker, retired, faults>>
  BY DEF FlightUnchanged, serverVars, workerVars
<1>2. CoreTypes' /\ Shapes'
  BY <1>1 DEF ControllerInv, CoreTypes, Shapes, Apart
<1>3. VerdictIsReal'
  BY <1>1, VerdictKeeps DEF Apart
<1>4. DownIsIdle'
  BY <1>1 DEF DownIsIdle, Up
<1> QED BY <1>1, <1>2, <1>3, <1>4, ApartKeeps DEF ControllerInv

LEMMA CheckUpdateInv == ControllerInv /\ CheckUpdate => ControllerInv'
<1> SUFFICES ASSUME ControllerInv, CheckUpdate PROVE ControllerInv'
  OBVIOUS
<1> DEFINE r == [at |-> "check", config |-> config]
<1>1. /\ Apart /\ Up /\ FlightUnchanged /\ UNCHANGED status /\ generation \in Gen
      /\ flights' = [flights EXCEPT ![generation] = r]
  BY DEF CheckUpdate, FlightUnchanged, Apart, Up, ControllerInv, CoreTypes
<1>2. r \in FlightRec /\ r.at = "check" /\ r.config = config /\ r.config.kind = "enrolled"
  BY DEF CheckUpdate, FlightRec, ControllerInv, CoreTypes
<1>3. generation <= generation
  BY <1>1, NumberLemma
<1> HIDE DEF r
<1>4. FlightsKnow' /\ flights' \in [Gen -> FlightRec]
  BY <1>1, <1>2, <1>3, FlightMoves
<1> QED BY <1>1, <1>4, FlightBeside

LEMMA FlightBesideInv ==
  ASSUME ControllerInv, NEW g \in Gen,
         FlightChecked(g) \/ FlightEnds(g) \/ (Authorize(g) /\ ~MayLaunch(g))
  PROVE  ControllerInv'
<1>1. Apart /\ FlightUnchanged /\ UNCHANGED status /\ flights[g].at # "none"
  BY DEF FlightChecked, FlightEnds, Authorize, FlightUnchanged, Apart
<1>2. FlightKnows(g, flights[g])
  BY DEF ControllerInv, FlightsKnow
<1>3. PICK r \in FlightRec :
        /\ flights' = [flights EXCEPT ![g] = r]
        /\ r.at \in {"none", "authorize", "end"}
        /\ r.at # "none" => r.config = flights[g].config
  <2>1. CASE FlightChecked(g)
    BY <2>1, FlightAtLemma DEF FlightChecked, ControllerInv
  <2>2. CASE FlightEnds(g)
    <3>1. NoFlight \in FlightRec /\ NoFlight.at = "none"
      BY ConfigLemma DEF NoFlight, FlightRec
    <3> QED BY <2>2, <3>1 DEF FlightEnds
  <2>3. CASE Authorize(g) /\ ~MayLaunch(g)
    BY <2>3, FlightAtLemma DEF Authorize, ControllerInv
  <2> QED BY <2>1, <2>2, <2>3
<1>4. FlightsKnow' /\ flights' \in [Gen -> FlightRec]
  BY <1>1, <1>2, <1>3, FlightMoves DEF FlightKnows
<1> QED BY <1>1, <1>4, FlightUp, FlightBeside

\* The gate is taken over the configuration that is saved and active.
LEMMA AuthorizeInv ==
  ASSUME ControllerInv, NEW g \in Gen, Authorize(g), MayLaunch(g)
  PROVE  ControllerInv'
<1>1. /\ UNCHANGED <<disk, nextId, decision, overdue, phase, config, generation, request, restart,
                     polls, worker, retired, faults, status, pending, recent>>
      /\ gate = "free" /\ gate' = "flight" /\ flights[g].at = "authorize"
      /\ g = generation /\ ~pending /\ FlightAt(g, "launch")
  BY DEF Authorize, MayLaunch, FlightUnchanged, serverVars, workerVars, GateFree
<1>2. Up
  BY <1>1, FlightUp
<1>3. PICK r \in FlightRec : /\ flights' = [flights EXCEPT ![g] = r]
                             /\ r.at = "launch" /\ r.config = flights[g].config
  BY <1>1, FlightAtLemma DEF ControllerInv
<1>4. /\ flights' \in [Gen -> FlightRec] /\ flights'[g] = r
      /\ \A h \in Gen : h # g => flights'[h] = flights[h]
  BY <1>3 DEF ControllerInv, Shapes
<1>5. config = flights[g].config /\ config.kind = "enrolled" /\ disk = config
  <2>1. config = flights[g].config /\ config.kind = "enrolled"
    BY <1>1 DEF ControllerInv, FlightsKnow, FlightKnows
  <2> QED BY <1>1, <1>2, <2>1, ConfigLemma DEF ControllerInv, SavedIsActive
<1>6. CoreTypes' /\ Shapes'
  BY <1>1, <1>4 DEF ControllerInv, CoreTypes, Shapes
<1>7. DownIsIdle' /\ SavedIsActive'
  BY <1>1, <1>2 DEF DownIsIdle, SavedIsActive, Up
<1>8. IdsIssued' /\ GenerationBound' /\ PendingIsRecent' /\ VerdictIsReal'
  BY <1>1 DEF ControllerInv, IdsIssued, GenerationBound, PendingIsRecent, VerdictIsReal
<1>9. RequestKnows(request)'
  BY <1>1 DEF ControllerInv, RequestKnows
<1>10. PollsKnow'
  BY <1>1 DEF ControllerInv, PollsKnow, PollKnows
<1>11. FlightsKnow'
  <2> SUFFICES ASSUME NEW h \in Gen PROVE FlightKnows(h, flights[h])'
    BY DEF FlightsKnow
  <2>1. CASE h = g
    <3>1. g <= generation
      BY <1>1, NumberLemma
    <3> QED BY <1>1, <1>3, <1>4, <1>5, <2>1, <3>1 DEF FlightKnows
  <2>2. CASE h # g
    BY <1>1, <1>4, <2>2 DEF ControllerInv, FlightsKnow, FlightKnows
  <2> QED BY <2>1, <2>2
<1> QED BY <1>6, <1>7, <1>8, <1>9, <1>10, <1>11 DEF ControllerInv

LEMMA LaunchInv ==
  ASSUME ControllerInv, NEW g \in Gen, Launch(g)
  PROVE  ControllerInv'
<1>1. /\ UNCHANGED <<disk, nextId, decision, overdue, phase, config, generation, request, restart,
                     polls, worker, retired, faults>>
      /\ gate' = "free" /\ flights[g].at = "launch" /\ FlightAt(g, "end")
      /\ \/ status' = Shows("updating", 0) /\ pending' = TRUE /\ recent' = TRUE
         \/ UNCHANGED <<status, pending, recent>>
  BY DEF Launch, FlightUnchanged, serverVars, workerVars
<1>2. /\ g = generation /\ disk = config /\ gate = "flight" /\ ~pending
      /\ config.kind = "enrolled" /\ config = flights[g].config /\ g <= generation
  BY <1>1 DEF ControllerInv, FlightsKnow, FlightKnows
<1>3. Up
  BY <1>1, FlightUp
<1>4. PICK r \in FlightRec : /\ flights' = [flights EXCEPT ![g] = r]
                             /\ r.at = "end" /\ r.config = flights[g].config
  BY <1>1, FlightAtLemma DEF ControllerInv
<1>5. /\ flights' \in [Gen -> FlightRec] /\ flights'[g] = r
      /\ \A h \in Gen : h # g => flights'[h] = flights[h]
  BY <1>4 DEF ControllerInv, Shapes
<1>6. CoreTypes' /\ Shapes'
  <2>0. Shows("updating", 0) \in Status
    BY StatusLemma DEF State
  <2>1. status' \in Status /\ pending' \in BOOLEAN /\ recent' \in BOOLEAN
    BY <1>1, <2>0 DEF ControllerInv, CoreTypes
  <2> QED BY <1>1, <1>5, <2>1 DEF ControllerInv, CoreTypes, Shapes
<1>7. DownIsIdle' /\ SavedIsActive'
  BY <1>1, <1>2, <1>3 DEF DownIsIdle, SavedIsActive, Up
<1>8. IdsIssued' /\ GenerationBound' /\ PendingIsRecent'
  BY <1>1, <1>2 DEF ControllerInv, IdsIssued, GenerationBound, PendingIsRecent
<1>9. VerdictIsReal'
  BY <1>1, StatusLemma, VerdictKeeps DEF State
<1>10. RequestKnows(request)'
  BY <1>1, <1>2 DEF ControllerInv, RequestKnows
<1>11. PollsKnow'
  BY <1>1, <1>2 DEF ControllerInv, PollsKnow, PollKnows
<1>12. FlightsKnow'
  <2> SUFFICES ASSUME NEW h \in Gen PROVE FlightKnows(h, flights[h])'
    BY DEF FlightsKnow
  <2>1. CASE h = g
    BY <1>1, <1>2, <1>4, <1>5, <2>1 DEF FlightKnows
  <2>2. CASE h # g
    BY <1>1, <1>2, <1>5, <2>2 DEF ControllerInv, FlightsKnow, FlightKnows
  <2> QED BY <2>1, <2>2
<1> QED BY <1>6, <1>7, <1>8, <1>9, <1>10, <1>11, <1>12 DEF ControllerInv

LEMMA PendingExpiresInv == ControllerInv /\ PendingExpires => ControllerInv'
<1> SUFFICES ASSUME ControllerInv, PendingExpires PROVE ControllerInv'
  OBVIOUS
<1>1. /\ UNCHANGED <<disk, nextId, decision, overdue, phase, config, generation, request, restart,
                     polls, worker, retired, faults, flights, status, gate>>
      /\ pending' = FALSE /\ recent' = FALSE
  BY DEF PendingExpires, FlightUnchanged, serverVars, workerVars
<1>2. CoreTypes' /\ Shapes' /\ DownIsIdle' /\ IdsIssued' /\ GenerationBound'
  BY <1>1 DEF ControllerInv, CoreTypes, Shapes, DownIsIdle, IdsIssued, GenerationBound
<1>3. RequestKnows(request)' /\ PollsKnow' /\ FlightsKnow'
  BY <1>1 DEF ControllerInv, RequestKnows, PollsKnow, PollKnows, FlightsKnow, FlightKnows
<1>4. PendingIsRecent' /\ SavedIsActive' /\ VerdictIsReal'
  BY <1>1 DEF ControllerInv, PendingIsRecent, SavedIsActive, VerdictIsReal, Up
<1> QED BY <1>2, <1>3, <1>4 DEF ControllerInv

-----------------------------------------------------------------------------
(* Pairing polls.                                                          *)

\* A poll at work belongs to a process that runs, and asks for an identity.
LEMMA PollUp ==
  ASSUME ControllerInv, NEW g \in Gen, polls[g].at # "none"
  PROVE  Up /\ polls[g].id \in Id /\ polls[g].id < nextId
BY DEF ControllerInv, DownIsIdle, Up, PollsKnow, PollKnows

\* A poll that leaves the gate and the configuration alone.
LEMMA PollBeside ==
  ASSUME ControllerInv, Up, Apart,
         UNCHANGED <<nextId, phase, decision, overdue, request, restart, flights, worker, retired>>,
         faults' \in [run : 0..MaxFaults, file : 0..MaxFileFaults],
         status' \in Status, VerdictIsReal', PollsKnow', polls' \in [Gen -> PollRec]
  PROVE  ControllerInv'
<1>1. CoreTypes' /\ Shapes'
  BY DEF ControllerInv, CoreTypes, Shapes, Apart
<1>2. DownIsIdle'
  BY DEF DownIsIdle, Up
<1> QED BY <1>1, <1>2, ApartKeeps DEF ControllerInv

\* setPairingTerminalState changes only the status of the pairing it is about.
LEMMA VerdictLemma ==
  ASSUME ControllerInv, Up, Apart, NEW g \in Gen, polls[g].at # "none",
         NEW s \in {"pairing_rejected", "pairing_expired", "error"}, Verdict(g, s),
         s = "pairing_rejected" => decision[polls[g].id] = "rejected",
         s = "pairing_expired" => polls[g].id \in overdue,
         UNCHANGED <<nextId, phase, decision, overdue, request, restart, flights, worker, retired>>,
         faults' \in [run : 0..MaxFaults, file : 0..MaxFileFaults]
  PROVE  ControllerInv'
<1>1. PICK r \in PollRec : polls' = [polls EXCEPT ![g] = r] /\ r.at = "none"
  BY PollEndsLemma DEF ControllerInv, Verdict
<1>2. PollsKnow' /\ polls' \in [Gen -> PollRec]
  BY <1>1, PollMoves
<1>3. polls[g].id \in Id /\ config.id \in Id \cup {0}
  BY PollUp, ConfigLemma DEF ControllerInv, CoreTypes
<1>4. CASE IsCurrent(g)
  <2>1. config = Pairing(polls[g].id) /\ config.id = polls[g].id
    BY <1>3, <1>4, ConfigLemma DEF IsCurrent
  <2>2. /\ status' = Shows(s, config.id) /\ status' \in Status
        /\ status'.state = s /\ status'.id = polls[g].id
    <3>1. s \in State
      BY DEF State
    <3> QED BY <1>3, <1>4, <2>1, <3>1, StatusLemma DEF Verdict
  <2>3. VerdictIsReal'
    BY <2>1, <2>2 DEF VerdictIsReal, Apart
  <2> QED BY <1>2, <2>2, <2>3, PollBeside
<1>5. CASE ~IsCurrent(g)
  <2>1. status' = status /\ status' \in Status
    BY <1>5 DEF Verdict, ControllerInv, CoreTypes
  <2>2. VerdictIsReal'
    BY <2>1, VerdictKeeps DEF Apart
  <2> QED BY <1>2, <2>1, <2>2, PollBeside
<1> QED BY <1>4, <1>5

\* A poll that goes to another round or ends without a verdict.
LEMMA PollRound ==
  ASSUME ControllerInv, Up, Apart, NEW g \in Gen, polls[g].at # "none",
         PollEnds(g) \/ PollAt(g, "timer") \/ PollAt(g, "call") \/ PollAt(g, "approved"),
         UNCHANGED <<nextId, phase, decision, overdue, request, restart, flights, worker, retired,
                     status>>,
         faults' \in [run : 0..MaxFaults, file : 0..MaxFileFaults]
  PROVE  ControllerInv'
<1>1. Shapes
  BY DEF ControllerInv
<1>2. PICK r \in PollRec :
        /\ polls' = [polls EXCEPT ![g] = r]
        /\ r.at \in {"none", "timer", "call", "approved"}
        /\ r.at # "none" => r.id = polls[g].id
  BY <1>1, PollEndsLemma, PollAtLemma
<1>3. PollsKnow' /\ polls' \in [Gen -> PollRec]
  BY <1>2, PollMoves, PollUp
<1>4. VerdictIsReal' /\ status' \in Status
  BY VerdictKeeps DEF Apart, ControllerInv, CoreTypes
<1> QED BY <1>3, <1>4, PollBeside

LEMMA PollFiresInv ==
  ASSUME ControllerInv, NEW g \in Gen, PollFires(g)
  PROVE  ControllerInv'
<1>1. /\ Apart /\ polls[g].at # "none" /\ Up
      /\ UNCHANGED <<nextId, phase, decision, overdue, request, restart, flights, worker, retired>>
      /\ faults' \in [run : 0..MaxFaults, file : 0..MaxFileFaults]
  BY PollUp DEF PollFires, PollUnchanged, Apart, serverVars, updateVars, workerVars,
                ControllerInv, CoreTypes
<1>2. CASE (PollEnds(g) \/ PollAt(g, "call")) /\ UNCHANGED status
  BY <1>1, <1>2, PollRound
<1>3. CASE polls[g].id \in overdue /\ Verdict(g, "pairing_expired")
  BY <1>1, <1>3, VerdictLemma
<1> QED BY <1>2, <1>3 DEF PollFires

LEMMA PollAnswersInv ==
  ASSUME ControllerInv, NEW g \in Gen, PollAnswers(g)
  PROVE  ControllerInv'
<1>1. /\ Apart /\ polls[g].at # "none" /\ Up
      /\ UNCHANGED <<nextId, phase, decision, overdue, request, restart, flights, worker, retired>>
  BY PollUp DEF PollAnswers, PollUnchanged, Apart, serverVars, updateVars, workerVars
<1>2. faults' \in [run : 0..MaxFaults, file : 0..MaxFileFaults]
  BY FaultTypes DEF PollAnswers, ControllerInv, CoreTypes
<1>3. CASE (PollAgain(g) \/ PollAt(g, "approved")) /\ UNCHANGED status
  BY <1>1, <1>2, <1>3, PollRound DEF PollAgain
<1>4. CASE decision[polls[g].id] = "rejected" /\ Verdict(g, "pairing_rejected")
  BY <1>1, <1>2, <1>4, VerdictLemma
<1>5. CASE polls[g].id \in overdue /\ Verdict(g, "pairing_expired")
  BY <1>1, <1>2, <1>5, VerdictLemma
<1> QED BY <1>3, <1>4, <1>5 DEF PollAnswers

\* Nobody else is past the gate when it is free.
LEMMA GateIsFree ==
  ASSUME ControllerInv, gate = "free"
  PROVE  /\ request.at \notin {"saved", "activated"}
         /\ \A g \in Gen : polls[g].at \notin {"saved", "activated"} /\ flights[g].at # "launch"
BY DEF ControllerInv, RequestKnows, PollsKnow, PollKnows, FlightsKnow, FlightKnows

LEMMA ApproveSaveInv ==
  ASSUME ControllerInv, NEW g \in Gen, ApproveSave(g)
  PROVE  ControllerInv'
<1>1. /\ polls[g].at = "approved" /\ Up /\ polls[g].id \in Id /\ polls[g].id < nextId
      /\ UNCHANGED <<nextId, phase, decision, overdue, request, restart, flights, worker, retired,
                     config, generation, pending, recent>>
  BY PollUp DEF ApproveSave, PollUnchanged, serverVars, updateVars, workerVars
<1>2. CASE PollEnds(g) /\ UNCHANGED <<disk, gate, status, faults>>
  BY <1>1, <1>2, PollRound DEF Apart, ControllerInv, CoreTypes
<1>3. CASE FileFault /\ Verdict(g, "error") /\ UNCHANGED <<disk, gate>>
  BY <1>1, <1>3, FaultTypes, VerdictLemma DEF Apart, ControllerInv
<1>4. CASE /\ GateFree /\ IsCurrent(g) /\ disk' = Enrolled(polls[g].id) /\ gate' = "poll"
           /\ PollAt(g, "saved") /\ UNCHANGED <<status, faults>>
  <2>1. /\ gate = "free" /\ generation = g /\ config = Pairing(polls[g].id)
        /\ phase # "draining" /\ config # NoConfig /\ config.kind = "pairing"
        /\ config.id = polls[g].id
    BY <1>1, <1>4, ConfigLemma DEF IsCurrent, ShuttingDown, GateFree
  <2>2. disk = config /\ ~pending
    BY <1>1, <2>1 DEF ControllerInv, SavedIsActive, PendingIsRecent
  <2>3. PICK r \in PollRec : /\ polls' = [polls EXCEPT ![g] = r]
                             /\ r.at = "saved" /\ r.id = polls[g].id
    BY <1>4, PollAtLemma DEF ControllerInv
  <2>4. /\ polls' \in [Gen -> PollRec] /\ polls'[g] = r
        /\ \A h \in Gen : h # g => polls'[h] = polls[h]
    BY <2>3 DEF ControllerInv, Shapes
  <2>5. disk' \in Config /\ disk'.id = disk.id
    BY <1>1, <1>4, <2>1, <2>2, ConfigLemma
  <2>6. CoreTypes' /\ Shapes'
    BY <1>1, <1>4, <2>4, <2>5 DEF ControllerInv, CoreTypes, Shapes
  <2>7. DownIsIdle' /\ SavedIsActive'
    BY <1>1, <1>4 DEF DownIsIdle, SavedIsActive, Up
  <2>8. IdsIssued' /\ GenerationBound' /\ PendingIsRecent' /\ VerdictIsReal'
    BY <1>1, <1>4, <2>5
    DEF ControllerInv, IdsIssued, GenerationBound, PendingIsRecent, VerdictIsReal
  <2>9. RequestKnows(request)'
    BY <1>1, <2>1, <2>5, GateIsFree DEF ControllerInv, RequestKnows
  <2>10. PollsKnow'
    <3> SUFFICES ASSUME NEW h \in Gen PROVE PollKnows(h, polls[h])'
      BY DEF PollsKnow
    <3>1. CASE h = g
      BY <1>1, <1>4, <2>1, <2>2, <2>3, <2>4, <3>1 DEF PollKnows
    <3>2. CASE h # g
      BY <1>1, <2>1, <2>4, <3>2, GateIsFree DEF ControllerInv, PollsKnow, PollKnows
    <3> QED BY <3>1, <3>2
  <2>11. FlightsKnow'
    BY <1>1, <2>1, GateIsFree DEF ControllerInv, FlightsKnow, FlightKnows
  <2> QED BY <2>6, <2>7, <2>8, <2>9, <2>10, <2>11 DEF ControllerInv
<1> QED BY <1>2, <1>3, <1>4 DEF ApproveSave

\* The poll that holds the gate holds it alone.
LEMMA PollHolds ==
  ASSUME ControllerInv, NEW g \in Gen, polls[g].at \in {"saved", "activated"}
  PROVE  /\ gate = "poll" /\ request.at \notin {"saved", "activated"} /\ ~pending
         /\ \A h \in Gen : /\ h # g => polls[h].at \notin {"saved", "activated"}
                           /\ flights[h].at # "launch"
<1>1. PollKnows(g, polls[g]) /\ polls[g].id \in Id /\ gate = "poll" /\ ~pending
  BY DEF ControllerInv, PollsKnow, PollKnows
<1>2. request.at \notin {"saved", "activated"} /\ \A h \in Gen : flights[h].at # "launch"
  BY <1>1 DEF ControllerInv, RequestKnows, FlightsKnow, FlightKnows
<1>3. ASSUME NEW h \in Gen, polls[h].at \in {"saved", "activated"}
      PROVE  h = g
  <2>1. PollKnows(h, polls[h]) /\ polls[h].id \in Id
    BY <1>3 DEF ControllerInv, PollsKnow, PollKnows
  <2>2. polls[h].at = polls[g].at
    BY <1>1, <1>3, <2>1, ConfigLemma DEF PollKnows
  <2>3. h \in Nat /\ g \in Nat
    BY NumberLemma
  <2> QED BY <1>1, <1>3, <2>1, <2>2, <2>3 DEF PollKnows
<1> QED BY <1>1, <1>2, <1>3

\* The next generation has no flight yet, whatever older ones still have.
LEMMA FlightsOfOlder ==
  ASSUME ControllerInv, generation' = generation + 1, flights' = flights,
         \A h \in Gen : flights[h].at # "launch"
  PROVE  FlightsKnow'
<1> SUFFICES ASSUME NEW h \in Gen PROVE FlightKnows(h, flights[h])'
  BY DEF FlightsKnow
<1>1. FlightKnows(h, flights[h]) /\ flights[h].at # "launch"
  BY DEF ControllerInv, FlightsKnow
<1>2. h \in Nat /\ generation \in Nat
  BY NumberLemma DEF ControllerInv, CoreTypes
<1>3. h <= generation => h <= generation + 1 /\ h # generation + 1
  BY <1>2
<1> QED BY <1>1, <1>3 DEF FlightKnows

LEMMA ApproveActivateInv ==
  ASSUME ControllerInv, NEW g \in Gen, ApproveActivate(g)
  PROVE  ControllerInv'
<1> DEFINE i == polls[g].id
<1>1. /\ polls[g].at = "saved" /\ Up /\ i \in Id /\ i < nextId
      /\ UNCHANGED <<disk, nextId, phase, decision, overdue, request, restart, flights, worker,
                     retired, recent, faults>>
  BY PollUp DEF ApproveActivate, serverVars, workerVars
<1>2. /\ generation = g /\ phase # "draining" /\ config = Pairing(i) /\ disk = Enrolled(i)
      /\ gate = "poll" /\ ~pending
  BY <1>1 DEF ControllerInv, PollsKnow, PollKnows
<1>3. IsCurrent(g)
  BY <1>2 DEF IsCurrent, ShuttingDown
<1>4. /\ generation' = generation + 1 /\ config' = Enrolled(i) /\ pending' = FALSE
      /\ status' = OfWorker /\ PollAt(g, "activated") /\ gate' = gate
  BY <1>3 DEF ApproveActivate, Activate
<1>5. PICK r \in PollRec : polls' = [polls EXCEPT ![g] = r] /\ r.at = "activated" /\ r.id = i
  BY <1>4, PollAtLemma DEF ControllerInv
<1>6. /\ polls' \in [Gen -> PollRec] /\ polls'[g] = r
      /\ \A h \in Gen : h # g => polls'[h] = polls[h]
  BY <1>5 DEF ControllerInv, Shapes
<1>7. /\ config'.id = i /\ config'.kind = "enrolled" /\ config' \in Config
      /\ config.id = i /\ config.kind = "pairing"
  BY <1>1, <1>2, <1>4, ConfigLemma
<1>8. generation' \in Gen /\ generation' <= 2 * i + 1
  <2>1. generation \in Nat /\ generation >= 1 /\ i \in Nat /\ i <= MaxIds
    BY <1>1, NumberLemma DEF ControllerInv, CoreTypes
  <2>2. generation <= 2 * i + 0
    BY <1>7 DEF ControllerInv, GenerationBound
  <2> HIDE DEF i
  <2> QED BY <1>4, <2>1, <2>2, ControllerAssumption DEF Gen
<1>9. CoreTypes' /\ Shapes'
  BY <1>1, <1>4, <1>6, <1>7, <1>8, StatusLemma DEF ControllerInv, CoreTypes, Shapes
<1>10. DownIsIdle' /\ SavedIsActive' /\ VerdictIsReal'
  BY <1>1, <1>2, <1>4, StatusLemma DEF DownIsIdle, SavedIsActive, VerdictIsReal, Up
<1>11. IdsIssued' /\ GenerationBound' /\ PendingIsRecent'
  <2>1. recent' = FALSE
    BY <1>1, <1>2 DEF ControllerInv, PendingIsRecent, CoreTypes
  <2>2. PendingIsRecent'
    BY <1>4, <2>1 DEF PendingIsRecent
  <2>3. IdsIssued'
    BY <1>1, <1>2, <1>7, ConfigLemma DEF IdsIssued
  <2>4. GenerationBound'
    BY <1>7, <1>8 DEF GenerationBound
  <2> QED BY <2>2, <2>3, <2>4
<1>12. RequestKnows(request)'
  BY <1>1, <1>4, <1>7, PollHolds DEF ControllerInv, RequestKnows
<1>13. PollsKnow'
  <2> SUFFICES ASSUME NEW h \in Gen PROVE PollKnows(h, polls[h])'
    BY DEF PollsKnow
  <2>1. CASE h = g
    BY <1>1, <1>2, <1>4, <1>5, <1>6, <2>1 DEF PollKnows
  <2>2. CASE h # g
    BY <1>1, <1>6, <2>2, PollHolds DEF ControllerInv, PollsKnow, PollKnows
  <2> QED BY <2>1, <2>2
<1>14. FlightsKnow'
  BY <1>1, <1>4, PollHolds, FlightsOfOlder
<1> QED BY <1>9, <1>10, <1>11, <1>12, <1>13, <1>14 DEF ControllerInv

\* A worker is started or, in a process that shuts down, not.
LEMMA StartWorkerLemma ==
  ASSUME ControllerInv, NEW c \in Config, StartWorker(c)
  PROVE  worker' \in Config /\ retired' \subseteq Config /\ status' \in {status, OfWorker}
BY DEF StartWorker, ControllerInv, CoreTypes

LEMMA ApproveStartInv ==
  ASSUME ControllerInv, NEW g \in Gen, ApproveStart(g)
  PROVE  ControllerInv'
<1> DEFINE i == polls[g].id
<1>1. /\ polls[g].at = "activated" /\ Up /\ i \in Id /\ i < nextId
      /\ UNCHANGED <<disk, nextId, phase, decision, overdue, config, generation, request, restart,
                     flights, pending, recent, faults>>
      /\ gate' = "free" /\ PollEnds(g) /\ StartWorker(Enrolled(i))
  BY PollUp DEF ApproveStart, serverVars, updateVars
<1>2. config = Enrolled(i) /\ disk = config /\ gate = "poll"
  BY <1>1 DEF ControllerInv, PollsKnow, PollKnows
<1>3. PICK r \in PollRec : polls' = [polls EXCEPT ![g] = r] /\ r.at = "none"
  BY <1>1, PollEndsLemma DEF ControllerInv
<1>4. /\ polls' \in [Gen -> PollRec] /\ polls'[g] = r
      /\ \A h \in Gen : h # g => polls'[h] = polls[h]
  BY <1>3 DEF ControllerInv, Shapes
<1>5. worker' \in Config /\ retired' \subseteq Config /\ status' \in {status, OfWorker}
  BY <1>1, ConfigLemma, StartWorkerLemma
<1>6. CoreTypes' /\ Shapes'
  BY <1>1, <1>4, <1>5, StatusLemma DEF ControllerInv, CoreTypes, Shapes
<1>7. DownIsIdle' /\ SavedIsActive'
  BY <1>1, <1>2 DEF DownIsIdle, SavedIsActive, Up
<1>8. VerdictIsReal'
  BY <1>1, <1>5, StatusLemma, VerdictKeeps
<1>9. IdsIssued' /\ GenerationBound' /\ PendingIsRecent'
  BY <1>1 DEF ControllerInv, IdsIssued, GenerationBound, PendingIsRecent
<1>10. RequestKnows(request)'
  BY <1>1, PollHolds DEF ControllerInv, RequestKnows
<1>11. PollsKnow'
  <2> SUFFICES ASSUME NEW h \in Gen PROVE PollKnows(h, polls[h])'
    BY DEF PollsKnow
  <2>1. CASE h = g
    BY <1>3, <1>4, <2>1 DEF PollKnows
  <2>2. CASE h # g
    BY <1>1, <1>4, <2>2, PollHolds DEF ControllerInv, PollsKnow, PollKnows
  <2> QED BY <2>1, <2>2
<1>12. FlightsKnow'
  BY <1>1, PollHolds DEF ControllerInv, FlightsKnow, FlightKnows
<1> QED BY <1>6, <1>7, <1>8, <1>9, <1>10, <1>11, <1>12 DEF ControllerInv

-----------------------------------------------------------------------------
(* Enroll and StartPairing.                                                *)

LEMMA RequestUp ==
  ASSUME ControllerInv, request.at # "none"
  PROVE  Up
BY DEF ControllerInv, DownIsIdle, Up

\* A request that leaves the gate and the configuration alone.
LEMMA RequestBeside ==
  ASSUME ControllerInv, Up, Apart, nextId' \in {nextId, nextId + 1}, nextId' \in 1..(MaxIds + 1),
         UNCHANGED <<phase, overdue, restart, polls, flights, worker, retired, status, faults>>,
         decision' \in [Id -> {"none", "pending", "approved", "rejected"}],
         \A i \in Id : decision[i] = "rejected" /\ i < nextId => decision'[i] = "rejected",
         request' \in RequestRec, RequestKnows(request)'
  PROVE  ControllerInv'
<1>1. CoreTypes' /\ Shapes'
  BY DEF ControllerInv, CoreTypes, Shapes, Apart
<1>2. DownIsIdle'
  BY DEF DownIsIdle, Up
<1>3. VerdictIsReal'
  BY VerdictKeeps DEF Apart
<1> QED BY <1>1, <1>2, <1>3, ApartKeeps DEF ControllerInv

LEMMA NoRequestLemma ==
  NoRequest \in RequestRec /\ NoRequest.at = "none"
BY DEF NoRequest, RequestRec, NoConfig

LEMMA RequestInv ==
  ASSUME ControllerInv, NEW kind \in {"pairing", "enrolled"}, Request(kind)
  PROVE  ControllerInv'
<1>1. /\ Apart /\ Up
      /\ UNCHANGED <<nextId, decision, phase, overdue, restart, polls, flights, worker, retired,
                     status, faults>>
      /\ request' = [at |-> "call", config |-> [kind |-> kind, id |-> 0]]
  BY DEF Request, Apart, serverVars, updateVars, workerVars, Up
<1>2. request' \in RequestRec /\ RequestKnows(request)'
  BY <1>1 DEF RequestRec, RequestKnows
<1> QED BY <1>1, <1>2, RequestBeside DEF ControllerInv, CoreTypes

LEMMA RequestAnsweredInv == ControllerInv /\ RequestAnswered => ControllerInv'
<1> SUFFICES ASSUME ControllerInv, RequestAnswered PROVE ControllerInv'
  OBVIOUS
<1>1. /\ Apart /\ Up /\ request.at = "call"
      /\ UNCHANGED <<phase, overdue, restart, polls, flights, worker, retired, status, faults>>
  BY RequestUp DEF RequestAnswered, RequestEnds, Apart, updateVars, workerVars
<1>2. nextId \in Nat /\ \A i \in Id : i \in Nat
  BY NumberLemma, ControllerAssumption DEF ControllerInv, CoreTypes
<1>3. CASE request' = NoRequest /\ UNCHANGED <<nextId, decision>>
  <2>1. request' \in RequestRec /\ RequestKnows(request)'
    BY <1>3, NoRequestLemma DEF RequestKnows
  <2> QED BY <1>1, <1>3, <2>1, RequestBeside DEF ControllerInv, CoreTypes
<1>4. CASE /\ nextId \in Id /\ nextId' = nextId + 1
           /\ decision' = IF request.config.kind = "pairing"
                            THEN [decision EXCEPT ![nextId] = "pending"] ELSE decision
           /\ \/ request' = NoRequest
              \/ request' = [at |-> "gate", config |-> [request.config EXCEPT !.id = nextId]]
  <2>1. nextId' \in {nextId, nextId + 1} /\ nextId' \in 1..(MaxIds + 1)
    BY <1>2, <1>4, ControllerAssumption DEF Id
  <2>2. decision' \in [Id -> {"none", "pending", "approved", "rejected"}]
    BY <1>4 DEF ControllerInv, CoreTypes
  <2>3. \A i \in Id : decision[i] = "rejected" /\ i < nextId => decision'[i] = "rejected"
    BY <1>2, <1>4 DEF ControllerInv, CoreTypes
  <2>4. request' \in RequestRec /\ RequestKnows(request)'
    <3>1. CASE request' = NoRequest
      BY <3>1, NoRequestLemma DEF RequestKnows
    <3>2. CASE request' = [at |-> "gate", config |-> [request.config EXCEPT !.id = nextId]]
      <4> DEFINE c == [request.config EXCEPT !.id = nextId]
      <4>1. request.config.kind \in {"pairing", "enrolled"}
        BY <1>1 DEF ControllerInv, RequestKnows, Shapes, RequestRec
      <4>2. c = [kind |-> request.config.kind, id |-> nextId]
        BY DEF ControllerInv, Shapes, RequestRec
      <4>3. /\ c \in Config /\ c # NoConfig /\ c.id = nextId
            /\ c \in [kind : {"none", "pairing", "enrolled"}, id : Id \cup {0}]
        BY <1>4, <4>1, <4>2 DEF Config, NoConfig
      <4>4. disk.id < nextId /\ config.id < nextId /\ nextId < nextId'
        BY <1>2, <1>4 DEF ControllerInv, IdsIssued
      <4>5. request' \in RequestRec /\ request'.at = "gate" /\ request'.config = c
        BY <3>2, <4>3 DEF RequestRec
      <4> HIDE DEF c
      <4> QED BY <1>1, <4>3, <4>4, <4>5 DEF RequestKnows, Apart
    <3> QED BY <1>4, <3>1, <3>2
  <2> QED BY <1>1, <2>1, <2>2, <2>3, <2>4, RequestBeside
<1> QED BY <1>3, <1>4 DEF RequestAnswered, RequestEnds, Complete

\* The saved identity is newer than the one it replaces.
LEMMA RequestSaveInv == ControllerInv /\ RequestSave => ControllerInv'
<1> SUFFICES ASSUME ControllerInv, RequestSave PROVE ControllerInv'
  OBVIOUS
<1>1. /\ Up /\ request.at = "gate"
      /\ UNCHANGED <<nextId, decision, overdue, phase, config, status, generation, restart, polls,
                     flights, pending, recent, worker, retired, faults>>
  BY RequestUp DEF RequestSave, serverVars, updateVars, workerVars
<1>2. CASE request' = NoRequest /\ UNCHANGED <<disk, gate>>
  <2>1. request' \in RequestRec /\ RequestKnows(request)'
    BY <1>2, NoRequestLemma DEF RequestKnows
  <2> QED BY <1>1, <1>2, <2>1, RequestBeside DEF ControllerInv, CoreTypes, Apart
<1>3. CASE /\ GateFree /\ MaySave /\ gate' = "request" /\ disk' = request.config
           /\ request' = [request EXCEPT !.at = "saved"]
  <2>1. /\ request.config \in Config /\ request.config # NoConfig
        /\ request.config.id < nextId /\ config.id < request.config.id
        /\ gate = "free" /\ ~pending
    BY <1>1, <1>3 DEF ControllerInv, RequestKnows, GateFree, MaySave
  <2>2. request' \in RequestRec /\ request'.at = "saved" /\ request'.config = request.config
    BY <1>3 DEF ControllerInv, Shapes, RequestRec
  <2>3. CoreTypes' /\ Shapes'
    BY <1>1, <1>3, <2>1, <2>2 DEF ControllerInv, CoreTypes, Shapes
  <2>4. DownIsIdle' /\ SavedIsActive'
    BY <1>1, <1>3 DEF DownIsIdle, SavedIsActive, Up
  <2>5. IdsIssued' /\ GenerationBound' /\ PendingIsRecent' /\ VerdictIsReal'
    BY <1>1, <1>3, <2>1
    DEF ControllerInv, IdsIssued, GenerationBound, PendingIsRecent, VerdictIsReal
  <2>6. RequestKnows(request)'
    BY <1>1, <1>3, <2>1, <2>2 DEF RequestKnows
  <2>7. PollsKnow'
    BY <1>1, <2>1, GateIsFree DEF ControllerInv, PollsKnow, PollKnows
  <2>8. FlightsKnow'
    BY <1>1, <2>1, GateIsFree DEF ControllerInv, FlightsKnow, FlightKnows
  <2> QED BY <2>3, <2>4, <2>5, <2>6, <2>7, <2>8 DEF ControllerInv
<1> QED BY <1>2, <1>3 DEF RequestSave, RequestEnds

\* The request that holds the gate holds it alone.
LEMMA RequestHolds ==
  ASSUME ControllerInv, request.at \in {"saved", "activated"}
  PROVE  /\ gate = "request" /\ ~pending
         /\ \A h \in Gen : polls[h].at \notin {"saved", "activated"} /\ flights[h].at # "launch"
BY DEF ControllerInv, RequestKnows, PollsKnow, PollKnows, FlightsKnow, FlightKnows

LEMMA RequestActivateInv == ControllerInv /\ RequestActivate => ControllerInv'
<1> SUFFICES ASSUME ControllerInv, RequestActivate PROVE ControllerInv'
  OBVIOUS
<1> DEFINE c == request.config
<1>1. /\ Up /\ request.at = "saved"
      /\ UNCHANGED <<disk, nextId, decision, overdue, phase, restart, flights, recent, worker,
                     retired, faults>>
      /\ generation' = generation + 1 /\ config' = c /\ pending' = FALSE
  BY RequestUp DEF RequestActivate, Activate, serverVars, workerVars
<1>2. /\ c \in Config /\ c # NoConfig /\ c.id < nextId /\ disk = c /\ config.id < c.id
      /\ gate = "request"
  BY <1>1 DEF ControllerInv, RequestKnows
<1>3. /\ c.id \in Id /\ config.id \in Nat /\ c.id \in Nat /\ c.id <= MaxIds
  BY <1>2, ConfigLemma, NumberLemma DEF ControllerInv, CoreTypes
<1>4. /\ generation \in Nat /\ generation >= 1
      /\ generation' \in Gen /\ generation' <= 2 * c.id
  <2>1. generation \in Nat /\ generation >= 1
    BY NumberLemma DEF ControllerInv, CoreTypes
  <2>2. generation <= 2 * config.id + 1
    BY <1>3, <2>1 DEF ControllerInv, GenerationBound
  <2> DEFINE j == config.id
             k == c.id
  <2>3. j \in Nat /\ k \in Nat /\ j < k /\ k <= MaxIds /\ generation <= 2 * j + 1
    BY <1>2, <1>3, <2>2
  <2> HIDE DEF j, k
  <2>4. generation + 1 <= 2 * k /\ generation + 1 <= 2 * MaxIds + 1
    BY <2>1, <2>3, ControllerAssumption
  <2> QED BY <1>1, <2>1, <2>4, NumberLemma DEF k
<1>5. IdsIssued' /\ GenerationBound'
  <2>1. 2 * c.id <= 2 * c.id + 1 /\ 2 * c.id <= 2 * c.id + 0
    BY <1>3
  <2>2. generation' <= 2 * c.id + 1 /\ generation' <= 2 * c.id + 0
    BY <1>3, <1>4, NumberLemma
  <2> QED BY <1>1, <1>2, <2>2 DEF IdsIssued, GenerationBound
<1>6. PendingIsRecent'
  <2>1. recent' = FALSE
    BY <1>1, RequestHolds DEF ControllerInv, PendingIsRecent, CoreTypes
  <2> QED BY <1>1, <2>1 DEF PendingIsRecent
<1>7. FlightsKnow'
  BY <1>1, RequestHolds, FlightsOfOlder
<1>8. DownIsIdle' /\ SavedIsActive'
  BY <1>1, <1>2 DEF DownIsIdle, SavedIsActive, Up
<1>9. CASE /\ c.kind = "pairing" /\ status' = Shows("waiting_for_approval", c.id)
           /\ polls' = [polls EXCEPT ![generation + 1] = [at |-> "timer", id |-> c.id]]
           /\ gate' = "free" /\ request' = NoRequest
  <2> DEFINE r == [at |-> "timer", id |-> c.id]
             n == generation + 1
  <2>1. r \in PollRec /\ r.at = "timer" /\ r.id = c.id /\ n \in Gen
    BY <1>1, <1>3, <1>4 DEF PollRec
  <2>2. polls' = [polls EXCEPT ![n] = r]
    BY <1>9
  <2> HIDE DEF r, n
  <2>3. /\ polls' \in [Gen -> PollRec] /\ polls'[n] = r
        /\ \A h \in Gen : h # n => polls'[h] = polls[h]
    BY <2>1, <2>2 DEF ControllerInv, Shapes
  <2>4. status' \in Status /\ status'.state = "waiting_for_approval"
    <3>1. "waiting_for_approval" \in State
      BY DEF State
    <3> QED BY <1>3, <1>9, <3>1, StatusLemma
  <2>5. request' \in RequestRec /\ RequestKnows(request)'
    BY <1>9, NoRequestLemma DEF RequestKnows
  <2>6. CoreTypes' /\ Shapes' /\ VerdictIsReal'
    BY <1>1, <1>2, <1>4, <1>9, <2>3, <2>4, <2>5
    DEF ControllerInv, CoreTypes, Shapes, VerdictIsReal
  <2>7. PollsKnow'
    <3> SUFFICES ASSUME NEW h \in Gen PROVE PollKnows(h, polls[h])'
      BY DEF PollsKnow
    <3>1. CASE h = n
      BY <1>1, <1>2, <1>3, <2>1, <2>3, <3>1 DEF PollKnows
    <3>2. CASE h # n
      BY <1>1, <2>3, <3>2, RequestHolds DEF ControllerInv, PollsKnow, PollKnows
    <3> QED BY <3>1, <3>2
  <2> QED BY <1>5, <1>6, <1>7, <1>8, <2>5, <2>6, <2>7 DEF ControllerInv
<1>10. CASE /\ c.kind = "enrolled" /\ status' = OfWorker
            /\ request' = [request EXCEPT !.at = "activated"] /\ UNCHANGED <<polls, gate>>
  <2>1. request' \in RequestRec /\ request'.at = "activated" /\ request'.config = c
    BY <1>10 DEF ControllerInv, Shapes, RequestRec
  <2>2. RequestKnows(request)'
    BY <1>1, <1>2, <1>10, <2>1 DEF RequestKnows
  <2>3. CoreTypes' /\ Shapes' /\ VerdictIsReal'
    BY <1>1, <1>2, <1>4, <1>10, <2>1, StatusLemma
    DEF ControllerInv, CoreTypes, Shapes, VerdictIsReal
  <2>4. PollsKnow'
    BY <1>1, <1>10, RequestHolds DEF ControllerInv, PollsKnow, PollKnows
  <2> QED BY <1>5, <1>6, <1>7, <1>8, <2>2, <2>3, <2>4 DEF ControllerInv
<1> QED BY <1>9, <1>10 DEF RequestActivate, Activate

LEMMA RequestStartInv == ControllerInv /\ RequestStart => ControllerInv'
<1> SUFFICES ASSUME ControllerInv, RequestStart PROVE ControllerInv'
  OBVIOUS
<1>1. /\ Up /\ request.at = "activated" /\ gate' = "free" /\ request' = NoRequest
      /\ UNCHANGED <<disk, nextId, decision, overdue, phase, config, generation, restart, polls,
                     flights, pending, recent, faults>>
      /\ StartWorker(request.config)
  BY RequestUp DEF RequestStart, serverVars, updateVars
<1>2. disk = config /\ request.config \in Config
  BY <1>1 DEF ControllerInv, RequestKnows
<1>3. worker' \in Config /\ retired' \subseteq Config /\ status' \in {status, OfWorker}
  BY <1>1, <1>2, StartWorkerLemma
<1>4. request' \in RequestRec /\ RequestKnows(request)'
  BY <1>1, NoRequestLemma DEF RequestKnows
<1>5. CoreTypes' /\ Shapes'
  BY <1>1, <1>3, <1>4, StatusLemma DEF ControllerInv, CoreTypes, Shapes
<1>6. DownIsIdle' /\ SavedIsActive'
  BY <1>1, <1>2 DEF DownIsIdle, SavedIsActive, Up
<1>7. VerdictIsReal'
  BY <1>1, <1>3, StatusLemma, VerdictKeeps
<1>8. IdsIssued' /\ GenerationBound' /\ PendingIsRecent'
  BY <1>1 DEF ControllerInv, IdsIssued, GenerationBound, PendingIsRecent
<1>9. PollsKnow'
  BY <1>1, RequestHolds DEF ControllerInv, PollsKnow, PollKnows
<1>10. FlightsKnow'
  BY <1>1, RequestHolds DEF ControllerInv, FlightsKnow, FlightKnows
<1> QED BY <1>4, <1>5, <1>6, <1>7, <1>8, <1>9, <1>10 DEF ControllerInv

-----------------------------------------------------------------------------
(* The process starts and ends.                                            *)

LEMMA BootstrapInv == ControllerInv /\ Bootstrap => ControllerInv'
<1> SUFFICES ASSUME ControllerInv, Bootstrap PROVE ControllerInv'
  OBVIOUS
<1>1. /\ phase = "down" /\ phase' = "serving" /\ generation' = 1
      /\ UNCHANGED <<disk, nextId, decision, overdue, gate, request, restart, flights, pending,
                     recent, retired>>
  BY DEF Bootstrap, serverVars, updateVars
<1>2. /\ gate = "free" /\ request.at = "none" /\ config = NoConfig /\ ~pending
      /\ \A g \in Gen : polls[g].at = "none" /\ flights[g].at = "none"
  BY <1>1 DEF ControllerInv, DownIsIdle
<1>3. 1 \in Gen /\ disk \in Config /\ disk.id < nextId /\ nextId \in Nat /\ 0 < nextId
  BY NumberLemma, ControllerAssumption DEF ControllerInv, CoreTypes, IdsIssued
<1>4. /\ config' \in {NoConfig, disk} /\ worker' \in {worker, disk}
      /\ faults' \in [run : 0..MaxFaults, file : 0..MaxFileFaults]
  BY <1>2, FaultTypes DEF Bootstrap, ControllerInv, CoreTypes
<1>5. /\ polls' \in [Gen -> PollRec]
      /\ \A g \in Gen : \/ polls'[g].at = "none"
                        \/ polls'[g].at = "timer" /\ polls'[g].id \in Id /\ polls'[g].id < nextId
  <2>1. CASE polls' = polls
    BY <1>2, <2>1 DEF ControllerInv, Shapes
  <2>2. CASE /\ disk.kind = "pairing"
             /\ polls' = [polls EXCEPT ![1] = [at |-> "timer", id |-> disk.id]]
    <3> DEFINE r == [at |-> "timer", id |-> disk.id]
    <3>1. r \in PollRec /\ r.at = "timer" /\ r.id = disk.id /\ disk.id \in Id
      BY <1>3, <2>2, ConfigLemma DEF PollRec
    <3>2. polls' = [polls EXCEPT ![1] = r]
      BY <2>2
    <3> HIDE DEF r
    <3> QED BY <1>2, <1>3, <3>1, <3>2 DEF ControllerInv, Shapes
  <2> QED BY <2>1, <2>2 DEF Bootstrap
<1>6. status' \in Status /\ VerdictIsReal'
  <2>1. {"waiting", "degraded", "pairing_expired", "pairing_recovery"} \subseteq State
    BY DEF State
  <2>2. CASE status' \in {Shows("waiting", 0), Shows("degraded", 0), OfWorker}
    BY <2>1, <2>2, StatusLemma DEF VerdictIsReal
  <2>3. CASE disk.kind = "pairing" /\ status' = Shows("pairing_recovery", disk.id)
    BY <1>3, <2>1, <2>3, ConfigLemma, StatusLemma DEF VerdictIsReal
  <2>4. CASE /\ disk.kind = "pairing" /\ status' = Shows("pairing_expired", disk.id)
             /\ config' = disk /\ disk.id \in overdue
    <3>1. /\ disk.id \in Id /\ disk = Pairing(disk.id) /\ status' \in Status
          /\ status'.state = "pairing_expired" /\ status'.id = disk.id
      BY <1>3, <2>1, <2>4, ConfigLemma, StatusLemma
    <3> QED BY <1>1, <2>4, <3>1 DEF VerdictIsReal
  <2> QED BY <2>2, <2>3, <2>4 DEF Bootstrap
<1>7. CoreTypes' /\ Shapes'
  BY <1>1, <1>3, <1>4, <1>5, <1>6, ConfigLemma DEF ControllerInv, CoreTypes, Shapes
<1>8. DownIsIdle' /\ SavedIsActive'
  BY <1>1, <1>4 DEF DownIsIdle, SavedIsActive, Up
<1>9. IdsIssued'
  BY <1>1, <1>3, <1>4, ConfigLemma DEF IdsIssued
<1>10. GenerationBound'
  <2>1. CASE config' = NoConfig
    BY <1>1, <2>1, ConfigLemma DEF GenerationBound
  <2>2. CASE config' = disk /\ disk # NoConfig
    <3>1. disk.id \in Nat /\ disk.id >= 1
      BY <1>3, <2>2, ConfigLemma, NumberLemma
    <3>2. 1 <= 2 * disk.id + 1 /\ 1 <= 2 * disk.id + 0
      BY <3>1
    <3> QED BY <1>1, <2>2, <3>2 DEF GenerationBound
  <2> QED BY <1>4, <2>1, <2>2
<1>11. RequestKnows(request)' /\ PollsKnow' /\ FlightsKnow' /\ PendingIsRecent'
  <2>1. RequestKnows(request)'
    BY <1>1, <1>2 DEF RequestKnows
  <2>2. PollsKnow'
    BY <1>1, <1>5 DEF PollsKnow, PollKnows
  <2>3. FlightsKnow'
    BY <1>1, <1>2 DEF FlightsKnow, FlightKnows
  <2>4. PendingIsRecent'
    BY <1>1, <1>2 DEF ControllerInv, PendingIsRecent
  <2> QED BY <2>1, <2>2, <2>3, <2>4
<1> QED BY <1>6, <1>7, <1>8, <1>9, <1>10, <1>11 DEF ControllerInv

LEMMA ExitInv ==
  ASSUME ControllerInv, ShutdownDone \/ Crash
  PROVE  ControllerInv'
<1>1. Exit /\ faults' \in [run : 0..MaxFaults, file : 0..MaxFileFaults]
  BY FaultTypes DEF ShutdownDone, Crash, ControllerInv, CoreTypes
<1>2. /\ request' \in RequestRec /\ request'.at = "none"
      /\ restart' \in [at : {"none", "start"}, config : Config]
  BY <1>1, NoRequestLemma, ConfigLemma DEF Exit, NoRequest
<1>3. /\ polls' \in [Gen -> PollRec] /\ flights' \in [Gen -> FlightRec]
      /\ \A g \in Gen : polls'[g].at = "none" /\ flights'[g].at = "none"
  <2>1. /\ NoPoll \in PollRec /\ NoPoll.at = "none"
        /\ NoFlight \in FlightRec /\ NoFlight.at = "none"
    BY ConfigLemma DEF NoPoll, NoFlight, PollRec, FlightRec
  <2> QED BY <1>1, <2>1 DEF Exit
<1>4. nextId \in Nat /\ 0 < nextId /\ disk.id < nextId
  BY ControllerAssumption DEF ControllerInv, CoreTypes, IdsIssued
<1>5. CoreTypes' /\ Shapes'
  BY <1>1, <1>2, <1>3, ConfigLemma, NumberLemma, StatusLemma
  DEF ControllerInv, CoreTypes, Shapes, Exit, serverVars
<1>6. DownIsIdle' /\ PendingIsRecent' /\ SavedIsActive' /\ VerdictIsReal'
  BY <1>1, <1>2, <1>3, StatusLemma
  DEF Exit, DownIsIdle, PendingIsRecent, SavedIsActive, VerdictIsReal, Up
<1>7. IdsIssued' /\ GenerationBound'
  BY <1>1, <1>4, ConfigLemma DEF Exit, serverVars, IdsIssued, GenerationBound
<1>8. RequestKnows(request)' /\ PollsKnow' /\ FlightsKnow'
  BY <1>2, <1>3 DEF RequestKnows, PollsKnow, PollKnows, FlightsKnow, FlightKnows
<1> QED BY <1>5, <1>6, <1>7, <1>8 DEF ControllerInv

-----------------------------------------------------------------------------
LEMMA ControllerStep == ControllerInv /\ [Next]_vars => ControllerInv'
<1> SUFFICES ASSUME ControllerInv, [Next]_vars PROVE ControllerInv'
  OBVIOUS
<1>1. CASE UNCHANGED vars
  <2>1. /\ Apart /\ UNCHANGED <<nextId, request, polls, flights, phase, decision, overdue, status>>
    BY <1>1 DEF vars, Apart
  <2>2. CoreTypes' /\ Shapes' /\ VerdictIsReal'
    BY <1>1 DEF vars, ControllerInv, CoreTypes, Shapes, VerdictIsReal
  <2> QED BY <2>1, <2>2, StatusStep
<1>2. CASE Bootstrap \/ Stop \/ Shutdown \/ ShutdownDone \/ Crash
  BY <1>2, BootstrapInv, StopInv, ExitInv
<1>3. CASE (\E kind \in {"pairing", "enrolled"} : Request(kind)) \/ RequestStep
  BY <1>3, RequestInv, RequestAnsweredInv, RequestSaveInv, RequestActivateInv, RequestStartInv
  DEF RequestStep
<1>4. CASE RestartRead \/ RestartStart \/ CheckUpdate \/ PendingExpires
  BY <1>4, RestartInv, CheckUpdateInv, PendingExpiresInv
<1>5. ASSUME NEW g \in Gen, PollStep(g) PROVE ControllerInv'
  BY <1>5, PollFiresInv, PollAnswersInv, ApproveSaveInv, ApproveActivateInv, ApproveStartInv
  DEF PollStep
<1>6. ASSUME NEW g \in Gen, FlightStep(g) PROVE ControllerInv'
  BY <1>6, FlightBesideInv, AuthorizeInv, LaunchInv DEF FlightStep
<1>7. CASE WorkerStep \/ \E c \in {worker} \cup retired : ReportStatus(c)
  BY <1>7, WorkerInv
<1>8. CASE \/ \E i \in Id, d \in {"approved", "rejected"} : Decide(i, d)
           \/ \E i \in Id : Expire(i)
  BY <1>8, ServerInv
<1> QED BY <1>1, <1>2, <1>3, <1>4, <1>5, <1>6, <1>7, <1>8 DEF Next

\* In every reachable state the holder of launchGate finds the configuration,
\* the file and the generation as its last section under Controller.mu left
\* them.
THEOREM ControllerInvariant == Spec => []ControllerInv
BY ControllerInit, ControllerStep, PTL DEF Spec

\* Every variable keeps its type; in particular no process needs more than two
\* generations for an identity.
THEOREM ControllerTypes == Spec => []TypeOK
<1>1. ControllerInv => TypeOK
  BY TypesFollow DEF ControllerInv
<1> QED BY <1>1, ControllerInvariant, PTL

\* A pairing shown as rejected or expired (setPairingTerminalState) is the
\* active one, and it was rejected or is overdue.
THEOREM RealVerdicts == Spec => []VerdictIsReal
<1>1. ControllerInv => VerdictIsReal
  BY DEF ControllerInv
<1> QED BY <1>1, ControllerInvariant, PTL

\* A helper is launched only under the saved and active configuration that it
\* was authorised for.
THEOREM LaunchesUnderConfig == Spec => []LaunchUnderConfig
<1>1. ControllerInv => LaunchUnderConfig
  BY DEF ControllerInv, FlightsKnow, FlightKnows, LaunchUnderConfig
<1> QED BY <1>1, ControllerInvariant, PTL

\* Whenever launchGate is free, the active configuration is the saved one.
THEOREM ActiveIsSaved == Spec => []SavedIsActive
<1>1. ControllerInv => SavedIsActive
  BY DEF ControllerInv
<1> QED BY <1>1, ControllerInvariant, PTL

-----------------------------------------------------------------------------
(* What a step may never do to the configuration file.                     *)

LEMMA RequestSaves ==
  ASSUME ControllerInv, RequestSave
  PROVE  disk' = disk \/ (~pending /\ disk.id < disk'.id)
<1>1. CASE RequestEnds
  BY <1>1 DEF RequestEnds
<1>2. CASE GateFree /\ MaySave /\ disk' = request.config
  <2>1. request.at = "gate" /\ ~pending
    BY <1>2 DEF RequestSave, MaySave
  <2> QED BY <1>2, <2>1 DEF ControllerInv, RequestKnows
<1> QED BY <1>1, <1>2 DEF RequestSave

LEMMA ApprovalSaves ==
  ASSUME ControllerInv, NEW g \in Gen, ApproveSave(g), disk' # disk
  PROVE  ~pending /\ disk'.id = disk.id
<1>1. GateFree /\ IsCurrent(g) /\ disk' = Enrolled(polls[g].id) /\ polls[g].at = "approved"
  BY DEF ApproveSave
<1>2. Up /\ polls[g].id \in Id
  BY <1>1, PollUp
<1>3. config = Pairing(polls[g].id)
  BY <1>1 DEF IsCurrent
<1>4. config.kind = "pairing" /\ config.id = polls[g].id /\ config # NoConfig
  BY <1>2, <1>3, ConfigLemma
<1>5. disk = config
  BY <1>1, <1>2, <1>4 DEF ControllerInv, SavedIsActive, GateFree
<1>6. disk'.id = polls[g].id
  BY <1>1, <1>2, ConfigLemma
<1>7. ~pending
  BY <1>4 DEF ControllerInv, PendingIsRecent
<1> QED BY <1>4, <1>5, <1>6, <1>7

\* Only a save writes the file, never while an update is pending, and never an
\* identity older than the saved one.
LEMMA DiskStep ==
  ASSUME ControllerInv, [Next]_vars
  PROVE  disk' = disk \/ (~pending /\ disk.id <= disk'.id)
<1>0. ControllerInv'
  BY ControllerStep
<1>1. disk.id \in Nat /\ disk'.id \in Nat
  BY <1>0, ConfigLemma DEF ControllerInv, CoreTypes
<1>2. CASE RequestSave
  BY <1>1, <1>2, RequestSaves
<1>3. ASSUME NEW g \in Gen, ApproveSave(g) PROVE disk' = disk \/ (~pending /\ disk.id <= disk'.id)
  BY <1>1, <1>3, ApprovalSaves
<1>4. CASE UNCHANGED vars
  BY <1>4 DEF vars
<1>5. CASE Bootstrap \/ Stop \/ Shutdown \/ ShutdownDone \/ Crash
  BY <1>5 DEF Bootstrap, Stop, Shutdown, ShutdownDone, Crash, Exit
<1>6. CASE \/ \E kind \in {"pairing", "enrolled"} : Request(kind)
           \/ RequestAnswered \/ RequestActivate \/ RequestStart
  BY <1>6 DEF Request, RequestAnswered, RequestEnds, RequestActivate, RequestStart
<1>7. CASE RestartRead \/ RestartStart \/ CheckUpdate \/ PendingExpires
  BY <1>7 DEF RestartRead, RestartStart, CheckUpdate, PendingExpires, FlightUnchanged
<1>8. ASSUME NEW g \in Gen,
             PollFires(g) \/ PollAnswers(g) \/ ApproveActivate(g) \/ ApproveStart(g)
      PROVE  disk' = disk
  BY <1>8 DEF PollFires, PollAnswers, ApproveActivate, ApproveStart
<1>9. ASSUME NEW g \in Gen, FlightStep(g) PROVE disk' = disk
  BY <1>9 DEF FlightStep, FlightChecked, Authorize, Launch, FlightEnds, FlightUnchanged
<1>10. CASE WorkerStep \/ \E c \in {worker} \cup retired : ReportStatus(c)
  BY <1>10 DEF WorkerStep, WorkerEnds, RetiredEnds, ReportStatus
<1>11. CASE \/ \E i \in Id, d \in {"approved", "rejected"} : Decide(i, d)
            \/ \E i \in Id : Expire(i)
  BY <1>11 DEF Decide, Expire
<1> QED BY <1>2, <1>3, <1>4, <1>5, <1>6, <1>7, <1>8, <1>9, <1>10, <1>11
        DEF Next, RequestStep, PollStep

\* Within UpdatePendingTTL of a launch the configuration is not switched and no
\* second helper is launched.
THEOREM QuietAfterALaunch == Spec => QuietAfterLaunch
<1> DEFINE Quietly == recent /\ recent' => disk' = disk /\ \A g \in Gen : flights'[g].at # "launch"
<1>1. ControllerInv /\ [Next]_vars => [Quietly]_vars
  <2> SUFFICES ASSUME ControllerInv, [Next]_vars, recent, recent'
               PROVE  disk' = disk /\ \A g \in Gen : flights'[g].at # "launch"
    OBVIOUS
  <2>1. ControllerInv'
    BY ControllerStep
  <2>2. pending /\ pending'
    BY <2>1 DEF ControllerInv, PendingIsRecent
  <2>3. disk' = disk
    BY <2>2, DiskStep
  <2>4. \A g \in Gen : flights'[g].at # "launch"
    BY <2>1, <2>2 DEF ControllerInv, FlightsKnow, FlightKnows
  <2> QED BY <2>3, <2>4
<1> QED BY <1>1, ControllerInvariant, PTL DEF Spec, QuietAfterLaunch

\* The saved identity is never replaced by one issued earlier, however late an
\* Enroll, a StartPairing or a poll gets its answer.
THEOREM NewestIdentityIsKept == Spec => NewestIdentity
<1>1. ControllerInv /\ [Next]_vars => [disk'.id >= disk.id]_vars
  <2> SUFFICES ASSUME ControllerInv, [Next]_vars PROVE disk'.id >= disk.id
    OBVIOUS
  <2>1. ControllerInv'
    BY ControllerStep
  <2>2. disk.id \in Nat /\ disk'.id \in Nat
    BY <2>1, ConfigLemma DEF ControllerInv, CoreTypes
  <2> QED BY <2>2, DiskStep
<1> QED BY <1>1, ControllerInvariant, PTL DEF Spec, NewestIdentity
=============================================================================
