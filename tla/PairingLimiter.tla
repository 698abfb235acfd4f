--------------------------- MODULE PairingLimiter ---------------------------
(***************************************************************************)
(* The rate limiter in front of new pairing requests (internal/api/router. *)
(* go): a map of counting windows, one per remote address and one per      *)
(* machine id, under a mutex.                                              *)
(*                                                                         *)
(* A handler reads the clock before it takes the mutex, so that readings   *)
(* can reach the limiter out of order: a handler that was held up brings a *)
(* reading older than those that the limiter has already used, after which *)
(* it may count in a window that starts later, or open one that lies in    *)
(* the past.                                                               *)
(***************************************************************************)
EXTENDS Integers, Sequences, FiniteSets

CONSTANTS
  Device,      \* machine ids
  Address,     \* remote addresses
  Caller,      \* handlers of createPairing that run at the same time
  NoReading,   \* a handler that has not read the clock
  RateWindow,  \* pairingRateWindowDuration (1 minute)
  RateLimit,   \* pairingRateLimit (10)
  MaxWindows,  \* pairingLimiterMaxWindows (4096)
  MaxPassed,   \* bound: no request begins after so many have passed
  MaxClock     \* bound on the clock

ASSUME LimiterAssumption ==
  /\ RateWindow \in Nat \ {0} /\ RateLimit \in Nat \ {0} /\ MaxWindows \in Nat
  /\ MaxPassed \in Nat /\ MaxClock \in Nat
  /\ Device \cap Address = {}
  /\ NoReading \notin [device : Device, address : Address, at : Nat]

VARIABLES
  clock,    \* the server's clock
  windows,  \* the limiter's map; a window with count 0 is not in it
  reading,  \* [Caller -> the request it has read the clock for]
  \* history
  passed,   \* the requests that the limiter let pass, in that order
  newest,   \* the newest reading that the limiter has used
  stale     \* [Device -> how many passed with a reading older than the newest]

limiterVars == <<clock, windows, reading, passed, newest, stale>>

Key == Device \cup Address
NoWindow == [start |-> 0, count |-> 0]
Reading == [device : Device, address : Address, at : Nat]

LimiterInit ==
  /\ clock = 0 /\ newest = 0
  /\ windows = [k \in Key |-> NoWindow]
  /\ reading = [c \in Caller |-> NoReading]
  /\ passed = <<>>
  /\ stale = [d \in Device |-> 0]

\* Mutant: a window ends one instant early.
EvictExpiredBug(w, t) ==
  [k \in Key |-> IF t + 1 >= w[k].start + RateWindow THEN NoWindow ELSE w[k]]
EvictExpired(w, t) ==
  [k \in Key |-> IF t >= w[k].start + RateWindow THEN NoWindow ELSE w[k]]

Allowed(w, a, d) ==
  /\ w[a].count < RateLimit /\ w[d].count < RateLimit
  /\ Cardinality({k \in Key : w[k].count > 0} \cup {a, d}) <= MaxWindows

Counted(w, a, d, t) ==
  [k \in Key |->
     IF k \in {a, d}
     THEN [start |-> IF w[k].count = 0 THEN t ELSE w[k].start, count |-> w[k].count + 1]
     ELSE w[k]]

\* createPairing reads the clock.
ReadClock(c, a, d) ==
  /\ reading[c] = NoReading /\ Len(passed) < MaxPassed
  /\ reading' = [reading EXCEPT ![c] = [device |-> d, address |-> a, at |-> clock]]
  /\ UNCHANGED <<clock, windows, passed, newest, stale>>

\* Allow, under the mutex.  A request that is refused evicts all the same.
Allow(c) ==
  /\ reading[c] # NoReading
  /\ LET d == reading[c].device
         a == reading[c].address
         t == reading[c].at
         w == EvictExpired(windows, t)
     IN  /\ \/ /\ Allowed(w, a, d)
               /\ windows' = Counted(w, a, d, t)
               /\ passed' = Append(passed, [device |-> d, at |-> t])
               /\ stale' = IF t < newest THEN [stale EXCEPT ![d] = @ + 1] ELSE stale
            \/ /\ ~Allowed(w, a, d)
               /\ windows' = w
               /\ UNCHANGED <<passed, stale>>
         /\ newest' = IF t < newest THEN newest ELSE t
  /\ reading' = [reading EXCEPT ![c] = NoReading]
  /\ UNCHANGED clock

LimiterTick ==
  /\ clock < MaxClock
  /\ clock' = clock + 1
  /\ UNCHANGED <<windows, reading, passed, newest, stale>>

LimiterNext ==
  \/ \E c \in Caller :
       \/ \E a \in Address, d \in Device : ReadClock(c, a, d)
       \/ Allow(c)
  \/ LimiterTick

LimiterSpec == LimiterInit /\ [][LimiterNext]_limiterVars

\* The requests of device d that passed with a reading of [lo, hi).
PassedIn(d, lo, hi) ==
  {i \in DOMAIN passed : passed[i].device = d /\ lo <= passed[i].at /\ passed[i].at < hi}

\* With readings in order, a device gets at most 2 * RateLimit - 1 requests
\* through in a RateWindow: the limiter counts in windows that start with their
\* first request, so an interval of that length can meet two of them.  Every
\* request of the device that passes with an older reading than the limiter has
\* used before may cost another RateLimit, for it may open a window that is
\* over already.
RateBound ==
  \A d \in Device, t \in 0 .. clock :
    Cardinality(PassedIn(d, t, t + RateWindow)) <= 2 * RateLimit - 1 + RateLimit * stale[d]

=============================================================================
