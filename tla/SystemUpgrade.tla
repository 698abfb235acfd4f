--------------------------- MODULE SystemUpgrade ---------------------------
(***************************************************************************)
(* What the web-managed upgrade promises the Owner, without steps, state   *)
(* file, aliases, health checks, restarts or failing commands.  Backend    *)
(* and web move together to a newer pair of images of one version; the     *)
(* web only follows the backend; an upgrade that is given up undoes what   *)
(* it switched and then switches nothing more; and the Owner is told       *)
(* "succeeded" only when both services run the new pair, "failed" only     *)
(* when both run the old one.  Between upgrades nothing moves.             *)
(***************************************************************************)
EXTENDS Naturals

CONSTANTS
  Image,       \* images a service can run
  NoImage,     \* a service that is down, or no image
  VersionOf,   \* [Image -> Nat]
  FirstImage   \* what both services run at first

VARIABLES
  runs,    \* [Service -> the image it runs]
  was,     \* [Service -> the image it ran when the upgrade began]
  goal,    \* [Service -> the image the upgrade moves it to]
  phase    \* what the Owner is told

vars == <<runs, was, goal, phase>>

Service == {"backend", "web"}
Under   == {"prepares", "switches", "undoes"}
Over    == {"never", "succeeded", "failed"}

Init ==
  /\ runs = [s \in Service |-> FirstImage]
  /\ was = [s \in Service |-> FirstImage]
  /\ goal = [s \in Service |-> NoImage]
  /\ phase = "never"

\* The Owner starts an upgrade to a pair of one version, newer than what runs.
Begin(pair) ==
  /\ phase \in Over
  /\ VersionOf[pair["backend"]] = VersionOf[pair["web"]]
  /\ \A s \in Service : /\ runs[s] # NoImage
                        /\ VersionOf[pair[s]] > VersionOf[runs[s]]
  /\ phase' = "prepares" /\ was' = runs /\ goal' = pair
  /\ UNCHANGED runs

\* A phase only follows an earlier one.
Proceed ==
  /\ phase = "prepares" /\ phase' = "switches"
  /\ UNCHANGED <<runs, was, goal>>

Withdraw ==
  /\ phase \in {"prepares", "switches"} /\ phase' = "undoes"
  /\ UNCHANGED <<runs, was, goal>>

\* A service is stopped and, if that works, started on the new image.
Switch(s) ==
  /\ phase = "switches"
  /\ s = "web" => runs["backend"] = goal["backend"]
  /\ \E i \in {goal[s], NoImage} : runs' = [runs EXCEPT ![s] = i]
  /\ UNCHANGED <<was, goal, phase>>

Undo(s) ==
  /\ phase = "undoes"
  /\ \E i \in {was[s], NoImage} : runs' = [runs EXCEPT ![s] = i]
  /\ UNCHANGED <<was, goal, phase>>

Succeed ==
  /\ phase = "switches" /\ runs = goal
  /\ phase' = "succeeded"
  /\ UNCHANGED <<runs, was, goal>>

Fail ==
  /\ phase \in {"prepares", "undoes"} /\ runs = was
  /\ phase' = "failed"
  /\ UNCHANGED <<runs, was, goal>>

\* The Owner is asked to look after the services: for ever, as far as the
\* updater is concerned.
AskOwner ==
  /\ phase \in Under /\ phase' = "manual"
  /\ UNCHANGED <<runs, was, goal>>

Next ==
  \/ \E pair \in [Service -> Image] : Begin(pair)
  \/ \E s \in Service : Switch(s) \/ Undo(s)
  \/ Proceed \/ Withdraw \/ Succeed \/ Fail \/ AskOwner

Spec == Init /\ [][Next]_vars

=============================================================================
