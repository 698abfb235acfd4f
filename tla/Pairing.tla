------------------------------ MODULE Pairing ------------------------------
(***************************************************************************)
(* How a device gets a node and a credential: pairing requests that the    *)
(* Owner approves or rejects and that expire, and enrolment tokens         *)
(* (internal/api/router.go, internal/postgres/store.go), and the retention *)
(* job that deletes old requests (internal/maintenance/pairing_retention.  *)
(* go).  The rate limiter in front of a new request is PairingLimiter's: a *)
(* request that it refuses changes no row, so that here any may pass.      *)
(*                                                                         *)
(* Every HTTP request is a handler goroutine of its own.  It reads the     *)
(* clock once, at its start, and uses that reading in every statement it   *)
(* executes; the statements of different handlers interleave.  A           *)
(* transaction is a sequence of actions, one per statement that can meet a *)
(* lock: what it has locked it holds until it commits or rolls back, and a *)
(* statement that wants what another transaction has locked waits.  An     *)
(* UPDATE of one row outside a transaction is one action; the UPDATE of    *)
(* many rows locks them one by one, in the order in which it scans the     *)
(* table, and commits at its end.  A request the handlers refuse before    *)
(* they touch the database (an invalid body, an unknown session) changes   *)
(* nothing and is left out.                                                *)
(***************************************************************************)
EXTENDS Integers

CONSTANTS
  Request,     \* pairing_requests rows, each with a credential of its own, numbered
               \* so that a scan meets the greater number first
  Machine,     \* machine ids of devices
  Blank,       \* the empty machine id, which only an enrolment may carry
  Token,       \* enrolment tokens
  Nobody,      \* no request, no token
  Handler,     \* handler goroutines that run at the same time
  Lifetime,    \* of a pairing request (10 minutes)
  Retention,   \* of a decided request (30 days)
  EnrolLife,   \* expires_minutes of a token
  MaxUses,     \* max_uses of a token
  LastCall,    \* bound: no HTTP request begins after this time
  MaxTime      \* bound on the clock

ASSUME PairingAssumption ==
  /\ Request \subseteq Nat
  /\ Lifetime \in Nat \ {0} /\ Retention \in Nat \ {0}
  /\ EnrolLife \in Nat \ {0} /\ MaxUses \in Nat \ {0}
  /\ LastCall \in Nat /\ MaxTime \in Nat
  /\ Blank \notin Machine \cup Request \cup Token /\ Nobody \notin Request \cup Token
  /\ Request \cap Token = {} /\ Machine \cap (Request \cup Token) = {}

VARIABLES
  now,      \* the server's clock
  row,      \* [Request -> its pairing_requests row]
  nodes,    \* nodes joined with node_credentials
  token,    \* [Token -> its enrollments row]
  call,     \* [Handler -> what it executes next]
  told      \* history: [Request -> the answers given about it]

vars == <<now, row, nodes, token, call, told>>

Final  == {"approved", "rejected", "expired"}
State  == {"absent", "pending", "pruned"} \cup Final
\* Answers: a final state that a poll or a successful decision reported, or
\* "overdue", the refusal of a decision with ErrPairingExpired.
Answer == Final \cup {"overdue"}
\* Where a node comes from: the use'th use of a token, or (Nobody, 0).
Origin == [token : Token \cup {Nobody}, use : Nat]
\* The credential of a node: the one of a request, or Nobody's for the one
\* that the enrolment itself returned.
Node   == [machine : Machine \cup {Blank}, cred : Request \cup {Nobody}, by : Origin]
Op     == {"idle", "insert", "expire", "read", "list", "scan", "reject", "explain",
           "approve", "find", "node", "commit", "enroll", "enrollNode", "enrollCommit"}
\* A running UPDATE of many rows has rows to visit (todo) and rows it has
\* changed (held).
Call   == [op : Op, arg : Request \cup Token \cup {Nobody},
           machine : Machine \cup {Blank}, at : Nat, found : BOOLEAN,
           todo : SUBSET Request, held : SUBSET Request]
Started(op, arg, m, t) == [op |-> op, arg |-> arg, machine |-> m, at |-> t,
                           found |-> FALSE, todo |-> {}, held |-> {}]
Idle   == Started("idle", Nobody, Blank, 0)

Init ==
  /\ now = 0
  /\ row = [r \in Request |->
              [state |-> "absent", machine |-> Blank, created |-> 0, expires |-> 0]]
  /\ nodes = {}
  /\ token = [k \in Token |-> [exists |-> FALSE, expires |-> 0, uses |-> 0]]
  /\ call = [h \in Handler |-> Idle]
  /\ told = [r \in Request |-> {}]

\* The rows that the expiry UPDATE of a handler that started at t changes.
Due(t) == {r \in Request : row[r].state = "pending" /\ row[r].expires <= t}

Open(r, t) == row[r].state = "pending" /\ row[r].expires > t

\* The unique index on machine_id, which leaves out the empty one.
HasNode(m) == m # Blank /\ \E n \in nodes : n.machine = m

(***************************************************************************)
(* Handlers and the locks their transactions hold.  A machine stands for   *)
(* its node: the row, or the entry of an uncommitted INSERT in the unique  *)
(* index.                                                                  *)
(***************************************************************************)
Return(h) == call' = [call EXCEPT ![h] = Idle]
\* On to a statement that does not use the clock reading.
Goto(h, op) == call' = [call EXCEPT ![h].op = op, ![h].at = 0]

Tell(r, answers) == told' = [told EXCEPT ![r] = @ \cup answers]

Begin(h, op, arg, m) ==
  /\ call[h] = Idle /\ now <= LastCall
  /\ call' = [call EXCEPT ![h] = Started(op, arg, m, now)]

Lockable == Request \cup Token \cup Machine

\* Mutant: approval reads the row without FOR UPDATE.
HoldsBug(h, x) ==
  \/ call[h].op \in {"enrollNode", "enrollCommit"} /\ x = call[h].arg
  \/ call[h].op = "commit" /\ x = row[call[h].arg].machine
  \/ call[h].op = "enrollCommit" /\ x = call[h].machine
  \/ call[h].op = "scan" /\ x \in call[h].held
\* Mutant: enrolment reads the token without FOR UPDATE.
HoldsBug2(h, x) ==
  \/ call[h].op \in {"find", "node", "commit"} /\ x = call[h].arg
  \/ call[h].op = "commit" /\ x = row[call[h].arg].machine
  \/ call[h].op = "enrollCommit" /\ x = call[h].machine
  \/ call[h].op = "scan" /\ x \in call[h].held
\* What the transaction of h has locked.
Holds(h, x) ==
  \/ /\ call[h].op \in {"find", "node", "commit", "enrollNode", "enrollCommit"}
     /\ x = call[h].arg
  \/ call[h].op = "commit" /\ x = row[call[h].arg].machine
  \/ call[h].op = "enrollCommit" /\ x = call[h].machine
  \/ call[h].op = "scan" /\ x \in call[h].held

\* The row that the scan of call c visits next: executions of one statement
\* meet the rows in one order.
\* Mutant: each scan has an order of its own.
ScansBug(c, r) == r \in c.todo
Scans(c, r) == r \in c.todo /\ \A q \in c.todo : q <= r

\* What the next statement of h has to lock.
Wants(h, x) ==
  \/ call[h].op \in {"approve", "enroll"} /\ x = call[h].arg
  \/ call[h].op = "expire" /\ x = call[h].arg /\ x \in Due(call[h].at)
  \/ call[h].op = "reject" /\ x = call[h].arg /\ Open(x, call[h].at)
  \/ call[h].op = "scan" /\ Scans(call[h], x)
  \/ call[h].op = "node" /\ x = row[call[h].arg].machine
  \/ call[h].op = "enrollNode" /\ x = call[h].machine

WaitsFor(h, g) == g # h /\ \E x \in Lockable : Wants(h, x) /\ Holds(g, x)

Locked(x, h) == \E g \in Handler \ {h} : Holds(g, x)
\* The next statement of h need not wait.
Free(h) == \A x \in Lockable : Wants(h, x) => ~Locked(x, h)

(***************************************************************************)
(* Creating a request.                                                     *)
(***************************************************************************)
\* createPairing: the clock, and a limiter that lets the request pass.
CreatePairing(h, r, m) ==
  /\ row[r].state = "absent" /\ \A g \in Handler : call[g].arg # r
  /\ Begin(h, "insert", r, m)
  /\ UNCHANGED <<now, row, nodes, token, told>>

\* Mutant: the lifetime is subtracted.
CreatePairingRequestBug(h) ==
  /\ call[h].op = "insert"
  /\ row' = [row EXCEPT ![call[h].arg] =
               [state |-> "pending", machine |-> call[h].machine,
                created |-> call[h].at, expires |-> call[h].at - Lifetime]]
  /\ Return(h)
  /\ UNCHANGED <<now, nodes, token, told>>
CreatePairingRequest(h) ==
  /\ call[h].op = "insert"
  /\ row' = [row EXCEPT ![call[h].arg] =
               [state |-> "pending", machine |-> call[h].machine,
                created |-> call[h].at, expires |-> call[h].at + Lifetime]]
  /\ Return(h)
  /\ UNCHANGED <<now, nodes, token, told>>

(***************************************************************************)
(* The device's poll and the Owner's list: both expire before they read.   *)
(***************************************************************************)
Expire(rs) ==
  row' = [r \in Request |-> IF r \in rs THEN [row[r] EXCEPT !.state = "expired"] ELSE row[r]]

PollPairing(h, r) ==
  /\ row[r].state # "absent"
  /\ Begin(h, "expire", r, Blank)
  /\ UNCHANGED <<now, row, nodes, token, told>>

PollExpire(h) ==
  /\ call[h].op = "expire" /\ Free(h)
  /\ Expire({call[h].arg} \cap Due(call[h].at))
  /\ Goto(h, "read")
  /\ UNCHANGED <<now, nodes, token, told>>

\* A row that is gone answers "unauthorized".
PollRead(h) ==
  /\ call[h].op = "read"
  /\ LET r == call[h].arg IN Tell(r, {row[r].state} \cap Final)
  /\ Return(h)
  /\ UNCHANGED <<now, row, nodes, token>>

ListPairings(h) ==
  /\ Begin(h, "list", Nobody, Blank)
  /\ UNCHANGED <<now, row, nodes, token, told>>

\* The UPDATE of ListPendingPairingRequests starts: the rows that its snapshot
\* shows as due.
ListStart(h) ==
  /\ call[h].op = "list"
  /\ call' = [call EXCEPT ![h].op = "scan", ![h].at = 0, ![h].todo = Due(call[h].at)]
  /\ UNCHANGED <<now, row, nodes, token, told>>

\* It locks the next row and changes it unless another transaction has decided
\* it since.
ListRow(h) ==
  /\ call[h].op = "scan"
  /\ \E r \in Request :
       /\ Scans(call[h], r) /\ ~Locked(r, h)
       /\ call' = [call EXCEPT ![h].todo = @ \ {r},
                               ![h].held = @ \cup {q \in {r} : row[q].state = "pending"}]
  /\ UNCHANGED <<now, row, nodes, token, told>>

\* It commits.  What the list then reads changes no state.
ListExpire(h) ==
  /\ call[h].op = "scan" /\ call[h].todo = {}
  /\ Expire(call[h].held)
  /\ Return(h)
  /\ UNCHANGED <<now, nodes, token, told>>

(***************************************************************************)
(* The Owner's decision.                                                   *)
(***************************************************************************)
DecidePairing(h, op, r) ==
  /\ op \in {"approve", "reject"} /\ row[r].state # "absent"
  /\ Begin(h, op, r, Blank)
  /\ UNCHANGED <<now, row, nodes, token, told>>

\* The lock, and the checks under it.  A row that is over, or found expired but
\* still pending, is answered with ErrPairingExpired; in the second case the
\* UPDATE to "expired" is rolled back, for the function returns without a
\* commit.  Any other decided row is a conflict.
ApproveLock(h) ==
  /\ call[h].op = "approve" /\ Free(h)
  /\ LET r == call[h].arg IN
       \/ Open(r, call[h].at) /\ Goto(h, "find") /\ UNCHANGED told
       \/ /\ ~Open(r, call[h].at)
          /\ Tell(r, IF row[r].state \in {"pending", "expired"} THEN {"overdue"} ELSE {})
          /\ Return(h)
  /\ UNCHANGED <<now, row, nodes, token>>

\* Mutant: the node is written before and outside the transaction.
ApproveFindBug(h) ==
  /\ call[h].op = "find"
  /\ LET r == call[h].arg
         m == row[r].machine
     IN  nodes' = {n \in nodes : n.machine # m}
                    \cup {[machine |-> m, cred |-> r, by |-> [token |-> Nobody, use |-> 0]]}
  /\ call' = [call EXCEPT ![h].op = "node", ![h].found = TRUE]
  /\ UNCHANGED <<now, row, token, told>>
ApproveFind(h) ==
  /\ call[h].op = "find"
  /\ call' = [call EXCEPT ![h].op = "node", ![h].found = HasNode(row[call[h].arg].machine)]
  /\ UNCHANGED <<now, row, nodes, token, told>>

\* The UPDATE of the node that was found, or the INSERT of a new one, both after
\* any other transaction that writes this node.  An INSERT of a node that there
\* is by now violates the unique index, and everything is rolled back.
\* Mutant: the INSERT meets no unique index.
ApproveNodeBug(h) ==
  /\ call[h].op = "node" /\ Free(h)
  /\ Goto(h, "commit")
  /\ UNCHANGED <<now, row, nodes, token, told>>
ApproveNode(h) ==
  /\ call[h].op = "node" /\ Free(h)
  /\ IF HasNode(row[call[h].arg].machine) /\ ~call[h].found THEN Return(h) ELSE Goto(h, "commit")
  /\ UNCHANGED <<now, row, nodes, token, told>>

\* The credential and the request, which no other transaction can have locked,
\* and the commit.
ApproveCommit(h) ==
  /\ call[h].op = "commit"
  /\ LET r == call[h].arg
         m == row[r].machine
     IN  /\ nodes' = IF call[h].found
                     THEN {IF n.machine = m THEN [n EXCEPT !.cred = r] ELSE n : n \in nodes}
                     ELSE nodes \cup {[machine |-> m, cred |-> r,
                                       by |-> [token |-> Nobody, use |-> 0]]}
         /\ row' = [row EXCEPT ![r].state = "approved"]
         /\ Tell(r, {"approved"})
  /\ Return(h)
  /\ UNCHANGED <<now, token>>

RejectPairingRequest(h) ==
  /\ call[h].op = "reject" /\ Free(h)
  /\ LET r == call[h].arg IN
       \/ /\ Open(r, call[h].at)
          /\ row' = [row EXCEPT ![r].state = "rejected"]
          /\ Tell(r, {"rejected"})
          /\ Return(h)
       \/ /\ ~Open(r, call[h].at)
          /\ call' = [call EXCEPT ![h].op = "explain"]
          /\ UNCHANGED <<row, told>>
  /\ UNCHANGED <<now, nodes, token>>

\* Why nothing was rejected: ErrPairingExpired for a row whose lifetime is over,
\* also one that was approved or rejected in time; a conflict for another.
RejectExplain(h) ==
  /\ call[h].op = "explain"
  /\ LET r == call[h].arg IN
       Tell(r, IF \/ row[r].state = "expired"
                  \/ row[r].state # "pruned" /\ row[r].expires <= call[h].at
               THEN {"overdue"} ELSE {})
  /\ Return(h)
  /\ UNCHANGED <<now, row, nodes, token>>

(***************************************************************************)
(* Enrolment tokens.                                                       *)
(***************************************************************************)
CreateEnrollment(k) ==
  /\ ~token[k].exists /\ now <= LastCall
  /\ token' = [token EXCEPT ![k] = [exists |-> TRUE, expires |-> now + EnrolLife, uses |-> 0]]
  /\ UNCHANGED <<now, row, nodes, call, told>>

EnrollAgent(h, k, m) ==
  /\ Begin(h, "enroll", k, m)
  /\ UNCHANGED <<now, row, nodes, token, told>>

EnrollLock(h) ==
  /\ call[h].op = "enroll" /\ Free(h)
  /\ LET e == token[call[h].arg] IN
       IF e.exists /\ e.expires > call[h].at /\ e.uses < MaxUses
       THEN Goto(h, "enrollNode") ELSE Return(h)
  /\ UNCHANGED <<now, row, nodes, token, told>>

\* The INSERT of the node.  A machine that has a node already violates the
\* unique index: the use of the token is rolled back too.
EnrollInsert(h) ==
  /\ call[h].op = "enrollNode" /\ Free(h)
  /\ IF HasNode(call[h].machine) THEN Return(h) ELSE Goto(h, "enrollCommit")
  /\ UNCHANGED <<now, row, nodes, token, told>>

EnrollCommit(h) ==
  /\ call[h].op = "enrollCommit"
  /\ LET k == call[h].arg IN
       /\ token' = [token EXCEPT ![k].uses = @ + 1]
       /\ nodes' = nodes \cup {[machine |-> call[h].machine, cred |-> Nobody,
                                by |-> [token |-> k, use |-> token[k].uses + 1]]}
  /\ Return(h)
  /\ UNCHANGED <<now, row, told>>

(***************************************************************************)
(* Failures, retention, time.                                              *)
(***************************************************************************)
\* The limiter refuses the request, the client goes away, a statement fails or
\* the server stops: the transaction is rolled back.
Abort(h) ==
  /\ call[h] # Idle
  /\ Return(h)
  /\ UNCHANGED <<now, row, nodes, token, told>>

Prunable(r) == row[r].state \in Final /\ row[r].created < now - Retention

\* One step although it deletes many rows: nobody holds the lock of a decided
\* row while it waits, so this statement always gets to its end.
PrunePairingRequests ==
  /\ row' = [r \in Request |->
               IF Prunable(r) THEN [row[r] EXCEPT !.state = "pruned"] ELSE row[r]]
  /\ UNCHANGED <<now, nodes, token, call, told>>

Tick == /\ now < MaxTime
        /\ now' = now + 1
        /\ UNCHANGED <<row, nodes, token, call, told>>

\* The next statement of handler h.
Step(h) ==
  \/ CreatePairingRequest(h) \/ PollExpire(h) \/ PollRead(h)
  \/ ListStart(h) \/ ListRow(h) \/ ListExpire(h)
  \/ RejectPairingRequest(h) \/ RejectExplain(h)
  \/ ApproveLock(h) \/ ApproveFind(h) \/ ApproveNode(h) \/ ApproveCommit(h)
  \/ EnrollLock(h) \/ EnrollInsert(h) \/ EnrollCommit(h)

Next ==
  \/ \E h \in Handler :
       \/ \E r \in Request :
            \/ \E m \in Machine : CreatePairing(h, r, m)
            \/ PollPairing(h, r)
            \/ \E op \in {"approve", "reject"} : DecidePairing(h, op, r)
       \/ \E k \in Token, m \in Machine \cup {Blank} : EnrollAgent(h, k, m)
       \/ ListPairings(h)
       \/ Step(h)
       \/ Abort(h)
  \/ \E k \in Token : CreateEnrollment(k)
  \/ PrunePairingRequests \/ Tick

Spec == Init /\ [][Next]_vars

(***************************************************************************)
(* Properties.                                                             *)
(***************************************************************************)
\* The rows and the handlers' calls.
TypeOK ==
  /\ now \in Nat
  /\ row \in [Request -> [state : State, machine : Machine \cup {Blank},
                          created : Nat, expires : Nat]]
  /\ nodes \subseteq Node
  /\ token \in [Token -> [exists : BOOLEAN, expires : Nat, uses : Nat]]
  /\ call \in [Handler -> Call]
  /\ told \in [Request -> SUBSET Answer]

\* Whatever final state a device's poll reported, and a decision of the Owner
\* that succeeded, is the state of the request for ever, until retention
\* deletes it: approval, rejection and both expiry UPDATEs, each acting on the
\* time its handler started, never decide one request twice.  A decision that
\* is refused with "pairing expired" (410) promises less: the lifetime of the
\* request is over, but the request may have been decided in time, and one
\* that is still pending may yet be approved or rejected by a handler that
\* started in time.
VerdictIsFinal ==
  \A r \in Request : \A v \in told[r] :
    IF v = "overdue" THEN row[r].expires <= now ELSE row[r].state \in {v, "pruned"}

\* A node's credential is the one its own enrolment returned or that of a
\* request of the same machine that the Owner approved (and retention may have
\* deleted since), and an approved request has a node: approval writes node,
\* credential and request in one transaction.
CredentialIsGranted ==
  /\ \A n \in nodes :
       IF n.cred = Nobody THEN n.by.token \in Token
       ELSE row[n.cred].machine = n.machine /\ row[n.cred].state \in {"approved", "pruned"}
  /\ \A r \in Request : row[r].state = "approved" => HasNode(row[r].machine)

\* A machine has one node, although approvals of two of its requests, or an
\* approval and an enrolment, may both find that it has none.
OneNodePerMachine ==
  \A n, p \in nodes : n.machine = p.machine /\ n.machine # Blank => n = p

\* The nodes that a token enrolled are its counted uses, one each, and no more
\* than max_uses: enrolments with one token wait for each other and a failed
\* one gives its use back.
TokenUses ==
  \A k \in Token :
    /\ token[k].uses <= MaxUses
    /\ {n.by.use : n \in {p \in nodes : p.by.token = k}} = 1 .. token[k].uses

\* Handlers never wait for each other in a circle: in every group of handlers
\* there is one that waits for none of the others.  An approval waits for a
\* node while it holds its request, an enrolment while it holds its token, and
\* an expiry UPDATE waits for a row while it holds those it has changed.
NoLockCycle ==
  \A S \in SUBSET Handler :
    S # {} => \E h \in S : \A g \in S : ~WaitsFor(h, g)

=============================================================================
