--------------------------- MODULE PairingProofs ---------------------------
(***************************************************************************)
(* Machine-checked proofs about Pairing, for any number of requests,       *)
(* machines, tokens and concurrent handlers, and any lifetimes and limits. *)
(*                                                                         *)
(* The inductive invariant IInv adds to the properties what a handler      *)
(* between two of its statements may rely on: no lock has two holders, the *)
(* row that a transaction has locked is still pending, its token still has *)
(* a use left, a node that it is about to insert is not there, and a scan  *)
(* has changed only rows that come before those it still has to visit.     *)
(* Each action's lemma also says what the step does to requests and nodes. *)
(***************************************************************************)
EXTENDS Pairing, WellFoundedInduction, TLAPS

Row == [state : State, machine : Machine \cup {Blank}, created : Nat, expires : Nat]

RowLock   == {"find", "node", "commit"}
TokenLock == {"enrollNode", "enrollCommit"}
OnRow     == {"expire", "read", "reject", "explain", "approve"} \cup RowLock

\* What a handler that executes call c relies on.
Fits(c) ==
  /\ c.at <= now
  /\ c.op = "insert" => /\ c.arg \in Request /\ row[c.arg].state = "absent"
                        /\ c.machine \in Machine
  /\ c.op \in OnRow => c.arg \in Request /\ row[c.arg].state # "absent"
  /\ c.op \in RowLock => row[c.arg].state = "pending"
  /\ c.op = "node" /\ c.found => HasNode(row[c.arg].machine)
  /\ c.op = "commit" => (c.found <=> HasNode(row[c.arg].machine))
  /\ c.op \in {"enroll"} \cup TokenLock => c.arg \in Token
  /\ c.op \in TokenLock => token[c.arg].exists /\ token[c.arg].uses < MaxUses
  /\ c.op = "enrollCommit" => ~HasNode(c.machine)
  /\ c.op # "scan" => c.held = {}
  /\ c.op = "scan" =>
       /\ \A r \in c.todo \cup c.held : row[r].state # "absent" /\ row[r].expires <= now
       /\ \A r \in c.held : row[r].state = "pending" /\ \A q \in c.todo : q < r

\* Nobody else knows a request that is being inserted, and no two transactions
\* hold one lock.
CallInv ==
  /\ \A h \in Handler : Fits(call[h])
  /\ \A g, h \in Handler : g # h /\ call[g].op = "insert" => call[g].arg # call[h].arg
  /\ \A g, h \in Handler : g # h => \A x \in Lockable : ~(Holds(g, x) /\ Holds(h, x))

\* A request that exists names a machine, nobody was told of one that does not,
\* none expired before its time, and an unknown token has no uses.
RowInv ==
  /\ \A r \in Request : /\ row[r].state # "absent" => row[r].machine \in Machine
                        /\ row[r].state = "absent" => told[r] = {}
                        /\ row[r].state = "expired" => row[r].expires <= now
  /\ \A k \in Token : ~token[k].exists => token[k].uses = 0

\* The uses of a token, element by element.
UseInv ==
  \A k \in Token :
    /\ token[k].uses <= MaxUses
    /\ \A u : (\E n \in nodes : n.by.token = k /\ n.by.use = u)
                <=> u \in 1 .. token[k].uses

IInv == TypeOK /\ CallInv /\ RowInv /\ UseInv /\ VerdictIsFinal /\ CredentialIsGranted
          /\ OneNodePerMachine

\* A request is created pending, decided once (and expires only when its
\* lifetime is over), and deleted only when it was decided and is too old.  But
\* for its state it never changes.
RowLife(r) ==
  \/ row'[r] = row[r]
  \/ /\ row[r].state = "absent" /\ row'[r].state = "pending"
     /\ row'[r].machine \in Machine /\ row'[r].created <= now
     /\ row'[r].expires = row'[r].created + Lifetime
  \/ /\ row'[r].machine = row[r].machine
     /\ row'[r].created = row[r].created /\ row'[r].expires = row[r].expires
     /\ \/ row[r].state = "pending" /\ row'[r].state \in {"approved", "rejected"}
        \/ row[r].state = "pending" /\ row'[r].state = "expired" /\ row[r].expires <= now
        \/ /\ row[r].state \in Final /\ row'[r].state = "pruned"
           /\ row[r].created + Retention < now

\* A node stays, with its machine and its origin; its credential changes only to
\* that of a request of its machine, in the very step that approves the request.
NodeLife(n) ==
  \E p \in nodes' :
    /\ p.machine = n.machine /\ p.by = n.by
    /\ \/ p.cred = n.cred
       \/ /\ p.cred \in Request /\ row[p.cred].machine = n.machine
          /\ row[p.cred].state = "pending" /\ row'[p.cred].state = "approved"

RequestsLive == [][\A r \in Request : RowLife(r)]_vars
NodesLive == [][\A n \in nodes : NodeLife(n)]_vars

\* What every step does.
Kept == IInv' /\ (\A r \in Request : RowLife(r)) /\ (\A n \in nodes : NodeLife(n))

\* The answers after a step are those before it and ones that hold after it.
Told ==
  /\ told' \in [Request -> SUBSET Answer]
  /\ \A r \in Request : \A v \in told'[r] :
       \/ v \in told[r]
       \/ /\ row'[r].state # "absent"
          /\ IF v = "overdue" THEN row'[r].expires <= now' ELSE row'[r].state = v

-----------------------------------------------------------------------------
(***************************************************************************)
(* What the actions have in common.                                        *)
(***************************************************************************)
\* What a lock is and who can hold it.
LEMMA Holders ==
  ASSUME IInv, NEW h \in Handler, NEW x \in Lockable, Holds(h, x)
  PROVE  /\ x \in Request => \/ call[h].op \in RowLock /\ x = call[h].arg
                             \/ call[h].op = "scan" /\ x \in call[h].held
         /\ x \in Token => call[h].op \in TokenLock /\ x = call[h].arg
         /\ x \in Machine =>
              \/ call[h].op = "commit" /\ x = row[call[h].arg].machine
              \/ call[h].op = "enrollCommit" /\ x = call[h].machine
<1>1. Fits(call[h]) /\ call[h] \in Call
  BY DEF IInv, CallInv, TypeOK
<1>2. /\ call[h].op \in RowLock => call[h].arg \in Request /\ row[call[h].arg].machine \in Machine
      /\ call[h].op \in TokenLock => call[h].arg \in Token
      /\ call[h].held \subseteq Request /\ call[h].machine \in Machine \cup {Blank}
  BY <1>1 DEF Fits, OnRow, RowLock, TokenLock, Call, IInv, RowInv
<1> QED BY <1>1, <1>2, PairingAssumption DEF Holds, Lockable, RowLock, TokenLock

\* What another handler relies on survives a step that writes nothing it has
\* locked.
LEMMA OthersFit ==
  ASSUME IInv, NEW g \in Handler, call'[g] = call[g], now <= now', now' \in Nat,
         \A r \in Request : RowLife(r),
         \A r \in Request : row'[r] # row[r] => ~Holds(g, r),
         \A r \in Request : row'[r] # row[r] /\ row[r].state = "absent" => call[g].arg # r,
         \A k \in Token : token'[k] # token[k] /\ token[k].exists => ~Holds(g, k),
         \A m : HasNode(m) => HasNode(m)',
         \A m \in Machine : HasNode(m)' /\ ~HasNode(m) => ~Holds(g, m)
  PROVE  Fits(call[g])'
<1> DEFINE c == call[g]
<1>1. Fits(c) /\ c \in Call /\ now \in Nat
  BY DEF IInv, CallInv, TypeOK
<1>2. \A r \in Request : row[r].state # "absent" =>
        /\ row'[r].state # "absent" /\ row'[r].machine = row[r].machine
        /\ row'[r].expires = row[r].expires
  BY DEF RowLife, Final
<1>3. \A r \in Request : row[r] \in Row
  BY DEF IInv, TypeOK, Row
<1>4. c.at \in Nat /\ c.todo \subseteq Request /\ c.held \subseteq Request
  BY <1>1 DEF Call
<1>5. c.at <= now'
  BY <1>1, <1>4 DEF Fits
<1>6. c.op \in OnRow => /\ c.arg \in Request /\ row'[c.arg].state # "absent"
                        /\ row'[c.arg].machine = row[c.arg].machine
                        /\ row[c.arg].machine \in Machine
  BY <1>1, <1>2 DEF Fits, IInv, RowInv
<1>7. c.op \in RowLock => row'[c.arg] = row[c.arg]
  BY <1>1 DEF Fits, OnRow, RowLock, Holds, Lockable
<1>8. c.op = "insert" => c.arg \in Request /\ row'[c.arg] = row[c.arg]
  BY <1>1 DEF Fits
<1>9. c.op \in TokenLock => token'[c.arg] = token[c.arg]
  BY <1>1 DEF Fits, TokenLock, Holds, Lockable
<1>10. c.op = "commit" => (HasNode(row[c.arg].machine)' <=> HasNode(row[c.arg].machine))
  <2>1. c.op = "commit" => Holds(g, row[c.arg].machine) /\ row[c.arg].machine \in Machine
    BY <1>6 DEF Holds, OnRow, RowLock
  <2> QED BY <1>6, <2>1 DEF OnRow, RowLock, HasNode
<1>11. c.op = "enrollCommit" => ~HasNode(c.machine)'
  <2>1. c.op = "enrollCommit" => Holds(g, c.machine) /\ c.machine \in Machine \cup {Blank}
    BY <1>1 DEF Holds, Call
  <2> QED BY <1>1, <2>1 DEF HasNode, Fits
<1>12. c.op = "scan" => \A r \in c.held : row'[r] = row[r]
  BY <1>4 DEF Holds, Lockable
<1>13. c.op = "scan" => \A r \in c.todo \cup c.held : /\ row'[r].state # "absent"
                                                     /\ row'[r].expires <= now'
  <2> SUFFICES ASSUME c.op = "scan", NEW r \in c.todo \cup c.held
               PROVE  row'[r].state # "absent" /\ row'[r].expires <= now'
    OBVIOUS
  <2>1. r \in Request /\ row[r].state # "absent" /\ row[r].expires <= now
    BY <1>1, <1>4 DEF Fits
  <2>2. row[r].expires \in Nat
    BY <1>3, <2>1 DEF Row
  <2> QED BY <1>1, <1>2, <2>1, <2>2
<1>14. c.op = "node" /\ c.found => HasNode(row[c.arg].machine)'
  <2>1. c.op = "node" /\ c.found => HasNode(row[c.arg].machine)
    BY <1>1 DEF Fits
  <2> QED BY <1>6, <2>1 DEF OnRow, RowLock, HasNode
<1>15. c.op = "commit" => (c.found <=> HasNode(row[c.arg].machine)')
  BY <1>1, <1>10 DEF Fits
<1>16. (c.op = "commit" => (c.found <=> HasNode(row[c.arg].machine)))'
  BY <1>15
<1>17. (c.op = "node" /\ c.found => HasNode(row[c.arg].machine))'
  BY <1>14
<1>18. (c.op = "enrollCommit" => ~HasNode(c.machine))'
  BY <1>11
<1>19. (c.op = "scan" =>
         /\ \A r \in c.todo \cup c.held : row[r].state # "absent" /\ row[r].expires <= now
         /\ \A r \in c.held : row[r].state = "pending" /\ \A q \in c.todo : q < r)'
  BY <1>1, <1>12, <1>13 DEF Fits
<1>20. (c.op # "scan" => c.held = {})' /\ (c.at <= now)'
  BY <1>1, <1>5 DEF Fits
<1>21. (/\ c.op = "insert" => /\ c.arg \in Request /\ row[c.arg].state = "absent"
                              /\ c.machine \in Machine
        /\ c.op \in OnRow => c.arg \in Request /\ row[c.arg].state # "absent"
        /\ c.op \in RowLock => row[c.arg].state = "pending"
        /\ c.op \in {"enroll"} \cup TokenLock => c.arg \in Token
        /\ c.op \in TokenLock => token[c.arg].exists /\ token[c.arg].uses < MaxUses)'
  BY <1>1, <1>6, <1>7, <1>8, <1>9 DEF Fits, OnRow, RowLock, TokenLock
<1> QED BY <1>16, <1>17, <1>18, <1>19, <1>20, <1>21 DEF Fits

\* The calls after a step of handler h, which takes only locks that are free.
LEMMA CallStep ==
  ASSUME IInv, NEW h \in Handler, \A g \in Handler \ {h} : call'[g] = call[g],
         \A r \in Request : RowLife(r),
         Fits(call[h])', \A g \in Handler \ {h} : Fits(call[g])',
         \A g \in Handler \ {h} :
           call'[h].op = "insert" \/ call[g].op = "insert" => call'[h].arg # call[g].arg,
         \A x \in Lockable : Holds(h, x)' => Holds(h, x) \/ ~Locked(x, h)
  PROVE  CallInv'
<1>1. \A g \in Handler : Fits(call[g])'
  OBVIOUS
<1>2. \A g, f \in Handler : g # f /\ call'[g].op = "insert" => call'[g].arg # call'[f].arg
  BY DEF IInv, CallInv
<1>3. ASSUME NEW g \in Handler \ {h}, NEW x \in Lockable, Holds(g, x)' PROVE Holds(g, x)
  <2>1. Fits(call[g]) /\ call'[g] = call[g]
    BY DEF IInv, CallInv
  <2>2. call[g].op = "commit" => row'[call[g].arg].machine = row[call[g].arg].machine
    BY <2>1 DEF Fits, OnRow, RowLock, RowLife
  <2> QED BY <1>3, <2>1, <2>2 DEF Holds
<1>4. ASSUME NEW g \in Handler \ {h}, NEW x \in Lockable PROVE ~(Holds(g, x)' /\ Holds(h, x)')
  BY <1>3 DEF IInv, CallInv, Locked
<1>5. ASSUME NEW g \in Handler \ {h}, NEW f \in Handler \ {h}, g # f, NEW x \in Lockable
      PROVE  ~(Holds(g, x)' /\ Holds(f, x)')
  BY <1>3, <1>5 DEF IInv, CallInv
<1>6. \A g, f \in Handler : g # f => \A x \in Lockable : ~(Holds(g, x)' /\ Holds(f, x)')
  BY <1>4, <1>5
<1> QED BY <1>1, <1>2, <1>6 DEF CallInv

\* Rows and answers, after a step that approves nothing.
LEMMA RowStep ==
  ASSUME IInv, TypeOK', UNCHANGED <<nodes, token>>, now <= now',
         \A r \in Request : RowLife(r),
         \A r \in Request : row'[r].state = "approved" => row[r].state = "approved",
         Told
  PROVE  /\ RowInv' /\ UseInv' /\ VerdictIsFinal' /\ CredentialIsGranted' /\ OneNodePerMachine'
         /\ \A n \in nodes : NodeLife(n)
<1>1. \A r \in Request : row[r] \in Row /\ row[r].expires \in Nat /\ now \in Nat /\ now' \in Nat
  BY DEF IInv, TypeOK, Row
<1>2. RowInv'
  <2>1. ASSUME NEW r \in Request
        PROVE  /\ row'[r].state # "absent" => row'[r].machine \in Machine
               /\ row'[r].state = "absent" => told'[r] = {}
               /\ row'[r].state = "expired" => row'[r].expires <= now'
    <3>1. /\ row[r].state # "absent" => row[r].machine \in Machine
          /\ row[r].state = "absent" => told[r] = {}
          /\ row[r].state = "expired" => row[r].expires <= now
      BY DEF IInv, RowInv
    <3>2. row'[r].state = "absent" => row[r].state = "absent"
      BY DEF RowLife, Final
    <3>3. row'[r].state = "absent" => told'[r] = {}
      BY <3>1, <3>2 DEF Told
    <3>4. row'[r].state # "absent" => row'[r].machine \in Machine
      BY <3>1 DEF RowLife, Final
    <3>5. row'[r].state = "expired" => row'[r].expires <= now'
      BY <1>1, <3>1 DEF RowLife, Final
    <3> QED BY <3>3, <3>4, <3>5
  <2>2. \A k \in Token : ~token'[k].exists => token'[k].uses = 0
    BY DEF IInv, RowInv
  <2> QED BY <2>1, <2>2 DEF RowInv
<1>3. UseInv' /\ OneNodePerMachine' /\ \A n \in nodes : NodeLife(n)
  BY DEF IInv, UseInv, OneNodePerMachine, NodeLife
<1>4. ASSUME NEW r \in Request, NEW v \in told'[r]
      PROVE  IF v = "overdue" THEN row'[r].expires <= now' ELSE row'[r].state \in {v, "pruned"}
  <2>1. v \in Answer
    BY DEF Told
  <2>2. CASE v \in told[r]
    <3>1. row[r].state # "absent"
      BY <2>2 DEF IInv, RowInv
    <3>2. IF v = "overdue" THEN row[r].expires <= now ELSE row[r].state \in {v, "pruned"}
      BY <2>2 DEF IInv, VerdictIsFinal
    <3>3. v = "overdue" => row'[r].expires <= now'
      BY <1>1, <3>1, <3>2 DEF RowLife
    <3>4. v # "overdue" => row'[r].state \in {v, "pruned"}
      BY <2>1, <3>1, <3>2 DEF RowLife, Final, Answer
    <3> QED BY <3>3, <3>4
  <2>3. CASE v \notin told[r]
    BY <2>3 DEF Told
  <2> QED BY <2>2, <2>3
<1>5. \A r \in Request : row[r].state \in {"approved", "pruned"} =>
        row'[r].machine = row[r].machine /\ row'[r].state \in {"approved", "pruned"}
  BY DEF RowLife, Final
<1>6. \A r \in Request : row'[r].state = "approved" =>
        row[r].state = "approved" /\ row'[r].machine = row[r].machine
  BY DEF RowLife
<1>7. CredentialIsGranted'
  <2>1. ASSUME NEW n \in nodes
        PROVE  IF n.cred = Nobody THEN n.by.token \in Token
               ELSE row'[n.cred].machine = n.machine
                    /\ row'[n.cred].state \in {"approved", "pruned"}
    BY <1>5 DEF IInv, TypeOK, Node, CredentialIsGranted
  <2>2. \A r \in Request : row'[r].state = "approved" => HasNode(row'[r].machine)
    BY <1>6 DEF IInv, CredentialIsGranted
  <2> QED BY <2>1, <2>2 DEF CredentialIsGranted, HasNode
<1> QED BY <1>2, <1>3, <1>4, <1>7 DEF VerdictIsFinal

\* A step of handler h that writes only rows, which nobody else has locked, and
\* approves none.
LEMMA RowMove ==
  ASSUME IInv, NEW h \in Handler, call' \in [Handler -> Call],
         \A g \in Handler \ {h} : call'[g] = call[g],
         UNCHANGED <<now, nodes, token>>, row' \in [Request -> Row], Told,
         \A r \in Request : RowLife(r),
         \A r \in Request : row'[r].state = "approved" => row[r].state = "approved",
         \A r \in Request : row'[r] # row[r] =>
           ~Locked(r, h) /\ (row[r].state = "absent" => \A g \in Handler \ {h} : call[g].arg # r),
         Fits(call[h])',
         \A g \in Handler \ {h} :
           call'[h].op = "insert" \/ call[g].op = "insert" => call'[h].arg # call[g].arg,
         \A x \in Lockable : Holds(h, x)' => Holds(h, x) \/ ~Locked(x, h)
  PROVE  Kept
<1>1. now \in Nat /\ now <= now' /\ now' \in Nat
  BY DEF IInv, TypeOK
<1>2. TypeOK'
  BY DEF IInv, TypeOK, Told, Row
<1>3. ASSUME NEW g \in Handler \ {h} PROVE Fits(call[g])'
  <2>1. \A r \in Request : row'[r] # row[r] => ~Holds(g, r)
    BY DEF Locked
  <2>2. \A m : HasNode(m)' <=> HasNode(m)
    BY DEF HasNode
  <2> QED BY <1>1, <2>1, <2>2, OthersFit
<1>4. CallInv'
  BY <1>3, CallStep
<1> QED BY <1>1, <1>2, <1>4, RowStep DEF Kept, IInv

\* A step that changes only the call of handler h.
LEMMA CallMove ==
  ASSUME IInv, NEW h \in Handler, call' \in [Handler -> Call],
         \A g \in Handler \ {h} : call'[g] = call[g],
         UNCHANGED <<now, row, nodes, token, told>>,
         Fits(call[h])',
         \A g \in Handler \ {h} :
           call'[h].op = "insert" \/ call[g].op = "insert" => call'[h].arg # call[g].arg,
         \A x \in Lockable : Holds(h, x)' => Holds(h, x) \/ ~Locked(x, h)
  PROVE  Kept
<1>1. row' \in [Request -> Row] /\ Told
  BY DEF IInv, TypeOK, Row, Told
<1>2. \A r \in Request : RowLife(r) /\ row'[r] = row[r]
  BY DEF RowLife
<1> QED BY <1>1, <1>2, RowMove

\* A handler that returns relies on nothing, holds nothing and disturbs nobody.
LEMMA Returned ==
  ASSUME IInv, NEW h \in Handler, Return(h), now' \in Nat
  PROVE  /\ call' \in [Handler -> Call] /\ \A g \in Handler \ {h} : call'[g] = call[g]
         /\ Fits(call[h])' /\ \A x : ~Holds(h, x)'
         /\ \A g \in Handler \ {h} :
              call'[h].op = "insert" \/ call[g].op = "insert" => call'[h].arg # call[g].arg
<1>1. Idle \in Call
  BY DEF Idle, Started, Call, Op
<1>2. /\ call' \in [Handler -> Call] /\ call'[h] = Idle
      /\ \A g \in Handler \ {h} : call'[g] = call[g]
  BY <1>1 DEF IInv, TypeOK, Return
<1>3. /\ call'[h].op = "idle" /\ call'[h].arg = Nobody /\ call'[h].at = 0
      /\ call'[h].todo = {} /\ call'[h].held = {}
  BY <1>2 DEF Idle, Started
<1>4. Fits(call[h])'
  BY <1>3 DEF Fits, OnRow, RowLock, TokenLock
<1>5. \A x : ~Holds(h, x)'
  BY <1>3 DEF Holds
<1>6. \A g \in Handler : call[g].op = "insert" => call[g].arg # Nobody
  BY PairingAssumption DEF IInv, CallInv, Fits
<1> QED BY <1>2, <1>3, <1>4, <1>5, <1>6

\* A handler that returns with nothing written.
LEMMA ReturnMove ==
  ASSUME IInv, NEW h \in Handler, Return(h), UNCHANGED <<now, row, nodes, token, told>>
  PROVE  Kept
<1>1. now' \in Nat
  BY DEF IInv, TypeOK
<1> QED BY <1>1, Returned, CallMove

\* A handler that answers and returns.
LEMMA AnswerMove ==
  ASSUME IInv, NEW h \in Handler, NEW r \in Request, NEW a \in SUBSET Answer, Return(h),
         Tell(r, a), UNCHANGED <<now, row, nodes, token>>, row[r].state # "absent",
         \A v \in a : IF v = "overdue" THEN row[r].expires <= now ELSE row[r].state = v
  PROVE  Kept
<1>1. now' \in Nat /\ row' \in [Request -> Row]
  BY DEF IInv, TypeOK, Row
<1>2. told' \in [Request -> SUBSET Answer] /\ told'[r] = told[r] \cup a
      /\ \A q \in Request : q # r => told'[q] = told[q]
  BY DEF IInv, TypeOK, Tell
<1>3. Told
  BY <1>2 DEF Told
<1>4. \A q \in Request : RowLife(q) /\ row'[q] = row[q]
  BY DEF RowLife
<1> QED BY <1>1, <1>3, <1>4, Returned, RowMove

\* On to the next statement.
LEMMA GotoStep ==
  ASSUME IInv, NEW h \in Handler, NEW op \in Op, Goto(h, op)
  PROVE  /\ call' \in [Handler -> Call] /\ \A g \in Handler \ {h} : call'[g] = call[g]
         /\ call'[h].op = op /\ call'[h].at = 0 /\ call'[h].arg = call[h].arg
         /\ call'[h].machine = call[h].machine /\ call'[h].found = call[h].found
         /\ call'[h].held = call[h].held
BY DEF IInv, TypeOK, Call, Goto

\* A handler may begin with a call that names no row that is being inserted.
LEMMA Begins ==
  ASSUME IInv, NEW h \in Handler, NEW op \in Op,
         NEW arg \in Request \cup Token \cup {Nobody}, NEW m \in Machine \cup {Blank},
         Begin(h, op, arg, m)
  PROVE  /\ call' \in [Handler -> Call] /\ \A g \in Handler \ {h} : call'[g] = call[g]
         /\ call'[h].op = op /\ call'[h].at = now /\ call'[h].arg = arg
         /\ call'[h].machine = m /\ call'[h].held = {}
<1> DEFINE c == Started(op, arg, m, now)
<1>1. /\ c \in Call /\ c.op = op /\ c.at = now /\ c.arg = arg /\ c.machine = m /\ c.held = {}
  BY DEF Started, Call, IInv, TypeOK
<1>2. call' = [call EXCEPT ![h] = c]
  BY DEF Begin
<1> HIDE DEF c
<1> QED BY <1>1, <1>2 DEF IInv, TypeOK

-----------------------------------------------------------------------------
(***************************************************************************)
(* One lemma per action.                                                   *)
(***************************************************************************)
\* createPairing: no other handler knows the new request.
LEMMA CreatePairingInv ==
  ASSUME IInv, NEW h \in Handler, NEW r \in Request, NEW m \in Machine, CreatePairing(h, r, m)
  PROVE  Kept
<1>1. /\ call' \in [Handler -> Call] /\ \A g \in Handler \ {h} : call'[g] = call[g]
      /\ call'[h].op = "insert" /\ call'[h].at = now /\ call'[h].arg = r
      /\ call'[h].machine = m /\ call'[h].held = {}
  BY Begins DEF CreatePairing, Op
<1>2. UNCHANGED <<now, row, nodes, token, told>> /\ now \in Nat
  BY DEF CreatePairing, IInv, TypeOK
<1>3. Fits(call[h])'
  BY <1>1, <1>2 DEF Fits, OnRow, RowLock, TokenLock, CreatePairing
<1>4. \A x : ~Holds(h, x)'
  BY <1>1 DEF Holds
<1>5. \A g \in Handler \ {h} : call'[h].arg # call[g].arg
  BY <1>1 DEF CreatePairing
<1> QED BY <1>1, <1>2, <1>3, <1>4, <1>5, CallMove

\* The other requests to the server: a poll, the list, a decision, an enrolment.
LEMMA BeginMove ==
  ASSUME IInv, NEW h \in Handler,
         NEW op \in {"expire", "list", "approve", "reject", "enroll"},
         NEW arg \in Request \cup Token \cup {Nobody}, NEW m \in Machine \cup {Blank},
         Begin(h, op, arg, m), UNCHANGED <<now, row, nodes, token, told>>,
         op \in {"expire", "approve", "reject"} => arg \in Request /\ row[arg].state # "absent",
         op = "enroll" => arg \in Token,
         op = "list" => arg = Nobody
  PROVE  Kept
<1>1. /\ call' \in [Handler -> Call] /\ \A g \in Handler \ {h} : call'[g] = call[g]
      /\ call'[h].op = op /\ call'[h].at = now /\ call'[h].arg = arg
      /\ call'[h].machine = m /\ call'[h].held = {}
  BY Begins DEF Op
<1>2. now \in Nat
  BY DEF IInv, TypeOK
<1>3. Fits(call[h])'
  BY <1>1, <1>2 DEF Fits, OnRow, RowLock, TokenLock
<1>4. \A x : ~Holds(h, x)'
  BY <1>1 DEF Holds
<1>5. \A g \in Handler : call[g].op = "insert" => call[g].arg # arg
  BY PairingAssumption DEF IInv, CallInv, Fits
<1> QED BY <1>1, <1>3, <1>4, <1>5, CallMove

\* The begin of a poll, a list, a decision or an enrolment.
LEMMA BeginInv ==
  ASSUME IInv, NEW h \in Handler,
         \/ \E r \in Request : PollPairing(h, r)
         \/ \E r \in Request : \E op \in {"approve", "reject"} : DecidePairing(h, op, r)
         \/ \E k \in Token, m \in Machine \cup {Blank} : EnrollAgent(h, k, m)
         \/ ListPairings(h)
  PROVE  Kept
<1>1. ASSUME NEW r \in Request, PollPairing(h, r) PROVE Kept
  BY <1>1, BeginMove DEF PollPairing
<1>2. ASSUME NEW r \in Request, NEW op \in {"approve", "reject"}, DecidePairing(h, op, r)
      PROVE  Kept
  BY <1>2, BeginMove DEF DecidePairing
<1>3. ASSUME NEW k \in Token, NEW m \in Machine \cup {Blank}, EnrollAgent(h, k, m)
      PROVE  Kept
  BY <1>3, BeginMove DEF EnrollAgent
<1>4. ASSUME ListPairings(h) PROVE Kept
  BY <1>4, BeginMove DEF ListPairings
<1> QED BY <1>1, <1>2, <1>3, <1>4

\* The INSERT of a request.
LEMMA CreatePairingRequestInv ==
  ASSUME IInv, NEW h \in Handler, CreatePairingRequest(h)
  PROVE  Kept
<1> DEFINE r == call[h].arg
           new == [state |-> "pending", machine |-> call[h].machine,
                   created |-> call[h].at, expires |-> call[h].at + Lifetime]
<1>1. /\ r \in Request /\ row[r].state = "absent" /\ call[h].machine \in Machine
      /\ call[h].op = "insert" /\ call[h].at \in Nat /\ call[h].at <= now
  BY DEF IInv, TypeOK, CallInv, Fits, CreatePairingRequest, Call
<1>2. /\ new \in Row /\ new.state = "pending" /\ new.machine \in Machine
      /\ new.created = call[h].at /\ new.expires = call[h].at + Lifetime
  BY <1>1, PairingAssumption DEF Row, State
<1>3. row' = [row EXCEPT ![r] = new] /\ UNCHANGED <<now, nodes, token, told>> /\ Return(h)
  BY DEF CreatePairingRequest
<1> HIDE DEF new
<1>4. /\ row' \in [Request -> Row] /\ row'[r] = new
      /\ \A q \in Request : q # r => row'[q] = row[q]
  BY <1>1, <1>2, <1>3 DEF IInv, TypeOK, Row
<1>5. \A q \in Request : RowLife(q)
  BY <1>1, <1>2, <1>4 DEF RowLife
<1>6. \A g \in Handler \ {h} : call[g].arg # r
  BY <1>1 DEF IInv, CallInv
<1>7. r \in Lockable /\ ~Locked(r, h)
  <2>1. r \in Lockable
    BY <1>1 DEF Lockable
  <2>2. \A g \in Handler : Fits(call[g])
    BY DEF IInv, CallInv
  <2> QED BY <1>1, <1>6, <2>1, <2>2, Holders DEF Locked, Fits
<1>8. Told /\ now' \in Nat
  BY <1>3 DEF IInv, TypeOK, Told
<1>9. \A q \in Request : row'[q].state = "approved" => row[q].state = "approved"
  BY <1>2, <1>4
<1> QED BY <1>1, <1>3, <1>4, <1>5, <1>6, <1>7, <1>8, <1>9, Returned, RowMove

\* An expiry: the rows are pending, over and not locked by another handler.
LEMMA ExpireRows ==
  ASSUME IInv, NEW h \in Handler, NEW rs \in SUBSET Request, Expire(rs), told' = told,
         \A r \in rs : row[r].state = "pending" /\ row[r].expires <= now /\ ~Locked(r, h)
  PROVE  /\ row' \in [Request -> Row] /\ Told
         /\ \A r \in Request : RowLife(r)
         /\ \A r \in Request : row'[r].state = "approved" => row[r].state = "approved"
         /\ \A r \in Request : row'[r] # row[r] => ~Locked(r, h) /\ row[r].state # "absent"
<1>1. \A r \in Request : row[r] \in Row
  BY DEF IInv, TypeOK, Row
<1>2. ASSUME NEW r \in rs
      PROVE  /\ row'[r] \in Row /\ row'[r].state = "expired" /\ row'[r].machine = row[r].machine
             /\ row'[r].created = row[r].created /\ row'[r].expires = row[r].expires
  <2>1. row'[r] = [row[r] EXCEPT !.state = "expired"]
    BY DEF Expire
  <2> QED BY <1>1, <2>1 DEF Row, State, Final
<1>3. \A r \in Request : r \notin rs => row'[r] = row[r]
  BY DEF Expire
<1>4. row' \in [Request -> Row]
  <2>1. \A r \in Request : row'[r] \in Row
    BY <1>1, <1>2, <1>3
  <2> QED BY <2>1 DEF Expire
<1>5. \A r \in Request : RowLife(r)
  BY <1>2, <1>3 DEF RowLife
<1>6. Told
  BY DEF IInv, TypeOK, Told
<1> QED BY <1>2, <1>3, <1>4, <1>5, <1>6

\* The expiry of a poll.
LEMMA PollExpireInv ==
  ASSUME IInv, NEW h \in Handler, PollExpire(h)
  PROVE  Kept
<1> DEFINE rs == {call[h].arg} \cap Due(call[h].at)
<1>1. /\ call[h].op = "expire" /\ call[h].arg \in Request /\ row[call[h].arg].state # "absent"
      /\ call[h].at <= now /\ call[h].at \in Nat /\ now \in Nat /\ call[h].held = {}
  BY DEF IInv, TypeOK, CallInv, Fits, PollExpire, OnRow, Call
<1>2. rs \in SUBSET Request /\ Expire(rs) /\ UNCHANGED <<now, nodes, token, told>>
  BY DEF PollExpire, Due
<1>3. ASSUME NEW r \in rs PROVE row[r].state = "pending" /\ row[r].expires <= now /\ ~Locked(r, h)
  <2>1. r = call[h].arg /\ r \in Due(call[h].at) /\ row[r].expires \in Nat
    BY DEF Due, IInv, TypeOK
  <2>2. r \in Lockable /\ Wants(h, r)
    BY <1>1, <2>1 DEF Lockable, Wants
  <2> QED BY <1>1, <2>1, <2>2 DEF Due, PollExpire, Free
<1> HIDE DEF rs
<1>4. /\ row' \in [Request -> Row] /\ Told
      /\ \A r \in Request : RowLife(r)
      /\ \A r \in Request : row'[r].state = "approved" => row[r].state = "approved"
      /\ \A r \in Request : row'[r] # row[r] => ~Locked(r, h) /\ row[r].state # "absent"
  BY <1>2, <1>3, ExpireRows
<1>5. /\ call' \in [Handler -> Call] /\ \A g \in Handler \ {h} : call'[g] = call[g]
      /\ call'[h].op = "read" /\ call'[h].at = 0 /\ call'[h].arg = call[h].arg
      /\ call'[h].held = call[h].held
  BY GotoStep DEF PollExpire, Op
<1>6. row'[call[h].arg].state # "absent"
  BY <1>1, <1>4 DEF RowLife, Final
<1>7. Fits(call[h])'
  BY <1>1, <1>2, <1>5, <1>6 DEF Fits, OnRow, RowLock, TokenLock
<1>8. \A x : ~Holds(h, x)'
  BY <1>5 DEF Holds
<1>9. \A g \in Handler \ {h} : call[g].op = "insert" => call[h].arg # call[g].arg
  BY DEF IInv, CallInv
<1> QED BY <1>2, <1>4, <1>5, <1>7, <1>8, <1>9, RowMove

\* The read of a poll.
LEMMA PollReadInv ==
  ASSUME IInv, NEW h \in Handler, PollRead(h)
  PROVE  Kept
<1> DEFINE r == call[h].arg
           a == {row[r].state} \cap Final
<1>1. r \in Request /\ row[r].state # "absent"
  BY DEF IInv, CallInv, Fits, OnRow, PollRead
<1>2. a \in SUBSET Answer /\ \A v \in a : v # "overdue" /\ row[r].state = v
  BY DEF Answer, Final
<1>3. Tell(r, a) /\ Return(h) /\ UNCHANGED <<now, row, nodes, token>>
  BY DEF PollRead
<1> HIDE DEF r, a
<1> QED BY <1>1, <1>2, <1>3, AnswerMove

\* The expiry UPDATE of the list starts, with the rows that are due.
LEMMA ListStartInv ==
  ASSUME IInv, NEW h \in Handler, ListStart(h)
  PROVE  Kept
<1> DEFINE d == Due(call[h].at)
           c == [call[h] EXCEPT !.op = "scan", !.at = 0, !.todo = d]
<1>1. /\ call[h].op = "list" /\ call[h] \in Call /\ Fits(call[h]) /\ now \in Nat
      /\ UNCHANGED <<now, row, nodes, token, told>>
  BY DEF IInv, TypeOK, CallInv, ListStart
<1>2. d \subseteq Request
  BY DEF Due
<1>3. \A r \in d : row[r].state = "pending" /\ row[r].expires <= now
  <2>1. call[h].at \in Nat /\ call[h].at <= now
    BY <1>1 DEF Fits, Call
  <2>2. \A r \in Request : row[r].expires \in Nat
    BY DEF IInv, TypeOK
  <2> QED BY <1>1, <2>1, <2>2 DEF Due
<1>4. call' = [call EXCEPT ![h] = c]
  BY DEF ListStart
<1> HIDE DEF d
<1>5. /\ c \in Call /\ c.op = "scan" /\ c.at = 0 /\ c.todo = d /\ c.held = {}
      /\ c.arg = call[h].arg
  BY <1>1, <1>2 DEF Call, Op, Fits
<1> HIDE DEF c
<1>6. /\ call' \in [Handler -> Call] /\ call'[h] = c
      /\ \A g \in Handler \ {h} : call'[g] = call[g]
  BY <1>4, <1>5 DEF IInv, TypeOK
<1>7. Fits(call[h])'
  <2>1. /\ call'[h].op = "scan" /\ call'[h].at = 0 /\ call'[h].todo = d /\ call'[h].held = {}
    BY <1>5, <1>6
  <2> QED BY <1>1, <1>3, <2>1 DEF Fits, OnRow, RowLock, TokenLock
<1>8. \A x : ~Holds(h, x)'
  BY <1>5, <1>6 DEF Holds
<1>9. \A g \in Handler \ {h} : call[g].op = "insert" => call[h].arg # call[g].arg
  BY DEF IInv, CallInv
<1> QED BY <1>1, <1>5, <1>6, <1>7, <1>8, <1>9, CallMove

\* It visits a row, which nobody else has locked.
LEMMA ListRowInv ==
  ASSUME IInv, NEW h \in Handler, ListRow(h)
  PROVE  Kept
<1>1. /\ call[h].op = "scan" /\ call[h] \in Call /\ Fits(call[h]) /\ now \in Nat
      /\ UNCHANGED <<now, row, nodes, token, told>>
  BY DEF IInv, TypeOK, CallInv, ListRow
<1>2. PICK r \in Request :
        /\ Scans(call[h], r) /\ ~Locked(r, h)
        /\ call' = [call EXCEPT ![h].todo = @ \ {r},
                                ![h].held = @ \cup {q \in {r} : row[q].state = "pending"}]
  BY DEF ListRow
<1> DEFINE new == {q \in {r} : row[q].state = "pending"}
           c == [call[h] EXCEPT !.todo = call[h].todo \ {r}, !.held = call[h].held \cup new]
<1>3. call' = [call EXCEPT ![h] = c]
  BY <1>1, <1>2 DEF Call
<1>4. new \subseteq {r} /\ \A q \in new : row[q].state = "pending"
  OBVIOUS
<1> HIDE DEF new
<1>5. /\ c \in Call /\ c.op = "scan" /\ c.at = call[h].at /\ c.todo = call[h].todo \ {r}
      /\ c.held = call[h].held \cup new /\ c.arg = call[h].arg
  BY <1>1, <1>2, <1>4 DEF Call
<1> HIDE DEF c
<1>6. /\ call' \in [Handler -> Call] /\ call'[h] = c
      /\ \A g \in Handler \ {h} : call'[g] = call[g]
  BY <1>3, <1>5 DEF IInv, TypeOK
<1>7. r \in call[h].todo /\ \A q \in call[h].todo \ {r} : q < r
  <2>1. call[h].todo \subseteq Nat
    BY <1>1, PairingAssumption DEF Call
  <2> QED BY <1>2, <2>1 DEF Scans
<1>8. Fits(call[h])'
  <2>1. /\ call'[h].op = "scan" /\ call'[h].at = call[h].at
        /\ call'[h].todo = call[h].todo \ {r} /\ call'[h].held = call[h].held \cup new
    BY <1>5, <1>6
  <2>2. /\ call[h].at <= now
        /\ \A q \in call[h].todo \cup call[h].held : row[q].state # "absent" /\ row[q].expires <= now
        /\ \A q \in call[h].held : row[q].state = "pending" /\ \A p \in call[h].todo : p < q
    BY <1>1 DEF Fits
  <2>3. /\ \A q \in call'[h].todo \cup call'[h].held : row[q].state # "absent" /\ row[q].expires <= now
        /\ \A q \in call'[h].held : row[q].state = "pending" /\ \A p \in call'[h].todo : p < q
    BY <1>4, <1>7, <2>1, <2>2
  <2> QED BY <1>1, <2>1, <2>2, <2>3 DEF Fits, OnRow, RowLock, TokenLock
<1>9. \A x : Holds(h, x)' => Holds(h, x) \/ ~Locked(x, h)
  BY <1>1, <1>2, <1>4, <1>5, <1>6 DEF Holds
<1>10. \A g \in Handler \ {h} : call[g].op = "insert" => call[h].arg # call[g].arg
  BY DEF IInv, CallInv
<1> QED BY <1>1, <1>5, <1>6, <1>8, <1>9, <1>10, CallMove

\* It commits.
LEMMA ListExpireInv ==
  ASSUME IInv, NEW h \in Handler, ListExpire(h)
  PROVE  Kept
<1> DEFINE rs == call[h].held
<1>1. /\ call[h].op = "scan" /\ rs \in SUBSET Request
      /\ \A r \in rs : row[r].state = "pending" /\ row[r].expires <= now
  BY DEF IInv, TypeOK, CallInv, Fits, ListExpire, Call
<1>2. ASSUME NEW r \in rs PROVE ~Locked(r, h)
  <2>1. r \in Lockable /\ Holds(h, r)
    BY <1>1 DEF Lockable, Holds
  <2> QED BY <2>1 DEF IInv, CallInv, Locked
<1>3. Expire(rs) /\ UNCHANGED <<now, nodes, token, told>> /\ Return(h) /\ now' \in Nat
  BY DEF ListExpire, IInv, TypeOK
<1> HIDE DEF rs
<1>4. /\ row' \in [Request -> Row] /\ Told
      /\ \A r \in Request : RowLife(r)
      /\ \A r \in Request : row'[r].state = "approved" => row[r].state = "approved"
      /\ \A r \in Request : row'[r] # row[r] => ~Locked(r, h) /\ row[r].state # "absent"
  BY <1>1, <1>2, <1>3, ExpireRows
<1> QED BY <1>3, <1>4, Returned, RowMove

\* The rejection, and the answer when nothing was rejected.
LEMMA RejectInv ==
  ASSUME IInv, NEW h \in Handler, RejectPairingRequest(h)
  PROVE  Kept
<1> DEFINE r == call[h].arg
<1>1. /\ call[h].op = "reject" /\ r \in Request /\ row[r].state # "absent" /\ Free(h)
      /\ UNCHANGED <<now, nodes, token>> /\ now' \in Nat /\ call[h] \in Call /\ Fits(call[h])
  BY DEF IInv, TypeOK, CallInv, Fits, RejectPairingRequest, OnRow
<1>2. CASE /\ Open(r, call[h].at) /\ row' = [row EXCEPT ![r].state = "rejected"]
           /\ Tell(r, {"rejected"}) /\ Return(h)
  <2>1. row[r].state = "pending" /\ ~Locked(r, h)
    BY <1>1, <1>2 DEF Open, Free, Wants, Lockable
  <2>2. /\ row' \in [Request -> Row] /\ row'[r].state = "rejected"
        /\ row'[r].machine = row[r].machine /\ row'[r].created = row[r].created
        /\ row'[r].expires = row[r].expires /\ \A q \in Request : q # r => row'[q] = row[q]
    <3>1. row \in [Request -> Row]
      BY DEF IInv, TypeOK, Row
    <3> QED BY <1>1, <1>2, <3>1 DEF Row, State, Final
  <2>3. \A q \in Request : RowLife(q)
    BY <2>1, <2>2 DEF RowLife
  <2>4. Told
    BY <1>1, <1>2, <2>2 DEF Told, Tell, IInv, TypeOK, Answer, Final
  <2> HIDE DEF r
  <2> QED BY <1>1, <1>2, <2>1, <2>2, <2>3, <2>4, Returned, RowMove
<1>3. CASE call' = [call EXCEPT ![h].op = "explain"] /\ UNCHANGED <<row, told>>
  <2>1. /\ call' \in [Handler -> Call] /\ \A g \in Handler \ {h} : call'[g] = call[g]
        /\ call'[h].op = "explain" /\ call'[h].at = call[h].at /\ call'[h].arg = r
        /\ call'[h].held = call[h].held
    BY <1>3 DEF IInv, TypeOK, Call, Op
  <2>2. Fits(call[h])'
    BY <1>1, <1>3, <2>1 DEF Fits, OnRow, RowLock, TokenLock
  <2>3. \A x : ~Holds(h, x)'
    BY <2>1 DEF Holds
  <2>4. \A g \in Handler \ {h} : call[g].op = "insert" => call[h].arg # call[g].arg
    BY DEF IInv, CallInv
  <2> QED BY <1>1, <1>3, <2>1, <2>2, <2>3, <2>4, CallMove
<1> QED BY <1>2, <1>3 DEF RejectPairingRequest

\* The answer to a rejection that changed nothing.
LEMMA RejectExplainInv ==
  ASSUME IInv, NEW h \in Handler, RejectExplain(h)
  PROVE  Kept
<1> DEFINE r == call[h].arg
           a == IF \/ row[r].state = "expired"
                   \/ row[r].state # "pruned" /\ row[r].expires <= call[h].at
                THEN {"overdue"} ELSE {}
<1>1. /\ r \in Request /\ row[r].state # "absent" /\ call[h].at <= now
      /\ call[h].at \in Nat /\ now \in Nat /\ row[r].expires \in Nat
  BY DEF IInv, TypeOK, CallInv, Fits, OnRow, RejectExplain, Call
<1>2. a \in SUBSET Answer /\ \A v \in a : v = "overdue" /\ row[r].expires <= now
  BY <1>1 DEF Answer, IInv, RowInv
<1>3. Tell(r, a) /\ Return(h) /\ UNCHANGED <<now, row, nodes, token>>
  BY DEF RejectExplain
<1> HIDE DEF r, a
<1> QED BY <1>1, <1>2, <1>3, AnswerMove

\* The lock of an approval, or its refusal.
LEMMA ApproveLockInv ==
  ASSUME IInv, NEW h \in Handler, ApproveLock(h)
  PROVE  Kept
<1> DEFINE r == call[h].arg
           a == IF row[r].state \in {"pending", "expired"} THEN {"overdue"} ELSE {}
<1>1. /\ call[h].op = "approve" /\ r \in Request /\ row[r].state # "absent" /\ Free(h)
      /\ UNCHANGED <<now, row, nodes, token>> /\ call[h] \in Call /\ Fits(call[h])
      /\ now \in Nat /\ call[h].at \in Nat /\ call[h].at <= now /\ row[r].expires \in Nat
  BY DEF IInv, TypeOK, CallInv, Fits, ApproveLock, OnRow, Call
<1>2. CASE Open(r, call[h].at) /\ Goto(h, "find") /\ UNCHANGED told
  <2>1. /\ call' \in [Handler -> Call] /\ \A g \in Handler \ {h} : call'[g] = call[g]
        /\ call'[h].op = "find" /\ call'[h].at = 0 /\ call'[h].arg = r
        /\ call'[h].held = call[h].held
    BY <1>2, GotoStep DEF Op
  <2>2. row[r].state = "pending" /\ ~Locked(r, h)
    BY <1>1, <1>2 DEF Open, Free, Wants, Lockable
  <2>3. Fits(call[h])'
    BY <1>1, <2>1, <2>2 DEF Fits, OnRow, RowLock, TokenLock
  <2>4. \A x : Holds(h, x)' => x = r
    BY <2>1 DEF Holds
  <2>5. \A g \in Handler \ {h} : call[g].op = "insert" => call[h].arg # call[g].arg
    BY DEF IInv, CallInv
  <2> QED BY <1>1, <1>2, <2>1, <2>2, <2>3, <2>4, <2>5, CallMove
<1>3. CASE ~Open(r, call[h].at) /\ Tell(r, a) /\ Return(h)
  <2>1. a \in SUBSET Answer /\ \A v \in a : v = "overdue" /\ row[r].expires <= now
    BY <1>1, <1>3 DEF Answer, Open, IInv, RowInv
  <2> HIDE DEF r, a
  <2> QED BY <1>1, <1>3, <2>1, AnswerMove
<1> QED BY <1>2, <1>3 DEF ApproveLock

\* The look-up of the node.
LEMMA ApproveFindInv ==
  ASSUME IInv, NEW h \in Handler, ApproveFind(h)
  PROVE  Kept
<1> DEFINE f == HasNode(row[call[h].arg].machine)
           c == [call[h] EXCEPT !.op = "node", !.found = f]
<1>1. /\ call[h].op = "find" /\ call[h] \in Call /\ Fits(call[h])
      /\ UNCHANGED <<now, row, nodes, token, told>>
  BY DEF IInv, TypeOK, CallInv, ApproveFind
<1>2. f \in BOOLEAN
  BY DEF HasNode
<1>3. call' = [call EXCEPT ![h] = c]
  BY <1>1 DEF ApproveFind, Call
<1> HIDE DEF f
<1>4. /\ c \in Call /\ c.op = "node" /\ c.arg = call[h].arg /\ c.at = call[h].at
      /\ c.held = call[h].held /\ c.found = f
  BY <1>1, <1>2 DEF Call, Op
<1> HIDE DEF c
<1>5. /\ call' \in [Handler -> Call] /\ call'[h] = c
      /\ \A g \in Handler \ {h} : call'[g] = call[g]
  BY <1>3, <1>4 DEF IInv, TypeOK
<1>6. (call[h].op = "node" /\ call[h].found => HasNode(row[call[h].arg].machine))'
  BY <1>1, <1>4, <1>5 DEF f, HasNode
<1>7. Fits(call[h])'
  <2>1. /\ call'[h].op = "node" /\ call'[h].arg = call[h].arg /\ call'[h].at = call[h].at
        /\ call'[h].held = call[h].held
    BY <1>4, <1>5
  <2>2. /\ call[h].at <= now /\ call[h].arg \in Request /\ row[call[h].arg].state # "absent"
        /\ row[call[h].arg].state = "pending" /\ call[h].held = {}
    BY <1>1 DEF Fits, OnRow, RowLock
  <2> QED BY <1>1, <1>6, <2>1, <2>2 DEF Fits, OnRow, RowLock, TokenLock
<1>8. \A x : Holds(h, x)' => Holds(h, x)
  BY <1>1, <1>4, <1>5 DEF Holds
<1>9. \A g \in Handler \ {h} : call[g].op = "insert" => call[h].arg # call[g].arg
  BY DEF IInv, CallInv
<1> QED BY <1>1, <1>4, <1>5, <1>7, <1>8, <1>9, CallMove

\* The node of an approval, locked.
LEMMA ApproveNodeInv ==
  ASSUME IInv, NEW h \in Handler, ApproveNode(h)
  PROVE  Kept
<1> DEFINE m == row[call[h].arg].machine
<1>1. /\ call[h].op = "node" /\ call[h] \in Call /\ Fits(call[h]) /\ Free(h) /\ now \in Nat
      /\ UNCHANGED <<now, row, nodes, token, told>>
  BY DEF IInv, TypeOK, CallInv, ApproveNode
<1>2. CASE Return(h)
  BY <1>1, <1>2, ReturnMove
<1>3. CASE ~(HasNode(m) /\ ~call[h].found) /\ Goto(h, "commit")
  <2>1. /\ call' \in [Handler -> Call] /\ \A g \in Handler \ {h} : call'[g] = call[g]
        /\ call'[h].op = "commit" /\ call'[h].at = 0 /\ call'[h].arg = call[h].arg
        /\ call'[h].held = call[h].held /\ call'[h].found = call[h].found
    BY <1>3, GotoStep DEF Op
  <2>2. m \in Machine /\ ~Locked(m, h)
    <3>1. m \in Machine
      BY <1>1 DEF Fits, OnRow, RowLock, IInv, RowInv
    <3> QED BY <1>1, <3>1 DEF Free, Wants, Lockable
  <2>3. (call[h].op = "commit" => (call[h].found <=> HasNode(row[call[h].arg].machine)))'
    <3>1. call[h].found <=> HasNode(m)
      BY <1>1, <1>3 DEF Fits
    <3> QED BY <1>1, <2>1, <3>1 DEF HasNode
  <2>4. Fits(call[h])'
    <3>1. /\ call[h].arg \in Request /\ row[call[h].arg].state # "absent"
          /\ row[call[h].arg].state = "pending" /\ call[h].held = {}
      BY <1>1 DEF Fits, OnRow, RowLock
    <3> QED BY <1>1, <2>1, <2>3, <3>1 DEF Fits, OnRow, RowLock, TokenLock
  <2>5. \A x : Holds(h, x)' => Holds(h, x) \/ x = m
    BY <1>1, <2>1 DEF Holds
  <2>6. \A g \in Handler \ {h} : call[g].op = "insert" => call[h].arg # call[g].arg
    BY DEF IInv, CallInv
  <2> QED BY <1>1, <2>1, <2>2, <2>4, <2>5, <2>6, CallMove
<1> QED BY <1>2, <1>3 DEF ApproveNode

\* The lock of an enrolment.
LEMMA EnrollLockInv ==
  ASSUME IInv, NEW h \in Handler, EnrollLock(h)
  PROVE  Kept
<1> DEFINE e == token[call[h].arg]
<1>1. /\ call[h].op = "enroll" /\ call[h] \in Call /\ Fits(call[h]) /\ Free(h) /\ now \in Nat
      /\ UNCHANGED <<now, row, nodes, token, told>>
  BY DEF IInv, TypeOK, CallInv, EnrollLock
<1>2. CASE Return(h)
  BY <1>1, <1>2, ReturnMove
<1>3. CASE e.exists /\ e.uses < MaxUses /\ Goto(h, "enrollNode")
  <2>1. /\ call' \in [Handler -> Call] /\ \A g \in Handler \ {h} : call'[g] = call[g]
        /\ call'[h].op = "enrollNode" /\ call'[h].at = 0 /\ call'[h].arg = call[h].arg
        /\ call'[h].held = call[h].held
    BY <1>3, GotoStep DEF Op
  <2>2. call[h].arg \in Token /\ ~Locked(call[h].arg, h)
    <3>1. call[h].arg \in Token
      BY <1>1 DEF Fits
    <3> QED BY <1>1, <3>1 DEF Free, Wants, Lockable
  <2>3. Fits(call[h])'
    BY <1>1, <1>3, <2>1, <2>2 DEF Fits, OnRow, RowLock, TokenLock
  <2>4. \A x : Holds(h, x)' => x = call[h].arg
    BY <2>1 DEF Holds
  <2>5. \A g \in Handler \ {h} : call[g].op = "insert" => call[h].arg # call[g].arg
    BY DEF IInv, CallInv
  <2> QED BY <1>1, <2>1, <2>2, <2>3, <2>4, <2>5, CallMove
<1> QED BY <1>2, <1>3 DEF EnrollLock

\* The node of an enrolment, locked.
LEMMA EnrollInsertInv ==
  ASSUME IInv, NEW h \in Handler, EnrollInsert(h)
  PROVE  Kept
<1> DEFINE m == call[h].machine
<1>1. /\ call[h].op = "enrollNode" /\ call[h] \in Call /\ Fits(call[h]) /\ Free(h)
      /\ now \in Nat /\ UNCHANGED <<now, row, nodes, token, told>>
  BY DEF IInv, TypeOK, CallInv, EnrollInsert
<1>2. CASE Return(h)
  BY <1>1, <1>2, ReturnMove
<1>3. CASE ~HasNode(m) /\ Goto(h, "enrollCommit")
  <2>1. /\ call' \in [Handler -> Call] /\ \A g \in Handler \ {h} : call'[g] = call[g]
        /\ call'[h].op = "enrollCommit" /\ call'[h].at = 0 /\ call'[h].arg = call[h].arg
        /\ call'[h].held = call[h].held /\ call'[h].machine = m
    BY <1>3, GotoStep DEF Op
  <2>2. m \in Lockable => ~Locked(m, h)
    BY <1>1 DEF Free, Wants
  <2>3. (call[h].op = "enrollCommit" => ~HasNode(call[h].machine))'
    BY <1>1, <1>3, <2>1 DEF HasNode
  <2>4. Fits(call[h])'
    <3>1. /\ call[h].arg \in Token /\ token[call[h].arg].exists
          /\ token[call[h].arg].uses < MaxUses /\ call[h].held = {}
      BY <1>1 DEF Fits, TokenLock
    <3> QED BY <1>1, <2>1, <2>3, <3>1 DEF Fits, OnRow, RowLock, TokenLock
  <2>5. \A x : Holds(h, x)' => Holds(h, x) \/ x = m
    BY <1>1, <2>1 DEF Holds
  <2>6. \A g \in Handler \ {h} : call[g].op = "insert" => call[h].arg # call[g].arg
    BY DEF IInv, CallInv
  <2> QED BY <1>1, <2>1, <2>2, <2>4, <2>5, <2>6, CallMove
<1> QED BY <1>2, <1>3 DEF EnrollInsert

\* The approval: node, credential and request are written together.
LEMMA ApproveCommitInv ==
  ASSUME IInv, NEW h \in Handler, ApproveCommit(h)
  PROVE  Kept
<1> DEFINE r == call[h].arg
           m == row[r].machine
           new == [machine |-> m, cred |-> r, by |-> [token |-> Nobody, use |-> 0]]
           Upd(n) == IF n.machine = m THEN [n EXCEPT !.cred = r] ELSE n
<1>1. /\ r \in Request /\ row[r].state = "pending" /\ call[h].op = "commit"
      /\ (call[h].found <=> HasNode(m))
  BY DEF IInv, CallInv, Fits, ApproveCommit, RowLock, OnRow
<1>2. m \in Machine /\ m # Blank /\ r # Nobody
  BY <1>1, PairingAssumption DEF IInv, RowInv
<1>3. /\ UNCHANGED <<now, token>> /\ Return(h) /\ now' \in Nat /\ now <= now'
      /\ row' = [row EXCEPT ![r].state = "approved"] /\ Tell(r, {"approved"})
      /\ nodes' = IF call[h].found THEN {Upd(n) : n \in nodes} ELSE nodes \cup {new}
  BY DEF ApproveCommit, IInv, TypeOK
<1>4. /\ row' \in [Request -> Row] /\ row'[r].state = "approved" /\ row'[r].machine = m
      /\ row'[r].created = row[r].created /\ row'[r].expires = row[r].expires
      /\ \A q \in Request : q # r => row'[q] = row[q]
  <2>1. row \in [Request -> Row]
    BY DEF IInv, TypeOK, Row
  <2> QED BY <1>1, <1>3, <2>1 DEF Row, State, Final
<1>5. \A q \in Request : RowLife(q)
  BY <1>1, <1>4 DEF RowLife
<1>6. /\ told' \in [Request -> SUBSET Answer] /\ told'[r] = told[r] \cup {"approved"}
      /\ \A q \in Request : q # r => told'[q] = told[q]
  BY <1>1, <1>3 DEF IInv, TypeOK, Tell, Answer, Final
<1>7. \A v \in told[r] : v = "overdue"
  BY <1>1 DEF IInv, TypeOK, VerdictIsFinal, Answer, Final
<1>8. new \in Node /\ new.machine = m /\ new.cred = r /\ new.by.token = Nobody
  BY <1>1, <1>2 DEF Node, Origin
<1>9. ASSUME NEW n \in nodes
      PROVE  /\ Upd(n) \in Node /\ Upd(n).machine = n.machine /\ Upd(n).by = n.by
             /\ n.machine = m => Upd(n).cred = r
             /\ n.machine # m => Upd(n) = n
  BY <1>1 DEF IInv, TypeOK, Node
<1>10. \A x : HasNode(x) <=> x # Blank /\ \E n \in nodes : n.machine = x
  BY DEF HasNode
<1>11. \A n \in nodes : IF n.cred = Nobody THEN n.by.token \in Token
             ELSE /\ row'[n.cred].machine = n.machine
                  /\ row'[n.cred].state \in {"approved", "pruned"}
  BY <1>1, <1>4 DEF IInv, TypeOK, Node, CredentialIsGranted
<1>12. \A q \in Request : row'[q].state = "approved" => row'[q].machine = m \/ HasNode(row'[q].machine)
  BY <1>4 DEF IInv, CredentialIsGranted
<1> HIDE DEF r, m, new, Upd
<1>13. /\ nodes' \subseteq Node /\ OneNodePerMachine' /\ UseInv'
       /\ \A x : HasNode(x)' <=> HasNode(x) \/ x = m
       /\ \A n \in nodes' : IF n.cred = Nobody THEN n.by.token \in Token
             ELSE /\ row'[n.cred].machine = n.machine
                  /\ row'[n.cred].state \in {"approved", "pruned"}
       /\ \A n \in nodes : NodeLife(n)
  <2>1. CASE call[h].found
    <3>1. nodes' = {Upd(n) : n \in nodes}
      BY <1>3, <2>1
    <3>2. PICK y \in nodes : y.machine = m
      BY <1>1, <1>10, <2>1
    <3>3. nodes' \subseteq Node /\ OneNodePerMachine'
      BY <1>9, <3>1 DEF IInv, OneNodePerMachine
    <3>4. UseInv'
      BY <1>3, <1>9, <3>1 DEF IInv, UseInv
    <3>5. \A x : (\E n \in nodes' : n.machine = x) <=> \E n \in nodes : n.machine = x
      BY <1>9, <3>1
    <3>6. \A x : HasNode(x)' <=> HasNode(x) \/ x = m
      BY <1>2, <3>2, <3>5 DEF HasNode
    <3>7. ASSUME NEW n \in nodes'
          PROVE  IF n.cred = Nobody THEN n.by.token \in Token
                 ELSE /\ row'[n.cred].machine = n.machine
                      /\ row'[n.cred].state \in {"approved", "pruned"}
      <4>1. PICK p \in nodes : n = Upd(p)
        BY <3>1
      <4>2. CASE p.machine = m
        BY <1>2, <1>4, <1>9, <4>1, <4>2
      <4>3. CASE p.machine # m
        BY <1>9, <1>11, <4>1, <4>3
      <4> QED BY <4>2, <4>3
    <3>8. ASSUME NEW n \in nodes PROVE NodeLife(n)
      <4>1. Upd(n) \in nodes'
        BY <3>1
      <4>2. Upd(n).cred = n.cred \/ (Upd(n).cred = r /\ n.machine = m)
        BY <1>9
      <4>3. row[r].machine = m
        BY DEF m
      <4> QED BY <1>1, <1>4, <1>9, <4>1, <4>2, <4>3 DEF NodeLife
    <3> QED BY <3>3, <3>4, <3>6, <3>7, <3>8
  <2>2. CASE ~call[h].found
    <3>1. nodes' = nodes \cup {new}
      BY <1>3, <2>2
    <3>2. \A n \in nodes : n.machine # m
      BY <1>1, <1>2, <1>10, <2>2
    <3>3. nodes' \subseteq Node /\ OneNodePerMachine'
      BY <1>8, <3>1, <3>2 DEF IInv, TypeOK, OneNodePerMachine
    <3>4. UseInv'
      BY <1>3, <1>8, <3>1, PairingAssumption DEF IInv, UseInv
    <3>5. \A x : HasNode(x)' <=> HasNode(x) \/ x = m
      BY <1>2, <1>8, <3>1 DEF HasNode
    <3>6. \A n \in nodes' : IF n.cred = Nobody THEN n.by.token \in Token
             ELSE /\ row'[n.cred].machine = n.machine
                  /\ row'[n.cred].state \in {"approved", "pruned"}
      BY <1>2, <1>4, <1>8, <1>11, <3>1
    <3>7. \A n \in nodes : NodeLife(n)
      BY <3>1 DEF NodeLife
    <3> QED BY <3>3, <3>4, <3>5, <3>6, <3>7
  <2> QED BY <2>1, <2>2
<1>14. TypeOK'
  BY <1>3, <1>4, <1>6, <1>13, Returned DEF IInv, TypeOK, Row
<1>15. Holds(h, r) /\ Holds(h, m) /\ r \in Lockable /\ m \in Lockable
  BY <1>1, <1>2 DEF Holds, Lockable, r, m
<1>16. ASSUME NEW g \in Handler \ {h} PROVE Fits(call[g])'
  <2>1. ~Holds(g, r) /\ ~Holds(g, m)
    BY <1>15 DEF IInv, CallInv
  <2>2. call'[g] = call[g]
    BY <1>3, Returned
  <2>3. \A q \in Request : row'[q] # row[q] => q = r
    BY <1>4
  <2>4. \A x : HasNode(x) => HasNode(x)'
    BY <1>13
  <2>5. \A x \in Machine : HasNode(x)' /\ ~HasNode(x) => ~Holds(g, x)
    BY <1>13, <2>1
  <2>6. \A k \in Token : token'[k] = token[k]
    BY <1>3
  <2> QED BY <1>1, <1>3, <1>5, <2>1, <2>2, <2>3, <2>4, <2>5, <2>6, OthersFit
<1>17. CallInv'
  BY <1>3, <1>5, <1>16, Returned, CallStep
<1>18. RowInv'
  BY <1>1, <1>2, <1>3, <1>4, <1>6 DEF IInv, RowInv
<1>19. VerdictIsFinal'
  BY <1>3, <1>4, <1>6, <1>7 DEF IInv, VerdictIsFinal
<1>20. CredentialIsGranted'
  <2>1. \A q \in Request : row'[q].state = "approved" => HasNode(row[q].machine)'
    BY <1>2, <1>12, <1>13 DEF HasNode
  <2> QED BY <1>13, <2>1 DEF CredentialIsGranted
<1> QED BY <1>5, <1>13, <1>14, <1>17, <1>18, <1>19, <1>20 DEF Kept, IInv

\* The enrolment: node and use of the token are written together.
LEMMA EnrollCommitInv ==
  ASSUME IInv, NEW h \in Handler, EnrollCommit(h)
  PROVE  Kept
<1> DEFINE k == call[h].arg
           m == call[h].machine
           new == [machine |-> m, cred |-> Nobody,
                   by |-> [token |-> k, use |-> token[k].uses + 1]]
<1>1. /\ k \in Token /\ call[h].op = "enrollCommit" /\ ~HasNode(m)
      /\ token[k].exists /\ token[k].uses < MaxUses /\ token[k].uses \in Nat
  BY DEF IInv, TypeOK, CallInv, Fits, EnrollCommit, TokenLock
<1>2. /\ UNCHANGED <<now, row, told>> /\ Return(h) /\ now' \in Nat /\ now <= now'
      /\ token' = [token EXCEPT ![k].uses = @ + 1] /\ nodes' = nodes \cup {new}
  BY DEF EnrollCommit, IInv, TypeOK
<1>3. /\ token'[k].uses = token[k].uses + 1 /\ token'[k].exists = token[k].exists
      /\ \A j \in Token : j # k => token'[j] = token[j]
      /\ token' \in [Token -> [exists : BOOLEAN, expires : Nat, uses : Nat]]
  <2>1. [token[k] EXCEPT !.uses = token[k].uses + 1] \in
          [exists : BOOLEAN, expires : Nat, uses : Nat]
    BY <1>1 DEF IInv, TypeOK
  <2>2. token' = [token EXCEPT ![k] = [token[k] EXCEPT !.uses = token[k].uses + 1]]
    BY <1>2
  <2>3. [token[k] EXCEPT !.uses = token[k].uses + 1].uses = token[k].uses + 1
        /\ [token[k] EXCEPT !.uses = token[k].uses + 1].exists = token[k].exists
    BY <1>1 DEF IInv, TypeOK
  <2> HIDE DEF k
  <2> QED BY <1>1, <2>1, <2>2, <2>3 DEF IInv, TypeOK
<1>4. m \in Machine \cup {Blank}
  BY DEF IInv, TypeOK, Call
<1>5. /\ new \in Node /\ new.machine = m /\ new.cred = Nobody
      /\ new.by.token = k /\ new.by.use = token[k].uses + 1
  BY <1>1, <1>4 DEF Node, Origin
<1>6. m # Blank => \A n \in nodes : n.machine # m
  BY <1>1 DEF HasNode
<1>7. Holds(h, k) /\ Holds(h, m) /\ k \in Lockable
  BY <1>1 DEF Holds, Lockable
<1> HIDE DEF k, m, new
<1>8. TypeOK'
  <2>1. nodes' \subseteq Node
    BY <1>2, <1>5 DEF IInv, TypeOK
  <2> QED BY <1>2, <1>3, <2>1, Returned DEF IInv, TypeOK
<1>9. (\A r \in Request : RowLife(r)) /\ \A n \in nodes : NodeLife(n)
  BY <1>2 DEF RowLife, NodeLife
<1>10. \A x : HasNode(x)' <=> HasNode(x) \/ (x = m /\ x # Blank)
  BY <1>2, <1>5 DEF HasNode
<1>11. ASSUME NEW g \in Handler \ {h} PROVE Fits(call[g])'
  <2>1. ~Holds(g, k) /\ (m \in Machine => ~Holds(g, m))
    BY <1>7 DEF IInv, CallInv, Lockable
  <2>2. call'[g] = call[g]
    BY <1>2, Returned
  <2>3. \A r \in Request : row'[r] = row[r]
    BY <1>2
  <2>4. \A x : HasNode(x) => HasNode(x)'
    BY <1>10
  <2>5. \A x \in Machine : HasNode(x)' /\ ~HasNode(x) => ~Holds(g, x)
    BY <1>10, <2>1
  <2>6. \A j \in Token : token'[j] # token[j] => ~Holds(g, j)
    BY <1>3, <2>1
  <2> QED BY <1>2, <1>9, <2>2, <2>3, <2>4, <2>5, <2>6, OthersFit
<1>12. CallInv'
  BY <1>2, <1>9, <1>11, Returned, CallStep
<1>13. RowInv' /\ VerdictIsFinal'
  BY <1>1, <1>2, <1>3 DEF IInv, RowInv, VerdictIsFinal
<1>14. UseInv'
  <2>1. ASSUME NEW j \in Token
        PROVE  /\ token'[j].uses <= MaxUses
               /\ \A u : (\E n \in nodes' : n.by.token = j /\ n.by.use = u)
                           <=> u \in 1 .. token'[j].uses
    <3>1. /\ token[j].uses <= MaxUses /\ token[j].uses \in Nat
          /\ \A u : (\E n \in nodes : n.by.token = j /\ n.by.use = u)
                      <=> u \in 1 .. token[j].uses
      BY DEF IInv, TypeOK, UseInv
    <3>2. CASE j # k
      BY <1>2, <1>3, <1>5, <3>1, <3>2
    <3>3. CASE j = k
      <4>1. token'[j].uses <= MaxUses
        BY <1>1, <1>3, <3>3, PairingAssumption
      <4>2. \A u : u \in 1 .. token'[j].uses
                     <=> u \in 1 .. token[j].uses \/ u = token[j].uses + 1
        BY <1>3, <3>1, <3>3
      <4> QED BY <1>2, <1>5, <3>1, <3>3, <4>1, <4>2
    <3> QED BY <3>2, <3>3
  <2> QED BY <2>1 DEF UseInv
<1>15. OneNodePerMachine'
  BY <1>2, <1>5, <1>6 DEF IInv, OneNodePerMachine
<1>16. CredentialIsGranted'
  <2>1. \A n \in nodes' : IF n.cred = Nobody THEN n.by.token \in Token
               ELSE /\ row'[n.cred].machine = n.machine
                    /\ row'[n.cred].state \in {"approved", "pruned"}
    BY <1>1, <1>2, <1>5 DEF IInv, CredentialIsGranted
  <2>2. \A q \in Request : row'[q].state = "approved" => HasNode(row[q].machine)'
    BY <1>2 DEF IInv, CredentialIsGranted, HasNode
  <2> QED BY <2>1, <2>2 DEF CredentialIsGranted
<1> QED BY <1>8, <1>9, <1>12, <1>13, <1>14, <1>15, <1>16 DEF Kept, IInv

\* A new token: no handler has locked it.
LEMMA CreateEnrollmentInv ==
  ASSUME IInv, NEW k \in Token, CreateEnrollment(k)
  PROVE  Kept
<1>1. token[k].uses = 0 /\ ~token[k].exists
  BY DEF IInv, RowInv, CreateEnrollment
<1>2. UNCHANGED <<now, row, nodes, call, told>>
  BY DEF CreateEnrollment
<1>3. /\ token'[k].uses = 0 /\ token'[k].exists /\ \A j \in Token : j # k => token'[j] = token[j]
      /\ token' \in [Token -> [exists : BOOLEAN, expires : Nat, uses : Nat]]
  BY PairingAssumption DEF IInv, TypeOK, CreateEnrollment
<1>4. TypeOK'
  BY <1>2, <1>3 DEF IInv, TypeOK
<1>5. CallInv'
  <2>1. ASSUME NEW h \in Handler PROVE Fits(call[h])'
    <3>1. Fits(call[h])
      BY DEF IInv, CallInv
    <3> QED BY <1>1, <1>2, <1>3, <3>1 DEF Fits, HasNode
  <2>2. \A h \in Handler : \A x : Holds(h, x)' <=> Holds(h, x)
    BY <1>2 DEF Holds
  <2> QED BY <1>2, <2>1, <2>2 DEF IInv, CallInv
<1>6. \A j \in Token : token'[j].uses = token[j].uses
  BY <1>1, <1>3
<1>7. UseInv'
  BY <1>2, <1>6 DEF IInv, UseInv
<1>8. RowInv' /\ VerdictIsFinal' /\ CredentialIsGranted' /\ OneNodePerMachine'
  BY <1>1, <1>2, <1>3 DEF IInv, RowInv, VerdictIsFinal, CredentialIsGranted, HasNode,
                          OneNodePerMachine
<1>9. (\A r \in Request : RowLife(r)) /\ \A n \in nodes : NodeLife(n)
  BY <1>2 DEF RowLife, NodeLife
<1> QED BY <1>4, <1>5, <1>7, <1>8, <1>9 DEF Kept, IInv

\* Steps that change no call: retention, the clock, stuttering.  No handler has
\* locked what retention deletes.
LEMMA IdleStep ==
  ASSUME IInv, UNCHANGED <<nodes, token, call, told>>, now' \in Nat, now <= now',
         row' \in [Request -> Row], \A r \in Request : RowLife(r),
         \A r \in Request : row'[r] # row[r] => row[r].state \in Final /\ row'[r].state = "pruned"
  PROVE  Kept
<1>1. TypeOK' /\ Told
  BY DEF IInv, TypeOK, Row, Told
<1>2. ASSUME NEW h \in Handler PROVE Fits(call[h])'
  <2>1. Fits(call[h])
    BY DEF IInv, CallInv
  <2>2. \A r \in Request : row[r].state = "pending" => row'[r] = row[r]
    BY DEF Final
  <2>3. ASSUME NEW r \in Request, Holds(h, r) PROVE row'[r] = row[r]
    <3>1. r \in Lockable
      BY DEF Lockable
    <3>2. row[r].state = "pending"
      BY <2>1, <2>3, <3>1, Holders DEF Fits
    <3> QED BY <2>2, <3>2
  <2>4. \A r \in Request : row[r].state = "absent" => row'[r] = row[r]
    BY DEF Final
  <2>5. \A m : HasNode(m)' <=> HasNode(m)
    BY DEF HasNode
  <2> QED BY <2>3, <2>4, <2>5, OthersFit
<1>3. CallInv'
  <2>1. ASSUME NEW h \in Handler, NEW x \in Lockable, Holds(h, x)' PROVE Holds(h, x)
    <3>1. Fits(call[h]) /\ call'[h] = call[h]
      BY DEF IInv, CallInv
    <3>2. call[h].op = "commit" => row'[call[h].arg].machine = row[call[h].arg].machine
      BY <3>1 DEF Fits, OnRow, RowLock, RowLife
    <3> QED BY <2>1, <3>1, <3>2 DEF Holds
  <2> QED BY <1>2, <2>1 DEF IInv, CallInv
<1>4. \A r \in Request : row'[r].state = "approved" => row[r].state = "approved"
  OBVIOUS
<1> QED BY <1>1, <1>3, <1>4, RowStep DEF Kept, IInv

\* Retention.
LEMMA PruneInv ==
  ASSUME IInv, PrunePairingRequests
  PROVE  Kept
<1>1. /\ UNCHANGED <<now, nodes, token, call, told>> /\ now \in Nat /\ now' \in Nat /\ now <= now'
      /\ Retention \in Nat
  BY PairingAssumption DEF PrunePairingRequests, IInv, TypeOK
<1>2. \A r \in Request : row[r] \in Row
  BY DEF IInv, TypeOK, Row
<1>3. ASSUME NEW r \in Request, Prunable(r)
      PROVE  /\ row'[r] \in Row /\ row'[r].state = "pruned" /\ row'[r].machine = row[r].machine
             /\ row'[r].created = row[r].created /\ row'[r].expires = row[r].expires
             /\ row[r].state \in Final /\ row[r].created + Retention < now
  <2>1. row'[r] = [row[r] EXCEPT !.state = "pruned"] /\ row[r] \in Row
    BY <1>2, <1>3 DEF PrunePairingRequests
  <2> QED BY <1>1, <1>3, <2>1 DEF Row, State, Prunable
<1>4. \A r \in Request : ~Prunable(r) => row'[r] = row[r]
  BY DEF PrunePairingRequests
<1>5. row' \in [Request -> Row]
  <2>1. \A r \in Request : row'[r] \in Row
    BY <1>2, <1>3, <1>4
  <2> QED BY <2>1 DEF PrunePairingRequests
<1>6. \A r \in Request : RowLife(r)
  BY <1>3, <1>4 DEF RowLife
<1> QED BY <1>1, <1>3, <1>4, <1>5, <1>6, IdleStep

\* The clock, and stuttering.
LEMMA ClockInv ==
  ASSUME IInv, Tick \/ UNCHANGED vars
  PROVE  Kept
<1>1. now' \in Nat /\ now <= now' /\ UNCHANGED <<row, nodes, token, call, told>>
  BY DEF Tick, vars, IInv, TypeOK
<1>2. row' \in [Request -> Row] /\ \A r \in Request : RowLife(r) /\ row'[r] = row[r]
  BY <1>1 DEF IInv, TypeOK, Row, RowLife
<1> QED BY <1>1, <1>2, IdleStep

-----------------------------------------------------------------------------
\* The invariant holds at the start.
LEMMA InitInv == Init => IInv
<1> SUFFICES ASSUME Init PROVE IInv
  OBVIOUS
<1>1. TypeOK
  BY DEF Init, TypeOK, State, Idle, Started, Call, Op
<1>2. \A h \in Handler : call[h].op = "idle" /\ call[h].held = {} /\ call[h].at = 0 /\ now = 0
  BY DEF Init, Idle, Started
<1>3. CallInv
  BY <1>2 DEF CallInv, Fits, OnRow, RowLock, TokenLock, Holds
<1>4. RowInv
  BY DEF Init, RowInv
<1>5. UseInv
  BY PairingAssumption DEF Init, UseInv
<1>6. VerdictIsFinal /\ CredentialIsGranted /\ OneNodePerMachine
  BY DEF Init, VerdictIsFinal, CredentialIsGranted, OneNodePerMachine
<1> QED BY <1>1, <1>3, <1>4, <1>5, <1>6 DEF IInv

\* Every step keeps the invariant and lets requests and nodes live.
LEMMA NextKept ==
  ASSUME IInv, [Next]_vars
  PROVE  Kept
<1>1. ASSUME NEW h \in Handler, NEW r \in Request, NEW m \in Machine, CreatePairing(h, r, m)
      PROVE  Kept
  BY <1>1, CreatePairingInv
<1>2. ASSUME NEW h \in Handler,
             \/ \E r \in Request : PollPairing(h, r)
             \/ \E r \in Request : \E op \in {"approve", "reject"} : DecidePairing(h, op, r)
             \/ \E k \in Token, m \in Machine \cup {Blank} : EnrollAgent(h, k, m)
             \/ ListPairings(h)
      PROVE  Kept
  BY <1>2, BeginInv
<1>3. ASSUME NEW h \in Handler, Step(h) PROVE Kept
  BY <1>3, CreatePairingRequestInv, PollExpireInv, PollReadInv, ListStartInv, ListRowInv,
     ListExpireInv, RejectInv, RejectExplainInv, ApproveLockInv, ApproveFindInv, ApproveNodeInv,
     ApproveCommitInv, EnrollLockInv, EnrollInsertInv, EnrollCommitInv DEF Step
<1>4. ASSUME NEW h \in Handler, Abort(h) PROVE Kept
  BY <1>4, ReturnMove DEF Abort
<1>5. ASSUME NEW k \in Token, CreateEnrollment(k) PROVE Kept
  BY <1>5, CreateEnrollmentInv
<1>6. CASE PrunePairingRequests
  BY <1>6, PruneInv
<1>7. CASE Tick \/ UNCHANGED vars
  BY <1>7, ClockInv
<1> QED BY <1>1, <1>2, <1>3, <1>4, <1>5, <1>6, <1>7 DEF Next

\* The inductive invariant of the pairing store and its handlers: no lock has two
\* holders, and what a transaction has locked is as the checks found it.
THEOREM Invariance == Spec => []IInv
<1>1. IInv /\ [Next]_vars => IInv'
  BY NextKept DEF Kept
<1> QED BY InitInv, <1>1, PTL DEF Spec

\* Every reachable state of the pairing store is well typed.
THEOREM TypeCorrect == Spec => []TypeOK
<1>1. IInv => TypeOK
  BY DEF IInv
<1> QED BY Invariance, <1>1, PTL

\* What a poll or a successful decision reported stays true until retention
\* deletes the request, and a refusal as expired is given only when the lifetime
\* is over, however approval, rejection, expiry and polls interleave.
THEOREM VerdictFinal == Spec => []VerdictIsFinal
<1>1. IInv => VerdictIsFinal
  BY DEF IInv
<1> QED BY Invariance, <1>1, PTL

\* Only an approved request or an enrolment gives a node its credential, and an
\* approved request has a node: the transaction is all or nothing.
THEOREM CredentialGranted == Spec => []CredentialIsGranted
<1>1. IInv => CredentialIsGranted
  BY DEF IInv
<1> QED BY Invariance, <1>1, PTL

\* Concurrent approvals and enrolments never make two nodes of one machine.
THEOREM OneNode == Spec => []OneNodePerMachine
<1>1. IInv => OneNodePerMachine
  BY DEF IInv
<1> QED BY Invariance, <1>1, PTL

\* Concurrent enrolments never use a token more often than max_uses, and every
\* counted use has its node.
THEOREM UsesBounded == Spec => []TokenUses
<1>1. IInv => TokenUses
  <2> SUFFICES ASSUME IInv, NEW k \in Token
               PROVE  /\ token[k].uses <= MaxUses
                      /\ {n.by.use : n \in {p \in nodes : p.by.token = k}}
                           = 1 .. token[k].uses
    BY DEF TokenUses
  <2>1. \A u : (\E n \in nodes : n.by.token = k /\ n.by.use = u)
                 <=> u \in 1 .. token[k].uses
    BY DEF IInv, UseInv
  <2>2. token[k].uses <= MaxUses
    BY DEF IInv, UseInv
  <2>3. \A u : u \in {n.by.use : n \in {p \in nodes : p.by.token = k}}
                 <=> u \in 1 .. token[k].uses
    BY <2>1
  <2> QED BY <2>2, <2>3
<1> QED BY Invariance, <1>1, PTL

\* The life of a pairing request: whatever handlers, expiry and retention do
\* between each other's statements, it is decided once, never reopened, never
\* expired before its time and never deleted undecided or too early.
THEOREM RequestLifeCycle == Spec => RequestsLive
<1>1. IInv /\ [Next]_vars => [\A r \in Request : RowLife(r)]_vars
  BY NextKept DEF Kept
<1> QED BY <1>1, Invariance, PTL DEF Spec, RequestsLive

\* The life of a node: no approval, enrolment or roll-back removes one, and its
\* credential is replaced only together with the approval of a request of its
\* own machine.
THEOREM NodeLifeCycle == Spec => NodesLive
<1>1. IInv /\ [Next]_vars => [\A n \in nodes : NodeLife(n)]_vars
  BY NextKept DEF Kept
<1> QED BY <1>1, Invariance, PTL DEF Spec, NodesLive

-----------------------------------------------------------------------------
(***************************************************************************)
(* Handlers never wait in a circle.  A transaction that holds a node waits *)
(* for nothing, and one that waits for a node waits for such a one.  The   *)
(* only other holders that wait are the scans: each waits for a row that   *)
(* the other has visited before the row which it waits for itself, so that *)
(* a circle of scans would go down for ever.                               *)
(***************************************************************************)
\* What a handler wants.
LEMMA Wanters ==
  ASSUME IInv, NEW h \in Handler, NEW x \in Lockable, Wants(h, x)
  PROVE  /\ call[h].op \in {"approve", "enroll", "expire", "reject", "scan", "node", "enrollNode"}
         /\ call[h].op = "scan" => x \in Request /\ Scans(call[h], x)
         /\ call[h].op \in {"node", "enrollNode"} => x \in Machine
<1>1. Fits(call[h]) /\ call[h] \in Call
  BY DEF IInv, CallInv, TypeOK
<1>2. call[h].op = "node" => row[call[h].arg].machine \in Machine
  BY <1>1 DEF Fits, OnRow, RowLock, IInv, RowInv
<1>3. call[h].machine \in Machine \cup {Blank} /\ call[h].todo \subseteq Request
  BY <1>1 DEF Call
<1>4. Blank \notin Lockable
  BY PairingAssumption DEF Lockable
<1> QED BY <1>2, <1>3, <1>4 DEF Wants, Scans

\* A scan waits for one whose next row comes later.
LEMMA ScanOrder ==
  ASSUME IInv, NEW g \in Handler, NEW x \in Request, NEW y \in Request, Holds(g, x),
         call[g].op = "scan", Scans(call[g], y)
  PROVE  y < x
<1>1. Fits(call[g]) /\ x \in call[g].held
  BY DEF IInv, CallInv, Holds
<1> QED BY <1>1 DEF Fits, Scans

\* No group of handlers waits in a circle, for any number of handlers and rows.
THEOREM NoDeadlock == Spec => []NoLockCycle
<1>1. IInv => NoLockCycle
  <2> SUFFICES ASSUME IInv, NEW S \in SUBSET Handler, S # {},
                      \A h \in S : \E g \in S : WaitsFor(h, g)
               PROVE  FALSE
    BY DEF NoLockCycle
  <2>1. \A h \in S : \E g \in S, x \in Lockable : Wants(h, x) /\ Holds(g, x)
    BY DEF WaitsFor
  <2>2. \A h \in S : call[h].op \in {"approve", "enroll", "expire", "reject", "scan", "node",
                                     "enrollNode"}
    BY <2>1, Wanters
  <2>3. \A h \in S : call[h].op \notin {"node", "enrollNode"}
    <3> SUFFICES ASSUME NEW h \in S, call[h].op \in {"node", "enrollNode"} PROVE FALSE
      OBVIOUS
    <3>1. PICK g \in S, x \in Lockable : Wants(h, x) /\ Holds(g, x)
      BY <2>1
    <3>2. x \in Machine
      BY <3>1, Wanters
    <3>3. call[g].op \in {"commit", "enrollCommit"}
      BY <3>1, <3>2, Holders
    <3> QED BY <2>2, <3>3
  <2>4. ASSUME NEW g \in S, NEW x \in Lockable, Holds(g, x)
        PROVE  call[g].op = "scan" /\ x \in Request
    <3>1. call[g].op = "scan"
      BY <2>2, <2>3, <2>4 DEF Holds
    <3>2. call[g].held \subseteq Request
      BY DEF IInv, TypeOK, Call
    <3> QED BY <2>4, <3>1, <3>2 DEF Holds
  <2> DEFINE W == {x \in Request : \E h \in S : call[h].op = "scan" /\ Scans(call[h], x)}
             R == {p \in Nat \X Nat : p[1] < p[2]}
  <2>5. W # {}
    <3>1. PICK h \in S : TRUE
      OBVIOUS
    <3>2. PICK g \in S, x \in Lockable : Wants(h, x) /\ Holds(g, x)
      BY <2>1
    <3>3. call[g].op = "scan"
      BY <2>4, <3>2
    <3>4. PICK f \in S, y \in Lockable : Wants(g, y) /\ Holds(f, y)
      BY <2>1
    <3>5. y \in Request /\ Scans(call[g], y)
      BY <3>3, <3>4, Wanters
    <3> QED BY <3>3, <3>5
  <2>6. ASSUME NEW x \in W PROVE \E y \in W : y < x
    <3>1. PICK h \in S : call[h].op = "scan" /\ Scans(call[h], x)
      OBVIOUS
    <3>2. PICK g \in S, z \in Lockable : Wants(h, z) /\ Holds(g, z)
      BY <2>1
    <3>3. z \in Request /\ Scans(call[h], z) /\ call[g].op = "scan"
      BY <2>4, <3>1, <3>2, Wanters
    <3>4. z = x
      BY <3>1, <3>3, PairingAssumption DEF Scans
    <3>5. PICK f \in S, y \in Lockable : Wants(g, y) /\ Holds(f, y)
      BY <2>1
    <3>6. y \in Request /\ Scans(call[g], y)
      BY <3>3, <3>5, Wanters
    <3>7. y < x
      BY <3>2, <3>3, <3>4, <3>6, ScanOrder
    <3> QED BY <3>3, <3>6, <3>7
  <2>7. IsWellFoundedOn(R, Nat)
    BY NatLessThanWellFounded DEF OpToRel
  <2>8. W \in SUBSET Nat
    BY PairingAssumption
  <2>9. PICK x \in W : \A y \in W : ~(<<y, x>> \in R)
    <3> HIDE DEF R, W
    <3> QED BY <2>5, <2>7, <2>8, WFMin
  <2>10. PICK y \in W : y < x
    BY <2>6
  <2>11. x \in Nat /\ y \in Nat
    BY <2>8
  <2>12. <<y, x>> \in R
    BY <2>10, <2>11
  <2> QED BY <2>9, <2>12
<1> QED BY <1>1, Invariance, PTL
=============================================================================
