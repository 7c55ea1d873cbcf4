----------------------------- MODULE LicenceRecord -----------------------------
(***************************************************************************)
(* The life of one booking's rows: started by POST eligibilityStart and    *)
(* varyStart, copied into licence_versions when a document is printed, and *)
(* soft-deleted by an administrator's reset, over the connection pool.     *)
(*                                                                         *)
(* Nothing in the schema makes a booking's row unique.  A reset marks the  *)
(* row inside a transaction, whose connection it holds, and the snapshots  *)
(* with a second connection taken from the pool, which commits at once.    *)
(* Any other statement takes a connection, is executed and gives it back.  *)
(*                                                                         *)
(*   start   look, insert                        eligibilityStart          *)
(*   print   read, snapshot                      GET /pdf/create           *)
(*   reset   connect, delete, versions, commit   softDeleteLicence         *)
(*                                                                         *)
(* Rows are numbered in the order of insertion.  Nobody edits the licence  *)
(* here (LicenceWorkflow), so all rows carry the same version numbers.     *)
(***************************************************************************)
EXTENDS Naturals, FiniteSets

CONSTANTS Requests,    \* the requests that can be in flight together
          Admins,      \* those of them that may be a reset
          Ops,         \* the kinds of request users make
          PoolSize,    \* connections of the pool
          MaxRecords,  \* bound: no start arrives once this many rows were inserted
          MaxFailures  \* bound: requests that die half way

ASSUME RequestsAssumption == IsFiniteSet(Requests) /\ Admins \subseteq Requests
ASSUME OpsKnown == Ops \subseteq {"start", "print", "reset"}
ASSUME PoolAssumption == PoolSize \in Nat /\ MaxRecords \in Nat /\ MaxFailures \in Nat

VARIABLES pc,        \* what each request does next
          inserted,  \* rows inserted so far
          live,      \* the rows not deleted, as committed
          doomed,    \* the rows an open transaction has marked
          recorded,  \* the live snapshots, each by the row it is a copy of
          free,      \* idle connections
          using,     \* the requests whose statement has a connection
          failures,  \* requests that died half way so far
          strayed    \* history: a snapshot was taken inside a reset

vars == <<pc, inserted, live, doomed, recorded, free, using, failures, strayed>>

\* The points at which a reset holds the connection of its transaction.
Open == {"delete", "versions", "commit"}

\* The points at which a request has a statement of its own for the pool.
Single == {"look", "insert", "read", "snapshot", "versions"}

PCs == {"idle", "connect"} \cup Single \cup Open

Init ==
  /\ pc = [p \in Requests |-> "idle"]
  /\ inserted = 0
  /\ live = {}
  /\ doomed = [p \in Requests |-> {}]
  /\ recorded = {}
  /\ free = PoolSize
  /\ using = {}
  /\ failures = 0
  /\ strayed = FALSE

Goto(p, to) == pc' = [pc EXCEPT ![p] = to]

\* A statement with a connection is executed, and gives the connection back.
Executed(p, at) ==
  /\ pc[p] = at
  /\ p \in using
  /\ using' = using \ {p}
  /\ free' = free + 1

-----------------------------------------------------------------------------
FirstStep == [start |-> "look", print |-> "read", reset |-> "connect"]

\* Only an administrator resets.
Arrive(p) ==
  /\ pc[p] = "idle"
  /\ \E op \in Ops :
       /\ op = "reset" => p \in Admins
       /\ op = "start" => inserted < MaxRecords
       /\ Goto(p, FirstStep[op])
  /\ UNCHANGED <<inserted, live, doomed, recorded, free, using, failures, strayed>>

\* pool.query takes a connection for one statement.
Acquire(p) ==
  /\ pc[p] \in Single /\ p \notin using
  /\ free > 0
  /\ using' = using \cup {p}
  /\ free' = free - 1
  /\ UNCHANGED <<pc, inserted, live, doomed, recorded, failures, strayed>>

\* Mutant: the record is created without a look at the table.
Look_NoCheck(p) ==
  /\ Executed(p, "look")
  /\ Goto(p, "insert")
  /\ UNCHANGED <<inserted, live, doomed, recorded, failures, strayed>>

Look(p) ==
  /\ Executed(p, "look")
  /\ Goto(p, IF live = {} THEN "insert" ELSE "idle")
  /\ UNCHANGED <<inserted, live, doomed, recorded, failures, strayed>>

Insert(p) ==
  /\ Executed(p, "insert")
  /\ inserted' = inserted + 1
  /\ live' = live \cup {inserted + 1}
  /\ Goto(p, "idle")
  /\ UNCHANGED <<doomed, recorded, failures, strayed>>

\* A booking with no row is sent to the case list; one with a snapshot of the
\* row's numbers is printed as it is.
ReadLicence(p) ==
  /\ Executed(p, "read")
  /\ Goto(p, IF live = {} \/ recorded # {} THEN "idle" ELSE "snapshot")
  /\ UNCHANGED <<inserted, live, doomed, recorded, failures, strayed>>

\* "insert ... select" copies every live row of the booking; the unique index
\* refuses two copies under the same numbers.
TakeSnapshot(p) ==
  /\ Executed(p, "snapshot")
  /\ recorded' = IF recorded = {} /\ Cardinality(live) = 1 THEN live ELSE recorded
  /\ strayed' = (strayed \/ \E q \in Requests : pc[q] = "commit")
  /\ Goto(p, "idle")
  /\ UNCHANGED <<inserted, live, doomed, failures>>

-----------------------------------------------------------------------------
(* softDeleteLicence *)

Connect(p) ==
  /\ pc[p] = "connect"
  /\ free > 0
  /\ free' = free - 1
  /\ Goto(p, "delete")
  /\ UNCHANGED <<inserted, live, doomed, recorded, using, failures, strayed>>

\* The update waits for the transaction that has marked the row already.
DeleteRow(p) ==
  /\ pc[p] = "delete"
  /\ \A q \in Requests : doomed[q] = {}
  /\ doomed' = [doomed EXCEPT ![p] = live]
  /\ Goto(p, "versions")
  /\ UNCHANGED <<inserted, live, recorded, free, using, failures, strayed>>

\* Mutant: the versions are not deleted.
DeleteVersions_Keeps(p) ==
  /\ Executed(p, "versions")
  /\ Goto(p, "commit")
  /\ UNCHANGED <<inserted, live, doomed, recorded, failures, strayed>>

\* softDeleteVersions runs on the pool and not on the transaction's client.
DeleteVersions(p) ==
  /\ Executed(p, "versions")
  /\ recorded' = {}
  /\ Goto(p, "commit")
  /\ UNCHANGED <<inserted, live, doomed, failures, strayed>>

\* Mutants: the connection is not given back; it is given back twice.
Commit_KeepsConnection(p) ==
  /\ pc[p] = "commit"
  /\ live' = live \ doomed[p]
  /\ doomed' = [doomed EXCEPT ![p] = {}]
  /\ Goto(p, "idle")
  /\ UNCHANGED <<inserted, recorded, free, using, failures, strayed>>
Commit_ReleasesTwice(p) ==
  /\ pc[p] = "commit"
  /\ live' = live \ doomed[p]
  /\ doomed' = [doomed EXCEPT ![p] = {}]
  /\ free' = free + 2
  /\ Goto(p, "idle")
  /\ UNCHANGED <<inserted, recorded, using, failures, strayed>>

Commit(p) ==
  /\ pc[p] = "commit"
  /\ live' = live \ doomed[p]
  /\ doomed' = [doomed EXCEPT ![p] = {}]
  /\ free' = free + 1
  /\ Goto(p, "idle")
  /\ UNCHANGED <<inserted, recorded, using, failures, strayed>>

\* A statement fails or the request dies: an open transaction is rolled back
\* and every connection given back; what other statements did stays.
Fail(p) ==
  /\ failures < MaxFailures
  /\ pc[p] # "idle"
  /\ failures' = failures + 1
  /\ doomed' = [doomed EXCEPT ![p] = {}]
  /\ free' = free + (IF pc[p] \in Open THEN 1 ELSE 0) + (IF p \in using THEN 1 ELSE 0)
  /\ using' = using \ {p}
  /\ Goto(p, "idle")
  /\ UNCHANGED <<inserted, live, recorded, strayed>>

-----------------------------------------------------------------------------
Next ==
  \E p \in Requests :
    \/ Arrive(p) \/ Acquire(p)
    \/ Look(p) \/ Insert(p)
    \/ ReadLicence(p) \/ TakeSnapshot(p)
    \/ Connect(p) \/ DeleteRow(p) \/ DeleteVersions(p) \/ Commit(p)
    \/ Fail(p)

Spec == Init /\ [][Next]_vars

\* Statements that have a connection are executed.  Waits are served in turn,
\* by the queue of the pool and that of the row lock, hence strong fairness for
\* what a reset waits for.  Users owe nothing.
Fairness ==
  /\ \A p \in Requests : WF_vars(Look(p) \/ Insert(p) \/ ReadLicence(p) \/ TakeSnapshot(p))
  /\ \A p \in Admins :
       /\ SF_vars(Acquire(p)) /\ SF_vars(DeleteRow(p))
       /\ WF_vars(DeleteVersions(p)) /\ WF_vars(Commit(p))

FairSpec == Spec /\ Fairness

-----------------------------------------------------------------------------
(* Properties *)

\* Every variable keeps its type; no connection is lost or given back twice.
TypeOK ==
  /\ pc \in [Requests -> PCs]
  /\ inserted \in Nat
  /\ live \subseteq 1 .. inserted
  /\ doomed \in [Requests -> SUBSET (1 .. inserted)]
  /\ recorded \subseteq 1 .. inserted
  /\ free \in 0 .. PoolSize
  /\ using \subseteq Requests
  /\ failures \in Nat
  /\ strayed \in BOOLEAN

\* The lookup before the insertion is worth this much: a booking never has
\* more live rows than there are requests in flight together.
LiveRecordsBounded == Cardinality(live) <= Cardinality(Requests)

\* The live snapshots are those of a live row: once a reset has committed no
\* snapshot of the deleted row is left to stand for a later one, unless it
\* was taken while the reset was between its second statement and its commit.
OrphansOnlyFromInsideReset == recorded \subseteq live \/ strayed

\* Every connection is held by the transaction of a reset that has still to
\* delete the versions, for which it needs another.
Jammed ==
  Cardinality({p \in Requests : pc[p] \in {"delete", "versions"}}) = PoolSize

\* softDeleteLicence ends once it has its transaction, however busy the pool
\* and whoever else resets the booking: only resets that hold every connection
\* between them wait for ever.
ResetsEnd == \A p \in Requests : pc[p] \in Open ~> pc[p] = "idle" \/ Jammed
=============================================================================
