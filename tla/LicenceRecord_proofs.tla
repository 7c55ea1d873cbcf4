------------------------- MODULE LicenceRecord_proofs -------------------------
(***************************************************************************)
(* For any number of requests, connections and failures: connections are   *)
(* neither lost nor given back twice, resets that are fewer than the       *)
(* connections never hold all of them, a booking has at most one live row  *)
(* for each request, and a snapshot outlives its row only when it was      *)
(* taken inside a reset.                                                   *)
(***************************************************************************)
EXTENDS LicenceRecord, FiniteSetTheorems, TLAPS

\* The requests that hold the connection of a transaction.
Holding == {p \in Requests : pc[p] \in Open}

\* The requests that have found no row and will insert one.
Inserting == {p \in Requests : pc[p] = "insert"}

LEMMA RequestsFinite ==
  /\ Cardinality(Requests) \in Nat
  /\ \A S \in SUBSET Requests :
       IsFiniteSet(S) /\ Cardinality(S) \in Nat /\ Cardinality(S) <= Cardinality(Requests)
BY RequestsAssumption, FS_Subset, FS_CardinalityType

\* Every request is at a point it can be at, and rows are numbered in order:
\* the part of TypeOK that does not count connections.
Typing ==
  /\ pc \in [Requests -> PCs]
  /\ inserted \in Nat
  /\ live \subseteq 1 .. inserted
  /\ doomed \in [Requests -> SUBSET (1 .. inserted)]
  /\ recorded \subseteq 1 .. inserted
  /\ using \subseteq Requests
  /\ failures \in Nat
  /\ strayed \in BOOLEAN

LEMMA NextPreservesTyping == Typing /\ [Next]_vars => Typing'
<1> SUFFICES ASSUME Typing, [Next]_vars PROVE Typing'
  OBVIOUS
<1> USE DEF Typing, PCs, Open, Single, Goto, Executed
<1>1. CASE UNCHANGED vars
  BY <1>1 DEF vars
<1>2. ASSUME NEW p \in Requests, Arrive(p) PROVE Typing'
  <2>1. PICK op \in Ops : Goto(p, FirstStep[op])
    BY <1>2 DEF Arrive
  <2>2. FirstStep[op] \in PCs
    BY OpsKnown DEF FirstStep
  <2> QED
    BY <1>2, <2>1, <2>2 DEF Arrive
<1>3. ASSUME NEW p \in Requests, Look(p) PROVE Typing'
  BY <1>3 DEF Look
<1>4. ASSUME NEW p \in Requests, Insert(p) PROVE Typing'
  <2>1. 1 .. inserted \subseteq 1 .. inserted' /\ inserted' \in 1 .. inserted' /\ inserted' \in Nat
    BY <1>4 DEF Insert
  <2> QED
    BY <1>4, <2>1 DEF Insert
<1>5. ASSUME NEW p \in Requests, ReadLicence(p) PROVE Typing'
  BY <1>5 DEF ReadLicence
<1>6. ASSUME NEW p \in Requests, TakeSnapshot(p) PROVE Typing'
  BY <1>6 DEF TakeSnapshot
<1>7. ASSUME NEW p \in Requests, Connect(p) PROVE Typing'
  BY <1>7 DEF Connect
<1>8. ASSUME NEW p \in Requests, DeleteRow(p) PROVE Typing'
  BY <1>8 DEF DeleteRow
<1>9. ASSUME NEW p \in Requests, DeleteVersions(p) PROVE Typing'
  BY <1>9 DEF DeleteVersions
<1>10. ASSUME NEW p \in Requests, Commit(p) PROVE Typing'
  BY <1>10 DEF Commit
<1>11. ASSUME NEW p \in Requests, Fail(p) PROVE Typing'
  BY <1>11 DEF Fail
<1>12. ASSUME NEW p \in Requests, Acquire(p) PROVE Typing'
  BY <1>12 DEF Acquire
<1> QED
  BY <1>1, <1>2, <1>3, <1>4, <1>5, <1>6, <1>7, <1>8, <1>9, <1>10, <1>11, <1>12 DEF Next

-----------------------------------------------------------------------------
(* Connections *)

\* A connection is idle, held by the transaction of a request, or executing one
\* statement.
PoolBalanced ==
  free \in Nat /\ free + Cardinality(Holding) + Cardinality(using) = PoolSize

LEMMA NextPreservesPool == Typing /\ PoolBalanced /\ [Next]_vars => PoolBalanced'
<1> SUFFICES ASSUME Typing, PoolBalanced, [Next]_vars PROVE PoolBalanced'
  OBVIOUS
<1> DEFINE held == Cardinality(Holding)
           used == Cardinality(using)
<1>0. /\ pc \in [Requests -> PCs] /\ IsFiniteSet(Holding) /\ IsFiniteSet(using)
      /\ held \in Nat /\ used \in Nat /\ free \in Nat /\ PoolSize \in Nat
      /\ free + held + used = PoolSize
  BY RequestsFinite, PoolAssumption DEF Typing, Holding, PoolBalanced
<1>1. ASSUME NEW p \in Requests, p \in using, using' = using \ {p}
      PROVE  Cardinality(using') = used - 1
  BY <1>0, <1>1, FS_RemoveElement
<1>2. ASSUME NEW p \in Requests, pc[p] \in Open, pc' = [pc EXCEPT ![p] = "idle"]
      PROVE  Cardinality(Holding') = held - 1
  <2>1. Holding' = Holding \ {p} /\ p \in Holding
    BY <1>0, <1>2 DEF Holding, Open
  <2> QED
    BY <1>0, <2>1, FS_RemoveElement
<1>3. ASSUME NEW p \in Requests, Arrive(p) PROVE PoolBalanced'
  <2>1. PICK op \in Ops : Goto(p, FirstStep[op])
    BY <1>3 DEF Arrive
  <2>2. FirstStep[op] \notin Open
    BY OpsKnown DEF FirstStep, Open
  <2>3. Holding' = Holding
    BY <1>0, <1>3, <2>1, <2>2 DEF Arrive, Goto, Holding, Open
  <2> QED
    BY <1>0, <1>3, <2>3 DEF Arrive, PoolBalanced
<1>4. ASSUME NEW p \in Requests, Acquire(p) PROVE PoolBalanced'
  <2>1. Cardinality(using') = used + 1
    BY <1>0, <1>4, FS_AddElement DEF Acquire
  <2>2. Holding' = Holding /\ free > 0 /\ free' = free - 1
    BY <1>4 DEF Acquire, Holding
  <2> QED
    BY <1>0, <2>1, <2>2 DEF PoolBalanced
<1>5. ASSUME NEW p \in Requests, Connect(p) PROVE PoolBalanced'
  <2>1. Holding' = Holding \cup {p} /\ p \notin Holding
    BY <1>0, <1>5 DEF Connect, Goto, Holding, Open
  <2>2. Cardinality(Holding') = held + 1
    BY <1>0, <2>1, FS_AddElement
  <2>3. free > 0 /\ free' = free - 1 /\ using' = using
    BY <1>5 DEF Connect
  <2> QED
    BY <1>0, <2>2, <2>3 DEF PoolBalanced
<1>6. ASSUME NEW p \in Requests, Commit(p) PROVE PoolBalanced'
  <2>1. Cardinality(Holding') = held - 1
    BY <1>2, <1>6 DEF Commit, Goto, Open
  <2>2. free' = free + 1 /\ using' = using
    BY <1>6 DEF Commit
  <2> QED
    BY <1>0, <2>1, <2>2 DEF PoolBalanced
<1>7. ASSUME NEW p \in Requests, Fail(p) PROVE PoolBalanced'
  <2> DEFINE back == IF pc[p] \in Open THEN 1 ELSE 0
             unused == IF p \in using THEN 1 ELSE 0
  <2>1. Cardinality(Holding') = held - back
    <3>1. CASE pc[p] \in Open
      BY <1>2, <1>7, <3>1 DEF Fail, Goto
    <3>2. CASE pc[p] \notin Open
      <4>1. Holding' = Holding
        BY <1>0, <1>7, <3>2 DEF Fail, Goto, Holding, Open
      <4> QED
        BY <1>0, <3>2, <4>1
    <3> QED
      BY <3>1, <3>2
  <2>2. Cardinality(using') = used - unused
    <3>1. CASE p \in using
      BY <1>1, <1>7, <3>1 DEF Fail
    <3>2. CASE p \notin using
      <4>1. using' = using
        BY <1>7, <3>2 DEF Fail
      <4> QED
        BY <1>0, <3>2, <4>1
    <3> QED
      BY <3>1, <3>2
  <2>3. free' = free + back + unused
    BY <1>7 DEF Fail
  <2>4. back \in {0, 1} /\ unused \in {0, 1}
    OBVIOUS
  <2> HIDE DEF back, unused
  <2> QED
    BY <1>0, <2>1, <2>2, <2>3, <2>4 DEF PoolBalanced
<1>8. ASSUME NEW p \in Requests,
             Look(p) \/ Insert(p) \/ ReadLicence(p) \/ TakeSnapshot(p) \/ DeleteVersions(p)
      PROVE  PoolBalanced'
  <2>1. p \in using /\ using' = using \ {p} /\ free' = free + 1
    BY <1>8 DEF Look, Insert, ReadLicence, TakeSnapshot, DeleteVersions, Executed
  <2>2. Holding' = Holding
    BY <1>0, <1>8 DEF Look, Insert, ReadLicence, TakeSnapshot, DeleteVersions,
                      Executed, Goto, Holding, Open
  <2>3. Cardinality(using') = used - 1
    BY <1>1, <2>1
  <2> QED
    BY <1>0, <2>1, <2>2, <2>3 DEF PoolBalanced
<1>9. ASSUME NEW p \in Requests, DeleteRow(p) PROVE PoolBalanced'
  <2>1. Holding' = Holding
    BY <1>0, <1>9 DEF DeleteRow, Goto, Holding, Open
  <2> QED
    BY <1>9, <2>1 DEF DeleteRow, PoolBalanced
<1>10. CASE UNCHANGED vars
  <2>1. Holding' = Holding
    BY <1>10 DEF vars, Holding
  <2> QED
    BY <1>10, <2>1 DEF vars, PoolBalanced
<1> QED
  BY <1>3, <1>4, <1>5, <1>6, <1>7, <1>8, <1>9, <1>10 DEF Next

LEMMA PoolInvariant == Spec => [](Typing /\ PoolBalanced)
<1>1. Init => Typing /\ PoolBalanced
  <2> SUFFICES ASSUME Init PROVE Typing /\ PoolBalanced
    OBVIOUS
  <2>1. Holding = {} /\ using = {}
    BY DEF Init, Holding, Open
  <2>2. Cardinality(Holding) = 0 /\ Cardinality(using) = 0
    BY <2>1, FS_EmptySet
  <2>3. PoolBalanced
    BY <2>2, PoolAssumption DEF Init, PoolBalanced
  <2>4. Typing
    BY DEF Init, Typing, PCs
  <2> QED
    BY <2>3, <2>4
<1>2. Typing /\ PoolBalanced /\ [Next]_vars => (Typing /\ PoolBalanced)'
  BY NextPreservesTyping, NextPreservesPool
<1> QED
  BY <1>1, <1>2, PTL DEF Spec

\* Every variable keeps its type (TypeOK): the connections of the pool are
\* neither lost nor given back twice, however resets fail.
THEOREM TypeCorrect == Spec => []TypeOK
<1>1. Typing /\ PoolBalanced => TypeOK
  <2> SUFFICES ASSUME Typing, PoolBalanced PROVE TypeOK
    OBVIOUS
  <2>1. Cardinality(Holding) \in Nat /\ Cardinality(using) \in Nat
    BY RequestsFinite DEF Holding, Typing
  <2>2. free \in 0 .. PoolSize
    BY <2>1, PoolAssumption DEF PoolBalanced
  <2> QED
    BY <2>2 DEF Typing, TypeOK
<1> QED
  BY <1>1, PoolInvariant, PTL

\* Only administrators have a transaction.
OnlyAdminsHold ==
  \A p \in Requests : pc[p] \in {"connect"} \cup Open => p \in Admins

LEMMA NextPreservesOnlyAdminsHold ==
  Typing /\ OnlyAdminsHold /\ [Next]_vars => OnlyAdminsHold'
<1> SUFFICES ASSUME Typing, OnlyAdminsHold, [Next]_vars PROVE OnlyAdminsHold'
  OBVIOUS
<1>0. pc \in [Requests -> PCs]
  BY DEF Typing
<1> USE DEF OnlyAdminsHold, Open
<1>1. ASSUME NEW p \in Requests, Arrive(p) PROVE OnlyAdminsHold'
  <2>1. PICK op \in Ops : (op = "reset" => p \in Admins) /\ Goto(p, FirstStep[op])
    BY <1>1 DEF Arrive
  <2>2. op # "reset" => FirstStep[op] \notin {"connect"} \cup Open
    BY OpsKnown DEF FirstStep
  <2> QED
    BY <1>0, <2>1, <2>2 DEF Goto
<1>2. ASSUME NEW p \in Requests, Acquire(p) PROVE OnlyAdminsHold'
  BY <1>2 DEF Acquire
<1>3. ASSUME NEW p \in Requests,
             \/ Look(p) \/ Insert(p) \/ ReadLicence(p) \/ TakeSnapshot(p)
             \/ Connect(p) \/ DeleteRow(p) \/ DeleteVersions(p) \/ Commit(p) \/ Fail(p)
      PROVE  OnlyAdminsHold'
  BY <1>0, <1>3 DEF Look, Insert, ReadLicence, TakeSnapshot, Connect, DeleteRow,
                    DeleteVersions, Commit, Fail, Executed, Goto
<1>4. CASE UNCHANGED vars
  BY <1>4 DEF vars
<1> QED
  BY <1>1, <1>2, <1>3, <1>4 DEF Next

\* softDeleteLicence needs two connections at once.  However many other
\* requests compete for the pool, resets that are fewer than its connections
\* never hold all of them: the one case in which ResetsEnd lets them wait for
\* ever does not arise.
THEOREM FewResetsNeverJam ==
  ASSUME Cardinality(Admins) < PoolSize
  PROVE  Spec => []~Jammed
<1>1. Init => OnlyAdminsHold
  BY DEF Init, OnlyAdminsHold, Open
<1>2. Typing /\ OnlyAdminsHold /\ [Next]_vars => OnlyAdminsHold'
  BY NextPreservesOnlyAdminsHold
<1>3. OnlyAdminsHold => ~Jammed
  <2> SUFFICES ASSUME OnlyAdminsHold PROVE ~Jammed
    OBVIOUS
  <2> DEFINE Waiting == {p \in Requests : pc[p] \in {"delete", "versions"}}
  <2>1. Waiting \subseteq Admins
    BY DEF OnlyAdminsHold, Open
  <2>2. IsFiniteSet(Admins)
    BY RequestsAssumption, FS_Subset
  <2>3. /\ Cardinality(Waiting) \in Nat /\ Cardinality(Admins) \in Nat
        /\ Cardinality(Waiting) <= Cardinality(Admins)
    BY <2>1, <2>2, FS_Subset, FS_CardinalityType
  <2> QED
    BY <2>3, PoolAssumption DEF Jammed
<1> QED
  BY <1>1, <1>2, <1>3, PoolInvariant, PTL DEF Spec

-----------------------------------------------------------------------------
(* Live rows *)

\* The live rows, and the rows still to be inserted, are no more than the
\* requests: a request decides to insert when there is no live row.
RowsBounded ==
  IsFiniteSet(live) /\ Cardinality(live) + Cardinality(Inserting) <= Cardinality(Requests)

LEMMA NextPreservesRowsBounded == Typing /\ RowsBounded /\ [Next]_vars => RowsBounded'
<1> SUFFICES ASSUME Typing, RowsBounded, [Next]_vars PROVE RowsBounded'
  OBVIOUS
<1>0. /\ pc \in [Requests -> PCs] /\ IsFiniteSet(Inserting)
      /\ Inserting \subseteq Requests /\ IsFiniteSet(live)
      /\ Cardinality(Inserting) \in Nat /\ Cardinality(live) \in Nat
      /\ Cardinality(Requests) \in Nat
  BY RequestsFinite, FS_CardinalityType DEF Typing, Inserting, RowsBounded
<1>1. ASSUME live' \subseteq live, Inserting' \subseteq Inserting PROVE RowsBounded'
  <2>1. /\ IsFiniteSet(live') /\ Cardinality(live') <= Cardinality(live)
        /\ Cardinality(Inserting') <= Cardinality(Inserting)
        /\ Cardinality(live') \in Nat /\ Cardinality(Inserting') \in Nat
    BY <1>0, <1>1, FS_Subset, FS_CardinalityType
  <2> QED
    BY <1>0, <2>1 DEF RowsBounded
<1>2. ASSUME NEW p \in Requests, Look(p) PROVE RowsBounded'
  <2>1. CASE live = {}
    <3>1. live' = {} /\ Cardinality(live') = 0 /\ IsFiniteSet(live')
      BY <1>2, <2>1, FS_EmptySet DEF Look
    <3>2. Inserting' \subseteq Requests
      BY DEF Inserting
    <3>3. Cardinality(Inserting') \in Nat /\ Cardinality(Inserting') <= Cardinality(Requests)
      BY <3>2, RequestsFinite
    <3> QED
      BY <1>0, <3>1, <3>3 DEF RowsBounded
  <2>2. CASE live # {}
    BY <1>0, <1>1, <1>2, <2>2 DEF Look, Executed, Goto, Inserting
  <2> QED
    BY <2>1, <2>2
<1>3. ASSUME NEW p \in Requests, Insert(p) PROVE RowsBounded'
  <2>1. Inserting' = Inserting \ {p} /\ p \in Inserting
    BY <1>0, <1>3 DEF Insert, Executed, Goto, Inserting
  <2>2. Cardinality(Inserting') = Cardinality(Inserting) - 1
    BY <1>0, <2>1, FS_RemoveElement
  <2>3. live' = live \cup {inserted + 1} /\ inserted + 1 \notin live
    BY <1>3 DEF Insert, Typing
  <2>4. IsFiniteSet(live') /\ Cardinality(live') = Cardinality(live) + 1
    BY <1>0, <2>3, FS_AddElement
  <2> QED
    BY <1>0, <2>2, <2>4 DEF RowsBounded
<1>4. ASSUME NEW p \in Requests, Arrive(p) PROVE RowsBounded'
  <2>1. PICK op \in Ops : Goto(p, FirstStep[op])
    BY <1>4 DEF Arrive
  <2>2. FirstStep[op] # "insert"
    BY OpsKnown DEF FirstStep
  <2> QED
    BY <1>0, <1>1, <1>4, <2>1, <2>2 DEF Arrive, Goto, Inserting
<1>5. ASSUME NEW p \in Requests,
             \/ ReadLicence(p) \/ TakeSnapshot(p) \/ Connect(p) \/ DeleteRow(p)
             \/ DeleteVersions(p) \/ Commit(p) \/ Fail(p) \/ Acquire(p)
      PROVE  RowsBounded'
  <2>1. live' \subseteq live
    BY <1>5 DEF ReadLicence, TakeSnapshot, Connect, DeleteRow, DeleteVersions, Commit, Fail,
                 Acquire
  <2>2. Inserting' \subseteq Inserting
    BY <1>0, <1>5 DEF ReadLicence, TakeSnapshot, Connect, DeleteRow, DeleteVersions, Commit,
                      Fail, Acquire, Goto, Inserting
  <2> QED
    BY <1>1, <2>1, <2>2
<1>6. CASE UNCHANGED vars
  BY <1>1, <1>6 DEF vars, Inserting
<1> QED
  BY <1>2, <1>3, <1>4, <1>5, <1>6 DEF Next

\* eligibilityStart and varyStart look before they insert: however they race
\* with each other and with resets, a booking never has more live rows than
\* there are requests in flight together.
THEOREM RowsStayBounded == Spec => []LiveRecordsBounded
<1>1. Init => RowsBounded
  <2> SUFFICES ASSUME Init PROVE RowsBounded
    OBVIOUS
  <2>1. live = {} /\ Inserting = {}
    BY DEF Init, Inserting
  <2> QED
    BY <2>1, FS_EmptySet, RequestsFinite DEF RowsBounded
<1>2. Typing /\ RowsBounded /\ [Next]_vars => RowsBounded'
  BY NextPreservesRowsBounded
<1>3. RowsBounded => LiveRecordsBounded
  <2> SUFFICES ASSUME RowsBounded PROVE LiveRecordsBounded
    OBVIOUS
  <2>1. Cardinality(Inserting) \in Nat /\ Cardinality(live) \in Nat
    BY RequestsFinite, FS_CardinalityType DEF RowsBounded, Inserting
  <2> QED
    BY <2>1, RequestsFinite DEF RowsBounded, LiveRecordsBounded
<1> QED
  BY <1>1, <1>2, <1>3, PoolInvariant, PTL DEF Spec

-----------------------------------------------------------------------------
(* Orphans *)

\* As long as no snapshot was taken inside a reset, the snapshots are those of
\* live rows, and none is left when a reset is about to commit.
SnapshotsFollowRows ==
  ~strayed =>
    /\ recorded \subseteq live
    /\ (\E p \in Requests : pc[p] = "commit") => recorded = {}

LEMMA NextPreservesSnapshotsFollowRows ==
  Typing /\ SnapshotsFollowRows /\ [Next]_vars => SnapshotsFollowRows'
<1> SUFFICES ASSUME Typing, SnapshotsFollowRows, [Next]_vars PROVE SnapshotsFollowRows'
  OBVIOUS
<1>0. pc \in [Requests -> PCs]
  BY DEF Typing
<1> DEFINE AtCommit == \E p \in Requests : pc[p] = "commit"
<1>1. ASSUME strayed' = strayed, recorded' = recorded, live \subseteq live', AtCommit' => AtCommit
      PROVE  SnapshotsFollowRows'
  BY <1>1 DEF SnapshotsFollowRows
<1>2. ASSUME NEW p \in Requests, Arrive(p) PROVE SnapshotsFollowRows'
  <2>1. PICK op \in Ops : Goto(p, FirstStep[op])
    BY <1>2 DEF Arrive
  <2>2. FirstStep[op] # "commit"
    BY OpsKnown DEF FirstStep
  <2>3. AtCommit' => AtCommit
    BY <1>0, <2>1, <2>2 DEF Goto
  <2> QED
    BY <1>1, <1>2, <2>3 DEF Arrive
<1>3. ASSUME NEW p \in Requests,
             \/ Look(p) \/ Insert(p) \/ ReadLicence(p) \/ Connect(p) \/ DeleteRow(p) \/ Fail(p)
             \/ Acquire(p)
      PROVE  SnapshotsFollowRows'
  <2>1. AtCommit' => AtCommit
    BY <1>0, <1>3 DEF Look, Insert, ReadLicence, Connect, DeleteRow, Fail, Acquire, Goto
  <2>2. strayed' = strayed /\ recorded' = recorded /\ live \subseteq live'
    BY <1>3 DEF Look, Insert, ReadLicence, Connect, DeleteRow, Fail, Acquire
  <2> QED
    BY <1>1, <2>1, <2>2
<1>4. ASSUME NEW p \in Requests, TakeSnapshot(p) PROVE SnapshotsFollowRows'
  <2>1. ~strayed' => ~strayed /\ ~AtCommit
    BY <1>4 DEF TakeSnapshot
  <2>2. AtCommit' => AtCommit
    BY <1>0, <1>4 DEF TakeSnapshot, Goto
  <2>3. live' = live /\ (recorded' = live \/ recorded' = recorded)
    BY <1>4 DEF TakeSnapshot
  <2> QED
    BY <2>1, <2>2, <2>3 DEF SnapshotsFollowRows
<1>5. ASSUME NEW p \in Requests, DeleteVersions(p) PROVE SnapshotsFollowRows'
  BY <1>5 DEF DeleteVersions, SnapshotsFollowRows
<1>6. ASSUME NEW p \in Requests, Commit(p) PROVE SnapshotsFollowRows'
  <2>1. AtCommit
    BY <1>6 DEF Commit
  <2> QED
    BY <1>6, <2>1 DEF Commit, SnapshotsFollowRows
<1>7. CASE UNCHANGED vars
  BY <1>1, <1>7 DEF vars
<1> QED
  BY <1>2, <1>3, <1>4, <1>5, <1>6, <1>7 DEF Next

\* softDeleteLicence and its second connection: no failure and no interleaving
\* leaves a snapshot without its row, except that a snapshot was taken between
\* softDeleteVersions and the commit.
THEOREM OrphansComeFromInsideResets == Spec => []OrphansOnlyFromInsideReset
<1>1. Init => SnapshotsFollowRows
  BY DEF Init, SnapshotsFollowRows
<1>2. Typing /\ SnapshotsFollowRows /\ [Next]_vars => SnapshotsFollowRows'
  BY NextPreservesSnapshotsFollowRows
<1>3. SnapshotsFollowRows => OrphansOnlyFromInsideReset
  BY DEF SnapshotsFollowRows, OrphansOnlyFromInsideReset
<1> QED
  BY <1>1, <1>2, <1>3, PoolInvariant, PTL DEF Spec
=============================================================================
