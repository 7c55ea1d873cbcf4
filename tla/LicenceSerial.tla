----------------------------- MODULE LicenceSerial -----------------------------
(***************************************************************************)
(* LicenceWorkflow with one request at a time implements LicenceLifecycle. *)
(* A request takes effect with its first statement: the abstract licence   *)
(* is the row as it will be when the running request has finished.         *)
(***************************************************************************)
EXTENDS LicenceWorkflow

Numbers(r, q) == UpdateVersion(r, versions, q.op \in {"form", "conditions"} /\ q.post)

Flagged(r, q) ==
  LET to == ModificationStage(q.stage, RequiresApproval(q.arg), NoModify(q.arg))
  IN  IF to = {} THEN r ELSE [r EXCEPT !.stage = CHOOSE s \in to : TRUE]

\* The row once request q, past its first statement, has run to its end.
Finished(q) ==
  CASE q.op = "form" /\ q.pc = "bump" -> Flagged(Numbers(row, q), q)
    [] q.op = "form" /\ q.pc = "flag" -> Flagged(row, q)
    [] q.op = "conditions" /\ q.pc = "writeSection" ->
         Numbers([row EXCEPT !.doc["licenceConditions"] = q.newDoc["licenceConditions"]], q)
    [] q.op = "handover" /\ q.pc = "writeDoc" ->
         Numbers([row EXCEPT !.doc = q.newDoc], q)
    [] q.op # "form" /\ q.pc = "bump" -> Numbers(row, q)
    [] OTHER -> row

Running == {p \in Requests : req[p].pc # "idle"}

SerialLicence ==
  IF Running = {} THEN row ELSE Finished(req[CHOOSE p \in Running : TRUE])

Lifecycle == INSTANCE LicenceLifecycle WITH
  licence <- SerialLicence,
  recorded <- {[doc |-> s.doc, version |-> s.version, vary |-> s.vary] : s \in versions},
  out <- released

\* Each statement of a request is one step of the lifecycle or none: changing
\* a document renumbers it when it was recorded, sends a decided licence back
\* for approval when it must, and happens as if in one piece.
ImplementsLifecycle == Lifecycle!Lifecycle
=============================================================================
