------------------------ MODULE OutcomeReporting_proofs ------------------------
(***************************************************************************)
(* Theorems about OutcomeReporting: for any forms and any number of failed *)
(* calls, what was reported as done is known where it has to be.  The      *)
(* argument is about the calls still to be made: each of them will leave   *)
(* at the other end what the document says, or has done so.                *)
(***************************************************************************)
EXTENDS OutcomeReporting, SequenceTheorems, TLAPS

-----------------------------------------------------------------------------
(* Sequences of calls. *)

\* Every call is to one of a set.
Only(s, T) == \A i \in 1..Len(s) : s[i].to \in T

\* The last call to someone says this.
Tells(s, to, say) ==
  \E i \in 1..Len(s) : s[i].to = to /\ s[i].say = say
                       /\ \A j \in 1..Len(s) : j > i => s[j].to # to

\* Once the calls are made the other end holds this, v being what it holds now.
Pending(s, to, say, v) ==
  Tells(s, to, say) \/ (v = say /\ \A i \in 1..Len(s) : s[i].to # to)

LEMMA PendingNone == \A to, say, v : Pending(<<>>, to, say, v) <=> v = say
BY DEF Pending, Tells

\* Calls to others leave things as they are.
LEMMA PendingOthers ==
  ASSUME NEW s, NEW T, Only(s, T), NEW to, to \notin T, NEW say
  PROVE  Pending(s, to, say, say) /\ \A v : Pending(s, to, say, v) => v = say
BY DEF Only, Pending, Tells

\* A call is made: what was to be is still to be, or is.
LEMMA PendingCall ==
  ASSUME NEW s \in Seq(Call), s # <<>>, NEW to, NEW say, NEW v, Pending(s, to, say, v)
  PROVE  Pending(Tail(s), to, say, IF Head(s).to = to THEN Head(s).say ELSE v)
<1>1. /\ Len(s) \in Nat /\ Len(s) > 0
      /\ Len(Tail(s)) = Len(s) - 1
      /\ Head(s) = s[1]
      /\ \A i \in 1..Len(Tail(s)) : Tail(s)[i] = s[i + 1]
  BY HeadTailProperties, LenProperties, EmptySeq
<1> DEFINE t == Tail(s)
           n == Len(s)
<1>2. n \in Nat /\ n > 0 /\ Len(t) = n - 1 /\ \A i \in 1..(n - 1) : t[i] = s[i + 1]
  BY <1>1
<1> HIDE DEF t, n
<1>3. CASE Tells(s, to, say)
  <2>1. PICK k \in 1..n : s[k].to = to /\ s[k].say = say /\ \A j \in 1..n : j > k => s[j].to # to
    BY <1>3 DEF Tells, n
  <2>2. CASE k = 1
    <3>1. \A i \in 1..(n - 1) : t[i].to # to
      <4> SUFFICES ASSUME NEW i \in 1..(n - 1) PROVE t[i].to # to
        OBVIOUS
      <4>1. i + 1 \in 1..n /\ i + 1 > k
        BY <1>2, <2>2
      <4> QED BY <1>2, <2>1, <4>1
    <3> QED BY <1>1, <1>2, <2>1, <2>2, <3>1 DEF Pending, t
  <2>3. CASE k # 1
    <3>1. k - 1 \in 1..(n - 1) /\ t[k - 1] = s[k]
      BY <1>2, <2>3
    <3>2. \A j \in 1..(n - 1) : j > k - 1 => t[j].to # to
      <4> SUFFICES ASSUME NEW j \in 1..(n - 1), j > k - 1 PROVE t[j].to # to
        OBVIOUS
      <4>1. j + 1 \in 1..n /\ j + 1 > k
        BY <1>2
      <4> QED BY <1>2, <2>1, <4>1
    <3>3. Tells(t, to, say)
      BY <1>2, <2>1, <3>1, <3>2 DEF Tells
    <3> QED BY <3>3 DEF Pending, t
  <2> QED BY <2>2, <2>3
<1>4. CASE v = say /\ \A i \in 1..n : s[i].to # to
  <2>1. \A i \in 1..(n - 1) : t[i].to # to
    <3> SUFFICES ASSUME NEW i \in 1..(n - 1) PROVE t[i].to # to
      OBVIOUS
    <3>1. i + 1 \in 1..n
      BY <1>2
    <3> QED BY <1>2, <1>4, <3>1
  <2>2. Head(s).to # to
    BY <1>1, <1>2, <1>4
  <2> QED BY <1>2, <1>4, <2>1, <2>2 DEF Pending, t
<1> QED BY <1>3, <1>4 DEF Pending, n

\* Making a call leaves calls to the same.
LEMMA OnlyTail ==
  ASSUME NEW s \in Seq(Call), s # <<>>, NEW T, Only(s, T)
  PROVE  Head(s) \in Call /\ Head(s).to \in T /\ Tail(s) \in Seq(Call) /\ Only(Tail(s), T)
<1>1. /\ Len(s) \in Nat /\ Len(s) > 0
      /\ Tail(s) \in Seq(Call) /\ Len(Tail(s)) = Len(s) - 1
      /\ Head(s) = s[1] /\ Head(s) \in Call
      /\ \A i \in 1..Len(Tail(s)) : Tail(s)[i] = s[i + 1]
  BY HeadTailProperties, LenProperties, EmptySeq
<1>2. ASSUME NEW i \in 1..(Len(s) - 1) PROVE Tail(s)[i].to \in T
  <2>1. i + 1 \in 1..Len(s)
    BY <1>1
  <2>2. Tail(s)[i] = s[i + 1]
    BY <1>1
  <2> QED BY <2>1, <2>2 DEF Only
<1> QED BY <1>1, <1>2 DEF Only

\* One list of calls after another.
LEMMA Joined ==
  ASSUME NEW s \in Seq(Call), NEW t \in Seq(Call), NEW S, NEW T, Only(s, S), Only(t, T)
  PROVE  /\ s \o t \in Seq(Call)
         /\ Only(s \o t, S \cup T)
         /\ \A to, say : Tells(t, to, say) => Tells(s \o t, to, say)
         /\ \A to, say : Tells(s, to, say) /\ to \notin T => Tells(s \o t, to, say)
<1> DEFINE m == Len(s)
           n == Len(t)
           c == s \o t
<1>1. /\ m \in Nat /\ n \in Nat /\ c \in Seq(Call) /\ Len(c) = m + n
      /\ \A i \in 1..(m + n) : c[i] = IF i <= m THEN s[i] ELSE t[i - m]
  BY ConcatProperties, LenProperties
<1>2. \A i \in 1..m : s[i].to \in S
  BY DEF Only
<1>3. \A i \in 1..n : t[i].to \in T
  BY DEF Only
<1> HIDE DEF m, n, c
<1>4. \A i \in 1..m : i \in 1..(m + n) /\ c[i] = s[i]
  BY <1>1
<1>5. \A i \in 1..n : m + i \in 1..(m + n) /\ c[m + i] = t[i]
  BY <1>1
<1>6. \A i \in 1..(m + n) : i \notin 1..m => i - m \in 1..n /\ c[i] = t[i - m]
  BY <1>1
<1>7. Only(c, S \cup T)
  <2> SUFFICES ASSUME NEW i \in 1..(m + n) PROVE c[i].to \in S \cup T
    BY <1>1 DEF Only
  <2>1. CASE i \in 1..m
    BY <1>2, <1>4, <2>1
  <2>2. CASE i \notin 1..m
    BY <1>3, <1>6, <2>2
  <2> QED BY <2>1, <2>2
<1>8. ASSUME NEW to, NEW say, Tells(t, to, say) PROVE Tells(c, to, say)
  <2>1. PICK k \in 1..n : t[k].to = to /\ t[k].say = say /\ \A j \in 1..n : j > k => t[j].to # to
    BY <1>8 DEF Tells, n
  <2>2. m + k \in 1..(m + n) /\ c[m + k] = t[k]
    BY <1>5
  <2>3. ASSUME NEW j \in 1..(m + n), j > m + k PROVE c[j].to # to
    <3>1. j \notin 1..m /\ j - m > k
      BY <1>1, <2>3
    <3>2. j - m \in 1..n /\ c[j] = t[j - m]
      BY <1>6, <3>1
    <3> QED BY <2>1, <3>1, <3>2
  <2> QED BY <1>1, <2>1, <2>2, <2>3 DEF Tells
<1>9. ASSUME NEW to, NEW say, Tells(s, to, say), to \notin T PROVE Tells(c, to, say)
  <2>1. PICK k \in 1..m : s[k].to = to /\ s[k].say = say /\ \A j \in 1..m : j > k => s[j].to # to
    BY <1>9 DEF Tells, m
  <2>2. k \in 1..(m + n) /\ c[k] = s[k]
    BY <1>4
  <2>3. ASSUME NEW j \in 1..(m + n), j > k PROVE c[j].to # to
    <3>1. CASE j \in 1..m
      BY <1>4, <2>1, <2>3, <3>1
    <3>2. CASE j \notin 1..m
      BY <1>3, <1>6, <1>9, <3>2
    <3> QED BY <3>1, <3>2
  <2> QED BY <1>1, <2>1, <2>2, <2>3 DEF Tells
<1> QED BY <1>1, <1>7, <1>8, <1>9 DEF c

\* One call, or none.
LEMMA TellProperties ==
  ASSUME NEW call \in Call
  PROVE  /\ Tell(call.to, call.say) \in Seq(Call)
         /\ Only(Tell(call.to, call.say), {call.to})
         /\ Tells(Tell(call.to, call.say), call.to, call.say)
<1>1. [to |-> call.to, say |-> call.say] \in Call
  BY DEF Call
<1>2. Tell(call.to, call.say) \in Seq(Call)
  BY <1>1 DEF Tell
<1>3. Len(Tell(call.to, call.say)) = 1
      /\ Tell(call.to, call.say)[1] = [to |-> call.to, say |-> call.say]
  BY DEF Tell
<1> QED BY <1>2, <1>3 DEF Only, Tells

LEMMA NoCall == <<>> \in Seq(Call) /\ \A T : Only(<<>>, T)
BY EmptySeq DEF Only

-----------------------------------------------------------------------------
(* The calls of each form. *)

\* Whom a request calls.
Targets(form) ==
  CASE form \in {"excluded", "suitability", "exceptional"} -> {"checks"} \cup {"status"}
    [] form = "choice" -> {"status"} \cup {"optOut"}
    [] form = "postpone" -> {"status"} \cup {"postpone"}
    [] form = "refuse" -> {"status"} \cup {"refusal"}
    [] form \in {"release", "refuseReason"} -> {"status"} \cup {"release"}
    [] form = "reset" -> {"audit"} \cup {"reset"}
    [] OTHER -> {}

LEMMA PushStatusCalls ==
  ASSUME NEW form, NEW decision, NEW reason
  PROVE  LET status == ApprovalStatus(form, decision, reason)
             s == PushStatus(form, decision, reason)
         IN /\ s \in Seq(Call) /\ Only(s, {"status"})
            /\ status # "none" => Tells(s, "status", status)
<1> DEFINE status == ApprovalStatus(form, decision, reason)
<1>1. status \in Statuses
  BY DEF ApprovalStatus, Statuses
<1>2. CASE status = "none"
  <2>1. PushStatus(form, decision, reason) = <<>>
    BY <1>2 DEF PushStatus, If
  <2> QED BY <1>2, <2>1, NoCall
<1>3. CASE status # "none"
  <2> DEFINE call == [to |-> "status", say |-> status]
  <2>1. call \in Call /\ call.to = "status" /\ call.say = status
    BY <1>1, <1>3 DEF Call
  <2>2. PushStatus(form, decision, reason) = Tell("status", status)
    BY <1>3 DEF PushStatus, If
  <2> HIDE DEF call
  <2> QED BY <2>1, <2>2, TellProperties
<1> QED BY <1>2, <1>3

\* A call or none.
LEMMA IfCalls ==
  ASSUME NEW condition \in BOOLEAN, NEW to, NEW say,
         condition => [to |-> to, say |-> say] \in Call
  PROVE  LET s == If(condition, Tell(to, say))
         IN /\ s \in Seq(Call) /\ Only(s, {to})
            /\ condition => Tells(s, to, say)
            /\ ~condition => s = <<>>
<1>1. CASE condition
  <2> DEFINE call == [to |-> to, say |-> say]
  <2>1. call \in Call /\ call.to = to /\ call.say = say
    BY <1>1
  <2>2. If(condition, Tell(to, say)) = Tell(to, say)
    BY <1>1 DEF If
  <2> HIDE DEF call
  <2> QED BY <1>1, <2>1, <2>2, TellProperties
<1>2. CASE ~condition
  <2>1. If(condition, Tell(to, say)) = <<>>
    BY <1>2 DEF If
  <2> QED BY <1>2, <2>1, NoCall
<1> QED BY <1>1, <1>2

LEMMA TellCalls ==
  ASSUME NEW to, NEW say, [to |-> to, say |-> say] \in Call
  PROVE  LET s == Tell(to, say)
         IN s \in Seq(Call) /\ Only(s, {to}) /\ Tells(s, to, say)
<1> DEFINE call == [to |-> to, say |-> say]
<1>1. call \in Call /\ call.to = to /\ call.say = say
  OBVIOUS
<1> HIDE DEF call
<1> QED BY <1>1, TellProperties

\* pushChecksPassed
LEMMA PushChecksCalls ==
  ASSUME NEW form \in {"excluded", "suitability", "exceptional"}, NEW d \in [Questions -> Answer]
  PROVE  LET s == PushChecks(form, d)
         IN /\ s \in Seq(Call) /\ Only(s, {"checks"})
            /\ form = "excluded" /\ d["excluded"].decision = "Yes" => Tells(s, "checks", "N")
            /\ form = "suitability" /\ d["excluded"].decision = "No"
                 /\ d["suitability"].decision = "No" => Tells(s, "checks", "Y")
            /\ form = "exceptional" /\ d["exceptional"].decision = "Yes" => Tells(s, "checks", "Y")
<1>1. /\ [to |-> "checks", say |-> "N"] \in Call
      /\ [to |-> "checks", say |-> "Y"] \in Call
  BY DEF Call
<1>2. CASE form = "excluded"
  <2> DEFINE condition == d["excluded"].decision = "Yes"
  <2>1. PushChecks(form, d) = If(condition, Tell("checks", "N"))
    BY <1>2 DEF PushChecks
  <2>2. condition \in BOOLEAN
    OBVIOUS
  <2>3. LET s == If(condition, Tell("checks", "N"))
        IN s \in Seq(Call) /\ Only(s, {"checks"}) /\ (condition => Tells(s, "checks", "N"))
    <3> HIDE DEF condition
    <3> QED BY <1>1, <2>2, IfCalls
  <2> QED BY <1>2, <2>1, <2>3
<1>3. CASE form = "suitability"
  <2> DEFINE condition == d["excluded"].decision = "No" /\ d["suitability"].decision = "No"
  <2>1. PushChecks(form, d) = If(condition, Tell("checks", "Y"))
    BY <1>3 DEF PushChecks
  <2>2. condition \in BOOLEAN
    OBVIOUS
  <2>3. LET s == If(condition, Tell("checks", "Y"))
        IN s \in Seq(Call) /\ Only(s, {"checks"}) /\ (condition => Tells(s, "checks", "Y"))
    <3> HIDE DEF condition
    <3> QED BY <1>1, <2>2, IfCalls
  <2> QED BY <1>3, <2>1, <2>3
<1>4. CASE form = "exceptional"
  <2>1. PushChecks(form, d)
          = Tell("checks", IF d["exceptional"].decision = "Yes" THEN "Y" ELSE "N")
    BY <1>4 DEF PushChecks
  <2> QED BY <1>1, <1>4, <2>1, TellCalls
<1> QED BY <1>2, <1>3, <1>4

\* postOptOutEvent, postOptInEvent
LEMMA OptEventCalls ==
  ASSUME NEW before \in Answer, NEW a \in Answer
  PROVE  LET s == OptEvent(before, a)
         IN /\ s \in Seq(Call) /\ Only(s, {"optOut"})
            /\ a.decision = "Yes" => Tells(s, "optOut", "OPT_OUT")
            /\ a.decision = "No" => Tells(s, "optOut", "OPT_IN")
                                   \/ (before.decision = "No" /\ s = <<>>)
<1>1. /\ [to |-> "optOut", say |-> "OPT_OUT"] \in Call
      /\ [to |-> "optOut", say |-> "OPT_IN"] \in Call
  BY DEF Call
<1>2. CASE a.decision = "Yes"
  <2>1. OptEvent(before, a) = Tell("optOut", "OPT_OUT")
    BY <1>2 DEF OptEvent
  <2> QED BY <1>1, <1>2, <2>1, TellCalls
<1>3. CASE a.decision # "Yes"
  <2> DEFINE condition == before.decision # "No"
  <2>1. OptEvent(before, a) = If(condition, Tell("optOut", "OPT_IN"))
    BY <1>3 DEF OptEvent
  <2>2. condition \in BOOLEAN
    OBVIOUS
  <2> QED BY <1>1, <1>3, <2>1, <2>2, IfCalls
<1> QED BY <1>2, <1>3

\* postPostponeOrResumeEvent
LEMMA PostponeEventCalls ==
  ASSUME NEW before \in Answer, NEW a \in Answer
  PROVE  PostponeEvent(before, a) \in Seq(Call) /\ Only(PostponeEvent(before, a), {"postpone"})
<1>1. /\ [to |-> "postpone", say |-> "POSTPONE"] \in Call
      /\ [to |-> "postpone", say |-> "RESUME"] \in Call
  BY DEF Call
<1>2. CASE a.decision = "Yes"
  <2> DEFINE condition == before.decision # "Yes"
  <2>1. PostponeEvent(before, a) = If(condition, Tell("postpone", "POSTPONE"))
    BY <1>2 DEF PostponeEvent
  <2>2. condition \in BOOLEAN
    OBVIOUS
  <2> QED BY <1>1, <2>1, <2>2, IfCalls
<1>3. CASE a.decision # "Yes"
  <2> DEFINE condition == before.decision = "Yes"
  <2>1. PostponeEvent(before, a) = If(condition, Tell("postpone", "RESUME"))
    BY <1>3 DEF PostponeEvent
  <2>2. condition \in BOOLEAN
    OBVIOUS
  <2> HIDE DEF condition
  <2> QED BY <1>1, <2>1, <2>2, IfCalls
<1> QED BY <1>2, <1>3

\* processRefusal, postRefusal: a refusal is told unless it is what it was.
LEMMA RefuseEventCalls ==
  ASSUME NEW q \in {"refusal", "release"}, NEW refused, NEW before, NEW a,
         a.decision = refused => a.reason \in Reasons \ {"none"}
  PROVE  LET s == RefuseEvent(q, refused, before, a)
         IN /\ s \in Seq(Call) /\ Only(s, {q})
            /\ a.decision = refused => Tells(s, q, a.reason) \/ (before = a /\ s = <<>>)
<1> DEFINE condition == a.decision = refused /\ (before # a \/ a.reason = "several")
<1>1. RefuseEvent(q, refused, before, a) = If(condition, Tell(q, a.reason))
  BY DEF RefuseEvent
<1>2. condition \in BOOLEAN
  OBVIOUS
<1>3. condition => [to |-> q, say |-> a.reason] \in Call
  BY DEF Call
<1> QED BY <1>1, <1>2, <1>3, IfCalls

\* The answers a form can save are answers.
LEMMA InputsType ==
  ASSUME NEW form \in Forms, NEW a \in Inputs(form)
  PROVE  a \in Answer /\ QuestionOf(form) \in Questions
BY DEF Forms, Inputs, Answer, Reasons, Unanswered, Yes, No, QuestionOf, Questions

\* A valid refusal has a reason, and a valid decision of the decision maker the
\* status it is known by.
LEMMA ValidInputs ==
  ASSUME NEW form \in Forms, NEW a \in Inputs(form), Valid(form, a)
  PROVE  /\ a.decision \in {"Yes", "No"}
         /\ form = "refuse" /\ a.decision = "Yes" => a.reason \in Reasons \ {"none"}
         /\ form \in {"release", "refuseReason"} =>
              /\ a.decision = "No" => a.reason \in Reasons \ {"none"}
              /\ a.decision = "Yes" => ApprovalStatus(form, a.decision, a.reason) = "APPROVED"
              /\ a.decision = "No" /\ a.reason \in {"addressUnsuitable", "insufficientTime"}
                   => ApprovalStatus(form, a.decision, a.reason) = "REJECTED"
<1>1. a \in Answer
  BY InputsType
<1>2. a.decision \in {"Yes", "No"}
  BY <1>1 DEF Valid, Answer
<1>3. form = "refuse" => a.reason \in Reasons \ {"none"} \/ a.decision = "No"
  BY DEF Inputs, Yes, No, Reasons
<1>4. form \in {"release", "refuseReason"} /\ a.decision = "No" => a.reason \in Reasons \ {"none"}
  BY <1>1 DEF Valid, NeedsReason, Answer
<1>5. form = "release" /\ a.decision = "Yes" => a.reason = "none"
  BY DEF Inputs, Yes, No, Unanswered
<1>6. form = "refuseReason" => a.decision = "No"
  BY DEF Inputs, No
<1> QED BY <1>2, <1>3, <1>4, <1>5, <1>6 DEF ApprovalStatus

\* What the calls of a form say, by the answer that was saved.
Reported(form, s, d, a) ==
  /\ form = "excluded" /\ a.decision = "Yes" => Tells(s, "checks", "N")
  /\ form = "suitability" /\ a.decision = "No" /\ d["excluded"].decision = "No"
       => Tells(s, "checks", "Y")
  /\ form = "exceptional" /\ a.decision = "Yes" => Tells(s, "checks", "Y")
  /\ form = "choice" =>
       /\ a.decision = "Yes" => Tells(s, "optOut", "OPT_OUT")
       /\ a.decision = "No" => Tells(s, "optOut", "OPT_IN")
                              \/ (d["optOut"].decision = "No" /\ Only(s, {"status"}))
  /\ form = "refuse" /\ a.decision = "Yes"
       => Tells(s, "refusal", a.reason) \/ (d["refusal"] = a /\ Only(s, {"status"}))
  /\ form \in {"release", "refuseReason"} =>
       /\ a.decision = "No"
            => Tells(s, "release", a.reason) \/ (d["release"] = a /\ Only(s, {"status"}))
       /\ a.decision = "Yes" => Tells(s, "status", "APPROVED")
       /\ a.decision = "No" /\ a.reason \in {"addressUnsuitable", "insufficientTime"}
            => Tells(s, "status", "REJECTED")

LEMMA CallsOfForm ==
  ASSUME NEW form \in Forms, NEW a \in Inputs(form), Valid(form, a),
         NEW d \in [Questions -> Answer]
  PROVE  LET s == CallsOf(form, d, [d EXCEPT ![QuestionOf(form)] = a])
         IN s \in Seq(Call) /\ Only(s, Targets(form)) /\ Reported(form, s, d, a)
<1> DEFINE q == QuestionOf(form)
           e == [d EXCEPT ![q] = a]
           s == CallsOf(form, d, e)
<1>1. a \in Answer /\ q \in Questions
  BY InputsType
<1>2. e \in [Questions -> Answer] /\ e[q] = a /\ d[q] \in Answer
      /\ \A p \in Questions : p # q => e[p] = d[p]
  BY <1>1
<1>3. \A T : {"status"} \cup T = T \cup {"status"}
  OBVIOUS
<1>4. CASE form \in {"excluded", "suitability", "exceptional"}
  <2> DEFINE reason == IF form = "exceptional" THEN e["suitability"].reason ELSE a.reason
             front == PushChecks(form, e)
             back == PushStatus(form, a.decision, reason)
  <2>1. q = form
    BY <1>4 DEF QuestionOf
  <2>2. s = front \o back
    BY <1>2, <1>4, <2>1 DEF CallsOf
  <2>3. front \in Seq(Call) /\ Only(front, {"checks"})
    BY <1>2, <1>4, PushChecksCalls
  <2>4. back \in Seq(Call) /\ Only(back, {"status"})
    BY PushStatusCalls
  <2>5. /\ form = "excluded" /\ a.decision = "Yes" => Tells(front, "checks", "N")
        /\ form = "suitability" /\ a.decision = "No" /\ d["excluded"].decision = "No"
             => Tells(front, "checks", "Y")
        /\ form = "exceptional" /\ a.decision = "Yes" => Tells(front, "checks", "Y")
    <3>1. "excluded" \in Questions
      BY DEF Questions
    <3> QED BY <1>2, <1>4, <2>1, <3>1, PushChecksCalls
  <2> HIDE DEF front, back, s, reason
  <2>6. s \in Seq(Call) /\ Only(s, {"checks"} \cup {"status"})
        /\ \A say : Tells(front, "checks", say) => Tells(s, "checks", say)
    <3>1. s \in Seq(Call) /\ Only(s, {"checks"} \cup {"status"})
          /\ \A to, say : Tells(front, to, say) /\ to \notin {"status"} => Tells(s, to, say)
      BY <2>2, <2>3, <2>4, Joined
    <3>2. "checks" \notin {"status"}
      OBVIOUS
    <3> QED BY <3>1, <3>2
  <2> QED BY <1>4, <2>5, <2>6 DEF Targets, Reported, s
<1>5. CASE form = "choice"
  <2> DEFINE front == PushStatus(form, a.decision, a.reason)
             back == OptEvent(d[q], a)
  <2>1. q = "optOut"
    BY <1>5 DEF QuestionOf
  <2>2. s = front \o back
    BY <1>2, <1>5 DEF CallsOf
  <2>3. front \in Seq(Call) /\ Only(front, {"status"})
    BY PushStatusCalls
  <2>4. /\ back \in Seq(Call) /\ Only(back, {"optOut"})
        /\ a.decision = "Yes" => Tells(back, "optOut", "OPT_OUT")
        /\ a.decision = "No" => Tells(back, "optOut", "OPT_IN")
                               \/ (d["optOut"].decision = "No" /\ back = <<>>)
    BY <1>1, <1>2, <2>1, OptEventCalls
  <2> HIDE DEF front, back, s
  <2>5. s \in Seq(Call) /\ Only(s, {"status"} \cup {"optOut"})
        /\ \A say : Tells(back, "optOut", say) => Tells(s, "optOut", say)
    BY <2>2, <2>3, <2>4, Joined
  <2>6. back = <<>> => Only(s, {"status"})
    BY <2>2, <2>3, ConcatEmptySeq
  <2> QED BY <1>5, <2>4, <2>5, <2>6 DEF Targets, Reported, s
<1>6. CASE form = "postpone"
  <2> DEFINE front == PushStatus(form, a.decision, a.reason)
             back == PostponeEvent(d[q], a)
  <2>2. s = front \o back
    BY <1>2, <1>6 DEF CallsOf
  <2>3. front \in Seq(Call) /\ Only(front, {"status"})
    BY PushStatusCalls
  <2>4. back \in Seq(Call) /\ Only(back, {"postpone"})
    BY <1>1, <1>2, PostponeEventCalls
  <2> HIDE DEF front, back, s
  <2>5. s \in Seq(Call) /\ Only(s, {"status"} \cup {"postpone"})
    BY <2>2, <2>3, <2>4, Joined
  <2> QED BY <1>6, <2>5 DEF Targets, Reported, s
<1>7. CASE form = "refuse"
  <2> DEFINE front == PushStatus(form, a.decision, a.reason)
             back == RefuseEvent(q, "Yes", d[q], a)
  <2>1. q = "refusal"
    BY <1>7 DEF QuestionOf
  <2>2. s = front \o back
    BY <1>2, <1>7 DEF CallsOf
  <2>3. front \in Seq(Call) /\ Only(front, {"status"})
    BY PushStatusCalls
  <2>4. /\ back \in Seq(Call) /\ Only(back, {"refusal"})
        /\ a.decision = "Yes" => Tells(back, "refusal", a.reason)
                                \/ (d["refusal"] = a /\ back = <<>>)
    BY <1>7, <2>1, ValidInputs, RefuseEventCalls
  <2> HIDE DEF front, back, s
  <2>5. s \in Seq(Call) /\ Only(s, {"status"} \cup {"refusal"})
        /\ \A say : Tells(back, "refusal", say) => Tells(s, "refusal", say)
    BY <2>2, <2>3, <2>4, Joined
  <2>6. back = <<>> => Only(s, {"status"})
    BY <2>2, <2>3, ConcatEmptySeq
  <2> QED BY <1>7, <2>4, <2>5, <2>6 DEF Targets, Reported, s
<1>8. CASE form \in {"release", "refuseReason"}
  <2> DEFINE front == PushStatus(form, a.decision, a.reason)
             back == RefuseEvent(q, "No", d[q], a)
  <2>1. q = "release"
    BY <1>8 DEF QuestionOf
  <2>2. s = front \o back
    BY <1>2, <1>8 DEF CallsOf
  <2>3. front \in Seq(Call) /\ Only(front, {"status"})
    BY PushStatusCalls
  <2>4. /\ back \in Seq(Call) /\ Only(back, {"release"})
        /\ a.decision = "No" => Tells(back, "release", a.reason)
                               \/ (d["release"] = a /\ back = <<>>)
    BY <1>8, <2>1, ValidInputs, RefuseEventCalls
  <2>5. /\ a.decision = "Yes" => Tells(front, "status", "APPROVED")
        /\ a.decision = "No" /\ a.reason \in {"addressUnsuitable", "insufficientTime"}
             => Tells(front, "status", "REJECTED")
    BY <1>8, ValidInputs, PushStatusCalls
  <2> HIDE DEF front, back, s
  <2>6. s \in Seq(Call) /\ Only(s, {"status"} \cup {"release"})
        /\ (\A say : Tells(back, "release", say) => Tells(s, "release", say))
        /\ (\A say : Tells(front, "status", say) => Tells(s, "status", say))
    <3>1. s \in Seq(Call) /\ Only(s, {"status"} \cup {"release"})
          /\ (\A to, say : Tells(back, to, say) => Tells(s, to, say))
          /\ \A to, say : Tells(front, to, say) /\ to \notin {"release"} => Tells(s, to, say)
      BY <2>2, <2>3, <2>4, Joined
    <3>2. "status" \notin {"release"}
      OBVIOUS
    <3> QED BY <3>1, <3>2
  <2>7. back = <<>> => Only(s, {"status"})
    BY <2>2, <2>3, ConcatEmptySeq
  <2> QED BY <1>8, <2>4, <2>5, <2>6, <2>7 DEF Targets, Reported, s
<1> QED BY <1>4, <1>5, <1>6, <1>7, <1>8 DEF Forms

-----------------------------------------------------------------------------
(* Types, and what a request in progress is about. *)

Requests == [form : Forms \cup {"none", "reset"}, todo : Seq(Call)]

\* A request calls whom its form calls, while no page is in front of the user;
\* its form is not settled; and without a record there is nothing but resets.
Coherent ==
  /\ Only(request.todo, Targets(request.form))
  /\ request.form \notin settled
  /\ request.form = "none" => request.todo = <<>>
  /\ request.form # "none" => page = "none"
  /\ live => "reset" \notin settled /\ request.form # "reset"
  /\ ~live => /\ doc = [q \in Questions |-> Unanswered]
             /\ request.form \in {"none", "reset"}
             /\ settled \subseteq {"reset"}

BaseInv == TypeOK /\ Coherent

LEMMA NoRequestType ==
  /\ NoRequest \in Requests
  /\ NoRequest.form = "none" /\ NoRequest.todo = <<>>
BY EmptySeq DEF NoRequest, Requests

LEMMA BlankType == Unanswered \in Answer /\ [q \in Questions |-> Unanswered] \in [Questions -> Answer]
BY DEF Unanswered, Answer, Reasons

\* What sending a form does.
LEMMA Submitted ==
  ASSUME BaseInv, NEW form \in forms, NEW a \in Inputs(form), Submit(form, a)
  PROVE  /\ form \in Forms /\ QuestionOf(form) \in Questions /\ a \in Answer
         /\ request.form = "none" /\ request.todo = <<>> /\ live
         /\ doc' = [doc EXCEPT ![QuestionOf(form)] = a]
         /\ stage' \in {stage, "MODIFIED"}
         /\ settled' = settled \ {form}
         /\ UNCHANGED <<live, nomis, cvl, forms, failures>>
         /\ request' \in Requests
         /\ \/ /\ Valid(form, a) /\ request'.form = form /\ page' = "none"
               /\ Only(request'.todo, Targets(form))
               /\ Reported(form, request'.todo, doc, a)
            \/ ~Valid(form, a) /\ request' = NoRequest /\ page' = form
<1>1. form \in Forms
  BY ScopesAssumption DEF BaseInv, TypeOK
<1>2. QuestionOf(form) \in Questions /\ a \in Answer
  BY <1>1, InputsType
<1>3. request = NoRequest /\ live
  BY DEF Submit, Idle
<1>4. /\ doc' = [doc EXCEPT ![QuestionOf(form)] = a]
      /\ stage' \in {stage, "MODIFIED"}
      /\ settled' = settled \ {form}
      /\ UNCHANGED <<live, nomis, cvl, forms, failures>>
  BY DEF Submit, Save
<1>5. CASE Valid(form, a)
  <2>1. request' = [form |-> form, todo |-> CallsOf(form, doc, doc')] /\ page' = "none"
    BY <1>5 DEF Submit
  <2>2. doc \in [Questions -> Answer]
    BY DEF BaseInv, TypeOK
  <2> DEFINE s == CallsOf(form, doc, doc')
  <2>3. s \in Seq(Call) /\ Only(s, Targets(form)) /\ Reported(form, s, doc, a)
    BY <1>1, <1>4, <1>5, <2>2, CallsOfForm
  <2> HIDE DEF s
  <2>4. request'.form = form /\ request'.todo = s
    BY <2>1 DEF s
  <2>5. request' \in Requests
    BY <1>1, <2>1, <2>3 DEF Requests, s
  <2> QED BY <1>1, <1>2, <1>3, <1>4, <1>5, <2>1, <2>3, <2>4, <2>5, NoRequestType
<1>6. CASE ~Valid(form, a)
  BY <1>1, <1>2, <1>3, <1>4, <1>6, NoRequestType DEF Submit
<1> QED BY <1>5, <1>6

\* What a failed attempt to send one does.
LEMMA SubmissionFailed ==
  ASSUME BaseInv, NEW form \in forms, NEW a \in Inputs(form), SubmitFails(form, a)
  PROVE  /\ form \in Forms /\ QuestionOf(form) \in Questions /\ a \in Answer
         /\ request.form = "none" /\ request.todo = <<>> /\ live
         /\ doc' = [doc EXCEPT ![QuestionOf(form)] = a]
         /\ stage' \in {stage, "MODIFIED"}
         /\ settled' = settled \ {form}
         /\ page' = form
         /\ failures' = failures + 1 /\ failures < MaxFailures
         /\ UNCHANGED <<live, nomis, cvl, request, forms>>
<1>1. form \in Forms
  BY ScopesAssumption DEF BaseInv, TypeOK
<1>2. QuestionOf(form) \in Questions /\ a \in Answer
  BY <1>1, InputsType
<1> QED BY <1>1, <1>2, NoRequestType DEF SubmitFails, Save, Idle

\* What a call does, or one that fails with or without having been done.
LEMMA Applied ==
  ASSUME BaseInv, request.todo # <<>>
  PROVE  LET call == Head(request.todo)
         IN /\ call \in Call /\ call.to \in Targets(request.form)
            /\ request.form # "none" /\ page = "none"
            /\ Tail(request.todo) \in Seq(Call)
            /\ Only(Tail(request.todo), Targets(request.form))
            /\ Apply(call) =>
                 /\ nomis' \in [checks : {"null", "Y", "N"}, status : Statuses]
                 /\ cvl' \in [Questions -> Events]
                 /\ \A q \in Questions :
                      cvl'[q] = IF call.to = q THEN call.say ELSE cvl[q]
                 /\ call.to # "reset" =>
                      /\ nomis'.checks = IF call.to = "checks" THEN call.say ELSE nomis.checks
                      /\ nomis'.status = IF call.to = "status" THEN call.say ELSE nomis.status
                 /\ call.to = "reset" => nomis'.checks = "null"
<1> DEFINE call == Head(request.todo)
<1>1. call \in Call /\ call.to \in Targets(request.form)
      /\ Tail(request.todo) \in Seq(Call) /\ Only(Tail(request.todo), Targets(request.form))
  BY OnlyTail DEF BaseInv, TypeOK, Coherent
<1>2. request.form # "none" /\ page = "none"
  BY DEF BaseInv, Coherent
<1> HIDE DEF call
<1>3. ASSUME Apply(call)
      PROVE  /\ nomis' \in [checks : {"null", "Y", "N"}, status : Statuses]
             /\ call.to # "reset" =>
                  /\ nomis'.checks = IF call.to = "checks" THEN call.say ELSE nomis.checks
                  /\ nomis'.status = IF call.to = "status" THEN call.say ELSE nomis.status
             /\ call.to = "reset" => nomis'.checks = "null"
  <2>1. nomis \in [checks : {"null", "Y", "N"}, status : Statuses]
    BY DEF BaseInv, TypeOK
  <2>2. CASE call.to = "checks"
    <3>1. call.say \in {"Y", "N"}
      BY <1>1, <2>2 DEF Call
    <3> QED BY <1>3, <2>1, <2>2, <3>1 DEF Apply
  <2>3. CASE call.to = "status"
    <3>1. call.say \in Statuses
      BY <1>1, <2>3 DEF Call
    <3> QED BY <1>3, <2>1, <2>3, <3>1 DEF Apply
  <2>4. CASE call.to = "reset"
    <3>1. "none" \in Statuses
      BY DEF Statuses
    <3> QED BY <1>3, <2>1, <2>4, <3>1 DEF Apply
  <2>5. CASE call.to \notin {"checks", "status", "reset"}
    BY <1>3, <2>1, <2>5 DEF Apply
  <2> QED BY <2>2, <2>3, <2>4, <2>5
<1>4. ASSUME Apply(call)
      PROVE  /\ cvl' \in [Questions -> Events]
             /\ \A q \in Questions : cvl'[q] = IF call.to = q THEN call.say ELSE cvl[q]
  <2>1. cvl \in [Questions -> Events]
    BY DEF BaseInv, TypeOK
  <2>2. cvl' = IF call.to \in Questions THEN [cvl EXCEPT ![call.to] = call.say] ELSE cvl
    BY <1>4 DEF Apply
  <2>3. call.to \in Questions => call.say \in Events
    BY <1>1 DEF Call, Questions, Events, Reasons, Statuses
  <2> QED BY <2>1, <2>2, <2>3
<1> QED BY <1>1, <1>2, <1>3, <1>4 DEF call

LEMMA BaseInit == Init => BaseInv
<1> SUFFICES ASSUME Init PROVE BaseInv
  OBVIOUS
<1>1. TypeOK
  <2>1. request \in Requests
    BY NoRequestType DEF Init
  <2>2. "none" \in Events /\ "none" \in Statuses /\ "ELIGIBILITY" \in Stages
    BY DEF Events, Statuses, Stages
  <2>3. 0 \in 0..MaxFailures
    BY FailuresAssumption
  <2> QED BY <2>1, <2>2, <2>3, BlankType DEF Init, TypeOK, Requests
<1>2. Coherent
  BY NoRequestType, NoCall DEF Init, Coherent
<1> QED BY <1>1, <1>2 DEF BaseInv

LEMMA BaseStep == BaseInv /\ [Next]_vars => BaseInv'
<1> SUFFICES ASSUME BaseInv, [Next]_vars PROVE BaseInv'
  OBVIOUS
<1> USE NoRequestType
<1>a. "MODIFIED" \in Stages
  BY DEF Stages
<1>1. ASSUME NEW form \in forms, NEW a \in Inputs(form), Submit(form, a) PROVE BaseInv'
  <2>1. TypeOK'
    BY <1>1, <1>a, Submitted DEF BaseInv, TypeOK, Requests
  <2>2. Coherent'
    <3>1. form \notin {"none", "reset"}
      BY <1>1, Submitted DEF Forms
    <3> QED BY <1>1, <3>1, Submitted, NoCall DEF BaseInv, Coherent
  <2> QED BY <2>1, <2>2 DEF BaseInv
<1>2. ASSUME NEW form \in forms, NEW a \in Inputs(form), SubmitFails(form, a) PROVE BaseInv'
  <2>1. TypeOK'
    <3>1. failures' \in 0..MaxFailures
      BY <1>2, SubmissionFailed, FailuresAssumption DEF BaseInv, TypeOK
    <3> QED BY <1>2, <1>a, <3>1, SubmissionFailed DEF BaseInv, TypeOK
  <2>2. Coherent'
    BY <1>2, SubmissionFailed DEF BaseInv, Coherent
  <2> QED BY <2>1, <2>2 DEF BaseInv
<1>3. CASE CallSucceeds
  <2>1. /\ request.todo # <<>> /\ Apply(Head(request.todo))
        /\ request' = [request EXCEPT !.todo = Tail(@)]
        /\ UNCHANGED <<stage, doc, live, page, forms, settled, failures>>
    BY <1>3 DEF CallSucceeds
  <2>2. request'.form = request.form /\ request'.todo = Tail(request.todo)
        /\ request' \in Requests
    BY <2>1, Applied DEF BaseInv, TypeOK, Requests
  <2>3. TypeOK'
    BY <2>1, <2>2, Applied DEF BaseInv, TypeOK, Requests
  <2>4. Coherent'
    BY <2>1, <2>2, Applied DEF BaseInv, Coherent
  <2> QED BY <2>3, <2>4 DEF BaseInv
<1>4. CASE CallFails
  <2>1. /\ request.todo # <<>>
        /\ Apply(Head(request.todo)) \/ UNCHANGED <<nomis, cvl>>
        /\ request' = NoRequest
        /\ page' = IF request.form = "reset" THEN "taskList" ELSE request.form
        /\ failures < MaxFailures /\ failures' = failures + 1
        /\ UNCHANGED <<stage, doc, live, forms, settled>>
    BY <1>4 DEF CallFails
  <2>2. nomis' \in [checks : {"null", "Y", "N"}, status : Statuses] /\ cvl' \in [Questions -> Events]
    BY <2>1, Applied DEF BaseInv, TypeOK
  <2>3. page' \in Forms \cup {"none", "taskList", "crdTime", "send/decided"}
    BY <2>1, Applied DEF BaseInv, TypeOK
  <2>4. failures' \in 0..MaxFailures
    BY <2>1, FailuresAssumption DEF BaseInv, TypeOK
  <2>5. TypeOK'
    BY <2>1, <2>2, <2>3, <2>4 DEF BaseInv, TypeOK, Requests
  <2>6. Coherent'
    <3>1. "none" \notin settled
      BY DEF BaseInv, TypeOK, Forms
    <3> QED BY <2>1, <3>1, NoCall DEF BaseInv, Coherent
  <2> QED BY <2>5, <2>6 DEF BaseInv
<1>5. CASE Finish
  <2>1. /\ request.form # "none"
        /\ settled' = settled \cup {request.form}
        /\ request' = NoRequest
        /\ UNCHANGED <<stage, doc, live, nomis, cvl, forms, failures>>
    <3>1. request.form = "none" => request = NoRequest
      BY DEF BaseInv, TypeOK, Coherent, NoRequest
    <3> QED BY <1>5, <3>1 DEF Finish, Idle
  <2>2. page' \in Forms \cup {"none", "taskList", "crdTime", "send/decided"}
    BY <1>5 DEF Finish, NextPage, Forms
  <2>3. TypeOK'
    BY <2>1, <2>2 DEF BaseInv, TypeOK, Requests
  <2>4. Coherent'
    <3>1. "none" \notin settled'
      BY <2>1 DEF BaseInv, TypeOK, Forms
    <3> QED BY <2>1, <3>1, NoCall DEF BaseInv, Coherent
  <2> QED BY <2>3, <2>4 DEF BaseInv
<1>6. ASSUME NEW t \in Transitions, Handover(t) PROVE BaseInv'
  <2>1. t.to \in Stages
    BY DEF Transitions, Stages
  <2>2. doc' \in [Questions -> Answer]
    BY <1>6, BlankType DEF Handover, BaseInv, TypeOK
  <2>3. /\ live /\ stage' = t.to /\ page' = "taskList"
        /\ UNCHANGED <<live, nomis, cvl, request, forms, settled, failures>>
        /\ request = NoRequest
    BY <1>6 DEF Handover, Idle
  <2>4. TypeOK'
    BY <2>1, <2>2, <2>3 DEF BaseInv, TypeOK
  <2>5. Coherent'
    BY <2>3 DEF BaseInv, Coherent
  <2> QED BY <2>4, <2>5 DEF BaseInv
<1>7. CASE Reset
  <2>1. /\ ~live' /\ doc' = [q \in Questions |-> Unanswered] /\ stage' = "ELIGIBILITY"
        /\ settled' = {} /\ page' = "none"
        /\ request' = [form |-> "reset", todo |-> Tell("audit", "none") \o Tell("reset", "none")]
        /\ UNCHANGED <<nomis, cvl, forms, failures>> /\ live' = FALSE
    BY <1>7 DEF Reset
  <2>2. /\ Tell("audit", "none") \o Tell("reset", "none") \in Seq(Call)
        /\ Only(Tell("audit", "none") \o Tell("reset", "none"), {"audit"} \cup {"reset"})
    <3>1. [to |-> "audit", say |-> "none"] \in Call /\ [to |-> "reset", say |-> "none"] \in Call
      BY DEF Call
    <3> QED BY <3>1, TellCalls, Joined
  <2>3. request'.form = "reset"
        /\ request'.todo = Tell("audit", "none") \o Tell("reset", "none")
        /\ request' \in Requests
    BY <2>1, <2>2 DEF Requests
  <2>4. Targets("reset") = {"audit"} \cup {"reset"}
    BY DEF Targets
  <2>5. TypeOK'
    <3>1. "ELIGIBILITY" \in Stages
      BY DEF Stages
    <3> QED BY <2>1, <2>3, <3>1, BlankType DEF BaseInv, TypeOK, Requests
  <2>6. Coherent'
    BY <2>1, <2>2, <2>3, <2>4 DEF Coherent
  <2> QED BY <2>5, <2>6 DEF BaseInv
<1>8. CASE Start
  <2>1. /\ request = NoRequest /\ live' = TRUE /\ page' = "excluded" /\ settled' = {}
        /\ cvl' = [q \in Questions |-> "none"]
        /\ UNCHANGED <<stage, doc, nomis, request, forms, failures>>
    BY <1>8 DEF Start, Idle
  <2>2. TypeOK'
    <3>1. "none" \in Events /\ "excluded" \in Forms
      BY DEF Events, Forms
    <3> QED BY <2>1, <3>1 DEF BaseInv, TypeOK
  <2>3. Coherent'
    BY <2>1, NoCall DEF BaseInv, Coherent
  <2> QED BY <2>2, <2>3 DEF BaseInv
<1>9. CASE UNCHANGED vars
  BY <1>9 DEF vars, BaseInv, TypeOK, Coherent
<1> QED BY <1>1, <1>2, <1>3, <1>4, <1>5, <1>6, <1>7, <1>8, <1>9 DEF Next

\* Every reachable state of the reporting of a case is well typed: in particular
\* no call is made without something to say.
THEOREM TypeCorrect == Spec => []TypeOK
<1>1. Spec => []BaseInv
  BY BaseInit, BaseStep, PTL DEF Spec
<1> QED BY <1>1, PTL DEF BaseInv

-----------------------------------------------------------------------------
(* Steps, as the properties see them. *)

LEMMA DocSaved ==
  ASSUME BaseInv, NEW form \in Forms, NEW a, doc' = [doc EXCEPT ![QuestionOf(form)] = a]
  PROVE  \A q \in Questions : doc'[q] = IF q = QuestionOf(form) THEN a ELSE doc[q]
BY DEF BaseInv, TypeOK

\* A call that succeeds brings about what was pending.
LEMMA CallMade ==
  ASSUME BaseInv, CallSucceeds
  PROVE  /\ UNCHANGED <<stage, doc, live, page, forms, settled, failures>>
         /\ request'.form = request.form /\ request.form # "none" /\ page = "none"
         /\ \A q \in Questions : \A say :
              Pending(request.todo, q, say, cvl[q]) => Pending(request'.todo, q, say, cvl'[q])
         /\ \A q \in Questions : q \notin Targets(request.form) => cvl'[q] = cvl[q]
         /\ request.form # "reset" =>
              /\ \A say : Pending(request.todo, "checks", say, nomis.checks)
                           => Pending(request'.todo, "checks", say, nomis'.checks)
              /\ \A say : Pending(request.todo, "status", say, nomis.status)
                           => Pending(request'.todo, "status", say, nomis'.status)
              /\ "checks" \notin Targets(request.form) => nomis'.checks = nomis.checks
<1> DEFINE call == Head(request.todo)
<1>1. /\ request.todo # <<>> /\ Apply(call)
      /\ request' = [request EXCEPT !.todo = Tail(@)]
      /\ UNCHANGED <<stage, doc, live, page, forms, settled, failures>>
  BY DEF CallSucceeds
<1>2. request'.form = request.form /\ request'.todo = Tail(request.todo)
      /\ request.todo \in Seq(Call)
  BY <1>1 DEF BaseInv, TypeOK
<1>3. /\ call.to \in Targets(request.form) /\ request.form # "none" /\ page = "none"
      /\ \A q \in Questions : cvl'[q] = IF call.to = q THEN call.say ELSE cvl[q]
      /\ call.to # "reset" =>
           /\ nomis'.checks = IF call.to = "checks" THEN call.say ELSE nomis.checks
           /\ nomis'.status = IF call.to = "status" THEN call.say ELSE nomis.status
  BY <1>1, Applied
<1>4. request.form # "reset" => call.to # "reset"
  BY <1>3 DEF Targets
<1>5. \A to, say, v : Pending(request.todo, to, say, v)
        => Pending(request'.todo, to, say, IF call.to = to THEN call.say ELSE v)
  BY <1>1, <1>2, PendingCall
<1> HIDE DEF call
<1>6. \A q \in Questions : \A say :
        Pending(request.todo, q, say, cvl[q]) => Pending(request'.todo, q, say, cvl'[q])
  BY <1>3, <1>5
<1>7. ASSUME request.form # "reset"
      PROVE  /\ \A say : Pending(request.todo, "checks", say, nomis.checks)
                           => Pending(request'.todo, "checks", say, nomis'.checks)
             /\ \A say : Pending(request.todo, "status", say, nomis.status)
                           => Pending(request'.todo, "status", say, nomis'.status)
             /\ "checks" \notin Targets(request.form) => nomis'.checks = nomis.checks
  BY <1>3, <1>4, <1>5, <1>7
<1> QED BY <1>1, <1>2, <1>3, <1>6, <1>7

\* A call that fails ends the request; what it is not about stays as it is.
LEMMA CallLost ==
  ASSUME BaseInv, CallFails
  PROVE  /\ request' = NoRequest /\ request'.form = "none" /\ request'.todo = <<>>
         /\ page' = IF request.form = "reset" THEN "taskList" ELSE request.form
         /\ request.form # "none"
         /\ failures \in Nat /\ failures' = failures + 1
         /\ UNCHANGED <<stage, doc, live, forms, settled>>
         /\ \A q \in Questions : q \notin Targets(request.form) => cvl'[q] = cvl[q]
         /\ request.form # "reset" /\ "checks" \notin Targets(request.form)
              => nomis'.checks = nomis.checks
<1> DEFINE call == Head(request.todo)
<1>1. /\ request.todo # <<>>
      /\ Apply(call) \/ UNCHANGED <<nomis, cvl>>
      /\ request' = NoRequest
      /\ page' = IF request.form = "reset" THEN "taskList" ELSE request.form
      /\ failures' = failures + 1
      /\ UNCHANGED <<stage, doc, live, forms, settled>>
  BY DEF CallFails
<1>2. /\ call.to \in Targets(request.form) /\ request.form # "none"
      /\ Apply(call) =>
           /\ \A q \in Questions : cvl'[q] = IF call.to = q THEN call.say ELSE cvl[q]
           /\ call.to # "reset" =>
                nomis'.checks = IF call.to = "checks" THEN call.say ELSE nomis.checks
  BY <1>1, Applied
<1>3. request.form # "reset" => call.to # "reset"
  BY <1>2 DEF Targets
<1>4. failures \in Nat
  BY FailuresAssumption DEF BaseInv, TypeOK
<1> HIDE DEF call
<1> QED BY <1>1, <1>2, <1>3, <1>4, NoRequestType

\* The end of a request: nothing is pending any more.
LEMMA Finished ==
  ASSUME BaseInv, Finish
  PROVE  /\ request.form # "none" /\ request.todo = <<>>
         /\ \A to, say, v : Pending(request.todo, to, say, v) => v = say
         /\ request' = NoRequest /\ request'.form = "none" /\ request'.todo = <<>>
         /\ settled' = settled \cup {request.form}
         /\ page' = IF request.form = "reset" THEN "taskList"
                    ELSE NextPage(request.form, doc[QuestionOf(request.form)])
         /\ UNCHANGED <<stage, doc, live, nomis, cvl, forms, failures>>
<1>1. request.form # "none"
  <2>1. request.form = "none" => request = NoRequest
    BY DEF BaseInv, TypeOK, Coherent, NoRequest
  <2> QED BY <2>1 DEF Finish, Idle
<1> QED BY <1>1, PendingNone, NoRequestType DEF Finish

\* A handover takes back at most a decision.
LEMMA HandedOver ==
  ASSUME BaseInv, NEW t \in Transitions, Handover(t)
  PROVE  /\ request.form = "none" /\ request.todo = <<>>
         /\ stage = t.from /\ stage' = t.to /\ page' = "taskList"
         /\ t.to = "DECIDED" => page = "send/decided"
         /\ \A q \in Questions : doc'[q] = doc[q] \/ (q = "release" /\ doc'[q] = Unanswered)
         /\ UNCHANGED <<live, nomis, cvl, request, forms, settled, failures>>
<1>1. doc \in [Questions -> Answer]
  BY DEF BaseInv, TypeOK
<1> QED BY <1>1, NoRequestType DEF Handover, Idle

LEMMA Blank ==
  /\ Unanswered.decision = "None"
  /\ \A q \in Questions : [p \in Questions |-> Unanswered][q] = Unanswered
BY DEF Unanswered

\* A reset leaves no record and a request of its own.
LEMMA WasReset ==
  ASSUME BaseInv, Reset
  PROVE  /\ \A q \in Questions : doc'[q].decision = "None"
         /\ settled' = {} /\ page' = "none" /\ request'.form = "reset"
         /\ Tells(request'.todo, "reset", "none")
         /\ UNCHANGED <<nomis, cvl, forms, failures>>
<1>1. [to |-> "audit", say |-> "none"] \in Call /\ [to |-> "reset", say |-> "none"] \in Call
  BY DEF Call
<1>2. Tells(Tell("audit", "none") \o Tell("reset", "none"), "reset", "none")
  BY <1>1, TellCalls, Joined
<1> QED BY <1>2, Blank DEF Reset

\* A new record is blank.
LEMMA Started ==
  ASSUME BaseInv, Start
  PROVE  /\ \A q \in Questions : doc'[q].decision = "None"
         /\ request.form = "none" /\ request.todo = <<>>
         /\ settled' = {} /\ page' = "excluded"
         /\ UNCHANGED <<stage, doc, nomis, request, forms, failures>>
BY Blank, NoRequestType DEF Start, Idle, BaseInv, Coherent

-----------------------------------------------------------------------------
(* The checks. *)

ChecksInv ==
  /\ page \in {"suitability", "exceptional"} => doc["excluded"].decision = "No"
  /\ request.form \in {"suitability", "exceptional"} => doc["excluded"].decision = "No"
  /\ page = "crdTime" => nomis.checks = "Y"
  /\ request.form = "excluded" /\ doc["excluded"].decision = "Yes"
       => Pending(request.todo, "checks", "N", nomis.checks)
  /\ request.form = "suitability" /\ doc["suitability"].decision = "No"
       => Pending(request.todo, "checks", "Y", nomis.checks)
  /\ request.form = "exceptional" /\ doc["exceptional"].decision = "Yes"
       => Pending(request.todo, "checks", "Y", nomis.checks)
  /\ "excluded" \in settled /\ doc["excluded"].decision = "Yes" => nomis.checks = "N"

LEMMA ChecksInit == Init => ChecksInv
BY NoRequestType DEF Init, ChecksInv

LEMMA ChecksStep ==
  ASSUME BaseInv, ChecksInv, [Next]_vars
  PROVE  ChecksInv'
<1>q. {"excluded", "suitability", "exceptional"} \subseteq Questions
  BY DEF Questions
<1>f. \A form \in Forms :
        /\ QuestionOf(form) = "excluded" <=> form = "excluded"
        /\ QuestionOf(form) = "suitability" <=> form = "suitability"
        /\ QuestionOf(form) = "exceptional" <=> form = "exceptional"
  BY DEF QuestionOf, Forms
<1>o. ASSUME NEW form \in {"suitability", "exceptional"}, Offered(form)
      PROVE  doc["excluded"].decision = "No"
  <2>1. OfferedAt(form) = {}
    BY DEF OfferedAt
  <2> QED BY <1>o, <2>1 DEF Offered, ChecksInv
<1>1. ASSUME NEW form \in forms, NEW a \in Inputs(form), Submit(form, a) PROVE ChecksInv'
  <2>1. \A q \in Questions : doc'[q] = IF q = QuestionOf(form) THEN a ELSE doc[q]
    BY <1>1, Submitted, DocSaved
  <2>2. form \in {"suitability", "exceptional"} => doc'["excluded"].decision = "No"
    BY <1>1, <1>q, <1>f, <1>o, <2>1, Submitted DEF Submit
  <2>3. "excluded" \in settled' /\ doc'["excluded"].decision = "Yes" => nomis'.checks = "N"
    BY <1>1, <1>q, <1>f, <2>1, Submitted DEF ChecksInv
  <2>4. form \in Forms /\ doc'[QuestionOf(form)] = a /\ nomis' = nomis
    BY <1>1, <2>1, Submitted
  <2>5. CASE Valid(form, a)
    <3>1. request'.form = form /\ page' = "none" /\ Reported(form, request'.todo, doc, a)
      <4>1. form # "none"
        BY <2>4 DEF Forms
      <4> QED BY <1>1, <2>5, <4>1, Submitted, NoRequestType
    <3>2. form = "excluded" /\ a.decision = "Yes" => Tells(request'.todo, "checks", "N")
      BY <3>1 DEF Reported
    <3>3. form = "suitability" /\ a.decision = "No" => Tells(request'.todo, "checks", "Y")
      <4>1. form = "suitability" => doc["excluded"].decision = "No"
        BY <1>q, <1>f, <2>1, <2>2, <2>4
      <4> QED BY <3>1, <4>1 DEF Reported
    <3>4. form = "exceptional" /\ a.decision = "Yes" => Tells(request'.todo, "checks", "Y")
      BY <3>1 DEF Reported
    <3> QED BY <1>f, <2>2, <2>3, <2>4, <3>1, <3>2, <3>3, <3>4 DEF ChecksInv, Pending
  <2>6. CASE ~Valid(form, a)
    <3>1. request'.form = "none" /\ page' = form
      BY <1>1, <2>6, Submitted, NoRequestType
    <3>2. form # "crdTime"
      BY <2>4 DEF Forms
    <3> QED BY <2>2, <2>3, <3>1, <3>2 DEF ChecksInv
  <2> QED BY <2>5, <2>6
<1>2. ASSUME NEW form \in forms, NEW a \in Inputs(form), SubmitFails(form, a) PROVE ChecksInv'
  <2>1. \A q \in Questions : doc'[q] = IF q = QuestionOf(form) THEN a ELSE doc[q]
    BY <1>2, SubmissionFailed, DocSaved
  <2>2. form \in {"suitability", "exceptional"} => doc'["excluded"].decision = "No"
    BY <1>2, <1>q, <1>f, <1>o, <2>1, SubmissionFailed DEF SubmitFails
  <2>3. "excluded" \in settled' /\ doc'["excluded"].decision = "Yes" => nomis'.checks = "N"
    BY <1>2, <1>q, <1>f, <2>1, SubmissionFailed DEF ChecksInv
  <2>4. request'.form = "none" /\ page' = form /\ form # "crdTime"
    BY <1>2, SubmissionFailed DEF Forms
  <2> QED BY <2>2, <2>3, <2>4 DEF ChecksInv
<1>3. CASE CallSucceeds
  <2>1. CASE request.form # "reset"
    <3>1. /\ UNCHANGED <<doc, page, settled>> /\ request'.form = request.form /\ page = "none"
          /\ \A say : Pending(request.todo, "checks", say, nomis.checks)
                       => Pending(request'.todo, "checks", say, nomis'.checks)
          /\ "checks" \notin Targets(request.form) => nomis'.checks = nomis.checks
      BY <1>3, <2>1, CallMade
    <3>2. "excluded" \in settled /\ doc["excluded"].decision = "Yes"
            => "checks" \notin Targets(request.form)
      BY DEF BaseInv, Coherent, ChecksInv, Targets
    <3> QED BY <3>1, <3>2 DEF ChecksInv
  <2>2. CASE request.form = "reset"
    <3>1. settled \subseteq {"reset"}
      BY <2>2 DEF BaseInv, Coherent
    <3> QED BY <1>3, <2>2, <3>1, CallMade DEF ChecksInv
  <2> QED BY <2>1, <2>2
<1>4. CASE CallFails
  <2>1. /\ request'.form = "none" /\ UNCHANGED <<doc, settled>>
        /\ page' = IF request.form = "reset" THEN "taskList" ELSE request.form
        /\ request.form # "reset" /\ "checks" \notin Targets(request.form)
             => nomis'.checks = nomis.checks
    BY <1>4, CallLost
  <2>2. "excluded" \in settled /\ doc["excluded"].decision = "Yes"
          => request.form # "reset" /\ "checks" \notin Targets(request.form)
    BY DEF BaseInv, Coherent, ChecksInv, Targets
  <2>3. request.form # "crdTime"
    BY DEF BaseInv, TypeOK, Forms
  <2> QED BY <2>1, <2>2, <2>3 DEF ChecksInv
<1>5. CASE Finish
  <2>1. /\ \A to, say, v : Pending(request.todo, to, say, v) => v = say
        /\ request'.form = "none" /\ UNCHANGED <<doc, nomis>>
        /\ settled' = settled \cup {request.form}
        /\ page' = IF request.form = "reset" THEN "taskList"
                   ELSE NextPage(request.form, doc[QuestionOf(request.form)])
    BY <1>5, Finished
  <2>2. page' \in {"suitability", "exceptional"} => doc["excluded"].decision = "No"
    BY <2>1 DEF NextPage, QuestionOf, ChecksInv
  <2>3. page' = "crdTime" => nomis.checks = "Y"
    BY <2>1 DEF NextPage, QuestionOf, ChecksInv
  <2>4. "excluded" \in settled' /\ doc["excluded"].decision = "Yes" => nomis.checks = "N"
    BY <2>1 DEF ChecksInv
  <2> QED BY <2>1, <2>2, <2>3, <2>4 DEF ChecksInv
<1>6. ASSUME NEW t \in Transitions, Handover(t) PROVE ChecksInv'
  <2>1. doc'["excluded"] = doc["excluded"]
    BY <1>6, <1>q, HandedOver
  <2> QED BY <1>6, <2>1, HandedOver DEF ChecksInv
<1>7. CASE Reset
  BY <1>7, <1>q, WasReset DEF ChecksInv
<1>8. CASE Start
  BY <1>8, <1>q, Started DEF ChecksInv
<1>9. CASE UNCHANGED vars
  BY <1>9 DEF vars, ChecksInv
<1> QED BY <1>1, <1>2, <1>3, <1>4, <1>5, <1>6, <1>7, <1>8, <1>9 DEF Next

\* Whatever forms a case is about and however many calls fail: the way to a
\* release date leads past NOMIS knowing that the checks are passed, and an
\* exclusion that went through is known there.
THEOREM ChecksAlwaysTold == Spec => []ChecksTold
<1>1. Init => BaseInv /\ ChecksInv
  BY BaseInit, ChecksInit
<1>2. (BaseInv /\ ChecksInv) /\ [Next]_vars => (BaseInv /\ ChecksInv)'
  BY BaseStep, ChecksStep
<1>3. ChecksInv => ChecksTold
  BY DEF ChecksInv, ChecksTold
<1> QED BY <1>1, <1>2, <1>3, PTL DEF Spec

-----------------------------------------------------------------------------
(* The reset. *)

\* What the reset has come to.
Cleared == IF nomis.checks = "null" THEN "none" ELSE "to do"

ResetInv ==
  /\ request.form = "reset" => Pending(request.todo, "reset", "none", Cleared)
  /\ "reset" \in settled => nomis.checks = "null"

LEMMA ResetInit == Init => ResetInv
BY NoRequestType DEF Init, ResetInv

LEMMA ResetStep ==
  ASSUME BaseInv, ResetInv, [Next]_vars
  PROVE  ResetInv'
<1>a. "reset" \in settled => request.form = "none" /\ request.todo = <<>>
  BY DEF BaseInv, Coherent
<1>1. ASSUME NEW form \in forms, NEW a \in Inputs(form), Submit(form, a) PROVE ResetInv'
  <2>1. form \in Forms /\ live /\ "reset" \notin settled
    BY <1>1, Submitted DEF BaseInv, Coherent
  <2>2. request'.form # "reset" /\ "reset" \notin settled'
    BY <1>1, <2>1, Submitted, NoRequestType DEF Forms
  <2> QED BY <2>2 DEF ResetInv
<1>2. ASSUME NEW form \in forms, NEW a \in Inputs(form), SubmitFails(form, a) PROVE ResetInv'
  BY <1>2, SubmissionFailed DEF BaseInv, Coherent, ResetInv
<1>3. CASE CallSucceeds
  <2>1. /\ request.todo # <<>> /\ Apply(Head(request.todo))
        /\ request' = [request EXCEPT !.todo = Tail(@)]
        /\ settled' = settled
    BY <1>3 DEF CallSucceeds
  <2>2. request'.form = request.form /\ request'.todo = Tail(request.todo)
        /\ request.todo \in Seq(Call)
    BY <2>1 DEF BaseInv, TypeOK
  <2>3. ASSUME request.form = "reset" PROVE Pending(request'.todo, "reset", "none", Cleared')
    <3> DEFINE call == Head(request.todo)
    <3>1. /\ call \in Call /\ call.to \in {"audit", "reset"}
          /\ call.to # "reset" =>
               nomis'.checks = IF call.to = "checks" THEN call.say ELSE nomis.checks
          /\ call.to = "reset" => nomis'.checks = "null"
      BY <2>1, <2>3, Applied DEF Targets
    <3>2. Pending(request'.todo, "reset", "none", IF call.to = "reset" THEN call.say ELSE Cleared)
      BY <2>1, <2>2, <2>3, PendingCall DEF ResetInv
    <3> HIDE DEF call
    <3>3. call.to = "reset" => call.say = "none"
      BY <3>1 DEF Call
    <3>4. Cleared' = IF call.to = "reset" THEN call.say ELSE Cleared
      BY <3>1, <3>3 DEF Cleared
    <3> QED BY <3>2, <3>4
  <2>4. "reset" \notin settled
    BY <1>a, <2>1
  <2> QED BY <2>1, <2>2, <2>3, <2>4 DEF ResetInv
<1>4. CASE CallFails
  <2>1. "reset" \notin settled
    BY <1>4, <1>a, CallLost
  <2> QED BY <1>4, <2>1, CallLost DEF ResetInv
<1>5. CASE Finish
  <2>1. request.form = "reset" => nomis.checks = "null"
    BY <1>5, Finished DEF ResetInv, Cleared
  <2> QED BY <1>5, <2>1, Finished DEF ResetInv
<1>6. ASSUME NEW t \in Transitions, Handover(t) PROVE ResetInv'
  BY <1>6, HandedOver DEF ResetInv
<1>7. CASE Reset
  BY <1>7, WasReset DEF ResetInv, Pending
<1>8. CASE Start
  BY <1>8, Started DEF ResetInv
<1>9. CASE UNCHANGED vars
  BY <1>9 DEF vars, ResetInv, Cleared
<1> QED BY <1>1, <1>2, <1>3, <1>4, <1>5, <1>6, <1>7, <1>8, <1>9 DEF Next

\* However many resets fail half way, one that was reported as done has cleared
\* the checks.
THEOREM ResetAlwaysTold == Spec => []ResetTold
<1>1. Init => BaseInv /\ ResetInv
  BY BaseInit, ResetInit
<1>2. (BaseInv /\ ResetInv) /\ [Next]_vars => (BaseInv /\ ResetInv)'
  BY BaseStep, ResetStep
<1>3. ResetInv => ResetTold
  BY DEF ResetInv, ResetTold
<1> QED BY <1>1, <1>2, <1>3, PTL DEF Spec

-----------------------------------------------------------------------------
(* Opting out and in. *)

OptInv ==
  /\ request.form = "choice" /\ doc["optOut"].decision = "Yes"
       => Pending(request.todo, "optOut", "OPT_OUT", cvl["optOut"])
  /\ "choice" \in settled /\ doc["optOut"].decision = "Yes" => cvl["optOut"] = "OPT_OUT"
  /\ failures = 0 /\ doc["optOut"].decision = "No"
       => Pending(request.todo, "optOut", "OPT_IN", cvl["optOut"])

LEMMA OptInit == Init => OptInv
<1>1. "optOut" \in Questions
  BY DEF Questions
<1> QED BY <1>1, NoRequestType, Blank DEF Init, OptInv

LEMMA OptStep ==
  ASSUME BaseInv, OptInv, [Next]_vars
  PROVE  OptInv'
<1>q. "optOut" \in Questions
  BY DEF Questions
<1>f. \A form \in Forms : QuestionOf(form) = "optOut" <=> form = "choice"
  BY DEF QuestionOf, Forms
<1>t. \A form : form # "choice" => "optOut" \notin Targets(form)
  BY DEF Targets
<1>b. BaseInv'
  BY BaseStep
<1>1. ASSUME NEW form \in forms, NEW a \in Inputs(form), Submit(form, a) PROVE OptInv'
  <2>1. form \in Forms /\ doc'["optOut"] = IF form = "choice" THEN a ELSE doc["optOut"]
    <3>1. form \in Forms /\ \A q \in Questions : doc'[q] = IF q = QuestionOf(form) THEN a ELSE doc[q]
      BY <1>1, Submitted, DocSaved
    <3>2. doc'["optOut"] = IF "optOut" = QuestionOf(form) THEN a ELSE doc["optOut"]
      BY <1>q, <3>1
    <3> QED BY <1>f, <3>1, <3>2
  <2>2. /\ cvl' = cvl /\ failures' = failures /\ settled' = settled \ {form}
        /\ request.form = "none" /\ request.todo = <<>>
        /\ request'.form \in {form, "none"}
    BY <1>1, Submitted, NoRequestType
  <2>3. CASE form = "choice"
    <3>1. Valid(form, a) /\ a.decision \in {"Yes", "No"}
      BY <2>3 DEF Inputs, Valid, NeedsReason, Yes, No
    <3>2. Reported(form, request'.todo, doc, a)
      BY <1>1, <3>1, Submitted
    <3>3. a.decision = "Yes" => Pending(request'.todo, "optOut", "OPT_OUT", cvl["optOut"])
      BY <2>3, <3>2 DEF Reported, Pending
    <3>4. failures = 0 /\ a.decision = "No" => Pending(request'.todo, "optOut", "OPT_IN", cvl["optOut"])
      <4> SUFFICES ASSUME failures = 0, a.decision = "No"
                   PROVE  Pending(request'.todo, "optOut", "OPT_IN", cvl["optOut"])
        OBVIOUS
      <4>1. CASE Tells(request'.todo, "optOut", "OPT_IN")
        BY <4>1 DEF Pending
      <4>2. CASE doc["optOut"].decision = "No" /\ Only(request'.todo, {"status"})
        <5>1. cvl["optOut"] = "OPT_IN"
          BY <2>2, <4>2, PendingNone DEF OptInv
        <5>2. "optOut" \notin {"status"}
          OBVIOUS
        <5> QED BY <4>2, <5>1, <5>2, PendingOthers
      <4> QED BY <2>3, <3>2, <4>1, <4>2 DEF Reported
    <3> QED BY <2>1, <2>2, <2>3, <3>3, <3>4 DEF OptInv
  <2>4. CASE form # "choice"
    <3>1. Only(request'.todo, Targets(request'.form)) /\ "optOut" \notin Targets(request'.form)
      BY <1>b, <1>t, <2>2, <2>4 DEF BaseInv, Coherent
    <3>2. failures = 0 /\ doc["optOut"].decision = "No" => cvl["optOut"] = "OPT_IN"
      BY <2>2, PendingNone DEF OptInv
    <3>3. Pending(request'.todo, "optOut", "OPT_IN", "OPT_IN")
      BY <3>1, PendingOthers
    <3> QED BY <2>1, <2>2, <2>4, <3>2, <3>3 DEF OptInv
  <2> QED BY <2>3, <2>4
<1>2. ASSUME NEW form \in forms, NEW a \in Inputs(form), SubmitFails(form, a) PROVE OptInv'
  <2>1. form \in Forms /\ doc'["optOut"] = IF form = "choice" THEN a ELSE doc["optOut"]
    <3>1. form \in Forms /\ \A q \in Questions : doc'[q] = IF q = QuestionOf(form) THEN a ELSE doc[q]
      BY <1>2, SubmissionFailed, DocSaved
    <3>2. doc'["optOut"] = IF "optOut" = QuestionOf(form) THEN a ELSE doc["optOut"]
      BY <1>q, <3>1
    <3> QED BY <1>f, <3>1, <3>2
  <2>2. failures' # 0
    BY <1>2, SubmissionFailed, FailuresAssumption DEF BaseInv, TypeOK
  <2> QED BY <1>2, <2>1, <2>2, SubmissionFailed DEF OptInv
<1>3. CASE CallSucceeds
  <2>1. "choice" \in settled => "optOut" \notin Targets(request.form)
    BY <1>t DEF BaseInv, Coherent
  <2> QED BY <1>3, <1>q, <2>1, CallMade DEF OptInv
<1>4. CASE CallFails
  <2>1. "choice" \in settled => "optOut" \notin Targets(request.form)
    BY <1>t DEF BaseInv, Coherent
  <2>2. failures' # 0
    BY <1>4, CallLost
  <2> QED BY <1>4, <1>q, <2>1, <2>2, CallLost DEF OptInv
<1>5. CASE Finish
  <2>1. /\ \A to, say, v : Pending(request.todo, to, say, v) => v = say
        /\ request'.form = "none" /\ request'.todo = <<>>
        /\ UNCHANGED <<doc, cvl, failures>>
        /\ settled' = settled \cup {request.form}
    BY <1>5, Finished
  <2> QED BY <2>1, PendingNone DEF OptInv
<1>6. ASSUME NEW t \in Transitions, Handover(t) PROVE OptInv'
  <2>1. doc'["optOut"] = doc["optOut"]
    BY <1>6, <1>q, HandedOver
  <2> QED BY <1>6, <2>1, HandedOver DEF OptInv
<1>7. CASE Reset
  BY <1>7, <1>q, WasReset DEF OptInv
<1>8. CASE Start
  BY <1>8, <1>q, Started DEF OptInv
<1>9. CASE UNCHANGED vars
  BY <1>9 DEF vars, OptInv
<1> QED BY <1>1, <1>2, <1>3, <1>4, <1>5, <1>6, <1>7, <1>8, <1>9 DEF Next

\* However many attempts fail, an opt-out that went through is one CVL knows of;
\* so is an opt-in, as long as none does.
THEOREM OptAlwaysTold == Spec => []OptTold
<1>1. Init => BaseInv /\ OptInv
  BY BaseInit, OptInit
<1>2. (BaseInv /\ OptInv) /\ [Next]_vars => (BaseInv /\ OptInv)'
  BY BaseStep, OptStep
<1>3. BaseInv /\ OptInv => OptTold
  <2> SUFFICES ASSUME BaseInv, OptInv, "choice" \in settled, failures = 0,
                      doc["optOut"].decision = "No"
               PROVE  cvl["optOut"] = "OPT_IN"
    BY DEF OptInv, OptTold
  <2>1. "optOut" \notin Targets(request.form) /\ Only(request.todo, Targets(request.form))
    BY DEF BaseInv, Coherent, Targets
  <2> QED BY <2>1, PendingOthers DEF OptInv
<1> QED BY <1>1, <1>2, <1>3, PTL DEF Spec

-----------------------------------------------------------------------------
(* Refusals. *)

\* A question whose refusal CVL is to have.
RefusalPending(q, refused) ==
  doc[q].decision = refused /\ doc[q].reason # "none"
    => Pending(request.todo, q, doc[q].reason, cvl[q])

RefusalInv ==
  /\ failures = 0 => RefusalPending("refusal", "Yes") /\ RefusalPending("release", "No")
  /\ request.form = "refuse" /\ doc["refusal"].decision = "Yes" => doc["refusal"].reason # "none"
  /\ "refuse" \in settled /\ doc["refusal"].decision = "Yes" => doc["refusal"].reason # "none"
  /\ request.form \in {"release", "refuseReason"} /\ doc["release"].decision = "No"
       => doc["release"].reason # "none"
  /\ page = "send/decided" /\ doc["release"].decision = "No" => doc["release"].reason # "none"

LEMMA RefusalInit == Init => RefusalInv
<1>1. {"refusal", "release"} \subseteq Questions
  BY DEF Questions
<1> QED BY <1>1, NoRequestType, Blank DEF Init, RefusalInv, RefusalPending

\* A form that is not about the question leaves its refusal where it was.
LEMMA RefusalElsewhere ==
  ASSUME BaseInv, NEW q \in Questions, NEW refused, RefusalPending(q, refused),
         request.todo = <<>>, doc'[q] = doc[q], cvl' = cvl,
         NEW T, Only(request'.todo, T), q \notin T
  PROVE  RefusalPending(q, refused)'
<1> SUFFICES ASSUME doc[q].decision = refused, doc[q].reason # "none"
             PROVE  Pending(request'.todo, q, doc[q].reason, cvl[q])
  BY DEF RefusalPending
<1>1. cvl[q] = doc[q].reason
  BY PendingNone DEF RefusalPending
<1> QED BY <1>1, PendingOthers

\* The form that is tells it, or it has been told.
LEMMA RefusalReported ==
  ASSUME BaseInv, NEW q \in {"refusal", "release"}, NEW refused, RefusalPending(q, refused),
         request.todo = <<>>, NEW a, doc'[q] = a, cvl' = cvl,
         a.decision = refused =>
           Tells(request'.todo, q, a.reason) \/ (doc[q] = a /\ Only(request'.todo, {"status"}))
  PROVE  RefusalPending(q, refused)'
<1> SUFFICES ASSUME a.decision = refused, a.reason # "none"
             PROVE  Pending(request'.todo, q, a.reason, cvl[q])
  BY DEF RefusalPending
<1>1. CASE Tells(request'.todo, q, a.reason)
  BY <1>1 DEF Pending
<1>2. CASE doc[q] = a /\ Only(request'.todo, {"status"})
  <2>1. cvl[q] = a.reason
    BY <1>2, PendingNone DEF RefusalPending
  <2>2. q \notin {"status"}
    OBVIOUS
  <2> QED BY <1>2, <2>1, <2>2, PendingOthers
<1> QED BY <1>1, <1>2

LEMMA RefusalStep ==
  ASSUME BaseInv, RefusalInv, [Next]_vars
  PROVE  RefusalInv'
<1>q. "refusal" \in Questions /\ "release" \in Questions
  BY DEF Questions
<1>f. \A form \in Forms :
        /\ QuestionOf(form) = "refusal" <=> form = "refuse"
        /\ QuestionOf(form) = "release" <=> form \in {"release", "refuseReason"}
  BY DEF QuestionOf, Forms
<1>t. \A form : /\ form # "refuse" => "refusal" \notin Targets(form)
                /\ form \notin {"release", "refuseReason"} => "release" \notin Targets(form)
  BY DEF Targets
<1>b. BaseInv'
  BY BaseStep
<1>v. ASSUME NEW form \in Forms, NEW a \in Inputs(form), Valid(form, a)
      PROVE  /\ form = "refuse" /\ a.decision = "Yes" => a.reason # "none"
             /\ form \in {"release", "refuseReason"} /\ a.decision = "No" => a.reason # "none"
  BY <1>v, ValidInputs
<1>r. \A a \in Inputs("refuse") : Valid("refuse", a)
  BY DEF Inputs, Valid, NeedsReason, Yes, No
<1>1. ASSUME NEW form \in forms, NEW a \in Inputs(form), Submit(form, a) PROVE RefusalInv'
  <2>1. form \in Forms /\ \A q \in Questions : doc'[q] = IF q = QuestionOf(form) THEN a ELSE doc[q]
    BY <1>1, Submitted, DocSaved
  <2>2. /\ cvl' = cvl /\ failures' = failures /\ settled' = settled \ {form}
        /\ request.form = "none" /\ request.todo = <<>>
        /\ request'.form \in {form, "none"}
        /\ Only(request'.todo, Targets(request'.form))
    BY <1>1, <1>b, Submitted, NoRequestType DEF BaseInv, Coherent
  <2>3. /\ form = "refuse" => doc'["refusal"] = a
        /\ form # "refuse" => doc'["refusal"] = doc["refusal"]
        /\ form \in {"release", "refuseReason"} => doc'["release"] = a
        /\ form \notin {"release", "refuseReason"} => doc'["release"] = doc["release"]
    <3>1. doc'["refusal"] = IF "refusal" = QuestionOf(form) THEN a ELSE doc["refusal"]
      BY <1>q, <2>1
    <3>2. doc'["release"] = IF "release" = QuestionOf(form) THEN a ELSE doc["release"]
      BY <1>q, <2>1
    <3> QED BY <1>f, <2>1, <3>1, <3>2
  <2>4. Valid(form, a) => Reported(form, request'.todo, doc, a)
    BY <1>1, Submitted
  <2>5. ~Valid(form, a) => request'.form = "none" /\ request'.todo = <<>>
    BY <1>1, Submitted, NoRequestType
  <2>6. ASSUME failures = 0 PROVE RefusalPending("refusal", "Yes")'
    <3>1. RefusalPending("refusal", "Yes")
      BY <2>6 DEF RefusalInv
    <3>2. CASE form = "refuse"
      <4>1. Reported(form, request'.todo, doc, a)
        BY <1>r, <2>4, <3>2
      <4>2. a.decision = "Yes" => Tells(request'.todo, "refusal", a.reason)
                                \/ (doc["refusal"] = a /\ Only(request'.todo, {"status"}))
        BY <3>2, <4>1 DEF Reported
      <4> QED BY <2>2, <2>3, <3>1, <3>2, <4>2, RefusalReported
    <3>3. CASE form # "refuse"
      <4>1. "refusal" \notin Targets(request'.form)
        BY <1>t, <2>2, <3>3
      <4> QED BY <1>q, <2>2, <2>3, <3>1, <3>3, <4>1, RefusalElsewhere
    <3> QED BY <3>2, <3>3
  <2>7. ASSUME failures = 0 PROVE RefusalPending("release", "No")'
    <3>1. RefusalPending("release", "No")
      BY <2>7 DEF RefusalInv
    <3>2. CASE form \in {"release", "refuseReason"} /\ Valid(form, a)
      <4>1. a.decision = "No" => Tells(request'.todo, "release", a.reason)
                               \/ (doc["release"] = a /\ Only(request'.todo, {"status"}))
        BY <2>4, <3>2 DEF Reported
      <4> QED BY <2>2, <2>3, <3>1, <3>2, <4>1, RefusalReported
    <3>3. CASE form \in {"release", "refuseReason"} /\ ~Valid(form, a)
      <4>1. a.decision = "No" => a.reason = "none"
        BY <3>3 DEF Valid, NeedsReason
      <4> QED BY <2>3, <3>3, <4>1 DEF RefusalPending
    <3>4. CASE form \notin {"release", "refuseReason"}
      <4>1. "release" \notin Targets(request'.form)
        BY <1>t, <2>2, <3>4
      <4> QED BY <1>q, <2>2, <2>3, <3>1, <3>4, <4>1, RefusalElsewhere
    <3> QED BY <3>2, <3>3, <3>4
  <2>8. request'.form = "refuse" /\ doc'["refusal"].decision = "Yes" => doc'["refusal"].reason # "none"
    BY <1>r, <1>v, <2>1, <2>2, <2>3 DEF RefusalInv
  <2>9. "refuse" \in settled' /\ doc'["refusal"].decision = "Yes" => doc'["refusal"].reason # "none"
    BY <2>2, <2>3 DEF RefusalInv
  <2>10. request'.form \in {"release", "refuseReason"} /\ doc'["release"].decision = "No"
           => doc'["release"].reason # "none"
    BY <1>v, <2>1, <2>2, <2>3, <2>5
  <2>11. page' # "send/decided"
    BY <1>1, Submitted DEF Forms
  <2> QED BY <2>2, <2>6, <2>7, <2>8, <2>9, <2>10, <2>11 DEF RefusalInv
<1>2. ASSUME NEW form \in forms, NEW a \in Inputs(form), SubmitFails(form, a) PROVE RefusalInv'
  <2>1. form \in Forms /\ \A q \in Questions : doc'[q] = IF q = QuestionOf(form) THEN a ELSE doc[q]
    BY <1>2, SubmissionFailed, DocSaved
  <2>2. failures' # 0 /\ request'.form = "none" /\ page' # "send/decided"
        /\ settled' = settled \ {form}
    BY <1>2, SubmissionFailed, FailuresAssumption DEF BaseInv, TypeOK, Forms
  <2>3. "refuse" \in settled' => doc'["refusal"] = doc["refusal"]
    <3>1. doc'["refusal"] = IF "refusal" = QuestionOf(form) THEN a ELSE doc["refusal"]
      BY <1>q, <2>1
    <3> QED BY <1>f, <2>1, <2>2, <3>1
  <2> QED BY <2>2, <2>3 DEF RefusalInv
<1>3. CASE CallSucceeds
  <2>1. /\ UNCHANGED <<doc, page, settled, failures>> /\ request'.form = request.form
        /\ \A q \in Questions : \A say :
             Pending(request.todo, q, say, cvl[q]) => Pending(request'.todo, q, say, cvl'[q])
    BY <1>3, CallMade
  <2>2. \A q \in Questions : \A refused : RefusalPending(q, refused) => RefusalPending(q, refused)'
    BY <2>1 DEF RefusalPending
  <2> QED BY <1>q, <2>1, <2>2 DEF RefusalInv
<1>4. CASE CallFails
  <2>1. failures' # 0 /\ request'.form = "none" /\ page' # "send/decided"
        /\ UNCHANGED <<doc, settled>>
    BY <1>4, CallLost DEF BaseInv, TypeOK, Forms
  <2> QED BY <2>1 DEF RefusalInv
<1>5. CASE Finish
  <2>1. /\ request.todo = <<>> /\ request'.form = "none" /\ request'.todo = <<>>
        /\ UNCHANGED <<doc, cvl, failures>>
        /\ settled' = settled \cup {request.form}
        /\ page' = IF request.form = "reset" THEN "taskList"
                   ELSE NextPage(request.form, doc[QuestionOf(request.form)])
    BY <1>5, Finished
  <2>2. \A q \in Questions : \A refused : RefusalPending(q, refused) => RefusalPending(q, refused)'
    BY <2>1 DEF RefusalPending
  <2>3. page' = "send/decided" => request.form \in {"release", "refuseReason"}
    BY <2>1 DEF NextPage
  <2> QED BY <1>q, <2>1, <2>2, <2>3 DEF RefusalInv
<1>6. ASSUME NEW t \in Transitions, Handover(t) PROVE RefusalInv'
  <2>1. /\ request.todo = <<>> /\ request.form = "none" /\ page' = "taskList"
        /\ UNCHANGED <<cvl, request, settled, failures>>
        /\ doc'["refusal"] = doc["refusal"]
        /\ doc'["release"] = doc["release"] \/ doc'["release"].decision = "None"
    BY <1>6, <1>q, HandedOver, Blank
  <2>2. RefusalPending("refusal", "Yes") => RefusalPending("refusal", "Yes")'
    BY <2>1 DEF RefusalPending
  <2>3. RefusalPending("release", "No") => RefusalPending("release", "No")'
    BY <2>1 DEF RefusalPending
  <2> QED BY <2>1, <2>2, <2>3 DEF RefusalInv
<1>7. CASE Reset
  BY <1>7, <1>q, WasReset DEF RefusalInv, RefusalPending
<1>8. CASE Start
  BY <1>8, <1>q, Started DEF RefusalInv, RefusalPending
<1>9. CASE UNCHANGED vars
  BY <1>9 DEF vars, RefusalInv, RefusalPending
<1> QED BY <1>1, <1>2, <1>3, <1>4, <1>5, <1>6, <1>7, <1>8, <1>9 DEF Next

\* However often refusals are made, changed and taken back on the two forms that
\* make them: as long as no call fails, CVL has the reason of the last.
THEOREM RefusalAlwaysTold == Spec => []RefusalTold
<1>1. Init => BaseInv /\ RefusalInv
  BY BaseInit, RefusalInit
<1>2. (BaseInv /\ RefusalInv) /\ [Next]_vars => (BaseInv /\ RefusalInv)'
  BY BaseStep, RefusalStep
<1>3. BaseInv /\ RefusalInv => RefusalTold
  <2>1. ASSUME BaseInv, RefusalInv, failures = 0, "refuse" \in settled,
               doc["refusal"].decision = "Yes"
        PROVE  cvl["refusal"] = doc["refusal"].reason
    <3>1. "refusal" \notin Targets(request.form) /\ Only(request.todo, Targets(request.form))
      BY <2>1 DEF BaseInv, Coherent, Targets
    <3>2. Pending(request.todo, "refusal", doc["refusal"].reason, cvl["refusal"])
      BY <2>1 DEF RefusalInv, RefusalPending
    <3>3. \A say, v : Pending(request.todo, "refusal", say, v) => v = say
      BY <3>1, PendingOthers
    <3> QED BY <3>2, <3>3
  <2>2. ASSUME BaseInv, RefusalInv, failures = 0, page = "send/decided",
               doc["release"].decision = "No"
        PROVE  cvl["release"] = doc["release"].reason
    <3>1. request.todo = <<>>
      BY <2>2 DEF BaseInv, Coherent
    <3>2. Pending(request.todo, "release", doc["release"].reason, cvl["release"])
      BY <2>2 DEF RefusalInv, RefusalPending
    <3> QED BY <3>1, <3>2, PendingNone
  <2> QED BY <2>1, <2>2 DEF RefusalTold
<1> QED BY <1>1, <1>2, <1>3, PTL DEF Spec

-----------------------------------------------------------------------------
(* The decision. *)

\* The status NOMIS is to have, if it has one for the decision.
Decided(status) ==
  /\ doc["release"].decision = "Yes" => status = "APPROVED"
  /\ doc["release"].decision = "No" /\ doc["release"].reason \in {"addressUnsuitable", "insufficientTime"}
       => status = "REJECTED"

DecisionInv ==
  /\ request.form \in {"release", "refuseReason"} =>
       /\ doc["release"].decision = "Yes"
            => Pending(request.todo, "status", "APPROVED", nomis.status)
       /\ doc["release"].decision = "No"
          /\ doc["release"].reason \in {"addressUnsuitable", "insufficientTime"}
            => Pending(request.todo, "status", "REJECTED", nomis.status)
  /\ page = "send/decided" => Decided(nomis.status)

LEMMA DecisionInit == Init => DecisionInv
BY NoRequestType DEF Init, DecisionInv

LEMMA DecisionStep ==
  ASSUME BaseInv, DecisionInv, [Next]_vars
  PROVE  DecisionInv'
<1>1. ASSUME NEW form \in forms, NEW a \in Inputs(form), Submit(form, a) PROVE DecisionInv'
  <2>1. form \in Forms /\ page' # "send/decided"
    BY <1>1, Submitted DEF Forms
  <2>2. CASE form \in {"release", "refuseReason"} /\ Valid(form, a)
    <3>1. Reported(form, request'.todo, doc, a)
      BY <1>1, <2>2, Submitted
    <3>2. doc'["release"] = a
      <4>1. QuestionOf(form) = "release" /\ "release" \in Questions
        BY <2>2 DEF QuestionOf, Questions
      <4>2. \A q \in Questions : doc'[q] = IF q = QuestionOf(form) THEN a ELSE doc[q]
        BY <1>1, Submitted, DocSaved
      <4> QED BY <4>1, <4>2
    <3>3. /\ a.decision = "Yes" => Tells(request'.todo, "status", "APPROVED")
          /\ a.decision = "No" /\ a.reason \in {"addressUnsuitable", "insufficientTime"}
               => Tells(request'.todo, "status", "REJECTED")
      BY <2>2, <3>1 DEF Reported
    <3> QED BY <2>1, <3>2, <3>3 DEF DecisionInv, Pending
  <2>3. CASE form \notin {"release", "refuseReason"} \/ ~Valid(form, a)
    <3>1. request'.form \notin {"release", "refuseReason"}
      BY <1>1, <2>3, Submitted, NoRequestType
    <3> QED BY <2>1, <3>1 DEF DecisionInv
  <2> QED BY <2>2, <2>3
<1>2. ASSUME NEW form \in forms, NEW a \in Inputs(form), SubmitFails(form, a) PROVE DecisionInv'
  <2>1. request'.form = "none" /\ page' # "send/decided"
    BY <1>2, SubmissionFailed DEF Forms
  <2> QED BY <2>1 DEF DecisionInv
<1>3. CASE CallSucceeds
  <2>1. /\ UNCHANGED <<doc, page>> /\ request'.form = request.form /\ page = "none"
        /\ request.form # "reset" =>
             \A say : Pending(request.todo, "status", say, nomis.status)
                     => Pending(request'.todo, "status", say, nomis'.status)
    BY <1>3, CallMade
  <2> QED BY <2>1 DEF DecisionInv
<1>4. CASE CallFails
  <2>1. request'.form = "none" /\ page' # "send/decided"
    BY <1>4, CallLost DEF BaseInv, TypeOK, Forms
  <2> QED BY <2>1 DEF DecisionInv
<1>5. CASE Finish
  <2>1. /\ \A to, say, v : Pending(request.todo, to, say, v) => v = say
        /\ request'.form = "none" /\ UNCHANGED <<doc, nomis>>
        /\ page' = IF request.form = "reset" THEN "taskList"
                   ELSE NextPage(request.form, doc[QuestionOf(request.form)])
    BY <1>5, Finished
  <2>2. page' = "send/decided" => request.form \in {"release", "refuseReason"}
    BY <2>1 DEF NextPage
  <2> QED BY <2>1, <2>2 DEF DecisionInv, Decided
<1>6. ASSUME NEW t \in Transitions, Handover(t) PROVE DecisionInv'
  BY <1>6, HandedOver DEF DecisionInv
<1>7. CASE Reset
  BY <1>7, WasReset DEF DecisionInv
<1>8. CASE Start
  BY <1>8, Started DEF DecisionInv
<1>9. CASE UNCHANGED vars
  BY <1>9 DEF vars, DecisionInv, Decided
<1> QED BY <1>1, <1>2, <1>3, <1>4, <1>5, <1>6, <1>7, <1>8, <1>9 DEF Next

\* What CVL was told last is what the document says, whatever the order of the
\* forms.
THEOREM EventsAlwaysTold == Spec => []EventsTold
BY OptAlwaysTold, RefusalAlwaysTold, PTL DEF EventsTold

\* Whatever failed on the way and however often a decision was changed, taken
\* back or made again, it is not sent on before NOMIS has it.
THEOREM DecisionAlwaysTold == Spec => DecisionTold
<1>1. Init => BaseInv /\ DecisionInv
  BY BaseInit, DecisionInit
<1>2. (BaseInv /\ DecisionInv) /\ [Next]_vars => (BaseInv /\ DecisionInv)'
  BY BaseStep, DecisionStep
<1>3. BaseInv /\ DecisionInv /\ [Next]_vars =>
        [stage = "APPROVAL" /\ stage' = "DECIDED" =>
           /\ doc["release"].decision = "Yes" => nomis.status = "APPROVED"
           /\ doc["release"].decision = "No"
              /\ doc["release"].reason \in {"addressUnsuitable", "insufficientTime"}
                => nomis.status = "REJECTED"]_vars
  <2> SUFFICES ASSUME BaseInv, DecisionInv, Next, stage = "APPROVAL", stage' = "DECIDED"
               PROVE  Decided(nomis.status)
    BY DEF Decided
  <2>1. page = "send/decided"
    <3>1. ASSUME NEW form \in forms, NEW a \in Inputs(form), Submit(form, a) \/ SubmitFails(form, a)
          PROVE  FALSE
      BY <3>1, Submitted, SubmissionFailed
    <3>2. ASSUME NEW t \in Transitions, Handover(t) PROVE page = "send/decided"
      BY <3>2, HandedOver
    <3>3. ~CallSucceeds /\ ~CallFails /\ ~Finish /\ ~Reset /\ ~Start
      BY DEF CallSucceeds, CallFails, Finish, Reset, Start
    <3> QED BY <3>1, <3>2, <3>3 DEF Next
  <2> QED BY <2>1 DEF DecisionInv
<1> QED BY <1>1, <1>2, <1>3, PTL DEF Spec, DecisionTold
=============================================================================
