---------------------------- MODULE JobLock_proofs ----------------------------
(***************************************************************************)
(* The job runs once per tick, for any number of servers, connections and  *)
(* failures.  The argument: while a server has still to try the lock, at   *)
(* most one server is active and its session holds the lock, so nobody     *)
(* else gets it; once all have tried nobody can become active.             *)
(***************************************************************************)
EXTENDS JobLock, TLAPS

-----------------------------------------------------------------------------

\* Every variable of JobLock keeps its type, and the depth of the lock agrees
\* with its holder (TypeOK), whatever the servers do.
THEOREM TypeCorrect == Spec => []TypeOK
<1>1. Init => TypeOK
  BY BoundsAssumption DEF Init, TypeOK, PCs, Sessions
<1>2. TypeOK /\ [Next]_vars => TypeOK'
  <2> SUFFICES ASSUME TypeOK, [Next]_vars PROVE TypeOK'
    OBVIOUS
  <2> USE DEF TypeOK, PCs, Goto
  <2>1. CASE Tick
    BY <2>1 DEF Tick
  <2>2. ASSUME NEW s \in Servers, Fire(s) PROVE TypeOK'
    BY <2>2 DEF Fire
  <2>3. ASSUME NEW s \in Servers, NEW c \in SessionsOf(s), TryLock(s, c) PROVE TypeOK'
    <3>1. c \in Sessions
      BY <2>3 DEF Sessions, SessionsOf
    <3>2. CASE holder \subseteq {c}
      BY <2>3, <3>1, <3>2 DEF TryLock
    <3>3. CASE ~(holder \subseteq {c})
      BY <2>3, <3>3 DEF TryLock
    <3> QED
      BY <3>2, <3>3
  <2>4. ASSUME NEW s \in Servers, NEW c \in SessionsOf(s), Unlock(s, c) PROVE TypeOK'
    <3>1. CASE holder = {c}
      BY <2>4, <3>1 DEF Unlock
    <3>2. CASE holder # {c}
      BY <2>4, <3>2 DEF Unlock
    <3> QED
      BY <3>1, <3>2
  <2>5. ASSUME NEW s \in Servers, RunJob(s) PROVE TypeOK'
    BY <2>5 DEF RunJob
  <2>6. ASSUME NEW s \in Servers, EndDelay(s) PROVE TypeOK'
    BY <2>6 DEF EndDelay
  <2>7. ASSUME NEW s \in Servers, TryLockFails(s) PROVE TypeOK'
    BY <2>7 DEF TryLockFails
  <2>8. ASSUME NEW s \in Servers, Crash(s) PROVE TypeOK'
    <3>1. CASE holder \cap SessionsOf(s) # {}
      BY <2>8, <3>1 DEF Crash
    <3>2. CASE holder \cap SessionsOf(s) = {}
      BY <2>8, <3>2 DEF Crash
    <3> QED
      BY <3>1, <3>2
  <2>9. CASE CloseIdle
    BY <2>9 DEF CloseIdle
  <2>10. CASE UNCHANGED vars
    BY <2>10 DEF vars
  <2> QED
    BY <2>1, <2>2, <2>3, <2>4, <2>5, <2>6, <2>7, <2>8, <2>9, <2>10 DEF Next
<1> QED
  BY <1>1, <1>2, PTL DEF Spec

-----------------------------------------------------------------------------
(* The inductive invariant *)

\* At most one server is active at a time.
OneActive == \A r, s \in Active : r = s

\* The count of executions leaves room for the one that is still to come: for
\* the server about to run the job, and for whoever may still get the lock.
RoomForOneMore ==
  /\ OncePerTick
  /\ (\E s \in Servers : pc[s] = "job") => ran <= lost
  /\ Contended /\ Active = {} => ran <= lost

\* A server fires once in a tick, when its last run has ended.
DueAreIdle == \A s \in due : pc[s] = "idle"

LockInv == TypeOK /\ DueAreIdle /\ OneActive /\ RunnerHoldsLock /\ RoomForOneMore

\* The lock is free or held by one session.
LEMMA OwnerUnique ==
  ASSUME TypeOK, NEW r \in Servers, NEW s \in Servers,
         holder # {}, holder \subseteq SessionsOf(r), holder \cap SessionsOf(s) # {}
  PROVE  r = s
BY DEF SessionsOf

LEMMA InitEstablishesLockInv == Init => LockInv
<1> SUFFICES ASSUME Init PROVE LockInv
  OBVIOUS
<1>1. TypeOK
  BY BoundsAssumption DEF Init, TypeOK, PCs, Sessions
<1>2. Active = {} /\ ~Contended
  BY DEF Init, Active, Contended
<1> QED
  BY <1>1, <1>2 DEF Init, LockInv, DueAreIdle, OneActive, RunnerHoldsLock, RoomForOneMore, OncePerTick, Active

\* No step other than Fire takes an idle server out of idle.
LEMMA NextPreservesDueAreIdle == TypeOK /\ DueAreIdle /\ [Next]_vars => DueAreIdle'
BY DEF TypeOK, DueAreIdle, Next, vars, Goto, Tick, Fire, TryLock, Unlock, RunJob, EndDelay,
       TryLockFails, Crash, CloseIdle

\* Only a server that tries while nobody is active becomes active: an active
\* server's session has the lock.
LEMMA TryLockPreserves ==
  ASSUME LockInv, TypeOK', NEW s \in Servers, NEW c \in SessionsOf(s), TryLock(s, c),
         DueAreIdle'
  PROVE  LockInv'
<1> USE DEF LockInv
<1>1. s \notin Active /\ Contended /\ pc \in [Servers -> PCs]
  BY DEF TryLock, Active, Contended, TypeOK
<1>2. CASE holder \subseteq {c}
  <2>1. Active = {}
    BY <1>1, <1>2 DEF RunnerHoldsLock, SessionsOf, Active
  <2>2. Active' = {s} /\ holder' = {c}
    BY <1>1, <1>2, <2>1 DEF TryLock, Active, Goto
  <2>3. ran <= lost
    BY <1>1, <2>1 DEF RoomForOneMore
  <2> QED
    BY <2>2, <2>3 DEF OneActive, RunnerHoldsLock, RoomForOneMore, OncePerTick, TryLock, TypeOK
<1>3. CASE ~(holder \subseteq {c})
  <2>1. Active' = Active /\ holder' = holder /\ ran' = ran /\ lost' = lost
    BY <1>1, <1>3 DEF TryLock, Active, Goto
  <2>2. (\E r \in Servers : pc'[r] = "job") => \E r \in Servers : pc[r] = "job"
    BY <1>1, <1>3 DEF TryLock, Goto
  <2> QED
    BY <1>1, <2>1, <2>2 DEF OneActive, RunnerHoldsLock, RoomForOneMore, OncePerTick
<1> QED
  BY <1>2, <1>3

\* A server that is not active does not hold the lock of one that is, so what
\* it unlocks is not that lock.
LEMMA UnlockPreserves ==
  ASSUME LockInv, TypeOK', NEW s \in Servers, NEW c \in SessionsOf(s), Unlock(s, c),
         DueAreIdle'
  PROVE  LockInv'
<1> USE DEF LockInv
<1>1. s \notin Active /\ pc \in [Servers -> PCs]
  BY DEF Unlock, Active, TypeOK
<1>2. Active' = Active /\ (Contended' <=> Contended)
  BY <1>1 DEF Unlock, Active, Contended, Goto
<1>3. /\ ran' = ran /\ lost' = lost
      /\ (\E r \in Servers : pc'[r] = "job") => \E r \in Servers : pc[r] = "job"
  BY <1>1 DEF Unlock, Goto
<1>4. RunnerHoldsLock'
  <2> SUFFICES ASSUME Contended, NEW r \in Active
               PROVE  holder' # {} /\ holder' \subseteq SessionsOf(r)
    BY <1>2 DEF RunnerHoldsLock, SessionsOf
  <2>1. r \in Servers /\ r # s /\ holder # {} /\ holder \subseteq SessionsOf(r)
    BY <1>1 DEF RunnerHoldsLock, Active
  <2>2. holder # {c}
    BY <2>1, OwnerUnique
  <2> QED
    BY <2>1, <2>2 DEF Unlock
<1> QED
  BY <1>2, <1>3, <1>4 DEF OneActive, RoomForOneMore, OncePerTick

LEMMA CrashPreserves ==
  ASSUME LockInv, TypeOK', NEW s \in Servers, Crash(s), DueAreIdle'
  PROVE  LockInv'
<1> USE DEF LockInv
<1>1. /\ pc \in [Servers -> PCs] /\ ran \in Nat /\ lost \in Nat
      /\ ran' = ran /\ lost' = lost + 1
  BY DEF Crash, TypeOK
<1>2. Active' = Active \ {s} /\ (Contended' => Contended)
  BY <1>1 DEF Crash, Active, Contended, Goto
<1>3. RunnerHoldsLock'
  <2> SUFFICES ASSUME Contended, NEW r \in Active \ {s}
               PROVE  holder' # {} /\ holder' \subseteq SessionsOf(r)
    BY <1>2 DEF RunnerHoldsLock, SessionsOf
  <2>1. r \in Servers /\ r # s /\ holder # {} /\ holder \subseteq SessionsOf(r)
    BY DEF RunnerHoldsLock, Active
  <2>2. holder \cap SessionsOf(s) = {}
    BY <2>1, OwnerUnique
  <2> QED
    BY <2>1, <2>2 DEF Crash
<1>4. RoomForOneMore'
  BY <1>1 DEF RoomForOneMore, OncePerTick
<1> QED
  BY <1>2, <1>3, <1>4 DEF OneActive

LEMMA NextPreservesLockInv == LockInv /\ TypeOK' /\ [Next]_vars => LockInv'
<1> SUFFICES ASSUME LockInv, TypeOK', [Next]_vars PROVE LockInv'
  OBVIOUS
<1> USE DEF LockInv
<1>0. pc \in [Servers -> PCs] /\ ran \in Nat /\ lost \in Nat
  BY DEF TypeOK
<1>a. DueAreIdle'
  BY NextPreservesDueAreIdle
<1>1. CASE Tick
  <2>1. Active' = {} /\ ran' = 0 /\ lost' = 0
    BY <1>1 DEF Tick, Active
  <2> QED
    BY <1>a, <2>1 DEF OneActive, RunnerHoldsLock, RoomForOneMore, OncePerTick, Active
<1>2. ASSUME NEW s \in Servers, Fire(s) PROVE LockInv'
  <2>1. Active' = Active /\ Contended /\ holder' = holder /\ ran' = ran /\ lost' = lost
    BY <1>0, <1>2 DEF Fire, Active, Contended, Goto, DueAreIdle
  <2>2. (\E r \in Servers : pc'[r] = "job") => \E r \in Servers : pc[r] = "job"
    BY <1>0, <1>2 DEF Fire, Goto
  <2> QED
    BY <1>a, <2>1, <2>2 DEF OneActive, RunnerHoldsLock, RoomForOneMore, OncePerTick, SessionsOf
<1>3. ASSUME NEW s \in Servers, NEW c \in SessionsOf(s), TryLock(s, c) PROVE LockInv'
  BY <1>a, <1>3, TryLockPreserves
<1>4. ASSUME NEW s \in Servers, NEW c \in SessionsOf(s), Unlock(s, c) PROVE LockInv'
  BY <1>a, <1>4, UnlockPreserves
<1>5. ASSUME NEW s \in Servers, RunJob(s) PROVE LockInv'
  <2>1. Active' = Active /\ s \in Active /\ (Contended' <=> Contended) /\ holder' = holder
    BY <1>0, <1>5 DEF RunJob, Active, Contended, Goto
  <2>2. ran <= lost /\ ran' = ran + 1 /\ lost' = lost
    BY <1>5 DEF RunJob, RoomForOneMore
  <2>3. \A r \in Servers : pc'[r] # "job"
    BY <1>0, <1>5, <2>1 DEF RunJob, Goto, OneActive, Active
  <2> QED
    BY <1>a, <1>0, <2>1, <2>2, <2>3 DEF OneActive, RunnerHoldsLock, RoomForOneMore, OncePerTick,
                                  SessionsOf
<1>6. ASSUME NEW s \in Servers, EndDelay(s) PROVE LockInv'
  <2>1. Active' \subseteq Active /\ ~Contended' /\ ran' = ran /\ lost' = lost
    BY <1>0, <1>6 DEF EndDelay, Active, Contended, Goto
  <2>2. (\E r \in Servers : pc'[r] = "job") => \E r \in Servers : pc[r] = "job"
    BY <1>0, <1>6 DEF EndDelay, Goto
  <2> QED
    BY <1>a, <2>1, <2>2 DEF OneActive, RunnerHoldsLock, RoomForOneMore, OncePerTick
<1>7. ASSUME NEW s \in Servers, TryLockFails(s) PROVE LockInv'
  <2>1. Active' = Active /\ (Contended' => Contended) /\ holder' = holder
    BY <1>0, <1>7 DEF TryLockFails, Active, Contended, Goto
  <2>2. ran' = ran /\ lost' = lost + 1
    BY <1>7 DEF TryLockFails
  <2> QED
    BY <1>a, <1>0, <2>1, <2>2 DEF OneActive, RunnerHoldsLock, RoomForOneMore, OncePerTick, SessionsOf
<1>8. ASSUME NEW s \in Servers, Crash(s) PROVE LockInv'
  BY <1>a, <1>8, CrashPreserves
<1>9. CASE CloseIdle
  <2>1. Active' = Active /\ (Contended' <=> Contended)
    BY <1>9 DEF CloseIdle, Active, Contended
  <2>2. Contended => Active = {}
    BY <1>9 DEF CloseIdle, RunnerHoldsLock, SessionsOf
  <2> QED
    BY <1>a, <1>9, <2>1, <2>2 DEF CloseIdle, OneActive, RunnerHoldsLock, RoomForOneMore, OncePerTick
<1>10. CASE UNCHANGED vars
  BY <1>a, <1>10 DEF vars, OneActive, RunnerHoldsLock, RoomForOneMore, OncePerTick, Active, Contended,
               SessionsOf
<1> QED
  BY <1>1, <1>2, <1>3, <1>4, <1>5, <1>6, <1>7, <1>8, <1>9, <1>10 DEF Next

THEOREM LockInvariant == Spec => []LockInv
<1>1. Init => LockInv
  BY InitEstablishesLockInv
<1>2. LockInv /\ TypeOK' /\ [Next]_vars => LockInv'
  BY NextPreservesLockInv
<1> QED
  BY <1>1, <1>2, TypeCorrect, PTL DEF Spec

\* onceOnly: however many servers have the job, each time it comes due it is
\* executed once, plus at most once for each run that died half way.
THEOREM JobRunsOnce == Spec => []OncePerTick
<1>1. LockInv => OncePerTick
  BY DEF LockInv, RoomForOneMore
<1> QED
  BY <1>1, LockInvariant, PTL

\* A server that runs the job keeps the lock for as long as another one can
\* try it, whatever losers unlock and the pool closes.
THEOREM RunnerKeepsLock == Spec => []RunnerHoldsLock
<1>1. LockInv => RunnerHoldsLock
  BY DEF LockInv
<1> QED
  BY <1>1, LockInvariant, PTL

-----------------------------------------------------------------------------
(* A tick that began with the lock free *)

\* The job has been run, or is about to be; or else the lock is still free, nobody
\* has failed to get it, and somebody has still to try.
RunOrToRun ==
  tick > 0 /\ clear /\ lost = 0 =>
    \/ ran = 1
    \/ ran = 0 /\ \E s \in Servers : pc[s] = "job"
    \/ /\ ran = 0 /\ holder = {} /\ Contended
       /\ \A s \in Servers : pc[s] \in {"idle", "tryLock"}

LEMMA NextPreservesRunOrToRun ==
  ASSUME Servers # {}, LockInv, RunOrToRun, [Next]_vars
  PROVE  RunOrToRun'
<1> USE DEF RunOrToRun
<1>1. pc \in [Servers -> PCs] /\ tick \in Nat /\ ran \in Nat /\ lost \in Nat
  BY DEF LockInv, TypeOK
<1>2. CASE Tick
  BY <1>1, <1>2 DEF Tick, Contended
<1>3. ASSUME NEW s \in Servers, Fire(s) PROVE RunOrToRun'
  <2>1. /\ UNCHANGED <<tick, clear, lost, ran, holder>>
        /\ pc' = [pc EXCEPT ![s] = "tryLock"] /\ pc[s] = "idle"
    BY <1>3 DEF Fire, Goto, LockInv, DueAreIdle
  <2>2. Contended'
    BY <1>1, <2>1 DEF Contended
  <2>3. (\E r \in Servers : pc[r] = "job") => \E r \in Servers : pc'[r] = "job"
    BY <1>1, <2>1
  <2> QED
    BY <1>1, <2>1, <2>2, <2>3
<1>4. ASSUME NEW s \in Servers, NEW c \in SessionsOf(s), TryLock(s, c) PROVE RunOrToRun'
  <2>1. UNCHANGED <<tick, clear, lost, ran>> /\ pc[s] = "tryLock"
    BY <1>4 DEF TryLock
  <2>2. CASE holder = {}
    BY <1>1, <1>4, <2>1, <2>2 DEF TryLock, Goto
  <2>3. CASE holder # {}
    <3>1. (\E r \in Servers : pc[r] = "job") => \E r \in Servers : pc'[r] = "job"
      BY <1>1, <1>4, <2>1 DEF TryLock, Goto
    <3> QED
      BY <2>1, <2>3, <3>1
  <2> QED
    BY <2>2, <2>3
<1>5. ASSUME NEW s \in Servers, NEW c \in SessionsOf(s), Unlock(s, c) PROVE RunOrToRun'
  <2>1. UNCHANGED <<tick, clear, lost, ran>> /\ pc[s] = "unlock" /\ pc' = [pc EXCEPT ![s] = "idle"]
    BY <1>5 DEF Unlock, Goto
  <2>2. (\E r \in Servers : pc[r] = "job") => \E r \in Servers : pc'[r] = "job"
    BY <1>1, <2>1
  <2> QED
    BY <2>1, <2>2
<1>6. ASSUME NEW s \in Servers, RunJob(s) PROVE RunOrToRun'
  <2>1. ran <= lost
    BY <1>6 DEF RunJob, LockInv, RoomForOneMore
  <2> QED
    BY <1>1, <1>6, <2>1 DEF RunJob
<1>7. ASSUME NEW s \in Servers, EndDelay(s) PROVE RunOrToRun'
  <2>1. \A r \in Servers : pc[r] # "job"
    BY <1>7 DEF EndDelay, LockInv, OneActive, Active
  <2> QED
    BY <1>7, <2>1 DEF EndDelay
<1>8. ASSUME NEW s \in Servers, TryLockFails(s) \/ Crash(s) PROVE RunOrToRun'
  <2>1. lost' = lost + 1
    BY <1>8 DEF TryLockFails, Crash
  <2> QED
    BY <1>1, <2>1
<1>9. CASE CloseIdle
  BY <1>9 DEF CloseIdle, Contended
<1>10. CASE UNCHANGED vars
  BY <1>10 DEF vars, Contended
<1> QED
  BY <1>2, <1>3, <1>4, <1>5, <1>6, <1>7, <1>8, <1>9, <1>10 DEF Next

\* The lock does not keep everybody out: a tick that begins with the lock free and
\* in which nobody dies ends with the job executed, on however many servers.
THEOREM JobNotMissed ==
  ASSUME Servers # {}
  PROVE  Spec => []TickNotMissed
<1>1. Init => RunOrToRun
  BY DEF Init, RunOrToRun
<1>2. LockInv /\ RunOrToRun /\ [Next]_vars => RunOrToRun'
  BY NextPreservesRunOrToRun
<1>3. RunOrToRun => TickNotMissed
  BY DEF RunOrToRun, TickNotMissed, Contended
<1> QED
  BY <1>1, <1>2, <1>3, LockInvariant, PTL DEF Spec
=============================================================================
