------------------------------- MODULE JobLock -------------------------------
(***************************************************************************)
(* The scheduled job (roReminders) on several servers, and the advisory    *)
(* lock that is to let one of them run it: jobUtils.withLock.              *)
(*                                                                         *)
(* Every server has the job on the same schedule and fires it by its own   *)
(* clock.  The lock belongs to a database session, not to a server, and    *)
(* both lock and unlock are sent through the pool, on whichever connection *)
(* is idle: a session may lock twice, and an unlock sent on another        *)
(* session than the lock releases nothing.                                 *)
(*                                                                         *)
(*   withLock   tryLock [, job, delay], unlock                             *)
(***************************************************************************)
EXTENDS Naturals

CONSTANTS Servers,      \* the replicas of the application
          Connections,  \* the connections of one server's pool
          MaxTicks,     \* bound: times the schedule comes due
          MaxFailures   \* bound: runs that die half way

ASSUME BoundsAssumption == MaxTicks \in Nat /\ MaxFailures \in Nat

VARIABLES pc,        \* where each server is in withLock
          due,       \* the servers whose clock has still to fire this tick
          holder,    \* the session that holds the lock, or none
          depth,     \* how many times it holds it
          tick,      \* times the schedule has come due
          ran,       \* history: executions of the job in this tick
          lost,      \* history: runs of this tick that died half way
          clear,     \* history: the lock was free when this tick began
          failures   \* runs that died half way so far

vars == <<pc, due, holder, depth, tick, ran, lost, clear, failures>>

Sessions == Servers \X Connections
SessionsOf(s) == {s} \X Connections

PCs == {"idle", "tryLock", "job", "delay", "unlock"}

Init ==
  /\ pc = [s \in Servers |-> "idle"]
  /\ due = {}
  /\ holder = {} /\ depth = 0
  /\ tick = 0
  /\ ran = 0 /\ lost = 0
  /\ clear = TRUE
  /\ failures = 0

Goto(s, to) == pc' = [pc EXCEPT ![s] = to]

\* Servers that are in the job, or hold on to the lock after it.
Active == {s \in Servers : pc[s] \in {"job", "delay"}}

\* Some server has still to try the lock in this tick.
Contended == due # {} \/ \E s \in Servers : pc[s] = "tryLock"

-----------------------------------------------------------------------------
(* The schedule comes due once the runs of the last time have ended: the    *)
(* job takes minutes and is scheduled by the day.                           *)
Tick ==
  /\ tick < MaxTicks
  /\ due = {}
  /\ \A s \in Servers : pc[s] = "idle"
  /\ tick' = tick + 1
  /\ due' = Servers
  /\ ran' = 0 /\ lost' = 0
  /\ clear' = (holder = {})
  /\ UNCHANGED <<pc, holder, depth, failures>>

Fire(s) ==
  /\ s \in due
  /\ due' = due \ {s}
  /\ Goto(s, "tryLock")
  /\ UNCHANGED <<holder, depth, tick, ran, lost, clear, failures>>

\* Mutant: the answer is not found in the result, so the lock is thought missed.
TryLock_AnswerLost(s, c) ==
  /\ pc[s] = "tryLock"
  /\ IF holder \subseteq {c}
     THEN holder' = {c} /\ depth' = depth + 1
     ELSE UNCHANGED <<holder, depth>>
  /\ Goto(s, "unlock")
  /\ UNCHANGED <<due, tick, ran, lost, clear, failures>>

\* pg_try_advisory_lock on session c: granted when the lock is free, and again
\* when c itself has it.
TryLock(s, c) ==
  /\ pc[s] = "tryLock"
  /\ IF holder \subseteq {c}
     THEN holder' = {c} /\ depth' = depth + 1 /\ Goto(s, "job")
     ELSE UNCHANGED <<holder, depth>> /\ Goto(s, "unlock")
  /\ UNCHANGED <<due, tick, ran, lost, clear, failures>>

\* Mutant: the lock is given back as soon as the job has run.
RunJob_NoDelay(s) ==
  /\ pc[s] = "job"
  /\ ran' = ran + 1
  /\ Goto(s, "unlock")
  /\ UNCHANGED <<due, holder, depth, tick, lost, clear, failures>>

\* roReminders catches its own errors and always returns.
RunJob(s) ==
  /\ pc[s] = "job"
  /\ ran' = ran + 1
  /\ Goto(s, "delay")
  /\ UNCHANGED <<due, holder, depth, tick, lost, clear, failures>>

\* The overlap timeout is longer than the clocks of the servers differ: when
\* it has passed, every server has tried.
EndDelay(s) ==
  /\ pc[s] = "delay"
  /\ ~Contended
  /\ Goto(s, "unlock")
  /\ UNCHANGED <<due, holder, depth, tick, ran, lost, clear, failures>>

\* Mutant: whoever unlocks, the lock is released.
Unlock_Any(s, c) ==
  /\ pc[s] = "unlock"
  /\ holder' = {} /\ depth' = 0
  /\ Goto(s, "idle")
  /\ UNCHANGED <<due, tick, ran, lost, clear, failures>>

\* Mutant: an unlock counts whichever session sends it.
Unlock_CountsAll(s, c) ==
  /\ pc[s] = "unlock"
  /\ depth' = depth - 1
  /\ holder' = IF depth <= 1 THEN {} ELSE holder
  /\ Goto(s, "idle")
  /\ UNCHANGED <<due, tick, ran, lost, clear, failures>>

\* pg_advisory_unlock on session c, by everyone who tried: it takes back one
\* acquisition of c's and does nothing when c does not hold the lock.
Unlock(s, c) ==
  /\ pc[s] = "unlock"
  /\ IF holder = {c}
     THEN /\ depth' = depth - 1
          /\ holder' = IF depth = 1 THEN {} ELSE holder
     ELSE UNCHANGED <<holder, depth>>
  /\ Goto(s, "idle")
  /\ UNCHANGED <<due, tick, ran, lost, clear, failures>>

\* The query for the lock fails: the error is passed on after the unlock.
TryLockFails(s) ==
  /\ failures < MaxFailures
  /\ pc[s] = "tryLock"
  /\ failures' = failures + 1
  /\ lost' = lost + 1
  /\ Goto(s, "unlock")
  /\ UNCHANGED <<due, holder, depth, tick, ran, clear>>

-----------------------------------------------------------------------------
(* The environment *)

\* The pool closes a connection that was idle for ten seconds.  No session that
\* took the lock in this tick has been idle that long while a server has still
\* to try, the clocks being closer together.
CloseIdle ==
  /\ holder # {}
  /\ Contended => \A s \in Active : holder \cap SessionsOf(s) = {}
  /\ holder' = {} /\ depth' = 0
  /\ UNCHANGED <<pc, due, tick, ran, lost, clear, failures>>

\* A server stops: its sessions end, and what was due on it is not run.
Crash(s) ==
  /\ failures < MaxFailures
  /\ failures' = failures + 1
  /\ lost' = lost + 1
  /\ due' = due \ {s}
  /\ Goto(s, "idle")
  /\ IF holder \cap SessionsOf(s) # {}
     THEN holder' = {} /\ depth' = 0
     ELSE UNCHANGED <<holder, depth>>
  /\ UNCHANGED <<tick, ran, clear>>

-----------------------------------------------------------------------------
Next ==
  \/ Tick
  \/ \E s \in Servers :
       \/ Fire(s)
       \/ \E c \in SessionsOf(s) : TryLock(s, c) \/ Unlock(s, c)
       \/ RunJob(s) \/ EndDelay(s)
       \/ TryLockFails(s) \/ Crash(s)
  \/ CloseIdle

Spec == Init /\ [][Next]_vars

-----------------------------------------------------------------------------
(* Properties *)

\* Every variable keeps its type; the lock is held a positive number of times
\* by one session, or not at all.
TypeOK ==
  /\ pc \in [Servers -> PCs]
  /\ due \subseteq Servers
  /\ holder \subseteq Sessions
  /\ depth \in Nat
  /\ holder = {} <=> depth = 0
  /\ \A c, d \in holder : c = d
  /\ tick \in Nat
  /\ ran \in Nat /\ lost \in Nat
  /\ clear \in BOOLEAN
  /\ failures \in Nat

\* onceOnly: each time the schedule comes due one server runs the job, and
\* another one does only after a run that died half way.
OncePerTick == ran <= 1 + lost

\* While a server has still to try, a server that runs the job has the lock:
\* what a server without it unlocks, and what the pool closes, is never that.
RunnerHoldsLock ==
  Contended => \A s \in Active : holder # {} /\ holder \subseteq SessionsOf(s)

\* When the schedule comes due with the lock free and nobody dies, the job is
\* run.  (An unlock on the wrong session leaves the lock taken for next time.)
TickNotMissed ==
  tick > 0 /\ due = {} /\ (\A s \in Servers : pc[s] = "idle") /\ clear /\ lost = 0
    => ran = 1
=============================================================================
