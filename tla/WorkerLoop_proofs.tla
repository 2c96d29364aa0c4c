--------------------------- MODULE WorkerLoop_proofs ---------------------------
(***************************************************************************)
(* No event loop of a patient page blocks itself, whatever the number of   *)
(* requests, transactions and workers.                                     *)
(***************************************************************************)
EXTENDS WorkerLoop, TLAPS

\* The steps of a handler at which it holds the lock.
HeldAt == [attempts |-> {2}, capture |-> {3}, liveness |-> {2, 5},
           portrait |-> {2, 4}, submit |-> {2, 3}]

\* The lock is held by the request that is between its lock and unlock steps.
LockInv ==
    /\ \A r \in Requests : InFlight(r) => job[r] \in Jobs
    /\ \A r \in Requests : InFlight(r) /\ pos[r] \in HeldAt[job[r].kind] =>
                               lock[job[r].tx] = r
    /\ \A t \in Transactions : lock[t] # None =>
           /\ InFlight(lock[t])
           /\ job[lock[t]].tx = t
           /\ pos[lock[t]] \in HeldAt[job[lock[t]].kind]

\* A loop runs async handlers, and a thread is not interrupted.
LoopInv ==
    /\ \A w \in Workers : loop[w] # None =>
           where[loop[w]] = "running" /\ ~InThread(loop[w]) /\ job[loop[w]].worker = w
    /\ \A r \in Requests : InFlight(r) /\ InThread(r) =>
           where[r] = "running" \/ (where[r] = "ready" /\ pos[r] = 1)
    /\ \A r \in Requests : where[r] = "unsent" => pos[r] = 1

\* A patient page has one request in flight, besides its attempts.
PatientInv ==
    \A r, s \in Requests :
        /\ InFlight(r) /\ job[r].kind \in Awaited
        /\ InFlight(s) /\ job[s].kind \in Awaited
        /\ job[r].tx = job[s].tx
        => r = s

\* The handlers of the browser API.
LEMMA KindsFact == Kinds = {"attempts", "capture", "liveness", "portrait", "submit"}
  BY DEF Kinds, Script

\* A handler starts without the lock.
LEMMA StartFact == \A k \in Kinds : 1 \notin HeldAt[k]
  BY KindsFact DEF HeldAt

\* What a step of a handler does to its holding of the lock.
LEMMA StepFact ==
  ASSUME NEW k \in Kinds, NEW p \in Nat \ {0}
  PROVE  /\ p > Len(Script[k]) => p \notin HeldAt[k]
         /\ p <= Len(Script[k]) /\ Script[k][p] = "lock" =>
                p \notin HeldAt[k] /\ p + 1 \in HeldAt[k]
         /\ p <= Len(Script[k]) /\ Script[k][p] = "unlock" =>
                p \in HeldAt[k] /\ p + 1 \notin HeldAt[k]
         /\ p <= Len(Script[k]) /\ Script[k][p] = "await" =>
                k \notin Threaded /\ (p \in HeldAt[k] <=> p + 1 \in HeldAt[k])
<1> USE DEF HeldAt, Script, Threaded
<1>1. CASE k = "attempts"
  BY <1>1
<1>2. CASE k = "capture"
  BY <1>2
<1>3. CASE k = "liveness"
  BY <1>3
<1>4. CASE k = "portrait"
  BY <1>4
<1>5. CASE k = "submit"
  BY <1>5
<1>6. QED
  BY KindsFact, <1>1, <1>2, <1>3, <1>4, <1>5

\* Types: a request that is served has a job.
LEMMA TypeNext ==
  ASSUME TypeOK, LockInv, [Next]_vars
  PROVE  TypeOK'
<1> USE DEF TypeOK
<1>1. ASSUME NEW r \in Requests, Send(r) PROVE TypeOK'
  BY <1>1 DEF Send
<1>2. ASSUME NEW r \in Requests, InFlight(r), Serve(r) PROVE TypeOK'
  <2>1. job[r] \in Jobs /\ job[r].worker \in Workers /\ job[r].tx \in Transactions
    BY <1>2 DEF LockInv, Jobs
  <2>2. CASE Run(r) \/ Event(r)
    BY <2>1, <2>2 DEF Run, Event
  <2>3. CASE TakeLock(r) \/ GiveLock(r)
    BY <2>1, <2>3 DEF TakeLock, GiveLock
  <2>4. CASE Await(r)
    BY <2>1, <2>4 DEF Await
  <2>5. CASE Answer(r)
    BY <2>1, <2>5 DEF Answer
  <2>6. QED
    BY <1>2, <2>2, <2>3, <2>4, <2>5 DEF Serve
<1>3. \A r \in Requests : Serve(r) => InFlight(r)
  BY DEF Serve, InFlight, Run, TakeLock, GiveLock, Await, Event, Answer, AtStep
<1>4. CASE UNCHANGED vars
  BY <1>4 DEF vars
<1>5. QED
  BY <1>1, <1>2, <1>3, <1>4 DEF Next, Idle

\* The lock passes from unlock step to lock step, across the awaits between them.
LEMMA LockNext ==
  ASSUME TypeOK, LockInv, LoopInv, [Next]_vars
  PROVE  LockInv'
<1> USE ConstantsAssumption DEF LockInv, InFlight
<1>1. /\ where \in [Requests -> {"unsent", "ready", "running", "waiting", "done"}]
     /\ pos \in [Requests -> Nat \ {0}]
     /\ job \in [Requests -> Jobs \cup {None}]
     /\ lock \in [Transactions -> Requests \cup {None}]
     /\ \A j \in Jobs : j.kind \in Kinds /\ j.tx \in Transactions
  BY DEF TypeOK, Jobs
<1>2. ASSUME NEW r \in Requests, Send(r) PROVE LockInv'
  <2>1. PICK j \in Jobs : job' = [job EXCEPT ![r] = j]
    BY <1>2 DEF Send
  <2>2. pos[r] \notin HeldAt[j.kind]
    BY <1>1, <1>2, StartFact DEF Send, LoopInv
  <2>3. \A t \in Transactions : lock[t] # r
    BY <1>2 DEF Send
  <2>4. QED
    BY <1>1, <1>2, <2>1, <2>2, <2>3 DEF Send
<1>3. ASSUME NEW r \in Requests, Run(r) \/ Event(r) PROVE LockInv'
  BY <1>1, <1>3 DEF Run, Event
<1>4. ASSUME NEW r \in Requests, TakeLock(r) PROVE LockInv'
  <2>1. pos[r] + 1 \in HeldAt[job[r].kind]
    BY <1>1, <1>4, StepFact DEF TakeLock, AtStep, Steps
  <2>2. QED
    BY <1>1, <1>4, <2>1 DEF TakeLock, AtStep
<1>5. ASSUME NEW r \in Requests, GiveLock(r) PROVE LockInv'
  <2>1. pos[r] \in HeldAt[job[r].kind] /\ pos[r] + 1 \notin HeldAt[job[r].kind]
    BY <1>1, <1>5, StepFact DEF GiveLock, AtStep, Steps
  <2>2. \A t \in Transactions : lock[t] = r => t = job[r].tx
    BY <1>1
  <2>3. QED
    BY <1>1, <1>5, <2>1, <2>2 DEF GiveLock, AtStep
<1>6. ASSUME NEW r \in Requests, Await(r) PROVE LockInv'
  <2>1. pos[r] \in HeldAt[job[r].kind] <=> pos[r] + 1 \in HeldAt[job[r].kind]
    BY <1>1, <1>6, StepFact DEF Await, AtStep, Steps
  <2>2. QED
    BY <1>1, <1>6, <2>1 DEF Await, AtStep
<1>7. ASSUME NEW r \in Requests, Answer(r) PROVE LockInv'
  <2>1. pos[r] \notin HeldAt[job[r].kind]
    BY <1>1, <1>7, StepFact DEF Answer, Steps
  <2>2. \A t \in Transactions : lock[t] # r
    BY <1>1, <2>1
  <2>3. QED
    BY <1>1, <1>7, <2>2 DEF Answer
<1>8. CASE UNCHANGED vars
  BY <1>8 DEF vars
<1>9. QED
  BY <1>2, <1>3, <1>4, <1>5, <1>6, <1>7, <1>8 DEF Next, Serve, Idle

\* A loop is given up at an await or at the end, and a thread has no await.
LEMMA LoopNext ==
  ASSUME TypeOK, LockInv, LoopInv, [Next]_vars
  PROVE  LoopInv'
<1> USE ConstantsAssumption DEF LoopInv, InFlight, InThread
<1>1. /\ where \in [Requests -> {"unsent", "ready", "running", "waiting", "done"}]
     /\ pos \in [Requests -> Nat \ {0}]
     /\ job \in [Requests -> Jobs \cup {None}]
     /\ loop \in [Workers -> Requests \cup {None}]
     /\ \A j \in Jobs : j.kind \in Kinds /\ j.worker \in Workers
  BY DEF TypeOK, Jobs
<1>2. ASSUME NEW r \in Requests, Send(r) PROVE LoopInv'
  BY <1>1, <1>2 DEF Send
<1>3. ASSUME NEW r \in Requests, Run(r) \/ Event(r) PROVE LoopInv'
  BY <1>1, <1>3 DEF Run, Event
<1>4. ASSUME NEW r \in Requests, TakeLock(r) \/ GiveLock(r) PROVE LoopInv'
  BY <1>1, <1>4 DEF TakeLock, GiveLock, AtStep
<1>5. ASSUME NEW r \in Requests, Await(r) PROVE LoopInv'
  <2>1. ~InThread(r)
    BY <1>1, <1>5, StepFact DEF Await, AtStep, Steps, LockInv
  <2>2. QED
    BY <1>1, <1>5, <2>1 DEF Await, AtStep
<1>6. ASSUME NEW r \in Requests, Answer(r) PROVE LoopInv'
  BY <1>1, <1>6 DEF Answer
<1>7. CASE UNCHANGED vars
  BY <1>7 DEF vars
<1>8. QED
  BY <1>2, <1>3, <1>4, <1>5, <1>6, <1>7 DEF Next, Serve, Idle

\* A patient page sends its next request when the last one is answered.
LEMMA PatientNext ==
  ASSUME Impatient = FALSE, TypeOK, PatientInv, [Next]_vars
  PROVE  PatientInv'
<1> USE DEF PatientInv, InFlight
<1>1. /\ where \in [Requests -> {"unsent", "ready", "running", "waiting", "done"}]
     /\ job \in [Requests -> Jobs \cup {None}]
  BY DEF TypeOK
<1>2. ASSUME NEW r \in Requests, Send(r) PROVE PatientInv'
  BY <1>1, <1>2 DEF Send, Busy
<1>3. ASSUME NEW r \in Requests, Serve(r) PROVE PatientInv'
  BY <1>1, <1>3 DEF Serve, Run, TakeLock, GiveLock, Await, Event, Answer, AtStep
<1>4. CASE UNCHANGED vars
  BY <1>4 DEF vars
<1>5. QED
  BY <1>2, <1>3, <1>4 DEF Next, Idle

\* A patient page never makes an event loop wait for a request that needs an event
\* loop itself.
THEOREM PatientPagesBlockNoLoop ==
  ASSUME Impatient = FALSE
  PROVE  Spec => []BlockedLoopWaitsForThread
<1> DEFINE Inv == TypeOK /\ LockInv /\ LoopInv /\ PatientInv
<1>1. Init => Inv
  BY ConstantsAssumption DEF Init, TypeOK, LockInv, LoopInv, PatientInv, InFlight
<1>2. Inv /\ [Next]_vars => Inv'
  BY TypeNext, LockNext, LoopNext, PatientNext
<1>3. ASSUME Inv, NEW w \in Workers, loop[w] # None, AtStep(loop[w], "lock"),
             lock[job[loop[w]].tx] # None
      PROVE  where[lock[job[loop[w]].tx]] = "running" /\ InThread(lock[job[loop[w]].tx])
  <2> DEFINE r == loop[w]
             s == lock[job[r].tx]
  <2>1. r \in Requests /\ InFlight(r) /\ job[r] \in Jobs /\ ~InThread(r)
    BY <1>3 DEF TypeOK, LockInv, LoopInv, InFlight
  <2>2. s \in Requests /\ InFlight(s) /\ job[s] \in Jobs /\ job[s].tx = job[r].tx
    BY <1>3, <2>1 DEF TypeOK, LockInv, Jobs
  <2>3. pos[s] \in HeldAt[job[s].kind] /\ pos[r] \notin HeldAt[job[r].kind]
    BY <1>3, <2>1, <2>2, StepFact DEF TypeOK, LockInv, AtStep, Steps, Jobs
  <2>4. job[s].kind \notin Awaited
    BY <1>3, <2>1, <2>2, <2>3, KindsFact DEF PatientInv, InThread, Jobs, Awaited, Threaded
  <2>5. InThread(s)
    BY <2>2, <2>4, KindsFact DEF InThread, Jobs, Awaited, Threaded
  <2>6. where[s] = "running"
    BY <1>3, <2>2, <2>3, <2>5, StartFact DEF LoopInv, Jobs
  <2>7. QED
    BY <2>5, <2>6
<1>4. Inv => BlockedLoopWaitsForThread
  BY <1>3 DEF BlockedLoopWaitsForThread
<1>5. QED
  BY <1>1, <1>2, <1>4, PTL DEF Spec
===============================================================================
