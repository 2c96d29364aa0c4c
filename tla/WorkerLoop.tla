------------------------------ MODULE WorkerLoop ------------------------------
(***************************************************************************)
(* The workers that serve the browser API: one event loop each, on which   *)
(* the async handlers run to their next await, and threads for the others. *)
(* The transaction lock is an flock, which blocks whoever calls it: a      *)
(* handler that waits for the lock on the loop keeps the loop.             *)
(* What the handlers do to the transaction is in CaptureTransaction; here  *)
(* a handler is where it locks, unlocks and awaits.                        *)
(***************************************************************************)
EXTENDS Naturals, Sequences

CONSTANTS
    Requests,      \* requests, each sent at most once
    Transactions,
    Workers,       \* processes with an event loop
    Impatient,     \* may a page send a request before the last one is answered?
    None

VARIABLES
    job,    \* kind, transaction and worker of a request that was sent
    where,  \* "unsent", "ready" (to run), "running", "waiting" (for an event), "done"
    pos,    \* its next step
    loop,   \* the request that runs on a worker's event loop
    lock    \* the request that holds a transaction's lock

vars == <<job, where, pos, loop, lock>>

\* The steps of each handler of browser.py.  Portrait processing is an async
\* function without an await: it occupies the loop.
Script == [attempts |-> <<"lock", "unlock">>,
           capture  |-> <<"await", "lock", "unlock">>,
           liveness |-> <<"lock", "unlock", "await", "lock", "unlock">>,
           portrait |-> <<"lock", "unlock", "lock", "unlock">>,
           submit   |-> <<"lock", "await", "unlock">>]
Kinds == DOMAIN Script

\* Every handler declared async.
BugAllAsync == {}
\* Handlers declared with def run in a thread.
Threaded == {"attempts"}

\* The page awaits the answer of each of these; it sends attempts without waiting.
Awaited == {"capture", "liveness", "portrait", "submit"}

ASSUME ConstantsAssumption ==
    /\ Impatient \in BOOLEAN
    /\ None \notin Requests

Jobs == [kind: Kinds, tx: Transactions, worker: Workers]

-------------------------------------------------------------------------------

Steps(r)    == Script[job[r].kind]
AtStep(r, step) == where[r] = "running" /\ pos[r] <= Len(Steps(r)) /\ Steps(r)[pos[r]] = step
InThread(r) == job[r].kind \in Threaded
InFlight(r) == where[r] \in {"ready", "running", "waiting"}

\* A page has a request in flight that it waits for.
Busy(t) == \E r \in Requests : InFlight(r) /\ job[r].tx = t /\ job[r].kind \in Awaited

Init ==
    /\ job = [r \in Requests |-> None]
    /\ where = [r \in Requests |-> "unsent"]
    /\ pos = [r \in Requests |-> 1]
    /\ loop = [w \in Workers |-> None]
    /\ lock = [t \in Transactions |-> None]

\* A page gives up waiting after 15 s; the callback of a submit may take 30 s
\* (three tries of 10 s), and "Retry" is offered while a submit is in flight.
Send(r) ==
    /\ where[r] = "unsent"
    /\ \E j \in Jobs :
          /\ j.kind \in Awaited /\ ~Impatient => ~Busy(j.tx)
          /\ job' = [job EXCEPT ![r] = j]
    /\ where' = [where EXCEPT ![r] = "ready"]
    /\ UNCHANGED <<pos, loop, lock>>

\* The loop runs the handler, or hands it to a thread.
Run(r) ==
    /\ where[r] = "ready"
    /\ loop[job[r].worker] = None
    /\ where' = [where EXCEPT ![r] = "running"]
    /\ loop' = IF InThread(r) THEN loop ELSE [loop EXCEPT ![job[r].worker] = r]
    /\ UNCHANGED <<job, pos, lock>>

\* flock: there is no step while another request holds the lock.
TakeLock(r) ==
    /\ AtStep(r, "lock")
    /\ lock[job[r].tx] = None
    /\ lock' = [lock EXCEPT ![job[r].tx] = r]
    /\ pos' = [pos EXCEPT ![r] = @ + 1]
    /\ UNCHANGED <<job, where, loop>>

GiveLock(r) ==
    /\ AtStep(r, "unlock")
    /\ lock' = [lock EXCEPT ![job[r].tx] = None]
    /\ pos' = [pos EXCEPT ![r] = @ + 1]
    /\ UNCHANGED <<job, where, loop>>

Await(r) ==
    /\ AtStep(r, "await")
    /\ where' = [where EXCEPT ![r] = "waiting"]
    /\ loop' = [loop EXCEPT ![job[r].worker] = None]
    /\ pos' = [pos EXCEPT ![r] = @ + 1]
    /\ UNCHANGED <<job, lock>>

\* The awaited answer arrives, or its timeout falls due.
Event(r) ==
    /\ where[r] = "waiting"
    /\ where' = [where EXCEPT ![r] = "ready"]
    /\ UNCHANGED <<job, pos, loop, lock>>

\* The loop sends the response, that of a thread as well.
Answer(r) ==
    /\ where[r] = "running"
    /\ pos[r] > Len(Steps(r))
    /\ loop[job[r].worker] = IF InThread(r) THEN None ELSE r
    /\ where' = [where EXCEPT ![r] = "done"]
    /\ loop' = [loop EXCEPT ![job[r].worker] = None]
    /\ job' = [job EXCEPT ![r] = None]
    /\ pos' = [pos EXCEPT ![r] = 1]
    /\ UNCHANGED lock

Serve(r) == Run(r) \/ TakeLock(r) \/ GiveLock(r) \/ Await(r) \/ Event(r) \/ Answer(r)

\* Nothing is left to do.
Idle == (\A r \in Requests : where[r] = "done") /\ UNCHANGED vars

Next == (\E r \in Requests : Send(r) \/ Serve(r)) \/ Idle

\* The loop runs what is ready, the kernel grants the lock, events arrive; nobody
\* has to send a request.
Fairness == \A r \in Requests : WF_vars(Serve(r))

Spec == Init /\ [][Next]_vars
FairSpec == Spec /\ Fairness

-------------------------------------------------------------------------------

TypeOK ==
    /\ job \in [Requests -> Jobs \cup {None}]
    /\ where \in [Requests -> {"unsent", "ready", "running", "waiting", "done"}]
    /\ pos \in [Requests -> Nat \ {0}]
    /\ loop \in [Workers -> Requests \cup {None}]
    /\ lock \in [Transactions -> Requests \cup {None}]

\* An event loop that is blocked in flock waits for a request that runs, and does
\* so in a thread: never for one that itself needs an event loop to go on.
BlockedLoopWaitsForThread ==
    \A w \in Workers :
        loop[w] # None /\ AtStep(loop[w], "lock") =>
            LET holder == lock[job[loop[w]].tx]
            IN  holder # None => where[holder] = "running" /\ InThread(holder)

\* "Concurrent Submits cannot double-deliver or overwrite each other"
\* (browser.py:639), at the price of a delay: every request is answered.
AllAnswered == \A r \in Requests : where[r] # "unsent" ~> where[r] = "done"
===============================================================================
