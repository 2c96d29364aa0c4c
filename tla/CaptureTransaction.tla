-------------------------- MODULE CaptureTransaction --------------------------
(***************************************************************************)
(* One transaction of the browser flow: the files of its folder, its       *)
(* advisory lock and the requests that serve it (backend/app/api/v1/       *)
(* browser.py over transactions/store.py and experiments/vlm/liveness.py). *)
(*                                                                         *)
(* A request is a sequence of steps; a step ends where another worker can  *)
(* see the difference: at a read made without the lock, at the acquisition *)
(* of the lock, and after every file written while it is held: a file is   *)
(* replaced atomically (store.py _write_atomic) and a request may die      *)
(* between two writes.  Writes of one step are those whose separation only *)
(* a status that is not terminal would show.                               *)
(***************************************************************************)
EXTENDS Naturals, FiniteSets

CONSTANTS
    Requests,        \* request slots of all workers
    Attempts,        \* attempt ids minted by the browser, one per capture
    Images,          \* contents of an uploaded image (its SHA-256)
    AttemptLimit,    \* capture_attempt_limit
    FaultPoints,     \* steps at which a request may die (crash, storage error)
    MaxFaults,       \* bound on the number of deaths
    MaxEvaluations,  \* bound on the number of provider evaluations
    SlowProvider,    \* does a provider call outlive its timeout, and the claim?
    None             \* an absent file or an unset local

VARIABLES
    \* transaction.json and the active browser session
    status, session,
    \* attempts/attempts.json
    consumed, uploaded,
    \* capture/selected-original.jpg and capture/capture.json
    image, meta,
    \* liveness/<identity>.json and liveness/claim-<identity>.json
    evals, evalClaim,
    \* decisions/decision.json
    decision,
    \* liveness/portrait-claim-<identity>.json, portrait/candidates/<identity>.jpg
    portraitClaim, candidate,
    \* portrait/processed.jpg and portrait/authorization.json
    portrait, auth,
    \* the callback state file
    callback,
    \* who holds .lock
    lock,
    \* per request: next step, capture it works for, face box it has read,
    \* image it has read, evaluation or decision it works for
    pc, key, box, seen, num,
    \* what the outside world has seen: images the provider accepted, payloads
    \* the consumer received
    approved, delivered,
    \* the bounds
    evaluations, faults

attemptVars  == <<consumed, uploaded>>
captureVars  == <<image, meta>>
evalVars     == <<evals, evalClaim, evaluations, approved>>
portraitVars == <<portraitClaim, candidate>>
authVars     == <<decision, portrait, auth>>
submitVars   == <<callback, delivered>>
statusVars   == <<status, session>>
localVars    == <<key, box, seen, num>>

vars == <<statusVars, attemptVars, captureVars, evalVars, portraitVars, authVars,
          submitVars, lock, pc, localVars, faults>>

-------------------------------------------------------------------------------
(* Values *)

Identities == [attempt: Attempts, image: Images]
Portraits  == [source: Images, box: Attempts \cup {None}]
Statuses   == {"LAUNCHED", "CAPTURE_READY", "DECISION_READY", "PORTRAIT_READY",
               "CALLBACK_FAILED", "COMPLETED", "ATTEMPT_LIMIT_EXCEEDED", "FAILED"}
Terminal   == {"COMPLETED", "ATTEMPT_LIMIT_EXCEEDED", "FAILED"}
\* CONTRADICTORY: not a PASS, by an answer whose person states contradict each other.
Outcomes   == {"PASS", "NOT_PASS", "CONTRADICTORY"}
Decisions  == [id: Nat, identity: Identities, outcome: Outcomes]
Auths      == [id: Nat, identity: Identities, portrait: Portraits]
Payloads   == [portrait: Portraits, identity: Identities]

\* Steps made while the lock is held.
Locked == {"attempt_save", "capture_save", "capture_image", "capture_meta",
           "capture_invalidate", "liveness_decide", "portrait_authorize",
           "submit_send", "submit_failed", "submit_acknowledge", "submit_complete",
           "submit_revoke"}
Unlocked == {"idle", "redeem", "attempt", "capture", "liveness_key",
             "liveness_claim", "liveness_read", "liveness_provider",
             "portrait_box", "portrait_claim", "portrait_read", "portrait_write",
             "portrait_fail", "portrait_promote", "submit"}
Labels == Locked \cup Unlocked

ASSUME ConstantsAssumption ==
    /\ AttemptLimit \in Nat \ {0}
    /\ MaxFaults \in Nat
    /\ MaxEvaluations \in Nat
    /\ FaultPoints \subseteq Labels \ {"idle"}
    /\ SlowProvider \in BOOLEAN
    /\ None \notin Identities \cup Images \cup Attempts \cup Requests
                   \cup Portraits \cup Decisions \cup Auths \cup Outcomes
    /\ IsFiniteSet(Attempts)

-------------------------------------------------------------------------------
(* Predicates over the folder.  A definition whose name starts with "Bug" is  *)
(* what a plausible mistake would make of the definition that follows it; no  *)
(* action uses it, the properties are checked to notice it.                   *)

\* The decision is not compared with the capture.
BugAnyCapturePasses == decision # None /\ meta # None /\ decision.outcome = "PASS"

\* The canonical decision is a PASS bound to the current capture.
CurrentPass ==
    /\ decision # None /\ meta # None
    /\ decision.outcome = "PASS"
    /\ decision.identity = meta

\* The authorization is compared with the portrait only.
BugAnyCaptureAuthorized == meta # None /\ auth # None /\ portrait # None /\ auth.portrait = portrait

\* The processed portrait on disk is authorized by that decision.
AuthorizationCurrent ==
    /\ CurrentPass
    /\ auth # None /\ portrait # None
    /\ auth.id = decision.id
    /\ auth.identity = meta
    /\ auth.portrait = portrait

\* The decision and capture a portrait request started from are still current.
SnapshotMatches(r) ==
    /\ CurrentPass
    /\ decision.id = num[r]
    /\ meta = key[r]

\* A terminal status is replaced by terminal statuses only.
SetStatus(s) == status' = IF status \in Terminal /\ s \notin Terminal THEN status ELSE s

-------------------------------------------------------------------------------
(* Control of a request *)

Goto(r, label)  == pc' = [pc EXCEPT ![r] = label]
Acquire(r)      == lock = None /\ lock' = r
LockFree        == lock = None /\ lock' = None
KeepLock        == UNCHANGED lock
Release         == lock' = None
Keep            == UNCHANGED localVars

\* The response is sent: the slot is free again.
Return(r) ==
    /\ pc'   = [pc EXCEPT ![r] = "idle"]
    /\ key'  = [key EXCEPT ![r] = None]
    /\ box'  = [box EXCEPT ![r] = None]
    /\ seen' = [seen EXCEPT ![r] = None]
    /\ num'  = [num EXCEPT ![r] = 0]

\* require_active_session, require_csrf and the terminal check, which reads the
\* status WITHOUT the lock.
Admit(r, label) ==
    /\ pc[r] = "idle"
    /\ session = "ACTIVE"
    /\ status \notin Terminal
    /\ Goto(r, label)

Init ==
    /\ status = "LAUNCHED" /\ session = "none"
    /\ consumed = {} /\ uploaded = {}
    /\ image = None /\ meta = None
    /\ evals = [i \in Identities |-> None]
    /\ evalClaim = [i \in Identities |-> "none"]
    /\ portraitClaim = [i \in Identities |-> "none"]
    /\ candidate = [i \in Identities |-> None]
    /\ decision = None /\ portrait = None /\ auth = None
    /\ callback = "none"
    /\ lock = None
    /\ pc = [r \in Requests |-> "idle"]
    /\ key = [r \in Requests |-> None]
    /\ box = [r \in Requests |-> None]
    /\ seen = [r \in Requests |-> None]
    /\ num = [r \in Requests |-> 0]
    /\ approved = {} /\ delivered = {}
    /\ evaluations = 0 /\ faults = 0

-------------------------------------------------------------------------------
(* GET /xbiz/live_photo/l/{token}: the status is read without the lock; the   *)
(* session is created under it.  A terminal transaction gets a TERMINAL       *)
(* session, which admits no handler below and changes nothing here.           *)

RedeemCheck(r) ==
    /\ pc[r] = "idle"
    /\ IF status \in {"COMPLETED", "ATTEMPT_LIMIT_EXCEEDED"}
       THEN UNCHANGED pc
       ELSE Goto(r, "redeem")
    /\ KeepLock /\ Keep
    /\ UNCHANGED <<statusVars, attemptVars, captureVars, evalVars, portraitVars,
                   authVars, submitVars, faults>>

RedeemCreate(r) ==
    /\ pc[r] = "redeem"
    /\ LockFree
    /\ session' = "ACTIVE"
    /\ Return(r)
    /\ UNCHANGED <<status, attemptVars, captureVars, evalVars, portraitVars,
                   authVars, submitVars, faults>>

-------------------------------------------------------------------------------
(* POST /attempts and the registration half of POST /capture.  The stored     *)
(* attempt_count is the number of consumed ids.                               *)

AttemptAdmit(r) ==
    /\ Admit(r, "attempt")
    /\ \E a \in Attempts, i \in Images :
           key' = [key EXCEPT ![r] = [attempt |-> a, image |-> i]]
    /\ KeepLock
    /\ UNCHANGED <<statusVars, attemptVars, captureVars, evalVars, portraitVars,
                   authVars, submitVars, box, seen, num, faults>>

CaptureAdmit(r) ==
    /\ Admit(r, "capture")
    /\ \E a \in Attempts, i \in Images :
           key' = [key EXCEPT ![r] = [attempt |-> a, image |-> i]]
    /\ KeepLock
    /\ UNCHANGED <<statusVars, attemptVars, captureVars, evalVars, portraitVars,
                   authVars, submitVars, box, seen, num, faults>>

\* Uploads are not remembered.
BugNeverUploaded(r) == FALSE
\* The attempt has had its upload.
AlreadyUploaded(r) == key[r].attempt \in uploaded

\* A second upload of an attempt is refused (UPLOAD_ALREADY_RECORDED).
CaptureRefused(r) ==
    /\ pc[r] = "capture"
    /\ LockFree
    /\ AlreadyUploaded(r)
    /\ Return(r)
    /\ UNCHANGED <<statusVars, attemptVars, captureVars, evalVars, portraitVars,
                   authVars, submitVars, faults>>

\* The attempt that reaches the limit goes on.
BugReachesLimitLate(r) == Cardinality(consumed \cup {key[r].attempt}) > AttemptLimit
\* The attempt uses up the limit; one that is counted already may do so again.
ReachesLimit(r) == Cardinality(consumed \cup {key[r].attempt}) >= AttemptLimit

\* The status of an attempt that reaches the limit is written before the counter.
Register(r, from, to) ==
    /\ pc[r] = from
    /\ Acquire(r)
    /\ IF ReachesLimit(r) THEN SetStatus("ATTEMPT_LIMIT_EXCEEDED") ELSE UNCHANGED status
    /\ Goto(r, to)
    /\ Keep
    /\ UNCHANGED <<session, attemptVars, captureVars, evalVars, portraitVars,
                   authVars, submitVars, faults>>

AttemptRegister(r) == Register(r, "attempt", "attempt_save")

CaptureRegister(r) ==
    /\ pc[r] = "capture"
    /\ ~AlreadyUploaded(r)
    /\ Register(r, "capture", "capture_save")

AttemptSave(r) ==
    /\ pc[r] = "attempt_save"
    /\ consumed' = consumed \cup {key[r].attempt}
    /\ Release /\ Return(r)
    /\ UNCHANGED <<statusVars, uploaded, captureVars, evalVars, portraitVars,
                   authVars, submitVars, faults>>

\* The attempt that reaches the limit is terminal: its image is not stored.
CaptureSave(r) ==
    /\ pc[r] = "capture_save"
    /\ consumed' = consumed \cup {key[r].attempt}
    /\ uploaded' = uploaded \cup {key[r].attempt}
    /\ IF ReachesLimit(r)
       THEN Release /\ Return(r)
       ELSE KeepLock /\ Goto(r, "capture_image") /\ Keep
    /\ UNCHANGED <<statusVars, captureVars, evalVars, portraitVars,
                   authVars, submitVars, faults>>

CaptureImage(r) ==
    /\ pc[r] = "capture_image"
    /\ image' = key[r].image
    /\ Goto(r, "capture_meta")
    /\ KeepLock /\ Keep
    /\ UNCHANGED <<statusVars, attemptVars, meta, evalVars, portraitVars,
                   authVars, submitVars, faults>>

CaptureMeta(r) ==
    /\ pc[r] = "capture_meta"
    /\ meta' = key[r]
    /\ Goto(r, "capture_invalidate")
    /\ KeepLock /\ Keep
    /\ UNCHANGED <<statusVars, attemptVars, image, evalVars, portraitVars,
                   authVars, submitVars, faults>>

\* Each removal is best effort: a failed one is logged and skipped.
CaptureInvalidate(r) ==
    /\ pc[r] = "capture_invalidate"
    /\ \E removed \in SUBSET {"decision", "portrait", "auth"} :
          /\ \/ removed = {"decision", "portrait", "auth"} /\ UNCHANGED faults
             \/ /\ "capture_invalidate" \in FaultPoints
                /\ faults < MaxFaults
                /\ faults' = faults + 1
          /\ decision' = IF "decision" \in removed THEN None ELSE decision
          /\ portrait' = IF "portrait" \in removed THEN None ELSE portrait
          /\ auth' = IF "auth" \in removed THEN None ELSE auth
    /\ SetStatus("CAPTURE_READY")
    /\ Release /\ Return(r)
    /\ UNCHANGED <<session, attemptVars, captureVars, evalVars, portraitVars, submitVars>>

-------------------------------------------------------------------------------
(* POST /liveness: evaluation of the stored capture by the provider.          *)

LivenessAdmit(r) ==
    /\ Admit(r, "liveness_key")
    /\ evaluations < MaxEvaluations
    /\ KeepLock /\ Keep
    /\ UNCHANGED <<statusVars, attemptVars, captureVars, evalVars, portraitVars,
                   authVars, submitVars, faults>>

\* capture.json is read without the lock; no capture is CAPTURE_NOT_READY.
LivenessKey(r) ==
    /\ pc[r] = "liveness_key"
    /\ IF meta = None
       THEN Return(r)
       ELSE /\ key' = [key EXCEPT ![r] = meta]
            /\ Goto(r, "liveness_claim")
            /\ UNCHANGED <<box, seen, num>>
    /\ KeepLock
    /\ UNCHANGED <<statusVars, attemptVars, captureVars, evalVars, portraitVars,
                   authVars, submitVars, faults>>

\* is_current_evaluation: a contradictory record is never used again.
Reusable(record) == record \notin {None, "CONTRADICTORY"}

\* A cached verdict (or error) is returned as it is, a fresh claim is
\* LIVENESS_IN_PROGRESS.
LivenessCached(r) ==
    /\ pc[r] = "liveness_claim"
    /\ LockFree
    /\ Reusable(evals[key[r]]) \/ evalClaim[key[r]] = "fresh"
    /\ Return(r)
    /\ UNCHANGED <<statusVars, attemptVars, captureVars, evalVars, portraitVars,
                   authVars, submitVars, faults>>

\* No claim, or a stale one, which is taken over.
LivenessClaim(r) ==
    /\ pc[r] = "liveness_claim"
    /\ LockFree
    /\ ~Reusable(evals[key[r]])
    /\ evalClaim[key[r]] # "fresh"
    /\ evaluations' = evaluations + 1
    /\ num' = [num EXCEPT ![r] = evaluations']
    /\ evalClaim' = [evalClaim EXCEPT ![key[r]] = "fresh"]
    /\ Goto(r, "liveness_read")
    /\ UNCHANGED <<statusVars, attemptVars, captureVars, evals, approved, portraitVars,
                   authVars, submitVars, key, box, seen, faults>>

\* The image is read without the lock.
LivenessRead(r) ==
    /\ pc[r] = "liveness_read"
    /\ seen' = [seen EXCEPT ![r] = image]
    /\ Goto(r, "liveness_provider")
    /\ KeepLock
    /\ UNCHANGED <<statusVars, attemptVars, captureVars, evalVars, portraitVars,
                   authVars, submitVars, key, box, num, faults>>

\* The provider answers PASS or NOT_PASS for the image it was sent, or the call
\* fails: "ERROR" is a normalized error payload, "RAISED" a VlmError.  The claim
\* is cleared whoever owns it.  The result of a superseded capture is kept as
\* history only; a verdict on the current one goes on to the decision.
LivenessRecord(r) ==
    /\ pc[r] = "liveness_provider"
    /\ lock = None
    /\ evalClaim' = [evalClaim EXCEPT ![key[r]] = "none"]
    /\ \E verdict \in Outcomes \cup {"ERROR", "RAISED"} :
          /\ approved' = IF verdict = "PASS" THEN approved \cup {seen[r]} ELSE approved
          /\ evals' = IF verdict = "RAISED"
                      THEN IF meta = key[r]
                           THEN [evals EXCEPT ![key[r]] = "ERROR"]
                           ELSE evals
                      ELSE [evals EXCEPT ![key[r]] = verdict]
          /\ IF meta = key[r] /\ verdict \in Outcomes
             THEN lock' = r /\ Goto(r, "liveness_decide") /\ Keep
             ELSE Release /\ Return(r)
    /\ UNCHANGED <<statusVars, attemptVars, captureVars, evaluations, portraitVars,
                   authVars, submitVars, faults>>

\* The decision is bound to the capture's identity; its id is fresh.
LivenessDecide(r) ==
    /\ pc[r] = "liveness_decide"
    /\ decision' = [id |-> num[r], identity |-> key[r], outcome |-> evals[key[r]]]
    /\ SetStatus("DECISION_READY")
    /\ Release /\ Return(r)
    /\ UNCHANGED <<session, attemptVars, captureVars, evalVars, portraitVars,
                   portrait, auth, submitVars, faults>>

-------------------------------------------------------------------------------
(* POST /portrait: portrait of the current capture, made outside the lock     *)
(* into a candidate file and promoted under it.                               *)

PortraitAdmit(r) ==
    /\ Admit(r, "portrait_box")
    /\ KeepLock /\ Keep
    /\ UNCHANGED <<statusVars, attemptVars, captureVars, evalVars, portraitVars,
                   authVars, submitVars, faults>>

\* The face box of the capture is read from capture.json without the lock; before
\* any capture the box of the request itself is used.
PortraitBox(r) ==
    /\ pc[r] = "portrait_box"
    /\ box' = [box EXCEPT ![r] = IF meta = None THEN None ELSE meta.attempt]
    /\ Goto(r, "portrait_claim")
    /\ KeepLock
    /\ UNCHANGED <<statusVars, attemptVars, captureVars, evalVars, portraitVars,
                   authVars, submitVars, key, seen, num, faults>>

\* An authorized portrait is reused, a missing PASS is NOT_READY, a fresh claim
\* is PORTRAIT_IN_PROGRESS.
PortraitSettled(r) ==
    /\ pc[r] = "portrait_claim"
    /\ LockFree
    /\ \/ AuthorizationCurrent
       \/ ~CurrentPass
       \/ CurrentPass /\ portraitClaim[meta] = "fresh"
    /\ Return(r)
    /\ UNCHANGED <<statusVars, attemptVars, captureVars, evalVars, portraitVars,
                   authVars, submitVars, faults>>

PortraitClaim(r) ==
    /\ pc[r] = "portrait_claim"
    /\ LockFree
    /\ CurrentPass /\ ~AuthorizationCurrent
    /\ portraitClaim[meta] # "fresh"
    /\ portraitClaim' = [portraitClaim EXCEPT ![meta] = "fresh"]
    /\ key' = [key EXCEPT ![r] = meta]
    /\ num' = [num EXCEPT ![r] = decision.id]
    /\ Goto(r, "portrait_read")
    /\ UNCHANGED <<statusVars, attemptVars, captureVars, evalVars, candidate,
                   authVars, submitVars, box, seen, faults>>

PortraitRead(r) ==
    /\ pc[r] = "portrait_read"
    /\ seen' = [seen EXCEPT ![r] = image]
    /\ Goto(r, "portrait_write")
    /\ KeepLock
    /\ UNCHANGED <<statusVars, attemptVars, captureVars, evalVars, portraitVars,
                   authVars, submitVars, key, box, num, faults>>

\* The pipeline writes the candidate of its identity or raises.
PortraitWrite(r) ==
    /\ pc[r] = "portrait_write"
    /\ \/ /\ candidate' = [candidate EXCEPT ![key[r]] =
                              [source |-> seen[r], box |-> box[r]]]
          /\ Goto(r, "portrait_promote")
       \/ UNCHANGED candidate /\ Goto(r, "portrait_fail")
    /\ KeepLock /\ Keep
    /\ UNCHANGED <<statusVars, attemptVars, captureVars, evalVars, portraitClaim,
                   authVars, submitVars, faults>>

PortraitFail(r) ==
    /\ pc[r] = "portrait_fail"
    /\ LockFree
    /\ portraitClaim' = [portraitClaim EXCEPT ![key[r]] = "none"]
    /\ Return(r)
    /\ UNCHANGED <<statusVars, attemptVars, captureVars, evalVars, candidate,
                   authVars, submitVars, faults>>

\* A superseded request discards its candidate; a candidate another worker has
\* already consumed ends in an error.
PortraitDiscard(r) ==
    /\ pc[r] = "portrait_promote"
    /\ LockFree
    /\ ~SnapshotMatches(r) \/ candidate[key[r]] = None
    /\ portraitClaim' = [portraitClaim EXCEPT ![key[r]] = "none"]
    /\ candidate' = [candidate EXCEPT ![key[r]] = None]
    /\ Return(r)
    /\ UNCHANGED <<statusVars, attemptVars, captureVars, evalVars, authVars,
                   submitVars, faults>>

PortraitPromote(r) ==
    /\ pc[r] = "portrait_promote"
    /\ Acquire(r)
    /\ SnapshotMatches(r)
    /\ candidate[key[r]] # None
    /\ portraitClaim' = [portraitClaim EXCEPT ![key[r]] = "none"]
    /\ portrait' = candidate[key[r]]
    /\ Goto(r, "portrait_authorize")
    /\ Keep
    /\ UNCHANGED <<statusVars, attemptVars, captureVars, evalVars, candidate,
                   decision, auth, submitVars, faults>>

PortraitAuthorize(r) ==
    /\ pc[r] = "portrait_authorize"
    /\ candidate' = [candidate EXCEPT ![key[r]] = None]
    /\ auth' = [id |-> num[r], identity |-> key[r], portrait |-> portrait]
    /\ SetStatus("PORTRAIT_READY")
    /\ Release /\ Return(r)
    /\ UNCHANGED <<session, attemptVars, captureVars, evalVars, portraitClaim,
                   decision, portrait, submitVars, faults>>

-------------------------------------------------------------------------------
(* POST /submit: the lock is held from the checks to the last write, the      *)
(* callback included.                                                         *)

\* The session is checked, the status is read later, under the lock.
SubmitAdmit(r) ==
    /\ pc[r] = "idle"
    /\ session = "ACTIVE"
    /\ Goto(r, "submit")
    /\ KeepLock /\ Keep
    /\ UNCHANGED <<statusVars, attemptVars, captureVars, evalVars, portraitVars,
                   authVars, submitVars, faults>>

\* The status is not read again under the lock.
BugAnyStatus == AuthorizationCurrent
Submittable == status \notin Terminal /\ AuthorizationCurrent

\* A stored acknowledgement is not looked up.
BugDeliverAgain == Submittable
Deliverable == Submittable /\ callback # "ACKNOWLEDGED"

\* Refused, or answered from the stored acknowledgement.
SubmitSettled(r) ==
    /\ pc[r] = "submit"
    /\ LockFree
    /\ ~Deliverable
    /\ Return(r)
    /\ UNCHANGED <<statusVars, attemptVars, captureVars, evalVars, portraitVars,
                   authVars, submitVars, faults>>

SubmitAccept(r) ==
    /\ pc[r] = "submit"
    /\ Acquire(r)
    /\ Deliverable
    /\ Goto(r, "submit_send")
    /\ Keep
    /\ UNCHANGED <<statusVars, attemptVars, captureVars, evalVars, portraitVars,
                   authVars, submitVars, faults>>

\* The consumer may receive the payload (once or several times, the sender
\* retries); the sender may get a valid acknowledgement only if it did.
SubmitSend(r) ==
    /\ pc[r] = "submit_send"
    /\ \/ /\ delivered' = delivered \cup {[portrait |-> portrait, identity |-> meta]}
          /\ Goto(r, "submit_acknowledge") \/ Goto(r, "submit_failed")
       \/ UNCHANGED delivered /\ Goto(r, "submit_failed")
    /\ KeepLock /\ Keep
    /\ UNCHANGED <<statusVars, attemptVars, captureVars, evalVars, portraitVars,
                   authVars, callback, faults>>

\* Transport error, refusal or invalid redirect URL.
SubmitFailed(r) ==
    /\ pc[r] = "submit_failed"
    /\ callback' = "FAILED"
    /\ SetStatus("CALLBACK_FAILED")
    /\ Release /\ Return(r)
    /\ UNCHANGED <<session, attemptVars, captureVars, evalVars, portraitVars,
                   authVars, delivered, faults>>

SubmitAcknowledge(r) ==
    /\ pc[r] = "submit_acknowledge"
    /\ callback' = "ACKNOWLEDGED"
    /\ Goto(r, "submit_complete")
    /\ KeepLock /\ Keep
    /\ UNCHANGED <<statusVars, attemptVars, captureVars, evalVars, portraitVars,
                   authVars, delivered, faults>>

SubmitComplete(r) ==
    /\ pc[r] = "submit_complete"
    /\ SetStatus("COMPLETED")
    /\ Goto(r, "submit_revoke")
    /\ KeepLock /\ Keep
    /\ UNCHANGED <<session, attemptVars, captureVars, evalVars, portraitVars,
                   authVars, submitVars, faults>>

SubmitRevoke(r) ==
    /\ pc[r] = "submit_revoke"
    /\ session' = "none"
    /\ Release /\ Return(r)
    /\ UNCHANGED <<status, attemptVars, captureVars, evalVars, portraitVars,
                   authVars, submitVars, faults>>

-------------------------------------------------------------------------------
(* Time and failures *)

\* The claim timeout does not wait for the provider call.
BugShortClaimTimeout(i) == {}
\* The provider calls under way for a capture.
Evaluating(i) ==
    {r \in Requests : pc[r] \in {"liveness_read", "liveness_provider"} /\ key[r] = i}

\* A claim grows older than claim_timeout_seconds.  The timeout exceeds what the calls
\* take if each keeps to its timeout; a slow provider does not have to, since httpx
\* applies it to each phase and read.  Portrait processing has no time limit at all.
EvalClaimExpires(i) ==
    /\ evalClaim[i] = "fresh"
    /\ SlowProvider \/ Evaluating(i) = {}
    /\ evalClaim' = [evalClaim EXCEPT ![i] = "stale"]
    /\ KeepLock /\ Keep
    /\ UNCHANGED <<statusVars, attemptVars, captureVars, evals, evaluations, approved,
                   portraitVars, authVars, submitVars, pc, faults>>

PortraitClaimExpires(i) ==
    /\ portraitClaim[i] = "fresh"
    /\ portraitClaim' = [portraitClaim EXCEPT ![i] = "stale"]
    /\ KeepLock /\ Keep
    /\ UNCHANGED <<statusVars, attemptVars, captureVars, evalVars, candidate,
                   authVars, submitVars, pc, faults>>

\* A request dies between two steps: its process is killed or a storage error is
\* raised.  The lock goes with the file descriptor, claims stay.
Fault(r) ==
    /\ pc[r] \in FaultPoints
    /\ faults < MaxFaults
    /\ faults' = faults + 1
    /\ lock' = IF lock = r THEN None ELSE lock
    /\ Return(r)
    /\ UNCHANGED <<statusVars, attemptVars, captureVars, evalVars, portraitVars,
                   authVars, submitVars>>

-------------------------------------------------------------------------------

Step(r) ==
    \/ RedeemCheck(r) \/ RedeemCreate(r)
    \/ AttemptAdmit(r) \/ AttemptRegister(r) \/ AttemptSave(r)
    \/ CaptureAdmit(r) \/ CaptureRefused(r) \/ CaptureRegister(r) \/ CaptureSave(r)
    \/ CaptureImage(r) \/ CaptureMeta(r) \/ CaptureInvalidate(r)
    \/ LivenessAdmit(r) \/ LivenessKey(r) \/ LivenessCached(r) \/ LivenessClaim(r)
    \/ LivenessRead(r) \/ LivenessRecord(r) \/ LivenessDecide(r)
    \/ PortraitAdmit(r) \/ PortraitBox(r) \/ PortraitSettled(r) \/ PortraitClaim(r)
    \/ PortraitRead(r) \/ PortraitWrite(r) \/ PortraitFail(r) \/ PortraitDiscard(r)
    \/ PortraitPromote(r) \/ PortraitAuthorize(r)
    \/ SubmitAdmit(r) \/ SubmitSettled(r) \/ SubmitAccept(r) \/ SubmitSend(r)
    \/ SubmitFailed(r) \/ SubmitAcknowledge(r) \/ SubmitComplete(r) \/ SubmitRevoke(r)

Next ==
    \/ \E r \in Requests : Step(r) \/ Fault(r)
    \/ \E i \in Identities : EvalClaimExpires(i) \/ PortraitClaimExpires(i)

Spec == Init /\ [][Next]_vars

-------------------------------------------------------------------------------
(* Properties *)

\* Every variable keeps its type.
TypeOK ==
    /\ status \in Statuses /\ session \in {"none", "ACTIVE"}
    /\ consumed \subseteq Attempts /\ uploaded \subseteq Attempts
    /\ image \in Images \cup {None} /\ meta \in Identities \cup {None}
    /\ evals \in [Identities -> Outcomes \cup {"ERROR", None}]
    /\ evalClaim \in [Identities -> {"none", "fresh", "stale"}]
    /\ portraitClaim \in [Identities -> {"none", "fresh", "stale"}]
    /\ candidate \in [Identities -> Portraits \cup {None}]
    /\ decision \in Decisions \cup {None}
    /\ portrait \in Portraits \cup {None}
    /\ auth \in Auths \cup {None}
    /\ callback \in {"none", "FAILED", "ACKNOWLEDGED"}
    /\ lock \in Requests \cup {None}
    /\ pc \in [Requests -> Labels]
    /\ key \in [Requests -> Identities \cup {None}]
    /\ box \in [Requests -> Attempts \cup {None}]
    /\ seen \in [Requests -> Images \cup {None}]
    /\ num \in [Requests -> Nat]
    /\ approved \subseteq Images
    /\ delivered \subseteq Payloads
    /\ evaluations \in Nat /\ faults \in Nat

\* The lock is held by exactly the request that is between its acquisition and
\* its release (store.py lock_transaction): no two requests are ever inside a
\* locked section of one transaction, and no dead request keeps it.
MutualExclusion == \A r \in Requests : pc[r] \in Locked <=> lock = r

\* The consumer only ever receives a portrait made from an image that the
\* provider accepted, and that image is the capture the payload was bound to.
DeliveredApproved ==
    \A p \in delivered : p.portrait.source = p.identity.image /\ p.identity.image \in approved

\* Whenever no writer is at work, a PASS that authorizes the current capture was
\* given for the very image that is stored, whatever order captures and
\* evaluations were applied in.
PassIsForStoredImage ==
    lock = None /\ CurrentPass => image = meta.image /\ image \in approved

\* At most one provider call is in flight for a capture (single-flight claim).
SingleFlight ==
    \A r, s \in Requests :
        r # s /\ pc[r] \in {"liveness_read", "liveness_provider"}
              /\ pc[s] \in {"liveness_read", "liveness_provider"} => key[r] # key[s]

\* A cached PASS of the current capture is backed by its decision: a browser that
\* is answered from the cache can go on to the portrait.
CachedPassIsDecided ==
    lock = None /\ meta # None /\ evals[meta] = "PASS" => CurrentPass

\* No payload leaves a transaction that is terminal, whatever the other requests
\* of the transaction did since the submit was admitted.
TerminalStopsSubmission ==
    [][(status \in Terminal) => delivered' = delivered]_vars

\* Once the acknowledgement is stored the consumer is not called again, not even
\* when the worker died before the transaction was completed.
AcknowledgedOnce ==
    [][callback = "ACKNOWLEDGED" => delivered' = delivered /\ callback' = callback]_vars

\* No image is stored once the attempt limit is reached, whichever request
\* consumed the last attempt.
LimitStopsUploads ==
    [][image' # image => Cardinality(consumed) < AttemptLimit]_vars

\* A capture identity is never current twice: nothing cached for an earlier
\* capture can be taken for a result of the new one.
IdentityNeverRecurs ==
    [][meta' # meta => evals[meta'] = None /\ candidate[meta'] = None
                       /\ evalClaim[meta'] = "none"]_vars

\* "Terminal states: capture/attempts cannot restart" (store.py:68): no capture is
\* stored in a terminal transaction.  Violated: the terminal check of a capture is
\* made before its image is received, and not repeated under the lock.
TerminalStopsCapture ==
    [][(status \in Terminal) => UNCHANGED <<image, meta>>]_vars

\* "Terminal states are sticky: never regress from COMPLETED" (store.py:220): what
\* was delivered stays COMPLETED.  Violated: one terminal status replaces another,
\* so a late attempt that reaches the limit makes it ATTEMPT_LIMIT_EXCEEDED.
CompletedStaysCompleted ==
    [][status = "COMPLETED" => status' = "COMPLETED"]_vars

\* "a stale box from a previous capture can never be used for a newer capture"
\* (liveness.py:206): a portrait is made with the face box of the capture it is
\* made from.  Violated: the box is read before the lock is waited for.
FaceBoxIsOfCapture ==
    \A r \in Requests :
        pc[r] \in {"portrait_read", "portrait_write", "portrait_promote"} =>
            box[r] \in {None, key[r].attempt}

\* "stale PASS/portrait/VLM result must never authorize the new capture"
\* (browser.py:261): the bytes of a delivered portrait come from an accepted
\* image, wherever a capture request died.  Violated: an image that was written
\* without its capture.json is authorized by the PASS of the previous one.
UnapprovedNeverDelivered ==
    \A p \in delivered : p.portrait.source \in approved
===============================================================================
