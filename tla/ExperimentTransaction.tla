------------------------- MODULE ExperimentTransaction -------------------------
(* A transaction of the standalone page (api/v1/transactions.py), after its      *)
(* POST /transactions has stored the capture: it is never replaced.  Requests    *)
(* evaluate its liveness behind a claim, store a result of the experiment        *)
(* endpoint (api/v1/experiments.py) and process its portrait; only the first     *)
(* takes the lock of the transaction.  Requests run on several workers: a step   *)
(* is an access to a file.  A request that is refused changes nothing and has    *)
(* no action.                                                                    *)
EXTENDS VisionProvider, PortraitGeometry

CONSTANTS
  Requests,         \* the requests that are served
  Replies,          \* the replies a provider may give
  Captures,         \* the pictures that may be stored
  Frames,           \* the frames a client may send to the experiment endpoint
  VlmProvider,      \* settings.vlm_provider
  None              \* no file

ASSUME ExperimentAssumption ==
  /\ Replies \subseteq AllReplies
  /\ None \notin Assessments /\ None # Error /\ None \notin Captures
  /\ None \notin Requests

\* A stored picture is a JPEG within the size limit; its matte lies on it.
Mattes == [face : Int, head : Int, overlap : Int, balance : Int,
           box : Boxes \cup {NoBox}]
Pictures ==
  [bytes : Nat, width : Nat \ {0}, height : Nat \ {0},
   face : [x : Int, y : Int, w : Int, h : Int],
   anchored : BOOLEAN, coverage : Int, raw : Mattes, cleaned : Mattes]

ASSUME CapturesAssumption ==
  \A pic \in Captures :
    /\ pic \in Pictures /\ pic.bytes <= MaxImage
    /\ \A box \in {pic.raw.box, pic.cleaned.box} \ {NoBox} :
         InSource(box, pic.width, pic.height)

\* The claim timeout knows settings.vlm_timeout_seconds only
\* (local_vlm_timeout_seconds is a setting of its own).
ASSUME TimeoutAssumption ==
  VlmProvider \in Providers /\ (VlmProvider = "local" => LocalTimeout <= VlmTimeout)

ProviderTimeout == Adapter(VlmProvider).timeout
Retries == Adapter(VlmProvider).retries

VARIABLES
  pc,        \* where each request is
  got,       \* the result a request holds
  previous,  \* previous_status of a portrait run
  tries,     \* provider calls a request has made
  elapsed,   \* half seconds that the calls of a request have taken, until they end
  view,      \* the picture with the face box that a portrait run goes by
  lock,      \* who holds .lock
  claim,     \* claim-<identity>.json: the request whose started_at it has
  record,    \* <identity>.json: the cached evaluation
  vlm,       \* vlm/result.json
  status,    \* transaction.json
  portrait,  \* processed.jpg, what it was cut from, and processing.json
  capture,   \* selected-original.jpg and what capture.json says of it
  told,      \* the outcomes liveness requests were answered
  met        \* what the behaviour has met (for properties only)

local == <<got, previous, tries, elapsed, view>>
files == <<claim, record, vlm, status, portrait, capture>>
vars == <<pc, got, previous, tries, elapsed, view, lock, claim, record, vlm, status,
          portrait, capture, told, met>>

-------------------------------------------------------------------------------
(* The person-state rules of liveness.py.                                       *)

Coherent(v) ==
  <<v.count, v.second>> \in
    {<<"ZERO", "NONE">>, <<"ONE", "NONE">>, <<"MULTIPLE", "BACKGROUND">>,
     <<"MULTIPLE", "INTERFERING">>, <<"MULTIPLE", "UNCERTAIN">>,
     <<"UNCERTAIN", "UNCERTAIN">>}

EligibleState(v) ==
  Coherent(v) /\ <<v.count, v.second>> \in {<<"ONE", "NONE">>, <<"MULTIPLE", "BACKGROUND">>}

Eligible(result) ==
  result \in Assessments /\ result.class = "LIVE" /\ EligibleState(result)

Outcome(result) ==
  IF result \in Assessments /\ result.class \in {"SCREEN_REPLAY", "PRINT_ATTACK"} THEN "FAIL"
  ELSE IF Eligible(result) THEN "PASS"
  ELSE "RETRY"

\* A cached record that is not evaluated again.
Reusable(result) == result = Error \/ (result \in Assessments /\ Coherent(result))

\* Mutant: the first call is not counted.
BugClaimTimeout == VlmTimeout * MaxRetries + 20

ClaimTimeout == VlmTimeout * (MaxRetries + 2) + 20

\* The delays double; the last one fits into the slack of the claim timeout (with
\* 60 s, up to seven retries).
ASSUME BackoffAssumption ==
  Delay(0) = 1 /\ \A k \in 0..MaxRetries :
    /\ Delay(k) \in Nat \ {0} /\ Delay(k + 1) = 2 * Delay(k)
    /\ Delay(k) <= VlmTimeout + 21

-------------------------------------------------------------------------------
Init ==
  /\ pc = [r \in Requests |-> "idle"]
  /\ got = [r \in Requests |-> None]
  /\ previous = [r \in Requests |-> "CAPTURE_READY"]
  /\ tries = [r \in Requests |-> 0]
  /\ elapsed = [r \in Requests |-> 0]
  /\ view = [r \in Requests |-> None]
  /\ lock = None /\ claim = None /\ record = None /\ vlm = None
  /\ status = "CAPTURE_READY"
  /\ portrait = [image |-> NoBox, source |-> None, metadata |-> NoBox]
  /\ capture \in Captures
  /\ told = {} /\ met = {}

Goto(r, place) == pc' = [pc EXCEPT ![r] = place]
Step(r, from, to) == pc[r] = from /\ Goto(r, to)
\* What a provider itself says: one person alone before the camera, alive.
SaysEligible(reply) ==
  /\ reply.kind = "text" /\ reply.text.conforms /\ reply.text.class = "LIVE"
  /\ <<reply.text.count, reply.text.second>> \in
       {<<"ONE", "NONE">>, <<"MULTIPLE", "BACKGROUND">>}

Meet(h, condition) == met' = met \cup IF condition THEN {h} ELSE {}

\* POST /liveness, first locked section.
LivenessCached(r) ==
  /\ Step(r, "idle", "done")
  /\ lock = None
  /\ Reusable(record)
  /\ told' = told \cup {Outcome(record)}
  /\ UNCHANGED <<local, lock, files, met>>

ClaimReady ==
  \A q \in Requests : claim = q => (pc[q] = "dead" \/ elapsed[q] > ClaimTimeout)

LivenessClaim(r) ==
  /\ Step(r, "idle", "call")
  /\ lock = None
  /\ ~Reusable(record) /\ ClaimReady
  /\ claim' = r
  /\ UNCHANGED <<local, lock, record, vlm, status, portrait, capture, told, met>>

\* The frames of a liveness request.
Stored == [count |-> 1, size |-> capture.bytes]

\* How long a call takes at most: its timeout, or, as that bounds its connection, its
\* request and each read of its answer alone, longer than any claim.
Outlasting == ClaimTimeout + 1
Durations == {ProviderTimeout, Outlasting}
Slow(d) == IF d > ProviderTimeout THEN {"slow"} ELSE {}

\* One call of the provider: it is repeated after a delay, or its result is final.
Call(r) ==
  /\ pc[r] = "call"
  /\ \E reply \in Replies, d \in Durations :
       /\ MayReply(VlmProvider, reply)
       /\ LET answer == Evaluated(VlmProvider, Stored, reply)
              again == Repeated(VlmProvider, Stored, reply, tries[r])
          IN  \/ /\ ~again
                 /\ got' = [got EXCEPT ![r] = answer]
                 /\ elapsed' = [elapsed EXCEPT ![r] = @ + d]
                 /\ Goto(r, "finish")
                 /\ met' = met \cup Slow(d)
                      \cup IF ~Refused(VlmProvider, Stored) /\ SaysEligible(reply)
                           THEN {"eligible"} ELSE {}
                 /\ UNCHANGED tries
              \/ /\ again
                 /\ tries' = [tries EXCEPT ![r] = @ + 1]
                 /\ elapsed' = [elapsed EXCEPT ![r] = @ + d + Delay(tries[r])]
                 /\ met' = met \cup Slow(d)
                 /\ UNCHANGED <<pc, got>>
  /\ UNCHANGED <<previous, view, lock, files, told>>

\* Second locked section: the claim, the record, vlm/result.json, the status.
LivenessFinish(r) ==
  /\ Step(r, "finish", "record")
  /\ lock = None /\ lock' = r
  /\ claim' = None
  /\ elapsed' = [elapsed EXCEPT ![r] = 0]
  /\ UNCHANGED <<got, previous, tries, view, record, vlm, status, portrait, capture, told,
                 met>>

\* Mutant: vlm/result.json is written before the record.
BugLivenessRecord(r) ==
  /\ Step(r, "record", IF got[r] = Error THEN "done" ELSE "vlm")
  /\ vlm' = IF got[r] = Error THEN vlm ELSE got[r]
  /\ lock' = IF got[r] = Error THEN None ELSE lock
  /\ UNCHANGED <<local, claim, record, status, portrait, capture, told, met>>

LivenessRecord(r) ==
  /\ Step(r, "record", IF got[r] = Error THEN "done" ELSE "vlm")
  /\ record' = got[r]
  /\ lock' = IF got[r] = Error THEN None ELSE lock
  /\ UNCHANGED <<local, claim, vlm, status, portrait, capture, told, met>>

LivenessResult(r) ==
  /\ Step(r, "vlm", "status")
  /\ vlm' = got[r]
  /\ UNCHANGED <<local, lock, claim, record, status, portrait, capture, told, met>>

LivenessStatus(r) ==
  /\ Step(r, "status", "done")
  /\ status' = "VLM_EVALUATED"
  /\ lock' = None
  /\ told' = told \cup {Outcome(got[r])}
  /\ UNCHANGED <<local, claim, record, vlm, portrait, capture, met>>

\* POST /experiments/vlm/evaluate with the id of the transaction: frames of the
\* client, no lock, an error is stored as well.
ExperimentResult(r) ==
  /\ Step(r, "idle", "evaluated")
  /\ \E p \in Providers, frames \in Frames, reply \in Replies :
       /\ ~Refused(p, frames) /\ MayReply(p, reply)
       /\ vlm' = Evaluated(p, frames, reply)
       /\ met' = met \cup {"experiment"}
                     \cup IF SaysEligible(reply) THEN {"eligible"} ELSE {}
  /\ UNCHANGED <<local, lock, claim, record, status, portrait, capture, told>>

ExperimentStatus(r) ==
  /\ Step(r, "evaluated", "done")
  /\ status' = "VLM_EVALUATED"
  /\ UNCHANGED <<local, lock, claim, record, vlm, portrait, capture, told, met>>

-------------------------------------------------------------------------------
(* POST /portrait: no lock.                                                     *)

Processing == {"mark", "process", "metadata", "ready"}

\* With the stored face box, or else with that of the request, which the mattes are
\* then measured by.
Views(pic) ==
  IF ValidFaceBox(pic.face) THEN {pic}
  ELSE {p \in Captures :
          /\ ValidFaceBox(p.face)
          /\ p.bytes = pic.bytes /\ p.width = pic.width /\ p.height = pic.height
          /\ p.raw.box = pic.raw.box}

PortraitAdmit(r) ==
  /\ Step(r, "idle", "portrait")
  /\ Eligible(vlm)
  /\ \E pic \in Views(capture) : view' = [view EXCEPT ![r] = pic]
  /\ Meet("unsettled", \E q \in Requests : pc[q] \in {"status", "evaluated"})
  /\ UNCHANGED <<got, previous, tries, elapsed, lock, files, told>>

PortraitPrevious(r) ==
  /\ Step(r, "portrait", "mark")
  /\ previous' = [previous EXCEPT ![r] = status]
  /\ Meet("overlap", \E q \in Requests : pc[q] \in Processing)
  /\ UNCHANGED <<got, tries, elapsed, view, lock, files, told>>

PortraitMark(r) ==
  /\ Step(r, "mark", "process")
  /\ status' = "PORTRAIT_PROCESSING"
  /\ UNCHANGED <<local, lock, claim, record, vlm, portrait, capture, told, met>>

\* The model is loaded after the status is set and before the try.
PortraitNoModel(r) ==
  /\ Step(r, "process", "done")
  /\ Meet("noModel", TRUE)
  /\ UNCHANGED <<local, lock, files, told>>

\* Mutant: the status before the run is not restored.
BugPortraitRejected(r) ==
  /\ Step(r, "process", "done")
  /\ ~Sound(view[r].raw)
  /\ UNCHANGED <<local, lock, files, told, met>>

PortraitRejected(r) ==
  /\ Step(r, "process", "done")
  /\ ~Sound(view[r].raw)
  /\ status' = previous[r]
  /\ UNCHANGED <<local, lock, claim, record, vlm, portrait, capture, told, met>>

PortraitFails(r) ==
  /\ pc[r] \in {"process", "metadata", "ready"} /\ Goto(r, "done")
  /\ status' = "TECHNICAL_ERROR"
  /\ UNCHANGED <<local, lock, claim, record, vlm, portrait, capture, told, met>>

PortraitWrite(r) ==
  /\ Step(r, "process", "metadata")
  /\ Croppable(view[r])
  /\ portrait' = [portrait EXCEPT !.image = PassportCrop(view[r]), !.source = view[r]]
  /\ UNCHANGED <<local, lock, claim, record, vlm, status, capture, told, met>>

PortraitMetadata(r) ==
  /\ Step(r, "metadata", "ready")
  /\ portrait' = [portrait EXCEPT !.metadata = PassportCrop(view[r])]
  /\ UNCHANGED <<local, lock, claim, record, vlm, status, capture, told, met>>

PortraitReady(r) ==
  /\ Step(r, "ready", "done")
  /\ status' = "PORTRAIT_READY"
  /\ UNCHANGED <<local, lock, claim, record, vlm, portrait, capture, told, met>>

\* A worker dies, or a storage error ends the request: the lock is released, the
\* claim stays.
Fault(r) ==
  /\ pc[r] \notin {"idle", "done", "dead"}
  /\ Goto(r, "dead")
  /\ lock' = IF lock = r THEN None ELSE lock
  /\ met' = met \cup {"fault"}
  /\ UNCHANGED <<local, files, told>>

Liveness(r) ==
  \/ LivenessCached(r) \/ LivenessClaim(r) \/ Call(r) \/ LivenessFinish(r)
  \/ LivenessRecord(r) \/ LivenessResult(r) \/ LivenessStatus(r)

Portrait(r) ==
  \/ PortraitAdmit(r) \/ PortraitPrevious(r) \/ PortraitMark(r) \/ PortraitNoModel(r)
  \/ PortraitRejected(r) \/ PortraitFails(r)
  \/ PortraitWrite(r) \/ PortraitMetadata(r) \/ PortraitReady(r)

Next ==
  \E r \in Requests :
    \/ Liveness(r) \/ ExperimentResult(r) \/ ExperimentStatus(r) \/ Portrait(r)
    \/ Fault(r)

Spec == Init /\ [][Next]_vars

-------------------------------------------------------------------------------
(* Properties.                                                                  *)

\* Once a reusable verdict on the capture is stored, no later answer of the provider
\* replaces it, however often a call is repeated and whoever dies: unless a call has
\* taken longer than its timeout (transactions.py:203, liveness.py:243).
VerdictIsFinal == [][Reusable(record) => record' = record \/ "slow" \in met]_vars

\* liveness.py:235 and 244: a claim recovers from a worker that "died mid-provider-call",
\* its lifetime being the "total worst-case provider latency".  It is taken over from a
\* worker that lives, whose call has taken longer.
ClaimOutlastsCalls ==
  [][\A r \in Requests : claim = r /\ claim' \notin {r, None} => pc[r] = "dead"]_vars

\* The portrait gate follows the verdict: it opens only on an eligible record, and a page
\* that was told PASS finds it open, unless the experiment endpoint has written the
\* result, a call has taken longer than its timeout, or a request died between its two
\* files (transactions.py:261, 290).
GateFollowsVerdict ==
  met \cap {"experiment", "slow"} = {} =>
    /\ Eligible(vlm) => Eligible(record)
    /\ "PASS" \in told /\ "fault" \notin met => Eligible(vlm)

\* A transaction without a request in progress has a status that its files bear
\* out: no portrait run is announced, a ready portrait and its metadata are there,
\* and an evaluated capture does not look unevaluated; but for overlapping runs, a
\* missing model, a death and a run admitted before the status was stored
\* (processor.py:123, 130, 266).
StatusIsTrue ==
  (\A r \in Requests : pc[r] \in {"idle", "done", "dead"}) =>
    /\ status = "PORTRAIT_READY" => portrait.image # NoBox /\ portrait.metadata # NoBox
    /\ status = "PORTRAIT_PROCESSING" => met \cap {"overlap", "noModel", "fault"} # {}
    /\ status = "CAPTURE_READY" /\ vlm # None => met \cap {"unsettled", "overlap", "fault"} # {}

\* Whatever fails, is missing or contradicts itself, no page is told PASS and no
\* portrait is begun unless a provider has answered, completely, that a live person
\* is there alone or with people in the background (errors.py:3, liveness.py:141).
FailsClosed ==
  "PASS" \in told \/ portrait.image # NoBox
    \/ status \in {"PORTRAIT_PROCESSING", "PORTRAIT_READY"} => "eligible" \in met

\* A stored portrait is cut from inside the picture, by a matte that passed the
\* integrity check, does not clip the hair, has both shoulders where it has room for
\* them and keeps its shape; when it is ready, its metadata tells its frame, but for
\* overlapping runs with different face boxes (crop.py:8, 135, processor.py:173, 206,
\* 311).
PortraitIsFramed ==
  portrait.image # NoBox =>
    /\ Sound(Resolved(portrait.source))
    /\ InSource(portrait.image, capture.width, capture.height)
    /\ WellFramed(portrait.image, Resolved(portrait.source).box, capture.width,
                  capture.height)
    /\ status = "PORTRAIT_READY" /\ "overlap" \notin met =>
         portrait.metadata = portrait.image
===============================================================================
