------------------------------ MODULE CaptureFlow ------------------------------
(* The capture page of the browser: the camera hook (useCamera.ts), the flow    *)
(* that drives it (useCaptureFlow.ts) and the effect of the page that uploads   *)
(* a previewed capture (CapturePage.tsx).  JavaScript runs one continuation at  *)
(* a time: a step is what runs between two awaits.  Requests of a camera, the   *)
(* start of a video, bursts and analyses answer at any time, in any order; the  *)
(* user, the visibility of the page and the end of a track come in between.     *)
EXTENDS Integers, Sequences, FlowPhases

CONSTANTS MaxRequests,  \* bound: camera requests (starts and switches)
          MaxCaptures   \* bound: presses of Capture

ASSUME BoundsAssumption == MaxRequests \in Nat /\ MaxCaptures \in Nat

Requests == 1..MaxRequests
Captures == 1..MaxCaptures

\* A request has one stream; a switch that fails has another, of the camera it
\* asks for again.
Streams == Requests \X BOOLEAN
NoStream == <<0, FALSE>>

\* lateCamera: the user asks for a camera while an earlier request is pending;
\* lateAnalysis: the user captures while an earlier capture is pending; timeout:
\* a stream was never attached; ended: a track ended and nothing was done about
\* it; resumable: an error kept the camera; keptRetry, hiddenRetry: an analysis,
\* pagehide stopped the camera and left the offer to resume it.
Hazards == {"lateCamera", "lateAnalysis", "timeout", "ended", "resumable",
            "keptRetry", "hiddenRetry"}
Races == {"lateCamera", "lateAnalysis", "ended", "hiddenRetry"}

VARIABLES
  phase,      \* phaseRef
  canRetry,   \* canRetryStream: the error screen offers to resume the stream
  visible,    \* document.visibilityState
  mounted,    \* the page is mounted
  requests,   \* the camera requests: kind, where they await, second stream
  cam,        \* the refs of useCamera, the video element and the live tracks
  captures,   \* the captures: where they await, whether they were aborted
  abortRef,   \* the capture that the abort controller belongs to, 0: null
  attemptId,  \* attemptIdRef: the capture whose press minted it, 0: null
  bundle,     \* bundleRef: the capture whose frames it holds, 0: null
  reports,    \* calls of onAttempt so far
  uploads,    \* calls of autoProcess so far
  processed,  \* autoProcessedAttemptRef
  thrown,     \* the reducer has thrown
  met         \* the hazards that the behaviour has met (for properties only)

flow == <<phase, canRetry, thrown>>
work == <<captures, abortRef, attemptId, bundle, reports>>
page == <<visible, mounted>>
sent == <<uploads, processed>>
vars == <<phase, canRetry, thrown, visible, mounted, requests, cam, captures,
          abortRef, attemptId, bundle, reports, uploads, processed, met>>

Init ==
  /\ phase = "idle" /\ canRetry = FALSE /\ thrown = FALSE
  /\ visible = TRUE /\ mounted = TRUE
  /\ requests = [i \in Requests |-> [kind |-> "start", at |-> "unused", again |-> FALSE]]
  /\ cam = [current |-> 0, session |-> NoStream, video |-> NoStream,
            intentional |-> FALSE, live |-> {}]
  /\ captures = [k \in Captures |-> [at |-> "unused", aborted |-> FALSE]]
  /\ abortRef = 0 /\ attemptId = 0 /\ bundle = 0
  /\ reports = <<>> /\ uploads = {} /\ processed = 0
  /\ met = {}

\* The reducer throws on a transition that is not in the table.
Move(a) ==
  IF phase \in AllowedFrom(a)
  THEN phase' = Target(a) /\ UNCHANGED thrown
  ELSE thrown' = TRUE /\ UNCHANGED phase

Pending(i) == requests[i].at \notin {"unused", "done"}
Unfinished(k) == captures[k].at \in {"burst", "analysis"}
Meet(h, condition) == met' = met \cup IF condition THEN {h} ELSE {}

-------------------------------------------------------------------------------
(* The camera hook.  cam.current is the request of the current generation, 0    *)
(* after a stop: a request is stale when it is another one.                     *)

Stale(i) == cam.current # i
StreamOf(i) == <<i, requests[i].again>>

Stopped(c) == [c EXCEPT !.current = 0, !.session = NoStream, !.video = NoStream,
                        !.intentional = TRUE, !.live = @ \ {c.session}]

Dropped(c, s) == [c EXCEPT !.live = @ \ {s}]

At(i, place) == [requests EXCEPT ![i].at = place]

\* A new source of the video element rejects the pending play() promises.
Reloaded(rs) == [j \in Requests |->
  IF rs[j].at = "play" THEN [rs[j] EXCEPT !.at = "unplayed"] ELSE rs[j]]

\* cameraStop() called by the flow.
StopCamera == cam' = Stopped(cam) /\ requests' = Reloaded(requests)

Awaited(i) == IF requests[i].kind = "start" THEN "requestingPermission"
                                            ELSE "switchingCamera"

\* start() or switchCamera() returns to the flow, c is the camera it leaves.
Resolve(i, c) ==
  /\ UNCHANGED canRetry
  /\ IF phase # Awaited(i)
     THEN /\ cam' = Stopped(c)
          /\ requests' = Reloaded(At(i, "done"))
          /\ UNCHANGED <<phase, thrown>>
     ELSE /\ cam' = c
          /\ requests' = At(i, "done")
          /\ Move(IF requests[i].kind = "start" THEN "PERMISSION_OK" ELSE "SWITCH_OK")

\* start() or switchCamera() throws.
Reject(i, c) ==
  /\ cam' = c /\ requests' = At(i, "done")
  /\ IF phase # Awaited(i)
     THEN UNCHANGED flow
     ELSE IF requests[i].kind = "switch" /\ c.session # NoStream
     THEN Move("SWITCH_ERROR") /\ UNCHANGED canRetry
     ELSE /\ canRetry' = FALSE
          /\ Move(IF requests[i].kind = "start" THEN "PERMISSION_ERROR" ELSE "SWITCH_LOST")

\* The catch of start() and of switchCamera(): a stale request returns, a switch
\* asks for the previous camera again.
Fail(i, c) ==
  IF Stale(i) THEN Resolve(i, c)
  ELSE IF requests[i].kind = "switch" /\ ~requests[i].again
  THEN /\ cam' = c /\ UNCHANGED flow
       /\ requests' = [requests EXCEPT ![i].at = "request", ![i].again = TRUE]
  ELSE Reject(i, c)

CameraOnly == UNCHANGED <<page, work, sent>>

Granted(i) ==
  /\ requests[i].at = "request"
  /\ IF Stale(i)
     THEN Resolve(i, cam)
     ELSE /\ cam' = [cam EXCEPT !.video = StreamOf(i), !.live = @ \cup {StreamOf(i)}]
          /\ requests' = Reloaded(At(i, "attach"))
          /\ UNCHANGED flow
  /\ CameraOnly /\ UNCHANGED met

Denied(i) ==
  /\ requests[i].at = "request"
  /\ Fail(i, cam)
  /\ CameraOnly /\ UNCHANGED met

\* loadedmetadata wakes every request that waits for it, of whatever stream.
Loaded ==
  /\ cam.video \in cam.live
  /\ \E i \in Requests : requests[i].at = "attach"
  /\ requests' = [i \in Requests |->
       IF requests[i].at = "attach" THEN [requests[i] EXCEPT !.at = "play"] ELSE requests[i]]
  /\ UNCHANGED <<cam, flow, met>> /\ CameraOnly

\* The timer of attachAndPlay; the stream is left running.
AttachTimesOut(i) ==
  /\ requests[i].at = "attach"
  /\ Fail(i, cam)
  /\ Meet("timeout", TRUE)
  /\ CameraOnly

Played(i) ==
  /\ requests[i].at = "play"
  /\ cam' = [cam EXCEPT !.intentional = cam.session # NoStream,
                        !.session = StreamOf(i), !.live = @ \ {cam.session}]
  /\ requests' = At(i, "enumerate")
  /\ UNCHANGED <<flow, met>> /\ CameraOnly

\* Mutant: the stream that does not play is not stopped.
BugPlayFails(i) ==
  /\ requests[i].at \in {"play", "unplayed"}
  /\ Fail(i, cam)
  /\ CameraOnly /\ UNCHANGED met

PlayFails(i) ==
  /\ requests[i].at \in {"play", "unplayed"}
  /\ Fail(i, Dropped(cam, StreamOf(i)))
  /\ CameraOnly /\ UNCHANGED met

\* detectCanSwitchCamera() never rejects; a recovered switch throws.
Enumerated(i) ==
  /\ requests[i].at = "enumerate"
  /\ IF Stale(i) THEN Resolve(i, Dropped(cam, StreamOf(i)))
     ELSE IF requests[i].again THEN Reject(i, cam)
     ELSE Resolve(i, cam)
  /\ CameraOnly /\ UNCHANGED met

Camera(i) ==
  \/ Granted(i) \/ Denied(i) \/ AttachTimesOut(i)
  \/ Played(i) \/ PlayFails(i) \/ Enumerated(i)

-------------------------------------------------------------------------------
(* Tracks that end, and the visibility of the page.                             *)

\* abortRef.current?.abort()
Aborted == [k \in Captures |->
  IF k = abortRef THEN [captures[k] EXCEPT !.aborted = TRUE] ELSE captures[k]]

\* Mutant: the camera is stopped, the phase stays.
BugInterrupt ==
  /\ captures' = Aborted
  /\ StopCamera
  /\ canRetry' = FALSE
  /\ UNCHANGED <<phase, thrown, abortRef, attemptId, bundle, reports>>

\* Interruption by a track that ended or a page that is hidden.
Interrupt ==
  /\ captures' = Aborted
  /\ StopCamera
  /\ canRetry' = FALSE
  /\ Move("INTERRUPTED")
  /\ UNCHANGED <<abortRef, attemptId, bundle, reports>>

\* The browser ends a track; the hook listens to the track of its session.
TrackEnds(s) ==
  /\ s \in cam.live
  /\ IF /\ s = cam.session /\ ~cam.intentional
        /\ phase \in {"streaming", "switchingCamera", "capturing", "analyzing"}
     THEN Interrupt /\ UNCHANGED met
     ELSE /\ cam' = Dropped(cam, s)
          /\ Meet("ended", TRUE)
          /\ UNCHANGED <<flow, work, requests>>
  /\ UNCHANGED <<page, sent>>

\* Mutant: a retry screen is left alone, with its camera.
BugIgnored == {"idle", "qualityRetry", "preview", "confirmed", "error"}

Ignored == {"idle", "preview", "confirmed", "error"}

VisibilityHidden ==
  /\ visible /\ mounted /\ visible' = FALSE
  /\ IF phase \in Ignored THEN UNCHANGED <<flow, work, cam, requests>> ELSE Interrupt
  /\ UNCHANGED <<mounted, sent, met>>

\* pagehide, which visibilitychange follows.
PageHide ==
  /\ visible /\ mounted /\ visible' = FALSE
  /\ IF phase \in Ignored
     THEN /\ captures' = Aborted /\ StopCamera
          /\ Meet("hiddenRetry", canRetry)
          /\ UNCHANGED <<flow, abortRef, attemptId, bundle, reports>>
     ELSE Interrupt /\ UNCHANGED met
  /\ UNCHANGED <<mounted, sent>>

Shown ==
  /\ ~visible /\ visible' = TRUE
  /\ UNCHANGED <<mounted, flow, work, cam, requests, sent, met>>

\* The page goes away (Retry of the integration page mounts a new one).
Unmount ==
  /\ mounted /\ mounted' = FALSE
  /\ captures' = Aborted /\ StopCamera
  /\ UNCHANGED <<visible, flow, abortRef, attemptId, bundle, reports, sent, met>>

-------------------------------------------------------------------------------
(* The user.                                                                    *)

\* What the screen of each phase offers: preparation and permission, the camera,
\* the retry, the review, success, the error.
Offers ==
  CASE phase = "idle" -> {"start"}
    [] phase = "streaming" -> {"capture", "switch", "reset"}
    [] phase \in {"switchingCamera", "capturing", "confirmed"} -> {"reset"}
    [] phase = "qualityRetry" -> {"retryRetake", "reset"}
    [] phase = "preview" -> {"retake", "confirm"}
    [] phase = "error" -> {"reset"} \cup IF canRetry THEN {"resume"} ELSE {"start"}
    [] OTHER -> {}

UserActs(button) == visible /\ mounted /\ button \in Offers /\ UNCHANGED page

Unused(i) == requests[i].at = "unused" /\ \A j \in 1..(i-1) : requests[j].at # "unused"
Fresh(k) == captures[k].at = "unused" /\ \A j \in 1..(k-1) : captures[j].at # "unused"

\* acquireCamera(), after START_CAMERA or RETAKE.
AcquireCamera(a) ==
  \/ /\ Move(a) /\ UNCHANGED canRetry
     /\ \E i \in Requests :
          /\ Unused(i)
          /\ requests' = [requests EXCEPT ![i].at = "request"]
          /\ cam' = [cam EXCEPT !.current = i]
     /\ Meet("lateCamera", \E j \in Requests : Pending(j))
  \/ /\ phase' = "error" /\ canRetry' = FALSE   \* no camera API
     /\ UNCHANGED <<thrown, requests, cam, met>>

StartCamera ==
  /\ UserActs("start")
  /\ AcquireCamera("START_CAMERA")
  /\ UNCHANGED <<work, sent>>

Retake ==
  /\ UserActs("retake")
  /\ bundle' = 0
  /\ AcquireCamera("RETAKE")
  /\ UNCHANGED <<captures, abortRef, attemptId, reports, sent>>

\* The previous camera is stopped first.
SwitchCamera ==
  /\ UserActs("switch")
  /\ Move("SWITCH_CAMERA") /\ UNCHANGED canRetry
  /\ \E i \in Requests :
       /\ Unused(i)
       /\ requests' = [Reloaded(requests) EXCEPT ![i].kind = "switch", ![i].at = "request"]
       /\ cam' = [cam EXCEPT !.current = i, !.session = NoStream, !.video = NoStream,
                             !.live = @ \ {cam.session},
                             !.intentional = @ \/ cam.session # NoStream]
  /\ Meet("lateCamera", \E j \in Requests : Pending(j))
  /\ UNCHANGED <<work, sent>>

\* Without a stream the video is not ready; with one it need not be either.
Capture(k) ==
  /\ UserActs("capture") /\ Fresh(k)
  /\ attemptId' = k
  /\ \/ /\ phase' = "error" /\ canRetry' = TRUE
        /\ captures' = [captures EXCEPT ![k].at = "done"]
        /\ UNCHANGED <<abortRef, thrown>>
        /\ Meet("resumable", TRUE)
     \/ /\ cam.video # NoStream
        /\ Move("CAPTURE")
        /\ captures' = [captures EXCEPT ![k].at = "burst"]
        /\ abortRef' = k
        /\ Meet("lateAnalysis", \E j \in Captures : Unfinished(j))
        /\ UNCHANGED canRetry
  /\ UNCHANGED <<bundle, reports, cam, requests, sent>>

RetryRetake ==
  /\ UserActs("retryRetake")
  /\ bundle' = 0
  /\ Move("RETRY_RETAKE")
  /\ UNCHANGED <<canRetry, captures, abortRef, attemptId, reports, cam, requests, sent, met>>

Confirm ==
  /\ UserActs("confirm")
  /\ Move("CONFIRM")
  /\ UNCHANGED <<canRetry, work, cam, requests, sent, met>>

ResumeStream ==
  /\ UserActs("resume")
  /\ Move("RESUME_STREAM")
  /\ UNCHANGED <<canRetry, work, cam, requests, sent, met>>

\* Back of the camera screen, "back to start" of the others.
Reset ==
  /\ UserActs("reset")
  /\ captures' = Aborted /\ abortRef' = 0 /\ attemptId' = 0 /\ bundle' = 0
  /\ StopCamera
  /\ canRetry' = FALSE /\ Move("RESET")
  /\ UNCHANGED <<reports, sent, met>>

-------------------------------------------------------------------------------
(* The continuations of a capture; each ends with its finally clause, which     *)
(* clears abortRef whoever it belongs to.                                       *)

Ends(k) == captures' = [captures EXCEPT ![k].at = "done"] /\ abortRef' = 0

BurstTaken(k) ==
  /\ captures[k].at = "burst" /\ ~captures[k].aborted
  /\ IF phase # "capturing"
     THEN Ends(k) /\ UNCHANGED flow
     ELSE /\ captures' = [captures EXCEPT ![k].at = "analysis"]
          /\ Move("BURST_COMPLETE")
          /\ UNCHANGED <<abortRef, canRetry>>
  /\ UNCHANGED <<page, sent, cam, requests, attemptId, bundle, reports, met>>

\* Mutant: a failed burst is only logged.
BugBurstFails(k) ==
  /\ captures[k].at = "burst"
  /\ Ends(k)
  /\ UNCHANGED <<flow, page, sent, cam, requests, attemptId, bundle, reports, met>>

\* A burst fails with a CameraError: too few frames, no canvas.
BurstFails(k) ==
  /\ captures[k].at = "burst"
  /\ Ends(k)
  /\ IF captures[k].aborted
     THEN UNCHANGED <<flow, met>>
     ELSE canRetry' = TRUE /\ Move("ANALYSIS_ERROR") /\ Meet("resumable", TRUE)
  /\ UNCHANGED <<page, sent, cam, requests, attemptId, bundle, reports>>

Report(k, disposition) ==
  reports' = IF attemptId = 0 THEN reports
             ELSE Append(reports, [attempt |-> attemptId, capture |-> k,
                                   disposition |-> disposition])

AnalysisIgnored(k) ==
  /\ captures[k].at = "analysis" /\ phase # "analyzing"
  /\ Ends(k)
  /\ UNCHANGED <<page, sent, flow, cam, requests, attemptId, bundle, reports, met>>

\* Mutant: the phase is not checked after the analysis.
BugReadyAnyPhase(k) ==
  /\ captures[k].at = "analysis"
  /\ Ends(k)
  /\ bundle' = k
  /\ StopCamera
  /\ Report(k, "QUALITY_ELIGIBLE")
  /\ Move("ANALYSIS_READY")
  /\ UNCHANGED <<page, sent, canRetry, attemptId, met>>

\* Mutant: frames that are there are kept.
BugReadyKeepsFrames(k) ==
  /\ captures[k].at = "analysis" /\ phase = "analyzing"
  /\ Ends(k)
  /\ bundle' = IF bundle = 0 THEN k ELSE bundle
  /\ StopCamera
  /\ Report(k, "QUALITY_ELIGIBLE")
  /\ Move("ANALYSIS_READY")
  /\ UNCHANGED <<page, sent, canRetry, attemptId, met>>

AnalysisReady(k) ==
  /\ captures[k].at = "analysis" /\ phase = "analyzing"
  /\ Ends(k)
  /\ bundle' = k
  /\ StopCamera
  /\ Report(k, "QUALITY_ELIGIBLE")
  /\ Move("ANALYSIS_READY")
  /\ UNCHANGED <<page, sent, canRetry, attemptId, met>>

\* The camera stays on.
AnalysisRetry(k) ==
  /\ captures[k].at = "analysis" /\ phase = "analyzing"
  /\ Ends(k)
  /\ bundle' = k
  /\ Report(k, "QUALITY_RETRY")
  /\ Move("ANALYSIS_RETRY")
  /\ UNCHANGED <<page, sent, canRetry, attemptId, cam, requests, met>>

\* The assessment is neither: canRetryStream is left as it is.
AnalysisUnavailable(k) ==
  /\ captures[k].at = "analysis" /\ phase = "analyzing"
  /\ Ends(k)
  /\ StopCamera
  /\ Move("ANALYSIS_ERROR")
  /\ Meet("keptRetry", canRetry)
  /\ UNCHANGED <<page, sent, canRetry, attemptId, bundle, reports>>

\* analyzeBundle() rejects.
AnalysisFails(k) ==
  /\ captures[k].at = "analysis"
  /\ Ends(k)
  /\ IF captures[k].aborted
     THEN UNCHANGED <<flow, cam, requests>>
     ELSE StopCamera /\ canRetry' = FALSE /\ Move("ANALYSIS_ERROR")
  /\ UNCHANGED <<page, sent, attemptId, bundle, reports, met>>

Work(k) ==
  \/ BurstTaken(k) \/ BurstFails(k)
  \/ AnalysisIgnored(k) \/ AnalysisReady(k) \/ AnalysisRetry(k)
  \/ AnalysisUnavailable(k) \/ AnalysisFails(k)

\* Mutant: the effect does not look at the phase.
BugAutoProcess ==
  /\ mounted
  /\ attemptId \notin {0, processed}
  /\ processed' = attemptId
  /\ uploads' = uploads \cup {[attempt |-> attemptId, capture |-> bundle]}
  /\ UNCHANGED <<page, flow, work, cam, requests, met>>

\* The effect of CapturePage: at most once per attempt id.
AutoProcess ==
  /\ mounted /\ phase = "preview"
  /\ attemptId \notin {0, processed}
  /\ processed' = attemptId
  /\ uploads' = uploads \cup {[attempt |-> attemptId, capture |-> bundle]}
  /\ UNCHANGED <<page, flow, work, cam, requests, met>>

User ==
  \/ StartCamera \/ Retake \/ SwitchCamera \/ RetryRetake \/ Confirm
  \/ ResumeStream \/ Reset
  \/ \E k \in Captures : Capture(k)

Browser ==
  \/ Loaded \/ VisibilityHidden \/ PageHide \/ Shown \/ Unmount
  \/ \E s \in Streams : TrackEnds(s)

Next ==
  \/ User \/ Browser \/ AutoProcess
  \/ \E i \in Requests : Camera(i)
  \/ \E k \in Captures : Work(k)

\* The browser answers every camera request and loads or times out every stream;
\* bursts and analyses end.
Fairness ==
  /\ \A i \in Requests : WF_vars(Camera(i))
  /\ \A k \in Captures : WF_vars(Work(k))

Spec == Init /\ [][Next]_vars /\ Fairness

-------------------------------------------------------------------------------
(* Properties.                                                                  *)

\* Values of the variables.
RequestRecords ==
  [kind : {"start", "switch"},
   at : {"unused", "request", "attach", "play", "unplayed", "enumerate", "done"},
   again : BOOLEAN]

CameraRefs ==
  [current : 0..MaxRequests, session : Streams \cup {NoStream},
   video : Streams \cup {NoStream}, intentional : BOOLEAN, live : SUBSET Streams]

CaptureRecords == [at : {"unused", "burst", "analysis", "done"}, aborted : BOOLEAN]

Reports == [attempt : Captures, capture : Captures,
            disposition : {"QUALITY_ELIGIBLE", "QUALITY_RETRY"}]

CameraTypes ==
  requests \in [Requests -> RequestRecords] /\ cam \in CameraRefs

FlowTypes ==
  /\ phase \in Phases /\ canRetry \in BOOLEAN /\ thrown \in BOOLEAN
  /\ visible \in BOOLEAN /\ mounted \in BOOLEAN
  /\ captures \in [Captures -> CaptureRecords]
  /\ abortRef \in 0..MaxCaptures /\ attemptId \in 0..MaxCaptures
  /\ bundle \in 0..MaxCaptures /\ processed \in 0..MaxCaptures
  /\ reports \in Seq(Reports) /\ uploads \subseteq [attempt : Captures, capture : 0..MaxCaptures]
  /\ met \subseteq Hazards

TypeOK == CameraTypes /\ FlowTypes

\* One press of Capture is reported to the server at most once, whatever answers
\* late (useCaptureFlow.ts:354, 379).
ReportedOnce ==
  \A i, j \in 1..Len(reports) : reports[i].attempt = reports[j].attempt => i = j

\* What is uploaded under an attempt id was reported as eligible under it, with
\* the same frames (CapturePage.tsx:111, useCaptureFlow.ts:355).
UploadWasReported ==
  \A u \in uploads : \E i \in 1..Len(reports) :
     reports[i] = [attempt |-> u.attempt, capture |-> u.capture,
                   disposition |-> "QUALITY_ELIGIBLE"]

\* The frames under review are those of the press that minted the attempt id,
\* unless an analysis outlives its capture (useCaptureFlow.ts:326).
PreviewIsOfAttempt ==
  phase \in {"preview", "confirmed"} /\ "lateAnalysis" \notin met => bundle = attemptId

\* A running stream is the session's or that of a request that will adopt or stop
\* it, unless attaching it timed out (useCamera.ts:59).
NoOrphanStream ==
  "timeout" \notin met =>
    \A s \in cam.live : s = cam.session \/ \E i \in Requests : Pending(i) /\ s = StreamOf(i)

\* The phases of the camera screen have a running camera, whatever the order of
\* events, but for the hazards named (useCaptureFlow.ts:229, 388, 431).
StreamingHasCamera ==
  mounted /\ phase \in {"streaming", "capturing"} /\ met \cap (Races \cup {"keptRetry"}) = {}
    => cam.session \in cam.live

\* The error screen offers to resume a stream that is there, in a behaviour
\* without any race (useCaptureFlow.ts:388, FEATURE_FLOW_ARCHITECTURE.md:170-171).
ResumableHasCamera ==
  mounted /\ phase = "error" /\ canRetry /\ met \cap Races = {} => cam.session \in cam.live

\* On a hidden page every camera is released once its request has settled, but
\* for the hazards named (useCaptureFlow.ts:477, useCamera.ts:184).
HiddenIsReleased ==
  /\ ~visible \/ ~mounted
  /\ \A i \in Requests : ~Pending(i)
  /\ met \cap {"timeout", "resumable"} = {}
  => cam.live = {}

\* No continuation asks for a transition that the table does not have, unless a
\* capture overtakes another (useCaptureFlow.ts:396).
NoInvalidTransition == thrown => "lateAnalysis" \in met

\* The page leaves the phases in which it waits (fairness: requests, bursts and
\* analyses are answered).
Settles ==
  \A p \in {"requestingPermission", "switchingCamera", "capturing", "analyzing"} :
    (mounted /\ phase = p) ~> (~mounted \/ phase # p)
===============================================================================
