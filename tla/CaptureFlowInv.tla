----------------------------- MODULE CaptureFlowInv -----------------------------
(* The inductive invariants of CaptureFlow: captures, attempts, frames, reports  *)
(* and uploads; and the streams of the camera hook.                              *)
EXTENDS CaptureFlow

Reported(k) == \E n \in 1..Len(reports) : reports[n].attempt = k

\* An attempt that is being captured was not reported, whatever answers late; one
\* under review was reported as eligible with the frames of the review.
ReportInv ==
  /\ ReportedOnce /\ UploadWasReported
  /\ \A k \in Captures : Reported(k) \/ k = attemptId => captures[k].at # "unused"
  /\ phase \in {"capturing", "analyzing"} => ~Reported(attemptId)
  /\ phase = "preview" /\ attemptId # 0 =>
       \E n \in 1..Len(reports) :
         reports[n] = [attempt |-> attemptId, capture |-> bundle,
                       disposition |-> "QUALITY_ELIGIBLE"]

\* Without a late analysis one capture runs at a time; it is the one of the abort
\* controller and of the attempt id until it is aborted.
AttemptInv ==
  "lateAnalysis" \notin met =>
    /\ ~thrown
    /\ \A j, k \in Captures : Unfinished(j) /\ Unfinished(k) => j = k
    /\ \A k \in Captures : Unfinished(k) /\ ~captures[k].aborted =>
         /\ abortRef = k
         /\ phase = IF captures[k].at = "burst" THEN "capturing" ELSE "analyzing"
    /\ \A k \in Captures : Unfinished(k) /\ phase \in {"capturing", "analyzing"} => attemptId = k
    /\ phase \in {"preview", "confirmed"} => bundle = attemptId

FlowInv == FlowTypes /\ ReportInv /\ AttemptInv

-------------------------------------------------------------------------------
(* The camera hook.                                                             *)

\* The streams that a request may still be granted.
Ahead(i) ==
  {s \in {i} \X BOOLEAN :
     \/ s = StreamOf(i) /\ requests[i].at \in {"unused", "request"}
     \/ s = <<i, TRUE>> /\ ~requests[i].again}

\* A request begins as a start without a second stream, and only a switch asks for
\* a second one; no stream runs before it is granted or is the session's before it
\* plays, and the current request that lists the cameras has the session.
Orderly(i) ==
  /\ requests[i].at = "unused" => requests[i].kind = "start"
  /\ requests[i].again => requests[i].kind = "switch" /\ requests[i].at # "unused"
  /\ Ahead(i) \cap (cam.live \cup {cam.session}) = {}
  /\ requests[i].at \in {"attach", "play", "unplayed"} => cam.session # StreamOf(i)
  /\ requests[i].at = "enumerate" /\ ~Stale(i) /\ StreamOf(i) \in cam.live
       => cam.session = StreamOf(i)

RequestInv == \A i \in Requests : Orderly(i)

\* Without a timeout and without an error that keeps the camera, the phases that
\* have no camera have no current request, and a session only between the start of
\* its video and the return to the flow.
ReleaseInv ==
  met \cap {"timeout", "resumable"} = {} =>
    /\ ~visible /\ mounted => phase \in Ignored
    /\ (phase \in Ignored \/ ~mounted) => \A i \in Requests : Pending(i) => Stale(i)
    /\ phase = "requestingPermission" =>
         \A i \in Requests : ~Stale(i) => requests[i].kind = "start"
    /\ /\ (phase \in Ignored \cup {"requestingPermission"}) \/ ~mounted
       /\ cam.session \in cam.live
       => \E i \in Requests : requests[i].at = "enumerate" /\ cam.session = StreamOf(i)

\* The stream of a request runs until its video plays, unless its track ended.
GrantedRuns ==
  "ended" \notin met =>
    \A i \in Requests :
      requests[i].at \in {"attach", "play", "unplayed"} => StreamOf(i) \in cam.live

\* The phases that use a camera.
Using(p, resumable) ==
  \/ p \in {"streaming", "capturing", "analyzing", "qualityRetry"}
  \/ p = "error" /\ resumable

\* Without a race, the phases that wait for the camera have one request, the current
\* one, and the phases that use the camera have a session that runs and no request.
StreamingInv ==
  mounted /\ met \cap (Races \cup {"keptRetry"}) = {} =>
    /\ \A i \in Requests : Pending(i) /\ ~Stale(i) => phase = Awaited(i)
    /\ phase \in {"requestingPermission", "switchingCamera"} =>
         \A i \in Requests : Pending(i) =>
           /\ ~Stale(i)
           /\ IF requests[i].at = "enumerate"
              THEN cam.session = StreamOf(i) /\ cam.session \in cam.live
              ELSE phase = "switchingCamera" => cam.session = NoStream
    /\ Using(phase, canRetry) => cam.session \in cam.live /\ \A i \in Requests : ~Pending(i)

CameraInv ==
  /\ CameraTypes /\ RequestInv /\ NoOrphanStream
  /\ ReleaseInv /\ GrantedRuns /\ StreamingInv
===============================================================================
