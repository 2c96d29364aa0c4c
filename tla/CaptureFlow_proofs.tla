--------------------------- MODULE CaptureFlow_proofs ---------------------------
(***************************************************************************)
(* One press of Capture is reported at most once, what is uploaded was     *)
(* reported, a review shows the frames of its attempt, no camera is left   *)
(* running without an owner, and the phases of the page say whether there  *)
(* is one, whatever the number of camera requests and captures and in      *)
(* whatever order they answer.                                             *)
(***************************************************************************)
EXTENDS CaptureFlowInv, SequenceTheorems, TLAPS

\* The camera leaves the captures alone and moves the flow to the camera screen or
\* to the error screen only.
LEMMA CameraSteps ==
  ASSUME NEW i \in Requests, Camera(i)
  PROVE  /\ UNCHANGED <<page, work, sent>>
         /\ UNCHANGED thrown /\ phase' \in {phase, "streaming", "error"}
         /\ phase' # phase => phase \in {"requestingPermission", "switchingCamera"}
         /\ canRetry' \in {canRetry, FALSE}
         /\ met' \in {met, met \cup {"timeout"}}
<1> USE DEF CameraOnly, Meet, flow
<1>1. ASSUME NEW c, Resolve(i, c)
      PROVE  /\ UNCHANGED <<thrown, canRetry>> /\ phase' \in {phase, "streaming"}
             /\ phase' # phase => phase \in {"requestingPermission", "switchingCamera"}
  BY <1>1 DEF Resolve, Awaited, Move, AllowedFrom, Target
<1>2. ASSUME NEW c, Reject(i, c)
      PROVE  /\ UNCHANGED thrown /\ phase' \in {phase, "streaming", "error"}
             /\ phase' # phase => phase \in {"requestingPermission", "switchingCamera"}
             /\ canRetry' \in {canRetry, FALSE}
  BY <1>2 DEF Reject, Awaited, Move, AllowedFrom, Target
<1>3. ASSUME NEW c, Fail(i, c)
      PROVE  /\ UNCHANGED thrown /\ phase' \in {phase, "streaming", "error"}
             /\ phase' # phase => phase \in {"requestingPermission", "switchingCamera"}
             /\ canRetry' \in {canRetry, FALSE}
  BY <1>1, <1>2, <1>3 DEF Fail
<1>4. CASE Granted(i)
  BY <1>1, <1>4 DEF Granted
<1>5. CASE Denied(i)
  BY <1>3, <1>5 DEF Denied
<1>6. CASE AttachTimesOut(i)
  BY <1>3, <1>6 DEF AttachTimesOut
<1>7. CASE Played(i)
  BY <1>7 DEF Played
<1>8. CASE PlayFails(i)
  BY <1>3, <1>8 DEF PlayFails
<1>9. CASE Enumerated(i)
  BY <1>1, <1>2, <1>9 DEF Enumerated
<1>10. QED
  BY <1>4, <1>5, <1>6, <1>7, <1>8, <1>9 DEF Camera

\* The reducer keeps its types.
LEMMA MoveTypes ==
  ASSUME phase \in Phases, thrown \in BOOLEAN, NEW a \in FlowActions, Move(a)
  PROVE  phase' \in Phases /\ thrown' \in BOOLEAN
<1>1. CASE phase \in AllowedFrom(a)
  <2>1. Target(a) \in Phases
    BY <1>1 DEF FlowActions, AllowedFrom, Target, Phases
  <2>2. QED
    BY <1>1, <2>1 DEF Move
<1>2. CASE phase \notin AllowedFrom(a)
  BY <1>2 DEF Move
<1>3. QED
  BY <1>1, <1>2

\* An abort marks one capture and leaves where it awaits.
LEMMA AbortSteps ==
  ASSUME FlowTypes, captures' = Aborted
  PROVE  /\ captures' \in [Captures -> CaptureRecords]
         /\ \A k \in Captures :
              /\ captures'[k].at = captures[k].at
              /\ captures[k].aborted => captures'[k].aborted
              /\ k = abortRef => captures'[k].aborted
  BY DEF FlowTypes, CaptureRecords, Aborted

\* The end of a capture.
LEMMA EndSteps ==
  ASSUME FlowTypes, NEW k \in Captures, Ends(k)
  PROVE  /\ captures' \in [Captures -> CaptureRecords] /\ abortRef' = 0
         /\ captures'[k].at = "done"
         /\ \A j \in Captures : j # k => captures'[j] = captures[j]
  BY DEF FlowTypes, CaptureRecords, Ends

\* A report adds one element.
LEMMA ReportSteps ==
  ASSUME FlowTypes, NEW k \in Captures, NEW d \in {"QUALITY_ELIGIBLE", "QUALITY_RETRY"},
         Report(k, d)
  PROVE  /\ reports' \in Seq(Reports)
         /\ attemptId = 0 => reports' = reports
         /\ attemptId # 0 =>
              /\ attemptId \in Captures
              /\ Len(reports') = Len(reports) + 1
              /\ \A n \in 1..Len(reports) : reports'[n] = reports[n]
              /\ reports'[Len(reports) + 1] =
                   [attempt |-> attemptId, capture |-> k, disposition |-> d]
<1>1. CASE attemptId = 0
  BY <1>1 DEF Report, FlowTypes
<1>2. CASE attemptId # 0
  <2> DEFINE r == [attempt |-> attemptId, capture |-> k, disposition |-> d]
  <2>1. attemptId \in Captures
    BY <1>2, BoundsAssumption DEF FlowTypes, Captures
  <2>2. r \in Reports
    BY <2>1 DEF Reports
  <2>3. reports \in Seq(Reports) /\ reports' = Append(reports, r)
    BY <1>2 DEF Report, FlowTypes
  <2> HIDE DEF r
  <2>4. /\ reports' \in Seq(Reports) /\ Len(reports') = Len(reports) + 1
        /\ \A n \in 1..Len(reports) : reports'[n] = reports[n]
        /\ reports'[Len(reports) + 1] = r
    BY <2>2, <2>3, AppendProperties
  <2>5. QED
    BY <1>2, <2>1, <2>4 DEF r
<1>3. QED
  BY <1>1, <1>2

\* An interruption: the capture of the abort controller is aborted, the flow goes to
\* the error screen from the phases of a camera.
LEMMA InterruptSteps ==
  ASSUME FlowTypes, Interrupt
  PROVE  /\ captures' = Aborted /\ canRetry' = FALSE
         /\ UNCHANGED <<abortRef, attemptId, bundle, reports>>
         /\ phase \notin {"idle", "preview", "confirmed", "error"} =>
              phase' = "error" /\ UNCHANGED thrown
         /\ phase \in {"idle", "preview", "confirmed", "error"} => UNCHANGED phase
         /\ phase' \in Phases /\ thrown' \in BOOLEAN
<1>1. phase' \in Phases /\ thrown' \in BOOLEAN
  BY MoveTypes DEF Interrupt, FlowTypes, FlowActions
<1>2. QED
  BY <1>1 DEF Interrupt, Move, AllowedFrom, Target, FlowTypes

\* Types of the flow.
LEMMA FlowTypesNext ==
  ASSUME FlowTypes, [Next]_vars
  PROVE  FlowTypes'
<1> USE BoundsAssumption DEF FlowTypes, CaptureRecords, Hazards, flow, work, page,
     sent, Meet, Captures
<1>1. CASE StartCamera
  BY <1>1 DEF StartCamera, UserActs, Offers, AcquireCamera, Move, AllowedFrom,
     Target, Phases
<1>2. CASE Retake
  <2>1. phase' \in Phases /\ thrown' \in BOOLEAN
    BY <1>2, MoveTypes DEF Retake, AcquireCamera, FlowActions, Phases
  <2>2. met' \subseteq Hazards /\ canRetry' \in BOOLEAN
    BY <1>2 DEF Retake, AcquireCamera
  <2>3. QED
    BY <1>2, <2>1, <2>2 DEF Retake, UserActs
<1>3. CASE SwitchCamera
  BY <1>3 DEF SwitchCamera, UserActs, Offers, Move, AllowedFrom, Target, Phases
<1>4. CASE RetryRetake
  BY <1>4 DEF RetryRetake, UserActs, Offers, Move, AllowedFrom, Target, Phases
<1>5. CASE Confirm
  BY <1>5 DEF Confirm, UserActs, Offers, Move, AllowedFrom, Target, Phases
<1>6. CASE ResumeStream
  BY <1>6 DEF ResumeStream, UserActs, Offers, Move, AllowedFrom, Target, Phases
<1>7. CASE Reset
  <2>1. phase' \in Phases /\ thrown' \in BOOLEAN
    BY <1>7, MoveTypes DEF Reset, FlowActions
  <2>2. captures' \in [Captures -> CaptureRecords]
    BY <1>7, AbortSteps DEF Reset
  <2>3. abortRef' \in 0..MaxCaptures /\ attemptId' \in 0..MaxCaptures /\ bundle' \in 0..MaxCaptures
    BY <1>7 DEF Reset
  <2>4. UNCHANGED <<visible, mounted, processed, reports, uploads, met>> /\ canRetry' = FALSE
    BY <1>7 DEF Reset, UserActs
  <2>5. QED
    BY <2>1, <2>2, <2>3, <2>4
<1>8. ASSUME NEW k \in Captures, Capture(k) PROVE FlowTypes'
  <2>1. phase' \in Phases /\ thrown' \in BOOLEAN
    BY <1>8, MoveTypes DEF Capture, FlowActions, Phases
  <2>2. captures' \in [Captures -> CaptureRecords] /\ abortRef' \in 0..MaxCaptures
    <3>1. \A x \in {"burst", "done"} :
             [captures EXCEPT ![k].at = x] \in [Captures -> CaptureRecords]
      OBVIOUS
    <3>2. \E x \in {"burst", "done"} : captures' = [captures EXCEPT ![k].at = x]
      BY <1>8 DEF Capture
    <3>3. abortRef' \in {abortRef, k}
      BY <1>8 DEF Capture
    <3>4. QED
      BY SMTT(60), <3>1, <3>2, <3>3
  <2>3. met' \subseteq Hazards /\ canRetry' \in BOOLEAN
    BY <1>8 DEF Capture
  <2>4. QED
    BY <1>8, <2>1, <2>2, <2>3 DEF Capture, UserActs
<1>9. CASE Loaded
  BY <1>9 DEF Loaded, CameraOnly
<1>10. CASE VisibilityHidden
  <2>1. CASE Interrupt
    BY <1>10, <2>1, InterruptSteps, AbortSteps DEF VisibilityHidden
  <2>2. CASE ~Interrupt
    BY <1>10, <2>2 DEF VisibilityHidden
  <2>3. QED
    BY <2>1, <2>2
<1>11. CASE PageHide
  <2>1. CASE Interrupt /\ UNCHANGED met
    BY <1>11, <2>1, InterruptSteps, AbortSteps DEF PageHide
  <2>2. CASE captures' = Aborted /\ UNCHANGED <<flow, abortRef, attemptId, bundle, reports>>
    <3>1. met' \subseteq Hazards
      BY <1>11 DEF PageHide
    <3>2. QED
      BY <1>11, <2>2, <3>1, AbortSteps DEF PageHide
  <2>3. QED
    BY <1>11, <2>1, <2>2 DEF PageHide
<1>12. CASE Shown
  BY <1>12 DEF Shown
<1>13. CASE Unmount
  BY <1>13 DEF Unmount, Aborted, StopCamera
<1>14. ASSUME NEW s \in Streams, TrackEnds(s) PROVE FlowTypes'
  <2>1. CASE Interrupt /\ UNCHANGED met
    BY <1>14, <2>1, InterruptSteps, AbortSteps DEF TrackEnds
  <2>2. CASE UNCHANGED <<flow, work>> /\ Meet("ended", TRUE)
    BY <1>14, <2>2 DEF TrackEnds
  <2>3. QED
    BY <1>14, <2>1, <2>2 DEF TrackEnds
<1>15. CASE AutoProcess
  BY <1>15 DEF AutoProcess
<1>16. ASSUME NEW i \in Requests, Camera(i) PROVE FlowTypes'
  <2>1. UNCHANGED <<page, work, sent, thrown>>
    BY <1>16, CameraSteps
  <2>2. phase' \in Phases /\ canRetry' \in BOOLEAN /\ met' \subseteq Hazards
    BY <1>16, CameraSteps DEF Phases
  <2>3. QED
    BY <2>1, <2>2
<1>17. ASSUME NEW k \in Captures, BurstTaken(k) PROVE FlowTypes'
  <2>1. phase' \in Phases /\ thrown' \in BOOLEAN
    BY <1>17, MoveTypes DEF BurstTaken, FlowActions
  <2>2. captures' \in [Captures -> CaptureRecords] /\ abortRef' \in 0..MaxCaptures
    <3>1. [captures EXCEPT ![k].at = "analysis"] \in [Captures -> CaptureRecords]
      OBVIOUS
    <3>2. Ends(k) \/ (captures' = [captures EXCEPT ![k].at = "analysis"] /\ UNCHANGED abortRef)
      BY <1>17 DEF BurstTaken
    <3>3. CASE Ends(k)
      <4>1. captures' \in [Captures -> CaptureRecords] /\ abortRef' = 0
        BY <3>3, EndSteps
      <4>2. QED
        BY <4>1
    <3>4. QED
      BY <3>1, <3>2, <3>3
  <2>3. met' \subseteq Hazards /\ canRetry' \in BOOLEAN
    BY <1>17 DEF BurstTaken
  <2>4. reports' \in Seq(Reports)
    BY <1>17 DEF BurstTaken
  <2>5. UNCHANGED <<visible, mounted, attemptId, processed, uploads>> /\ bundle' \in {bundle, k}
    BY <1>17 DEF BurstTaken
  <2>6. QED
    BY <2>1, <2>2, <2>3, <2>4, <2>5
<1>18. ASSUME NEW k \in Captures, BurstFails(k) PROVE FlowTypes'
  <2>1. phase' \in Phases /\ thrown' \in BOOLEAN
    BY <1>18, MoveTypes DEF BurstFails, FlowActions
  <2>2. captures' \in [Captures -> CaptureRecords] /\ abortRef' \in 0..MaxCaptures
    BY <1>18, EndSteps DEF BurstFails
  <2>3. met' \subseteq Hazards /\ canRetry' \in BOOLEAN
    BY <1>18 DEF BurstFails
  <2>4. reports' \in Seq(Reports)
    BY <1>18 DEF BurstFails
  <2>5. UNCHANGED <<visible, mounted, attemptId, processed, uploads>> /\ bundle' \in {bundle, k}
    BY <1>18 DEF BurstFails
  <2>6. QED
    BY <2>1, <2>2, <2>3, <2>4, <2>5
<1>19. ASSUME NEW k \in Captures, AnalysisIgnored(k) PROVE FlowTypes'
  <2>1. UNCHANGED <<phase, thrown, canRetry, visible, mounted, attemptId, bundle, processed,
                    reports, uploads, met>>
    BY <1>19 DEF AnalysisIgnored
  <2>2. captures' \in [Captures -> CaptureRecords] /\ abortRef' \in 0..MaxCaptures
    BY <1>19, EndSteps DEF AnalysisIgnored
  <2>3. QED
    BY <2>1, <2>2
<1>20. ASSUME NEW k \in Captures, AnalysisReady(k) PROVE FlowTypes'
  <2>1. phase' \in Phases /\ thrown' \in BOOLEAN
    BY <1>20, MoveTypes DEF AnalysisReady, FlowActions
  <2>2. captures' \in [Captures -> CaptureRecords] /\ abortRef' \in 0..MaxCaptures
    BY <1>20, EndSteps DEF AnalysisReady
  <2>3. met' \subseteq Hazards /\ canRetry' \in BOOLEAN
    BY <1>20 DEF AnalysisReady
  <2>4. reports' \in Seq(Reports)
    BY <1>20, ReportSteps DEF AnalysisReady
  <2>5. UNCHANGED <<visible, mounted, attemptId, processed, uploads>> /\ bundle' \in {bundle, k}
    BY <1>20 DEF AnalysisReady
  <2>6. QED
    BY <2>1, <2>2, <2>3, <2>4, <2>5
<1>21. ASSUME NEW k \in Captures, AnalysisRetry(k) PROVE FlowTypes'
  <2>1. phase' \in Phases /\ thrown' \in BOOLEAN
    BY <1>21, MoveTypes DEF AnalysisRetry, FlowActions
  <2>2. captures' \in [Captures -> CaptureRecords] /\ abortRef' \in 0..MaxCaptures
    BY <1>21, EndSteps DEF AnalysisRetry
  <2>3. met' \subseteq Hazards /\ canRetry' \in BOOLEAN
    BY <1>21 DEF AnalysisRetry
  <2>4. reports' \in Seq(Reports)
    BY <1>21, ReportSteps DEF AnalysisRetry
  <2>5. UNCHANGED <<visible, mounted, attemptId, processed, uploads>> /\ bundle' \in {bundle, k}
    BY <1>21 DEF AnalysisRetry
  <2>6. QED
    BY <2>1, <2>2, <2>3, <2>4, <2>5
<1>22. ASSUME NEW k \in Captures, AnalysisUnavailable(k) PROVE FlowTypes'
  <2>1. phase' \in Phases /\ thrown' \in BOOLEAN
    BY <1>22, MoveTypes DEF AnalysisUnavailable, FlowActions
  <2>2. captures' \in [Captures -> CaptureRecords] /\ abortRef' \in 0..MaxCaptures
    BY <1>22, EndSteps DEF AnalysisUnavailable
  <2>3. met' \subseteq Hazards /\ canRetry' \in BOOLEAN
    BY <1>22 DEF AnalysisUnavailable
  <2>4. reports' \in Seq(Reports)
    BY <1>22 DEF AnalysisUnavailable
  <2>5. UNCHANGED <<visible, mounted, attemptId, processed, uploads>> /\ bundle' \in {bundle, k}
    BY <1>22 DEF AnalysisUnavailable
  <2>6. QED
    BY <2>1, <2>2, <2>3, <2>4, <2>5
<1>23. ASSUME NEW k \in Captures, AnalysisFails(k) PROVE FlowTypes'
  <2>1. phase' \in Phases /\ thrown' \in BOOLEAN
    BY <1>23, MoveTypes DEF AnalysisFails, FlowActions
  <2>2. captures' \in [Captures -> CaptureRecords] /\ abortRef' \in 0..MaxCaptures
    BY <1>23, EndSteps DEF AnalysisFails
  <2>3. met' \subseteq Hazards /\ canRetry' \in BOOLEAN
    BY <1>23 DEF AnalysisFails
  <2>4. reports' \in Seq(Reports)
    BY <1>23 DEF AnalysisFails
  <2>5. UNCHANGED <<visible, mounted, attemptId, processed, uploads>> /\ bundle' \in {bundle, k}
    BY <1>23 DEF AnalysisFails
  <2>6. QED
    BY <2>1, <2>2, <2>3, <2>4, <2>5
<1>24. CASE UNCHANGED vars
  BY <1>24 DEF vars
<1>25. QED
  BY <1>1, <1>2, <1>3, <1>4, <1>5, <1>6, <1>7, <1>8, <1>9, <1>10, <1>11, <1>12,
     <1>13, <1>14, <1>15, <1>16, <1>17, <1>18, <1>19, <1>20, <1>21, <1>22, <1>23, <1>24
  DEF Next, User, Browser, Work

\* Reports, uploads and the attempt id.
LEMMA ReportNext ==
  ASSUME FlowTypes, ReportInv, [Next]_vars
  PROVE  ReportInv'
<1> USE BoundsAssumption DEF FlowTypes, ReportInv, ReportedOnce, UploadWasReported,
     Reported, Reports, CaptureRecords, flow, work, page, sent, Meet, Captures
<1>1. CASE StartCamera
  BY <1>1 DEF StartCamera, UserActs, Offers, AcquireCamera, Move, AllowedFrom,
     Target, Phases
<1>2. CASE Retake
  BY <1>2 DEF Retake, UserActs, Offers, AcquireCamera, Move, AllowedFrom, Target, Phases
<1>3. CASE SwitchCamera
  BY <1>3 DEF SwitchCamera, UserActs, Offers, Move, AllowedFrom, Target, Phases
<1>4. CASE RetryRetake
  BY <1>4 DEF RetryRetake, UserActs, Offers, Move, AllowedFrom, Target, Phases
<1>5. CASE Confirm
  BY <1>5 DEF Confirm, UserActs, Offers, Move, AllowedFrom, Target, Phases
<1>6. CASE ResumeStream
  BY <1>6 DEF ResumeStream, UserActs, Offers, Move, AllowedFrom, Target, Phases
<1>7. CASE Reset
  BY <1>7 DEF Reset, Aborted, StopCamera, UserActs, Offers, Move, AllowedFrom,
     Target, Phases
<1>8. ASSUME NEW k \in Captures, Capture(k) PROVE ReportInv'
  <2>1. captures[k].at = "unused" /\ attemptId' = k /\ UNCHANGED <<bundle, reports, uploads>>
    BY <1>8 DEF Capture, Fresh
  <2>2. phase' \in {"error", "capturing"}
    BY <1>8 DEF Capture, UserActs, Offers, Move, AllowedFrom, Target
  <2>3. captures'[k].at # "unused" /\ \A j \in Captures : j # k => captures'[j] = captures[j]
    BY SMTT(20), <1>8 DEF Capture
  <2>4. ~Reported(k)
    BY <2>1
  <2>5. QED
    BY <2>1, <2>2, <2>3, <2>4
<1>9. CASE Loaded
  BY <1>9 DEF Loaded, CameraOnly
<1>10. CASE VisibilityHidden
  <2>1. CASE Interrupt
    <3>1. UNCHANGED <<attemptId, bundle, reports, uploads>> /\ phase' \in {phase, "error"}
      BY <1>10, <2>1, InterruptSteps DEF VisibilityHidden
    <3>2. \A k \in Captures : captures'[k].at = captures[k].at
      BY <2>1, InterruptSteps, AbortSteps
    <3>3. QED
      BY <3>1, <3>2
  <2>2. CASE ~Interrupt
    <3>1. UNCHANGED <<attemptId, bundle, reports, uploads, phase>>
      BY <1>10, <2>2 DEF VisibilityHidden
    <3>2. \A k \in Captures : captures'[k].at = captures[k].at
      BY <1>10, <2>2, AbortSteps DEF VisibilityHidden
    <3>3. QED
      BY <3>1, <3>2
  <2>3. QED
    BY <2>1, <2>2
<1>11. CASE PageHide
  <2>1. CASE Interrupt
    <3>1. UNCHANGED <<attemptId, bundle, reports, uploads>> /\ phase' \in {phase, "error"}
      BY <1>11, <2>1, InterruptSteps DEF PageHide
    <3>2. \A k \in Captures : captures'[k].at = captures[k].at
      BY <2>1, InterruptSteps, AbortSteps
    <3>3. QED
      BY <3>1, <3>2
  <2>2. CASE ~Interrupt
    <3>1. UNCHANGED <<attemptId, bundle, reports, uploads, phase>>
      BY <1>11, <2>2 DEF PageHide
    <3>2. \A k \in Captures : captures'[k].at = captures[k].at
      BY <1>11, <2>2, AbortSteps DEF PageHide
    <3>3. QED
      BY <3>1, <3>2
  <2>3. QED
    BY <2>1, <2>2
<1>12. CASE Shown
  BY <1>12 DEF Shown
<1>13. CASE Unmount
  BY <1>13 DEF Unmount, Aborted, StopCamera
<1>14. ASSUME NEW s \in Streams, TrackEnds(s) PROVE ReportInv'
  <2>1. CASE Interrupt
    <3>1. UNCHANGED <<attemptId, bundle, reports, uploads>> /\ phase' \in {phase, "error"}
      BY <1>14, <2>1, InterruptSteps DEF TrackEnds
    <3>2. \A k \in Captures : captures'[k].at = captures[k].at
      BY <2>1, InterruptSteps, AbortSteps
    <3>3. QED
      BY <3>1, <3>2
  <2>2. CASE ~Interrupt
    <3>1. UNCHANGED <<attemptId, bundle, reports, uploads, phase>>
      BY <1>14, <2>2 DEF TrackEnds
    <3>2. \A k \in Captures : captures'[k].at = captures[k].at
      BY <1>14, <2>2, AbortSteps DEF TrackEnds
    <3>3. QED
      BY <3>1, <3>2
  <2>3. QED
    BY <2>1, <2>2
<1>15. CASE AutoProcess
  BY <1>15 DEF AutoProcess
<1>16. ASSUME NEW i \in Requests, Camera(i) PROVE ReportInv'
  BY <1>16, CameraSteps
<1>17. ASSUME NEW k \in Captures, BurstTaken(k) PROVE ReportInv'
  BY <1>17 DEF BurstTaken, Ends, Move, AllowedFrom, Target, Phases
<1>18. ASSUME NEW k \in Captures, BurstFails(k) PROVE ReportInv'
  BY <1>18 DEF BurstFails, Ends, Move, AllowedFrom, Target, Phases
<1>19. ASSUME NEW k \in Captures, AnalysisIgnored(k) PROVE ReportInv'
  BY <1>19 DEF AnalysisIgnored, Ends
<1>20. ASSUME NEW k \in Captures, AnalysisReady(k) PROVE ReportInv'
  <2>1. phase = "analyzing" /\ UNCHANGED <<attemptId, uploads>> /\ bundle' = k
    BY <1>20 DEF AnalysisReady
  <2>2. phase' = "preview"
    BY <1>20 DEF AnalysisReady, Move, AllowedFrom, Target
  <2>3. \A j \in Captures : captures[j].at # "unused" => captures'[j].at # "unused"
    BY <1>20, EndSteps DEF AnalysisReady
  <2>4. CASE attemptId = 0
    <3>1. reports' = reports
      BY <1>20, <2>4, ReportSteps DEF AnalysisReady
    <3>2. QED
      BY <2>1, <2>2, <2>3, <2>4, <3>1
  <2>5. CASE attemptId # 0
    <3> DEFINE r == [attempt |-> attemptId, capture |-> k, disposition |-> "QUALITY_ELIGIBLE"]
    <3>1. /\ attemptId \in Captures
          /\ Len(reports') = Len(reports) + 1
          /\ \A n \in 1..Len(reports) : reports'[n] = reports[n]
          /\ reports'[Len(reports) + 1] = r
      BY <1>20, <2>5, ReportSteps DEF AnalysisReady
    <3>2. \A n \in 1..Len(reports) : reports[n].attempt # attemptId
      BY <2>1
    <3>3. Len(reports) \in Nat
      BY LenProperties
    <3>4. r.attempt = attemptId
      OBVIOUS
    <3> HIDE DEF r
    <3>0. \A n \in 1..Len(reports') : n \in 1..Len(reports) \/ n = Len(reports) + 1
      BY <3>1, <3>3
    <3>5. ReportedOnce'
      <4>1. \A n \in 1..Len(reports') :
               reports'[n].attempt = IF n = Len(reports) + 1 THEN attemptId ELSE reports[n].attempt
        BY <3>0, <3>1, <3>3, <3>4
      <4>2. QED
        BY <3>0, <3>2, <4>1
    <3>6. UploadWasReported'
      BY SMTT(20), <2>1, <3>1, <3>3
    <3>7. ASSUME NEW j \in Captures, Reported(j)'
          PROVE  Reported(j) \/ j = attemptId
      <4>1. PICK n \in 1..Len(reports') : reports'[n].attempt = j
        BY <3>7
      <4>2. CASE n \in 1..Len(reports)
        BY <3>1, <4>1, <4>2
      <4>3. CASE n = Len(reports) + 1
        BY <3>1, <3>4, <4>1, <4>3
      <4>4. QED
        BY <3>0, <4>1, <4>2, <4>3
    <3>8. \A j \in Captures : Reported(j)' \/ j = attemptId' => captures'[j].at # "unused"
      BY <2>1, <2>3, <3>7
    <3>9. Len(reports) + 1 \in 1..Len(reports')
      BY <3>1, <3>3
    <3>10. QED
      BY <2>1, <2>2, <3>1, <3>5, <3>6, <3>8, <3>9 DEF r
  <2>6. QED
    BY <2>4, <2>5
<1>21. ASSUME NEW k \in Captures, AnalysisRetry(k) PROVE ReportInv'
  <2>1. phase = "analyzing" /\ UNCHANGED <<attemptId, uploads>> /\ bundle' = k
    BY <1>21 DEF AnalysisRetry
  <2>2. phase' = "qualityRetry"
    BY <1>21 DEF AnalysisRetry, Move, AllowedFrom, Target
  <2>3. \A j \in Captures : captures[j].at # "unused" => captures'[j].at # "unused"
    BY <1>21, EndSteps DEF AnalysisRetry
  <2>4. CASE attemptId = 0
    <3>1. reports' = reports
      BY <1>21, <2>4, ReportSteps DEF AnalysisRetry
    <3>2. QED
      BY <2>1, <2>2, <2>3, <2>4, <3>1
  <2>5. CASE attemptId # 0
    <3> DEFINE r == [attempt |-> attemptId, capture |-> k, disposition |-> "QUALITY_RETRY"]
    <3>1. /\ attemptId \in Captures
          /\ Len(reports') = Len(reports) + 1
          /\ \A n \in 1..Len(reports) : reports'[n] = reports[n]
          /\ reports'[Len(reports) + 1] = r
      BY <1>21, <2>5, ReportSteps DEF AnalysisRetry
    <3>2. \A n \in 1..Len(reports) : reports[n].attempt # attemptId
      BY <2>1
    <3>3. Len(reports) \in Nat
      BY LenProperties
    <3>4. r.attempt = attemptId
      OBVIOUS
    <3> HIDE DEF r
    <3>0. \A n \in 1..Len(reports') : n \in 1..Len(reports) \/ n = Len(reports) + 1
      BY <3>1, <3>3
    <3>5. ReportedOnce'
      <4>1. \A n \in 1..Len(reports') :
               reports'[n].attempt = IF n = Len(reports) + 1 THEN attemptId ELSE reports[n].attempt
        BY <3>0, <3>1, <3>3, <3>4
      <4>2. QED
        BY <3>0, <3>2, <4>1
    <3>6. UploadWasReported'
      BY SMTT(20), <2>1, <3>1, <3>3
    <3>7. ASSUME NEW j \in Captures, Reported(j)'
          PROVE  Reported(j) \/ j = attemptId
      <4>1. PICK n \in 1..Len(reports') : reports'[n].attempt = j
        BY <3>7
      <4>2. CASE n \in 1..Len(reports)
        BY <3>1, <4>1, <4>2
      <4>3. CASE n = Len(reports) + 1
        BY <3>1, <3>4, <4>1, <4>3
      <4>4. QED
        BY <3>0, <4>1, <4>2, <4>3
    <3>8. \A j \in Captures : Reported(j)' \/ j = attemptId' => captures'[j].at # "unused"
      BY <2>1, <2>3, <3>7
    <3>9. Len(reports) + 1 \in 1..Len(reports')
      BY <3>1, <3>3
    <3>10. QED
      BY <2>1, <2>2, <3>1, <3>5, <3>6, <3>8, <3>9 DEF r
  <2>6. QED
    BY <2>4, <2>5
<1>22. ASSUME NEW k \in Captures, AnalysisUnavailable(k) PROVE ReportInv'
  BY <1>22 DEF AnalysisUnavailable, Ends, StopCamera, Move, AllowedFrom, Target, Phases
<1>23. ASSUME NEW k \in Captures, AnalysisFails(k) PROVE ReportInv'
  BY <1>23 DEF AnalysisFails, Ends, StopCamera, Move, AllowedFrom, Target, Phases
<1>24. CASE UNCHANGED vars
  BY <1>24 DEF vars
<1>25. QED
  BY <1>1, <1>2, <1>3, <1>4, <1>5, <1>6, <1>7, <1>8, <1>9, <1>10, <1>11, <1>12,
     <1>13, <1>14, <1>15, <1>16, <1>17, <1>18, <1>19, <1>20, <1>21, <1>22, <1>23, <1>24
  DEF Next, User, Browser, Work

\* The capture of the abort controller.
LEMMA AttemptNext ==
  ASSUME FlowTypes, AttemptInv, [Next]_vars
  PROVE  AttemptInv'
<1> USE BoundsAssumption DEF FlowTypes, AttemptInv, Unfinished, CaptureRecords, flow,
     work, page, sent, Meet, Captures
<1>1. CASE StartCamera
  BY <1>1 DEF StartCamera, UserActs, Offers, AcquireCamera, Move, AllowedFrom,
     Target, Phases
<1>2. CASE Retake
  BY <1>2 DEF Retake, UserActs, Offers, AcquireCamera, Move, AllowedFrom, Target, Phases
<1>3. CASE SwitchCamera
  BY <1>3 DEF SwitchCamera, UserActs, Offers, Move, AllowedFrom, Target, Phases
<1>4. CASE RetryRetake
  BY <1>4 DEF RetryRetake, UserActs, Offers, Move, AllowedFrom, Target, Phases
<1>5. CASE Confirm
  BY <1>5 DEF Confirm, UserActs, Offers, Move, AllowedFrom, Target, Phases
<1>6. CASE ResumeStream
  BY <1>6 DEF ResumeStream, UserActs, Offers, Move, AllowedFrom, Target, Phases
<1>7. CASE Reset
  BY <1>7 DEF Reset, Aborted, StopCamera, UserActs, Offers, Move, AllowedFrom,
     Target, Phases
<1>8. ASSUME NEW k \in Captures, Capture(k) PROVE AttemptInv'
  <2>1. phase = "streaming" /\ UNCHANGED bundle
    BY <1>8 DEF Capture, UserActs, Offers
  <2>2. CASE phase' = "error" /\ captures' = [captures EXCEPT ![k].at = "done"]
    <3>1. UNCHANGED <<abortRef, thrown>> /\ Meet("resumable", TRUE)
      BY <1>8, <2>1, <2>2 DEF Capture, Move, AllowedFrom, Target
    <3>2. "lateAnalysis" \notin met' => "lateAnalysis" \notin met
      BY <3>1
    <3>3. \A j \in Captures : Unfinished(j)' => j # k /\ captures'[j] = captures[j] /\ Unfinished(j)
      BY <2>2
    <3>4. QED
      BY <2>1, <2>2, <3>1, <3>2, <3>3
  <2>3. CASE Move("CAPTURE") /\ captures' = [captures EXCEPT ![k].at = "burst"]
    <3>1. phase' = "capturing" /\ UNCHANGED thrown
      BY <2>1, <2>3 DEF Move, AllowedFrom, Target
    <3>2. attemptId' = k /\ abortRef' = k /\ Meet("lateAnalysis", \E j \in Captures : Unfinished(j))
      BY <1>8, <3>1 DEF Capture
    <3>3. "lateAnalysis" \notin met' =>
            "lateAnalysis" \notin met /\ \A j \in Captures : ~Unfinished(j)
      BY <3>2
    <3>4. captures'[k].at = "burst" /\ \A j \in Captures : j # k => captures'[j] = captures[j]
      BY <2>3
    <3>5. QED
      BY <3>1, <3>2, <3>3, <3>4
  <2>4. QED
    BY <1>8, <2>2, <2>3 DEF Capture
<1>9. CASE Loaded
  BY <1>9 DEF Loaded, CameraOnly
<1>10. CASE VisibilityHidden
  <2>1. CASE phase \notin {"idle", "preview", "confirmed", "error"}
    <3>1. Interrupt /\ UNCHANGED met
      BY <1>10, <2>1 DEF VisibilityHidden, Ignored
    <3>2. UNCHANGED <<attemptId, bundle, abortRef>>
      BY <3>1, InterruptSteps
    <3>3. phase' = "error" /\ UNCHANGED thrown
      BY <2>1, <3>1, InterruptSteps DEF Phases
    <3>4. /\ \A k \in Captures : captures'[k].at = captures[k].at
          /\ \A k \in Captures : captures[k].aborted => captures'[k].aborted
          /\ \A k \in Captures : k = abortRef => captures'[k].aborted
      BY <3>1, InterruptSteps, AbortSteps
    <3>5. QED
      BY <3>1, <3>2, <3>3, <3>4
  <2>2. CASE phase \in {"idle", "preview", "confirmed", "error"}
    BY <1>10, <2>2 DEF VisibilityHidden, Ignored
  <2>3. QED
    BY <2>1, <2>2
<1>11. CASE PageHide
  BY SMTT(20), <1>11 DEF PageHide, Ignored, Interrupt, Aborted, StopCamera, Move, AllowedFrom,
     Target, Phases
<1>12. CASE Shown
  BY <1>12 DEF Shown
<1>13. CASE Unmount
  BY <1>13 DEF Unmount, Aborted, StopCamera
<1>14. ASSUME NEW s \in Streams, TrackEnds(s) PROVE AttemptInv'
  <2>1. CASE /\ s = cam.session /\ ~cam.intentional
             /\ phase \in {"streaming", "switchingCamera", "capturing", "analyzing"}
    <3>1. Interrupt /\ UNCHANGED met
      BY <1>14, <2>1 DEF TrackEnds
    <3>2. UNCHANGED <<attemptId, bundle, abortRef>>
      BY <3>1, InterruptSteps
    <3>3. phase' = "error" /\ UNCHANGED thrown
      BY <2>1, <3>1, InterruptSteps DEF Phases
    <3>4. /\ \A k \in Captures : captures'[k].at = captures[k].at
          /\ \A k \in Captures : captures[k].aborted => captures'[k].aborted
          /\ \A k \in Captures : k = abortRef => captures'[k].aborted
      BY <3>1, InterruptSteps, AbortSteps
    <3>5. QED
      BY <3>1, <3>2, <3>3, <3>4
  <2>2. CASE ~(/\ s = cam.session /\ ~cam.intentional
               /\ phase \in {"streaming", "switchingCamera", "capturing", "analyzing"})
    <3>1. UNCHANGED <<flow, work>> /\ Meet("ended", TRUE)
      BY <1>14, <2>2 DEF TrackEnds
    <3>2. "lateAnalysis" \notin met' => "lateAnalysis" \notin met
      BY <3>1
    <3>3. UNCHANGED <<phase, thrown, captures, abortRef, attemptId, bundle>>
      BY <3>1
    <3>4. QED
      BY <3>2, <3>3
  <2>3. QED
    BY <2>1, <2>2
<1>15. CASE AutoProcess
  BY <1>15 DEF AutoProcess
<1>16. ASSUME NEW i \in Requests, Camera(i) PROVE AttemptInv'
  <2>1. UNCHANGED <<captures, abortRef, attemptId, bundle, thrown>>
    BY <1>16, CameraSteps
  <2>2. phase' \in {phase, "streaming", "error"}
    BY <1>16, CameraSteps
  <2>4. met' \in {met, met \cup {"timeout"}}
    BY <1>16, CameraSteps
  <2>5. "lateAnalysis" \notin met' => "lateAnalysis" \notin met
    BY <2>4
  <2>3. phase' # phase => phase \in {"requestingPermission", "switchingCamera"}
    BY <1>16, CameraSteps
  <2>6. QED
    BY <2>1, <2>2, <2>3, <2>5
<1>17. ASSUME NEW k \in Captures, BurstTaken(k) PROVE AttemptInv'
  BY <1>17 DEF BurstTaken, Ends, Move, AllowedFrom, Target, Phases
<1>18. ASSUME NEW k \in Captures, BurstFails(k) PROVE AttemptInv'
  BY <1>18 DEF BurstFails, Ends, Move, AllowedFrom, Target, Phases
<1>19. ASSUME NEW k \in Captures, AnalysisIgnored(k) PROVE AttemptInv'
  BY <1>19 DEF AnalysisIgnored, Ends
<1>20. ASSUME NEW k \in Captures, AnalysisReady(k) PROVE AttemptInv'
  BY <1>20 DEF AnalysisReady, Ends, Report, StopCamera, Move, AllowedFrom, Target,
     Phases
<1>21. ASSUME NEW k \in Captures, AnalysisRetry(k) PROVE AttemptInv'
  BY <1>21 DEF AnalysisRetry, Ends, Report, Move, AllowedFrom, Target, Phases
<1>22. ASSUME NEW k \in Captures, AnalysisUnavailable(k) PROVE AttemptInv'
  BY <1>22 DEF AnalysisUnavailable, Ends, StopCamera, Move, AllowedFrom, Target, Phases
<1>23. ASSUME NEW k \in Captures, AnalysisFails(k) PROVE AttemptInv'
  BY <1>23 DEF AnalysisFails, Ends, StopCamera, Move, AllowedFrom, Target, Phases
<1>24. CASE UNCHANGED vars
  BY <1>24 DEF vars
<1>25. QED
  BY <1>1, <1>2, <1>3, <1>4, <1>5, <1>6, <1>7, <1>8, <1>9, <1>10, <1>11, <1>12,
     <1>13, <1>14, <1>15, <1>16, <1>17, <1>18, <1>19, <1>20, <1>21, <1>22, <1>23, <1>24
  DEF Next, User, Browser, Work


-------------------------------------------------------------------------------
(* The camera hook keeps its types.                                             *)

LEMMA ReloadedTypes ==
  ASSUME NEW rs \in [Requests -> RequestRecords]
  PROVE  Reloaded(rs) \in [Requests -> RequestRecords]
<1> DEFINE f(j) == IF rs[j].at = "play" THEN [rs[j] EXCEPT !.at = "unplayed"] ELSE rs[j]
<1>1. \A j \in Requests : f(j) \in RequestRecords
  BY DEF RequestRecords
<1>2. QED
  BY <1>1 DEF Reloaded

LEMMA AtTypes ==
  ASSUME requests \in [Requests -> RequestRecords], NEW i \in Requests,
         NEW place \in {"request", "attach", "play", "enumerate", "done"}
  PROVE  At(i, place) \in [Requests -> RequestRecords]
<1>1. [requests[i] EXCEPT !.at = place] \in RequestRecords
  BY DEF RequestRecords
<1>2. QED
  BY <1>1 DEF At

LEMMA RefsTypes ==
  ASSUME NEW c \in CameraRefs
  PROVE  /\ Stopped(c) \in CameraRefs
         /\ \A s \in Streams : Dropped(c, s) \in CameraRefs
<1> USE BoundsAssumption
<1>1. 0 \in 0..MaxRequests
  OBVIOUS
<1>2. Stopped(c) \in CameraRefs
  BY <1>1 DEF CameraRefs, Stopped
<1>3. \A s \in Streams : Dropped(c, s) \in CameraRefs
  BY DEF CameraRefs, Dropped
<1>4. QED
  BY <1>2, <1>3

\* start() and switchCamera(), however they end.
LEMMA FailTypes ==
  ASSUME CameraTypes, NEW i \in Requests, NEW c \in CameraRefs,
         Resolve(i, c) \/ Reject(i, c) \/ Fail(i, c)
  PROVE  CameraTypes'
<1>1. At(i, "done") \in [Requests -> RequestRecords]
  BY AtTypes DEF CameraTypes
<1>2. Reloaded(At(i, "done")) \in [Requests -> RequestRecords]
  BY <1>1, ReloadedTypes
<1>3. CASE Resolve(i, c)
  BY <1>1, <1>2, <1>3, RefsTypes DEF Resolve, CameraTypes
<1>4. CASE Reject(i, c)
  BY <1>1, <1>4 DEF Reject, CameraTypes
<1>5. [requests EXCEPT ![i].at = "request", ![i].again = TRUE] \in [Requests -> RequestRecords]
  <2>1. [requests[i] EXCEPT !.at = "request"] \in RequestRecords
    BY DEF CameraTypes, RequestRecords
  <2>2. [[requests[i] EXCEPT !.at = "request"] EXCEPT !.again = TRUE] \in RequestRecords
    BY <2>1 DEF RequestRecords
  <2>3. QED
    BY <2>1, <2>2 DEF CameraTypes
<1>6. CASE Fail(i, c)
  BY <1>3, <1>4, <1>5, <1>6 DEF Fail, CameraTypes
<1>7. QED
  BY <1>3, <1>4, <1>6

LEMMA StopCameraTypes ==
  ASSUME CameraTypes, StopCamera
  PROVE  CameraTypes'
BY ReloadedTypes, RefsTypes DEF StopCamera, CameraTypes

LEMMA CameraActionTypes ==
  ASSUME CameraTypes, NEW i \in Requests, Camera(i)
  PROVE  CameraTypes'
<1> USE BoundsAssumption
<1>1. requests[i].again \in BOOLEAN /\ StreamOf(i) \in Streams
  BY DEF CameraTypes, RequestRecords, StreamOf, Streams
<1>2. cam \in CameraRefs /\ Dropped(cam, StreamOf(i)) \in CameraRefs
  BY <1>1, RefsTypes DEF CameraTypes
<1>3. \A x \in {"attach", "enumerate"} :
        /\ At(i, x) \in [Requests -> RequestRecords]
        /\ Reloaded(At(i, x)) \in [Requests -> RequestRecords]
  BY AtTypes, ReloadedTypes DEF CameraTypes
<1>4. CASE Granted(i)
  <2>1. CASE Stale(i)
    BY <1>2, <1>4, <2>1, FailTypes DEF Granted
  <2>2. CASE ~Stale(i)
    <3>1. cam' = [cam EXCEPT !.video = StreamOf(i), !.live = @ \cup {StreamOf(i)}]
      BY <1>4, <2>2 DEF Granted
    <3>4. cam' \in CameraRefs
      BY <1>1, <1>2, <3>1 DEF CameraRefs
    <3>2. requests' = Reloaded(At(i, "attach"))
      BY <1>4, <2>2 DEF Granted
    <3>3. QED
      BY <1>3, <3>2, <3>4 DEF CameraTypes
  <2>3. QED
    BY <2>1, <2>2
<1>5. CASE Denied(i)
  BY <1>2, <1>5, FailTypes DEF Denied
<1>6. CASE AttachTimesOut(i)
  BY <1>2, <1>6, FailTypes DEF AttachTimesOut
<1>7. CASE Played(i)
  <2>1. cam' \in CameraRefs
    BY <1>1, <1>2, <1>7 DEF Played, CameraRefs
  <2>2. QED
    BY <1>3, <1>7, <2>1 DEF Played, CameraTypes
<1>8. CASE PlayFails(i)
  BY <1>2, <1>8, FailTypes DEF PlayFails
<1>9. CASE Enumerated(i)
  BY <1>2, <1>9, FailTypes DEF Enumerated
<1>10. QED
  BY <1>4, <1>5, <1>6, <1>7, <1>8, <1>9 DEF Camera

LEMMA AcquireTypes ==
  ASSUME CameraTypes, NEW a, AcquireCamera(a)
  PROVE  CameraTypes'
<1>1. CASE UNCHANGED <<requests, cam>>
  BY <1>1 DEF CameraTypes
<1>2. ASSUME NEW i \in Requests, requests' = [requests EXCEPT ![i].at = "request"],
             cam' = [cam EXCEPT !.current = i]
      PROVE  CameraTypes'
  <2>1. [requests[i] EXCEPT !.at = "request"] \in RequestRecords
    BY DEF CameraTypes, RequestRecords
  <2>2. requests' \in [Requests -> RequestRecords]
    BY <1>2, <2>1 DEF CameraTypes
  <2>3. cam' \in CameraRefs
    <3>1. i \in 0..MaxRequests
      BY BoundsAssumption DEF Requests
    <3>2. QED
      BY <1>2, <3>1 DEF CameraTypes, CameraRefs
  <2>4. QED
    BY <2>2, <2>3 DEF CameraTypes
<1>3. QED
  BY <1>1, <1>2 DEF AcquireCamera

LEMMA SwitchTypes ==
  ASSUME CameraTypes, SwitchCamera
  PROVE  CameraTypes'
<1>1. PICK i \in Requests :
        /\ requests' = [Reloaded(requests) EXCEPT ![i].kind = "switch", ![i].at = "request"]
        /\ cam' = [cam EXCEPT !.current = i, !.session = NoStream, !.video = NoStream,
                              !.live = @ \ {cam.session},
                              !.intentional = @ \/ cam.session # NoStream]
  BY DEF SwitchCamera
<1> DEFINE rs == Reloaded(requests)
<1>2. rs \in [Requests -> RequestRecords]
  BY ReloadedTypes DEF CameraTypes
<1> HIDE DEF rs
<1>3. [[rs[i] EXCEPT !.kind = "switch"] EXCEPT !.at = "request"] \in RequestRecords
  BY <1>2 DEF RequestRecords
<1>4. requests' \in [Requests -> RequestRecords]
  <2>1. requests' = [rs EXCEPT ![i].kind = "switch", ![i].at = "request"]
    BY <1>1 DEF rs
  <2>2. QED
    BY <1>2, <1>3, <2>1
<1>5. cam' \in CameraRefs
  <2>1. i \in 0..MaxRequests /\ NoStream \in Streams \cup {NoStream}
    BY BoundsAssumption DEF Requests
  <2>2. cam \in CameraRefs
    BY DEF CameraTypes
  <2> HIDE DEF NoStream, Streams
  <2>3. QED
    BY <1>1, <2>1, <2>2 DEF CameraRefs
<1>6. QED
  BY <1>4, <1>5 DEF CameraTypes

LEMMA CameraTypesNext ==
  ASSUME CameraTypes, [Next]_vars
  PROVE  CameraTypes'
<1>1. CASE UNCHANGED <<requests, cam>>
  BY <1>1 DEF CameraTypes
<1>2. CASE StopCamera
  BY <1>2, StopCameraTypes
<1>3. CASE User
  BY <1>1, <1>2, <1>3, AcquireTypes, SwitchTypes
  DEF User, StartCamera, Retake, RetryRetake, Confirm, ResumeStream, Reset, Capture
<1>4. CASE Loaded
  <2>1. \A j \in Requests : [requests[j] EXCEPT !.at = "play"] \in RequestRecords
    BY DEF CameraTypes, RequestRecords
  <2>2. QED
    BY <1>4, <2>1 DEF Loaded, CameraTypes
<1>5. ASSUME NEW s \in Streams, TrackEnds(s) PROVE CameraTypes'
  <2>1. CASE cam' = Dropped(cam, s) /\ UNCHANGED requests
    BY <2>1, RefsTypes DEF CameraTypes
  <2>2. QED
    BY <1>2, <1>5, <2>1 DEF TrackEnds, Interrupt
<1>6. CASE Browser
  BY <1>1, <1>2, <1>4, <1>5, <1>6
  DEF Browser, VisibilityHidden, PageHide, Shown, Unmount, Interrupt
<1>7. CASE AutoProcess
  BY <1>1, <1>7 DEF AutoProcess
<1>8. ASSUME NEW k \in Captures, Work(k) PROVE CameraTypes'
  BY <1>1, <1>2, <1>8
  DEF Work, BurstTaken, BurstFails, AnalysisIgnored, AnalysisReady, AnalysisRetry,
      AnalysisUnavailable, AnalysisFails
<1>9. QED
  BY <1>1, <1>3, <1>6, <1>7, <1>8, CameraActionTypes DEF Next, vars

-------------------------------------------------------------------------------
LEMMA InitInv == Init => FlowInv /\ CameraTypes
<1> SUFFICES ASSUME Init PROVE FlowInv /\ CameraTypes
  OBVIOUS
<1> USE BoundsAssumption DEF Init
<1>1. reports = <<>> /\ Len(reports) = 0 /\ reports \in Seq(Reports)
  OBVIOUS
<1>2. FlowTypes
  <2>1. 0 \in 0..MaxCaptures /\ phase \in Phases
    BY DEF Phases
  <2>2. captures \in [Captures -> CaptureRecords]
    BY DEF CaptureRecords
  <2>3. QED
    BY <1>1, <2>1, <2>2 DEF FlowTypes
<1>3. ReportInv
  BY <1>1 DEF ReportInv, ReportedOnce, UploadWasReported, Reported, Captures
<1>4. AttemptInv
  BY DEF AttemptInv, Unfinished
<1>5. requests \in [Requests -> RequestRecords]
  BY DEF RequestRecords
<1>6. cam \in CameraRefs
  BY DEF CameraRefs
<1>7. QED
  BY <1>2, <1>3, <1>4, <1>5, <1>6 DEF FlowInv, CameraTypes

\* The inductive invariant of the page: the reports of the attempts, and the one
\* capture that the abort controller belongs to.
THEOREM FlowInvariant == Spec => []FlowInv
<1>1. FlowInv /\ [Next]_vars => FlowInv'
  BY FlowTypesNext, ReportNext, AttemptNext DEF FlowInv
<1>2. QED
  BY InitInv, <1>1, PTL DEF Spec

\* Every variable of the page keeps its type, the refs of the camera hook included.
THEOREM PageTypes == Spec => []TypeOK
<1>1. CameraTypes /\ [Next]_vars => CameraTypes'
  BY CameraTypesNext
<1>2. FlowInv => FlowTypes
  BY DEF FlowInv
<1>3. CameraTypes /\ FlowTypes <=> TypeOK
  BY DEF TypeOK
<1>4. QED
  BY InitInv, <1>1, <1>2, <1>3, FlowInvariant, PTL DEF Spec

\* One press of Capture is reported at most once, whatever answers late
\* (useCaptureFlow.ts:354, 379).
THEOREM ReportedOnceAlways == Spec => []ReportedOnce
<1>1. FlowInv => ReportedOnce
  BY DEF FlowInv, ReportInv
<1>2. QED
  BY <1>1, FlowInvariant, PTL

\* What the page uploads was reported as eligible, with the same frames
\* (CapturePage.tsx:111).
THEOREM UploadsAreReported == Spec => []UploadWasReported
<1>1. FlowInv => UploadWasReported
  BY DEF FlowInv, ReportInv
<1>2. QED
  BY <1>1, FlowInvariant, PTL

\* A review shows the frames of its attempt unless an analysis outlived its capture
\* (useCaptureFlow.ts:326).
THEOREM PreviewOfAttempt == Spec => []PreviewIsOfAttempt
<1>1. FlowInv => PreviewIsOfAttempt
  BY DEF FlowInv, AttemptInv, PreviewIsOfAttempt
<1>2. QED
  BY <1>1, FlowInvariant, PTL

\* The reducer never throws unless a capture overtook another
\* (useCaptureFlow.ts:396).
THEOREM NoInvalidTransitionAlways == Spec => []NoInvalidTransition
<1>1. FlowInv => NoInvalidTransition
  BY DEF FlowInv, AttemptInv, NoInvalidTransition
<1>2. QED
  BY <1>1, FlowInvariant, PTL
-------------------------------------------------------------------------------
(* The streams of the camera hook.                                              *)

\* A request that a step leaves alone, but for the play() promise that a new source
\* of the video rejects.
Kept(j) ==
  /\ requests'[j].kind = requests[j].kind /\ requests'[j].again = requests[j].again
  /\ \/ requests'[j].at = requests[j].at
     \/ requests[j].at = "play" /\ requests'[j].at = "unplayed"

\* cameraStop(): the session's stream is stopped, no request is current.
CameraReleased(c) ==
  cam'.current = 0 /\ cam'.session = NoStream /\ cam'.live = c.live \ {c.session}

CameraKept(c) ==
  cam'.current = c.current /\ cam'.session = c.session /\ cam'.live = c.live

LEMMA KeptRequest ==
  ASSUME NEW rs \in [Requests -> RequestRecords], NEW j \in Requests,
         requests[j] \in RequestRecords, rs[j] = requests[j],
         requests' = rs \/ requests' = Reloaded(rs)
  PROVE  Kept(j)
<1>1. CASE requests'[j] = requests[j]
  BY <1>1 DEF Kept
<1>2. CASE requests[j].at = "play" /\ requests'[j] = [requests[j] EXCEPT !.at = "unplayed"]
  BY <1>2 DEF Kept, RequestRecords
<1>3. requests' = Reloaded(rs) =>
        requests'[j] = IF rs[j].at = "play" THEN [rs[j] EXCEPT !.at = "unplayed"] ELSE rs[j]
  BY DEF Reloaded
<1>4. QED
  BY <1>1, <1>2, <1>3

\* One request moves to another place.
LEMMA AtSteps ==
  ASSUME CameraTypes, NEW i \in Requests, NEW x \in {"attach", "enumerate", "done"},
         requests' = At(i, x) \/ requests' = Reloaded(At(i, x))
  PROVE  /\ requests'[i].at = x /\ requests'[i].kind = requests[i].kind
         /\ requests'[i].again = requests[i].again
         /\ \A j \in Requests \ {i} : Kept(j)
<1>1. requests[i] \in RequestRecords /\ At(i, x)[i] = [requests[i] EXCEPT !.at = x]
  BY DEF CameraTypes, At
<1>2. requests'[i] = At(i, x)[i]
  BY <1>1 DEF Reloaded, RequestRecords
<1>3. ASSUME NEW j \in Requests \ {i} PROVE Kept(j)
  <2>1. requests[j] \in RequestRecords /\ At(i, x)[j] = requests[j]
    BY DEF CameraTypes, At
  <2>2. At(i, x) \in [Requests -> RequestRecords]
    BY AtTypes DEF CameraTypes
  <2>3. QED
    BY <2>1, <2>2, KeptRequest
<1>4. QED
  BY <1>1, <1>2, <1>3 DEF RequestRecords

LEMMA StopSteps ==
  ASSUME CameraTypes, StopCamera
  PROVE  CameraReleased(cam) /\ \A j \in Requests : Kept(j)
<1>1. CameraReleased(cam)
  BY DEF StopCamera, Stopped, CameraReleased, CameraTypes, CameraRefs
<1>2. ASSUME NEW j \in Requests PROVE Kept(j)
  BY KeptRequest DEF StopCamera, CameraTypes
<1>3. QED
  BY <1>1, <1>2

\* A request that returns to the flow or throws.
LEMMA SettleSteps ==
  ASSUME CameraTypes, NEW i \in Requests, NEW c \in CameraRefs,
         Resolve(i, c) \/ Reject(i, c)
  PROVE  /\ requests'[i].at = "done" /\ requests'[i].kind = requests[i].kind
         /\ requests'[i].again = requests[i].again
         /\ \A j \in Requests \ {i} : Kept(j)
         /\ CameraKept(c) \/ (CameraReleased(c) /\ phase # Awaited(i))
<1>1. requests' = At(i, "done") \/ requests' = Reloaded(At(i, "done"))
  BY DEF Resolve, Reject
<1>2. cam' = c \/ (cam' = Stopped(c) /\ phase # Awaited(i))
  BY DEF Resolve, Reject
<1>3. cam' = c => CameraKept(c)
  BY DEF CameraKept
<1>4. cam' = Stopped(c) => CameraReleased(c)
  BY DEF Stopped, CameraReleased, CameraRefs
<1>5. QED
  BY <1>1, <1>2, <1>3, <1>4, AtSteps

\* A switch that failed asks for a camera again.
LEMMA AgainSteps ==
  ASSUME CameraTypes, NEW i \in Requests,
         requests' = [requests EXCEPT ![i].at = "request", ![i].again = TRUE]
  PROVE  /\ requests'[i].at = "request" /\ requests'[i].kind = requests[i].kind
         /\ requests'[i].again /\ \A j \in Requests \ {i} : Kept(j)
<1>1. requests[i] \in RequestRecords
  BY DEF CameraTypes
<1>2. requests'[i] = [[requests[i] EXCEPT !.at = "request"] EXCEPT !.again = TRUE]
  BY DEF CameraTypes
<1>3. ASSUME NEW j \in Requests \ {i} PROVE Kept(j)
  <2>1. requests'[j] = requests[j]
    BY DEF CameraTypes
  <2>2. QED
    BY <2>1 DEF Kept
<1>4. QED
  BY <1>1, <1>2, <1>3 DEF RequestRecords

\* acquireCamera() takes a request that was never used.
LEMMA AcquireSteps ==
  ASSUME CameraTypes, NEW a, AcquireCamera(a)
  PROVE  \/ UNCHANGED <<requests, cam, thrown, met>> /\ phase' = "error" /\ canRetry' = FALSE
         \/ /\ Move(a) /\ UNCHANGED canRetry
            /\ Meet("lateCamera", \E j \in Requests : Pending(j))
            /\ \E i \in Requests :
                 /\ requests[i].at = "unused"
                 /\ requests'[i].at = "request" /\ requests'[i].kind = requests[i].kind
                 /\ requests'[i].again = requests[i].again
                 /\ \A j \in Requests \ {i} : Kept(j)
                 /\ cam'.current = i /\ cam'.session = cam.session /\ cam'.live = cam.live
<1>1. ASSUME NEW i \in Requests, Unused(i),
             requests' = [requests EXCEPT ![i].at = "request"],
             cam' = [cam EXCEPT !.current = i]
      PROVE  /\ requests[i].at = "unused"
             /\ requests'[i].at = "request" /\ requests'[i].kind = requests[i].kind
             /\ requests'[i].again = requests[i].again
             /\ \A j \in Requests \ {i} : Kept(j)
             /\ cam'.current = i /\ cam'.session = cam.session /\ cam'.live = cam.live
  <2>1. requests[i].at = "unused"
    BY <1>1 DEF Unused
  <2>2. /\ requests'[i].at = "request" /\ requests'[i].kind = requests[i].kind
        /\ requests'[i].again = requests[i].again
    BY <1>1 DEF CameraTypes, RequestRecords
  <2>3. ASSUME NEW j \in Requests \ {i} PROVE Kept(j)
    <3>1. requests'[j] = requests[j]
      BY <1>1 DEF CameraTypes
    <3>2. QED
      BY <3>1 DEF Kept
  <2>4. cam'.current = i /\ cam'.session = cam.session /\ cam'.live = cam.live
    BY <1>1 DEF CameraTypes, CameraRefs
  <2>5. QED
    BY <2>1, <2>2, <2>3, <2>4
<1>2. QED
  BY <1>1 DEF AcquireCamera

\* switchCamera() stops the session first.
LEMMA SwitchSteps ==
  ASSUME CameraTypes, SwitchCamera
  PROVE  /\ Meet("lateCamera", \E j \in Requests : Pending(j))
         /\ phase = "streaming" /\ phase' = "switchingCamera"
         /\ UNCHANGED <<canRetry, thrown, visible, mounted>> /\ mounted
         /\ \E i \in Requests :
              /\ requests[i].at = "unused"
              /\ requests'[i].at = "request" /\ requests'[i].kind = "switch"
              /\ requests'[i].again = requests[i].again
              /\ \A j \in Requests \ {i} : Kept(j)
              /\ cam'.current = i /\ cam'.session = NoStream
              /\ cam'.live = cam.live \ {cam.session}
<1>1. /\ phase = "streaming" /\ phase' = "switchingCamera" /\ UNCHANGED <<canRetry, thrown>>
      /\ UNCHANGED <<visible, mounted>> /\ mounted
      /\ Meet("lateCamera", \E j \in Requests : Pending(j))
  BY DEF SwitchCamera, UserActs, Offers, Move, AllowedFrom, Target, page
<1>2. PICK i \in Requests :
        /\ Unused(i)
        /\ requests' = [Reloaded(requests) EXCEPT ![i].kind = "switch", ![i].at = "request"]
        /\ cam' = [cam EXCEPT !.current = i, !.session = NoStream, !.video = NoStream,
                              !.live = @ \ {cam.session},
                              !.intentional = @ \/ cam.session # NoStream]
  BY DEF SwitchCamera
<1>3. requests[i].at = "unused" /\ Reloaded(requests)[i] = requests[i]
  BY <1>2 DEF Unused, Reloaded
<1>4. requests'[i] = [[requests[i] EXCEPT !.kind = "switch"] EXCEPT !.at = "request"]
  BY <1>2, <1>3 DEF Reloaded
<1>5. requests[i] \in RequestRecords
  BY DEF CameraTypes
<1>6. /\ requests'[i].at = "request" /\ requests'[i].kind = "switch"
      /\ requests'[i].again = requests[i].again
  BY <1>4, <1>5 DEF RequestRecords
<1>7. ASSUME NEW j \in Requests \ {i} PROVE Kept(j)
  <2>1. requests[j] \in RequestRecords
    BY DEF CameraTypes
  <2>2. requests'[j] = Reloaded(requests)[j]
    BY <1>2 DEF Reloaded
  <2>3. Reloaded(requests)[j] = requests[j]
        \/ (requests[j].at = "play"
            /\ Reloaded(requests)[j] = [requests[j] EXCEPT !.at = "unplayed"])
    BY DEF Reloaded
  <2>4. QED
    BY <2>1, <2>2, <2>3 DEF Kept, RequestRecords
<1>8. /\ cam'.current = i /\ cam'.session = NoStream /\ cam'.live = cam.live \ {cam.session}
  BY <1>2 DEF CameraTypes, CameraRefs
<1>9. QED
  BY <1>1, <1>3, <1>6, <1>7, <1>8

\* What a step of a request does to the streams: it is granted one, its stream
\* becomes the session's, or, with the tracks l left, it asks again or settles.
GrantStep(i) ==
  /\ requests[i].at = "request" /\ ~Stale(i)
  /\ requests'[i].at = "attach" /\ requests'[i].again = requests[i].again
  /\ cam'.current = cam.current /\ cam'.session = cam.session
  /\ cam'.live = cam.live \cup {StreamOf(i)}
  /\ UNCHANGED <<flow, met>>

PlayStep(i) ==
  /\ requests[i].at = "play"
  /\ requests'[i].at = "enumerate" /\ requests'[i].again = requests[i].again
  /\ cam'.current = cam.current /\ cam'.session = StreamOf(i)
  /\ cam'.live = cam.live \ {cam.session}
  /\ UNCHANGED <<flow, met>>

Left(i, l) ==
  \/ /\ l = cam.live
     /\ \/ requests[i].at = "request" /\ UNCHANGED met
        \/ requests[i].at = "attach" /\ met' = met \cup {"timeout"}
        \/ requests[i].at = "enumerate" /\ ~Stale(i) /\ UNCHANGED met
  \/ /\ l = cam.live \ {StreamOf(i)} /\ UNCHANGED met
     /\ \/ requests[i].at \in {"play", "unplayed"}
        \/ requests[i].at = "enumerate" /\ Stale(i)

AgainStep(i, l) ==
  /\ ~Stale(i) /\ requests[i].kind = "switch" /\ ~requests[i].again
  /\ requests[i].at # "enumerate"
  /\ requests'[i].at = "request" /\ requests'[i].again
  /\ cam'.current = cam.current /\ cam'.session = cam.session /\ cam'.live = l
  /\ UNCHANGED flow

ReturnStep(i, l) ==
  /\ Stale(i) \/ (requests[i].at = "enumerate" /\ ~requests[i].again)
  /\ UNCHANGED <<canRetry, thrown>>
  /\ IF phase = Awaited(i)
     THEN /\ phase' = "streaming" /\ cam'.current = cam.current
          /\ cam'.session = cam.session /\ cam'.live = l
     ELSE /\ phase' = phase /\ cam'.current = 0 /\ cam'.session = NoStream
          /\ cam'.live = l \ {cam.session}

ThrowStep(i, l) ==
  /\ ~Stale(i)
  /\ requests[i].kind = "switch" \/ requests[i].at = "enumerate" => requests[i].again
  /\ cam'.current = cam.current /\ cam'.session = cam.session /\ cam'.live = l
  /\ UNCHANGED thrown
  /\ IF phase # Awaited(i) THEN UNCHANGED flow
     ELSE IF requests[i].kind = "switch" /\ cam.session # NoStream
     THEN phase' = "streaming" /\ UNCHANGED canRetry
     ELSE phase' = "error" /\ canRetry' = FALSE

SettleStep(i, l) ==
  /\ requests'[i].at = "done" /\ requests'[i].again = requests[i].again
  /\ ReturnStep(i, l) \/ ThrowStep(i, l)


LEMMA CameraActionSteps ==
  ASSUME CameraTypes, NEW i \in Requests, Camera(i)
  PROVE  /\ requests'[i].kind = requests[i].kind /\ \A j \in Requests \ {i} : Kept(j)
         /\ UNCHANGED page
         /\ \/ GrantStep(i) \/ PlayStep(i)
            \/ \E l \in SUBSET Streams : Left(i, l) /\ (AgainStep(i, l) \/ SettleStep(i, l))
<1> DEFINE Rest == requests'[i].kind = requests[i].kind /\ \A j \in Requests \ {i} : Kept(j)
<1>1. /\ requests[i] \in RequestRecords /\ StreamOf(i) \in Streams
      /\ cam \in CameraRefs /\ cam.live \in SUBSET Streams
  BY DEF CameraTypes, RequestRecords, CameraRefs, StreamOf, Streams
<1>2. /\ Dropped(cam, StreamOf(i)) \in CameraRefs
      /\ Dropped(cam, StreamOf(i)).current = cam.current
      /\ Dropped(cam, StreamOf(i)).session = cam.session
      /\ Dropped(cam, StreamOf(i)).live = cam.live \ {StreamOf(i)}
  BY <1>1, RefsTypes DEF CameraRefs, Dropped
<1>3. ASSUME NEW c \in CameraRefs, c.current = cam.current, c.session = cam.session, Resolve(i, c),
             Stale(i) \/ (requests[i].at = "enumerate" /\ ~requests[i].again)
      PROVE  Rest /\ SettleStep(i, c.live)
  <2>1. /\ requests'[i].at = "done" /\ requests'[i].again = requests[i].again /\ Rest
    BY <1>3, SettleSteps
  <2>2. CASE phase = Awaited(i)
    <3>1. phase' = "streaming" /\ UNCHANGED <<canRetry, thrown>>
      BY <1>1, <1>3, <2>2 DEF Resolve, Move, Awaited, AllowedFrom, Target
    <3>2. cam' = c
      BY <1>3, <2>2 DEF Resolve
    <3>3. QED
      BY <1>3, <2>1, <2>2, <3>1, <3>2 DEF SettleStep, ReturnStep
  <2>3. CASE phase # Awaited(i)
    <3>1. cam' = Stopped(c) /\ UNCHANGED <<phase, canRetry, thrown>>
      BY <1>3, <2>3 DEF Resolve
    <3>2. cam'.current = 0 /\ cam'.session = NoStream /\ cam'.live = c.live \ {c.session}
      BY <3>1 DEF Stopped, CameraRefs
    <3>3. QED
      BY <1>3, <2>1, <2>3, <3>1, <3>2 DEF SettleStep, ReturnStep
  <2>4. QED
    BY <2>2, <2>3
<1>4. ASSUME NEW c \in CameraRefs, c.current = cam.current, c.session = cam.session, Reject(i, c),
             ~Stale(i), requests[i].kind = "switch" \/ requests[i].at = "enumerate" => requests[i].again
      PROVE  Rest /\ SettleStep(i, c.live)
  <2>1. /\ requests'[i].at = "done" /\ requests'[i].again = requests[i].again /\ Rest
    BY <1>4, SettleSteps
  <2>2. cam' = c
    BY <1>4 DEF Reject
  <2>3. UNCHANGED thrown /\ IF phase # Awaited(i) THEN UNCHANGED flow
        ELSE IF requests[i].kind = "switch" /\ cam.session # NoStream
        THEN phase' = "streaming" /\ UNCHANGED canRetry
        ELSE phase' = "error" /\ canRetry' = FALSE
    BY <1>1, <1>4 DEF Reject, Move, Awaited, AllowedFrom, Target, flow, RequestRecords
  <2>4. QED
    BY <1>4, <2>1, <2>2, <2>3 DEF SettleStep, ThrowStep
<1>5. ASSUME NEW c \in CameraRefs, c.current = cam.current, c.session = cam.session, Fail(i, c),
             requests[i].at # "enumerate"
      PROVE  Rest /\ (AgainStep(i, c.live) \/ SettleStep(i, c.live))
  <2>1. CASE Resolve(i, c) /\ Stale(i)
    BY <1>3, <1>5, <2>1
  <2>2. CASE Reject(i, c) /\ ~Stale(i) /\ (requests[i].kind = "switch" => requests[i].again)
    BY <1>4, <1>5, <2>2
  <2>3. CASE /\ ~Stale(i) /\ requests[i].kind = "switch" /\ ~requests[i].again
             /\ cam' = c /\ UNCHANGED flow
             /\ requests' = [requests EXCEPT ![i].at = "request", ![i].again = TRUE]
    BY <1>5, <2>3, AgainSteps DEF AgainStep
  <2>4. QED
    BY <1>5, <2>1, <2>2, <2>3 DEF Fail
<1>6. UNCHANGED page
  BY DEF Camera, Granted, Denied, AttachTimesOut, Played, PlayFails, Enumerated, CameraOnly
<1>7. CASE Granted(i)
  <2>1. CASE Stale(i)
    <3>1. Left(i, cam.live)
      BY <1>7 DEF Granted, Left
    <3>2. Resolve(i, cam)
      BY <1>7, <2>1 DEF Granted
    <3>3. QED
      BY <1>1, <1>3, <1>6, <2>1, <3>1, <3>2
  <2>2. CASE ~Stale(i)
    <3>1. /\ requests[i].at = "request" /\ UNCHANGED <<flow, met>>
          /\ requests' = Reloaded(At(i, "attach"))
          /\ cam' = [cam EXCEPT !.video = StreamOf(i), !.live = @ \cup {StreamOf(i)}]
      BY <1>7, <2>2 DEF Granted
    <3>2. /\ cam'.current = cam.current /\ cam'.session = cam.session
          /\ cam'.live = cam.live \cup {StreamOf(i)}
      BY <1>1, <3>1 DEF CameraRefs
    <3>3. QED
      BY <1>6, <2>2, <3>1, <3>2, AtSteps DEF GrantStep
  <2>3. QED
    BY <2>1, <2>2
<1>8. CASE Denied(i)
  <2>1. Left(i, cam.live) /\ Fail(i, cam) /\ requests[i].at = "request"
    BY <1>8 DEF Denied, Left
  <2>2. QED
    BY <1>1, <1>5, <1>6, <2>1
<1>9. CASE AttachTimesOut(i)
  <2>1. Left(i, cam.live) /\ Fail(i, cam) /\ requests[i].at = "attach"
    BY <1>9 DEF AttachTimesOut, Left, Meet
  <2>2. QED
    BY <1>1, <1>5, <1>6, <2>1
<1>10. CASE Played(i)
  <2>1. /\ requests[i].at = "play" /\ UNCHANGED <<flow, met>> /\ requests' = At(i, "enumerate")
        /\ cam' = [cam EXCEPT !.intentional = cam.session # NoStream,
                              !.session = StreamOf(i), !.live = @ \ {cam.session}]
    BY <1>10 DEF Played
  <2>2. /\ cam'.current = cam.current /\ cam'.session = StreamOf(i)
        /\ cam'.live = cam.live \ {cam.session}
    BY <1>1, <2>1 DEF CameraRefs
  <2>3. QED
    BY <1>6, <2>1, <2>2, AtSteps DEF PlayStep
<1>11. CASE PlayFails(i)
  <2>1. /\ Left(i, cam.live \ {StreamOf(i)}) /\ Fail(i, Dropped(cam, StreamOf(i)))
        /\ requests[i].at # "enumerate"
    BY <1>11 DEF PlayFails, Left
  <2>2. Rest /\ (\/ AgainStep(i, cam.live \ {StreamOf(i)})
                 \/ SettleStep(i, cam.live \ {StreamOf(i)}))
    BY <1>2, <1>5, <2>1
  <2>3. QED
    BY <1>1, <1>6, <2>1, <2>2
<1>12. CASE Enumerated(i)
  <2>1. requests[i].at = "enumerate" /\ UNCHANGED met
    BY <1>12 DEF Enumerated
  <2>2. CASE Stale(i)
    <3>1. Resolve(i, Dropped(cam, StreamOf(i)))
      BY <1>12, <2>2 DEF Enumerated
    <3>2. Left(i, cam.live \ {StreamOf(i)})
      BY <2>1, <2>2 DEF Left
    <3>3. Rest /\ SettleStep(i, cam.live \ {StreamOf(i)})
      BY <1>2, <1>3, <2>2, <3>1
    <3>4. QED
      BY <1>1, <1>6, <3>2, <3>3
  <2>3. CASE ~Stale(i)
    <3>1. Left(i, cam.live)
      BY <2>1, <2>3 DEF Left
    <3>2. CASE requests[i].again
      BY <1>1, <1>4, <1>6, <1>12, <2>3, <3>1, <3>2 DEF Enumerated
    <3>3. CASE ~requests[i].again
      BY <1>1, <1>3, <1>6, <1>12, <2>1, <2>3, <3>1, <3>3 DEF Enumerated
    <3>4. QED
      BY <3>2, <3>3
  <2>4. QED
    BY <2>2, <2>3
<1>13. QED
  BY <1>7, <1>8, <1>9, <1>10, <1>11, <1>12 DEF Camera

\* Loaded starts the videos that wait and leaves the streams alone.
LEMMA LoadedSteps ==
  ASSUME CameraTypes, Loaded
  PROVE  /\ UNCHANGED <<cam, phase, canRetry, thrown, visible, mounted, met>>
         /\ \A j \in Requests :
              /\ requests'[j].kind = requests[j].kind /\ requests'[j].again = requests[j].again
              /\ requests'[j].at = IF requests[j].at = "attach" THEN "play" ELSE requests[j].at
<1>1. UNCHANGED <<cam, phase, canRetry, thrown, visible, mounted, met>>
  BY DEF Loaded, flow, CameraOnly, page
<1>2. ASSUME NEW j \in Requests
      PROVE  /\ requests'[j].kind = requests[j].kind /\ requests'[j].again = requests[j].again
             /\ requests'[j].at = IF requests[j].at = "attach" THEN "play" ELSE requests[j].at
  <2>1. requests[j] \in RequestRecords
    BY DEF CameraTypes
  <2>2. requests'[j] =
          IF requests[j].at = "attach" THEN [requests[j] EXCEPT !.at = "play"] ELSE requests[j]
    BY DEF Loaded
  <2>3. QED
    BY <2>1, <2>2 DEF RequestRecords
<1>3. QED
  BY <1>1, <1>2

\* A track that ends and that nobody listens to.
EndStep(s) ==
  /\ s \in cam.live /\ UNCHANGED <<flow, work, page, sent, requests>>
  /\ met' = met \cup {"ended"}
  /\ cam'.current = cam.current /\ cam'.session = cam.session
  /\ cam'.live = cam.live \ {s}

\* What a step does to the camera hook.
LEMMA CameraStateSteps ==
  ASSUME CameraTypes, [Next]_vars
  PROVE  \/ UNCHANGED <<requests, cam>>
         \/ StopCamera \/ Loaded \/ SwitchCamera
         \/ AcquireCamera("START_CAMERA") \/ AcquireCamera("RETAKE")
         \/ \E s \in Streams : EndStep(s)
         \/ \E i \in Requests : Camera(i)
<1>1. ASSUME NEW s \in Streams, TrackEnds(s) PROVE StopCamera \/ EndStep(s)
  <2>1. CASE Interrupt
    BY <2>1 DEF Interrupt
  <2>2. CASE ~Interrupt
    BY <1>1, <2>2 DEF TrackEnds, EndStep, Dropped, Meet, CameraTypes, CameraRefs
  <2>3. QED
    BY <2>1, <2>2
<1>2. CASE User
  BY <1>2 DEF User, StartCamera, Retake, RetryRetake, Confirm, ResumeStream, Reset, Capture
<1>3. CASE Browser
  BY <1>1, <1>3 DEF Browser, VisibilityHidden, PageHide, Shown, Unmount, Interrupt
<1>4. ASSUME NEW k \in Captures, Work(k) PROVE UNCHANGED <<requests, cam>> \/ StopCamera
  BY <1>4
  DEF Work, BurstTaken, BurstFails, AnalysisIgnored, AnalysisReady, AnalysisRetry,
      AnalysisUnavailable, AnalysisFails
<1>5. CASE AutoProcess
  BY <1>5 DEF AutoProcess
<1>6. QED
  BY <1>2, <1>3, <1>4, <1>5 DEF Next, vars

\* Hazards are never forgotten.
LEMMA HazardsStay ==
  ASSUME [Next]_vars
  PROVE  met \subseteq met'
<1> USE DEF Meet
<1>1. CASE User
  BY <1>1 DEF User, StartCamera, Retake, AcquireCamera, SwitchCamera, RetryRetake, Confirm,
     ResumeStream, Reset, Capture
<1>2. CASE Browser
  BY <1>2 DEF Browser, Loaded, VisibilityHidden, PageHide, Shown, Unmount, TrackEnds, CameraOnly
<1>3. ASSUME NEW i \in Requests, Camera(i) PROVE met \subseteq met'
  BY <1>3, CameraSteps
<1>4. ASSUME NEW k \in Captures, Work(k) PROVE met \subseteq met'
  BY <1>4 DEF Work, BurstTaken, BurstFails, AnalysisIgnored, AnalysisReady, AnalysisRetry,
      AnalysisUnavailable, AnalysisFails
<1>5. CASE AutoProcess \/ UNCHANGED vars
  BY <1>5 DEF AutoProcess, vars
<1>6. QED
  BY <1>1, <1>2, <1>3, <1>4, <1>5 DEF Next

\* Streams tell the requests apart.
LEMMA StreamFacts ==
  ASSUME CameraTypes
  PROVE  /\ \A i \in Requests : StreamOf(i) \in Streams
         /\ \A i, j \in Requests : StreamOf(i) = StreamOf(j) => i = j
         /\ NoStream \notin Streams
         /\ \A i, j \in Requests : i # j => StreamOf(i) \notin Ahead(j)
         /\ \A i \in Requests : NoStream \notin Ahead(i)
         /\ \A i \in Requests : requests[i].at \notin {"unused", "request"} => StreamOf(i) \notin Ahead(i)
<1> USE DEF StreamOf, Streams, Ahead, NoStream, Requests, CameraTypes, RequestRecords
<1>1. \A i \in Requests : StreamOf(i) \in Streams
  OBVIOUS
<1>2. \A i, j \in Requests : StreamOf(i) = StreamOf(j) => i = j
  OBVIOUS
<1>3. NoStream \notin Streams
  BY BoundsAssumption
<1>4. \A i, j \in Requests : i # j => StreamOf(i) \notin Ahead(j)
  OBVIOUS
<1>5. ASSUME NEW i \in Requests PROVE NoStream \notin Ahead(i)
  <2>1. 0 \notin {i}
    OBVIOUS
  <2>2. <<0, FALSE>> \notin {i} \X BOOLEAN
    BY <2>1
  <2>3. QED
    BY <2>2
<1>6. \A i \in Requests : requests[i].at \notin {"unused", "request"} => StreamOf(i) \notin Ahead(i)
  OBVIOUS
<1>7. QED
  BY <1>1, <1>2, <1>3, <1>4, <1>5, <1>6

\* What is ahead of a request that is left alone.
LEMMA KeptAhead ==
  ASSUME CameraTypes, CameraTypes', NEW j \in Requests
  PROVE  /\ requests'[j].again = requests[j].again => StreamOf(j)' = StreamOf(j)
         /\ Kept(j) => Ahead(j)' = Ahead(j)
         /\ /\ requests'[j].again = requests[j].again
            /\ requests'[j].at \in {"unused", "request"} => requests[j].at \in {"unused", "request"}
            => Ahead(j)' \subseteq Ahead(j)
         /\ ~requests[j].again /\ requests'[j].again => Ahead(j)' \subseteq Ahead(j)
BY DEF StreamOf, Ahead, Kept

\* A step of a request keeps the camera's invariant for the request and for the
\* others.
LEMMA CameraRequestNext ==
  ASSUME CameraTypes, CameraTypes', RequestInv, NEW i \in Requests, Camera(i)
  PROVE  RequestInv'
<1> USE DEF Orderly
<1>1. \A j \in Requests : Orderly(j)
  BY DEF RequestInv
<1>2. /\ requests'[i].kind = requests[i].kind /\ \A j \in Requests \ {i} : Kept(j)
      /\ \/ GrantStep(i) \/ PlayStep(i)
         \/ \E l \in SUBSET Streams : Left(i, l) /\ (AgainStep(i, l) \/ SettleStep(i, l))
  BY CameraActionSteps
<1>3. ASSUME NEW j \in Requests \ {i} PROVE /\ Kept(j) /\ Ahead(j)' = Ahead(j)
                                            /\ StreamOf(j)' = StreamOf(j)
                                            /\ StreamOf(i) \notin Ahead(j) /\ StreamOf(i) # StreamOf(j)
                                            /\ NoStream \notin Ahead(j) /\ NoStream # StreamOf(j)
  BY <1>2, KeptAhead, StreamFacts DEF Kept
<1> SUFFICES ASSUME NEW j \in Requests PROVE Orderly(j)'
  BY DEF RequestInv
<1>4. CASE GrantStep(i)
  <2>1. CASE j = i
    <3>1. Ahead(i)' \subseteq Ahead(i) /\ StreamOf(i) \notin Ahead(i)'
      <4>1. StreamOf(i)' = StreamOf(i) /\ requests'[i].at = "attach"
        BY <1>4, KeptAhead DEF GrantStep
      <4>2. Ahead(i)' \subseteq Ahead(i)
        BY <1>4, KeptAhead DEF GrantStep
      <4>3. StreamOf(i)' \notin Ahead(i)'
        BY <1>4, <4>1, StreamFacts DEF StreamOf, Ahead, GrantStep
      <4>4. QED
        BY <4>1, <4>2, <4>3
    <3>2. StreamOf(i) \in Ahead(i)
      BY <1>4 DEF GrantStep, Ahead, StreamOf, CameraTypes, RequestRecords
    <3>3. QED
      BY <1>1, <1>2, <1>4, <2>1, <3>1, <3>2, KeptAhead DEF GrantStep
  <2>2. CASE j # i
    BY <1>1, <1>3, <1>4, <2>2 DEF GrantStep, Kept, Stale
  <2>3. QED
    BY <2>1, <2>2
<1>5. CASE PlayStep(i)
  <2>1. CASE j = i
    <3>1. StreamOf(i)' = StreamOf(i) /\ Ahead(i)' \subseteq Ahead(i)
      BY <1>5, KeptAhead DEF PlayStep
    <3>2. StreamOf(i) \notin Ahead(i)
      BY <1>5, StreamFacts DEF PlayStep
    <3>3. QED
      BY <1>1, <1>2, <1>5, <2>1, <3>1, <3>2 DEF PlayStep
  <2>2. CASE j # i
    BY <1>1, <1>3, <1>5, <2>2 DEF PlayStep, Kept, Stale
  <2>3. QED
    BY <2>1, <2>2
<1>6. ASSUME NEW l \in SUBSET Streams, Left(i, l), AgainStep(i, l) PROVE Orderly(j)'
  <2>1. l \subseteq cam.live
    BY <1>6 DEF Left
  <2>2. CASE j = i
    <3>1. Ahead(i)' \subseteq Ahead(i)
      BY <1>6, KeptAhead DEF AgainStep
    <3>2. QED
      BY <1>1, <1>2, <1>6, <2>1, <2>2, <3>1 DEF AgainStep
  <2>3. CASE j # i
    BY <1>1, <1>3, <1>6, <2>1, <2>3 DEF AgainStep, Kept, Stale
  <2>4. QED
    BY <2>2, <2>3
<1>7. ASSUME NEW l \in SUBSET Streams, Left(i, l), SettleStep(i, l) PROVE Orderly(j)'
  <2>1. l \subseteq cam.live
    BY <1>7 DEF Left
  <2>2. \/ cam'.current = cam.current /\ cam'.session = cam.session /\ cam'.live = l
        \/ cam'.current = 0 /\ cam'.session = NoStream /\ cam'.live = l \ {cam.session}
    BY <1>7 DEF SettleStep, ReturnStep, ThrowStep
  <2>3. CASE j = i
    <3>1. Ahead(i)' \subseteq Ahead(i) /\ NoStream \notin Ahead(i)
      BY <1>7, KeptAhead, StreamFacts DEF SettleStep
    <3>2. requests[i].at # "unused"
      BY <1>7 DEF Left
    <3>3. requests'[i].at = "done" /\ requests'[i].again = requests[i].again
      BY <1>7 DEF SettleStep
    <3>4. QED
      BY <1>1, <1>2, <2>1, <2>2, <2>3, <3>1, <3>2, <3>3
  <2>4. CASE j # i
    <3>1. 0 # j
      BY DEF Requests
    <3>2. QED
      BY <1>1, <1>3, <2>1, <2>2, <2>4, <3>1 DEF Kept, Stale
  <2>5. QED
    BY <2>3, <2>4
<1>8. QED
  BY <1>2, <1>4, <1>5, <1>6, <1>7

LEMMA RequestNext ==
  ASSUME CameraTypes, CameraTypes', RequestInv, [Next]_vars
  PROVE  RequestInv'
<1> USE DEF Orderly
<1>1. \A j \in Requests : Orderly(j)
  BY DEF RequestInv
<1>2. \A j \in Requests : NoStream \notin Ahead(j) /\ NoStream # StreamOf(j) /\ 0 # j
  BY StreamFacts DEF Requests
<1>3. \A j \in Requests : Kept(j) => Ahead(j)' = Ahead(j) /\ StreamOf(j)' = StreamOf(j)
  BY KeptAhead DEF Kept
\* The session is stopped, or nothing changes; one request may begin.
<1>4. ASSUME NEW i \in Requests, requests[i].at = "unused", requests'[i].at = "request",
             requests'[i].again = requests[i].again, \A j \in Requests \ {i} : Kept(j),
             cam'.current = i,
             \/ cam'.session = cam.session /\ cam'.live = cam.live
             \/ cam'.session = NoStream /\ cam'.live = cam.live \ {cam.session}
      PROVE  RequestInv'
  <2> SUFFICES ASSUME NEW j \in Requests PROVE Orderly(j)'
    BY DEF RequestInv
  <2>1. CASE j = i
    <3>1. Ahead(i)' \subseteq Ahead(i)
      BY <1>4, KeptAhead
    <3>2. ~requests[i].again
      BY <1>1, <1>4
    <3>3. QED
      BY <1>1, <1>2, <1>4, <2>1, <3>1, <3>2
  <2>2. CASE j # i
    BY <1>1, <1>2, <1>3, <1>4, <2>2 DEF Kept, Stale
  <2>3. QED
    BY <2>1, <2>2
<1>5. CASE StopCamera
  <2>1. CameraReleased(cam) /\ \A j \in Requests : Kept(j)
    BY <1>5, StopSteps
  <2>2. ASSUME NEW j \in Requests PROVE Orderly(j)'
    BY <1>1, <1>2, <1>3, <2>1, <2>2 DEF Kept, Stale, CameraReleased
  <2>3. QED
    BY <2>2 DEF RequestInv
<1>6. CASE Loaded
  <2>1. ASSUME NEW j \in Requests PROVE Orderly(j)'
    <3>1. Ahead(j)' \subseteq Ahead(j) /\ StreamOf(j)' = StreamOf(j) /\ UNCHANGED cam
      BY <1>6, LoadedSteps, KeptAhead
    <3>2. QED
      BY <1>1, <1>6, <3>1, LoadedSteps DEF Stale
  <2>2. QED
    BY <2>1 DEF RequestInv
<1>7. CASE SwitchCamera
  BY <1>4, <1>7, SwitchSteps
<1>8. ASSUME NEW a, AcquireCamera(a) PROVE RequestInv'
  <2>1. CASE UNCHANGED <<requests, cam>>
    BY <2>1 DEF RequestInv, Ahead, StreamOf, Stale
  <2>2. QED
    BY <1>4, <1>8, <2>1, AcquireSteps
<1>9. ASSUME NEW s \in Streams, EndStep(s) PROVE RequestInv'
  <2>1. UNCHANGED requests /\ cam'.current = cam.current /\ cam'.session = cam.session
        /\ cam'.live \subseteq cam.live
    BY <1>9 DEF EndStep
  <2>2. ASSUME NEW j \in Requests PROVE Orderly(j)'
    <3>1. Kept(j)
      BY <2>1 DEF Kept
    <3>2. QED
      BY <1>1, <1>3, <2>1, <2>2, <3>1 DEF Stale
  <2>3. QED
    BY <2>2 DEF RequestInv
<1>10. CASE UNCHANGED <<requests, cam>>
  BY <1>10 DEF RequestInv, Ahead, StreamOf, Stale
<1>11. QED
  BY <1>5, <1>6, <1>7, <1>8, <1>9, <1>10, CameraStateSteps, CameraRequestNext

\* A live stream keeps an owner.
LEMMA OrphanNext ==
  ASSUME CameraTypes, CameraTypes', RequestInv, NoOrphanStream, [Next]_vars
  PROVE  NoOrphanStream'
<1> SUFFICES ASSUME "timeout" \notin met', NEW s \in cam'.live
             PROVE  s = cam'.session \/ \E j \in Requests : Pending(j)' /\ s = StreamOf(j)'
  BY DEF NoOrphanStream
<1>1. "timeout" \notin met
  BY HazardsStay
<1>2. s \in cam.live => s = cam.session \/ \E j \in Requests : Pending(j) /\ s = StreamOf(j)
  BY <1>1 DEF NoOrphanStream
<1>3. \A j \in Requests : Kept(j) => StreamOf(j)' = StreamOf(j) /\ (Pending(j) => Pending(j)')
  BY KeptAhead DEF Kept, Pending
<1>4. CASE StopCamera
  BY <1>2, <1>3, <1>4, StopSteps DEF CameraReleased
<1>5. CASE Loaded
  <2>1. \A j \in Requests : StreamOf(j)' = StreamOf(j) /\ (Pending(j) => Pending(j)')
    BY <1>5, LoadedSteps, KeptAhead DEF Pending
  <2>2. QED
    BY <1>2, <1>5, <2>1, LoadedSteps
<1>6. ASSUME NEW i \in Requests, requests[i].at = "unused", \A j \in Requests \ {i} : Kept(j),
             \/ cam'.session = cam.session /\ cam'.live = cam.live
             \/ cam'.session = NoStream /\ cam'.live = cam.live \ {cam.session}
      PROVE  s = cam'.session \/ \E j \in Requests : Pending(j)' /\ s = StreamOf(j)'
  BY <1>2, <1>3, <1>6 DEF Pending
<1>7. CASE SwitchCamera
  BY <1>6, <1>7, SwitchSteps
<1>8. ASSUME NEW a, AcquireCamera(a)
      PROVE  s = cam'.session \/ \E j \in Requests : Pending(j)' /\ s = StreamOf(j)'
  <2>1. CASE UNCHANGED <<requests, cam>>
    BY <1>2, <2>1 DEF StreamOf, Pending
  <2>2. QED
    BY <1>6, <1>8, <2>1, AcquireSteps
<1>9. ASSUME NEW t \in Streams, EndStep(t)
      PROVE  s = cam'.session \/ \E j \in Requests : Pending(j)' /\ s = StreamOf(j)'
  BY <1>2, <1>9 DEF EndStep, StreamOf, Pending
<1>10. CASE UNCHANGED <<requests, cam>>
  BY <1>2, <1>10 DEF StreamOf, Pending
<1>11. ASSUME NEW i \in Requests, Camera(i)
       PROVE  s = cam'.session \/ \E j \in Requests : Pending(j)' /\ s = StreamOf(j)'
  <2>1. /\ \A j \in Requests \ {i} : Kept(j)
        /\ \/ GrantStep(i) \/ PlayStep(i)
           \/ \E l \in SUBSET Streams : Left(i, l) /\ (AgainStep(i, l) \/ SettleStep(i, l))
    BY <1>11, CameraActionSteps
  <2>2. CASE GrantStep(i)
    <3>1. StreamOf(i)' = StreamOf(i) /\ Pending(i)'
      BY <2>2, KeptAhead DEF GrantStep, Pending
    <3>2. QED
      BY <1>2, <1>3, <2>1, <2>2, <3>1 DEF GrantStep
  <2>3. CASE PlayStep(i)
    BY <1>2, <1>3, <2>1, <2>3 DEF PlayStep
  <2>4. ASSUME NEW l \in SUBSET Streams, Left(i, l), s \in l
        PROVE  s = cam.session \/ \E j \in Requests \ {i} : Pending(j)' /\ s = StreamOf(j)'
    <3>1. requests[i].at = "request" => StreamOf(i) \notin cam.live
      <4>1. requests[i].at = "request" => StreamOf(i) \in Ahead(i)
        BY DEF Ahead, StreamOf, CameraTypes, RequestRecords
      <4>2. QED
        BY <4>1 DEF RequestInv, Orderly
    <3>2. requests[i].at = "enumerate" /\ ~Stale(i) /\ StreamOf(i) \in cam.live
            => cam.session = StreamOf(i)
      BY DEF RequestInv, Orderly
    <3>3. s \in cam.live /\ (s = StreamOf(i) => s = cam.session)
      BY <2>4, <3>1, <3>2 DEF Left
    <3>4. QED
      BY <1>2, <1>3, <2>1, <3>3
  <2>5. ASSUME NEW l \in SUBSET Streams, Left(i, l), AgainStep(i, l)
        PROVE  s = cam'.session \/ \E j \in Requests : Pending(j)' /\ s = StreamOf(j)'
    BY <2>4, <2>5 DEF AgainStep
  <2>6. ASSUME NEW l \in SUBSET Streams, Left(i, l), SettleStep(i, l)
        PROVE  s = cam'.session \/ \E j \in Requests : Pending(j)' /\ s = StreamOf(j)'
    <3>1. s \in l
      BY <2>6 DEF SettleStep, ReturnStep, ThrowStep
    <3>2. \/ cam'.session = cam.session \/ s # cam.session
      BY <2>6 DEF SettleStep, ReturnStep, ThrowStep
    <3>3. QED
      BY <2>4, <2>6, <3>1, <3>2
  <2>7. QED
    BY <2>1, <2>2, <2>3, <2>5, <2>6
<1>12. QED
  BY <1>4, <1>5, <1>7, <1>8, <1>9, <1>10, <1>11, CameraStateSteps

\* A step that stops the camera releases it.
LEMMA ReleaseByStop ==
  ASSUME CameraTypes, StopCamera, ~visible' /\ mounted' => phase' \in Ignored
  PROVE  ReleaseInv'
<1>1. CameraReleased(cam)
  BY StopSteps
<1>2. NoStream \notin cam'.live
  BY <1>1, StreamFacts DEF CameraReleased, CameraTypes, CameraRefs
<1>3. \A j \in Requests : Stale(j)'
  BY <1>1 DEF CameraReleased, Stale, Requests
<1>4. QED
  BY <1>1, <1>2, <1>3 DEF ReleaseInv, CameraReleased

\* A step that leaves the camera alone and does not move to a phase without one.
LEMMA ReleaseByRest ==
  ASSUME ReleaseInv, UNCHANGED <<requests, cam, mounted>>, met \subseteq met',
         ~visible' /\ mounted => phase' \in Ignored,
         \/ phase' = phase
         \/ phase' \notin Ignored \cup {"requestingPermission"}
         \/ phase \in Ignored /\ phase' \in Ignored
  PROVE  ReleaseInv'
<1> SUFFICES ASSUME met' \cap {"timeout", "resumable"} = {} PROVE ReleaseInv'
  BY DEF ReleaseInv
<1>1. met \cap {"timeout", "resumable"} = {}
  OBVIOUS
<1>2. \A i \in Requests : /\ Stale(i)' <=> Stale(i)
                          /\ Pending(i)' <=> Pending(i)
                          /\ StreamOf(i)' = StreamOf(i) /\ requests'[i] = requests[i]
  BY DEF Stale, StreamOf, Pending
<1>3. cam'.session = cam.session /\ cam'.live = cam.live /\ mounted' = mounted
  OBVIOUS
<1>4. \/ phase' = phase
      \/ phase' \notin Ignored \cup {"requestingPermission"}
      \/ phase \in Ignored /\ phase' \in Ignored /\ phase' # "requestingPermission"
  BY DEF Ignored
<1>5. QED
  BY <1>1, <1>2, <1>3, <1>4 DEF ReleaseInv

LEMMA ReleaseNext ==
  ASSUME CameraTypes, CameraTypes', FlowTypes, RequestInv, ReleaseInv, [Next]_vars
  PROVE  ReleaseInv'
<1>1. met \subseteq met'
  BY HazardsStay
<1> USE DEF page, flow, Ignored
<1>2. ASSUME NEW a \in {"START_CAMERA", "RETAKE"}, AcquireCamera(a), UNCHANGED page, visible,
             mounted, phase \in {"idle", "error", "preview"}, phase \in AllowedFrom(a)
      PROVE  ReleaseInv'
  <2>1. CASE UNCHANGED <<requests, cam, met>> /\ phase' = "error"
    BY <1>1, <1>2, <2>1, ReleaseByRest
  <2>2. CASE Move(a)
    <3>1. phase' = "requestingPermission"
      BY <1>2, <2>2 DEF Move, Target
    <3>2. PICK i \in Requests :
            /\ requests[i].at = "unused"
            /\ requests'[i].at = "request" /\ requests'[i].kind = requests[i].kind
            /\ requests'[i].again = requests[i].again
            /\ \A j \in Requests \ {i} : Kept(j)
            /\ cam'.current = i /\ cam'.session = cam.session /\ cam'.live = cam.live
      BY <1>2, <3>1, AcquireSteps
    <3>3. requests'[i].kind = "start" /\ \A j \in Requests : ~Stale(j)' => j = i
      BY <3>2 DEF RequestInv, Orderly, Stale
    <3>4. \A j \in Requests : requests[j].at = "enumerate" =>
             requests'[j].at = "enumerate" /\ StreamOf(j)' = StreamOf(j)
      BY <3>2, KeptAhead DEF Kept
    <3>5. QED
      BY <1>1, <1>2, <3>1, <3>2, <3>3, <3>4 DEF ReleaseInv
  <2>3. QED
    BY <1>2, <2>1, <2>2 DEF AcquireCamera
<1>3. CASE StartCamera
  BY <1>2, <1>3 DEF StartCamera, UserActs, Offers, AllowedFrom
<1>4. CASE Retake
  BY <1>2, <1>4 DEF Retake, UserActs, Offers, AllowedFrom
<1>5. CASE SwitchCamera
  BY <1>1, <1>5, SwitchSteps DEF ReleaseInv
<1>6. CASE RetryRetake \/ Confirm \/ ResumeStream
  <2>1. /\ UNCHANGED <<requests, cam, visible, mounted, met>> /\ visible
        /\ phase' \in {"streaming", "confirmed"} /\ (phase' = "confirmed" => phase = "preview")
    BY <1>6 DEF RetryRetake, Confirm, ResumeStream, UserActs, Offers, Move, AllowedFrom, Target
  <2>2. QED
    BY <1>1, <2>1, ReleaseByRest
<1>7. CASE Reset
  BY <1>7, ReleaseByStop DEF Reset, UserActs
<1>8. ASSUME NEW k \in Captures, Capture(k) PROVE ReleaseInv'
  <2>1. UNCHANGED <<requests, cam, visible, mounted>> /\ visible
    BY <1>8 DEF Capture, UserActs
  <2>2. CASE Meet("resumable", TRUE)
    BY <2>2 DEF Meet, ReleaseInv
  <2>3. CASE Move("CAPTURE")
    <3>1. phase' = "capturing"
      BY <1>8, <2>3 DEF Capture, UserActs, Offers, Move, AllowedFrom, Target
    <3>2. QED
      BY <1>1, <2>1, <3>1, ReleaseByRest
  <2>4. QED
    BY <1>8, <2>2, <2>3 DEF Capture
<1>9. CASE Loaded
  <2>1. \A j \in Requests : /\ requests'[j].kind = requests[j].kind /\ StreamOf(j)' = StreamOf(j)
                            /\ Pending(j)' => Pending(j)
                            /\ requests[j].at = "enumerate" => requests'[j].at = "enumerate"
    BY <1>9, LoadedSteps, KeptAhead DEF Pending
  <2>2. UNCHANGED <<cam, phase, visible, mounted, met>>
    BY <1>9, LoadedSteps
  <2>3. QED
    BY <2>1, <2>2 DEF ReleaseInv, Stale
<1>10. CASE VisibilityHidden \/ PageHide
  <2>1. CASE Interrupt
    <3>1. phase' \in Ignored
      BY <2>1, InterruptSteps
    <3>2. QED
      BY <2>1, <3>1, ReleaseByStop DEF Interrupt
  <2>2. CASE phase \in Ignored /\ UNCHANGED phase /\ StopCamera
    BY <2>2, ReleaseByStop
  <2>3. CASE phase \in Ignored /\ UNCHANGED <<phase, requests, cam, mounted>>
    BY <1>1, <2>3, ReleaseByRest
  <2>4. QED
    BY <1>10, <2>1, <2>2, <2>3 DEF VisibilityHidden, PageHide
<1>11. CASE Shown
  BY <1>1, <1>11, ReleaseByRest DEF Shown
<1>12. CASE Unmount
  BY <1>12, ReleaseByStop DEF Unmount
<1>13. ASSUME NEW s \in Streams, TrackEnds(s) PROVE ReleaseInv'
  <2>1. CASE Interrupt
    <3>1. phase' \in Ignored
      BY <2>1, InterruptSteps
    <3>2. QED
      BY <2>1, <3>1, ReleaseByStop DEF Interrupt
  <2>2. CASE ~Interrupt
    <3>1. /\ cam'.current = cam.current /\ cam'.session = cam.session /\ cam'.live \subseteq cam.live
          /\ UNCHANGED <<phase, visible, mounted, requests>>
      BY <1>13, <2>2 DEF TrackEnds, Dropped, CameraTypes, CameraRefs
    <3>2. QED
      BY <1>1, <3>1 DEF ReleaseInv, Stale, StreamOf, Pending
  <2>3. QED
    BY <2>1, <2>2
<1>14. CASE AutoProcess
  BY <1>1, <1>14, ReleaseByRest DEF AutoProcess, ReleaseInv
<1>15. ASSUME NEW k \in Captures, Work(k) PROVE ReleaseInv'
  <2>1. CASE BurstTaken(k) \/ AnalysisIgnored(k) \/ AnalysisRetry(k)
    <3>1. /\ UNCHANGED <<requests, cam, visible, mounted, met>>
          /\ \/ phase' = phase
             \/ phase \in {"capturing", "analyzing"} /\ phase' \in {"analyzing", "qualityRetry"}
      BY <2>1 DEF BurstTaken, AnalysisIgnored, AnalysisRetry, Ends, Move, AllowedFrom, Target
    <3>2. QED
      BY <1>1, <3>1, ReleaseByRest DEF ReleaseInv
  <2>2. CASE BurstFails(k)
    <3>1. CASE Meet("resumable", TRUE)
      BY <3>1 DEF Meet, ReleaseInv
    <3>2. CASE UNCHANGED <<flow, met>>
      BY <1>1, <2>2, <3>2, ReleaseByRest DEF BurstFails, ReleaseInv
    <3>3. QED
      BY <2>2, <3>1, <3>2 DEF BurstFails
  <2>3. CASE AnalysisReady(k) \/ AnalysisUnavailable(k)
    <3>1. StopCamera /\ phase' \in {"preview", "error"}
      BY <2>3 DEF AnalysisReady, AnalysisUnavailable, Move, AllowedFrom, Target
    <3>2. QED
      BY <3>1, ReleaseByStop
  <2>4. CASE AnalysisFails(k)
    <3>1. CASE UNCHANGED <<flow, cam, requests>>
      BY <1>1, <2>4, <3>1, ReleaseByRest DEF AnalysisFails, ReleaseInv
    <3>2. CASE StopCamera /\ Move("ANALYSIS_ERROR")
      <4>1. phase' \in {phase, "error"} /\ UNCHANGED <<visible, mounted>>
        BY <2>4, <3>2 DEF AnalysisFails, Move, Target
      <4>2. QED
        BY <1>1, <3>2, <4>1, ReleaseByStop DEF ReleaseInv
    <3>3. QED
      BY <2>4, <3>1, <3>2 DEF AnalysisFails
  <2>5. QED
    BY <1>15, <2>1, <2>2, <2>3, <2>4 DEF Work
<1>16. ASSUME NEW i \in Requests, Camera(i) PROVE ReleaseInv'
  <2> SUFFICES ASSUME met' \cap {"timeout", "resumable"} = {} PROVE ReleaseInv'
    BY DEF ReleaseInv
  <2>1. /\ requests'[i].kind = requests[i].kind /\ \A j \in Requests \ {i} : Kept(j)
        /\ UNCHANGED <<visible, mounted>>
        /\ \/ GrantStep(i) \/ PlayStep(i)
           \/ \E l \in SUBSET Streams : Left(i, l) /\ (AgainStep(i, l) \/ SettleStep(i, l))
    BY <1>16, CameraActionSteps
  <2>2. \A j \in Requests \ {i} :
          /\ requests'[j].kind = requests[j].kind /\ StreamOf(j)' = StreamOf(j)
          /\ Pending(j)' => Pending(j)
          /\ requests[j].at = "enumerate" => requests'[j].at = "enumerate"
    BY <2>1, KeptAhead DEF Kept, Pending
  <2>3. /\ ~visible /\ mounted => phase \in Ignored
        /\ (phase \in Ignored \/ ~mounted) => \A j \in Requests : Pending(j) => Stale(j)
        /\ phase = "requestingPermission" =>
             \A j \in Requests : ~Stale(j) => requests[j].kind = "start"
        /\ /\ (phase \in Ignored \cup {"requestingPermission"}) \/ ~mounted
           /\ cam.session \in cam.live
           => \E j \in Requests : requests[j].at = "enumerate" /\ cam.session = StreamOf(j)
    BY <1>1 DEF ReleaseInv
  <2>4. requests[i].at = "request" => cam.session # StreamOf(i)
    <3>1. requests[i].at = "request" => StreamOf(i) \in Ahead(i)
      BY DEF Ahead, StreamOf, CameraTypes, RequestRecords
    <3>2. QED
      BY <3>1 DEF RequestInv, Orderly
  <2>5. CASE GrantStep(i)
    <3>1. Pending(i) /\ UNCHANGED phase /\ requests[i].at # "enumerate"
      BY <2>5 DEF GrantStep, Pending
    <3>2. QED
      BY <2>1, <2>2, <2>3, <2>4, <2>5, <3>1 DEF ReleaseInv, GrantStep, Stale
  <2>6. CASE PlayStep(i)
    <3>1. /\ Pending(i) /\ UNCHANGED phase /\ requests'[i].at = "enumerate"
          /\ cam'.session = StreamOf(i) /\ StreamOf(i)' = StreamOf(i) /\ cam'.current = cam.current
      BY <2>6, KeptAhead DEF PlayStep, Pending
    <3>2. QED
      BY <2>1, <2>2, <2>3, <3>1 DEF ReleaseInv, Stale
  <2>7. ASSUME NEW l \in SUBSET Streams, Left(i, l), AgainStep(i, l) PROVE ReleaseInv'
    <3>1. /\ Pending(i) /\ UNCHANGED phase /\ requests[i].at # "enumerate" /\ l \subseteq cam.live
          /\ cam'.current = cam.current /\ cam'.session = cam.session /\ cam'.live = l
      BY <2>7 DEF AgainStep, Left, Pending
    <3>2. QED
      BY <2>1, <2>2, <2>3, <3>1 DEF ReleaseInv, Stale
  <2>8. ASSUME NEW l \in SUBSET Streams, Left(i, l), SettleStep(i, l) PROVE ReleaseInv'
    <3>1. Pending(i) /\ ~Pending(i)' /\ l \subseteq cam.live /\ UNCHANGED thrown
      BY <2>8 DEF SettleStep, ReturnStep, ThrowStep, Left, Pending
    <3>2. CASE ReturnStep(i, l) /\ phase = Awaited(i)
      <4>1. /\ phase' = "streaming" /\ phase \notin Ignored
            /\ cam'.current = cam.current /\ cam'.session = cam.session /\ cam'.live = l
        BY <3>2 DEF ReturnStep, Awaited
      <4>2. Stale(i) /\ requests[i].at = "enumerate" => StreamOf(i) \notin l
        BY <2>8 DEF Left
      <4>3. QED
        BY <2>1, <2>2, <2>3, <3>1, <4>1, <4>2 DEF ReleaseInv, Stale
    <3>3. CASE ReturnStep(i, l) /\ phase # Awaited(i)
      <4>1. /\ UNCHANGED phase /\ cam'.current = 0 /\ cam'.session = NoStream
            /\ cam'.live = l \ {cam.session}
        BY <3>3 DEF ReturnStep
      <4>2. NoStream \notin cam'.live /\ \A j \in Requests : Stale(j)'
        BY <4>1, StreamFacts DEF Stale, Requests
      <4>3. QED
        BY <2>1, <2>3, <4>1, <4>2 DEF ReleaseInv
    <3>4. CASE ThrowStep(i, l)
      <4>1. /\ ~Stale(i) /\ cam'.current = cam.current /\ cam'.session = cam.session /\ cam'.live = l
            /\ phase \notin Ignored /\ mounted
        BY <2>3, <3>1, <3>4 DEF ThrowStep
      <4>2. requests[i].at = "enumerate" => requests[i].kind = "switch"
        BY <3>4 DEF ThrowStep, RequestInv, Orderly
      <4>3. CASE UNCHANGED phase
        BY <2>1, <2>2, <2>3, <3>1, <4>1, <4>2, <4>3 DEF ReleaseInv, Stale
      <4>4. CASE phase' = "streaming"
        BY <2>1, <2>3, <4>1, <4>4 DEF ReleaseInv
      <4>5. CASE /\ phase' = "error" /\ phase = Awaited(i)
                 /\ requests[i].kind # "switch" \/ cam.session = NoStream
        <5>1. \A j \in Requests : Pending(j)' => Stale(j)'
          BY <3>1, <4>1 DEF Stale
        <5>2. requests[i].kind # "switch" => phase = "requestingPermission"
          BY <4>5 DEF Awaited, CameraTypes, RequestRecords
        <5>3. NoStream \notin l
          BY StreamFacts
        <5>4. QED
          BY <2>1, <2>2, <2>3, <3>1, <4>1, <4>2, <4>5, <5>1, <5>2, <5>3 DEF ReleaseInv
      <4>6. QED
        BY <3>4, <4>3, <4>4, <4>5 DEF ThrowStep
    <3>5. QED
      BY <2>8, <3>2, <3>3, <3>4 DEF SettleStep
  <2>9. QED
    BY <2>1, <2>5, <2>6, <2>7, <2>8
<1>17. CASE UNCHANGED vars
  BY <1>1, <1>17, ReleaseByRest DEF vars, ReleaseInv
<1>18. QED
  BY <1>3, <1>4, <1>5, <1>6, <1>7, <1>8, <1>9, <1>10, <1>11, <1>12, <1>13, <1>14, <1>15,
     <1>16, <1>17
  DEF Next, User, Browser

\* A granted stream runs until its video plays.
LEMMA GrantedNext ==
  ASSUME CameraTypes, CameraTypes', RequestInv, GrantedRuns, [Next]_vars
  PROVE  GrantedRuns'
<1> DEFINE Waits(j) == requests[j].at \in {"attach", "play", "unplayed"}
<1> SUFFICES ASSUME "ended" \notin met', NEW j \in Requests, Waits(j)'
             PROVE  StreamOf(j)' \in cam'.live
  BY DEF GrantedRuns
<1>1. Waits(j) => StreamOf(j) \in cam.live /\ StreamOf(j) # cam.session
  BY HazardsStay DEF GrantedRuns, RequestInv, Orderly
<1>2. Kept(j) => StreamOf(j)' = StreamOf(j) /\ Waits(j)
  BY KeptAhead DEF Kept
<1>3. CASE StopCamera
  BY <1>1, <1>2, <1>3, StopSteps DEF CameraReleased
<1>4. CASE Loaded
  BY <1>1, <1>4, LoadedSteps, KeptAhead
<1>5. CASE SwitchCamera
  BY <1>1, <1>2, <1>5, SwitchSteps
<1>6. ASSUME NEW a, AcquireCamera(a) PROVE StreamOf(j)' \in cam'.live
  <2>1. CASE UNCHANGED <<requests, cam>>
    BY <1>1, <2>1 DEF StreamOf
  <2>2. QED
    BY <1>1, <1>2, <1>6, <2>1, AcquireSteps
<1>7. \A s \in Streams : ~EndStep(s)
  BY DEF EndStep
<1>8. CASE UNCHANGED <<requests, cam>>
  BY <1>1, <1>8 DEF StreamOf
<1>9. ASSUME NEW i \in Requests, Camera(i) PROVE StreamOf(j)' \in cam'.live
  <2>1. /\ \A k \in Requests \ {i} : Kept(k)
        /\ \/ GrantStep(i) \/ PlayStep(i)
           \/ \E l \in SUBSET Streams : Left(i, l) /\ (AgainStep(i, l) \/ SettleStep(i, l))
    BY <1>9, CameraActionSteps
  <2>2. CASE j = i
    <3>1. GrantStep(i)
      BY <2>1, <2>2 DEF PlayStep, AgainStep, SettleStep
    <3>2. QED
      BY <2>2, <3>1, KeptAhead DEF GrantStep
  <2>3. CASE j # i
    <3>1. StreamOf(j) # StreamOf(i) /\ StreamOf(j)' = StreamOf(j)
      BY <1>2, <2>1, <2>3, StreamFacts
    <3>2. cam.live \ {cam.session, StreamOf(i)} \subseteq cam'.live
      BY <2>1 DEF GrantStep, PlayStep, AgainStep, SettleStep, ReturnStep, ThrowStep, Left
    <3>3. QED
      BY <1>1, <1>2, <2>1, <2>3, <3>1, <3>2
  <2>4. QED
    BY <2>2, <2>3
<1>10. QED
  BY <1>3, <1>4, <1>5, <1>6, <1>7, <1>8, <1>9, CameraStateSteps

-------------------------------------------------------------------------------
(* The phases that use the camera.                                              *)

\* A step that stops the camera leads to a phase that has none.
LEMMA StreamingByStop ==
  ASSUME CameraTypes, StopCamera,
         \/ ~mounted'
         \/ phase' \in {"idle", "preview", "confirmed"}
         \/ phase' = "error" /\ ~canRetry'
         \/ met' \cap (Races \cup {"keptRetry"}) # {}
  PROVE  StreamingInv'
<1>1. \A j \in Requests : Stale(j)'
  BY StopSteps DEF CameraReleased, Stale, Requests
<1>2. QED
  BY <1>1 DEF StreamingInv, Using

\* A step that leaves the camera alone moves between phases that use it, or to a
\* phase that has none from one that does not wait.
LEMMA StreamingByRest ==
  ASSUME StreamingInv, UNCHANGED <<requests, cam, mounted>>, met \subseteq met',
         \/ UNCHANGED <<phase, canRetry>>
         \/ Using(phase, canRetry) /\ Using(phase', canRetry')
         \/ /\ phase \notin {"requestingPermission", "switchingCamera"}
            /\ phase' \in {"idle", "preview", "confirmed"} \/ (phase' = "error" /\ ~canRetry')
  PROVE  StreamingInv'
<1> SUFFICES ASSUME mounted, met' \cap (Races \cup {"keptRetry"}) = {} PROVE StreamingInv'
  BY DEF StreamingInv
<1>1. met \cap (Races \cup {"keptRetry"}) = {}
  OBVIOUS
<1>2. \A i \in Requests : /\ Stale(i)' <=> Stale(i)
                          /\ Pending(i)' <=> Pending(i)
                          /\ StreamOf(i)' = StreamOf(i) /\ requests'[i] = requests[i]
                          /\ Awaited(i)' = Awaited(i)
                          /\ Awaited(i) \in {"requestingPermission", "switchingCamera"}
  BY DEF Stale, StreamOf, Pending, Awaited
<1>3. cam'.session = cam.session /\ cam'.live = cam.live
  OBVIOUS
<1>4. CASE UNCHANGED <<phase, canRetry>>
  BY <1>1, <1>2, <1>3, <1>4 DEF StreamingInv
<1>5. CASE Using(phase, canRetry) /\ Using(phase', canRetry')
  BY <1>1, <1>2, <1>3, <1>5 DEF StreamingInv, Using
<1>6. CASE /\ phase \notin {"requestingPermission", "switchingCamera"}
           /\ phase' \in {"idle", "preview", "confirmed"} \/ (phase' = "error" /\ ~canRetry')
  BY <1>1, <1>2, <1>3, <1>6 DEF StreamingInv, Using
<1>7. QED
  BY <1>4, <1>5, <1>6

LEMMA StreamingNext ==
  ASSUME CameraTypes, CameraTypes', FlowTypes, AttemptInv, RequestInv, GrantedRuns, StreamingInv,
         [Next]_vars
  PROVE  StreamingInv'
<1>1. met \subseteq met'
  BY HazardsStay
<1> USE DEF page, flow
<1>2. ASSUME NEW a \in {"START_CAMERA", "RETAKE"}, AcquireCamera(a), UNCHANGED page,
             phase \in {"idle", "error", "preview"}, phase \in AllowedFrom(a)
      PROVE  StreamingInv'
  <2>1. CASE UNCHANGED <<requests, cam, met>> /\ phase' = "error" /\ canRetry' = FALSE
    BY <1>1, <1>2, <2>1, StreamingByRest
  <2>2. CASE Move(a) /\ ~(UNCHANGED <<requests, cam, thrown, met>> /\ phase' = "error")
    <3>1. phase' = "requestingPermission"
      BY <1>2, <2>2 DEF Move, Target
    <3>2. PICK i \in Requests :
            /\ Meet("lateCamera", \E j \in Requests : Pending(j))
            /\ requests[i].at = "unused"
            /\ requests'[i].at = "request" /\ requests'[i].kind = requests[i].kind
            /\ requests'[i].again = requests[i].again
            /\ \A j \in Requests \ {i} : Kept(j)
            /\ cam'.current = i /\ cam'.session = cam.session /\ cam'.live = cam.live
      BY <1>2, <3>1, AcquireSteps
    <3>3. "lateCamera" \notin met' => \A j \in Requests \ {i} : ~Pending(j)'
      BY <3>2 DEF Meet, Pending, Kept
    <3>4. requests'[i].kind = "start" /\ ~Stale(i)'
      BY <3>2 DEF RequestInv, Orderly, Stale
    <3>5. QED
      BY <3>1, <3>2, <3>3, <3>4 DEF StreamingInv, Using, Awaited, Races
  <2>3. QED
    BY <1>2, <2>1, <2>2, AcquireSteps
<1>3. CASE StartCamera
  BY <1>2, <1>3 DEF StartCamera, UserActs, Offers, AllowedFrom
<1>4. CASE Retake
  BY <1>2, <1>4 DEF Retake, UserActs, Offers, AllowedFrom
<1>5. CASE SwitchCamera
  <2>1. PICK i \in Requests :
          /\ Meet("lateCamera", \E j \in Requests : Pending(j)) /\ phase' = "switchingCamera"
          /\ requests[i].at = "unused"
          /\ requests'[i].at = "request" /\ requests'[i].kind = "switch"
          /\ \A j \in Requests \ {i} : Kept(j)
          /\ cam'.current = i /\ cam'.session = NoStream
    BY <1>5, SwitchSteps
  <2>2. "lateCamera" \notin met' => \A j \in Requests \ {i} : ~Pending(j)'
    BY <2>1 DEF Meet, Pending, Kept
  <2>3. QED
    BY <2>1, <2>2 DEF StreamingInv, Using, Awaited, Races, Stale
<1>6. CASE RetryRetake \/ Confirm \/ ResumeStream
  <2>1. /\ UNCHANGED <<requests, cam, mounted, met>>
        /\ \/ Using(phase, canRetry) /\ phase' = "streaming"
           \/ phase = "preview" /\ phase' = "confirmed"
    BY <1>6 DEF RetryRetake, Confirm, ResumeStream, UserActs, Offers, Move, AllowedFrom, Target,
       Using
  <2>2. QED
    BY <1>1, <2>1, StreamingByRest DEF Using
<1>7. CASE Reset
  <2>1. phase' = "idle" /\ StopCamera
    BY <1>7 DEF Reset, Move, AllowedFrom, Target, FlowTypes
  <2>2. QED
    BY <2>1, StreamingByStop
<1>8. ASSUME NEW k \in Captures, Capture(k) PROVE StreamingInv'
  <2>1. /\ UNCHANGED <<requests, cam, mounted>> /\ phase = "streaming"
        /\ phase' = "capturing" \/ (phase' = "error" /\ canRetry' = TRUE)
    BY <1>8 DEF Capture, UserActs, Offers, Move, AllowedFrom, Target
  <2>2. QED
    BY <1>1, <2>1, StreamingByRest DEF Using
<1>9. CASE Loaded
  <2>1. \A j \in Requests : /\ Awaited(j)' = Awaited(j) /\ StreamOf(j)' = StreamOf(j)
                            /\ Pending(j)' => Pending(j)
                            /\ requests'[j].at = "enumerate" <=> requests[j].at = "enumerate"
    BY <1>9, LoadedSteps, KeptAhead DEF Pending, Awaited
  <2>2. UNCHANGED <<cam, phase, canRetry, mounted, met>>
    BY <1>9, LoadedSteps
  <2>3. QED
    BY <2>1, <2>2 DEF StreamingInv, Stale, Using
<1>10. CASE VisibilityHidden
  <2>1. CASE phase \in Ignored
    BY <1>1, <1>10, <2>1, StreamingByRest DEF VisibilityHidden
  <2>2. CASE phase \notin Ignored
    <3>1. Interrupt
      BY <1>10, <2>2 DEF VisibilityHidden
    <3>2. phase' = "error" /\ canRetry' = FALSE /\ StopCamera
      BY <2>2, <3>1, InterruptSteps DEF Ignored, Interrupt
    <3>3. QED
      BY <3>2, StreamingByStop
  <2>3. QED
    BY <2>1, <2>2
<1>11. CASE PageHide
  <2>1. CASE phase \in Ignored
    <3>1. StopCamera /\ Meet("hiddenRetry", canRetry) /\ UNCHANGED <<phase, canRetry>>
      BY <1>11, <2>1 DEF PageHide
    <3>2. phase' \in {"idle", "preview", "confirmed"} \/ (phase' = "error" /\ ~canRetry')
          \/ met' \cap (Races \cup {"keptRetry"}) # {}
      BY <2>1, <3>1 DEF Ignored, Meet, Races
    <3>3. QED
      BY <3>1, <3>2, StreamingByStop
  <2>2. CASE phase \notin Ignored
    <3>1. Interrupt
      BY <1>11, <2>2 DEF PageHide
    <3>2. phase' = "error" /\ canRetry' = FALSE /\ StopCamera
      BY <2>2, <3>1, InterruptSteps DEF Ignored, Interrupt
    <3>3. QED
      BY <3>2, StreamingByStop
  <2>3. QED
    BY <2>1, <2>2
<1>12. CASE Shown
  BY <1>1, <1>12, StreamingByRest DEF Shown
<1>13. CASE Unmount
  BY <1>13, StreamingByStop DEF Unmount
<1>14. ASSUME NEW s \in Streams, TrackEnds(s) PROVE StreamingInv'
  <2>1. CASE /\ s = cam.session /\ ~cam.intentional
             /\ phase \in {"streaming", "switchingCamera", "capturing", "analyzing"}
    <3>1. Interrupt
      BY <1>14, <2>1 DEF TrackEnds
    <3>2. phase' = "error" /\ canRetry' = FALSE /\ StopCamera
      BY <2>1, <3>1, InterruptSteps DEF Interrupt
    <3>3. QED
      BY <3>2, StreamingByStop
  <2>2. CASE Meet("ended", TRUE)
    BY <2>2 DEF Meet, StreamingInv, Races
  <2>3. QED
    BY <1>14, <2>1, <2>2 DEF TrackEnds
<1>15. CASE AutoProcess
  BY <1>1, <1>15, StreamingByRest DEF AutoProcess
<1>16. ASSUME NEW k \in Captures, Work(k) PROVE StreamingInv'
  <2>1. CASE BurstTaken(k) \/ AnalysisIgnored(k) \/ AnalysisRetry(k)
    <3>1. /\ UNCHANGED <<requests, cam, mounted, met, canRetry>>
          /\ \/ phase' = phase
             \/ phase \in {"capturing", "analyzing"} /\ phase' \in {"analyzing", "qualityRetry"}
      BY <2>1 DEF BurstTaken, AnalysisIgnored, AnalysisRetry, Ends, Move, AllowedFrom, Target
    <3>2. QED
      BY <1>1, <3>1, StreamingByRest DEF Using
  <2>2. CASE BurstFails(k)
    <3>1. UNCHANGED <<requests, cam, mounted>>
      BY <2>2 DEF BurstFails
    <3>2. CASE captures[k].aborted
      BY <1>1, <2>2, <3>1, <3>2, StreamingByRest DEF BurstFails
    <3>3. CASE ~captures[k].aborted /\ "lateAnalysis" \notin met
      <4>1. phase = "capturing"
        BY <2>2, <3>3 DEF BurstFails, AttemptInv, Unfinished
      <4>2. phase' = "error" /\ canRetry' = TRUE
        BY <2>2, <3>3, <4>1 DEF BurstFails, Move, AllowedFrom, Target
      <4>3. QED
        BY <1>1, <3>1, <4>1, <4>2, StreamingByRest DEF Using
    <3>4. CASE "lateAnalysis" \in met
      BY <1>1, <3>4 DEF StreamingInv, Races
    <3>5. QED
      BY <3>2, <3>3, <3>4
  <2>3. CASE AnalysisReady(k)
    <3>1. StopCamera /\ phase' = "preview"
      BY <2>3 DEF AnalysisReady, Move, AllowedFrom, Target
    <3>2. QED
      BY <3>1, StreamingByStop
  <2>4. CASE AnalysisUnavailable(k)
    <3>1. StopCamera /\ phase' = "error" /\ UNCHANGED canRetry /\ Meet("keptRetry", canRetry)
      BY <2>4 DEF AnalysisUnavailable, Move, AllowedFrom, Target
    <3>2. QED
      BY <3>1, StreamingByStop DEF Meet
  <2>5. CASE AnalysisFails(k)
    <3>1. CASE captures[k].aborted
      BY <1>1, <2>5, <3>1, StreamingByRest DEF AnalysisFails
    <3>2. CASE ~captures[k].aborted /\ "lateAnalysis" \notin met
      <4>1. phase = "analyzing"
        BY <2>5, <3>2 DEF AnalysisFails, AttemptInv, Unfinished
      <4>2. phase' = "error" /\ canRetry' = FALSE /\ StopCamera
        BY <2>5, <3>2, <4>1 DEF AnalysisFails, Move, AllowedFrom, Target
      <4>3. QED
        BY <4>2, StreamingByStop
    <3>3. CASE "lateAnalysis" \in met
      BY <1>1, <3>3 DEF StreamingInv, Races
    <3>4. QED
      BY <3>1, <3>2, <3>3
  <2>6. QED
    BY <1>16, <2>1, <2>2, <2>3, <2>4, <2>5 DEF Work
<1>17. ASSUME NEW i \in Requests, Camera(i) PROVE StreamingInv'
  <2> SUFFICES ASSUME mounted', met' \cap (Races \cup {"keptRetry"}) = {} PROVE StreamingInv'
    BY DEF StreamingInv
  <2>1. /\ requests'[i].kind = requests[i].kind /\ \A j \in Requests \ {i} : Kept(j)
        /\ UNCHANGED <<visible, mounted>>
        /\ \/ GrantStep(i) \/ PlayStep(i)
           \/ \E l \in SUBSET Streams : Left(i, l) /\ (AgainStep(i, l) \/ SettleStep(i, l))
    BY <1>17, CameraActionSteps
  <2>2. \A j \in Requests \ {i} :
          /\ Awaited(j)' = Awaited(j) /\ StreamOf(j)' = StreamOf(j)
          /\ Pending(j)' => Pending(j)
          /\ requests'[j].at = "enumerate" => requests[j].at = "enumerate"
    BY <2>1, KeptAhead DEF Kept, Pending, Awaited
  <2>3. /\ Awaited(i)' = Awaited(i)
        /\ Awaited(i) \in {"requestingPermission", "switchingCamera"}
    BY <2>1 DEF Awaited
  <2>4. /\ \A j \in Requests : Pending(j) /\ ~Stale(j) => phase = Awaited(j)
        /\ phase \in {"requestingPermission", "switchingCamera"} =>
             \A j \in Requests : Pending(j) =>
               /\ ~Stale(j)
               /\ IF requests[j].at = "enumerate"
                  THEN cam.session = StreamOf(j) /\ cam.session \in cam.live
                  ELSE phase = "switchingCamera" => cam.session = NoStream
        /\ Using(phase, canRetry) => \A j \in Requests : ~Pending(j)
    BY <1>1, <2>1 DEF StreamingInv
  <2>5. Pending(i)
    BY <2>1 DEF GrantStep, PlayStep, Left, Pending
  <2>6. ~Using(phase, canRetry)
    BY <2>4, <2>5
\* In a phase that waits, the request is the only one that is pending.
  <2>7. phase \in {"requestingPermission", "switchingCamera"} =>
          ~Stale(i) /\ \A j \in Requests \ {i} : ~Pending(j)
    BY <2>4, <2>5 DEF Stale
  <2>8. ~Stale(i) <=> phase \in {"requestingPermission", "switchingCamera"}
    BY <2>3, <2>4, <2>5
  <2>9. phase \notin {"requestingPermission", "switchingCamera"} => \A j \in Requests : Pending(j) => Stale(j)
    BY <2>4 DEF Awaited
\* A request that settles or goes on in a phase that does not wait changes nothing.
  <2>10. CASE Stale(i) /\ UNCHANGED <<phase, canRetry>> /\ cam'.current \in {cam.current, 0}
    <3>1. \A j \in Requests : Pending(j)' => Stale(j)'
      BY <2>1, <2>2, <2>5, <2>8, <2>9, <2>10 DEF Stale, Requests
    <3>2. QED
      BY <2>6, <2>8, <2>10, <3>1 DEF StreamingInv, Using
  <2>11. CASE GrantStep(i)
    <3>1. UNCHANGED <<phase, canRetry>> /\ ~Stale(i)' /\ requests'[i].at = "attach"
          /\ cam'.session = cam.session /\ requests[i].at # "enumerate"
      BY <2>11 DEF GrantStep, Stale
    <3>2. phase = Awaited(i) /\ phase \in {"requestingPermission", "switchingCamera"}
      BY <2>3, <2>4, <2>5, <2>11 DEF GrantStep
    <3>3. \A j \in Requests \ {i} : ~Pending(j)'
      BY <2>2, <2>7, <3>2
    <3>4. QED
      BY <2>1, <2>3, <2>4, <2>5, <2>6, <3>1, <3>2, <3>3 DEF StreamingInv, Using
  <2>12. CASE PlayStep(i)
    <3>1. /\ UNCHANGED <<phase, canRetry>> /\ cam'.current = cam.current
          /\ requests'[i].at = "enumerate" /\ StreamOf(i)' = StreamOf(i)
          /\ cam'.session = StreamOf(i) /\ cam'.live = cam.live \ {cam.session}
      BY <2>12, KeptAhead DEF PlayStep
    <3>2. StreamOf(i) \in cam'.live
      <4>1. "ended" \notin met
        BY <1>1 DEF Races
      <4>2. StreamOf(i) \in cam.live /\ cam.session # StreamOf(i)
        BY <2>12, <4>1 DEF PlayStep, GrantedRuns, RequestInv, Orderly
      <4>3. QED
        BY <3>1, <4>2
    <3>3. CASE ~Stale(i)
      <4>1. phase = Awaited(i) /\ phase \in {"requestingPermission", "switchingCamera"}
        BY <2>3, <2>4, <2>5, <3>3
      <4>2. \A j \in Requests \ {i} : ~Pending(j)'
        BY <2>2, <2>7, <4>1
      <4>3. ~Stale(i)'
        BY <3>1, <3>3 DEF Stale
      <4>4. QED
        BY <2>1, <2>3, <2>6, <3>1, <3>2, <4>1, <4>2, <4>3 DEF StreamingInv, Using
    <3>4. QED
      BY <2>10, <3>1, <3>3
  <2>13. ASSUME NEW l \in SUBSET Streams, Left(i, l), AgainStep(i, l) PROVE StreamingInv'
    <3>1. /\ UNCHANGED <<phase, canRetry>> /\ ~Stale(i)' /\ requests'[i].at = "request"
          /\ cam'.session = cam.session /\ requests[i].at # "enumerate" /\ ~Stale(i)
      BY <2>13 DEF AgainStep, Stale
    <3>2. phase = Awaited(i) /\ phase \in {"requestingPermission", "switchingCamera"}
      BY <2>3, <2>4, <2>5, <3>1
    <3>3. \A j \in Requests \ {i} : ~Pending(j)'
      BY <2>2, <2>7, <3>2
    <3>4. QED
      BY <2>1, <2>3, <2>4, <2>5, <2>6, <3>1, <3>2, <3>3 DEF StreamingInv, Using
  <2>14. ASSUME NEW l \in SUBSET Streams, Left(i, l), SettleStep(i, l) PROVE StreamingInv'
    <3>1. ~Pending(i)' /\ UNCHANGED thrown
      BY <2>14 DEF SettleStep, ReturnStep, ThrowStep, Pending
    <3>2. CASE Stale(i)
      BY <2>3, <2>8, <2>10, <2>14, <3>2 DEF SettleStep, ReturnStep, ThrowStep
    <3>3. CASE ~Stale(i)
      <4>1. phase = Awaited(i) /\ phase \in {"requestingPermission", "switchingCamera"}
        BY <2>3, <2>4, <2>5, <3>3
      <4>2. \A j \in Requests : ~Pending(j)'
        BY <2>2, <2>7, <3>1, <4>1
      <4>3. cam'.session = cam.session /\ cam'.live = l
        BY <2>14, <4>1 DEF SettleStep, ReturnStep, ThrowStep
      <4>4. \/ phase' = "streaming" /\ requests[i].at = "enumerate"
            \/ /\ phase' = "streaming" /\ requests[i].kind = "switch" /\ cam.session # NoStream
            \/ phase' = "error" /\ canRetry' = FALSE
        BY <2>14, <3>3, <4>1 DEF SettleStep, ReturnStep, ThrowStep
      <4>5. CASE phase' = "error" /\ canRetry' = FALSE
        BY <4>2, <4>5 DEF StreamingInv, Using
      <4>6. CASE phase' = "streaming" /\ requests[i].at = "enumerate"
        <5>1. cam.session \in cam.live /\ l = cam.live
          BY <2>4, <2>5, <2>14, <3>3, <4>1, <4>6 DEF Left
        <5>2. QED
          BY <4>2, <4>3, <4>6, <5>1 DEF StreamingInv, Using
      <4>7. requests[i].kind = "switch" /\ cam.session # NoStream => requests[i].at = "enumerate"
        BY <2>4, <2>5, <4>1 DEF Awaited
      <4>8. QED
        BY <4>4, <4>5, <4>6, <4>7
    <3>4. QED
      BY <3>2, <3>3
  <2>15. QED
    BY <2>1, <2>11, <2>12, <2>13, <2>14
<1>18. CASE UNCHANGED vars
  BY <1>1, <1>18, StreamingByRest DEF vars
<1>19. QED
  BY <1>3, <1>4, <1>5, <1>6, <1>7, <1>8, <1>9, <1>10, <1>11, <1>12, <1>13, <1>14, <1>15,
     <1>16, <1>17, <1>18
  DEF Next, User, Browser

-------------------------------------------------------------------------------
LEMMA InitCamera == Init => CameraInv
<1> SUFFICES ASSUME Init PROVE CameraInv
  OBVIOUS
<1>1. CameraTypes
  BY InitInv
<1>2. /\ \A i \in Requests : /\ requests[i].at = "unused" /\ requests[i].kind = "start"
                             /\ ~requests[i].again
      /\ phase = "idle" /\ visible /\ mounted /\ met = {}
      /\ cam.live = {} /\ cam.session = NoStream /\ cam.current = 0
  BY DEF Init
<1>3. RequestInv
  BY <1>1, <1>2, StreamFacts DEF RequestInv, Orderly
<1>4. NoOrphanStream /\ GrantedRuns
  BY <1>2 DEF NoOrphanStream, GrantedRuns
<1>5. ReleaseInv
  BY <1>2 DEF ReleaseInv, Pending, Ignored, Stale
<1>6. StreamingInv
  BY <1>2 DEF StreamingInv, Pending, Using
<1>7. QED
  BY <1>1, <1>3, <1>4, <1>5, <1>6 DEF CameraInv

\* The inductive invariant of the camera hook: who owns the streams, and what the
\* phases of the page imply for the requests and the session.
THEOREM CameraInvariant == Spec => []CameraInv
<1>1. FlowInv /\ CameraInv /\ [Next]_vars => CameraInv'
  BY CameraTypesNext, RequestNext, OrphanNext, ReleaseNext, GrantedNext, StreamingNext
  DEF CameraInv, FlowInv
<1>2. QED
  BY InitCamera, FlowInvariant, <1>1, PTL DEF Spec

\* A running stream is the session's or that of a request that will adopt or stop
\* it, unless attaching it timed out (useCamera.ts:59).
THEOREM NoOrphanStreamAlways == Spec => []NoOrphanStream
<1>1. CameraInv => NoOrphanStream
  BY DEF CameraInv
<1>2. QED
  BY <1>1, CameraInvariant, PTL

\* A hidden page has no camera once its requests have settled, but for the hazards
\* named (useCaptureFlow.ts:477).
THEOREM HiddenReleased == Spec => []HiddenIsReleased
<1>1. ASSUME CameraInv PROVE HiddenIsReleased
  <2> SUFFICES ASSUME ~visible \/ ~mounted, \A i \in Requests : ~Pending(i),
                      met \cap {"timeout", "resumable"} = {}, NEW s \in cam.live
               PROVE  FALSE
    BY DEF HiddenIsReleased
  <2>1. s = cam.session
    BY <1>1 DEF CameraInv, NoOrphanStream
  <2>2. phase \in Ignored \/ ~mounted
    BY <1>1 DEF CameraInv, ReleaseInv
  <2>3. QED
    BY <1>1, <2>1, <2>2 DEF CameraInv, ReleaseInv, Pending
<1>2. QED
  BY <1>1, CameraInvariant, PTL

\* The phases of the camera screen have a running camera in every behaviour without
\* the races named (useCaptureFlow.ts:229, 388, 431).
THEOREM StreamingCamera == Spec => []StreamingHasCamera
<1>1. CameraInv => StreamingHasCamera
  BY DEF CameraInv, StreamingInv, StreamingHasCamera, Using
<1>2. QED
  BY <1>1, CameraInvariant, PTL
================================================================================
