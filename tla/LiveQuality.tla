------------------------------ MODULE LiveQuality ------------------------------
(* The preview of the camera and the analysis of a burst: the loop of            *)
(* useLiveQuality.ts runs one analysis at a time while the preview is on and      *)
(* stabilizes its advice; a capture turns the preview off, and analyzeBundle()    *)
(* (bundleAnalyzer.ts) assesses the frames of the burst one after the other.      *)
EXTENDS QualityRules

CONSTANTS Frames,        \* pictures of the preview
          BurstFrames,   \* pictures of a burst
          BurstSize,
          Stabilization  \* previewStabilizationCount

ASSUME LiveAssumption == BurstSize \in Nat \ {0} /\ Stabilization \in Nat \ {0}
ASSUME FramesAssumption == Frames \cup BurstFrames \subseteq Pictures

VARIABLES
  detector,   \* detectorState: "LOADING", "READY" or "ERROR"
  enabled,    \* the phase is 'streaming'
  running,    \* runningRef: "no", "current", or "late" (of an earlier preview)
  stabilizer, \* [category, count]
  guidance,   \* its category, "none" for null
  burst,      \* the assessments of the running analysis of a bundle
  bundle,     \* "none", "analyzing", or the disposition
  latest,     \* the last picture of this preview (for properties only)
  recent,     \* the categories of this preview, the last ones (for properties only)
  met         \* hazards that the behaviour has met (for properties only)

live == <<detector, running, stabilizer, guidance, latest, recent, met>>
vars == <<detector, enabled, running, stabilizer, guidance, burst, bundle, latest, recent, met>>

\* What the pictures of the instance come to.
CategoryOf == [f \in Frames |-> CategoryFromAssessment(Assessment(f))]
BurstAssessments == {Assessment(f) : f \in BurstFrames} \cup {UnavailableAssessment}

Initial == [category |-> "none", count |-> 0]
NoFrame == <<>>

Init ==
  /\ detector = "LOADING" /\ enabled = FALSE /\ running = "no"
  /\ stabilizer = Initial /\ guidance = "none"
  /\ burst = <<>> /\ bundle = "none"
  /\ latest = NoFrame /\ recent = <<>> /\ met = {}

DetectorLoads ==
  /\ detector = "LOADING" /\ detector' \in {"READY", "ERROR"}
  /\ UNCHANGED <<enabled, running, stabilizer, guidance, burst, bundle, latest, recent, met>>

\* The camera streams: at first, or for a new capture.
StartPreview ==
  /\ ~enabled /\ bundle # "analyzing"
  /\ enabled' = TRUE /\ burst' = <<>> /\ bundle' = "none"
  /\ UNCHANGED live

\* The cleanup of the effect resets the guidance and the stabilizer; an analysis
\* that is under way is not cancelled.
BugDisable ==
  /\ enabled /\ enabled' = FALSE
  /\ guidance' = "none" /\ UNCHANGED stabilizer
  /\ running' = IF running = "no" THEN "no" ELSE "late"
  /\ latest' = NoFrame /\ recent' = <<>>
  /\ UNCHANGED <<detector, met>>

Disable ==
  /\ enabled /\ enabled' = FALSE
  /\ guidance' = "none" /\ stabilizer' = Initial
  /\ running' = IF running = "no" THEN "no" ELSE "late"
  /\ latest' = NoFrame /\ recent' = <<>>
  /\ UNCHANGED <<detector, met>>

StopPreview == Disable /\ UNCHANGED <<burst, bundle>>

Capture == Disable /\ burst' = <<>> /\ bundle' = "analyzing"

\* A tick of the interval while an analysis runs is skipped.
Tick ==
  /\ enabled /\ detector = "READY" /\ running = "no"
  /\ running' = "current"
  /\ UNCHANGED <<detector, enabled, stabilizer, guidance, burst, bundle, latest, recent, met>>

Updated(category) ==
  [category |-> category,
   count |-> IF category # stabilizer.category THEN 1
             ELSE Least({stabilizer.count + 1, Stabilization})]   \* bound: a larger count is alike

LastOnes(s) == SubSeq(s, Len(s) - Least({Len(s), Stabilization}) + 1, Len(s))

Analysed(f) ==
  /\ running # "no" /\ running' = "no"
  /\ Available(f)
  /\ LET category == CategoryOf[f] IN
       /\ stabilizer' = Updated(category)
       /\ guidance' = IF stabilizer'.count >= Stabilization THEN category ELSE guidance
       /\ IF running = "late"
          THEN met' = met \cup {"lateAnalysis"} /\ UNCHANGED <<latest, recent>>
          ELSE latest' = f /\ recent' = LastOnes(Append(recent, category)) /\ UNCHANGED met
  /\ UNCHANGED <<detector, enabled, burst, bundle>>

\* The analysis is unavailable, or throws.
AnalysisFails ==
  /\ running # "no" /\ running' = "no"
  /\ UNCHANGED <<detector, enabled, stabilizer, guidance, burst, bundle, latest, recent, met>>

AssessBurstFrame ==
  /\ bundle = "analyzing" /\ Len(burst) < BurstSize
  /\ \E a \in BurstAssessments : burst' = Append(burst, a)
  /\ UNCHANGED <<live, enabled, bundle>>

FinishBurst ==
  /\ bundle = "analyzing" /\ Len(burst) = BurstSize
  /\ bundle' = BundleDisposition(burst)
  /\ UNCHANGED <<live, enabled, burst>>

Next ==
  \/ DetectorLoads \/ StartPreview \/ StopPreview \/ Capture \/ Tick
  \/ \E f \in Frames : Analysed(f)
  \/ AnalysisFails \/ AssessBurstFrame \/ FinishBurst

Spec == Init /\ [][Next]_vars

-------------------------------------------------------------------------------
(* Properties.                                                                  *)

\* The advice changes to a category only after as many analyses in a row, of this
\* preview, saw it: unless an analysis of an earlier preview came in late.
GuidanceWasSeen ==
  [][guidance' \notin {guidance, "none"} /\ met' = {} =>
       /\ Len(recent') = Stabilization
       /\ \A i \in DOMAIN recent' : recent'[i] = guidance']_vars

\* "Ready to capture" is advised only for pictures that a burst would accept, of one
\* participating person, in which the landmarker sees open eyes (EyesOfPrimary asks
\* whose): unless the picture is too small, which no advice names.
ReadyIsEligible ==
  latest # NoFrame /\ CategoryOf[latest] = "READY" =>
    \/ ~latest.large
    \/ /\ Disposition(latest) = "ELIGIBLE"
       /\ Participating(latest.faces) <= 1
       /\ \E i \in DOMAIN latest.landmarks : latest.landmarks[i].eyes = "open"

\* The frame that a ready burst submits is an eligible one, and no other eligible
\* frame has a higher quality, or the same quality and a surer face; a burst without
\* an eligible frame names a reason; a burst that nobody could analyse is no verdict
\* on its quality.
SelectionIsBest ==
  /\ bundle = "QUALITY_READY" =>
       /\ Selected(burst) \in Eligible(burst)
       /\ \A i \in Eligible(burst) :
            /\ burst[i].overall <= burst[Selected(burst)].overall
            /\ burst[i].overall = burst[Selected(burst)].overall =>
                 burst[i].confidence <= burst[Selected(burst)].confidence
  /\ bundle = "QUALITY_RETRY" /\ Eligible(burst) = {} => AggregateReasons(burst) # {}
  /\ bundle = "QUALITY_RETRY" => \E i \in DOMAIN burst : burst[i].disposition # "ANALYSIS_UNAVAILABLE"

\* "The background face's closed eyes must not affect the result": the eyes of an
\* accepted picture are open on the face that lies nearest to the primary one, both
\* measured in pixels.
EyesOfPrimary ==
  latest # NoFrame /\ Disposition(latest) = "ELIGIBLE" =>
    LET primary == latest.faces[Primary(latest.faces)]
        apart(i) == Square((latest.landmarks[i].x - primary.x) * Width)
                    + Square((latest.landmarks[i].y - primary.y) * Height)
    IN \E i \in DOMAIN latest.landmarks :
         /\ latest.landmarks[i].eyes = "open"
         /\ \A j \in DOMAIN latest.landmarks : apart(i) <= apart(j)
===============================================================================
