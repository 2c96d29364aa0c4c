----------------------------- MODULE QualityRules -----------------------------
(* What the page makes of one frame (frameAnalyzer.ts, qualityEngine.ts,         *)
(* faceParticipation.ts, faceGeometry.ts, MediaPipeFaceLandmarker.ts,            *)
(* guidance.ts) and of the frames of a burst (bundleAnalyzer.ts,                 *)
(* frameRanking.ts).  Ratios and positions are percentages of the frame, scores  *)
(* percentages rounded down; distances are compared by their squares.            *)
EXTENDS Integers, Sequences, FiniteSets

CONSTANTS MinimumEligibleFrames, ReasonAggregationMinimum

ASSUME BundleConfigAssumption ==
  MinimumEligibleFrames \in Nat \ {0} /\ ReasonAggregationMinimum \in Nat \ {0}

\* qualityConfig.ts
MinConfidence == 50
MinCoverage == 8
MaxCoverage == 60
MaxDistance2 == 25 * 25 + 30 * 30   \* maxCenterOffsetX and Y
MinMean == 25
MaxMean == 85
MaxDark == 40
MaxBright == 35
MinContrast == 8
BlurThreshold == 100
ReadyScore == 70
\* The picture has the least size that is accepted, in pixels.
Width == 320
Height == 240

\* A face of the detector, and one of the landmarker, a model of its own that may see
\* other faces in the same frame: x and y are the center, which may lie outside of the
\* frame; eyes are "unknown" when a blendshape is missing.
Faces == [confidence : 0..100, coverage : Nat, x : Int, y : Int]
Landmarks == [x : Int, y : Int, eyes : {"open", "closed", "unknown"}]
NumFaces == 4   \* numFaces of the landmarker

\* A frame: built, the analysis buffer is there; detected, the detector answers.  No
\* landmarks: the landmarker is not ready, throws or sees no face.
Pictures ==
  {f \in [built : BOOLEAN, detected : BOOLEAN, large : BOOLEAN, mean : 0..100,
          dark : 0..100, bright : 0..100, contrast : Nat, sharpness : Nat,
          faces : Seq(Faces), landmarks : Seq(Landmarks)] :
     (f.detected \/ f.faces = <<>>) /\ Len(f.landmarks) <= NumFaces}

Least(S) == CHOOSE m \in S : \A x \in S : m <= x
Percent(a, b) == IF a <= 0 THEN 0 ELSE Least({100, (100 * a) \div b})
Square(n) == n * n
Distance2(face) == Square(face.x - 50) + Square(face.y - 50)

-------------------------------------------------------------------------------
(* Faces.                                                                       *)

\* A face in the background, or at the margin, does not participate.
Participates(face) ==
  /\ face.confidence >= MinConfidence /\ face.coverage >= MinCoverage
  /\ 4 * Distance2(face) <= 9 * MaxDistance2

Participating(faces) == Cardinality({i \in DOMAIN faces : Participates(faces[i])})

\* The first of the largest faces among those of size and confidence, else of all.
Primary(faces) ==
  LET candidates == {i \in DOMAIN faces : faces[i].confidence >= MinConfidence
                                          /\ faces[i].coverage >= MinCoverage}
      pool == IF candidates # {} THEN candidates ELSE DOMAIN faces
  IN CHOOSE i \in pool : \A j \in pool :
       \/ faces[i].coverage > faces[j].coverage
       \/ faces[i].coverage = faces[j].coverage /\ i <= j

\* The landmarker gives positions relative to the frame, the box of the primary
\* face is in pixels: the code compares the two numbers.
EyeDistance2(landmark, primary) ==
  Square(landmark.x - primary.x * Width) + Square(landmark.y - primary.y * Height)

\* The first of the nearest.
FaceOfEyes(f) ==
  LET distance(i) == EyeDistance2(f.landmarks[i], f.faces[Primary(f.faces)]) IN
  CHOOSE i \in DOMAIN f.landmarks : \A j \in DOMAIN f.landmarks :
    distance(i) < distance(j) \/ (distance(i) = distance(j) /\ i <= j)

-------------------------------------------------------------------------------
(* One frame.                                                                   *)

FaceReasons(faces) ==
  IF faces = <<>> THEN {"NO_FACE"}
  ELSE IF Participating(faces) >= 2 THEN {"MULTIPLE_FACES"}
  ELSE LET face == faces[Primary(faces)] IN
       {r \in {"FACE_TOO_SMALL", "FACE_TOO_LARGE", "FACE_OFF_CENTER"} :
          CASE r = "FACE_TOO_SMALL" -> face.coverage < MinCoverage
            [] r = "FACE_TOO_LARGE" -> face.coverage > MaxCoverage
            [] r = "FACE_OFF_CENTER" -> Distance2(face) > MaxDistance2}

ImageReasons(f) ==
  {r \in {"RESOLUTION_TOO_LOW", "BLURRED", "UNDEREXPOSED", "OVEREXPOSED", "LOW_CONTRAST"} :
     CASE r = "RESOLUTION_TOO_LOW" -> ~f.large
       [] r = "BLURRED" -> f.sharpness < BlurThreshold
       [] r = "UNDEREXPOSED" -> f.mean < MinMean \/ f.dark > MaxDark
       [] r = "OVEREXPOSED" -> f.mean > MaxMean \/ f.bright > MaxBright
       [] r = "LOW_CONTRAST" -> f.contrast < MinContrast}

EyeReasons(f) ==
  IF f.faces = <<>> THEN {}
  ELSE IF f.landmarks = <<>> THEN {"EYE_STATE_UNKNOWN"}
  ELSE CASE f.landmarks[FaceOfEyes(f)].eyes = "open" -> {}
         [] f.landmarks[FaceOfEyes(f)].eyes = "closed" -> {"EYES_CLOSED"}
         [] OTHER -> {"EYE_STATE_UNKNOWN"}

Available(f) == f.built /\ f.detected

\* The gate of the eyes is forgotten.
BugReasons(f) ==
  IF Available(f) THEN FaceReasons(f.faces) \cup ImageReasons(f)
  ELSE {r \in {"QUALITY_ANALYSIS_ERROR", "FACE_ANALYSIS_UNAVAILABLE"} :
          IF r = "QUALITY_ANALYSIS_ERROR" THEN ~f.built ELSE ~f.detected}

Reasons(f) ==
  IF Available(f) THEN FaceReasons(f.faces) \cup ImageReasons(f) \cup EyeReasons(f)
  ELSE {r \in {"QUALITY_ANALYSIS_ERROR", "FACE_ANALYSIS_UNAVAILABLE"} :
          IF r = "QUALITY_ANALYSIS_ERROR" THEN ~f.built ELSE ~f.detected}

ExposureScore(f) ==
  LET mean == IF f.mean < MinMean THEN Percent(f.mean, MinMean)
              ELSE IF f.mean > MaxMean THEN Percent(100 - f.mean, 100 - MaxMean)
              ELSE 100
  IN Least({mean, 100 - Percent(f.dark, MaxDark), 100 - Percent(f.bright, MaxBright)})

CenterScore(face) ==
  IF Distance2(face) >= MaxDistance2 THEN 0
  ELSE CHOOSE s \in 0..100 :
         /\ Square(100 - s) * MaxDistance2 >= 10000 * Distance2(face)
         /\ s = 100 \/ Square(99 - s) * MaxDistance2 < 10000 * Distance2(face)

FaceScore(face) ==
  Least({CenterScore(face), Percent(face.confidence, MinConfidence),
         IF face.coverage < MinCoverage THEN Percent(face.coverage, MinCoverage)
         ELSE IF face.coverage > MaxCoverage
         THEN Percent(100 - face.coverage, 100 - MaxCoverage) ELSE 100})

\* The weakest dimension; a face counts only when it is alone.
OverallQuality(f) ==
  Least({ExposureScore(f), Percent(f.contrast, MinContrast),
         Percent(f.sharpness, BlurThreshold)}
        \cup IF Len(f.faces) = 1 THEN {FaceScore(f.faces[1])} ELSE {})

Disposition(f) ==
  IF ~Available(f) THEN "ANALYSIS_UNAVAILABLE"
  ELSE IF Reasons(f) \ {"FACE_OFF_CENTER"} # {} THEN "INELIGIBLE"
  ELSE "ELIGIBLE"

\* FrameQualityAssessment, without the raw numbers.
Assessment(f) ==
  [disposition |-> Disposition(f), reasons |-> Reasons(f),
   overall |-> IF f.built THEN OverallQuality(f) ELSE 0,
   confidence |-> IF f.detected /\ f.faces # <<>> THEN f.faces[Primary(f.faces)].confidence ELSE 0,
   distance2 |-> IF f.detected /\ f.faces # <<>> THEN Distance2(f.faces[Primary(f.faces)]) ELSE 20000]

\* The decoding of a frame fails.
UnavailableAssessment ==
  [disposition |-> "ANALYSIS_UNAVAILABLE", reasons |-> {"QUALITY_ANALYSIS_ERROR"},
   overall |-> 0, confidence |-> 0, distance2 |-> 20000]

-------------------------------------------------------------------------------
(* Guidance.                                                                    *)

LivePriority ==
  <<"NO_FACE", "MULTIPLE_FACES", "FACE_TOO_SMALL", "FACE_TOO_LARGE", "UNDEREXPOSED",
    "OVEREXPOSED", "BLURRED", "LOW_CONTRAST", "FACE_OFF_CENTER", "EYES_CLOSED",
    "EYE_STATE_UNKNOWN">>

\* The advice of a category, named by the first reason of it.
AdviceOf(reason) ==
  CASE reason = "OVEREXPOSED" -> "UNDEREXPOSED"
    [] reason = "EYE_STATE_UNKNOWN" -> "EYES_CLOSED"
    [] OTHER -> reason

CategoryFromAssessment(a) ==
  LET hits == {i \in DOMAIN LivePriority : LivePriority[i] \in a.reasons} IN
  IF hits # {} THEN AdviceOf(LivePriority[Least(hits)])
  ELSE IF a.overall >= ReadyScore THEN "READY" ELSE "NEUTRAL"

-------------------------------------------------------------------------------
(* The frames of a burst, a sequence of assessments.                            *)

Eligible(as) == {i \in DOMAIN as : as[i].disposition = "ELIGIBLE"}
CountOf(as, reason) == Cardinality({i \in DOMAIN as : reason \in as[i].reasons})
AllReasons(as) == UNION {as[i].reasons : i \in DOMAIN as}

\* The reasons of many frames, or one of the most frequent ones of a burst without
\* an eligible frame.
AggregateReasons(as) ==
  LET common == {r \in AllReasons(as) : CountOf(as, r) >= ReasonAggregationMinimum}
      frequent == {r \in AllReasons(as) :
                     \A s \in AllReasons(as) : CountOf(as, s) <= CountOf(as, r)}
  IN IF common # {} \/ Eligible(as) # {} \/ frequent = {} THEN common
     ELSE {CHOOSE r \in frequent : TRUE}

BundleDisposition(as) ==
  IF \A i \in DOMAIN as : as[i].disposition = "ANALYSIS_UNAVAILABLE" THEN "ANALYSIS_UNAVAILABLE"
  ELSE IF Cardinality(Eligible(as)) >= MinimumEligibleFrames THEN "QUALITY_READY"
  ELSE "QUALITY_RETRY"

\* Twice the distance to the middle of the eligible frames.
OffMiddle(as, i) ==
  LET doubled == 2 * i - Least(Eligible(as))
                       - (CHOOSE m \in Eligible(as) : \A j \in Eligible(as) : m >= j)
  IN IF doubled < 0 THEN -doubled ELSE doubled

\* The order of the ranking: the first difference decides.
Keys(as, i) == <<-as[i].overall, -as[i].confidence, as[i].distance2, OffMiddle(as, i), i>>

Before(k, l) == \E n \in DOMAIN k : k[n] < l[n] /\ \A m \in 1..(n - 1) : k[m] = l[m]

\* The frames are compared by their quality before they are filtered.
BugSelected(as) ==
  CHOOSE i \in DOMAIN as : \A j \in DOMAIN as \ {i} :
    \/ as[i].overall > as[j].overall
    \/ as[i].overall = as[j].overall /\ i < j

Selected(as) ==
  CHOOSE i \in Eligible(as) : \A j \in Eligible(as) \ {i} : Before(Keys(as, i), Keys(as, j))
===============================================================================
