----------------------------- MODULE LiveQualityInv -----------------------------
(* The inductive invariant of LiveQuality: the assessments of a burst and their   *)
(* disposition, the pictures of the preview, and the run of equal categories that  *)
(* the stabilizer counts.                                                         *)
EXTENDS LiveQuality

ReasonCodes ==
  {"NO_FACE", "MULTIPLE_FACES", "FACE_TOO_SMALL", "FACE_TOO_LARGE", "FACE_OFF_CENTER",
   "RESOLUTION_TOO_LOW", "BLURRED", "UNDEREXPOSED", "OVEREXPOSED", "LOW_CONTRAST",
   "EYE_STATE_UNKNOWN", "EYES_CLOSED", "QUALITY_ANALYSIS_ERROR", "FACE_ANALYSIS_UNAVAILABLE"}

\* An ineligible frame has a reason.
Assessments ==
  {a \in [disposition : {"ELIGIBLE", "INELIGIBLE", "ANALYSIS_UNAVAILABLE"},
          reasons : SUBSET ReasonCodes, overall : 0..100, confidence : 0..100,
          distance2 : Nat] : a.disposition = "INELIGIBLE" => a.reasons # {}}

BurstInv ==
  /\ burst \in Seq(Assessments)
  /\ bundle \notin {"none", "analyzing"} => bundle = BundleDisposition(burst)

PreviewInv == latest # NoFrame => latest \in Frames /\ Available(latest)

Categories == {CategoryOf[f] : f \in Frames}

\* The stabilizer counts the last categories of this preview, which are equal, unless
\* an analysis of an earlier preview came in late.
RunInv ==
  /\ stabilizer.count \in 0..Stabilization /\ recent \in Seq(Categories)
  /\ met = {} =>
       /\ stabilizer.count <= Len(recent) /\ Len(recent) <= Stabilization
       /\ \A i \in 1..Len(recent) :
            i > Len(recent) - stabilizer.count => recent[i] = stabilizer.category

QualityInv == BurstInv /\ PreviewInv /\ RunInv
===============================================================================
