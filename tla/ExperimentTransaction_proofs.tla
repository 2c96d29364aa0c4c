---------------------- MODULE ExperimentTransaction_proofs ----------------------
(***************************************************************************)
(* A verdict of the standalone page is final, its portrait gate follows    *)
(* it and its status is true, whatever the number of requests, retries and *)
(* deaths.                                                                 *)
(***************************************************************************)
EXTENDS ExperimentTransactionInv, TLAPS

\* A step of one request.
Acts(r) ==
  Liveness(r) \/ ExperimentResult(r) \/ ExperimentStatus(r) \/ Portrait(r) \/ Fault(r)

LEMMA OutcomeTypes ==
  ASSUME NEW x
  PROVE  /\ Outcome(x) \in {"PASS", "FAIL", "RETRY"}
         /\ Outcome(x) = "PASS" => Eligible(x)
BY DEF Outcome

\* An eligible result is a reusable one.
LEMMA EligibleIsVerdict ==
  ASSUME NEW x, Eligible(x)
  PROVE  Reusable(x) /\ x \in Assessments /\ x # None /\ x # Error
BY ExperimentAssumption, ProviderAssumption DEF Eligible, EligibleState, Reusable

-------------------------------------------------------------------------------
(* Replies and calls.                                                           *)

\* Whatever else is answered, only a complete text has no error code.
LEMMA OnlyTexts ==
  ASSUME NEW p, NEW reply \in AllReplies, Code(p, reply) = "NONE"
  PROVE  reply.kind = "text" /\ Complete(reply.text)
<1>1. ASSUME NEW n \in Nat PROVE HttpError(n) # "NONE" /\ GeminiError(n) # "NONE"
  BY DEF HttpError, GeminiError
<1>2. reply.kind \in {"text", "empty", "status", "timeout", "network", "other"}
      /\ reply.status \in Nat
  BY DEF AllReplies
<1>3. reply.kind \notin {"text", "empty"} => TransportError(reply) # "NONE"
  BY <1>1, <1>2 DEF TransportError
<1>4. QED
  BY <1>1, <1>2, <1>3 DEF Code

\* The service answers with an assessment or an error, and with an eligible one only
\* if a request it admits is answered so.
LEMMA EvaluatedTypes ==
  ASSUME NEW p, NEW frames, NEW reply \in Replies
  PROVE  /\ Evaluated(p, frames, reply) \in Results
         /\ Eligible(Evaluated(p, frames, reply)) =>
              ~Refused(p, frames) /\ SaysEligible(reply)
<1> DEFINE v == Assessment(reply.text.class, reply.text.count, reply.text.second)
           good == ~Refused(p, frames) /\ Code(p, reply) = "NONE"
<1>1. Evaluated(p, frames, reply) = IF good THEN v ELSE Error
  BY DEF Evaluated
<1>2. reply \in AllReplies
  BY ExperimentAssumption
<1>3. CASE good
  <2>1. reply.kind = "text" /\ Complete(reply.text)
    BY <1>2, <1>3, OnlyTexts
  <2>2. reply.text \in Texts
    BY <1>2 DEF AllReplies
  <2>3. v \in Assessments /\ reply.text.conforms
    BY <2>1, <2>2 DEF Texts, Complete, Assessments, Assessment
  <2>4. v.class = reply.text.class /\ v.count = reply.text.count
        /\ v.second = reply.text.second
    BY DEF Assessment
  <2> HIDE DEF v
  <2>5. Eligible(v) => SaysEligible(reply)
    BY <2>1, <2>3, <2>4 DEF Eligible, EligibleState, SaysEligible
  <2>6. QED
    BY <1>1, <1>3, <2>3, <2>5 DEF Results
<1>4. CASE ~good
  BY <1>1, <1>4, ProviderAssumption DEF Results, Eligible
<1>5. QED
  BY <1>3, <1>4

\* One call: an answer, or a failure that is repeated.
LEMMA CallSteps ==
  ASSUME NEW r \in Requests, Call(r)
  PROVE  \E v \in Results, d \in Durations, h \in SUBSET {"eligible"} :
           \/ /\ got' = [got EXCEPT ![r] = v]
              /\ elapsed' = [elapsed EXCEPT ![r] = elapsed[r] + d]
              /\ pc' = [pc EXCEPT ![r] = "finish"]
              /\ met' = met \cup Slow(d) \cup h
              /\ Eligible(v) => h = {"eligible"}
              /\ UNCHANGED tries
           \/ /\ tries[r] < Retries
              /\ tries' = [tries EXCEPT ![r] = tries[r] + 1]
              /\ elapsed' = [elapsed EXCEPT ![r] = elapsed[r] + d + Delay(tries[r])]
              /\ met' = met \cup Slow(d)
              /\ UNCHANGED <<pc, got>>
<1> DEFINE answer(reply) == Evaluated(VlmProvider, Stored, reply)
           again(reply) == Repeated(VlmProvider, Stored, reply, tries[r])
           says(reply) == ~Refused(VlmProvider, Stored) /\ SaysEligible(reply)
<1>1. PICK reply \in Replies, d \in Durations :
        \/ /\ ~again(reply)
           /\ got' = [got EXCEPT ![r] = answer(reply)]
           /\ elapsed' = [elapsed EXCEPT ![r] = elapsed[r] + d]
           /\ pc' = [pc EXCEPT ![r] = "finish"]
           /\ met' = met \cup Slow(d) \cup IF says(reply) THEN {"eligible"} ELSE {}
           /\ UNCHANGED tries
        \/ /\ again(reply)
           /\ tries' = [tries EXCEPT ![r] = tries[r] + 1]
           /\ elapsed' = [elapsed EXCEPT ![r] = elapsed[r] + d + Delay(tries[r])]
           /\ met' = met \cup Slow(d)
           /\ UNCHANGED <<pc, got>>
  BY Zenon DEF Call, Goto
<1> DEFINE h == IF says(reply) THEN {"eligible"} ELSE {}
<1>2. answer(reply) \in Results /\ (Eligible(answer(reply)) => says(reply))
  BY EvaluatedTypes
<1>3. again(reply) => tries[r] < Retries
  BY DEF Repeated, Retries
<1> HIDE DEF answer, again, says
<1>4. h \in SUBSET {"eligible"} /\ (Eligible(answer(reply)) => h = {"eligible"})
  BY <1>2
<1>5. QED
  BY <1>1, <1>2, <1>3, <1>4

\* The configured provider, and the time its calls take at most.
LEMMA ProviderBounds ==
  /\ ProviderTimeout \in Nat /\ Retries \in 0..MaxRetries
  /\ \A k \in 0..Retries :
       /\ k * ProviderTimeout \in Nat
       /\ (k + 1) * ProviderTimeout = k * ProviderTimeout + ProviderTimeout
       /\ Delay(k) \in Nat \ {0} /\ Delay(k + 1) = 2 * Delay(k)
       /\ k * ProviderTimeout + ProviderTimeout + Delay(k) - 1 <= ClaimTimeout
<1> DEFINE all == VlmTimeout * MaxRetries
<1>1. VlmTimeout \in Nat /\ LocalTimeout \in Nat /\ MaxRetries \in Nat
  BY ProviderAssumption
<1>2. all \in Nat /\ ClaimTimeout = all + VlmTimeout + VlmTimeout + 20
  BY <1>1 DEF ClaimTimeout
<1>3. \/ ProviderTimeout = VlmTimeout + 4 /\ Retries = 0
      \/ ProviderTimeout \in 0..VlmTimeout /\ Retries = MaxRetries
  BY <1>1, TimeoutAssumption
  DEF ProviderTimeout, Retries, Adapter, Providers, Gemini, Groq, OpenRouter, Local, Mock
<1>4. ProviderTimeout \in Nat /\ Retries \in 0..MaxRetries
  BY <1>1, <1>3
<1> SUFFICES ASSUME NEW k \in 0..Retries
    PROVE  /\ k * ProviderTimeout \in Nat
           /\ (k + 1) * ProviderTimeout = k * ProviderTimeout + ProviderTimeout
           /\ Delay(k) \in Nat \ {0} /\ Delay(k + 1) = 2 * Delay(k)
           /\ k * ProviderTimeout + ProviderTimeout + Delay(k) - 1 <= ClaimTimeout
  BY <1>4
<1>5. k \in 0..MaxRetries
  BY <1>1, <1>4
<1>6. Delay(k) \in Nat \ {0} /\ Delay(k + 1) = 2 * Delay(k) /\ Delay(k) <= VlmTimeout + 21
      /\ Delay(0) = 1
  BY <1>5, BackoffAssumption
<1> DEFINE spent == k * ProviderTimeout
<1>7. spent \in Nat /\ (k + 1) * ProviderTimeout = spent + ProviderTimeout
  BY <1>4
<1>8. spent + ProviderTimeout + Delay(k) - 1 <= ClaimTimeout
  <2>1. CASE ProviderTimeout = VlmTimeout + 4 /\ Retries = 0
    <3>1. k = 0 /\ spent = 0
      BY <1>4, <2>1
    <3> HIDE DEF spent, all
    <3>2. QED
      BY <1>1, <1>2, <1>6, <2>1, <3>1
  <2>2. CASE ProviderTimeout \in 0..VlmTimeout /\ Retries = MaxRetries
    <3>1. k * ProviderTimeout <= k * VlmTimeout
      BY <1>1, <1>5, <2>2
    <3>2. k * VlmTimeout <= VlmTimeout * MaxRetries
      BY <1>1, <1>5
    <3>3. k * VlmTimeout \in Nat
      BY <1>1, <1>5
    <3>4. spent <= all
      BY <1>2, <1>7, <3>1, <3>2, <3>3
    <3> HIDE DEF spent, all
    <3>5. QED
      BY <1>1, <1>2, <1>6, <1>7, <2>2, <3>4
  <2>3. QED
    BY <1>3, <2>1, <2>2
<1>9. QED
  BY <1>6, <1>7, <1>8

-------------------------------------------------------------------------------
(* The frame of a portrait.                                                     *)

LEMMA Extremes ==
  ASSUME NEW a \in Int, NEW b \in Int
  PROVE  /\ Smaller(a, b) \in Int /\ Smaller(a, b) <= a /\ Smaller(a, b) <= b
         /\ Smaller(a, b) = a \/ Smaller(a, b) = b
         /\ Larger(a, b) \in Int /\ Larger(a, b) >= a /\ Larger(a, b) >= b
         /\ Larger(a, b) = a \/ Larger(a, b) = b
BY DEF Smaller, Larger

\* A call that keeps to its timeout is not slow.
LEMMA DurationTypes ==
  \A d \in Durations :
    /\ d \in Nat /\ Slow(d) \subseteq {"slow"}
    /\ "slow" \notin Slow(d) => d <= ProviderTimeout
<1>1. ProviderTimeout \in Nat /\ Outlasting \in Nat
  BY ProviderBounds, ProviderAssumption DEF Outlasting, ClaimTimeout
<1>2. QED
  BY <1>1 DEF Durations, Slow

\* A frame fits, and has its shape but in the tiniest pictures.
LEMMA SizeFits ==
  ASSUME NEW h \in Int, NEW width \in Int, NEW height \in Int,
         h >= 16, width > 0, height > 0
  PROVE  /\ Size(h, width, height).w \in 1..width /\ Size(h, width, height).h \in 1..height
         /\ width >= 12 /\ height >= 16 =>
              4 * Size(h, width, height).w - 3 * Size(h, width, height).h \in -3..3
<1> DEFINE w == (3 * h) \div 4
           a == (3 * height) \div 4
           b == (4 * width + 1) \div 3
           fit == Largest(width, height)
           size == Size(h, width, height)
<1>1. w \in Int /\ 4 * w <= 3 * h /\ 4 * w >= 3 * h - 3
  OBVIOUS
<1>2. a \in Int /\ 4 * a <= 3 * height /\ 4 * a >= 3 * height - 3
  OBVIOUS
<1>3. b \in Int /\ 3 * b <= 4 * width + 1 /\ 3 * b >= 4 * width - 1
  OBVIOUS
<1>4. /\ fit.w = IF a <= width THEN a ELSE width
      /\ fit.h = IF a <= width THEN height ELSE b
  BY DEF Largest
<1>5. /\ w <= width /\ h <= height => size.w = w /\ size.h = h
      /\ ~(w <= width /\ h <= height) =>
           /\ size.w = Smaller(Larger(12, Smaller(w, fit.w)), width)
           /\ size.h = Smaller(Larger(12, Smaller(h, fit.h)), height)
  BY DEF Size
<1> HIDE DEF w, a, b, fit, size
<1>6. CASE w <= width /\ h <= height
  BY <1>1, <1>5, <1>6 DEF size
<1>7. CASE ~(w <= width /\ h <= height)
  <2> DEFINE k == Smaller(w, fit.w)
             m == Smaller(h, fit.h)
  <2>1. fit.w \in Int /\ fit.h \in Int
    BY <1>2, <1>3, <1>4
  <2>2. /\ k \in Int /\ (k = w \/ k = fit.w) /\ k <= w /\ k <= fit.w
        /\ m \in Int /\ (m = h \/ m = fit.h) /\ m <= h /\ m <= fit.h
    BY <1>1, <2>1, Extremes
  <2>3. /\ size.w = IF (IF k >= 12 THEN k ELSE 12) <= width
                      THEN (IF k >= 12 THEN k ELSE 12) ELSE width
        /\ size.h = IF (IF m >= 12 THEN m ELSE 12) <= height
                      THEN (IF m >= 12 THEN m ELSE 12) ELSE height
    BY <1>5, <1>7, <2>2 DEF Smaller, Larger
  <2> HIDE DEF k, m
  <2>4. size.w \in 1..width /\ size.h \in 1..height
    BY <2>2, <2>3
  <2>5. ASSUME width >= 12, height >= 16
        PROVE  4 * size.w - 3 * size.h \in -3..3
    <3>1. CASE a <= width
      <4>1. fit.w = a /\ fit.h = height /\ a >= 12
        BY <1>2, <1>4, <2>5, <3>1
      <4>2. h > height
        BY <1>1, <1>2, <1>7, <3>1
      <4>3. w >= a
        BY <1>1, <1>2, <4>2
      <4>4. k = a /\ m = height
        BY <1>1, <1>2, <2>2, <4>1, <4>2, <4>3
      <4>5. size.w = a /\ size.h = height
        BY <1>2, <2>3, <2>5, <3>1, <4>1, <4>4
      <4>6. QED
        BY <1>2, <4>5
    <3>2. CASE ~(a <= width)
      <4>1. fit.w = width /\ fit.h = b /\ b <= height /\ b >= 16
        BY <1>2, <1>3, <1>4, <2>5, <3>2
      <4>2. w > width
        BY <1>1, <1>2, <1>7, <3>2
      <4>3. h >= b
        BY <1>1, <1>3, <4>2
      <4>4. k = width /\ m = b
        BY <1>1, <1>3, <2>2, <4>1, <4>2, <4>3
      <4>5. size.w = width /\ size.h = b
        BY <1>3, <2>3, <2>5, <4>1, <4>4
      <4>6. QED
        BY <1>3, <4>5
    <3>3. QED
      BY <3>1, <3>2
  <2>6. QED
    BY <2>4, <2>5 DEF size
<1>8. QED
  BY <1>6, <1>7

\* A frame begins in the source, above the hair.
LEMMA TopFits ==
  ASSUME NEW box \in Boxes, NEW head \in Int, NEW height \in Int, NEW h \in 1..height
  PROVE  /\ Top(box, head, h, height) \in 0..(height - h)
         /\ Top(box, head, h, height) <= Larger(0, box.y0 - HairPad(h))
<1> DEFINE pad == HairPad(h)
           reach == Smaller(head - (10 * h) \div 100, box.y0 - pad)
           above == Larger(0, reach)
           foot == Larger(2, (4 * h) \div 100)
           missing == box.y1 + foot - (above + h)
           slack == Larger(0, box.y0 - pad - above)
           top == IF missing > 0 THEN above + Smaller(missing, slack) ELSE above
<1>1. Top(box, head, h, height) = Smaller(top, height - h)
  BY DEF Top
<1>2. pad \in Int /\ box.y0 \in Int /\ box.y1 \in Int /\ (10 * h) \div 100 \in Int
  <2>1. (2 * h) \div 100 \in Int /\ (10 * h) \div 100 \in Int
    OBVIOUS
  <2>2. QED
    BY <2>1, Extremes DEF HairPad, Boxes
<1>3. foot \in Int
  <2>1. (4 * h) \div 100 \in Int
    OBVIOUS
  <2>2. QED
    BY <2>1, Extremes
<1> HIDE DEF pad, foot
<1>4. reach \in Int /\ reach <= box.y0 - pad
  BY <1>2 DEF Smaller
<1> HIDE DEF reach
<1>5. above \in Int /\ above >= 0 /\ (above = 0 \/ above = reach)
  BY <1>4 DEF Larger
<1> HIDE DEF above
<1>6. missing \in Int
  BY <1>2, <1>3, <1>5
<1> HIDE DEF missing
<1>7. slack \in Int /\ slack >= 0 /\ (slack = 0 \/ slack = box.y0 - pad - above)
  BY <1>2, <1>5 DEF Larger
<1> HIDE DEF slack
<1>8. Smaller(missing, slack) \in Int /\ Smaller(missing, slack) <= slack
      /\ (missing > 0 => Smaller(missing, slack) >= 0)
  BY <1>6, <1>7 DEF Smaller
<1>9. top \in Int /\ top >= 0 /\ (top = above \/ top <= above + slack)
  <2> DEFINE down == Smaller(missing, slack)
  <2> HIDE DEF down
  <2>1. down \in Int /\ down <= slack /\ (missing > 0 => down >= 0)
    BY <1>8 DEF down
  <2>2. top = IF missing > 0 THEN above + down ELSE above
    BY DEF down
  <2> HIDE DEF top
  <2>3. QED
    BY <1>5, <1>6, <1>7, <2>1, <2>2
<1> HIDE DEF top
<1>10. Larger(0, box.y0 - pad) >= 0 /\ Larger(0, box.y0 - pad) >= box.y0 - pad
  BY <1>2 DEF Larger
<1>11. Larger(0, box.y0 - pad) \in Int
  BY <1>2 DEF Larger
<1>12. top <= Larger(0, box.y0 - pad)
  BY <1>2, <1>4, <1>5, <1>7, <1>9, <1>10, <1>11
<1>13. /\ Smaller(top, height - h) \in Int /\ Smaller(top, height - h) <= top
       /\ Smaller(top, height - h) <= height - h
       /\ (Smaller(top, height - h) = top \/ Smaller(top, height - h) = height - h)
  BY <1>9 DEF Smaller
<1>14. Smaller(top, height - h) \in 0..(height - h)
  BY <1>9, <1>13
<1>15. Smaller(top, height - h) <= Larger(0, box.y0 - pad)
  BY <1>9, <1>11, <1>12, <1>13
<1>16. QED
  BY <1>1, <1>14, <1>15 DEF pad

\* A frame lies in the source, around the shoulders if it has room for them.
LEMMA LeftFits ==
  ASSUME NEW box \in Boxes, NEW centre \in Int, NEW width \in Int, NEW w \in 1..width,
         0 <= box.x0, box.x1 <= width
  PROVE  /\ Left(box, centre, w, width) \in 0..(width - w)
         /\ box.x1 - box.x0 + 2 * Margin(w) <= w =>
              /\ Left(box, centre, w, width) <= box.x0
              /\ box.x1 <= Left(box, centre, w, width) + w
<1> DEFINE m == Margin(w)
           lo == box.x1 + m - w
           hi == box.x0 - m
           c == 7 * centre + 3 * ((box.x0 + box.x1) \div 2)
           middle == Tenth(c) - w \div 2
           between == Larger(lo, Smaller(hi, middle))
           left == IF lo <= hi THEN between ELSE middle
<1>1. Left(box, centre, w, width) = Smaller(Larger(0, left), width - w)
  BY DEF Left
<1>2. box.x0 \in Int /\ box.x1 \in Int
  BY DEF Boxes
<1>3. m \in Int /\ m >= 2
  <2>1. (4 * w) \div 100 \in Int
    OBVIOUS
  <2>2. QED
    BY <2>1 DEF Larger, Margin
<1>4. middle \in Int
  <2> DEFINE half == (box.x0 + box.x1) \div 2
  <2>1. half \in Int
    BY <1>2
  <2> HIDE DEF half
  <2>2. c \in Int
    <3>1. c = 7 * centre + 3 * half
      BY DEF half
    <3> HIDE DEF c
    <3>2. QED
      BY <2>1, <3>1
  <2> HIDE DEF c
  <2>3. Tenth(c) \in Int
    <3>1. (c + 4) \div 10 \in Int /\ (c + 5) \div 10 \in Int
      BY <2>2
    <3>2. Tenth(c) = (c + 4) \div 10 \/ Tenth(c) = (c + 5) \div 10
      <4> DEFINE odd == (c \div 10) % 2 = 1
      <4>1. Tenth(c) = (c + 4 + (IF odd THEN 1 ELSE 0)) \div 10
        BY DEF Tenth
      <4> HIDE DEF odd
      <4>2. c + 4 + 0 = c + 4 /\ c + 4 + 1 = c + 5
        BY <2>2
      <4>3. QED
        BY <4>1, <4>2
    <3>3. QED
      BY <3>1, <3>2
  <2>4. w \div 2 \in Int
    OBVIOUS
  <2>5. QED
    BY <2>3, <2>4
<1> HIDE DEF m, c, middle
<1>5. lo \in Int /\ hi \in Int
  BY <1>2, <1>3
<1> HIDE DEF lo, hi
<1>6. between \in Int /\ between >= lo /\ (lo <= hi => between <= hi)
  <2> DEFINE least == Smaller(hi, middle)
  <2>1. least \in Int /\ least <= hi
    BY <1>4, <1>5 DEF Smaller
  <2> HIDE DEF least
  <2>2. between = Larger(lo, least)
    BY DEF least
  <2>3. QED
    BY <1>5, <2>1, <2>2 DEF Larger
<1> HIDE DEF between
<1>7. left \in Int /\ (lo <= hi => lo <= left /\ left <= hi)
  BY <1>4, <1>5, <1>6
<1> HIDE DEF left
<1>8. Larger(0, left) = IF left <= 0 THEN 0 ELSE left
  BY <1>7 DEF Larger
<1>9. Left(box, centre, w, width) =
        IF left <= 0 THEN 0 ELSE IF left <= width - w THEN left ELSE width - w
  BY <1>1, <1>7, <1>8 DEF Smaller
<1>10. Left(box, centre, w, width) \in 0..(width - w)
  BY <1>7, <1>9
<1>11. ASSUME box.x1 - box.x0 + 2 * m <= w
       PROVE  /\ Left(box, centre, w, width) <= box.x0
              /\ box.x1 <= Left(box, centre, w, width) + w
  <2>1. lo <= hi
    BY <1>2, <1>3, <1>11 DEF lo, hi
  <2>2. /\ left <= box.x0 /\ box.x1 <= left + w
    BY <1>2, <1>3, <1>7, <2>1 DEF lo, hi
  <2>3. QED
    BY <1>2, <1>7, <1>9, <2>2
<1>12. QED
  BY <1>10, <1>11 DEF m

\* The frame of a picture, if one can be cut.
LEMMA CropFits ==
  ASSUME NEW pic, NEW box, box = Resolved(pic).box, box \in Boxes,
         pic.width \in Nat \ {0}, pic.height \in Nat \ {0},
         pic.face \in [x : Int, y : Int, w : Int, h : Int],
         InSource(box, pic.width, pic.height)
  PROVE  /\ PassportCrop(pic) \in Boxes
         /\ InSource(PassportCrop(pic), pic.width, pic.height)
         /\ WellFramed(PassportCrop(pic), box, pic.width, pic.height)
<1> DEFINE W == pic.width
           H == pic.height
           wanted == WantedHeight(box, HeadExtent(pic))
           size == Size(wanted, W, H)
           x0 == Left(box, HeadCentre(pic), size.w, W)
           y0 == Top(box, HeadTop(pic), size.h, H)
           crop == PassportCrop(pic)
<1>1. /\ crop = [x0 |-> x0, y0 |-> y0, x1 |-> x0 + size.w, y1 |-> y0 + size.h]
  BY DEF PassportCrop
<1>2. HeadTop(pic) \in Int /\ HeadCentre(pic) \in Int /\ HeadExtent(pic) \in Int
  <2> DEFINE a == pic.face.y * H
             b == (pic.face.y + pic.face.h) * H
             c == (2 * pic.face.x + pic.face.w) * W
  <2>1. a \in Int /\ b \in Int /\ c \in Int
    OBVIOUS
  <2> HIDE DEF a, b, c
  <2>2. a \div 1000 \in Int /\ b \div 1000 \in Int /\ c \div 2000 \in Int
    BY <2>1
  <2>3. HeadTop(pic) = a \div 1000 /\ HeadCentre(pic) = c \div 2000
        /\ HeadExtent(pic) = Larger(8, b \div 1000 - a \div 1000)
    BY DEF HeadTop, HeadCentre, HeadExtent, a, b, c
  <2>4. QED
    BY <2>2, <2>3, Extremes
<1>3. wanted \in Int /\ wanted >= 16
  <2> DEFINE e == HeadExtent(pic)
             v == Larger((75 * e) \div 52, (100 * (box.x1 - box.x0)) \div 84)
  <2>1. (75 * e) \div 52 \in Int
    BY <1>2
  <2>2. (100 * (box.x1 - box.x0)) \div 84 \in Int
    BY DEF Boxes
  <2>3. v \in Int
    BY <2>1, <2>2, Extremes
  <2> HIDE DEF v
  <2>4. (4 * v + 1) \div 3 \in Int
    BY <2>3
  <2>5. wanted = Larger(16, (4 * v + 1) \div 3)
    BY DEF WantedHeight, v
  <2>6. QED
    BY <2>4, <2>5, Extremes
<1>4. W \in Int /\ H \in Int /\ W > 0 /\ H > 0
  OBVIOUS
<1> HIDE DEF wanted, W, H
<1>5. /\ size.w \in 1..W /\ size.h \in 1..H
      /\ W >= 12 /\ H >= 16 => 4 * size.w - 3 * size.h \in -3..3
  BY <1>3, <1>4, SizeFits
<1> HIDE DEF size
<1>6. 0 <= box.x0 /\ box.x1 <= W
  BY DEF InSource, W
<1>7. /\ x0 \in 0..(W - size.w)
      /\ box.x1 - box.x0 + 2 * Margin(size.w) <= size.w =>
           x0 <= box.x0 /\ box.x1 <= x0 + size.w
  BY <1>2, <1>4, <1>5, <1>6, LeftFits
<1>8. /\ y0 \in 0..(H - size.h)
      /\ y0 <= Larger(0, box.y0 - HairPad(size.h))
  BY <1>2, <1>4, <1>5, TopFits
<1> HIDE DEF x0, y0, crop
<1>9. /\ crop.x0 = x0 /\ crop.y0 = y0 /\ crop.x1 = x0 + size.w /\ crop.y1 = y0 + size.h
      /\ crop.x1 - crop.x0 = size.w /\ crop.y1 - crop.y0 = size.h
      /\ crop \in Boxes
  BY <1>1, <1>4, <1>5, <1>7, <1>8 DEF Boxes
<1>10. InSource(crop, W, H)
  BY <1>4, <1>5, <1>7, <1>8, <1>9 DEF InSource
<1>11. WellFramed(crop, box, W, H)
  BY <1>5, <1>7, <1>8, <1>9 DEF WellFramed
<1>12. QED
  BY <1>9, <1>10, <1>11 DEF crop, W, H

\* The frame of a stored picture that has a portrait.
LEMMA CaptureIsFramed ==
  ASSUME NEW pic \in Captures, Croppable(pic)
  PROVE  /\ PassportCrop(pic) \in Boxes /\ PassportCrop(pic) # NoBox
         /\ Sound(Resolved(pic))
         /\ InSource(PassportCrop(pic), pic.width, pic.height)
         /\ WellFramed(PassportCrop(pic), Resolved(pic).box, pic.width, pic.height)
<1> DEFINE box == Resolved(pic).box
<1>1. pic \in Pictures
  BY CapturesAssumption
<1>2. Resolved(pic) \in {pic.raw, pic.cleaned} /\ Sound(Resolved(pic))
  BY DEF Croppable, Resolved, Refined, Acceptable
<1>3. box \in {pic.raw.box, pic.cleaned.box} \ {NoBox}
  BY <1>2 DEF Croppable
<1>4. InSource(box, pic.width, pic.height)
  BY <1>3, CapturesAssumption
<1>5. pic.raw \in Mattes /\ pic.cleaned \in Mattes
  BY <1>1 DEF Pictures
<1>6. box \in Boxes
  BY <1>3, <1>5 DEF Mattes
<1>7. /\ pic.width \in Nat \ {0} /\ pic.height \in Nat \ {0}
      /\ pic.face \in [x : Int, y : Int, w : Int, h : Int]
  BY <1>1 DEF Pictures
<1> HIDE DEF box
<1>8. /\ PassportCrop(pic) \in Boxes
      /\ InSource(PassportCrop(pic), pic.width, pic.height)
      /\ WellFramed(PassportCrop(pic), box, pic.width, pic.height)
  BY <1>4, <1>6, <1>7, CropFits DEF box
<1>9. QED
  BY <1>2, <1>8, NoBoxAssumption DEF box

\* A view has the size of the picture.
LEMMA ViewSize ==
  ASSUME NEW pic \in Captures, NEW seen \in Views(pic)
  PROVE  seen \in Captures /\ seen.width = pic.width /\ seen.height = pic.height
BY DEF Views

-------------------------------------------------------------------------------
(* Each part of the invariant, step by step.                                    *)

\* Types.
LEMMA TypesNext ==
  ASSUME TypeOK, StatusInv, PictureInv, NEW r \in Requests, Acts(r)
  PROVE  TypeOK'
<1> USE ExperimentAssumption, ProviderAssumption DEF TypeOK, Results, Places, Statuses,
     local, files, Step, Goto, Meet
<1>1. CASE LivenessCached(r)
  BY <1>1, OutcomeTypes DEF LivenessCached
<1>2. CASE LivenessClaim(r)
  BY <1>2 DEF LivenessClaim
<1>3. CASE Call(r)
  <2>1. PICK v \in Results, d \in Durations, h \in SUBSET {"eligible"} :
          \/ /\ got' = [got EXCEPT ![r] = v]
             /\ elapsed' = [elapsed EXCEPT ![r] = elapsed[r] + d]
             /\ pc' = [pc EXCEPT ![r] = "finish"]
             /\ met' = met \cup Slow(d) \cup h
             /\ UNCHANGED tries
          \/ /\ tries[r] < Retries
             /\ tries' = [tries EXCEPT ![r] = tries[r] + 1]
             /\ elapsed' = [elapsed EXCEPT ![r] = elapsed[r] + d + Delay(tries[r])]
             /\ met' = met \cup Slow(d)
             /\ UNCHANGED <<pc, got>>
    BY <1>3, CallSteps
  <2>2. Delay(tries[r]) \in Nat /\ d \in Nat /\ Retries \in Nat /\ Slow(d) \subseteq {"slow"}
    BY ProviderBounds, DurationTypes
  <2> DEFINE D == Delay(tries[r])
  <2>3. tries' \in [Requests -> 0..Retries]
    BY <2>1, <2>2
  <2>4. elapsed[r] + d \in Nat /\ elapsed[r] + d + D \in Nat
    BY <2>2
  <2>5. elapsed' = [elapsed EXCEPT ![r] = elapsed[r] + d]
        \/ elapsed' = [elapsed EXCEPT ![r] = elapsed[r] + d + D]
    BY <2>1
  <2> HIDE DEF D
  <2>6. elapsed' \in [Requests -> Nat]
    BY <2>4, <2>5
  <2>7. pc' \in [Requests -> Places] /\ got' \in [Requests -> Results \cup {None}]
    BY <2>1
  <2>8. met' \subseteq met \cup {"eligible", "slow"}
    BY <2>1, <2>2
  <2>9. QED
    BY <1>3, <2>3, <2>6, <2>7, <2>8 DEF Call
<1>4. CASE LivenessFinish(r)
  BY <1>4 DEF LivenessFinish
<1>5. CASE LivenessRecord(r)
  BY <1>5 DEF LivenessRecord
<1>6. CASE LivenessResult(r)
  BY <1>6 DEF LivenessResult
<1>7. CASE LivenessStatus(r)
  BY <1>7, OutcomeTypes DEF LivenessStatus
<1>8. CASE ExperimentResult(r)
  <2>1. vlm' \in Results
    BY <1>8, EvaluatedTypes DEF ExperimentResult
  <2>2. met' \subseteq met \cup {"experiment", "eligible"}
    BY <1>8 DEF ExperimentResult
  <2>3. QED
    BY <1>8, <2>1, <2>2 DEF ExperimentResult
<1>9. CASE ExperimentStatus(r)
  BY <1>9 DEF ExperimentStatus
<1>10. CASE PortraitAdmit(r)
  <2>1. PICK pic \in Views(capture) : view' = [view EXCEPT ![r] = pic]
    BY <1>10 DEF PortraitAdmit
  <2>2. view' \in [Requests -> Captures \cup {None}]
    BY <2>1, ViewSize
  <2>3. QED
    BY <1>10, <2>2 DEF PortraitAdmit
<1>11. CASE PortraitPrevious(r)
  BY <1>11 DEF PortraitPrevious
<1>12. CASE PortraitMark(r)
  BY <1>12 DEF PortraitMark
<1>13. CASE PortraitNoModel(r)
  BY <1>13 DEF PortraitNoModel
<1>14. CASE PortraitRejected(r)
  BY <1>14 DEF PortraitRejected
<1>15. CASE PortraitFails(r)
  BY <1>15 DEF PortraitFails
<1>16. CASE PortraitWrite(r)
  <2>1. view[r] \in Views(capture) /\ Croppable(view[r])
    BY <1>16 DEF PortraitWrite, PictureInv, Processing
  <2>2. view[r] \in Captures /\ PassportCrop(view[r]) \in Boxes
    BY <2>1, ViewSize, CaptureIsFramed
  <2>3. QED
    BY <1>16, <2>2 DEF PortraitWrite
<1>17. CASE PortraitMetadata(r)
  <2>1. view[r] \in Views(capture) /\ Croppable(view[r])
    BY <1>17 DEF PortraitMetadata, PictureInv, Processing
  <2>2. PassportCrop(view[r]) \in Boxes
    BY <2>1, ViewSize, CaptureIsFramed
  <2>3. QED
    BY <1>17, <2>2 DEF PortraitMetadata
<1>18. CASE PortraitReady(r)
  BY <1>18 DEF PortraitReady
<1>19. CASE Fault(r)
  BY <1>19 DEF Fault
<1>20. QED
  BY <1>1, <1>2, <1>3, <1>4, <1>5, <1>6, <1>7, <1>8, <1>9, <1>10, <1>11, <1>12,
     <1>13, <1>14, <1>15, <1>16, <1>17, <1>18, <1>19 DEF Acts, Liveness, Portrait

\* A request whose calls keep to their timeout does not outlive its claim.
LEMMA TimeNext ==
  ASSUME TypeOK, TimeInv, NEW r \in Requests, Acts(r)
  PROVE  TimeInv'
<1> USE DEF TypeOK, TimeInv, local, Step, Goto, Meet
<1>1. CASE LivenessCached(r)
  BY <1>1 DEF LivenessCached
<1>2. CASE LivenessClaim(r)
  BY <1>2 DEF LivenessClaim
<1>3. CASE Call(r)
  <2> DEFINE V(k) == k * ProviderTimeout
  <2> SUFFICES ASSUME "slow" \notin met' PROVE TimeInv'
    BY DEF TimeInv
  <2>0. "slow" \notin met
    BY <1>3, CallSteps
  <2>1. PICK d \in Durations :
          /\ Slow(d) \subseteq met'
          /\ \/ /\ elapsed' = [elapsed EXCEPT ![r] = elapsed[r] + d]
                /\ pc' = [pc EXCEPT ![r] = "finish"] /\ UNCHANGED tries
             \/ /\ tries[r] < Retries
                /\ tries' = [tries EXCEPT ![r] = tries[r] + 1]
                /\ elapsed' = [elapsed EXCEPT ![r] = elapsed[r] + d + Delay(tries[r])]
                /\ UNCHANGED pc
    <3>1. met \subseteq met'
      BY <1>3, CallSteps
    <3>2. QED
      BY <1>3, CallSteps
  <2>2. d \in Nat /\ d <= ProviderTimeout /\ ProviderTimeout \in Nat /\ Retries \in Nat
    BY <2>1, ProviderBounds, DurationTypes
  <2>3. /\ tries[r] \in 0..Retries /\ elapsed[r] \in Nat
        /\ elapsed[r] <= V(tries[r]) + Delay(tries[r]) - 1
    BY <1>3, <2>0 DEF Call
  <2>4. ASSUME NEW k \in 0..Retries
        PROVE  /\ V(k) \in Nat /\ V(k + 1) = V(k) + ProviderTimeout
               /\ V(k) + ProviderTimeout + Delay(k) - 1 <= ClaimTimeout
               /\ Delay(k) \in Nat /\ Delay(k + 1) = 2 * Delay(k)
    BY ProviderBounds
  <2>5. ClaimTimeout \in Nat
    BY ProviderAssumption DEF ClaimTimeout
  <2>6. CASE /\ elapsed' = [elapsed EXCEPT ![r] = elapsed[r] + d]
             /\ pc' = [pc EXCEPT ![r] = "finish"] /\ UNCHANGED tries
    <3>1. elapsed[r] + d <= ClaimTimeout
      <4> HIDE DEF V
      <4>1. QED
        BY <2>2, <2>3, <2>4, <2>5
    <3>2. \A q \in Requests : q # r => pc'[q] = pc[q] /\ elapsed'[q] = elapsed[q]
      BY <2>6
    <3>3. pc'[r] = "finish" /\ elapsed'[r] = elapsed[r] + d
      BY <2>6
    <3> SUFFICES ASSUME NEW q \in Requests
        PROVE  /\ pc'[q] \in {"idle", "call"} =>
                    elapsed'[q] <= V(tries'[q]) + Delay(tries'[q]) - 1
               /\ elapsed'[q] <= ClaimTimeout
      BY DEF Delay, ClaimTimeout, ProviderTimeout, Adapter, Gemini, Groq, OpenRouter,
             Local, Mock
    <3>4. CASE q = r
      BY <3>1, <3>3, <3>4
    <3>5. CASE q # r
      BY <2>0, <2>6, <3>2, <3>5
    <3>6. QED
      BY <3>4, <3>5
  <2>7. CASE /\ tries[r] < Retries
             /\ tries' = [tries EXCEPT ![r] = tries[r] + 1]
             /\ elapsed' = [elapsed EXCEPT ![r] = elapsed[r] + d + Delay(tries[r])]
             /\ UNCHANGED pc
    <3>1. tries[r] + 1 \in 0..Retries
      BY <2>2, <2>3, <2>7
    <3>2. elapsed[r] + d + Delay(tries[r]) <= V(tries[r] + 1) + Delay(tries[r] + 1) - 1
      <4> HIDE DEF V
      <4>1. QED
        BY <2>2, <2>3, <2>4
    <3>3. elapsed[r] + d + Delay(tries[r]) <= ClaimTimeout
      <4> HIDE DEF V
      <4>1. QED
        BY <2>2, <2>3, <2>4, <3>1, <3>2, <2>5
    <3>4. \A q \in Requests : q # r => tries'[q] = tries[q] /\ elapsed'[q] = elapsed[q]
      BY <2>7
    <3>5. /\ tries'[r] = tries[r] + 1
          /\ elapsed'[r] = elapsed[r] + d + Delay(tries[r])
      BY <2>7
    <3> SUFFICES ASSUME NEW q \in Requests
        PROVE  /\ pc'[q] \in {"idle", "call"} =>
                    elapsed'[q] <= V(tries'[q]) + Delay(tries'[q]) - 1
               /\ elapsed'[q] <= ClaimTimeout
      BY DEF Delay, ClaimTimeout, ProviderTimeout, Adapter, Gemini, Groq, OpenRouter,
             Local, Mock
    <3>6. CASE q = r
      <4> HIDE DEF V
      <4>1. QED
        BY <3>2, <3>3, <3>5, <3>6
    <3>7. CASE q # r
      BY <2>0, <2>7, <3>4, <3>7
    <3>8. QED
      BY <3>6, <3>7
  <2>8. QED
    BY <2>1, <2>6, <2>7
<1>4. CASE LivenessFinish(r)
  <2>1. ClaimTimeout \in Nat
    BY ProviderAssumption DEF ClaimTimeout
  <2>2. elapsed'[r] = 0 /\ pc'[r] = "record" /\ UNCHANGED <<tries, met>>
    BY <1>4 DEF LivenessFinish
  <2>3. \A q \in Requests : q # r => elapsed'[q] = elapsed[q] /\ pc'[q] = pc[q]
    BY <1>4 DEF LivenessFinish
  <2>4. QED
    BY <2>1, <2>2, <2>3
<1>5. CASE LivenessRecord(r)
  BY <1>5 DEF LivenessRecord
<1>6. CASE LivenessResult(r)
  BY <1>6 DEF LivenessResult
<1>7. CASE LivenessStatus(r)
  BY <1>7 DEF LivenessStatus
<1>8. CASE ExperimentResult(r)
  BY <1>8 DEF ExperimentResult
<1>9. CASE ExperimentStatus(r)
  BY <1>9 DEF ExperimentStatus
<1>10. CASE PortraitAdmit(r)
  BY <1>10 DEF PortraitAdmit
<1>11. CASE PortraitPrevious(r)
  BY <1>11 DEF PortraitPrevious
<1>12. CASE PortraitMark(r)
  BY <1>12 DEF PortraitMark
<1>13. CASE PortraitNoModel(r)
  BY <1>13 DEF PortraitNoModel
<1>14. CASE PortraitRejected(r)
  BY <1>14 DEF PortraitRejected
<1>15. CASE PortraitFails(r)
  BY <1>15 DEF PortraitFails
<1>16. CASE PortraitWrite(r)
  BY <1>16 DEF PortraitWrite
<1>17. CASE PortraitMetadata(r)
  BY <1>17 DEF PortraitMetadata
<1>18. CASE PortraitReady(r)
  BY <1>18 DEF PortraitReady
<1>19. CASE Fault(r)
  BY <1>19 DEF Fault
<1>20. QED
  BY <1>1, <1>2, <1>3, <1>4, <1>5, <1>6, <1>7, <1>8, <1>9, <1>10, <1>11, <1>12,
     <1>13, <1>14, <1>15, <1>16, <1>17, <1>18, <1>19 DEF Acts, Liveness, Portrait

\* Claim and lock.
LEMMA ClaimNext ==
  ASSUME TypeOK, TimeInv, ClaimInv, NEW r \in Requests, Acts(r)
  PROVE  ClaimInv'
<1> USE ExperimentAssumption, ProviderAssumption DEF TypeOK, ClaimInv, Places, Results, local, files, Step,
     Goto, Meet
<1>1. CASE LivenessCached(r)
  BY <1>1 DEF LivenessCached
<1>2. CASE LivenessClaim(r)
  <2>1. ClaimReady /\ "slow" \notin met => \A q \in Requests : claim = q => pc[q] = "dead"
    <3>1. ClaimTimeout \in Nat
      BY DEF ClaimTimeout
    <3>2. QED
      BY <3>1 DEF ClaimReady, TimeInv
  <2>2. QED
    BY <1>2, <2>1 DEF LivenessClaim
<1>3. CASE Call(r)
  BY <1>3, CallSteps DEF Call
<1>4. CASE LivenessFinish(r)
  BY <1>4 DEF LivenessFinish
<1>5. CASE LivenessRecord(r)
  BY <1>5 DEF LivenessRecord
<1>6. CASE LivenessResult(r)
  BY <1>6 DEF LivenessResult
<1>7. CASE LivenessStatus(r)
  BY <1>7 DEF LivenessStatus
<1>8. CASE ExperimentResult(r)
  BY <1>8 DEF ExperimentResult
<1>9. CASE ExperimentStatus(r)
  BY <1>9 DEF ExperimentStatus
<1>10. CASE PortraitAdmit(r)
  BY <1>10 DEF PortraitAdmit
<1>11. CASE PortraitPrevious(r)
  BY <1>11 DEF PortraitPrevious
<1>12. CASE PortraitMark(r)
  BY <1>12 DEF PortraitMark
<1>13. CASE PortraitNoModel(r)
  BY <1>13 DEF PortraitNoModel
<1>14. CASE PortraitRejected(r)
  BY <1>14 DEF PortraitRejected
<1>15. CASE PortraitFails(r)
  BY <1>15 DEF PortraitFails
<1>16. CASE PortraitWrite(r)
  BY <1>16 DEF PortraitWrite
<1>17. CASE PortraitMetadata(r)
  BY <1>17 DEF PortraitMetadata
<1>18. CASE PortraitReady(r)
  BY <1>18 DEF PortraitReady
<1>19. CASE Fault(r)
  BY <1>19 DEF Fault
<1>20. QED
  BY <1>1, <1>2, <1>3, <1>4, <1>5, <1>6, <1>7, <1>8, <1>9, <1>10, <1>11, <1>12,
     <1>13, <1>14, <1>15, <1>16, <1>17, <1>18, <1>19 DEF Acts, Liveness, Portrait

\* The portrait gate.
LEMMA GateNext ==
  ASSUME TypeOK, ClaimInv, GateInv, NEW r \in Requests, Acts(r)
  PROVE  GateInv'
<1> USE DEF TypeOK, GateInv, GateFollowsVerdict, local, files, Step, Goto, Meet
<1>1. CASE LivenessCached(r)
  BY <1>1, ExperimentAssumption, OutcomeTypes, EligibleIsVerdict DEF LivenessCached,
     ClaimInv
<1>2. CASE LivenessClaim(r)
  BY <1>2 DEF LivenessClaim
<1>3. CASE Call(r)
  BY <1>3, CallSteps DEF Call
<1>4. CASE LivenessFinish(r)
  BY <1>4 DEF LivenessFinish
<1>5. CASE LivenessRecord(r)
  BY <1>5, EligibleIsVerdict DEF LivenessRecord, ClaimInv, Results
<1>6. CASE LivenessResult(r)
  BY <1>6, EligibleIsVerdict DEF LivenessResult, ClaimInv
<1>7. CASE LivenessStatus(r)
  BY <1>7, OutcomeTypes, EligibleIsVerdict DEF LivenessStatus, ClaimInv
<1>8. CASE ExperimentResult(r)
  BY <1>8 DEF ExperimentResult
<1>9. CASE ExperimentStatus(r)
  BY <1>9 DEF ExperimentStatus
<1>10. CASE PortraitAdmit(r)
  BY <1>10 DEF PortraitAdmit
<1>11. CASE PortraitPrevious(r)
  BY <1>11 DEF PortraitPrevious
<1>12. CASE PortraitMark(r)
  BY <1>12 DEF PortraitMark
<1>13. CASE PortraitNoModel(r)
  BY <1>13 DEF PortraitNoModel
<1>14. CASE PortraitRejected(r)
  BY <1>14 DEF PortraitRejected
<1>15. CASE PortraitFails(r)
  BY <1>15 DEF PortraitFails
<1>16. CASE PortraitWrite(r)
  BY <1>16 DEF PortraitWrite
<1>17. CASE PortraitMetadata(r)
  BY <1>17 DEF PortraitMetadata
<1>18. CASE PortraitReady(r)
  BY <1>18 DEF PortraitReady
<1>19. CASE Fault(r)
  BY <1>19 DEF Fault
<1>20. QED
  BY <1>1, <1>2, <1>3, <1>4, <1>5, <1>6, <1>7, <1>8, <1>9, <1>10, <1>11, <1>12,
     <1>13, <1>14, <1>15, <1>16, <1>17, <1>18, <1>19 DEF Acts, Liveness, Portrait

\* The status.
LEMMA StatusNext ==
  ASSUME TypeOK, StatusInv, PictureInv, NEW r \in Requests, Acts(r)
  PROVE  StatusInv'
<1> USE DEF TypeOK, StatusInv, Overlapped, Unsettled, Processing, local, files, Step,
     Goto, Meet
<1>1. CASE LivenessCached(r)
  BY <1>1 DEF LivenessCached
<1>2. CASE LivenessClaim(r)
  BY <1>2 DEF LivenessClaim
<1>3. CASE Call(r)
  BY <1>3, CallSteps DEF Call
<1>4. CASE LivenessFinish(r)
  BY <1>4 DEF LivenessFinish
<1>5. CASE LivenessRecord(r)
  BY <1>5 DEF LivenessRecord
<1>6. CASE LivenessResult(r)
  BY <1>6 DEF LivenessResult
<1>7. CASE LivenessStatus(r)
  BY <1>7 DEF LivenessStatus
<1>8. CASE ExperimentResult(r)
  BY <1>8 DEF ExperimentResult
<1>9. CASE ExperimentStatus(r)
  BY <1>9 DEF ExperimentStatus
<1>10. CASE PortraitAdmit(r)
  BY <1>10, EligibleIsVerdict DEF PortraitAdmit
<1>11. CASE PortraitPrevious(r)
  BY <1>11 DEF PortraitPrevious
<1>12. CASE PortraitMark(r)
  BY <1>12 DEF PortraitMark
<1>13. CASE PortraitNoModel(r)
  BY <1>13 DEF PortraitNoModel
<1>14. CASE PortraitRejected(r)
  BY <1>14 DEF PortraitRejected
<1>15. CASE PortraitFails(r)
  BY <1>15 DEF PortraitFails
<1>16. CASE PortraitWrite(r)
  <2>1. view[r] \in Views(capture) /\ Croppable(view[r])
    BY <1>16 DEF PortraitWrite, PictureInv
  <2>2. PassportCrop(view[r]) # NoBox
    BY <2>1, ViewSize, CaptureIsFramed
  <2>3. QED
    BY <1>16, <2>2 DEF PortraitWrite
<1>17. CASE PortraitMetadata(r)
  <2>1. view[r] \in Views(capture) /\ Croppable(view[r])
    BY <1>17 DEF PortraitMetadata, PictureInv
  <2>2. PassportCrop(view[r]) # NoBox
    BY <2>1, ViewSize, CaptureIsFramed
  <2>3. QED
    BY <1>17, <2>2 DEF PortraitMetadata
<1>18. CASE PortraitReady(r)
  BY <1>18 DEF PortraitReady
<1>19. CASE Fault(r)
  BY <1>19 DEF Fault
<1>20. QED
  BY <1>1, <1>2, <1>3, <1>4, <1>5, <1>6, <1>7, <1>8, <1>9, <1>10, <1>11, <1>12,
     <1>13, <1>14, <1>15, <1>16, <1>17, <1>18, <1>19 DEF Acts, Liveness, Portrait

\* Nothing is begun before a provider has said that a live person is there.
LEMMA ClosedNext ==
  ASSUME TypeOK, ClosedInv, NEW r \in Requests, Acts(r)
  PROVE  ClosedInv'
<1> USE DEF TypeOK, ClosedInv, Begun, Processing, local, files, Step, Goto, Meet
<1>1. CASE LivenessCached(r)
  BY <1>1, OutcomeTypes DEF LivenessCached
<1>2. CASE LivenessClaim(r)
  BY <1>2 DEF LivenessClaim
<1>3. CASE Call(r)
  <2>1. /\ UNCHANGED <<told, record, vlm, portrait, status, previous>>
        /\ pc[r] = "call"
    BY <1>3 DEF Call
  <2>2. PICK v \in Results, h \in SUBSET {"eligible"} :
          \/ /\ got' = [got EXCEPT ![r] = v]
             /\ pc' = [pc EXCEPT ![r] = "finish"]
             /\ h \subseteq met' /\ met \subseteq met'
             /\ Eligible(v) => h = {"eligible"}
          \/ UNCHANGED <<pc, got>> /\ met \subseteq met'
    BY <1>3, CallSteps
  <2>3. CASE UNCHANGED <<pc, got>> /\ met \subseteq met'
    BY <2>1, <2>3
  <2>4. CASE /\ got' = [got EXCEPT ![r] = v]
             /\ pc' = [pc EXCEPT ![r] = "finish"]
             /\ h \subseteq met' /\ met \subseteq met'
             /\ Eligible(v) => h = {"eligible"}
    <3>1. SUFFICES ASSUME "eligible" \notin met'
          PROVE  /\ "eligible" \notin met
                 /\ \A q \in Requests : /\ ~Eligible(got'[q])
                                        /\ pc'[q] \notin {"portrait"} \cup Processing
      BY <2>1 DEF Eligible, EligibleState
    <3>2. "eligible" \notin met /\ ~Eligible(v)
      BY <2>4, <3>1
    <3>3. \A q \in Requests : got'[q] = IF q = r THEN v ELSE got[q]
      BY <2>4
    <3>4. \A q \in Requests : pc'[q] = IF q = r THEN "finish" ELSE pc[q]
      BY <2>4
    <3>5. QED
      BY <3>2, <3>3, <3>4
  <2>5. QED
    BY <2>2, <2>3, <2>4
<1>4. CASE LivenessFinish(r)
  BY <1>4 DEF LivenessFinish
<1>5. CASE LivenessRecord(r)
  BY <1>5 DEF LivenessRecord
<1>6. CASE LivenessResult(r)
  BY <1>6 DEF LivenessResult
<1>7. CASE LivenessStatus(r)
  BY <1>7, OutcomeTypes DEF LivenessStatus
<1>8. CASE ExperimentResult(r)
  <2>1. PICK p \in Providers, frames \in Frames, reply \in Replies :
          /\ vlm' = Evaluated(p, frames, reply)
          /\ met' = met \cup {"experiment"}
                        \cup IF SaysEligible(reply) THEN {"eligible"} ELSE {}
    BY <1>8 DEF ExperimentResult
  <2>2. Eligible(vlm') => "eligible" \in met'
    BY <2>1, EvaluatedTypes
  <2>3. met \subseteq met'
    BY <2>1
  <2>4. QED
    BY <1>8, <2>2, <2>3 DEF ExperimentResult
<1>9. CASE ExperimentStatus(r)
  BY <1>9 DEF ExperimentStatus
<1>10. CASE PortraitAdmit(r)
  BY <1>10 DEF PortraitAdmit
<1>11. CASE PortraitPrevious(r)
  BY <1>11 DEF PortraitPrevious
<1>12. CASE PortraitMark(r)
  BY <1>12 DEF PortraitMark
<1>13. CASE PortraitNoModel(r)
  BY <1>13 DEF PortraitNoModel
<1>14. CASE PortraitRejected(r)
  BY <1>14 DEF PortraitRejected
<1>15. CASE PortraitFails(r)
  BY <1>15 DEF PortraitFails
<1>16. CASE PortraitWrite(r)
  BY <1>16 DEF PortraitWrite
<1>17. CASE PortraitMetadata(r)
  BY <1>17 DEF PortraitMetadata
<1>18. CASE PortraitReady(r)
  BY <1>18 DEF PortraitReady
<1>19. CASE Fault(r)
  BY <1>19 DEF Fault
<1>20. QED
  BY <1>1, <1>2, <1>3, <1>4, <1>5, <1>6, <1>7, <1>8, <1>9, <1>10, <1>11, <1>12,
     <1>13, <1>14, <1>15, <1>16, <1>17, <1>18, <1>19 DEF Acts, Liveness, Portrait

\* The files of a portrait.
LEMMA PictureNext ==
  ASSUME TypeOK, PictureInv, NEW r \in Requests, Acts(r)
  PROVE  PictureInv'
<1> USE DEF TypeOK, PictureInv, Processing, local, files, Step, Goto
<1>1. CASE LivenessCached(r)
  BY <1>1 DEF LivenessCached
<1>2. CASE LivenessClaim(r)
  BY <1>2 DEF LivenessClaim
<1>3. CASE Call(r)
  BY <1>3, CallSteps DEF Call
<1>4. CASE LivenessFinish(r)
  BY <1>4 DEF LivenessFinish
<1>5. CASE LivenessRecord(r)
  BY <1>5 DEF LivenessRecord
<1>6. CASE LivenessResult(r)
  BY <1>6 DEF LivenessResult
<1>7. CASE LivenessStatus(r)
  BY <1>7 DEF LivenessStatus
<1>8. CASE ExperimentResult(r)
  BY <1>8 DEF ExperimentResult
<1>9. CASE ExperimentStatus(r)
  BY <1>9 DEF ExperimentStatus
<1>10. CASE PortraitAdmit(r)
  BY <1>10 DEF PortraitAdmit
<1>11. CASE PortraitPrevious(r)
  BY <1>11 DEF PortraitPrevious
<1>12. CASE PortraitMark(r)
  BY <1>12 DEF PortraitMark
<1>13. CASE PortraitNoModel(r)
  BY <1>13 DEF PortraitNoModel
<1>14. CASE PortraitRejected(r)
  BY <1>14 DEF PortraitRejected
<1>15. CASE PortraitFails(r)
  BY <1>15 DEF PortraitFails
<1>16. CASE PortraitWrite(r)
  BY <1>16 DEF PortraitWrite
<1>17. CASE PortraitMetadata(r)
  BY <1>17 DEF PortraitMetadata
<1>18. CASE PortraitReady(r)
  BY <1>18 DEF PortraitReady
<1>19. CASE Fault(r)
  BY <1>19 DEF Fault
<1>20. QED
  BY <1>1, <1>2, <1>3, <1>4, <1>5, <1>6, <1>7, <1>8, <1>9, <1>10, <1>11, <1>12,
     <1>13, <1>14, <1>15, <1>16, <1>17, <1>18, <1>19 DEF Acts, Liveness, Portrait

\* A portrait and its metadata, without overlapping runs.
LEMMA FrameNext ==
  ASSUME TypeOK, StatusInv, PictureInv, FrameInv, NEW r \in Requests, Acts(r)
  PROVE  FrameInv'
<1> USE DEF TypeOK, FrameInv, Told, Processing, local, files, Step, Goto, Meet
<1>1. CASE LivenessCached(r)
  BY <1>1 DEF LivenessCached
<1>2. CASE LivenessClaim(r)
  BY <1>2 DEF LivenessClaim
<1>3. CASE Call(r)
  BY <1>3, CallSteps DEF Call
<1>4. CASE LivenessFinish(r)
  BY <1>4 DEF LivenessFinish
<1>5. CASE LivenessRecord(r)
  BY <1>5 DEF LivenessRecord
<1>6. CASE LivenessResult(r)
  BY <1>6 DEF LivenessResult
<1>7. CASE LivenessStatus(r)
  BY <1>7 DEF LivenessStatus
<1>8. CASE ExperimentResult(r)
  BY <1>8 DEF ExperimentResult
<1>9. CASE ExperimentStatus(r)
  BY <1>9 DEF ExperimentStatus
<1>10. CASE PortraitAdmit(r)
  BY <1>10 DEF PortraitAdmit
<1>11. CASE PortraitPrevious(r)
  BY <1>11 DEF PortraitPrevious
<1>12. CASE PortraitMark(r)
  BY <1>12 DEF PortraitMark
<1>13. CASE PortraitNoModel(r)
  BY <1>13 DEF PortraitNoModel
<1>14. CASE PortraitRejected(r)
  BY <1>14 DEF PortraitRejected
<1>15. CASE PortraitFails(r)
  BY <1>15 DEF PortraitFails
<1>16. CASE PortraitWrite(r)
  BY <1>16 DEF PortraitWrite
<1>17. CASE PortraitMetadata(r)
  <2> DEFINE crop == PassportCrop(view[r])
  <2>1. /\ portrait' = [portrait EXCEPT !.metadata = crop]
        /\ pc[r] = "metadata" /\ pc' = [pc EXCEPT ![r] = "ready"]
        /\ UNCHANGED <<view, previous, status, met>>
    BY <1>17 DEF PortraitMetadata
  <2>2. "overlap" \notin met => portrait.image = crop
    BY <2>1 DEF StatusInv, PictureInv
  <2> HIDE DEF crop
  <2>3. "overlap" \notin met => Told'
    BY <2>1, <2>2
  <2>4. QED
    BY <2>1, <2>3
<1>18. CASE PortraitReady(r)
  BY <1>18 DEF PortraitReady
<1>19. CASE Fault(r)
  BY <1>19 DEF Fault
<1>20. QED
  BY <1>1, <1>2, <1>3, <1>4, <1>5, <1>6, <1>7, <1>8, <1>9, <1>10, <1>11, <1>12,
     <1>13, <1>14, <1>15, <1>16, <1>17, <1>18, <1>19 DEF Acts, Liveness, Portrait

LEMMA InitInv == Init => ExperimentInv
<1> SUFFICES ASSUME Init PROVE ExperimentInv
  OBVIOUS
<1> USE ExperimentAssumption, ProviderAssumption DEF Init
<1>1. TypeOK
  BY ProviderBounds DEF TypeOK, Results, Places, Statuses
<1>2. TimeInv
  <2>1. Delay(0) = 1 /\ ProviderTimeout \in Nat
    BY BackoffAssumption, ProviderBounds
  <2>2. ClaimTimeout \in Nat
    BY DEF ClaimTimeout
  <2>3. SUFFICES ASSUME NEW r \in Requests
        PROVE  /\ elapsed[r] <= tries[r] * ProviderTimeout + Delay(tries[r]) - 1
               /\ elapsed[r] <= ClaimTimeout
    BY DEF TimeInv
  <2>4. tries[r] = 0 /\ elapsed[r] = 0
    OBVIOUS
  <2>5. tries[r] * ProviderTimeout + Delay(tries[r]) - 1 = 0
    BY <2>1, <2>4
  <2>6. QED
    BY <2>2, <2>4, <2>5
<1>3. ClaimInv
  BY DEF ClaimInv
<1>4. GateInv
  BY EligibleIsVerdict DEF GateInv, GateFollowsVerdict
<1>5. StatusInv
  BY DEF StatusInv, Processing
<1>6. ClosedInv
  BY EligibleIsVerdict DEF ClosedInv, Begun, Processing
<1>7. PictureInv
  BY DEF PictureInv, Processing
<1>8. FrameInv
  BY DEF FrameInv, Told, Processing
<1>9. QED
  BY <1>1, <1>2, <1>3, <1>4, <1>5, <1>6, <1>7, <1>8 DEF ExperimentInv

LEMMA StutterInv ==
  ASSUME ExperimentInv, UNCHANGED vars
  PROVE  ExperimentInv'
BY DEF vars, local, ExperimentInv, TypeOK, TimeInv, ClaimInv, GateInv,
   GateFollowsVerdict, StatusInv, Overlapped, Unsettled, Processing, ClosedInv, Begun,
   PictureInv, FrameInv, Told

\* The inductive invariant of the standalone transaction: time, claim and lock, gate,
\* status, what a provider said, the files of the portrait, its frame.
THEOREM ExperimentInvariant == Spec => []ExperimentInv
<1>1. ExperimentInv /\ [Next]_vars => ExperimentInv'
  <2>1. ASSUME ExperimentInv, NEW r \in Requests, Acts(r) PROVE ExperimentInv'
    BY <2>1, TypesNext, TimeNext, ClaimNext, GateNext, StatusNext, ClosedNext,
       PictureNext, FrameNext DEF ExperimentInv
  <2>2. QED
    BY <2>1, StutterInv DEF Next, Acts
<1>2. QED
  BY InitInv, <1>1, PTL DEF Spec

\* A stored verdict on the capture is not replaced, while the provider's calls keep to
\* their timeout (transactions.py:203, liveness.py:243).
THEOREM VerdictStays == Spec => VerdictIsFinal
<1>1. ExperimentInv /\ [Next]_vars => [Reusable(record) => record' = record \/ "slow" \in met]_vars
  <2>1. ASSUME ExperimentInv, NEW r \in Requests, Acts(r), Reusable(record), "slow" \notin met
        PROVE  record' = record
    <3>1. ~LivenessRecord(r)
      BY <2>1 DEF ExperimentInv, ClaimInv, LivenessRecord, Step
    <3>2. QED
      BY <2>1, <3>1
      DEF Acts, Liveness, Portrait, LivenessCached, LivenessClaim, Call, LivenessFinish,
          LivenessResult, LivenessStatus, ExperimentResult, ExperimentStatus,
          PortraitAdmit, PortraitPrevious, PortraitMark, PortraitNoModel,
          PortraitRejected, PortraitFails, PortraitWrite, PortraitMetadata,
          PortraitReady, Fault, files
  <2>2. QED
    BY <2>1 DEF Next, Acts
<1>2. QED
  BY <1>1, ExperimentInvariant, PTL DEF Spec, VerdictIsFinal

\* The portrait gate opens on an eligible verdict only, and for whoever was told
\* PASS, unless the experiment endpoint wrote the result or a call of the provider took
\* longer than its timeout (transactions.py:261, 290).
THEOREM GateFollows == Spec => []GateFollowsVerdict
<1>1. ExperimentInv => GateFollowsVerdict
  BY DEF ExperimentInv, GateInv
<1>2. QED
  BY <1>1, ExperimentInvariant, PTL

\* At rest the status of the transaction is one that its files bear out
\* (processor.py:123, 130, 266).
THEOREM StatusTrue == Spec => []StatusIsTrue
<1>1. ExperimentInv => StatusIsTrue
  BY DEF ExperimentInv, StatusInv, StatusIsTrue, Overlapped, Unsettled
<1>2. QED
  BY <1>1, ExperimentInvariant, PTL

\* No page is told PASS and no portrait is begun unless a provider has answered,
\* completely, that a live person is there (errors.py:3, liveness.py:141).
THEOREM FailClosed == Spec => []FailsClosed
<1>1. ExperimentInv => FailsClosed
  BY DEF ExperimentInv, ClosedInv, Begun, FailsClosed
<1>2. QED
  BY <1>1, ExperimentInvariant, PTL

\* A stored portrait is well framed, whatever the size of the picture, its face box
\* and its mattes (crop.py:8, 135, processor.py:173, 311).
THEOREM PortraitFramed == Spec => []PortraitIsFramed
<1>1. ASSUME ExperimentInv PROVE PortraitIsFramed
  <2>1. SUFFICES ASSUME portrait.image # NoBox PROVE PortraitIsFramed
    BY DEF PortraitIsFramed
  <2>2. /\ capture \in Captures /\ portrait.source \in Views(capture)
        /\ Croppable(portrait.source)
        /\ portrait.image = PassportCrop(portrait.source)
    BY <1>1, <2>1 DEF ExperimentInv, TypeOK, PictureInv
  <2>3. /\ portrait.source \in Captures
        /\ portrait.source.width = capture.width /\ portrait.source.height = capture.height
    BY <2>2, ViewSize
  <2>4. /\ Sound(Resolved(portrait.source))
        /\ InSource(portrait.image, capture.width, capture.height)
        /\ WellFramed(portrait.image, Resolved(portrait.source).box, capture.width,
                      capture.height)
    BY <2>2, <2>3, CaptureIsFramed
  <2>5. status = "PORTRAIT_READY" /\ "overlap" \notin met =>
          portrait.metadata = portrait.image
    BY <1>1 DEF ExperimentInv, FrameInv, Told
  <2>6. QED
    BY <2>4, <2>5 DEF PortraitIsFramed
<1>2. QED
  BY <1>1, ExperimentInvariant, PTL
================================================================================
