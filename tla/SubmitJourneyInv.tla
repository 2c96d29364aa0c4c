---------------------------- MODULE SubmitJourneyInv ----------------------------
(* The inductive invariant of SubmitJourney: what the callback, the review and   *)
(* the captures of the page have to do with each other.                          *)
EXTENDS SubmitJourney

\* The submit that holds the lock, and what is known of the consumer.
CallbackInv ==
  /\ \A j \in Submits : submits[j].at = "unused" => submits[j].reviewed = 0
  /\ \A j \in Submits : submits[j].at \in {"sending", "acknowledged"} <=> worker = j
  /\ worker # 0 => acked = IF submits[worker].at = "sending" THEN 0 ELSE submits[worker].payload
  /\ \A j \in Submits : submits[j].at = "sending" =>
       /\ submits[j].payload # 0
       /\ accepted \in {0, submits[j].payload} \/ "unknownOutcome" \in met
  /\ \A j \in Submits : submits[j].at \in {"acknowledged", "ok"} => acked # 0
  /\ acked # 0 => accepted # 0 /\ (acked = accepted \/ "unknownOutcome" \in met)
  /\ accepted # 0 /\ acked = 0 /\ worker = 0 => "unknownOutcome" \in met
  /\ acked # 0 /\ worker = 0 => status = "COMPLETED" \/ "crash" \in met
  /\ left \/ status = "COMPLETED" => acked # 0

Overtaken == "overtaken" \in met

\* The page has one chain of its own at most, and none beside a review; nothing else
\* uploads while it runs.
ChainInv ==
  /\ \A k \in Captures : chains[k].at = "unused" => chains[k].mine
  /\ review = 0 => shown = 0 /\ ~loading
  /\ \A k \in Captures : Running(k) /\ chains[k].mine => review = 0 /\ ~failed
  /\ \A i, k \in Captures :
       Running(i) /\ chains[i].mine /\ Running(k) /\ chains[k].mine => i = k
  /\ ~Overtaken => \A k \in Captures : Running(k) => chains[k].mine

\* A chain goes on with its own capture.
ServedInv ==
  ~Overtaken => \A k \in Captures : HasStored(k) =>
    /\ stored = k
    /\ chains[k].at = "portrait" /\ chains[k].answer = "ok" => ready = k

\* A submit under way is one of the review on the screen.
ReviewInv ==
  ~Overtaken =>
    /\ \A j \in Submits : UnderWay(j) => review # 0 /\ submits[j].reviewed = review
    /\ review # 0 => ready = review
    /\ shown \in {0, review} \/ "oldImage" \in met
    /\ \A j \in Submits : worker = j => submits[j].payload = submits[j].reviewed
    /\ accepted # 0 => \E j \in Submits : submits[j].reviewed = accepted

\* A customer who is sent on has what was delivered under review.
SentOnInv ==
  met = {} =>
    /\ \A j \in Submits :
         submits[j].awaits # "nothing" /\ submits[j].at = "ok" => submits[j].reviewed = accepted
    /\ left => review = accepted

\* The upload of a capture is still to come, or under way.
Unstored(k) ==
  \/ chains[k].at = "unused"
  \/ chains[k].at = "upload" /\ chains[k].answer # "ok"
  \/ <<"upload", k>> \in late

\* What was stored is not uploaded again.
UploadInv ==
  /\ \A p \in {stored, passed, ready, review} \cup discarded : p # 0 => ~Unstored(p)
  /\ passed \in {0, stored} /\ ready \in {0, stored}
  /\ \A k \in Captures : chains[k].at # "done" => <<"upload", k>> \notin late
  /\ \A k \in Captures : chains[k].at = "unused" => chains[k].answer = "none"

\* What the customer gave up is not the capture that a review, a chain of the page or a
\* submit that no Retry has overtaken goes on with.
DiscardInv ==
  /\ review # 0 \/ (\E k \in Captures : HasStored(k) /\ chains[k].mine) => stored \notin discarded
  /\ \A j \in Submits : submits[j].at = "sent" /\ ~submits[j].retried => stored \notin discarded
  /\ \A j \in Submits : worker = j => submits[j].payload \notin discarded \/ submits[j].retried

JourneyInv ==
  /\ TypeOK /\ CallbackInv /\ ChainInv /\ ServedInv /\ ReviewInv /\ SentOnInv
  /\ UploadInv /\ DiscardInv
===============================================================================
