----------------------------- MODULE SubmitJourney -----------------------------
(* The journey of a portrait from the integration page (IntegrationPage.tsx)     *)
(* through the browser API to the consumer (callback.py).  The page sends        *)
(* requests over a network that may delay them beyond its timers, the service    *)
(* serves one request of the transaction at a time (CaptureTransaction shows the *)
(* steps of a handler), the callback may be lost, or its answer, and the page    *)
(* is covered or replaced by the connectivity gate.  The image of a review is a  *)
(* request of its own, for one constant URL, that nothing waits for.  The timer  *)
(* of a request ends at its headers.  A capture is its number.                   *)
EXTENDS Integers

CONSTANTS MaxCaptures,   \* bound: captures that pass the local quality check
          MaxSubmits,    \* bound: presses of Submit
          MaxRetries     \* callback_max_retries

ASSUME JourneyAssumption ==
  MaxCaptures \in Nat /\ MaxSubmits \in Nat /\ MaxRetries \in Nat

Captures == 1..MaxCaptures
Submits == 1..MaxSubmits
Portrait == 0..MaxCaptures   \* 0: none

VARIABLES
  gate,        \* the connectivity gate: "open", "covered" or "closed"
  view,        \* phase.state of the page
  review,      \* captureDone: the capture whose portrait is under review, 0: none
  failed,      \* captureError is set
  submitting,
  loading,     \* <img src="/api/v1/browser/portrait"> is being loaded,
  shown,       \*   the portrait that it shows, 0: none (yet),
  cached,      \*   the portrait that the document has loaded last
  left,        \* window.location.assign(redirectUrl)
  chains,      \* handleAutoProcess of each capture
  late,        \* requests of chains that have given up, still under way
  submits,     \* the calls of submit()
  stored,      \* the service: the current capture,
  verdicts,    \*   what the provider says of each capture,
  passed,      \*   the capture of the canonical PASS,
  ready,       \*   the capture of the authorized portrait,
  status,      \*   "OPEN", "CALLBACK_FAILED" or "COMPLETED",
  acked,       \*   the portrait of the stored acknowledgement, 0: none
  worker,      \*   the submit that holds the lock of the transaction, 0: none
  accepted,    \* the consumer: the portrait it took under the event id
  discarded,   \* portraits that the customer has retried (for properties only)
  met          \* hazards that the behaviour has met (for properties only)

image == <<loading, shown, cached>>
pageVars == <<view, review, failed, submitting, image>>
serviceVars == <<stored, verdicts, passed, ready>>
callbackVars == <<status, acked, worker, accepted>>
vars == <<gate, pageVars, left, chains, late, submits, serviceVars, callbackVars,
          discarded, met>>

\* overtaken: the customer gave up a portrait, or the page was replaced, while a submit
\* was under way; the page was replaced while a chain ran; or a request of a chain that
\* had given up was served during a later chain, a review or a submit.  oldImage: a
\* review showed the image of an earlier one.  unknownOutcome: a submit failed although
\* the consumer holds a portrait.  crash: a worker died in a submit.
Hazards == {"overtaken", "oldImage", "unknownOutcome", "crash"}
Meet(h, condition) == met' = met \cup IF condition THEN {h} ELSE {}

Init ==
  /\ gate = "closed" /\ view = "loading"
  /\ review = 0 /\ failed = FALSE /\ submitting = FALSE /\ left = FALSE
  /\ loading = FALSE /\ shown = 0 /\ cached = 0
  /\ chains = [k \in Captures |-> [at |-> "unused", answer |-> "none", mine |-> TRUE]]
  /\ late = {}
  /\ submits = [j \in Submits |->
       [at |-> "unused", awaits |-> "nothing", mine |-> TRUE, reviewed |-> 0,
        retried |-> FALSE, payload |-> 0, tries |-> 0]]
  /\ stored = 0 /\ verdicts = [k \in Captures |-> "unknown"] /\ passed = 0 /\ ready = 0
  /\ status = "OPEN" /\ acked = 0 /\ worker = 0 /\ accepted = 0
  /\ discarded = {} /\ met = {}

-------------------------------------------------------------------------------
(* The gate.  A closed gate unmounts the page; its promises go on.              *)

Running(k) == chains[k].at \in {"upload", "liveness", "portrait"}
HasStored(k) == Running(k) /\ (chains[k].at = "upload" => chains[k].answer = "ok")
UnderWay(j) ==
  submits[j].awaits # "nothing" \/ submits[j].at \in {"sent", "sending", "acknowledged"}

GateMoves(to) ==
  /\ ~left /\ gate # to /\ gate' = to
  /\ IF to # "closed" THEN UNCHANGED <<pageVars, chains, submits, met>>
     ELSE /\ view' = "loading" /\ review' = 0 /\ failed' = FALSE /\ submitting' = FALSE
          /\ loading' = FALSE /\ shown' = 0 /\ UNCHANGED cached
          /\ chains' = [k \in Captures |-> [chains[k] EXCEPT !.mine = chains[k].at = "unused"]]
          /\ submits' = [j \in Submits |-> [submits[j] EXCEPT !.mine = submits[j].at = "unused"]]
          /\ Meet("overtaken", (\E j \in Submits : UnderWay(j)) \/ \E k \in Captures : Running(k))
  /\ UNCHANGED <<left, late, serviceVars, callbackVars, discarded>>

\* fetchBrowserSession(): the session is gone once the transaction is completed.
Load ==
  /\ ~left /\ gate # "closed" /\ view = "loading"
  /\ \/ view' = "invalid"
     \/ status # "COMPLETED" /\ view' = "active"
  /\ UNCHANGED <<gate, review, failed, submitting, image, left, chains, late, submits,
                 serviceVars, callbackVars, discarded, met>>

-------------------------------------------------------------------------------
(* The customer.                                                                *)

UserActs == gate = "open" /\ ~left /\ view = "active" /\ UNCHANGED <<gate, view, left>>

\* A capture is previewed; processingRef lets one chain of the page run.
NewCapture(k) ==
  /\ UserActs /\ review = 0 /\ ~failed
  /\ chains[k].at = "unused" /\ \A i \in 1..(k-1) : chains[i].at # "unused"
  /\ \A i \in Captures : chains[i].mine => ~Running(i)
  /\ chains' = [chains EXCEPT ![k].at = "upload"]
  /\ UNCHANGED <<review, failed, submitting, image, late, submits, serviceVars,
                 callbackVars, discarded, met>>

\* The customer gives up the review; every submit so far belongs to the past.
GivesUp ==
  /\ discarded' = discarded \cup ({review} \ {0})
  /\ submits' = [j \in Submits |-> [submits[j] EXCEPT !.retried = submits[j].at # "unused"]]
  /\ Meet("overtaken", \E j \in Submits : UnderWay(j))
  /\ UNCHANGED <<cached, chains, late, serviceVars, callbackVars>>

\* Retry leaves the review on the screen.
BugRetry ==
  /\ UserActs /\ (review # 0 \/ failed)
  /\ failed' = FALSE /\ submitting' = FALSE /\ UNCHANGED <<review, loading, shown>>
  /\ GivesUp

\* Retry is offered during a submit, too.
Retry ==
  /\ UserActs /\ (review # 0 \/ failed)
  /\ review' = 0 /\ failed' = FALSE /\ submitting' = FALSE /\ loading' = FALSE /\ shown' = 0
  /\ GivesUp

\* The button is there as soon as the portrait is prepared.
BugSubmit(j) ==
  /\ UserActs /\ ~submitting
  /\ submits[j].at = "unused" /\ \A i \in 1..(j-1) : submits[i].at # "unused"
  /\ submitting' = TRUE
  /\ submits' = [submits EXCEPT ![j].at = "sent", ![j].awaits = "answer",
                               ![j].reviewed = review]
  /\ UNCHANGED <<review, failed, image, chains, late, serviceVars, callbackVars,
                 discarded, met>>

Submit(j) ==
  /\ UserActs /\ review # 0 /\ ~submitting
  /\ submits[j].at = "unused" /\ \A i \in 1..(j-1) : submits[i].at # "unused"
  /\ submitting' = TRUE
  /\ submits' = [submits EXCEPT ![j].at = "sent", ![j].awaits = "answer",
                               ![j].reviewed = review]
  /\ UNCHANGED <<review, failed, image, chains, late, serviceVars, callbackVars,
                 discarded, met>>

-------------------------------------------------------------------------------
(* The image of the review: GET /browser/portrait is a request like others; it   *)
(* takes no lock.  One that fails shows no more than one that is never served.   *)

\* The authorized portrait of the current capture, whichever it is when the request
\* is served.
ImageServed ==
  /\ ~left /\ loading /\ loading' = FALSE
  /\ status # "COMPLETED" /\ ready # 0
  /\ shown' = ready /\ cached' = ready
  /\ UNCHANGED <<gate, view, review, failed, submitting, left, chains, late, submits,
                 serviceVars, callbackVars, discarded, met>>

\* A browser may show an image that the document has loaded before from the same URL,
\* even one that must not be stored (HTML, list of available images).
ImageReused ==
  /\ ~left /\ loading /\ loading' = FALSE
  /\ cached # 0 /\ shown' = cached
  /\ Meet("oldImage", cached # review)
  /\ UNCHANGED <<gate, view, review, failed, submitting, cached, left, chains, late, submits,
                 serviceVars, callbackVars, discarded>>

-------------------------------------------------------------------------------
(* handleAutoProcess: upload, liveness, portrait; each awaits its answer.       *)

NextStep(at) == CASE at = "upload" -> "liveness" [] at = "liveness" -> "portrait"
                  [] at = "portrait" -> "done"

ChainGoesOn(k) ==
  /\ ~left /\ Running(k) /\ chains[k].answer = "ok"
  /\ chains' = [chains EXCEPT ![k].at = NextStep(@), ![k].answer = "none"]
  /\ IF chains[k].at = "portrait" /\ chains[k].mine
     THEN review' = k /\ loading' = TRUE
     ELSE UNCHANGED <<review, loading>>
  /\ UNCHANGED <<gate, view, failed, submitting, shown, cached, left, late, submits,
                 serviceVars, callbackVars, discarded, met>>

\* A refusal, a lost answer or the timer of the page; the request may still be
\* under way.
ChainFails(k) ==
  /\ ~left /\ Running(k) /\ chains[k].answer # "ok"
  /\ chains' = [chains EXCEPT ![k].at = "done", ![k].answer = "none"]
  /\ failed' = (failed \/ chains[k].mine)
  /\ late' = late \cup IF chains[k].answer = "none" THEN {<<chains[k].at, k>>} ELSE {}
  /\ UNCHANGED <<gate, view, review, submitting, image, left, submits, serviceVars,
                 callbackVars, discarded, met>>

ChainLoses(k) ==
  /\ ~left /\ Running(k) /\ chains[k].answer = "ok"
  /\ chains' = [chains EXCEPT ![k].at = "done", ![k].answer = "none"]
  /\ failed' = (failed \/ chains[k].mine)
  /\ UNCHANGED <<gate, view, review, submitting, image, left, late, submits, serviceVars,
                 callbackVars, discarded, met>>

-------------------------------------------------------------------------------
(* The service: a request is served while no submit holds the lock.             *)

Uploads(k) ==
  /\ stored' = k /\ passed' = 0 /\ ready' = 0 /\ UNCHANGED verdicts

\* The verdict on a capture is cached.
Evaluates(verdict) ==
  /\ stored # 0 /\ verdicts[stored] \in {"unknown", verdict}
  /\ verdicts' = [verdicts EXCEPT ![stored] = verdict]
  /\ passed' = IF verdict = "live" THEN stored ELSE passed
  /\ UNCHANGED <<stored, ready>>

Processes == stored # 0 /\ passed = stored /\ ready' = stored /\ UNCHANGED <<stored, verdicts, passed>>

Serve(op, k, answer) ==
  /\ worker = 0
  /\ \/ answer = "no" /\ UNCHANGED serviceVars   \* refused, or failed
     \/ /\ status # "COMPLETED"
        /\ \/ op = "upload" /\ answer = "ok" /\ Uploads(k)
           \/ op = "liveness" /\ answer = "ok" /\ Evaluates("live")
           \/ op = "liveness" /\ answer = "no" /\ Evaluates("other")
           \/ op = "portrait" /\ answer = "ok" /\ Processes

ServeChain(k) ==
  /\ Running(k) /\ chains[k].answer = "none"
  /\ \E answer \in {"ok", "no"} :
       /\ Serve(chains[k].at, k, answer)
       /\ chains' = [chains EXCEPT ![k].answer = answer]
  /\ UNCHANGED <<gate, pageVars, left, late, submits, callbackVars, discarded, met>>

ServeLate ==
  /\ \E r \in late, answer \in {"ok", "no"} :
       Serve(r[1], r[2], answer) /\ late' = late \ {r}
  /\ Meet("overtaken", review # 0 \/ (\E k \in Captures : HasStored(k))
                                  \/ \E j \in Submits : UnderWay(j))
  /\ UNCHANGED <<gate, pageVars, left, chains, submits, callbackVars, discarded>>

\* browser_submit up to the callback.
Refuses == status = "COMPLETED" \/ stored = 0 \/ passed # stored \/ ready # stored

ServeSubmit(j) ==
  /\ worker = 0 /\ submits[j].at = "sent"
  /\ IF Refuses
     THEN submits' = [submits EXCEPT ![j].at = "error"] /\ UNCHANGED worker
     ELSE IF acked # 0
     THEN submits' = [submits EXCEPT ![j].at = "ok"] /\ UNCHANGED worker
     ELSE /\ submits' = [submits EXCEPT ![j].at = "sending", ![j].payload = ready]
          /\ worker' = j
  /\ UNCHANGED <<gate, pageVars, left, chains, late, serviceVars, status, acked,
                 accepted, discarded, met>>

\* The consumer keeps what it took first under the event id, which names the
\* transaction only, and answers a repeat as it answered the first.
Takes(portrait) == accepted' = IF accepted = 0 THEN portrait ELSE accepted

SubmitFails(j) ==
  /\ submits' = [submits EXCEPT ![j].at = "error"]
  /\ worker' = 0 /\ status' = "CALLBACK_FAILED" /\ UNCHANGED acked
  /\ Meet("unknownOutcome", accepted' # 0)

\* One POST of send_callback.
PostAnswered(j) ==
  /\ worker = j /\ submits[j].at = "sending"
  /\ Takes(submits[j].payload)
  /\ \/ /\ acked' = submits[j].payload
        /\ submits' = [submits EXCEPT ![j].at = "acknowledged"]
        /\ UNCHANGED <<status, worker, met>>
     \/ SubmitFails(j)      \* its redirect is not allowed
  /\ UNCHANGED <<gate, pageVars, left, chains, late, serviceVars, discarded>>

\* After the last try the loop ends as after an answer.
BugPostLost(j) ==
  /\ worker = j /\ submits[j].at = "sending"
  /\ Takes(submits[j].payload) \/ UNCHANGED accepted
  /\ IF submits[j].tries < MaxRetries
     THEN /\ submits' = [submits EXCEPT ![j].tries = @ + 1]
          /\ UNCHANGED <<status, acked, worker, met>>
     ELSE /\ submits' = [submits EXCEPT ![j].at = "acknowledged"]
          /\ acked' = submits[j].payload
          /\ UNCHANGED <<status, worker, met>>
  /\ UNCHANGED <<gate, pageVars, left, chains, late, serviceVars, discarded>>

PostLost(j) ==
  /\ worker = j /\ submits[j].at = "sending"
  /\ Takes(submits[j].payload) \/ UNCHANGED accepted
  /\ IF submits[j].tries < MaxRetries
     THEN /\ submits' = [submits EXCEPT ![j].tries = @ + 1]
          /\ UNCHANGED <<status, acked, worker, met>>
     ELSE SubmitFails(j)
  /\ UNCHANGED <<gate, pageVars, left, chains, late, serviceVars, discarded>>

\* Every answer of the consumer counts as an acknowledgement.
BugPostRefused(j) ==
  /\ worker = j /\ submits[j].at = "sending"
  /\ acked' = submits[j].payload
  /\ submits' = [submits EXCEPT ![j].at = "acknowledged"]
  /\ UNCHANGED <<gate, pageVars, left, chains, late, serviceVars, status, worker, accepted,
                 discarded, met>>

PostRefused(j) ==
  /\ worker = j /\ submits[j].at = "sending"
  /\ UNCHANGED accepted /\ SubmitFails(j)
  /\ UNCHANGED <<gate, pageVars, left, chains, late, serviceVars, discarded>>

\* The status is not written after the acknowledgement.
BugComplete(j) ==
  /\ worker = j /\ submits[j].at = "acknowledged"
  /\ worker' = 0 /\ submits' = [submits EXCEPT ![j].at = "ok"]
  /\ UNCHANGED <<gate, pageVars, left, chains, late, serviceVars, status, acked,
                 accepted, discarded, met>>

\* COMPLETED is stored and the session is revoked.
Complete(j) ==
  /\ worker = j /\ submits[j].at = "acknowledged"
  /\ status' = "COMPLETED" /\ worker' = 0
  /\ submits' = [submits EXCEPT ![j].at = "ok"]
  /\ UNCHANGED <<gate, pageVars, left, chains, late, serviceVars, acked, accepted,
                 discarded, met>>

\* The operating system releases the lock of a worker that dies.
Crash(j) ==
  /\ worker = j /\ worker' = 0
  /\ submits' = [submits EXCEPT ![j].at = "lost"]
  /\ met' = met \cup {"crash"} \cup IF accepted # 0 THEN {"unknownOutcome"} ELSE {}
  /\ UNCHANGED <<gate, pageVars, left, chains, late, serviceVars, status, acked,
                 accepted, discarded>>

-------------------------------------------------------------------------------
(* The answers of a submit at the page.                                         *)

\* The timer ends with the headers of an answer, and the connection keeps the rest back.
SubmitStalls(j) ==
  /\ ~left /\ submits[j].awaits = "answer" /\ submits[j].at \in {"ok", "error"}
  /\ submits' = [submits EXCEPT ![j].awaits = "body"]
  /\ UNCHANGED <<gate, pageVars, left, chains, late, serviceVars, callbackVars, discarded, met>>

SubmitSucceeds(j) ==
  /\ ~left /\ submits[j].awaits # "nothing" /\ submits[j].at = "ok"
  /\ left' = TRUE
  /\ submits' = [submits EXCEPT ![j].awaits = "nothing"]
  /\ UNCHANGED <<gate, pageVars, chains, late, serviceVars, callbackVars, discarded, met>>

\* submit() forgets to reset submitting in its catch clause.
BugSubmitGivenUp(j) ==
  /\ ~left /\ submits[j].awaits # "nothing"
  /\ submits' = [submits EXCEPT ![j].awaits = "nothing"]
  /\ UNCHANGED <<gate, pageVars, left, chains, late, serviceVars, callbackVars,
                 discarded, met>>

\* A failure, an error, or before the headers the timer of the page, whatever the
\* service does meanwhile.
SubmitGivenUp(j) ==
  /\ ~left /\ submits[j].awaits # "nothing"
  /\ submits' = [submits EXCEPT ![j].awaits = "nothing"]
  /\ submitting' = (submitting /\ ~submits[j].mine)
  /\ UNCHANGED <<gate, view, review, failed, image, left, chains, late, serviceVars,
                 callbackVars, discarded, met>>

-------------------------------------------------------------------------------
PageSteps ==
  \/ \E to \in {"open", "covered", "closed"} : GateMoves(to)
  \/ Load \/ Retry \/ ImageServed \/ ImageReused
  \/ \E k \in Captures : NewCapture(k) \/ ChainGoesOn(k) \/ ChainFails(k) \/ ChainLoses(k)
  \/ \E j \in Submits : \/ Submit(j) \/ SubmitStalls(j)
                        \/ SubmitSucceeds(j) \/ SubmitGivenUp(j)

ServiceSteps ==
  \/ ServeLate
  \/ \E k \in Captures : ServeChain(k)
  \/ \E j \in Submits : \/ ServeSubmit(j) \/ PostAnswered(j) \/ PostLost(j)
                        \/ PostRefused(j) \/ Complete(j) \/ Crash(j)

Next == PageSteps \/ ServiceSteps

\* The timer of the page (client.ts) ends the wait for the headers of an answer, and a
\* body that is not held back is read.  A worker that lives reaches the end of its
\* handler; nothing is assumed of the callback and of the chains.
Fairness ==
  \A j \in Submits :
    /\ WF_vars(submits[j].awaits = "answer" /\ (SubmitSucceeds(j) \/ SubmitGivenUp(j)))
    /\ WF_vars(Complete(j))

Spec == Init /\ [][Next]_vars /\ Fairness

-------------------------------------------------------------------------------
(* Properties.                                                                  *)

\* Values of the variables.
Chains == [at : {"unused", "upload", "liveness", "portrait", "done"},
           answer : {"none", "ok", "no"}, mine : BOOLEAN]

Calls == [at : {"unused", "sent", "sending", "acknowledged", "ok", "error", "lost"},
          awaits : {"nothing", "answer", "body"}, mine : BOOLEAN,
          reviewed : Portrait, retried : BOOLEAN, payload : Portrait,
          tries : 0..MaxRetries]

PageTypes ==
  /\ gate \in {"open", "covered", "closed"} /\ view \in {"loading", "invalid", "active"}
  /\ review \in Portrait /\ failed \in BOOLEAN /\ submitting \in BOOLEAN /\ left \in BOOLEAN
  /\ loading \in BOOLEAN /\ shown \in Portrait /\ cached \in Portrait
  /\ discarded \subseteq Captures /\ met \subseteq Hazards

ServiceTypes ==
  /\ late \subseteq {"upload", "liveness", "portrait"} \X Captures
  /\ stored \in Portrait /\ passed \in Portrait /\ ready \in Portrait
  /\ verdicts \in [Captures -> {"unknown", "live", "other"}]
  /\ status \in {"OPEN", "CALLBACK_FAILED", "COMPLETED"}
  /\ acked \in Portrait /\ accepted \in Portrait /\ worker \in 0..MaxSubmits

TypeOK ==
  /\ PageTypes /\ ServiceTypes
  /\ chains \in [Captures -> Chains] /\ submits \in [Submits -> Calls]

\* The consumer takes the portrait of the capture that was under review when Submit was
\* pressed, but for behaviours in which a request or a chain overtook the review
\* (IntegrationPage.tsx:125, client.ts:36), or the review was given up during a submit
\* (IntegrationPage.tsx:180).
DeliveredWasReviewed ==
  accepted # 0 => "overtaken" \in met \/ \E j \in Submits : submits[j].reviewed = accepted

\* The image of a review, once it is there, is of the portrait under review, under the
\* same exception and unless the browser reused an older image.
ImageIsOfReview == shown \in {0, review} \/ met \cap {"overtaken", "oldImage"} # {}

\* IntegrationPage.tsx:240: "the portrait - not the raw capture - is what the customer
\* reviews".  The button is there before the image is.
SubmittedWasSeen ==
  [][\A j \in Submits : submits[j].at = "unused" /\ submits'[j].at = "sent" => shown # 0]_vars

\* What the service records as acknowledged is what the consumer took: unless a
\* submit failed while the consumer held a portrait.
AckedIsAcceptedIfKnown ==
  acked # 0 => acked = accepted \/ "unknownOutcome" \in met

\* The contract (CALLBACK_CONTRACT.md): "the same event_id is retried", so that
\* what is acknowledged is what the consumer took, also after a failed submit.
AckedIsAccepted == acked # 0 => acked = accepted

\* The review on the screen when the customer is sent on is of the portrait delivered,
\* in behaviours without hazards.
SentOnWithReviewed == left /\ met = {} => review = accepted

\* A portrait that the customer has given up with Retry reaches the consumer through no
\* submit that was pressed after that Retry, whatever requests and chains are late
\* (IntegrationPage.tsx:180-189).
GivenUpIsNotResubmitted ==
  [][accepted' # accepted /\ accepted' \in discarded => submits[worker].retried]_vars

\* IntegrationPage.tsx:182: "The previous portrait is not submitted."  It is, by a submit
\* that was under way when Retry was pressed.
PreviousNotSubmitted == [][accepted' # accepted => accepted' \notin discarded]_vars

\* The promise of the service to the consumer and to the customer.
D == INSTANCE Delivery WITH
       taken <- accepted # 0, recorded <- acked # 0,
       completed <- status = "COMPLETED", confirmed <- left

ImplementsDelivery == D!Spec

\* "Submitting" ends: the customer is sent on or may press Submit again, unless the body
\* of an answer is held back (client.ts:43, 102).
SubmitEnds ==
  submitting ~> (~submitting \/ left \/ \E j \in Submits : submits[j].awaits = "body")

\* An acknowledged submit completes its transaction unless its worker died.
CompletesIfAlive == acked # 0 ~> (status = "COMPLETED" \/ "crash" \in met)

===============================================================================
