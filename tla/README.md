# LivePhoto: a verification development

TLA+ models of the LivePhoto service (`src/backend/app`, FastAPI) and of its page
(`src/frontend/src`, React), model-checked with TLC; most safety properties are also proved, with
TLAPS.
A bank creates a transaction, the customer opens its launch link, takes a photo, the service asks
a vision model whether the photo shows a live person, cuts a portrait from it and delivers the
portrait to the bank by a callback. The promise that matters: *the bank only ever receives a
portrait of a photo that was accepted, of the capture the customer made last, and at most until
it has acknowledged one.* Every step of it is an HTTP request that reads and writes files of a
per-transaction folder, in several workers, with a lock that is not held while the vision model
or the portrait pipeline is at work; every one of them comes from a page whose promises, camera and network answer
when they like.

Paths below are relative to `src/backend/app/` (backend) and `src/frontend/src/` (page).

## Inventory

| Component | State | Operations | What is hard | What makes it correct |
|---|---|---|---|---|
| Browser API `api/v1/browser.py`, `api/deps.py` | none of its own: the folder of the transaction, the callback file | `attempts`, `capture`, `liveness`, `portrait`, `submit`, two GETs | checks made without the lock, work done between two acquisitions of it, several files written in a row | only the current, accepted capture is delivered; terminal means terminal |
| Liveness gate `experiments/vlm/liveness.py` | `liveness/<identity>.json`, claims, `portrait/authorization.json` | claim, evaluate, persist, decide, invalidate, authorize, compare with the snapshot | claims without owner that go stale, answers for a capture that was replaced, cached results | single flight, no stale PASS, cached = decided |
| Transaction store `transactions/store.py`, `decisions.py`, `ids.py` | `transaction.json`, artifacts, `.lock` | create, lock (`flock`), atomic replacement of a file, status life cycle | a process dies between two files; `flock` blocks its caller | terminal statuses are not left; the lock is exclusive |
| Attempt counter `integrations/attempts.py` | `attempts/attempts.json` | register (consume, mark the upload), limit | two endpoints count the same attempt; status and counter are two files | no upload beyond the limit, no second upload of an attempt |
| Callback `integrations/callback.py` | callback state file | send with retries, validate the redirect | lost answers, crash after the acknowledgement, the event id does not depend on the capture | once acknowledged never sent again; what is acknowledged is completed |
| Launch and session `integrations/launch.py`, `browser_session.py`, `store.py`, `api/xbiz.py` | launch tokens, sessions, `active-session.json`, list of active tokens, external index | create, reissue, redeem, resolve, revoke | token bookkeeping outside the lock, status read outside the lock, crash between session and its pointer | one transaction per external id; one link works until it expires or is reissued (it may be opened again and again); one active session, none of a finished transaction |
| Status API `integrations/status.py`, `api/v1/integration.py` | none | map statuses for the bank | - | the mapping is total and monotone |
| Experiment flow `api/v1/transactions.py`, `experiments.py`, `dev.py` | the same folder | evaluate behind a claim, store a result of the experiment endpoint, process the portrait | the lock is taken by the evaluation only, statuses are saved and restored | a verdict is final, the portrait gate follows it, the status at rest is true |
| Workers | event loops, threads, `flock` | uvicorn runs `async` handlers on the loop, `def` handlers in threads | a blocking lock on the loop, held across an await | every request is answered |
| VLM service and providers `experiments/vlm/service.py`, `providers/vision/` | none | admit a request, call, repeat, parse, map to an outcome | five adapters with errors of their own, contradictory counts of persons, repeated calls against the claim timeout | only a complete, coherent LIVE is a PASS, whatever fails |
| Portrait pipeline `portrait/` | candidate and processed files | matte, integrity, crop, encode | integer arithmetic at the edges of a picture, refinement that damages the matte | no portrait without a sound matte; the frame lies in the picture, keeps its shape, cuts no hair |
| Capture flow and camera `features/capture/hooks/`, `capture/state/` | phase, camera session, captured photo | start, switch, capture, retake, reset, visibility, track ended | several awaits per operation, a phase that comes back, camera streams that arrive late | an attempt is reported once and uploaded with its own frames, no live stream is leaked, every wait ends |
| Connectivity gate `features/connectivity/`, `core/browser_policy.py` | status, epoch, probe in flight | probe, online, offline, retry, evaluate the browser | answers and events out of order, a body that never comes, user agents that name several browsers | an offline event is not overwritten by an older answer, no online event is lost; only browsers that the answered policy admits pass |
| Integration page `features/integration/` | view, review, submit state | load, auto-process, retry, submit | Retry or a new page while a submit or a chain is in flight, requests served after their timer, an image that loads on its own | the consumer gets the capture that was under review when Submit was pressed |
| Quality engine, guidance `features/capture/quality/` | stabilized advice, assessments of a burst | analyse, rank, guide | thresholds, several faces, an analysis that outlives its preview | advice and disposition agree, the best eligible frame is submitted |

Requests of one transaction meet in its folder; requests of several transactions meet on the event
loop of their worker. The page talks to the API by HTTP only and sees nothing but answers.

## Modules

| Module | Models | State and actions |
|---|---|---|
| `CaptureTransaction` | one transaction: folder, lock, all browser handlers | below |
| `CaptureTransactionInv` | its inductive invariants and the refinement of the contract | `ControlInv`, `IInv`, `ClaimInv`, `CacheInv`, `Contract` |
| `CaptureContract` | what the consumer may rely on | `Supersede`, `Accept`, `Deliver`, `Close` |
| `MCCaptureTransaction` | instances for TLC | symmetry, sets of fault points |
| `CaptureTransaction_proofs` | theorems about the first two | |
| `WorkerLoop` | event loops, threads and `flock` of all transactions | `Send`, `Run`, `TakeLock`, `GiveLock`, `Await`, `Event`, `Answer` |
| `WorkerLoop_proofs` | theorem about it | |
| `LaunchSession` | one external transaction of a bank: index, launch links, browser sessions | `Create*`, `Reissue*`, `Redeem*`, `Submit*`, expiry |
| `LaunchSessionInv` | its inductive invariants | `ClaimInv`, `SessionInv`, `LinkInv`, `LaunchInv` |
| `MCLaunchSession` | instances for TLC | symmetry, sets of fault points |
| `LaunchSession_proofs` | theorems about the first two | |
| `FlowPhases` | the transition table of the capture page | `AllowedFrom`, `Target` |
| `CaptureFlow` | camera hook, capture hook and upload effect of the page | `Camera`, `Work`, `User`, `Browser` |
| `CaptureFlowInv`, `CaptureFlow_proofs` | its inductive invariant and theorems | |
| `SubmitJourney` | integration page, service and consumer, and the network between them | `PageSteps`, `ServiceSteps` |
| `Delivery` | what Submit promises | `Take`, `Confirm` |
| `SubmitJourneyInv`, `SubmitJourney_proofs` | its inductive invariant and theorems | |
| `BrowserPolicy` | recognition of a user agent, its evaluation | operators |
| `Connectivity` | the gate of the page | `Flip`, `Offline`, `Online`, `Retry`, `Headers`, `Stall`, `Answer` |
| `MCConnectivity`, `Connectivity_proofs` | an instance, theorems | |
| `QualityRules` | one frame, the frames of a burst | operators |
| `LiveQuality`, `MCLiveQuality` | preview loop and analysis of a burst, an instance | `Tick`, `Analysed`, `AssessBurstFrame`, ... |
| `LiveQualityInv`, `LiveQuality_proofs` | its inductive invariant and theorems | `BurstInv`, `PreviewInv`, `RunInv` |
| `VisionProvider` | adapters, limits, replies and errors of the VLM service | operators, `Evaluated` and `Repeated` above all |
| `PortraitGeometry` | face box, choice of the matte, frame of the portrait | operators, `PassportCrop` above all |
| `ExperimentTransaction` | the standalone transaction, over these two | `Liveness`, `Experiment*`, `Portrait` |
| `ExperimentTransactionInv`, `MCExperimentTransaction`, `ExperimentTransaction_proofs` | its inductive invariant, an instance, theorems | |

### CaptureTransaction

A variable is a file, or a field of one: `status` is `transaction.json`; `consumed` and `uploaded`
are the two lists of `attempts.json`; `image` is `capture/selected-original.jpg` and `meta` its
`capture.json`; `evals` and `evalClaim` are the files of the liveness gate, one of each per identity
(an identity is the pair of attempt id and image hash that the code hashes); `decision`,
`candidate`, `portrait`, `auth`, `callback` are the files of those names. `session` is the active
browser session. `lock` is the holder of `.lock`. An image is its SHA-256; a portrait is named by
the image and by the face box it was made from, the box by the attempt that sent it. `approved`
and `delivered` are what the outside world has seen.

A request (`pc`, and the locals `key`, `box`, `seen`, `num`) takes the steps of its handler. A new
step begins where another worker can see the difference: at a read without the lock, at the
acquisition of the lock, after every file that is replaced while it is held. So the terminal check of a
capture (`CaptureAdmit`) and its registration (`CaptureRegister`) are two steps, and between the
image (`CaptureImage`) and `capture.json` (`CaptureMeta`) a request can die. Handlers map to
actions by their names: `Attempt*`, `Capture*`, `Liveness*`, `Portrait*`, `Submit*`; `Redeem*` is the
part of the launch that creates the session. `Fault` is the death of a request: the process is killed
or a write fails; the kernel gives the lock back, claims and files stay. `EvalClaimExpires` and
`PortraitClaimExpires` are the passing of the claim timeout.

Data is abstracted to what the properties tell apart: a verdict is PASS, NOT_PASS, an error payload
or an exception; the portrait pipeline writes its candidate or raises; the callback is one step that
reaches the consumer or not and is acknowledged or not (retries included). Warning stages, reason
codes, metrics, CSRF and the wording of answers are left out. A terminal session admits no
handler and is not distinguished from none.

### WorkerLoop

`CaptureTransaction` lets every request take its steps at any time. That is not so in a worker:
async handlers share its event loop, leave it at an await only, and `lock_transaction` is an `flock`
that blocks the caller, loop included. `Script` gives the order of lock, await and unlock of each
handler; `POST /attempts` is declared with `def` and runs in a thread. `Impatient` tells whether a
page may send its next request before the previous one is answered: the page's client gives up after
15 s (`api/client.ts:36`), the handler does not.

### LaunchSession

`CaptureTransaction` takes the active session for granted (`RedeemCheck`, `RedeemCreate`). Here it is
made. `mapping`, `token` and `session` are the three directories of the index (`integrations/store.py`)
as far as one external id goes; `status`, `launches` and `pointer` are `transaction.json`,
`launch/active-launches.json` and `browser/active-session.json` in the folder of each internal
transaction, of which a broken claim would make more than one. Tokens are drawn at random and never
twice (`drawn`); `given` are those that an answer has carried to a bank or a browser, the only ones
that anybody can present. A create holds the lock of the external id up to the mapping and then stores
token and list entry with no lock (`CreateStore`, `CreateList`, `CreateAppend`); a reissue removes every
listed token and stores its own under the lock of the transaction; a redemption reads token and status
without a lock, then replaces the session under it; a submit is its status check, COMPLETED (which
stands for every terminal status) and the revocation. A record that has expired is removed by whoever
finds it: expiry is removal. The two switches `EarlyReissue` (the bank reissues before its create is
answered) and `RemovalFails` (an error on removing a session file, which the code passes over) are the
assumptions the properties turn on. The two modules share no state in TLC: what
`CaptureTransaction` needs of this one, at most one active session per transaction, is
`OneActiveSession`.

### CaptureFlow

A browser runs one continuation at a time, so a step is what runs between two awaits. `requests` are
the calls of `getUserMedia`, with the place where each awaits: the grant, `loadedmetadata`, `play()`,
the list of devices. `cam` is the refs of `useCamera` and the set `live` of streams whose track runs.
The generation counter of the hook is only compared for equality, so `cam.current` is the request that
has the current generation, 0 after a stop. `captures` are the presses of Capture, in their burst
or analysis; a capture is the id of its attempt as well as of its frames, which are the same as long
as nothing overtakes it. `attemptId`, `bundle` and `abortRef` are the refs that continuations read when
they come back. `Offers` is what the screen of each phase lets the user press. `TrackEnds`,
`VisibilityHidden`, `PageHide` and `Unmount` come at any time.

### Met

Some races of the page and of the experiment flow are what the code does. A property that would be refuted by
them alone says nothing about the rest; so the modules of the page and of the experiment flow keep a set `met`
of the hazards a behaviour has met, each named where the variable is declared, and a property names the ones it
excepts: it does not cover those cases. `met` guards no action. Some of them are also at odds with a comment of the
code (`useCaptureFlow.ts:4-6` says of the reducer that "races cannot drive impossible combinations",
`useCaptureFlow.ts:280`, `useCaptureFlow.ts:475`, `IntegrationPage.tsx:182`); those are among the
disagreements below.

### SubmitJourney

One module for what happens between the preview of a capture and the callback. The page sends a chain
of upload, liveness and portrait and, when the customer presses it, a submit; it gives up each by a
timer (`client.ts:36`), and what it gave up may still be served (`late`, or a submit that is `sent` while the
page `awaits` nothing). The timer ends with the headers of an answer (`client.ts:102`); a body that is held back
after them (`SubmitStalls`) is awaited without one. The gate of `Connectivity` covers the page or replaces it; promises of a replaced page go on
(`mine`). The handlers are taken whole while no submit holds the lock: what happens between their steps is
`CaptureTransaction`'s subject. The submit itself has the steps of `browser_submit` and
`send_callback`: POST, retries, acknowledgement, COMPLETED; a worker may die in it. The consumer
deduplicates by the event id, as the documents ask of it: it keeps the first portrait and answers a
repeat as it answered the first. A portrait is named by its capture.

The image of a review is one more request, for a constant URL (`IntegrationPage.tsx:170`, `GET /portrait`):
`loading` until it is served (`ImageServed`, with whatever portrait the service has ready by then) or taken from
the document's list of images (`ImageReused`); it may also never be. Nothing waits for it: Submit is offered as
soon as the chain has ended. So what the page knows is which capture is under `review`, and that is what
a submit remembers (`reviewed`); `retried` marks the submits that were pressed before the last Retry. The
hazards are `overtaken` (a request that was given up, or a chain of a replaced page, acts on a later review),
`oldImage`, `unknownOutcome` (a submit failed although the consumer holds a portrait) and `crash`.

### Connectivity and BrowserPolicy

A user agent is a function from the tokens it contains to their numbers. `online` is `navigator.onLine`, which
changes before the page is told (`Flip`): `unheard` counts the changes whose events are still to come, in
their order. `probe` is where the running probe is (sent, headers there, body held back); it is `stale` once an
OFFLINE event has raised the epoch: the code compares epochs for equality only, and one probe runs at a time. An ONLINE
event during any probe, a fresh one too, queues a recheck (`pending`); "Try again" is dropped then. `answered` is
the policy that the last valid answer carried. `Gate` is what `ConnectivityGate` renders; `SubmitJourney` lets it move in any
order, which is more than `Connectivity` allows.

### QualityRules and LiveQuality

Metrics of pixels are numbers a picture has; positions and ratios are percentages, distances are
compared by their squares, scores are rounded down to percentages. From them on everything is computed as the
code does: participating faces, primary face, reasons, scores, disposition, advice, and for the
frames of a burst the aggregated reasons, the disposition and the ranking. `LiveQuality` is the loop
around it: one analysis at a time, the stabilizer, the end of the preview while an analysis runs. A picture
(`Pictures`) has a share of 0 to 100 of dark and of bright pixels and a mean as large, any contrast and
sharpness, any number of faces, none if the detector did not answer, and the faces of the landmarker, at most
four (`Landmarks`, `NumFaces`), which is a model of its own and may see others than the detector; the constants
are sets of such pictures (`FramesAssumption`). `FaceOfEyes` is the match the code makes between the two. A ratio below zero scores 0, as `clamp01` has it.

### ExperimentTransaction

The flow of the standalone page, where transaction and capture are created together and the capture is
never replaced. A liveness request takes the lock for its claim, calls the provider without it, and takes
the lock again for record, `vlm/result.json` and status. The experiment endpoint writes the last two
without a lock, and so does the portrait run, which saves the status it finds and restores it when the
portrait is rejected. Time is counted in half seconds from the claim to the end of the last call: a call lasts its
timeout, or, since httpx applies that number to the connection, the request and each read of the answer by
itself (`groq_provider.py:41`, `openrouter_provider.py:42`, `local_provider.py:61`), longer than any claim
(`Outlasting`, which adds `slow` to `met`); a failed call is repeated after a delay that doubles. A claim that has
outlived `ClaimTimeout` may be taken over by anyone, also from a request that lives. `view` is the picture together with the face box a portrait run
goes by: the stored one, or if there is none that of its request, so that two runs of one transaction may
cut different frames.

### VisionProvider and PortraitGeometry

`VisionProvider` follows a request through `VlmEvaluationService` and an adapter: `Refused` is what is turned away
before a call (a provider that is not configured, a wrong number of frames, too many or too large images),
`Code` the error a reply is turned into, `Repeated` whether the call is made again, `Evaluated` the result.
A reply is a text, an empty or misshaped body, an HTTP status, a timeout, a broken connection or
another exception; a text has the three fields that count, each possibly missing, and whether the rest conforms.
Sizes are in megabytes; for an OpenAI-compatible provider any status below 400 that is not a success is
the unknown error. The mock's behaviours are `MockAnswers`.

`PortraitGeometry` is the arithmetic of `portrait/` in integers: `int()` of a quotient is `\div`, `round()`
goes to the even neighbour (`Tenth`, which is the weighted centre of face and shoulders). What is measured on
pixels (retention of face and head, balance, the box of the foreground) is a number that a matte has.
Not modelled: the code computes in binary floating point, so where an exact quotient is a whole number, or a half,
its result may be the neighbour of the model's; a matte of another shape than the picture, which
`segmentation.py` does not produce and the processor turns into an error; and a crop without a face box, which
both flows refuse earlier.

## Runs

| Run | Instance | Checks |
|---|---|---|
| `capture` | 2 requests, 3 attempts, 2 images, limit 3, 1 death at any step but two, 2 evaluations, claim timeout longer than the provider call | safety of one transaction and its contract |
| `worker_loop` | 3 requests, 2 transactions, 2 workers, patient pages | no loop waits for a loop; every request is answered |
| `launch` | 2 requests, 2 internal ids, 3 tokens, 3 sessions, deaths at any step, no early reissue, removals succeed | `OneTransaction`, `OneActiveSession`, `OneLiveLaunch` |
| `capture_flow` | 2 camera requests (each with a fallback stream), 3 captures | seven invariants of the page; `Settles` |
| `submit` | 2 captures, 2 submits, 1 retry of the callback | delivery, `ImplementsDelivery`; `SubmitEnds`, `CompletesIfAlive` |
| `connectivity` | user agents of up to 3 of 8 tokens with 3 values each, 3 policies, 2 network events on their way | the gate; `Recovers` |
| `quality` | 16 scenes of faces and landmarks with 10 lights and flaws, 6 kinds of burst frames and one that cannot be decoded, bursts of 5 | agreement of advice, disposition, ranking |
| `experiment` | 3 requests, 14 replies, 5 providers, 4 sets of frames, 8 pictures, 1 retry, calls as long as their timeout or longer than a claim, deaths at any step | final verdict, portrait gate that fails closed, frame of the portrait, status |
| `completed_regress` | 2 attempts, limit 2, no death | counterexample to `CompletedStaysCompleted` |
| `torn_capture` | a death before `capture.json` | counterexample to `UnapprovedNeverDelivered` |
| `blocked_loop` | 2 requests, 1 transaction, 1 worker, an impatient page | counterexample to `AllAnswered` |
| `wrong_eyes` | as `quality` | counterexample to `EyesOfPrimary` |

What `capture` shows, each against a mutant of the code that breaks it:
`DeliveredApproved` and `PassIsForStoredImage` (no verdict on one image authorizes another,
whatever was replaced while the provider or the pipeline worked), `SingleFlight` (one provider
call per capture), `CachedPassIsDecided` (a browser answered from the cache can go on),
`TerminalStopsSubmission`, `AcknowledgedOnce`, `LimitStopsUploads`, `IdentityNeverRecurs` (a
capture never inherits cached results) and `ImplementsContract`. The inductive invariants
of `CaptureTransactionInv` were checked on the same instance before they were proved.

*Bounds.* Two requests are enough for every race between two handlers, which is what the code
guards against pairwise by its lock and claims; three attempts with limit 3 give a capture, its
replacement and the attempt that reaches the limit; two images distinguish right from wrong; two
evaluations give a stale answer and a fresh one. Attempts, images and requests are
interchangeable, so the symmetry is sound: no property under it is a liveness property. `MaxFaults`
bounds deaths, `MaxEvaluations` bounds provider calls (and the decision ids they mint). The proofs do
not depend on the bounds on requests, attempts, images and deaths.

What `launch` shows: two creates of one external id make one transaction (a second internal id is
there to be taken by mistake); however redemptions overlap, and wherever one dies, one browser holds an
active session; however creates, reissues and deaths follow one another, one link works. Three tokens
are a first link and two reissues, three sessions a redemption and two that overlap; both are used up in
the run. A request that finds no secret left to draw waits until it dies, so the bound stops no one.

What `capture_flow` shows: whatever answers late, an attempt is reported once and uploaded with the frames
it was reported for; a review shows the frames of its attempt unless a capture was started while an earlier
one was pending; whoever gives up a stream stops it; the camera screen has a camera; a hidden page
releases it; the reducer is never asked for a transition it refuses; and every wait ends. Two camera
requests make a request and one that overtakes it, three captures two that overlap and a third
beside what they leave; a switch and its fallback are two streams.

What `submit` shows: unless a late request or a new page has overtaken a review, the portrait the consumer takes
is of the capture that was under review when Submit was pressed; one that was given up with Retry is delivered by
no submit that was pressed afterwards (by one that was under way it is: `PreviousNotSubmitted` below); a retry or
a second submit changes nothing the consumer holds; "Submitting…" ends unless the body of an answer is held back;
and an acknowledged submit is completed by a worker that lives. That the customer has seen the portrait is not
shown, because the page does not wait for it. Two captures are a portrait and the one that replaces it; two submits and one retry are a
lost answer and its repeat, within one submit and across two.

What `connectivity` shows: only the answer of a probe that no OFFLINE event has overtaken and that has no recheck
queued opens the gate, and only for a user agent with a token that an enabled family of the policy in that answer
asks for, with a number that is high enough, and not masked by the token of a browser that only pretends; an ONLINE
event leads to a check whenever it comes. Two events on their way are the network that goes and comes
back before the page is told of either. Three tokens make every conflict between two rules of the recognition with one more
token beside it; the policies lie on both sides of the numbers.

What `quality` shows: "Ready to capture" is advised for pictures that a burst would accept, of one participating
person, in which somebody's eyes are open (whose is the subject of `wrong_eyes`), except those that are too small; advice is what the last analyses of this preview saw; the frame of a
ready burst is eligible and no eligible one is better, nor as good with a surer face. The pictures have each metric at its threshold and
beyond it, and at most one flaw besides those of the faces: two flaws only compete for the advice.

What `experiment` shows: however often a call is repeated and whoever dies, no verdict replaces another as long as
every call keeps to its timeout; under the same condition the portrait gate is open for an eligible verdict only, and
for whoever was told PASS (but for results of the experiment endpoint and deaths). Calls that take longer are in
the run too, and the other properties hold with them: nobody is told PASS and no portrait is begun before a provider has said,
completely, that a live person is there; a stored portrait is well framed; at rest `PORTRAIT_READY` has its
files and no run is announced that nobody makes. Three requests are an evaluation that is taken over, or two
portrait runs beside a result of the experiment endpoint; one retry reaches the bound of the claim timeout. The
replies have an assessment of each outcome, a contradiction, a missing field, a field too many, and every kind
of failure with statuses on both sides of the tables; the frames are admitted, too large together, or of
a wrong number. The pictures are upright, wide and tiny, with a refinement that is used, that damages the face, a
broken matte and a lost foreground; the wide one is there with two face boxes and without one.

*Fault points.* `capture` excludes a death between the image and `capture.json`, and between the
cached verdict and the decision. The first is the subject of `torn_capture`. The second leaves a
cached PASS without a decision: later liveness requests of that capture are answered PASS from the
cache, portrait requests NOT_READY; the customer must take a new photo. Both assumptions are
written in the theorems that need them.

*Deadlock* is checked in `capture`, `worker_loop`, `launch` and `connectivity`. In `WorkerLoop` it means a request that is
never served: `Idle` lets the system rest only when every request was sent and answered. The other
modules come to rest when their bounds are used up or their journey has ended, so it is not checked there.

*Fairness.* In `WorkerLoop`, weak fairness of `Serve(r)` for every request: an event loop runs what is ready,
the kernel grants a free lock, and every await of a handler ends: the timeouts of body, provider and callback bound
each phase and each read, so what is assumed is that no peer sends its answer in drips for ever. Weak fairness suffices since each request takes a bounded number of steps and a free
lock is passed on to one of finitely many waiters. In `CaptureFlow`, of the continuations of every camera
request and capture: loading has a timer of 5 s and bursts and analyses are computations; `getUserMedia` and
`play()` are assumed to be answered, that is, that somebody answers the permission prompt. In
`SubmitJourney`, of the wait for the headers of an answer, which the page's timer ends, and of the steps of a worker
that lives; nobody is assumed to serve a request in time, and nothing is assumed of a body that is held back. In
`Connectivity`, of a probe whose body is not held back (its timer ends the wait for the headers, and a
body that arrives is read), and of the events of the network, which the browser delivers. No user is assumed to
press anything.

## Where the code and its documents disagree

Shown by a run:

1. *COMPLETED is not final* (`completed_regress`). `store.py:220` calls terminal states sticky, but one
   terminal status replaces another: an attempt that waits for the lock while a submit completes the
   transaction, and reaches the limit, turns COMPLETED into ATTEMPT_LIMIT_EXCEEDED, which the status
   API then reports to the bank that has acknowledged the delivery.
2. *A torn capture is authorized* (`torn_capture`). `browser.py:259` calls the block atomic; a death
   between its first two writes pairs the new image with the PASS of the old one, and the new image
   goes through portrait and submit without an evaluation.
3. *A submit can stop its worker* (`blocked_loop`). The callback is awaited with the lock held; another
   request of the transaction on the same loop then blocks the loop in `flock`, so the answer of
   the callback is never seen. The documents expect a delay. The shipped image runs one worker.
4. *The eyes of another face decide* (`wrong_eyes`). The landmarks are relative to the picture, the box of
   the primary face is in pixels (`MediaPipeFaceLandmarker.ts:106-118`); with a small face in the
   background, its eyes may be the ones that are judged. The test of the function gives both in pixels.

Stated in a module and refuted when the named property is put into a cfg, without a run of their own:

5. *Terminal is not terminal for a capture* (`TerminalStopsCapture`, `CaptureTransaction`).
   `store.py:68` says that "capture/attempts cannot restart"; the check of `browser_capture`
   (`browser.py:248`) precedes the await of the body and is not repeated under the lock.
6. *A stale face box is used* (`FaceBoxIsOfCapture`, `CaptureTransaction`). `liveness.py:205` rules it out;
   `browser.py:486` reads the box before it takes the lock. It needs two workers.
7. *A reissue does not revoke the link that is being created* (`OneLiveLaunch` with `EarlyReissue = TRUE`).
   `launch.py:5` says that a reissue "revokes previous active launch tokens"; `create_launch` stores its
   token after it has released its lock (`launch.py:149`).
8. *An active session of a completed transaction* (`CompletedIsRevoked`, `LaunchSession`).
   `docs/CALLBACK_CONTRACT.md:53` says that session state is revoked; a redemption reads the status
   (`browser_session.py:106`) before it waits for the lock of the submit.
9. *The acknowledged portrait is not the one the consumer holds* (`AckedIsAccepted`, `SubmitJourney`). The event
   id names the transaction only (`callback.py:47`), `docs/API_CONTRACT.md:168` calls it "unique per event":
   after a submit whose outcome is unknown and a new capture, a consumer that deduplicates keeps the
   first portrait while the service records the second as acknowledged.
10. *A stopped camera is offered for resumption* (`ResumableHasCamera`, `CaptureFlow`).
    `docs/FEATURE_FLOW_ARCHITECTURE.md:170` says of `ANALYSIS_UNAVAILABLE` "camera stream stays
    recoverable"; `useCaptureFlow.ts:389` stops the camera and leaves `canRetryStream` as it was.
11. *The portrait is submitted unseen* (`SubmittedWasSeen`, `SubmitJourney`). `IntegrationPage.tsx:240` says that
    "the portrait - not the raw capture - is what the customer reviews"; the button is there as soon as the
    portrait is prepared, whether or not its image has been loaded.
12. *The previous portrait is submitted* (`PreviousNotSubmitted`, `SubmitJourney`). `IntegrationPage.tsx:182`
    says that it is not; Retry does not call back a submit that is under way.
13. *The gate hangs* (`FailsFast`, `Connectivity`). `connectivity.ts:19` wants it to "fail fast" with its
    screen "instead of hanging the journey"; the timer of `client.ts:102` is cleared at the headers, so a
    body that is held back leaves "Checking connection" on the screen for ever, or a "Try again" that does nothing.
14. *A claim is taken over from a call in flight* (`ClaimOutlastsCalls`, `ExperimentTransaction`).
    `liveness.py:235` says that a claim recovers from a worker that died, `liveness.py:244` that its lifetime is
    the "total worst-case provider latency"; the timeouts it is computed from bound phases of a call. A
    second call then runs beside the first, and the later of two verdicts replaces the earlier.
15. *The reducer is driven by a race* (`NoInvalidTransition` without its exception, `CaptureFlow`).
    `useCaptureFlow.ts:4-6` says that races cannot; an analysis that outlives its capture (see the next
    list) can, and makes it throw.

Seen while reading, each visible in the definition that models the line:

- A stream whose attachment times out is not stopped (`useCamera.ts:59`, `AttachTimesOut`); a capture's
  `finally` clears the abort controller of a newer one (`useCaptureFlow.ts:411`, `Ends`).
- `RESOLUTION_TOO_LOW` is in no priority list, so the advice for such a picture may be "Ready to capture"
  (`guidance.ts:56`); the primary face ignores the centre criterion of participation
  (`faceParticipation.ts:38`); technical failures of some frames can make a burst `QUALITY_RETRY`
  (`bundleAnalyzer.ts:121`); an analysis that ends after its preview still updates the stabilizer
  (`useLiveQuality.ts:88`).
- An OFFLINE event after a policy has blocked the page turns the blocking screen into the overlay when
  the page was ready before (`Gate`).
- A missing segmentation model leaves `PORTRAIT_PROCESSING` (`processor.py:130` is outside of the `try`),
  a portrait run admitted between the two files of a verdict restores `CAPTURE_READY` when it is rejected.
- A contradictory record is evaluated again by every request (`liveness.py:358`); the experiment endpoint
  replaces `vlm/result.json` without lock or claim (`experiments.py:147`).
- Gemini's client has exceptions of its own: one without a status code, a timeout among them, is an unknown
  error and not repeated (`gemini_provider.py:87`, `GeminiError`), unlike with the other adapters. The JSON schema
  given to Gemini leaves out the counts of persons that `parse_assessment` requires
  (`gemini_provider.py:32`).
- A frame can cut the face: when the foreground stands high above the face box, the frame is anchored at the hair
  (`crop.py:125`), and only hair and shoulders are claimed by `WellFramed`.
- Two portrait runs with different face boxes may leave the image of one with the metadata of the other
  (`processor.py:206`).
- The claim timeout is computed from `vlm_timeout_seconds`, although a local provider has
  `local_vlm_timeout_seconds` (`config.py:91`), and its slack of ten seconds and one call is used up by the delays
  from eight retries on: these are `TimeoutAssumption` and `BackoffAssumption`.

## Proofs

All eight modules named `*_proofs` are checked by TLAPS, for all values of the constants that meet the
assumptions stated in the modules (any number of requests, attempts, images, transactions, workers, deaths,
captures, submits, retries, user agents, policies, answers, pictures, frames of a burst). Every invariant and
every action property that a passing run checks is a theorem.

*Control.* `ControlHolds` proves `[]ControlInv` from `Spec` alone. The desired properties are not
inductive: that a submit sends only in a non-terminal transaction needs that its checks stay true until
it sends, which needs that every writer of what it checked holds the lock, hence
`MutualExclusion`; that an identity does not recur needs that everything cached refers to an
attempt whose upload was recorded (`FreshInv`), also while that upload is being written
(`Stored`). Corollaries: `TypeCorrect`, `LockExcludes`, `TerminalSendsNothing`,
`AcknowledgementIsFinal`, `LimitHolds`, `IdentitiesAreFresh`. They hold wherever requests die.

*Folder.* `FolderHolds` proves `[]IInv` under the assumption that no request dies between the image
and `capture.json` (`"capture_meta" \notin FaultPoints`). `ImageInv` is the heart: image and
`capture.json` agree whenever no writer is between them, and whatever was read without the
lock for a capture is still its image if the capture is still current, because a replaced identity does
not come back. Corollaries: `DeliveredIsApproved`, `PassFitsImage`, and `ContractHolds`, the
refinement of `CaptureContract`: initial states map to initial states, every step to a step of the
contract or a stutter.

*Claims and cache.* `OneCallPerCapture` assumes that no provider call outlives the claim timeout
(`SlowProvider = FALSE`). `claim_timeout_seconds` is computed to exceed what the calls may take, but the
timeouts it is computed from do not bound a call (number 14 above), so this is an assumption about providers and
not something the code guarantees. It is the assumption of this theorem alone: the others, `PassFitsImage` and
`DeliveredIsApproved` above all, hold also when two calls are in flight for a capture, although the run
`capture` has no such behaviour. `CacheIsDecided` assumes that no request dies between verdict and decision.

*Workers.* `PatientPagesBlockNoLoop`: if pages are patient, the holder of a lock that a loop waits for
is a thread that is running. The invariant says which steps of each script hold the lock
(`HeldAt`) and that a patient page has one awaited request in flight.

*Launch.* `ClaimedOnce` proves types, locks, locals and `ClaimInv` from `Spec` alone: whoever is between
the folder and the mapping holds the lock of the external id, and everything written later carries the
id of the mapping; `LinksOfOneTransaction` follows. `ActiveSessionUnique` (assuming `RemovalFails =
FALSE`) needs `SessionInv`: the pointer names the active session, except while the redemption that holds
the lock has removed it. `LiveLinkUnique` (assuming `EarlyReissue = FALSE`) needs `LinkInv`: the link
that works is in the list, which is what a reissue goes by. `LaunchInvariant` is all of it.

*Page.* `FlowInvariant` proves `FlowInv`: that an attempt under capture was not reported yet is not
inductive without saying where every unfinished capture is. `AttemptInv` says that, as long as no capture
was started beside a pending one, one capture is unfinished, the abort controller is its, and its place and the phase agree;
from this `PreviewOfAttempt` and `NoInvalidTransitionAlways` follow. `ReportInv`, which gives
`ReportedOnceAlways` and `UploadsAreReported`, needs no such exception: the phase alone keeps a late
analysis from reporting twice. `PageTypes` adds the types of the camera hook.

*Camera.* `CameraInvariant` proves `CameraInv`, relative to `FlowInv`. None of the three camera properties is
inductive. `NoOrphanStream` needs that a stream nobody was granted yet neither runs nor is the session's
(`RequestInv`, with `Ahead` for the streams a request may still be granted), so that a grant never meets a
stream that runs already. `HiddenIsReleased` needs `ReleaseInv`: in the phases without a camera no request is
current, and a session runs only while its request lists the cameras. `StreamingHasCamera` needs
`GrantedRuns`, that a stream runs from its grant until its video plays unless its track has ended, and
`StreamingInv`: without a race the phases that wait for the camera have one request, the current one, and the
phases that use the camera have a session that runs and no request.
The proof has one lemma per place where a request may wake up (`GrantStep`, `PlayStep`,
`SettleStep`, ...), since the same wake-up serves start, switch and fallback.

*Journey.* `JourneyInv` has seven parts beside the types: `CallbackInv` (who holds the lock sends, and what is
known of the consumer at each step), `ChainInv` (one chain of the page at most, none beside a review),
`ServedInv` (a chain goes on with its own capture, unless it was overtaken), `ReviewInv` (a submit under way is one
of the review on the screen, whose portrait is the one the service has ready, and the image is its own),
`SentOnInv`, `UploadInv` (every capture is uploaded by one request, so what was stored is not uploaded again)
and `DiscardInv` (what was given up is not what a review, a chain of the page or a later submit goes on with).
`DeliveredWasReviewedAlways` and `GivenUpStays` follow. `ImageOfReview` (an image that has been loaded is of
the portrait under review) and `SentOnFromReview` (whoever is sent on has that portrait delivered) are proved
from the same invariant and are in no run. `JourneyDelivers` is the refinement of `Delivery`.

*Gate.* `GateControl` is inductive as it stands: it says that an ONLINE event leaves a probe, a queued recheck or
an event still to come behind, and that a browser without network that still shows a probe or "ready" has yet to
hear of it. `OpenForAdmitted` needs in addition that a page that is ready was found supported by the policy
that is `answered`, and a case distinction over the recognition of user agents.

*Quality.* `QualityInv` says three things. `BurstInv`: a burst is a sequence of assessments, in which an ineligible
frame has a reason, and the disposition of a bundle is that of its burst. `PreviewInv`: what was analysed last is
an available picture. `RunInv`: the stabilizer counts the last categories of this preview, which are equal;
a late analysis of an earlier preview breaks that, and is excepted. `SeenGuidance` follows from the last.
`ReadyPreview` is a walk through the rules: every reason an available picture is refused for is in
`LIVE_PRIORITY`, except `RESOLUTION_TOO_LOW`, and a picture without a reason of the eyes has a landmark whose eyes
are open (`EyesOfALandmark`, which needs that a nearest landmark exists). `BestSelection` rests on lemmas about order: the ranking compares five
numbers of which the last tells frames apart, so a finite set of frames has a first one (`FirstInOrder`), and
a most frequent reason exists (`AggregateIsNotEmpty`). Their induction is a minimal counterexample
(`SmallestNumber`, `FirstSmallest`, from the well-foundedness of the numbers), which needs no operator as a parameter.

*Standalone transaction.* `VerdictStays` needs that two provider calls are never in flight for one
capture, which is a matter of time: `TimeInv` bounds what calls and delays have cost a request, by
`tries * ProviderTimeout + Delay(tries) - 1` before the last call, so that a claim is never found stale while its
request lives: as long as every call keeps to its timeout, which `TimeInv`, `VerdictStays` and `GateFollows` say
(`slow`). `TimeoutAssumption` ties the timeout of the provider to the setting the claim timeout is computed from, and
bounds no call; the mock, which answers two seconds after its timeout, repeats nothing. `BackoffAssumption` says that delays double and that the last one fits into the slack (the provers know
nothing of powers of two; TLC evaluates it on every run). `GateFollows` and `StatusTrue` rest on `ClaimInv`,
`GateInv` and `StatusInv`. `FailClosed` needs `ClosedInv`, which says of every place a verdict can be in, also a
request's locals, that it is not eligible yet, and lemmas on replies (`OnlyTexts`: every failure has an error code;
`EvaluatedTypes`: what is eligible was said so). `PortraitFramed` needs `PictureInv`, that a portrait is the frame of a
view of the picture, `FrameInv`, that without overlapping runs a portrait that is ready has its own metadata,
and the geometry: `SizeFits`, `TopFits`, `LeftFits` and `CropFits` hold for every size of a picture, every
face box and every foreground inside the picture, however small. The shape 3:4 is claimed from 12 by 16 pixels on and
up to three quarters of a pixel of width, which is what rounding costs.

*Model-checked only*: what needs fairness (`AllAnswered`, `Settles`, `SubmitEnds`, `CompletesIfAlive`,
`Recovers`), since liveness is beyond the prover, and so is ENABLED.

## Plan

Done: `CaptureTransaction` and its contract, `WorkerLoop`, `LaunchSession`, `CaptureFlow`, `SubmitJourney`
and `Delivery`, `Connectivity`, `LiveQuality`, `ExperimentTransaction`, and the proofs listed above. Left, in
order of weight:

1. The answer of the attempts endpoint in `SubmitJourney` (attempt count and attempt-limit screen of the page).
2. The overlap of a portrait run of the standalone page with the browser flow on the same folder, which needs
   a transaction that both flows serve.

## Not modelled

Image processing itself (numeric code on pixels: the matte of the model, what the integrity check measures on it,
metrics of a picture), prompts and the text format of provider answers, authentication of the bank, configuration, logging, metrics and offline
benchmarks: they keep no state the properties depend on. The status API is a table without state. Of the reads
that change nothing, `GET /session` has no action; `GET /portrait` is `ImageServed` of `SubmitJourney`. Warning stages and the history of attempts
only word answers.
