----------------------------- MODULE Connectivity -----------------------------
(* The gate in front of the capture journeys (useConnectivity.ts,               *)
(* ConnectivityGate.tsx, connectivity.ts, client.ts): at most one probe of the   *)
(* backend runs at a time; events of the network and "Try again" come in while   *)
(* it runs.  navigator.onLine changes first, its event is delivered later.  The  *)
(* timer of a probe ends at the headers of its answer: nothing bounds the read   *)
(* of the body.  The epoch of the code is only compared for equality with that   *)
(* of the running probe: an OFFLINE event makes the probe stale.                 *)
EXTENDS BrowserPolicy

CONSTANTS Capable,   \* what checkBrowserCapabilities().ok may be
          Browsers,  \* user agents
          Policies,  \* the policies that the backend may serve
          MaxUnheard \* changes of navigator.onLine whose events are on their way

ASSUME GateAssumption ==
  /\ Capable \subseteq BOOLEAN
  /\ \A ua \in Browsers : \A t \in DOMAIN ua : t \in Tokens /\ ua[t] \in Int
  /\ \A p \in Policies : ValidPolicy(p)
  /\ MaxUnheard \in Nat

VARIABLES
  ua,         \* navigator.userAgent
  capable,    \* the APIs of the browser are there
  online,     \* navigator.onLine
  unheard,    \* how many of its last changes the page has not been told of
  status,     \* ConnectivityStatus
  answered,   \* the policy behind policyDecision, NoPolicy for null
  readyOnce,
  probe,      \* inFlightRef: "none", "sent", "body" (headers there), "stalled"
  stale,      \* the epoch has moved on since the probe began
  pending     \* pendingRecheckRef

browser == <<ua, capable>>
network == <<online, unheard>>
gateVars == <<browser, network, status, answered, readyOnce, probe, stale, pending>>

Statuses == {"checking", "ready", "offline", "backend_unreachable",
             "browser_update_required", "unsupported"}

\* /info: Unreachable stands for every failure of the request.
Unreachable == [version |-> -1]
Answers == {Unreachable, NoPolicy} \cup Policies

\* A missing policy blocks nobody.
BugStatusOf(answer) ==
  IF answer = Unreachable THEN "backend_unreachable"
  ELSE IF answer = NoPolicy THEN "ready"
  ELSE IF Evaluate(DetectBrowser(ua), answer) = "SUPPORTED" THEN "ready"
  ELSE "unsupported"

StatusOf(answer) ==
  IF answer = Unreachable THEN "backend_unreachable"
  ELSE LET decision == Evaluate(DetectBrowser(ua), answer) IN
       CASE decision = "SUPPORTED" -> "ready"
         [] decision = "UNSUPPORTED_BROWSER" -> "unsupported"
         [] OTHER -> "browser_update_required"

\* runCheck() up to its first await, the slot being free.
Check ==
  /\ stale' = FALSE
  /\ IF ~capable THEN status' = "unsupported" /\ probe' = "none"
     ELSE IF ~online THEN status' = "offline" /\ probe' = "none"
     ELSE status' = "checking" /\ probe' = "sent"

GateInit ==
  /\ capable \in Capable /\ ua \in Browsers /\ online \in BOOLEAN /\ unheard = 0
  /\ answered = NoPolicy /\ readyOnce = FALSE /\ stale = FALSE /\ pending = FALSE
  /\ status = IF ~capable THEN "unsupported" ELSE IF online THEN "checking" ELSE "offline"
  /\ probe = IF capable /\ online THEN "sent" ELSE "none"

\* The network goes or comes back; the event is a task of its own.
Flip ==
  /\ unheard < MaxUnheard /\ online' = ~online /\ unheard' = unheard + 1
  /\ UNCHANGED <<browser, status, answered, readyOnce, probe, stale, pending>>

\* fetch() resolves and the timer is cleared.
Headers ==
  /\ probe = "sent" /\ probe' = "body"
  /\ UNCHANGED <<browser, network, status, answered, readyOnce, stale, pending>>

\* The connection keeps the rest of the body back.
Stall ==
  /\ probe = "body" /\ probe' = "stalled"
  /\ UNCHANGED <<browser, network, status, answered, readyOnce, stale, pending>>

\* Before the headers there is a failure or the timer, after them any answer.
Answered(a) == probe # "none" /\ (probe = "sent" => a = Unreachable)

\* The epoch is not compared again after the await.
BugAnswer(a) ==
  /\ Answered(a)
  /\ answered' = IF a # Unreachable THEN a ELSE answered
  /\ readyOnce' = (readyOnce \/ StatusOf(a) = "ready")
  /\ pending' = FALSE
  /\ IF pending THEN Check ELSE probe' = "none" /\ stale' = FALSE /\ status' = StatusOf(a)
  /\ UNCHANGED <<browser, network>>

\* The rest of runCheck(): a stale answer is dropped; the finally clause starts
\* the check that an ONLINE event asked for.
Answer(a) ==
  /\ Answered(a)
  /\ answered' = IF ~stale /\ a # Unreachable THEN a ELSE answered
  /\ readyOnce' = (readyOnce \/ (~stale /\ StatusOf(a) = "ready"))
  /\ pending' = FALSE
  /\ IF pending THEN Check
     ELSE probe' = "none" /\ stale' = FALSE /\ status' = IF stale THEN status ELSE StatusOf(a)
  /\ UNCHANGED <<browser, network>>

\* The events come in the order of the changes: the last one tells what holds.
NextIsOnline == unheard % 2 = 1 <=> online

\* The event leaves the epoch of the running probe alone.
BugOffline ==
  /\ unheard > 0 /\ ~NextIsOnline /\ unheard' = unheard - 1
  /\ status' = "offline" /\ pending' = FALSE
  /\ UNCHANGED <<browser, online, answered, readyOnce, probe, stale>>

Offline ==
  /\ unheard > 0 /\ ~NextIsOnline /\ unheard' = unheard - 1
  /\ status' = "offline" /\ pending' = FALSE /\ stale' = (probe # "none")
  /\ UNCHANGED <<browser, online, answered, readyOnce, probe>>

\* The event is dropped while a probe runs, as "Try again" is.
BugOnline ==
  /\ unheard > 0 /\ NextIsOnline /\ unheard' = unheard - 1
  /\ IF probe = "none" THEN Check ELSE UNCHANGED <<status, probe, stale>>
  /\ UNCHANGED <<browser, online, answered, readyOnce, pending>>

\* While any probe runs, a fresh one too, another is asked for.
Online ==
  /\ unheard > 0 /\ NextIsOnline /\ unheard' = unheard - 1
  /\ IF probe = "none"
     THEN Check /\ UNCHANGED pending
     ELSE pending' = TRUE /\ UNCHANGED <<status, probe, stale>>
  /\ UNCHANGED <<browser, online, answered, readyOnce>>

\* "Try again" and "Check again": dropped while a probe runs.
Retry ==
  /\ status \notin {"ready", "checking"}
  /\ IF probe = "none" THEN Check ELSE UNCHANGED <<status, probe, stale>>
  /\ UNCHANGED <<browser, network, answered, readyOnce, pending>>

GateNext == Flip \/ Offline \/ Online \/ Retry \/ Headers \/ Stall \/ \E a \in Answers : Answer(a)

\* The timer of the request (4 s) ends the wait for the headers, and the browser
\* delivers its events.  A body that the connection does not hold back is read; one
\* that it holds back has no timer.
GateFairness ==
  /\ WF_gateVars(probe # "stalled" /\ (Headers \/ \E a \in Answers : Answer(a)))
  /\ WF_gateVars(Offline \/ Online)

GateSpec == GateInit /\ [][GateNext]_gateVars /\ GateFairness

\* What the gate renders: the journey, the journey under a blocking overlay, or
\* a screen in its place.
Gate ==
  IF status = "ready" THEN "open"
  ELSE IF status \in {"unsupported", "browser_update_required"} \/ ~readyOnce THEN "closed"
  ELSE "covered"

-------------------------------------------------------------------------------
(* Properties.                                                                  *)

\* The types, and what the control of useConnectivity() keeps: no ONLINE event is
\* lost: an "offline" screen of a browser that is online has a recheck queued behind
\* the probe that runs, or the event still to come; and a probe or a "ready" that a
\* browser without network still has is the one that the event to come invalidates.
GateInv ==
  /\ capable \in BOOLEAN /\ online \in BOOLEAN /\ unheard \in 0..MaxUnheard
  /\ readyOnce \in BOOLEAN /\ stale \in BOOLEAN /\ pending \in BOOLEAN
  /\ status \in Statuses /\ probe \in {"none", "sent", "body", "stalled"}
  /\ answered \in {NoPolicy} \cup Policies
  /\ pending \/ stale => probe # "none"
  /\ (probe # "none" /\ ~stale) <=> (status = "checking")
  /\ probe # "none" => capable
  /\ online /\ status = "offline" => pending \/ unheard > 0
  /\ ~online /\ status \in {"checking", "ready"} => unheard > 0

\* The token whose number counts for a family.
TokenOf == [chrome |-> "Chrome", edge |-> "Edg", firefox |-> "Firefox", safari |-> "Version",
            ios_safari |-> "iPhone", android_chrome |-> "Chrome"]

\* Policy p admits the user agent: it enables a family whose token is there with a
\* number that is high enough.  Chromium passes for neither Safari nor another
\* platform's Chrome, and a shell of Chromium passes for nothing.
Admits(p) ==
  \E f \in Families :
    /\ p.browsers[f].enabled
    /\ TokenOf[f] \in DOMAIN ua /\ ua[TokenOf[f]] >= p.browsers[f].minimum
    /\ f = "safari" => "Chrome" \notin DOMAIN ua
    /\ f \in {"chrome", "android_chrome"} => (f = "android_chrome" <=> "Android" \in DOMAIN ua)
    /\ f \notin {"edge", "ios_safari"} => "Shell" \notin DOMAIN ua

\* A browser passes the gate only with the APIs there, admitted by the very policy
\* that answered last, and online as far as the page has been told
\* (browserDetection.ts:44, browserPolicy.ts:43, useConnectivity.ts:90-104).
OpenIsAllowed ==
  Gate = "open" =>
    /\ capable /\ (online \/ unheard > 0)
    /\ answered # NoPolicy /\ Admits(answered)

\* Only the answer of a probe that no OFFLINE event has overtaken opens the gate, and
\* none while a newer check is queued (useConnectivity.ts:91, 111-118).
OpenedByProbe ==
  [][Gate # "open" /\ Gate' = "open" =>
       probe # "none" /\ ~stale /\ ~pending /\ probe' = "none"]_gateVars

\* The screen "offline" goes away once the browser is online again, unless the body
\* of the answer to the probe is held back (useConnectivity.ts:111-118, 130-136).
Recovers ==
  (online /\ status = "offline") ~> (~online \/ status # "offline" \/ probe = "stalled")

\* connectivity.ts:19 wants the gate to fail fast "instead of hanging the journey":
\* a body that is held back leaves "Checking connection" there for ever, with no
\* button, or, once the page has been offline, a "Try again" that does nothing.
FailsFast == status = "checking" ~> status # "checking"
===============================================================================
