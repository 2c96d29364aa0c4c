-------------------------- MODULE Connectivity_proofs --------------------------
(***************************************************************************)
(* The connectivity gate opens for admitted browsers only, by the answer   *)
(* of a probe that nothing has overtaken, whatever the user agents and the *)
(* policies are.                                                           *)
(***************************************************************************)
EXTENDS Connectivity, TLAPS

\* The strengthening: a status "ready" stands for the policy that answered last.
ReadyInv ==
  /\ ua \in Browsers
  /\ status = "ready" => capable /\ answered # NoPolicy /\ Admits(answered)

\* A policy whose answer is "ready" admits the browser.
LEMMA ReadyIsAdmitted ==
  ASSUME ua \in Browsers, NEW a \in Answers, StatusOf(a) = "ready"
  PROVE  a \in Policies /\ a # Unreachable /\ a # NoPolicy /\ Admits(a)
<1> DEFINE b == DetectBrowser(ua)
<1>1. a # Unreachable /\ Evaluate(b, a) = "SUPPORTED"
  BY DEF StatusOf
<1>2. a # NoPolicy /\ b.family # "unknown" /\ a.browsers[b.family].enabled
      /\ b.major # NoVersion /\ ~(b.major < a.browsers[b.family].minimum)
  BY <1>1 DEF Evaluate
<1>3. a \in Policies /\ ValidPolicy(a)
  BY <1>1, <1>2, GateAssumption DEF Answers
<1>4. /\ b.family \in Families
      /\ b.family = "safari" => "Chrome" \notin DOMAIN ua
      /\ b.family \in {"chrome", "android_chrome"} =>
           (b.family = "android_chrome" <=> "Android" \in DOMAIN ua)
      /\ b.family \notin {"edge", "ios_safari"} => "Shell" \notin DOMAIN ua
  BY <1>2 DEF DetectBrowser, Recognized, Unknown, Numbered, Families
<1>5. \/ b.family = "ios_safari" /\ "iPhone" \in DOMAIN ua /\ b.major = ua["iPhone"]
      \/ b.family = "edge" /\ "Edg" \in DOMAIN ua /\ b.major = ua["Edg"]
      \/ b.family = "android_chrome" /\ "Chrome" \in DOMAIN ua /\ b.major = ua["Chrome"]
      \/ b.family = "firefox" /\ "Firefox" \in DOMAIN ua /\ b.major = ua["Firefox"]
      \/ b.family = "chrome" /\ "Chrome" \in DOMAIN ua /\ b.major = ua["Chrome"]
      \/ b.family = "safari" /\ "Version" \in DOMAIN ua /\ b.major = ua["Version"]
  BY <1>2 DEF DetectBrowser, Recognized, Unknown, Numbered
<1>6. TokenOf[b.family] \in DOMAIN ua /\ b.major = ua[TokenOf[b.family]]
  BY <1>5 DEF TokenOf
<1>7. ua[TokenOf[b.family]] \in Int /\ a.browsers[b.family].minimum \in Nat
  BY <1>3, <1>4, <1>6, GateAssumption DEF ValidPolicy
<1>8. ua[TokenOf[b.family]] >= a.browsers[b.family].minimum
  BY <1>2, <1>6, <1>7
<1>9. QED
  BY <1>1, <1>2, <1>3, <1>4, <1>6, <1>8 DEF Admits

\* An answer gives none of the statuses that a check begins with.
LEMMA StatusOfAnswer ==
  ASSUME NEW a \in Answers
  PROVE  StatusOf(a) \in Statuses \ {"checking", "offline"}
BY DEF StatusOf, Statuses

\* When the next event is not of the kind of the last, another one follows it.
LEMMA AnotherFollows ==
  ASSUME NEW n \in Nat, n > 0, n % 2 # 1
  PROVE  n - 1 > 0
BY SMT

\* The control invariant is inductive as it stands.
LEMMA GateInvNext ==
  ASSUME GateInv, [GateNext]_gateVars
  PROVE  GateInv'
<1> USE GateAssumption DEF GateInv, Statuses
<1>1. CASE Flip
  BY <1>1 DEF Flip, browser
<1>2. CASE Offline
  <2>1. unheard \in Nat /\ unheard > 0 /\ unheard' = unheard - 1 /\ unheard' \in 0..MaxUnheard
    BY <1>2 DEF Offline
  <2>2. online => unheard' > 0
    <3>1. online => unheard % 2 # 1
      BY <1>2 DEF Offline, NextIsOnline
    <3>2. QED
      BY <2>1, <3>1, AnotherFollows
  <2>3. QED
    BY <1>2, <2>1, <2>2 DEF Offline, browser
<1>3. CASE Online
  <2>a. unheard \in Nat /\ unheard > 0 /\ unheard' = unheard - 1 /\ unheard' \in 0..MaxUnheard
    BY <1>3 DEF Online
  <2>b. ~online => unheard' > 0
    <3>1. ~online => unheard % 2 # 1
      BY <1>3 DEF Online, NextIsOnline
    <3>2. QED
      BY <2>a, <3>1, AnotherFollows
  <2>1. CASE probe = "none"
    BY <1>3, <2>1, <2>a, <2>b DEF Online, Check, browser
  <2>2. CASE probe # "none"
    BY <1>3, <2>2, <2>a, <2>b DEF Online, browser
  <2>3. QED
    BY <2>1, <2>2
<1>4. CASE Retry
  <2>1. CASE probe = "none"
    BY <1>4, <2>1 DEF Retry, Check, browser, network
  <2>2. CASE probe # "none"
    BY <1>4, <2>2 DEF Retry, browser, network
  <2>3. QED
    BY <2>1, <2>2
<1>5. CASE Headers \/ Stall
  BY <1>5 DEF Headers, Stall, browser, network
<1>6. ASSUME NEW a \in Answers, Answer(a) PROVE GateInv'
  <2>1. answered' \in {NoPolicy} \cup Policies
    BY <1>6 DEF Answer, Answers
  <2>2. StatusOf(a) \in Statuses \ {"checking", "offline"}
    BY StatusOfAnswer
  <2>3. CASE pending
    BY <1>6, <2>1, <2>3 DEF Answer, Check, browser, network
  <2>4. CASE ~pending /\ stale
    BY <1>6, <2>1, <2>4 DEF Answer, Answered, browser, network
  <2>5. CASE ~pending /\ ~stale
    BY <1>6, <2>1, <2>2, <2>5 DEF Answer, Answered, browser, network
  <2>6. QED
    BY <2>3, <2>4, <2>5
<1>7. CASE UNCHANGED gateVars
  BY <1>7 DEF gateVars, browser, network
<1>8. QED
  BY <1>1, <1>2, <1>3, <1>4, <1>5, <1>6, <1>7 DEF GateNext

\* The control of useConnectivity() holds for every user agent and policy: whatever
\* the order of changes, events and answers, no ONLINE event is lost.
THEOREM GateControl == GateSpec => []GateInv
<1>1. GateInit => GateInv
  <2> SUFFICES ASSUME GateInit PROVE GateInv
    OBVIOUS
  <2>1. capable \in BOOLEAN /\ unheard \in 0..MaxUnheard
    BY GateAssumption DEF GateInit
  <2>2. QED
    BY <2>1 DEF GateInit, GateInv, Statuses
<1>2. GateInv /\ [GateNext]_gateVars => GateInv'
  BY GateInvNext
<1>3. QED
  BY <1>1, <1>2, PTL DEF GateSpec

\* The status "ready" is entered through a policy that admits the browser, and no
\* other answer is applied while it lasts.
LEMMA ReadyInvNext ==
  ASSUME GateInv, ReadyInv, [GateNext]_gateVars
  PROVE  ReadyInv'
<1> USE DEF ReadyInv
<1>1. UNCHANGED <<browser, answered>> => (Admits(answered) <=> Admits(answered)')
  BY DEF Admits, browser
<1>2. CASE Flip \/ Headers \/ Stall \/ Offline
  BY <1>1, <1>2 DEF Flip, Headers, Stall, Offline, browser
<1>3. CASE Online \/ Retry
  BY <1>1, <1>3 DEF Online, Retry, Check, browser
<1>4. ASSUME NEW a \in Answers, Answer(a) PROVE ReadyInv'
  <2>1. UNCHANGED browser /\ ua' = ua /\ capable' = capable
    BY <1>4 DEF Answer, browser
  <2>2. CASE pending
    BY <1>4, <2>1, <2>2 DEF Answer, Check
  <2>3. CASE ~pending /\ stale
    BY <1>1, <1>4, <2>1, <2>3 DEF Answer, GateInv
  <2>4. CASE ~pending /\ ~stale /\ StatusOf(a) = "ready"
    <3>1. a # Unreachable /\ a # NoPolicy /\ Admits(a)
      BY <2>4, ReadyIsAdmitted
    <3>2. answered' = a
      BY <1>4, <2>4, <3>1 DEF Answer
    <3>3. Admits(answered)'
      BY <2>1, <3>1, <3>2 DEF Admits
    <3>4. capable
      BY <1>4 DEF Answer, Answered, GateInv
    <3>5. QED
      BY <2>1, <3>1, <3>2, <3>3, <3>4
  <2>5. CASE ~pending /\ ~stale /\ StatusOf(a) # "ready"
    BY <1>4, <2>1, <2>5 DEF Answer
  <2>6. QED
    BY <2>2, <2>3, <2>4, <2>5
<1>5. CASE UNCHANGED gateVars
  BY <1>1, <1>5 DEF gateVars, browser
<1>6. QED
  BY <1>2, <1>3, <1>4, <1>5 DEF GateNext

\* Whatever policies are served, the gate is open only by the one that answered
\* last, and only for a browser that this one admits.
THEOREM OpenForAdmitted == GateSpec => []OpenIsAllowed
<1>1. GateInit => ReadyInv
  BY DEF GateInit, ReadyInv
<1>2. GateInv /\ ReadyInv /\ [GateNext]_gateVars => ReadyInv'
  BY ReadyInvNext
<1>3. GateInv /\ ReadyInv => OpenIsAllowed
  BY DEF GateInv, ReadyInv, OpenIsAllowed, Gate
<1>4. QED
  BY <1>1, <1>2, <1>3, GateControl, PTL DEF GateSpec

\* No step but the answer of a probe that nothing has overtaken opens the gate.
THEOREM OnlyProbesOpen == GateSpec => OpenedByProbe
<1> DEFINE Opened == Gate # "open" /\ Gate' = "open" =>
                       probe # "none" /\ ~stale /\ ~pending /\ probe' = "none"
<1>1. GateInv /\ [GateNext]_gateVars => [Opened]_gateVars
  <2> SUFFICES ASSUME GateInv, GateNext, Gate # "open", Gate' = "open"
               PROVE  probe # "none" /\ ~stale /\ ~pending /\ probe' = "none"
    BY DEF GateNext
  <2>1. status # "ready" /\ status' = "ready"
    BY DEF Gate
  <2>2. ~Flip /\ ~Offline /\ ~Online /\ ~Retry /\ ~Headers /\ ~Stall
    BY <2>1 DEF Flip, Offline, Online, Retry, Headers, Stall, Check
  <2>3. PICK a \in Answers : Answer(a)
    BY <2>2 DEF GateNext
  <2>4. ~pending
    BY <2>1, <2>3 DEF Answer, Check, GateInv
  <2>5. QED
    BY <2>1, <2>3, <2>4 DEF Answer, Answered
<1>2. QED
  BY <1>1, GateControl, PTL DEF GateSpec, OpenedByProbe
===============================================================================
