-------------------------- MODULE SubmitJourney_proofs --------------------------
(***************************************************************************)
(* What reaches the consumer was reviewed and not given up before by the   *)
(* customer, and the journey implements Delivery, whatever the number of   *)
(* captures, submits and retries.                                          *)
(***************************************************************************)
EXTENDS SubmitJourneyInv, TLAPS

\* What a request of the page leaves in the folder has the types of the folder.
LEMMA ServeTypes ==
  ASSUME ServiceTypes, NEW op, NEW k \in Captures, NEW answer, Serve(op, k, answer)
  PROVE  /\ stored' \in Portrait /\ passed' \in Portrait /\ ready' \in Portrait
         /\ verdicts' \in [Captures -> {"unknown", "live", "other"}]
<1> USE JourneyAssumption DEF ServiceTypes, Captures, Portrait, serviceVars
<1>1. CASE UNCHANGED serviceVars
  BY <1>1
<1>2. CASE Uploads(k)
  BY <1>2 DEF Uploads
<1>3. CASE Evaluates("live") \/ Evaluates("other")
  BY <1>3 DEF Evaluates
<1>4. CASE Processes
  BY <1>4 DEF Processes
<1>5. QED
  BY <1>1, <1>2, <1>3, <1>4 DEF Serve

\* Types of the chains.
LEMMA ChainTypes ==
  ASSUME TypeOK, [Next]_vars
  PROVE  (chains \in [Captures -> Chains])'
<1> USE JourneyAssumption DEF TypeOK, Chains, Submits, Captures, pageVars, image,
     serviceVars, callbackVars
<1>1. ASSUME NEW to \in {"open", "covered", "closed"}, GateMoves(to) PROVE (chains \in [Captures -> Chains])'
  <2>1. \A k \in Captures : [chains[k] EXCEPT !.mine = chains[k].at = "unused"] \in Chains
    BY DEF TypeOK, Chains
  <2>2. CASE to = "closed"
    BY <1>1, <2>1, <2>2 DEF GateMoves
  <2>3. CASE to # "closed"
    BY <1>1, <2>3 DEF GateMoves
  <2>4. QED
    BY <2>2, <2>3
<1>2. CASE Load
  BY <1>2 DEF Load
<1>3. CASE Retry
  BY <1>3 DEF Retry, GivesUp, UserActs
<1>4. CASE ImageServed
  BY <1>4 DEF ImageServed
<1>5. CASE ImageReused
  BY <1>5 DEF ImageReused
<1>6. ASSUME NEW k \in Captures, NewCapture(k) PROVE (chains \in [Captures -> Chains])'
  BY <1>6 DEF NewCapture, UserActs
<1>7. ASSUME NEW k \in Captures, ChainGoesOn(k) PROVE (chains \in [Captures -> Chains])'
  BY <1>7 DEF ChainGoesOn, NextStep
<1>8. ASSUME NEW k \in Captures, ChainFails(k) PROVE (chains \in [Captures -> Chains])'
  BY <1>8 DEF ChainFails
<1>9. ASSUME NEW k \in Captures, ChainLoses(k) PROVE (chains \in [Captures -> Chains])'
  BY <1>9 DEF ChainLoses
<1>10. ASSUME NEW j \in Submits, Submit(j) PROVE (chains \in [Captures -> Chains])'
  BY <1>10 DEF Submit, UserActs
<1>11. ASSUME NEW j \in Submits, SubmitStalls(j) PROVE (chains \in [Captures -> Chains])'
  BY <1>11 DEF SubmitStalls
<1>12. ASSUME NEW j \in Submits, SubmitSucceeds(j) PROVE (chains \in [Captures -> Chains])'
  BY <1>12 DEF SubmitSucceeds
<1>13. ASSUME NEW j \in Submits, SubmitGivenUp(j) PROVE (chains \in [Captures -> Chains])'
  BY <1>13 DEF SubmitGivenUp
<1>14. CASE ServeLate
  BY <1>14 DEF ServeLate, Serve, Uploads, Evaluates, Processes
<1>15. ASSUME NEW k \in Captures, ServeChain(k) PROVE (chains \in [Captures -> Chains])'
  BY <1>15 DEF ServeChain, Serve, Uploads, Evaluates, Processes
<1>16. ASSUME NEW j \in Submits, ServeSubmit(j) PROVE (chains \in [Captures -> Chains])'
  BY <1>16 DEF ServeSubmit, Refuses
<1>17. ASSUME NEW j \in Submits, PostAnswered(j) PROVE (chains \in [Captures -> Chains])'
  BY <1>17 DEF PostAnswered, Takes, SubmitFails
<1>18. ASSUME NEW j \in Submits, PostLost(j) PROVE (chains \in [Captures -> Chains])'
  BY <1>18 DEF PostLost, Takes, SubmitFails
<1>19. ASSUME NEW j \in Submits, PostRefused(j) PROVE (chains \in [Captures -> Chains])'
  BY <1>19 DEF PostRefused, SubmitFails
<1>20. ASSUME NEW j \in Submits, Complete(j) PROVE (chains \in [Captures -> Chains])'
  BY <1>20 DEF Complete
<1>21. ASSUME NEW j \in Submits, Crash(j) PROVE (chains \in [Captures -> Chains])'
  BY <1>21 DEF Crash
<1>22. CASE UNCHANGED vars
  BY <1>22 DEF vars
<1>23. QED
  BY <1>1, <1>2, <1>3, <1>4, <1>5, <1>6, <1>7, <1>8, <1>9, <1>10, <1>11, <1>12,
     <1>13, <1>14, <1>15, <1>16, <1>17, <1>18, <1>19, <1>20, <1>21, <1>22
  DEF Next, PageSteps, ServiceSteps

\* A submit that moves on, or is no longer awaited, is a submit.
LEMMA CallMoves ==
  ASSUME submits \in [Submits -> Calls], NEW j \in Submits,
         NEW place \in {"sent", "sending", "acknowledged", "ok", "error", "lost"},
         NEW awaited \in {"nothing", "answer", "body"}
  PROVE  /\ [submits EXCEPT ![j].at = place] \in [Submits -> Calls]
         /\ [submits EXCEPT ![j].awaits = awaited] \in [Submits -> Calls]
<1>1. submits[j] \in Calls
  OBVIOUS
<1>2. [submits[j] EXCEPT !.at = place] \in Calls
  BY <1>1 DEF Calls
<1>3. [submits[j] EXCEPT !.awaits = awaited] \in Calls
  BY <1>1 DEF Calls
<1>4. QED
  BY <1>2, <1>3

\* Types of the submits.
LEMMA CallTypes ==
  ASSUME TypeOK, [Next]_vars
  PROVE  (submits \in [Submits -> Calls])'
<1> USE JourneyAssumption DEF TypeOK, Submits, Captures, pageVars, image,
     serviceVars, callbackVars
<1>1. ASSUME NEW to \in {"open", "covered", "closed"}, GateMoves(to) PROVE (submits \in [Submits -> Calls])'
  <2>1. \A j \in Submits : [submits[j] EXCEPT !.mine = submits[j].at = "unused"] \in Calls
    BY DEF TypeOK, Calls
  <2>2. CASE to = "closed"
    BY <1>1, <2>1, <2>2 DEF GateMoves
  <2>3. CASE to # "closed"
    BY <1>1, <2>3 DEF GateMoves
  <2>4. QED
    BY <2>2, <2>3
<1>2. CASE Load
  BY <1>2 DEF Load
<1>3. CASE Retry
  <2>1. \A j \in Submits : [submits[j] EXCEPT !.retried = submits[j].at # "unused"] \in Calls
    BY DEF TypeOK, Calls
  <2>2. QED
    BY <1>3, <2>1 DEF Retry, GivesUp
<1>4. CASE ImageServed
  BY <1>4 DEF ImageServed
<1>5. CASE ImageReused
  BY <1>5 DEF ImageReused
<1>6. ASSUME NEW k \in Captures, NewCapture(k) PROVE (submits \in [Submits -> Calls])'
  BY <1>6 DEF NewCapture, UserActs
<1>7. ASSUME NEW k \in Captures, ChainGoesOn(k) PROVE (submits \in [Submits -> Calls])'
  BY <1>7 DEF ChainGoesOn, NextStep
<1>8. ASSUME NEW k \in Captures, ChainFails(k) PROVE (submits \in [Submits -> Calls])'
  BY <1>8 DEF ChainFails
<1>9. ASSUME NEW k \in Captures, ChainLoses(k) PROVE (submits \in [Submits -> Calls])'
  BY <1>9 DEF ChainLoses
<1>10. ASSUME NEW j \in Submits, Submit(j) PROVE (submits \in [Submits -> Calls])'
  <2>1. [submits[j] EXCEPT !.at = "sent", !.awaits = "answer", !.reviewed = review] \in Calls
    BY DEF PageTypes, Calls
  <2>2. submits' = [submits EXCEPT
            ![j] = [submits[j] EXCEPT !.at = "sent", !.awaits = "answer", !.reviewed = review]]
    BY <1>10 DEF Submit
  <2>3. QED
    BY <2>1, <2>2
<1>11. ASSUME NEW j \in Submits, SubmitStalls(j) PROVE (submits \in [Submits -> Calls])'
  <2>1. submits' = [submits EXCEPT ![j].awaits = "body"]
    BY <1>11 DEF SubmitStalls
  <2>2. QED
    BY <2>1, CallMoves
<1>12. ASSUME NEW j \in Submits, SubmitSucceeds(j) PROVE (submits \in [Submits -> Calls])'
  <2>1. submits' = [submits EXCEPT ![j].awaits = "nothing"]
    BY <1>12 DEF SubmitSucceeds
  <2>2. QED
    BY <2>1, CallMoves
<1>13. ASSUME NEW j \in Submits, SubmitGivenUp(j) PROVE (submits \in [Submits -> Calls])'
  <2>1. submits' = [submits EXCEPT ![j].awaits = "nothing"]
    BY <1>13 DEF SubmitGivenUp
  <2>2. QED
    BY <2>1, CallMoves
<1>14. CASE ServeLate
  BY <1>14 DEF ServeLate, Serve, Uploads, Evaluates, Processes
<1>15. ASSUME NEW k \in Captures, ServeChain(k) PROVE (submits \in [Submits -> Calls])'
  BY <1>15 DEF ServeChain, Serve, Uploads, Evaluates, Processes
<1>16. ASSUME NEW j \in Submits, ServeSubmit(j) PROVE (submits \in [Submits -> Calls])'
  <2>1. CASE submits' = [submits EXCEPT ![j].at = "sending", ![j].payload = ready]
    <3>1. [submits[j] EXCEPT !.at = "sending", !.payload = ready] \in Calls
      <4>1. submits[j] \in Calls /\ ready \in Portrait
        BY DEF ServiceTypes
      <4>2. QED
        BY <4>1 DEF Calls
    <3>2. submits' = [submits EXCEPT
              ![j] = [submits[j] EXCEPT !.at = "sending", !.payload = ready]]
      BY <2>1
    <3>3. QED
      BY <3>1, <3>2
  <2>2. CASE \E place \in {"error", "ok"} : submits' = [submits EXCEPT ![j].at = place]
    <3>1. PICK place \in {"error", "ok"} : submits' = [submits EXCEPT ![j].at = place]
      BY <2>2
    <3>2. QED
      BY <3>1, CallMoves
  <2>3. QED
    BY <1>16, <2>1, <2>2 DEF ServeSubmit
<1>17. ASSUME NEW j \in Submits, PostAnswered(j) PROVE (submits \in [Submits -> Calls])'
  <2>1. PICK place \in {"acknowledged", "error"} :
            submits' = [submits EXCEPT ![j].at = place]
    BY <1>17 DEF PostAnswered, SubmitFails
  <2>2. QED
    BY <2>1, CallMoves
<1>18. ASSUME NEW j \in Submits, PostLost(j) PROVE (submits \in [Submits -> Calls])'
  <2>1. CASE submits[j].tries < MaxRetries
    <3>1. submits' = [submits EXCEPT ![j].tries = submits[j].tries + 1]
      BY <1>18, <2>1 DEF PostLost
    <3>2. submits[j].tries + 1 \in 0..MaxRetries
      BY <2>1 DEF Calls
    <3>3. [submits[j] EXCEPT !.tries = submits[j].tries + 1] \in Calls
      BY <3>2 DEF Calls
    <3>4. QED
      BY <3>1, <3>3
  <2>2. CASE ~(submits[j].tries < MaxRetries)
    <3>1. submits' = [submits EXCEPT ![j].at = "error"]
      BY <1>18, <2>2 DEF PostLost, SubmitFails
    <3>2. QED
      BY <3>1, CallMoves
  <2>3. QED
    BY <2>1, <2>2
<1>19. ASSUME NEW j \in Submits, PostRefused(j) PROVE (submits \in [Submits -> Calls])'
  <2>1. submits' = [submits EXCEPT ![j].at = "error"]
    BY <1>19 DEF PostRefused, SubmitFails
  <2>2. QED
    BY <2>1, CallMoves
<1>20. ASSUME NEW j \in Submits, Complete(j) PROVE (submits \in [Submits -> Calls])'
  <2>1. submits' = [submits EXCEPT ![j].at = "ok"]
    BY <1>20 DEF Complete
  <2>2. QED
    BY <2>1, CallMoves
<1>21. ASSUME NEW j \in Submits, Crash(j) PROVE (submits \in [Submits -> Calls])'
  <2>1. submits' = [submits EXCEPT ![j].at = "lost"]
    BY <1>21 DEF Crash
  <2>2. QED
    BY <2>1, CallMoves
<1>22. CASE UNCHANGED vars
  BY <1>22 DEF vars
<1>23. QED
  BY <1>1, <1>2, <1>3, <1>4, <1>5, <1>6, <1>7, <1>8, <1>9, <1>10, <1>11, <1>12,
     <1>13, <1>14, <1>15, <1>16, <1>17, <1>18, <1>19, <1>20, <1>21, <1>22
  DEF Next, PageSteps, ServiceSteps

\* Types of the page.
LEMMA PageTypesNext ==
  ASSUME TypeOK, [Next]_vars
  PROVE  PageTypes'
<1> USE JourneyAssumption DEF TypeOK, PageTypes, ServiceTypes, Hazards, Meet,
     Submits, Captures, pageVars, image, serviceVars, callbackVars
<1>1. ASSUME NEW to \in {"open", "covered", "closed"}, GateMoves(to) PROVE PageTypes'
  <2>1. met' \subseteq Hazards
    BY <1>1 DEF GateMoves
  <2>2. CASE to = "closed"
    <3>1. 0 \in Portrait
      BY DEF Portrait
    <3>2. QED
      BY <1>1, <2>1, <2>2, <3>1 DEF GateMoves
  <2>3. CASE to # "closed"
    BY <1>1, <2>1, <2>3 DEF GateMoves
  <2>4. QED
    BY <2>2, <2>3
<1>2. CASE Load
  BY <1>2 DEF Load
<1>3. CASE Retry
  <2>1. met' \subseteq Hazards /\ discarded' \subseteq Captures
    BY <1>3 DEF Retry, GivesUp, Portrait
  <2>2. UNCHANGED <<gate, view, left>>
    BY <1>3 DEF Retry, UserActs
  <2>3. /\ review' = 0 /\ failed' = FALSE /\ submitting' = FALSE
        /\ loading' = FALSE /\ shown' = 0 /\ UNCHANGED cached
    BY <1>3 DEF Retry, GivesUp
  <2>4. 0 \in Portrait
    BY DEF Portrait
  <2>5. QED
    BY <2>1, <2>2, <2>3, <2>4
<1>4. CASE ImageServed
  BY <1>4 DEF ImageServed
<1>5. CASE ImageReused
  BY <1>5 DEF ImageReused
<1>6. ASSUME NEW k \in Captures, NewCapture(k) PROVE PageTypes'
  BY <1>6 DEF NewCapture, UserActs
<1>7. ASSUME NEW k \in Captures, ChainGoesOn(k) PROVE PageTypes'
  <2>1. k \in Portrait
    BY DEF Portrait
  <2>2. QED
    BY <1>7, <2>1 DEF ChainGoesOn
<1>8. ASSUME NEW k \in Captures, ChainFails(k) PROVE PageTypes'
  BY <1>8 DEF ChainFails
<1>9. ASSUME NEW k \in Captures, ChainLoses(k) PROVE PageTypes'
  BY <1>9 DEF ChainLoses
<1>10. ASSUME NEW j \in Submits, Submit(j) PROVE PageTypes'
  BY <1>10 DEF Submit, UserActs
<1>11. ASSUME NEW j \in Submits, SubmitStalls(j) PROVE PageTypes'
  BY <1>11 DEF SubmitStalls
<1>12. ASSUME NEW j \in Submits, SubmitSucceeds(j) PROVE PageTypes'
  BY <1>12 DEF SubmitSucceeds
<1>13. ASSUME NEW j \in Submits, SubmitGivenUp(j) PROVE PageTypes'
  BY <1>13 DEF SubmitGivenUp
<1>14. CASE ServeLate
  BY <1>14 DEF ServeLate, Serve, Uploads, Evaluates, Processes
<1>15. ASSUME NEW k \in Captures, ServeChain(k) PROVE PageTypes'
  BY <1>15 DEF ServeChain, Serve, Uploads, Evaluates, Processes
<1>16. ASSUME NEW j \in Submits, ServeSubmit(j) PROVE PageTypes'
  BY <1>16 DEF ServeSubmit, Refuses
<1>17. ASSUME NEW j \in Submits, PostAnswered(j) PROVE PageTypes'
  BY <1>17 DEF PostAnswered, Takes, SubmitFails
<1>18. ASSUME NEW j \in Submits, PostLost(j) PROVE PageTypes'
  BY <1>18 DEF PostLost, Takes, SubmitFails
<1>19. ASSUME NEW j \in Submits, PostRefused(j) PROVE PageTypes'
  BY <1>19 DEF PostRefused, SubmitFails
<1>20. ASSUME NEW j \in Submits, Complete(j) PROVE PageTypes'
  BY <1>20 DEF Complete
<1>21. ASSUME NEW j \in Submits, Crash(j) PROVE PageTypes'
  BY <1>21 DEF Crash
<1>22. CASE UNCHANGED vars
  BY <1>22 DEF vars
<1>23. QED
  BY <1>1, <1>2, <1>3, <1>4, <1>5, <1>6, <1>7, <1>8, <1>9, <1>10, <1>11, <1>12,
     <1>13, <1>14, <1>15, <1>16, <1>17, <1>18, <1>19, <1>20, <1>21, <1>22
  DEF Next, PageSteps, ServiceSteps

\* Types of the service.
LEMMA ServiceTypesNext ==
  ASSUME TypeOK, [Next]_vars
  PROVE  ServiceTypes'
<1> USE JourneyAssumption DEF TypeOK, ServiceTypes, Submits, Captures, pageVars,
     image, serviceVars, callbackVars
<1>1. ASSUME NEW to \in {"open", "covered", "closed"}, GateMoves(to) PROVE ServiceTypes'
  BY <1>1 DEF GateMoves
<1>2. CASE Load
  BY <1>2 DEF Load
<1>3. CASE Retry
  <2>1. UNCHANGED <<late, stored, passed, ready, verdicts, status, acked, accepted, worker>>
    BY <1>3 DEF Retry, GivesUp
  <2>2. QED
    BY <2>1
<1>4. CASE ImageServed
  BY <1>4 DEF ImageServed
<1>5. CASE ImageReused
  BY <1>5 DEF ImageReused
<1>6. ASSUME NEW k \in Captures, NewCapture(k) PROVE ServiceTypes'
  BY <1>6 DEF NewCapture, UserActs
<1>7. ASSUME NEW k \in Captures, ChainGoesOn(k) PROVE ServiceTypes'
  BY <1>7 DEF ChainGoesOn, NextStep
<1>8. ASSUME NEW k \in Captures, ChainFails(k) PROVE ServiceTypes'
  <2>1. chains[k].at \in {"upload", "liveness", "portrait"}
    BY <1>8 DEF ChainFails, Running
  <2>2. late' \subseteq late \cup {<<chains[k].at, k>>}
    BY <1>8 DEF ChainFails
  <2>3. UNCHANGED <<stored, passed, ready, verdicts, status, acked, accepted, worker>>
    BY <1>8 DEF ChainFails
  <2>4. QED
    BY <2>1, <2>2, <2>3
<1>9. ASSUME NEW k \in Captures, ChainLoses(k) PROVE ServiceTypes'
  BY <1>9 DEF ChainLoses
<1>10. ASSUME NEW j \in Submits, Submit(j) PROVE ServiceTypes'
  BY <1>10 DEF Submit, UserActs
<1>11. ASSUME NEW j \in Submits, SubmitStalls(j) PROVE ServiceTypes'
  BY <1>11 DEF SubmitStalls
<1>12. ASSUME NEW j \in Submits, SubmitSucceeds(j) PROVE ServiceTypes'
  BY <1>12 DEF SubmitSucceeds
<1>13. ASSUME NEW j \in Submits, SubmitGivenUp(j) PROVE ServiceTypes'
  BY <1>13 DEF SubmitGivenUp
<1>14. CASE ServeLate
  <2>1. late' \subseteq late /\ UNCHANGED <<status, acked, accepted, worker>>
    BY <1>14 DEF ServeLate
  <2>2. PICK r \in late, answer \in {"ok", "no"} : Serve(r[1], r[2], answer)
    BY <1>14 DEF ServeLate
  <2>3. QED
    BY <2>1, <2>2, ServeTypes
<1>15. ASSUME NEW k \in Captures, ServeChain(k) PROVE ServiceTypes'
  <2>1. UNCHANGED <<late, status, acked, accepted, worker>>
    BY <1>15 DEF ServeChain
  <2>2. PICK answer \in {"ok", "no"} : Serve(chains[k].at, k, answer)
    BY <1>15 DEF ServeChain
  <2>3. QED
    BY <2>1, <2>2, ServeTypes
<1>16. ASSUME NEW j \in Submits, ServeSubmit(j) PROVE ServiceTypes'
  BY <1>16 DEF ServeSubmit, Refuses
<1>17. ASSUME NEW j \in Submits, PostAnswered(j) PROVE ServiceTypes'
  <2>1. accepted' \in Portrait /\ acked' \in Portrait
    BY <1>17 DEF PostAnswered, Takes, SubmitFails, Calls
  <2>2. worker' \in 0..MaxSubmits /\ status' \in {"OPEN", "CALLBACK_FAILED", "COMPLETED"}
    BY <1>17 DEF PostAnswered, SubmitFails
  <2>3. QED
    BY <1>17, <2>1, <2>2 DEF PostAnswered
<1>18. ASSUME NEW j \in Submits, PostLost(j) PROVE ServiceTypes'
  <2>1. accepted' \in Portrait /\ acked' \in Portrait
    BY <1>18 DEF PostLost, Takes, SubmitFails, Calls
  <2>2. worker' \in 0..MaxSubmits /\ status' \in {"OPEN", "CALLBACK_FAILED", "COMPLETED"}
    BY <1>18 DEF PostLost, SubmitFails
  <2>3. QED
    BY <1>18, <2>1, <2>2 DEF PostLost
<1>19. ASSUME NEW j \in Submits, PostRefused(j) PROVE ServiceTypes'
  BY <1>19 DEF PostRefused, SubmitFails
<1>20. ASSUME NEW j \in Submits, Complete(j) PROVE ServiceTypes'
  BY <1>20 DEF Complete
<1>21. ASSUME NEW j \in Submits, Crash(j) PROVE ServiceTypes'
  BY <1>21 DEF Crash
<1>22. CASE UNCHANGED vars
  BY <1>22 DEF vars
<1>23. QED
  BY <1>1, <1>2, <1>3, <1>4, <1>5, <1>6, <1>7, <1>8, <1>9, <1>10, <1>11, <1>12,
     <1>13, <1>14, <1>15, <1>16, <1>17, <1>18, <1>19, <1>20, <1>21, <1>22
  DEF Next, PageSteps, ServiceSteps

\* The portraits that the page and the service hold are captures.
LEMMA PortraitsAreCaptures ==
  ASSUME TypeOK
  PROVE  \A p \in {stored, passed, ready, review} \cup discarded : p # 0 => p \in Captures
BY JourneyAssumption DEF TypeOK, PageTypes, ServiceTypes, Portrait, Captures

\* The gate and Retry change no place, payload or answer of a submit.
LEMMA GateKeeps ==
  ASSUME TypeOK, NEW to, GateMoves(to)
  PROVE  /\ \A i \in Submits : \A f \in {"at", "awaits", "payload", "reviewed", "retried"} :
              submits'[i][f] = submits[i][f]
         /\ \A k \in Captures : chains'[k].at = chains[k].at /\ chains'[k].answer = chains[k].answer
<1>1. CASE to = "closed"
  <2>1. /\ submits' = [j \in Submits |-> [submits[j] EXCEPT !.mine = submits[j].at = "unused"]]
        /\ chains' = [k \in Captures |-> [chains[k] EXCEPT !.mine = chains[k].at = "unused"]]
    BY <1>1 DEF GateMoves
  <2>2. QED
    BY <2>1 DEF TypeOK, Calls, Chains
<1>2. CASE to # "closed"
  BY <1>2 DEF GateMoves
<1>3. QED
  BY <1>1, <1>2

LEMMA RetryKeeps ==
  ASSUME TypeOK, Retry
  PROVE  \A i \in Submits :
           /\ \A f \in {"at", "awaits", "payload", "reviewed"} : submits'[i][f] = submits[i][f]
           /\ submits'[i].retried <=> submits[i].at # "unused"
<1>1. submits' = [j \in Submits |-> [submits[j] EXCEPT !.retried = submits[j].at # "unused"]]
  BY DEF Retry, GivesUp
<1>2. QED
  BY <1>1 DEF TypeOK, Calls

\* A submit is answered at once, or takes the lock with the authorized portrait.
LEMMA ServeSubmitSteps ==
  ASSUME TypeOK, NEW j \in Submits, ServeSubmit(j)
  PROVE  /\ worker = 0 /\ submits[j].at = "sent"
         /\ \A i \in Submits : i # j => submits'[i] = submits[i]
         /\ \A f \in {"awaits", "reviewed", "retried"} : submits'[j][f] = submits[j][f]
         /\ \/ /\ submits'[j].at = "error" /\ submits'[j].payload = submits[j].payload
               /\ UNCHANGED worker
            \/ /\ acked # 0 /\ submits'[j].at = "ok" /\ submits'[j].payload = submits[j].payload
               /\ UNCHANGED worker
            \/ /\ acked = 0 /\ submits'[j].at = "sending" /\ submits'[j].payload = ready
               /\ ready # 0 /\ ready = stored /\ passed = stored /\ worker' = j
<1> USE DEF TypeOK, Calls
<1>1. CASE Refuses
  <2>1. submits' = [submits EXCEPT ![j].at = "error"] /\ UNCHANGED worker
    BY <1>1 DEF ServeSubmit
  <2>2. QED
    BY <2>1 DEF ServeSubmit
<1>2. CASE ~Refuses /\ acked # 0
  <2>1. submits' = [submits EXCEPT ![j].at = "ok"] /\ UNCHANGED worker
    BY <1>2 DEF ServeSubmit
  <2>2. QED
    BY <1>2, <2>1 DEF ServeSubmit
<1>3. CASE ~Refuses /\ acked = 0
  <2>1. /\ submits' = [submits EXCEPT ![j] = [submits[j] EXCEPT !.at = "sending", !.payload = ready]]
        /\ worker' = j
    BY <1>3 DEF ServeSubmit
  <2>2. ready # 0 /\ ready = stored /\ passed = stored
    BY <1>3 DEF Refuses
  <2>3. QED
    BY <1>3, <2>1, <2>2 DEF ServeSubmit
<1>4. QED
  BY <1>1, <1>2, <1>3

\* A post is tried again, acknowledged or given up; the consumer may take it.
LEMMA PostSteps ==
  ASSUME TypeOK, NEW j \in Submits, PostAnswered(j) \/ PostLost(j) \/ PostRefused(j)
  PROVE  /\ worker = j /\ submits[j].at = "sending"
         /\ accepted' \in {accepted, IF accepted = 0 THEN submits[j].payload ELSE accepted}
         /\ \A i \in Submits : i # j => submits'[i] = submits[i]
         /\ \A f \in {"awaits", "reviewed", "retried", "payload"} : submits'[j][f] = submits[j][f]
         /\ \/ submits'[j].at = "sending" /\ UNCHANGED <<status, acked, worker, met>>
            \/ /\ submits'[j].at = "acknowledged" /\ UNCHANGED <<status, worker, met>>
               /\ acked' = submits[j].payload
               /\ accepted' = IF accepted = 0 THEN submits[j].payload ELSE accepted
            \/ /\ submits'[j].at = "error" /\ worker' = 0 /\ UNCHANGED acked
               /\ status' = "CALLBACK_FAILED"
               /\ met' = met \cup IF accepted' # 0 THEN {"unknownOutcome"} ELSE {}
<1> USE DEF TypeOK, Calls
<1>1. CASE submits' = [submits EXCEPT ![j].at = "acknowledged"]
  BY <1>1 DEF PostAnswered, PostLost, PostRefused, SubmitFails, Takes
<1>2. CASE SubmitFails(j)
  <2>1. submits' = [submits EXCEPT ![j].at = "error"]
    BY <1>2 DEF SubmitFails
  <2>2. QED
    BY <1>2, <2>1 DEF PostAnswered, PostLost, PostRefused, SubmitFails, Meet, Takes
<1>3. CASE PostLost(j) /\ submits[j].tries < MaxRetries
  <2>1. /\ submits' = [submits EXCEPT ![j] = [submits[j] EXCEPT !.tries = submits[j].tries + 1]]
        /\ UNCHANGED <<status, acked, worker, met>>
    BY <1>3 DEF PostLost
  <2>2. accepted' \in {accepted, IF accepted = 0 THEN submits[j].payload ELSE accepted}
    BY <1>3 DEF PostLost, Takes
  <2>3. QED
    BY <1>3, <2>1, <2>2 DEF PostLost
<1>4. QED
  BY <1>1, <1>2, <1>3 DEF PostAnswered, PostLost, PostRefused

\* The lock, the payload and what is acknowledged.
LEMMA CallbackNext ==
  ASSUME TypeOK, CallbackInv, [Next]_vars
  PROVE  CallbackInv'
<1> USE JourneyAssumption DEF CallbackInv, Submits, Captures, pageVars, image,
     serviceVars, callbackVars
<1>1. ASSUME NEW to \in {"open", "covered", "closed"}, GateMoves(to) PROVE CallbackInv'
  <2>1. UNCHANGED <<acked, worker, accepted, status, left>> /\ met \subseteq met'
    BY <1>1 DEF GateMoves, Meet
  <2>2. \A i \in Submits : /\ submits'[i].at = submits[i].at /\ submits'[i].payload = submits[i].payload
                           /\ submits'[i].reviewed = submits[i].reviewed
    BY <1>1, GateKeeps
  <2>3. worker # 0 => worker \in Submits
    BY DEF TypeOK, ServiceTypes
  <2>4. QED
    BY <2>1, <2>2, <2>3
<1>2. CASE Load
  BY <1>2 DEF Load
<1>3. CASE Retry
  <2>1. UNCHANGED <<acked, worker, accepted, status, left>> /\ met \subseteq met'
    BY <1>3 DEF Retry, GivesUp, Meet, UserActs
  <2>2. \A i \in Submits : /\ submits'[i].at = submits[i].at /\ submits'[i].payload = submits[i].payload
                           /\ submits'[i].reviewed = submits[i].reviewed
    BY <1>3, RetryKeeps
  <2>3. worker # 0 => worker \in Submits
    BY DEF TypeOK, ServiceTypes
  <2>4. QED
    BY <2>1, <2>2, <2>3
<1>4. CASE ImageServed
  BY <1>4 DEF ImageServed
<1>5. CASE ImageReused
  <2>1. UNCHANGED <<submits, acked, worker, accepted, status, left>> /\ met \subseteq met'
    BY <1>5 DEF ImageReused, Meet
  <2>2. QED
    BY <2>1 DEF TypeOK, ServiceTypes
<1>6. ASSUME NEW k \in Captures, NewCapture(k) PROVE CallbackInv'
  BY <1>6 DEF NewCapture, UserActs
<1>7. ASSUME NEW k \in Captures, ChainGoesOn(k) PROVE CallbackInv'
  BY <1>7 DEF ChainGoesOn, NextStep
<1>8. ASSUME NEW k \in Captures, ChainFails(k) PROVE CallbackInv'
  BY <1>8 DEF ChainFails
<1>9. ASSUME NEW k \in Captures, ChainLoses(k) PROVE CallbackInv'
  BY <1>9 DEF ChainLoses
<1>10. ASSUME NEW j \in Submits, Submit(j) PROVE CallbackInv'
  <2>1. UNCHANGED <<acked, worker, accepted, status, left, met>>
    BY <1>10 DEF Submit, UserActs
  <2>2. submits[j].at = "unused" /\ submits'[j].at = "sent"
    BY <1>10 DEF Submit, TypeOK, Calls
  <2>3. \A i \in Submits : i # j => submits'[i] = submits[i]
    BY <1>10 DEF Submit, TypeOK
  <2>4. QED
    BY <2>1, <2>2, <2>3 DEF TypeOK, ServiceTypes
<1>11. ASSUME NEW j \in Submits, SubmitStalls(j) PROVE CallbackInv'
  BY <1>11 DEF SubmitStalls
<1>12. ASSUME NEW j \in Submits, SubmitSucceeds(j) PROVE CallbackInv'
  BY <1>12 DEF SubmitSucceeds
<1>13. ASSUME NEW j \in Submits, SubmitGivenUp(j) PROVE CallbackInv'
  BY <1>13 DEF SubmitGivenUp
<1>14. CASE ServeLate
  <2>1. UNCHANGED <<submits, acked, worker, accepted, status, left>> /\ met \subseteq met'
    BY <1>14 DEF ServeLate, Meet
  <2>2. QED
    BY <2>1 DEF TypeOK, ServiceTypes
<1>15. ASSUME NEW k \in Captures, ServeChain(k) PROVE CallbackInv'
  BY <1>15 DEF ServeChain, Serve, Uploads, Evaluates, Processes
<1>16. ASSUME NEW j \in Submits, ServeSubmit(j) PROVE CallbackInv'
  <2>1. UNCHANGED <<accepted, acked, status, left, met>>
    BY <1>16 DEF ServeSubmit
  <2>2. CASE worker' = worker
    <3>1. worker = 0 /\ j # 0 /\ submits[j].at = "sent"
      BY <1>16, ServeSubmitSteps
    <3>2. /\ submits'[j].at = "error" \/ (submits'[j].at = "ok" /\ acked # 0)
          /\ \A i \in Submits : i # j => submits'[i] = submits[i]
      BY <1>16, <2>2, <3>1, ServeSubmitSteps
    <3>3. \A i \in Submits : submits'[i].at \notin {"sending", "acknowledged"}
      BY <3>1, <3>2
    <3>4. \A i \in Submits : submits'[i].at = "unused" => submits'[i].reviewed = 0
      BY <3>2
    <3>5. \A i \in Submits : submits'[i].at = "ok" => acked # 0
      BY <3>2
    <3>6. QED
      BY <2>1, <2>2, <3>1, <3>3, <3>4, <3>5
  <2>3. CASE worker' = j
    <3>1. /\ acked = 0 /\ submits'[j].at = "sending" /\ submits'[j].payload # 0
          /\ \A i \in Submits : i # j => submits'[i] = submits[i]
      BY <1>16, <2>3, ServeSubmitSteps DEF TypeOK
    <3>2. worker = 0
      BY <1>16 DEF ServeSubmit
    <3>3. accepted = 0 \/ "unknownOutcome" \in met
      BY <3>1, <3>2
    <3>4. \A i \in Submits : i # j => submits'[i].at \notin {"sending", "acknowledged", "ok"}
      BY <3>1, <3>2
    <3>5. QED
      BY <2>1, <2>3, <3>1, <3>3, <3>4
  <2>4. QED
    BY <1>16, <2>2, <2>3, ServeSubmitSteps
<1>17. ASSUME NEW j \in Submits, PostAnswered(j) PROVE CallbackInv'
  <2>1. worker = j /\ submits[j].at = "sending" /\ UNCHANGED left
    BY <1>17, PostSteps DEF PostAnswered
  <2>2. accepted' \in {accepted, submits[j].payload} /\ (accepted # 0 => accepted' = accepted)
    BY <1>17, PostSteps
  <2>3. /\ \A i \in Submits : i # j => submits'[i] = submits[i]
        /\ submits'[j].payload = submits[j].payload /\ submits'[j].reviewed = submits[j].reviewed
    BY <1>17, PostSteps
  <2>4. CASE submits'[j].at = "sending" /\ UNCHANGED <<status, acked, worker, met>>
    BY <2>1, <2>2, <2>3, <2>4
  <2>5. CASE /\ submits'[j].at = "acknowledged" /\ UNCHANGED <<status, worker, met>>
             /\ acked' = submits[j].payload
             /\ accepted' = IF accepted = 0 THEN submits[j].payload ELSE accepted
    BY <2>1, <2>3, <2>5
  <2>6. CASE /\ submits'[j].at = "error" /\ worker' = 0 /\ UNCHANGED acked
             /\ status' = "CALLBACK_FAILED"
             /\ met' = met \cup IF accepted' # 0 THEN {"unknownOutcome"} ELSE {}
    BY <2>1, <2>2, <2>3, <2>6
  <2>7. QED
    BY <1>17, <2>4, <2>5, <2>6, PostSteps
<1>18. ASSUME NEW j \in Submits, PostLost(j) PROVE CallbackInv'
  <2>1. worker = j /\ submits[j].at = "sending" /\ UNCHANGED left
    BY <1>18, PostSteps DEF PostLost
  <2>2. accepted' \in {accepted, submits[j].payload} /\ (accepted # 0 => accepted' = accepted)
    BY <1>18, PostSteps
  <2>3. /\ \A i \in Submits : i # j => submits'[i] = submits[i]
        /\ submits'[j].payload = submits[j].payload /\ submits'[j].reviewed = submits[j].reviewed
    BY <1>18, PostSteps
  <2>4. CASE submits'[j].at = "sending" /\ UNCHANGED <<status, acked, worker, met>>
    BY <2>1, <2>2, <2>3, <2>4
  <2>5. CASE /\ submits'[j].at = "acknowledged" /\ UNCHANGED <<status, worker, met>>
             /\ acked' = submits[j].payload
             /\ accepted' = IF accepted = 0 THEN submits[j].payload ELSE accepted
    BY <2>1, <2>3, <2>5
  <2>6. CASE /\ submits'[j].at = "error" /\ worker' = 0 /\ UNCHANGED acked
             /\ status' = "CALLBACK_FAILED"
             /\ met' = met \cup IF accepted' # 0 THEN {"unknownOutcome"} ELSE {}
    BY <2>1, <2>2, <2>3, <2>6
  <2>7. QED
    BY <1>18, <2>4, <2>5, <2>6, PostSteps
<1>19. ASSUME NEW j \in Submits, PostRefused(j) PROVE CallbackInv'
  <2>1. worker = j /\ submits[j].at = "sending" /\ UNCHANGED left
    BY <1>19, PostSteps DEF PostRefused
  <2>2. accepted' \in {accepted, submits[j].payload} /\ (accepted # 0 => accepted' = accepted)
    BY <1>19, PostSteps
  <2>3. /\ \A i \in Submits : i # j => submits'[i] = submits[i]
        /\ submits'[j].payload = submits[j].payload /\ submits'[j].reviewed = submits[j].reviewed
    BY <1>19, PostSteps
  <2>4. CASE submits'[j].at = "sending" /\ UNCHANGED <<status, acked, worker, met>>
    BY <2>1, <2>2, <2>3, <2>4
  <2>5. CASE /\ submits'[j].at = "acknowledged" /\ UNCHANGED <<status, worker, met>>
             /\ acked' = submits[j].payload
             /\ accepted' = IF accepted = 0 THEN submits[j].payload ELSE accepted
    BY <2>1, <2>3, <2>5
  <2>6. CASE /\ submits'[j].at = "error" /\ worker' = 0 /\ UNCHANGED acked
             /\ status' = "CALLBACK_FAILED"
             /\ met' = met \cup IF accepted' # 0 THEN {"unknownOutcome"} ELSE {}
    BY <2>1, <2>2, <2>3, <2>6
  <2>7. QED
    BY <1>19, <2>4, <2>5, <2>6, PostSteps
<1>20. ASSUME NEW j \in Submits, Complete(j) PROVE CallbackInv'
  <2>1. /\ worker = j /\ submits[j].at = "acknowledged" /\ worker' = 0
        /\ status' = "COMPLETED" /\ UNCHANGED <<acked, accepted, left, met>>
    BY <1>20 DEF Complete
  <2>2. /\ submits'[j].at = "ok" /\ submits'[j].payload = submits[j].payload
        /\ \A i \in Submits : i # j => submits'[i] = submits[i]
    BY <1>20 DEF Complete, TypeOK, Calls
  <2>3. QED
    BY <2>1, <2>2
<1>21. ASSUME NEW j \in Submits, Crash(j) PROVE CallbackInv'
  <2>1. /\ worker = j /\ worker' = 0 /\ UNCHANGED <<status, acked, accepted, left>>
        /\ met' = met \cup {"crash"} \cup IF accepted # 0 THEN {"unknownOutcome"} ELSE {}
    BY <1>21 DEF Crash
  <2>2. /\ submits'[j].at = "lost" /\ submits'[j].payload = submits[j].payload
        /\ \A i \in Submits : i # j => submits'[i] = submits[i]
    BY <1>21 DEF Crash, TypeOK, Calls
  <2>3. QED
    BY <2>1, <2>2
<1>22. CASE UNCHANGED vars
  BY <1>22 DEF vars
<1>23. QED
  BY <1>1, <1>2, <1>3, <1>4, <1>5, <1>6, <1>7, <1>8, <1>9, <1>10, <1>11, <1>12,
     <1>13, <1>14, <1>15, <1>16, <1>17, <1>18, <1>19, <1>20, <1>21, <1>22
  DEF Next, PageSteps, ServiceSteps

\* One chain at most, none beside a review.
LEMMA ChainNext ==
  ASSUME TypeOK, ChainInv, [Next]_vars
  PROVE  ChainInv'
<1> USE JourneyAssumption DEF TypeOK, Chains, ChainInv, Overtaken, Running, Meet,
     Submits, Captures, pageVars, image, serviceVars, callbackVars
<1>1. ASSUME NEW to \in {"open", "covered", "closed"}, GateMoves(to) PROVE ChainInv'
  <2>1. CASE to = "closed"
    <3>1. /\ review' = 0 /\ shown' = 0 /\ ~loading'
          /\ chains' = [k \in Captures |-> [chains[k] EXCEPT !.mine = chains[k].at = "unused"]]
      BY <1>1, <2>1 DEF GateMoves
    <3>2. \A k \in Captures : chains'[k].at = chains[k].at /\
                               (chains'[k].mine <=> chains[k].at = "unused")
      BY <3>1
    <3>3. Overtaken' \/ \A k \in Captures : ~Running(k)
      BY <1>1, <2>1 DEF GateMoves
    <3>4. \A k \in Captures : ~(Running(k)' /\ chains'[k].mine)
      BY <3>2
    <3>5. \A k \in Captures : Running(k)' => Running(k)
      BY <3>2
    <3>6. \A k \in Captures : chains'[k].at = "unused" => chains'[k].mine
      BY <3>2
    <3> HIDE DEF Running
    <3>7. QED
      BY <3>1, <3>3, <3>4, <3>5, <3>6
  <2>2. CASE to # "closed"
    BY <1>1, <2>2 DEF GateMoves
  <2>3. QED
    BY <2>1, <2>2
<1>2. CASE Load
  BY <1>2 DEF Load
<1>3. CASE Retry
  BY <1>3 DEF Retry, GivesUp, UserActs
<1>4. CASE ImageServed
  BY <1>4 DEF ImageServed
<1>5. CASE ImageReused
  BY <1>5 DEF ImageReused
<1>6. ASSUME NEW k \in Captures, NewCapture(k) PROVE ChainInv'
  BY <1>6 DEF NewCapture, UserActs
<1>7. ASSUME NEW k \in Captures, ChainGoesOn(k) PROVE ChainInv'
  BY <1>7 DEF ChainGoesOn, NextStep
<1>8. ASSUME NEW k \in Captures, ChainFails(k) PROVE ChainInv'
  BY <1>8 DEF ChainFails
<1>9. ASSUME NEW k \in Captures, ChainLoses(k) PROVE ChainInv'
  BY <1>9 DEF ChainLoses
<1>10. ASSUME NEW j \in Submits, Submit(j) PROVE ChainInv'
  BY <1>10 DEF Submit, UserActs
<1>11. ASSUME NEW j \in Submits, SubmitStalls(j) PROVE ChainInv'
  BY <1>11 DEF SubmitStalls
<1>12. ASSUME NEW j \in Submits, SubmitSucceeds(j) PROVE ChainInv'
  BY <1>12 DEF SubmitSucceeds
<1>13. ASSUME NEW j \in Submits, SubmitGivenUp(j) PROVE ChainInv'
  BY <1>13 DEF SubmitGivenUp
<1>14. CASE ServeLate
  BY <1>14 DEF ServeLate, Serve, Uploads, Evaluates, Processes
<1>15. ASSUME NEW k \in Captures, ServeChain(k) PROVE ChainInv'
  BY <1>15 DEF ServeChain, Serve, Uploads, Evaluates, Processes
<1>16. ASSUME NEW j \in Submits, ServeSubmit(j) PROVE ChainInv'
  BY <1>16 DEF ServeSubmit, Refuses
<1>17. ASSUME NEW j \in Submits, PostAnswered(j) PROVE ChainInv'
  BY <1>17 DEF PostAnswered, Takes, SubmitFails
<1>18. ASSUME NEW j \in Submits, PostLost(j) PROVE ChainInv'
  BY <1>18 DEF PostLost, Takes, SubmitFails
<1>19. ASSUME NEW j \in Submits, PostRefused(j) PROVE ChainInv'
  BY <1>19 DEF PostRefused, SubmitFails
<1>20. ASSUME NEW j \in Submits, Complete(j) PROVE ChainInv'
  BY <1>20 DEF Complete
<1>21. ASSUME NEW j \in Submits, Crash(j) PROVE ChainInv'
  BY <1>21 DEF Crash
<1>22. CASE UNCHANGED vars
  BY <1>22 DEF vars
<1>23. QED
  BY <1>1, <1>2, <1>3, <1>4, <1>5, <1>6, <1>7, <1>8, <1>9, <1>10, <1>11, <1>12,
     <1>13, <1>14, <1>15, <1>16, <1>17, <1>18, <1>19, <1>20, <1>21, <1>22
  DEF Next, PageSteps, ServiceSteps

\* A chain goes on with its own capture.
LEMMA ServedNext ==
  ASSUME TypeOK, ChainInv, UploadInv, ServedInv, [Next]_vars
  PROVE  ServedInv'
<1> USE JourneyAssumption DEF TypeOK, Chains, ChainInv, ServedInv, HasStored,
     Overtaken, Running, Meet, Submits, Captures, pageVars, image, serviceVars, callbackVars
<1>1. ASSUME NEW to \in {"open", "covered", "closed"}, GateMoves(to) PROVE ServedInv'
  BY <1>1 DEF GateMoves
<1>2. CASE Load
  BY <1>2 DEF Load
<1>3. CASE Retry
  BY <1>3 DEF Retry, GivesUp, UserActs
<1>4. CASE ImageServed
  BY <1>4 DEF ImageServed
<1>5. CASE ImageReused
  BY <1>5 DEF ImageReused
<1>6. ASSUME NEW k \in Captures, NewCapture(k) PROVE ServedInv'
  <2>1. UNCHANGED <<stored, ready, met>> /\ chains' = [chains EXCEPT ![k].at = "upload"]
    BY <1>6 DEF NewCapture
  <2>2. chains[k].at = "unused" /\ chains[k].answer = "none"
    BY <1>6 DEF NewCapture, UploadInv
  <2>3. \A i \in Captures : HasStored(i)' => i # k /\ HasStored(i)
    BY <2>1, <2>2
  <2>4. QED
    BY <2>1, <2>3
<1>7. ASSUME NEW k \in Captures, ChainGoesOn(k) PROVE ServedInv'
  BY <1>7 DEF ChainGoesOn, NextStep
<1>8. ASSUME NEW k \in Captures, ChainFails(k) PROVE ServedInv'
  BY <1>8 DEF ChainFails
<1>9. ASSUME NEW k \in Captures, ChainLoses(k) PROVE ServedInv'
  BY <1>9 DEF ChainLoses
<1>10. ASSUME NEW j \in Submits, Submit(j) PROVE ServedInv'
  BY <1>10 DEF Submit, UserActs
<1>11. ASSUME NEW j \in Submits, SubmitStalls(j) PROVE ServedInv'
  BY <1>11 DEF SubmitStalls
<1>12. ASSUME NEW j \in Submits, SubmitSucceeds(j) PROVE ServedInv'
  BY <1>12 DEF SubmitSucceeds
<1>13. ASSUME NEW j \in Submits, SubmitGivenUp(j) PROVE ServedInv'
  BY <1>13 DEF SubmitGivenUp
<1>14. CASE ServeLate
  BY <1>14 DEF ServeLate, Serve, Uploads, Evaluates, Processes
<1>15. ASSUME NEW k \in Captures, ServeChain(k) PROVE ServedInv'
  BY <1>15 DEF ServeChain, Serve, Uploads, Evaluates, Processes
<1>16. ASSUME NEW j \in Submits, ServeSubmit(j) PROVE ServedInv'
  BY <1>16 DEF ServeSubmit, Refuses
<1>17. ASSUME NEW j \in Submits, PostAnswered(j) PROVE ServedInv'
  BY <1>17 DEF PostAnswered, Takes, SubmitFails
<1>18. ASSUME NEW j \in Submits, PostLost(j) PROVE ServedInv'
  BY <1>18 DEF PostLost, Takes, SubmitFails
<1>19. ASSUME NEW j \in Submits, PostRefused(j) PROVE ServedInv'
  BY <1>19 DEF PostRefused, SubmitFails
<1>20. ASSUME NEW j \in Submits, Complete(j) PROVE ServedInv'
  BY <1>20 DEF Complete
<1>21. ASSUME NEW j \in Submits, Crash(j) PROVE ServedInv'
  BY <1>21 DEF Crash
<1>22. CASE UNCHANGED vars
  BY <1>22 DEF vars
<1>23. QED
  BY <1>1, <1>2, <1>3, <1>4, <1>5, <1>6, <1>7, <1>8, <1>9, <1>10, <1>11, <1>12,
     <1>13, <1>14, <1>15, <1>16, <1>17, <1>18, <1>19, <1>20, <1>21, <1>22
  DEF Next, PageSteps, ServiceSteps

\* Submits are of the review on the screen.
LEMMA ReviewNext ==
  ASSUME TypeOK, CallbackInv, ChainInv, ServedInv, ReviewInv, [Next]_vars
  PROVE  ReviewInv'
<1> USE JourneyAssumption DEF ReviewInv, UnderWay, Overtaken, Submits, Captures,
     pageVars, image, serviceVars, callbackVars
<1>1. ASSUME NEW to \in {"open", "covered", "closed"}, GateMoves(to) PROVE ReviewInv'
  <2>1. CASE to = "closed"
    <3>1. review' = 0 /\ shown' = 0 /\ UNCHANGED <<worker, accepted, ready>> /\ met \subseteq met'
      BY <1>1, <2>1 DEF GateMoves, Meet
    <3>2. Overtaken' \/ \A j \in Submits : ~UnderWay(j)
      BY <1>1, <2>1 DEF GateMoves, Meet
    <3>3. \A j \in Submits : UnderWay(j)' => UnderWay(j)
      BY <1>1, GateKeeps
    <3>4. \A j \in Submits : worker = j => UnderWay(j)
      BY DEF CallbackInv
    <3>5. \A j \in Submits : submits'[j].reviewed = submits[j].reviewed
      BY <1>1, GateKeeps
    <3> HIDE DEF UnderWay
    <3>6. QED
      BY <3>1, <3>2, <3>3, <3>4, <3>5
  <2>2. CASE to # "closed"
    BY <1>1, <2>2 DEF GateMoves
  <2>3. QED
    BY <2>1, <2>2
<1>2. CASE Load
  BY <1>2 DEF Load
<1>3. CASE Retry
  <2>1. review' = 0 /\ shown' = 0 /\ UNCHANGED <<worker, accepted, ready>> /\ met \subseteq met'
    BY <1>3 DEF Retry, GivesUp, Meet
  <2>2. Overtaken' \/ \A j \in Submits : ~UnderWay(j)
    BY <1>3 DEF Retry, GivesUp, Meet
  <2>3. \A j \in Submits : UnderWay(j)' => UnderWay(j)
    BY <1>3, RetryKeeps
  <2>4. \A j \in Submits : worker = j => UnderWay(j)
    BY DEF CallbackInv
  <2>5. \A j \in Submits : submits'[j].reviewed = submits[j].reviewed
    BY <1>3, RetryKeeps
  <2> HIDE DEF UnderWay
  <2>6. QED
    BY <2>1, <2>2, <2>3, <2>4, <2>5
<1>4. CASE ImageServed
  <2>1. shown' = ready /\ UNCHANGED <<review, submits, ready, worker, accepted, met>>
    BY <1>4 DEF ImageServed
  <2>2. review # 0
    BY <1>4 DEF ImageServed, ChainInv
  <2>3. QED
    BY <2>1, <2>2
<1>5. CASE ImageReused
  <2>1. shown' = cached /\ UNCHANGED <<review, submits, ready, worker, accepted>>
    BY <1>5 DEF ImageReused
  <2>2. met \subseteq met' /\ (cached # review => "oldImage" \in met')
    BY <1>5 DEF ImageReused, Meet
  <2>3. QED
    BY <2>1, <2>2
<1>6. ASSUME NEW k \in Captures, NewCapture(k) PROVE ReviewInv'
  BY <1>6 DEF NewCapture, UserActs
<1>7. ASSUME NEW k \in Captures, ChainGoesOn(k) PROVE ReviewInv'
  <2>1. UNCHANGED <<shown, submits, ready, worker, accepted, met>> /\ Running(k)
    BY <1>7 DEF ChainGoesOn
  <2>2. \/ UNCHANGED review
        \/ review' = k /\ chains[k].mine /\ chains[k].at = "portrait" /\ chains[k].answer = "ok"
    BY <1>7 DEF ChainGoesOn
  <2>3. CASE UNCHANGED review
    BY <2>1, <2>3
  <2>4. CASE review' = k /\ chains[k].mine /\ chains[k].at = "portrait" /\ chains[k].answer = "ok"
    <3>1. review = 0 /\ shown = 0
      BY <2>1, <2>4 DEF ChainInv
    <3>2. ~Overtaken => ready = k
      BY <2>1, <2>4 DEF ServedInv, HasStored
    <3>3. ~Overtaken => \A j \in Submits : ~UnderWay(j)
      BY <3>1
    <3> HIDE DEF UnderWay
    <3>4. \A j \in Submits : UnderWay(j)' <=> UnderWay(j)
      BY <2>1 DEF UnderWay
    <3>5. QED
      BY <2>1, <2>4, <3>1, <3>2, <3>3, <3>4
  <2>5. QED
    BY <2>2, <2>3, <2>4
<1>8. ASSUME NEW k \in Captures, ChainFails(k) PROVE ReviewInv'
  BY <1>8 DEF ChainFails
<1>9. ASSUME NEW k \in Captures, ChainLoses(k) PROVE ReviewInv'
  BY <1>9 DEF ChainLoses
<1>10. ASSUME NEW j \in Submits, Submit(j) PROVE ReviewInv'
  <2>1. UNCHANGED <<review, shown, ready, worker, accepted, met>> /\ review # 0
    BY <1>10 DEF Submit, UserActs
  <2>2. submits'[j].reviewed = review /\ \A i \in Submits : i # j => submits'[i] = submits[i]
    BY <1>10 DEF Submit, TypeOK, Calls
  <2>3. worker # j /\ submits[j].at = "unused"
    BY <1>10 DEF Submit, CallbackInv
  <2>4. ~Overtaken /\ accepted # 0 => \E i \in Submits : submits'[i].reviewed = accepted
    <3>1. SUFFICES ASSUME ~Overtaken, accepted # 0 PROVE \E i \in Submits : submits'[i].reviewed = accepted
      OBVIOUS
    <3>2. PICK i \in Submits : submits[i].reviewed = accepted
      BY <3>1
    <3>3. submits[j].reviewed = 0
      BY <2>3 DEF CallbackInv
    <3>4. QED
      BY <2>2, <3>1, <3>2, <3>3
  <2>5. QED
    BY <2>1, <2>2, <2>3, <2>4
<1>11. ASSUME NEW j \in Submits, SubmitStalls(j) PROVE ReviewInv'
  BY <1>11 DEF SubmitStalls
<1>12. ASSUME NEW j \in Submits, SubmitSucceeds(j) PROVE ReviewInv'
  BY <1>12 DEF SubmitSucceeds
<1>13. ASSUME NEW j \in Submits, SubmitGivenUp(j) PROVE ReviewInv'
  BY <1>13 DEF SubmitGivenUp
<1>14. CASE ServeLate
  <2>1. UNCHANGED <<review, shown, submits, worker, accepted>> /\ met \subseteq met'
    BY <1>14 DEF ServeLate, Meet
  <2>2. Overtaken' \/ review = 0
    BY <1>14 DEF ServeLate, Meet
  <2>3. QED
    BY <2>1, <2>2
<1>15. ASSUME NEW k \in Captures, ServeChain(k) PROVE ReviewInv'
  <2>1. UNCHANGED <<review, shown, submits, worker, accepted, met>> /\ Running(k)
    BY <1>15 DEF ServeChain
  <2>2. ~Overtaken => review = 0
    BY <2>1 DEF ChainInv
  <2>3. QED
    BY <2>1, <2>2
<1>16. ASSUME NEW j \in Submits, ServeSubmit(j) PROVE ReviewInv'
  <2>1. UNCHANGED <<review, shown, ready, accepted, met>>
    BY <1>16 DEF ServeSubmit
  <2>2. UnderWay(j) /\ \A i \in Submits : UnderWay(i)' => UnderWay(i)
    BY <1>16, ServeSubmitSteps
  <2>3. \A i \in Submits : submits'[i].reviewed = submits[i].reviewed
    BY <1>16, ServeSubmitSteps
  <2>4. \A i \in Submits : worker' = i => i = j /\ submits'[j].payload = ready
    BY <1>16, ServeSubmitSteps
  <2> HIDE DEF UnderWay
  <2>5. QED
    BY <2>1, <2>2, <2>3, <2>4
<1>17. ASSUME NEW j \in Submits, PostAnswered(j) PROVE ReviewInv'
  <2>1. UNCHANGED <<review, shown, ready>> /\ met \subseteq met'
    BY <1>17, PostSteps DEF PostAnswered
  <2>2. UnderWay(j) /\ worker = j /\ \A i \in Submits : UnderWay(i)' => UnderWay(i)
    BY <1>17, PostSteps
  <2>3. \A i \in Submits : /\ submits'[i].reviewed = submits[i].reviewed
                           /\ submits'[i].payload = submits[i].payload
    BY <1>17, PostSteps
  <2>4. worker' \in {worker, 0} /\ accepted' \in {accepted, submits[j].payload}
    BY <1>17, PostSteps
  <2> HIDE DEF UnderWay
  <2>5. QED
    BY <2>1, <2>2, <2>3, <2>4
<1>18. ASSUME NEW j \in Submits, PostLost(j) PROVE ReviewInv'
  <2>1. UNCHANGED <<review, shown, ready>> /\ met \subseteq met'
    BY <1>18, PostSteps DEF PostLost
  <2>2. UnderWay(j) /\ worker = j /\ \A i \in Submits : UnderWay(i)' => UnderWay(i)
    BY <1>18, PostSteps
  <2>3. \A i \in Submits : /\ submits'[i].reviewed = submits[i].reviewed
                           /\ submits'[i].payload = submits[i].payload
    BY <1>18, PostSteps
  <2>4. worker' \in {worker, 0} /\ accepted' \in {accepted, submits[j].payload}
    BY <1>18, PostSteps
  <2> HIDE DEF UnderWay
  <2>5. QED
    BY <2>1, <2>2, <2>3, <2>4
<1>19. ASSUME NEW j \in Submits, PostRefused(j) PROVE ReviewInv'
  <2>1. UNCHANGED <<review, shown, ready>> /\ met \subseteq met'
    BY <1>19, PostSteps DEF PostRefused
  <2>2. UnderWay(j) /\ worker = j /\ \A i \in Submits : UnderWay(i)' => UnderWay(i)
    BY <1>19, PostSteps
  <2>3. \A i \in Submits : /\ submits'[i].reviewed = submits[i].reviewed
                           /\ submits'[i].payload = submits[i].payload
    BY <1>19, PostSteps
  <2>4. worker' \in {worker, 0} /\ accepted' \in {accepted, submits[j].payload}
    BY <1>19, PostSteps
  <2> HIDE DEF UnderWay
  <2>5. QED
    BY <2>1, <2>2, <2>3, <2>4
<1>20. ASSUME NEW j \in Submits, Complete(j) PROVE ReviewInv'
  BY <1>20 DEF Complete
<1>21. ASSUME NEW j \in Submits, Crash(j) PROVE ReviewInv'
  BY <1>21 DEF Crash
<1>22. CASE UNCHANGED vars
  BY <1>22 DEF vars
<1>23. QED
  BY <1>1, <1>2, <1>3, <1>4, <1>5, <1>6, <1>7, <1>8, <1>9, <1>10, <1>11, <1>12,
     <1>13, <1>14, <1>15, <1>16, <1>17, <1>18, <1>19, <1>20, <1>21, <1>22
  DEF Next, PageSteps, ServiceSteps

\* Who is sent on has reviewed the delivered portrait.
LEMMA SentOnNext ==
  ASSUME TypeOK, CallbackInv, ReviewInv, SentOnInv, [Next]_vars
  PROVE  SentOnInv'
<1> USE JourneyAssumption DEF SentOnInv, Submits, Captures, pageVars, image,
     serviceVars, callbackVars
<1>1. ASSUME NEW to \in {"open", "covered", "closed"}, GateMoves(to) PROVE SentOnInv'
  <2>1. ~left /\ UNCHANGED <<left, accepted>> /\ met \subseteq met'
    BY <1>1 DEF GateMoves, Meet
  <2>2. CASE to = "closed"
    <3>1. "overtaken" \in met' \/ \A j \in Submits : submits[j].awaits = "nothing"
      BY <1>1, <2>2 DEF GateMoves, Meet, UnderWay
    <3>2. QED
      BY <1>1, <2>1, <3>1, GateKeeps
  <2>3. CASE to # "closed"
    BY <1>1, <2>1, <2>3 DEF GateMoves
  <2>4. QED
    BY <2>2, <2>3
<1>2. CASE Load
  BY <1>2 DEF Load
<1>3. CASE Retry
  <2>1. ~left /\ UNCHANGED <<left, accepted>> /\ met \subseteq met'
    BY <1>3 DEF Retry, GivesUp, UserActs, Meet
  <2>2. "overtaken" \in met' \/ \A j \in Submits : submits[j].awaits = "nothing"
    BY <1>3 DEF Retry, GivesUp, Meet, UnderWay
  <2>3. QED
    BY <1>3, <2>1, <2>2, RetryKeeps
<1>4. CASE ImageServed
  BY <1>4 DEF ImageServed
<1>5. CASE ImageReused
  <2>1. UNCHANGED <<left, review, submits, accepted>> /\ met \subseteq met'
    BY <1>5 DEF ImageReused, Meet
  <2>2. QED
    BY <2>1
<1>6. ASSUME NEW k \in Captures, NewCapture(k) PROVE SentOnInv'
  BY <1>6 DEF NewCapture, UserActs
<1>7. ASSUME NEW k \in Captures, ChainGoesOn(k) PROVE SentOnInv'
  BY <1>7 DEF ChainGoesOn, NextStep
<1>8. ASSUME NEW k \in Captures, ChainFails(k) PROVE SentOnInv'
  BY <1>8 DEF ChainFails
<1>9. ASSUME NEW k \in Captures, ChainLoses(k) PROVE SentOnInv'
  BY <1>9 DEF ChainLoses
<1>10. ASSUME NEW j \in Submits, Submit(j) PROVE SentOnInv'
  <2>1. ~left /\ UNCHANGED <<left, accepted, met>>
    BY <1>10 DEF Submit, UserActs
  <2>2. submits'[j].at = "sent" /\ \A i \in Submits : i # j => submits'[i] = submits[i]
    BY <1>10 DEF Submit, TypeOK, Calls
  <2>3. QED
    BY <2>1, <2>2
<1>11. ASSUME NEW j \in Submits, SubmitStalls(j) PROVE SentOnInv'
  BY <1>11 DEF SubmitStalls
<1>12. ASSUME NEW j \in Submits, SubmitSucceeds(j) PROVE SentOnInv'
  <2>1. UNCHANGED <<review, accepted, met>> /\ submits[j].awaits # "nothing" /\ submits[j].at = "ok"
    BY <1>12 DEF SubmitSucceeds
  <2>2. met = {} => submits[j].reviewed = review /\ submits[j].reviewed = accepted
    BY <2>1 DEF ReviewInv, UnderWay, Overtaken
  <2>3. submits'[j].awaits = "nothing" /\ \A i \in Submits : i # j => submits'[i] = submits[i]
    BY <1>12 DEF SubmitSucceeds, TypeOK, Calls
  <2>4. QED
    BY <2>1, <2>2, <2>3
<1>13. ASSUME NEW j \in Submits, SubmitGivenUp(j) PROVE SentOnInv'
  BY <1>13 DEF SubmitGivenUp
<1>14. CASE ServeLate
  <2>1. UNCHANGED <<left, review, submits, accepted>> /\ met \subseteq met'
    BY <1>14 DEF ServeLate, Meet
  <2>2. QED
    BY <2>1
<1>15. ASSUME NEW k \in Captures, ServeChain(k) PROVE SentOnInv'
  BY <1>15 DEF ServeChain, Serve, Uploads, Evaluates, Processes
<1>16. ASSUME NEW j \in Submits, ServeSubmit(j) PROVE SentOnInv'
  <2>1. UNCHANGED <<left, review, accepted, met>>
    BY <1>16 DEF ServeSubmit
  <2>2. met = {} /\ acked # 0 => submits'[j].at = "error"
    <3>1. met = {} /\ acked # 0 => Refuses
      BY <1>16 DEF ServeSubmit, CallbackInv, Refuses
    <3>2. Refuses => submits' = [submits EXCEPT ![j].at = "error"]
      BY <1>16 DEF ServeSubmit
    <3>3. QED
      BY <3>1, <3>2 DEF TypeOK, Calls
  <2>3. /\ submits'[j].at = "ok" => acked # 0
        /\ \A i \in Submits : i # j => submits'[i] = submits[i]
    BY <1>16, ServeSubmitSteps
  <2>4. QED
    BY <2>1, <2>2, <2>3
<1>17. ASSUME NEW j \in Submits, PostAnswered(j) PROVE SentOnInv'
  <2>1. UNCHANGED left
    BY <1>17 DEF PostAnswered
  <2>2. worker = j /\ submits[j].at = "sending" /\ submits'[j].at # "ok"
    BY <1>17, PostSteps
  <2>3. ~left /\ \A i \in Submits : submits[i].at # "ok"
    BY <2>2 DEF CallbackInv
  <2>4. \A i \in Submits : submits'[i].at # "ok"
    BY <1>17, <2>2, <2>3, PostSteps
  <2>5. QED
    BY <2>1, <2>3, <2>4
<1>18. ASSUME NEW j \in Submits, PostLost(j) PROVE SentOnInv'
  <2>1. UNCHANGED left
    BY <1>18 DEF PostLost
  <2>2. worker = j /\ submits[j].at = "sending" /\ submits'[j].at # "ok"
    BY <1>18, PostSteps
  <2>3. ~left /\ \A i \in Submits : submits[i].at # "ok"
    BY <2>2 DEF CallbackInv
  <2>4. \A i \in Submits : submits'[i].at # "ok"
    BY <1>18, <2>2, <2>3, PostSteps
  <2>5. QED
    BY <2>1, <2>3, <2>4
<1>19. ASSUME NEW j \in Submits, PostRefused(j) PROVE SentOnInv'
  <2>1. UNCHANGED left
    BY <1>19 DEF PostRefused
  <2>2. worker = j /\ submits[j].at = "sending" /\ submits'[j].at # "ok"
    BY <1>19, PostSteps
  <2>3. ~left /\ \A i \in Submits : submits[i].at # "ok"
    BY <2>2 DEF CallbackInv
  <2>4. \A i \in Submits : submits'[i].at # "ok"
    BY <1>19, <2>2, <2>3, PostSteps
  <2>5. QED
    BY <2>1, <2>3, <2>4
<1>20. ASSUME NEW j \in Submits, Complete(j) PROVE SentOnInv'
  <2>1. worker = j /\ submits[j].at = "acknowledged" /\ UNCHANGED <<left, review, accepted, met>>
    BY <1>20 DEF Complete
  <2>2. met = {} => submits[j].payload = accepted
    BY <2>1 DEF CallbackInv
  <2>3. met = {} => submits[j].payload = submits[j].reviewed
    BY <2>1 DEF ReviewInv, Overtaken
  <2>4. /\ submits'[j].reviewed = submits[j].reviewed
        /\ \A i \in Submits : i # j => submits'[i] = submits[i]
    BY <1>20 DEF Complete, TypeOK, Calls
  <2>5. QED
    BY <2>1, <2>2, <2>3, <2>4
<1>21. ASSUME NEW j \in Submits, Crash(j) PROVE SentOnInv'
  BY <1>21 DEF Crash
<1>22. CASE UNCHANGED vars
  BY <1>22 DEF vars
<1>23. QED
  BY <1>1, <1>2, <1>3, <1>4, <1>5, <1>6, <1>7, <1>8, <1>9, <1>10, <1>11, <1>12,
     <1>13, <1>14, <1>15, <1>16, <1>17, <1>18, <1>19, <1>20, <1>21, <1>22
  DEF Next, PageSteps, ServiceSteps

\* What was stored is not uploaded again.
LEMMA UploadNext ==
  ASSUME TypeOK, ChainInv, UploadInv, [Next]_vars
  PROVE  UploadInv'
<1> USE JourneyAssumption DEF UploadInv, Unstored, Submits, Captures, pageVars,
     image, serviceVars, callbackVars
<1>1. ASSUME NEW to \in {"open", "covered", "closed"}, GateMoves(to) PROVE UploadInv'
  <2>1. review' \in {0, review} /\ UNCHANGED <<late, stored, passed, ready, discarded>>
    BY <1>1 DEF GateMoves
  <2>2. \A i \in Captures : chains'[i].at = chains[i].at /\ chains'[i].answer = chains[i].answer
    BY <1>1, GateKeeps
  <2>3. \A p \in {stored, passed, ready, review} \cup discarded : p # 0 => p \in Captures
    BY PortraitsAreCaptures
  <2>4. QED
    BY <2>1, <2>2, <2>3
<1>2. CASE Load
  BY <1>2 DEF Load
<1>3. CASE Retry
  BY <1>3 DEF Retry, GivesUp, UserActs
<1>4. CASE ImageServed
  BY <1>4 DEF ImageServed
<1>5. CASE ImageReused
  BY <1>5 DEF ImageReused
<1>6. ASSUME NEW k \in Captures, NewCapture(k) PROVE UploadInv'
  BY <1>6 DEF NewCapture, UserActs
<1>7. ASSUME NEW k \in Captures, ChainGoesOn(k) PROVE UploadInv'
  <2>1. UNCHANGED <<late, stored, passed, ready, discarded>> /\ review' \in {review, k}
    BY <1>7 DEF ChainGoesOn
  <2>2. chains[k].at \in {"upload", "liveness", "portrait"} /\ chains[k].answer = "ok"
    BY <1>7 DEF ChainGoesOn, Running
  <2>3. /\ chains'[k].at \in {"liveness", "portrait", "done"} /\ chains'[k].answer = "none"
        /\ \A i \in Captures : i # k => chains'[i] = chains[i]
    BY <1>7, <2>2 DEF ChainGoesOn, NextStep, TypeOK, Chains
  <2>4. (\A i \in Captures : Unstored(i)' => Unstored(i)) /\ ~Unstored(k)'
    BY <2>1, <2>2, <2>3
  <2>5. \A p \in {stored, passed, ready, review} \cup discarded : p # 0 => p \in Captures
    BY PortraitsAreCaptures
  <2>6. \A i \in Captures : chains'[i].at # "done" => <<"upload", i>> \notin late
    BY <2>2, <2>3
  <2>7. \A i \in Captures : chains'[i].at = "unused" => chains'[i].answer = "none"
    BY <2>3
  <2> HIDE DEF Unstored
  <2>8. QED
    BY <2>1, <2>4, <2>5, <2>6, <2>7
<1>8. ASSUME NEW k \in Captures, ChainFails(k) PROVE UploadInv'
  <2>1. /\ late' = late \cup IF chains[k].answer = "none" THEN {<<chains[k].at, k>>} ELSE {}
        /\ UNCHANGED <<stored, passed, ready, review, discarded>>
    BY <1>8 DEF ChainFails
  <2>2. chains[k].at \in {"upload", "liveness", "portrait"} /\ chains[k].answer # "ok"
    BY <1>8 DEF ChainFails, Running
  <2>3. /\ chains'[k].at = "done" /\ \A i \in Captures : i # k => chains'[i] = chains[i]
    BY <1>8 DEF ChainFails, TypeOK, Chains
  <2>4. \A i \in Captures : <<"upload", i>> \in late' =>
            <<"upload", i>> \in late \/ (i = k /\ chains[k].at = "upload")
    BY <2>1
  <2>5. \A i \in Captures : Unstored(i)' => Unstored(i)
    BY <2>2, <2>3, <2>4
  <2>6. \A p \in {stored, passed, ready, review} \cup discarded : p # 0 => p \in Captures
    BY PortraitsAreCaptures
  <2>7. \A i \in Captures : chains'[i].at # "done" => <<"upload", i>> \notin late'
    BY <2>3, <2>4
  <2>8. \A i \in Captures : chains'[i].at = "unused" => chains'[i].answer = "none"
    BY <2>3
  <2> HIDE DEF Unstored
  <2>9. QED
    BY <2>1, <2>5, <2>6, <2>7, <2>8
<1>9. ASSUME NEW k \in Captures, ChainLoses(k) PROVE UploadInv'
  <2>1. UNCHANGED <<late, stored, passed, ready, review, discarded>>
    BY <1>9 DEF ChainLoses
  <2>2. chains[k].at \in {"upload", "liveness", "portrait"} /\ chains[k].answer = "ok"
    BY <1>9 DEF ChainLoses, Running
  <2>3. chains'[k].at = "done" /\ \A i \in Captures : i # k => chains'[i] = chains[i]
    BY <1>9 DEF ChainLoses, TypeOK, Chains
  <2>4. \A i \in Captures : Unstored(i)' => Unstored(i)
    BY <2>1, <2>2, <2>3
  <2>5. \A p \in {stored, passed, ready, review} \cup discarded : p # 0 => p \in Captures
    BY PortraitsAreCaptures
  <2>6. \A i \in Captures : /\ chains'[i].at # "done" => <<"upload", i>> \notin late
                            /\ chains'[i].at = "unused" => chains'[i].answer = "none"
    BY <2>3
  <2> HIDE DEF Unstored
  <2>7. \A p \in {stored', passed', ready', review'} \cup discarded' : p # 0 => ~Unstored(p)'
    BY <2>1, <2>4, <2>5
  <2>8. QED
    BY <2>1, <2>6, <2>7
<1>10. ASSUME NEW j \in Submits, Submit(j) PROVE UploadInv'
  BY <1>10 DEF Submit, UserActs
<1>11. ASSUME NEW j \in Submits, SubmitStalls(j) PROVE UploadInv'
  BY <1>11 DEF SubmitStalls
<1>12. ASSUME NEW j \in Submits, SubmitSucceeds(j) PROVE UploadInv'
  BY <1>12 DEF SubmitSucceeds
<1>13. ASSUME NEW j \in Submits, SubmitGivenUp(j) PROVE UploadInv'
  BY <1>13 DEF SubmitGivenUp
<1>14. CASE ServeLate
  <2>1. PICK r \in late, answer \in {"ok", "no"} : Serve(r[1], r[2], answer) /\ late' = late \ {r}
    BY <1>14 DEF ServeLate
  <2>2. UNCHANGED <<review, discarded, chains>>
    BY <1>14 DEF ServeLate
  <2>3. r[2] \in Captures /\ r = <<r[1], r[2]>>
    BY DEF TypeOK, ServiceTypes
  <2>4. \A i \in Captures : Unstored(i)' => Unstored(i)
    BY <2>1, <2>2
  <2>5. \A p \in {stored, passed, ready, review} \cup discarded : p # 0 => p \in Captures
    BY PortraitsAreCaptures
  <2>6. \A i \in Captures : /\ chains'[i].at # "done" => <<"upload", i>> \notin late'
                            /\ chains'[i].at = "unused" => chains'[i].answer = "none"
    BY <2>1, <2>2
  <2>7. \/ r[1] = "upload" /\ Uploads(r[2])
        \/ stored' = stored /\ passed' \in {passed, stored} /\ ready' \in {ready, stored}
    BY <2>1 DEF Serve, Evaluates, Processes
  <2>8. CASE r[1] = "upload" /\ Uploads(r[2])
    <3>1. stored' = r[2] /\ passed' = 0 /\ ready' = 0
      BY <2>8 DEF Uploads
    <3>2. chains[r[2]].at = "done"
      BY <2>3, <2>8
    <3>3. ~Unstored(r[2])'
      BY <2>1, <2>2, <2>3, <2>8, <3>2
    <3> HIDE DEF Unstored
    <3>4. \A p \in {stored', passed', ready', review'} \cup discarded' : p # 0 => ~Unstored(p)'
      BY <2>2, <2>4, <2>5, <3>1, <3>3
    <3>5. QED
      BY <2>6, <3>1, <3>4
  <2>9. CASE stored' = stored /\ passed' \in {passed, stored} /\ ready' \in {ready, stored}
    <3>1. \A p \in {stored', passed', ready', review'} \cup discarded' : p # 0 => ~Unstored(p)'
      BY <2>2, <2>4, <2>5, <2>9
    <3>2. passed' \in {0, stored'} /\ ready' \in {0, stored'}
      BY <2>9
    <3> HIDE DEF Unstored
    <3>3. QED
      BY <2>6, <3>1, <3>2
  <2>10. QED
    BY <2>7, <2>8, <2>9
<1>15. ASSUME NEW k \in Captures, ServeChain(k) PROVE UploadInv'
  <2>1. PICK answer \in {"ok", "no"} :
            Serve(chains[k].at, k, answer) /\ chains' = [chains EXCEPT ![k].answer = answer]
    BY <1>15 DEF ServeChain
  <2>2. UNCHANGED <<review, discarded, late>>
    BY <1>15 DEF ServeChain
  <2>3. chains[k].at \in {"upload", "liveness", "portrait"} /\ chains[k].answer = "none"
    BY <1>15 DEF ServeChain, Running
  <2>4. /\ \A i \in Captures : i # k => chains'[i] = chains[i]
        /\ chains'[k].at = chains[k].at /\ chains'[k].answer = answer
    BY <2>1 DEF TypeOK, Chains
  <2>5. \A i \in Captures : Unstored(i)' => Unstored(i)
    BY <2>2, <2>3, <2>4
  <2>6. \A p \in {stored, passed, ready, review} \cup discarded : p # 0 => p \in Captures
    BY PortraitsAreCaptures
  <2>7. \A i \in Captures : /\ chains'[i].at # "done" => <<"upload", i>> \notin late'
                            /\ chains'[i].at = "unused" => chains'[i].answer = "none"
    BY <2>2, <2>3, <2>4
  <2>8. \/ chains[k].at = "upload" /\ answer = "ok" /\ Uploads(k)
        \/ stored' = stored /\ passed' \in {passed, stored} /\ ready' \in {ready, stored}
    BY <2>1 DEF Serve, Evaluates, Processes
  <2>9. CASE chains[k].at = "upload" /\ answer = "ok" /\ Uploads(k)
    <3>1. stored' = k /\ passed' = 0 /\ ready' = 0
      BY <2>9 DEF Uploads
    <3>2. ~Unstored(k)'
      BY <2>2, <2>4, <2>7, <2>9
    <3> HIDE DEF Unstored
    <3>3. \A p \in {stored', passed', ready', review'} \cup discarded' : p # 0 => ~Unstored(p)'
      BY <2>2, <2>5, <2>6, <3>1, <3>2
    <3>4. QED
      BY <2>7, <3>1, <3>3
  <2>10. CASE stored' = stored /\ passed' \in {passed, stored} /\ ready' \in {ready, stored}
    <3>1. \A p \in {stored', passed', ready', review'} \cup discarded' : p # 0 => ~Unstored(p)'
      BY <2>2, <2>5, <2>6, <2>10
    <3>2. passed' \in {0, stored'} /\ ready' \in {0, stored'}
      BY <2>10
    <3> HIDE DEF Unstored
    <3>3. QED
      BY <2>7, <3>1, <3>2
  <2>11. QED
    BY <2>8, <2>9, <2>10
<1>16. ASSUME NEW j \in Submits, ServeSubmit(j) PROVE UploadInv'
  BY <1>16 DEF ServeSubmit, Refuses
<1>17. ASSUME NEW j \in Submits, PostAnswered(j) PROVE UploadInv'
  BY <1>17 DEF PostAnswered, Takes, SubmitFails
<1>18. ASSUME NEW j \in Submits, PostLost(j) PROVE UploadInv'
  BY <1>18 DEF PostLost, Takes, SubmitFails
<1>19. ASSUME NEW j \in Submits, PostRefused(j) PROVE UploadInv'
  BY <1>19 DEF PostRefused, SubmitFails
<1>20. ASSUME NEW j \in Submits, Complete(j) PROVE UploadInv'
  BY <1>20 DEF Complete
<1>21. ASSUME NEW j \in Submits, Crash(j) PROVE UploadInv'
  BY <1>21 DEF Crash
<1>22. CASE UNCHANGED vars
  BY <1>22 DEF vars
<1>23. QED
  BY <1>1, <1>2, <1>3, <1>4, <1>5, <1>6, <1>7, <1>8, <1>9, <1>10, <1>11, <1>12,
     <1>13, <1>14, <1>15, <1>16, <1>17, <1>18, <1>19, <1>20, <1>21, <1>22
  DEF Next, PageSteps, ServiceSteps

\* What was given up is not sent again.
LEMMA DiscardNext ==
  ASSUME TypeOK, CallbackInv, ChainInv, UploadInv, DiscardInv, [Next]_vars
  PROVE  DiscardInv'
<1> USE JourneyAssumption DEF DiscardInv, HasStored, Running, Submits, Captures,
     pageVars, image, serviceVars, callbackVars
<1>1. ASSUME NEW to \in {"open", "covered", "closed"}, GateMoves(to) PROVE DiscardInv'
  <2>1. UNCHANGED <<stored, worker, discarded>> /\ review' \in {0, review}
    BY <1>1 DEF GateMoves
  <2>2. \A i \in Captures : HasStored(i)' /\ chains'[i].mine => HasStored(i) /\ chains[i].mine
    <3>1. CASE to = "closed"
      BY SMTT(20), <1>1, <3>1 DEF GateMoves, TypeOK, Chains
    <3>2. CASE to # "closed"
      BY <1>1, <3>2 DEF GateMoves
    <3>3. QED
      BY <3>1, <3>2
  <2>3. \A i \in Submits : /\ submits'[i].at = submits[i].at /\ submits'[i].payload = submits[i].payload
                           /\ submits'[i].retried = submits[i].retried
    BY <1>1, GateKeeps
  <2> HIDE DEF HasStored
  <2>4. QED
    BY <2>1, <2>2, <2>3
<1>2. CASE Load
  BY <1>2 DEF Load
<1>3. CASE Retry
  <2>1. UNCHANGED <<chains, stored, worker>> /\ review' = 0 /\ (review # 0 \/ failed)
    BY <1>3 DEF Retry, GivesUp
  <2>2. \A k \in Captures : ~(HasStored(k) /\ chains[k].mine)
    BY <2>1 DEF ChainInv
  <2>3. \A i \in Submits : submits'[i].at # "unused" => submits'[i].retried
    BY <1>3, RetryKeeps
  <2>4. \A i \in Submits : worker = i => submits'[i].at # "unused"
    BY <1>3, RetryKeeps DEF CallbackInv
  <2>5. QED
    BY <2>1, <2>2, <2>3, <2>4
<1>4. CASE ImageServed
  BY <1>4 DEF ImageServed
<1>5. CASE ImageReused
  BY <1>5 DEF ImageReused
<1>6. ASSUME NEW k \in Captures, NewCapture(k) PROVE DiscardInv'
  <2>1. UNCHANGED <<stored, worker, discarded, review, submits>>
    BY <1>6 DEF NewCapture, UserActs
  <2>2. chains' = [chains EXCEPT ![k].at = "upload"] /\ chains[k].answer = "none"
    BY <1>6 DEF NewCapture, UploadInv
  <2>3. \A i \in Captures : HasStored(i)' /\ chains'[i].mine => HasStored(i) /\ chains[i].mine
    BY <2>2 DEF TypeOK, Chains
  <2> HIDE DEF HasStored
  <2>4. QED
    BY <2>1, <2>3
<1>7. ASSUME NEW k \in Captures, ChainGoesOn(k) PROVE DiscardInv'
  <2>1. UNCHANGED <<stored, worker, discarded, submits>> /\ HasStored(k)
    BY <1>7 DEF ChainGoesOn
  <2>2. review' = review \/ chains[k].mine
    BY <1>7 DEF ChainGoesOn
  <2>3. chains'[k].mine = chains[k].mine /\ \A i \in Captures : i # k => chains'[i] = chains[i]
    BY <1>7 DEF ChainGoesOn, TypeOK, Chains
  <2>4. \A i \in Captures : HasStored(i)' /\ chains'[i].mine => HasStored(i) /\ chains[i].mine
    BY <2>1, <2>3
  <2> HIDE DEF HasStored
  <2>5. QED
    BY <2>1, <2>2, <2>4
<1>8. ASSUME NEW k \in Captures, ChainFails(k) PROVE DiscardInv'
  <2>1. UNCHANGED <<stored, worker, discarded, submits, review>>
    BY <1>8 DEF ChainFails
  <2>2. chains'[k].at = "done" /\ \A i \in Captures : i # k => chains'[i] = chains[i]
    BY <1>8 DEF ChainFails, TypeOK, Chains
  <2>3. \A i \in Captures : HasStored(i)' /\ chains'[i].mine => HasStored(i) /\ chains[i].mine
    BY <2>2
  <2> HIDE DEF HasStored
  <2>4. QED
    BY <2>1, <2>3
<1>9. ASSUME NEW k \in Captures, ChainLoses(k) PROVE DiscardInv'
  <2>1. UNCHANGED <<stored, worker, discarded, submits, review>>
    BY <1>9 DEF ChainLoses
  <2>2. chains'[k].at = "done" /\ \A i \in Captures : i # k => chains'[i] = chains[i]
    BY <1>9 DEF ChainLoses, TypeOK, Chains
  <2>3. \A i \in Captures : HasStored(i)' /\ chains'[i].mine => HasStored(i) /\ chains[i].mine
    BY <2>2
  <2> HIDE DEF HasStored
  <2>4. QED
    BY <2>1, <2>3
<1>10. ASSUME NEW j \in Submits, Submit(j) PROVE DiscardInv'
  <2>1. UNCHANGED <<chains, stored, worker, discarded, review>> /\ review # 0
    BY <1>10 DEF Submit, UserActs
  <2>2. \A i \in Submits : i # j => submits'[i] = submits[i]
    BY <1>10 DEF Submit, TypeOK
  <2>3. worker # j
    BY <1>10 DEF Submit, CallbackInv
  <2>4. QED
    BY <2>1, <2>2, <2>3
<1>11. ASSUME NEW j \in Submits, SubmitStalls(j) PROVE DiscardInv'
  BY <1>11 DEF SubmitStalls
<1>12. ASSUME NEW j \in Submits, SubmitSucceeds(j) PROVE DiscardInv'
  BY <1>12 DEF SubmitSucceeds
<1>13. ASSUME NEW j \in Submits, SubmitGivenUp(j) PROVE DiscardInv'
  BY <1>13 DEF SubmitGivenUp
<1>14. CASE ServeLate
  <2>1. PICK r \in late, answer \in {"ok", "no"} : Serve(r[1], r[2], answer)
    BY <1>14 DEF ServeLate
  <2>2. UNCHANGED <<chains, worker, discarded, submits, review>> /\ worker = 0
    BY <1>14, <2>1 DEF ServeLate, Serve
  <2>3. stored' = stored \/ (r[1] = "upload" /\ stored' = r[2])
    BY <2>1 DEF Serve, Uploads, Evaluates, Processes
  <2>4. r[2] \in Captures /\ r = <<r[1], r[2]>>
    BY DEF TypeOK, ServiceTypes
  <2>5. stored' = stored \/ stored' \notin discarded
    BY <2>3, <2>4 DEF UploadInv, Unstored
  <2>6. QED
    BY <2>2, <2>5
<1>15. ASSUME NEW k \in Captures, ServeChain(k) PROVE DiscardInv'
  <2>1. PICK answer \in {"ok", "no"} :
            Serve(chains[k].at, k, answer) /\ chains' = [chains EXCEPT ![k].answer = answer]
    BY <1>15 DEF ServeChain
  <2>2. UNCHANGED <<worker, discarded, submits, review>> /\ worker = 0
    BY <1>15, <2>1 DEF ServeChain, Serve
  <2>3. chains[k].at \in {"upload", "liveness", "portrait"} /\ chains[k].answer = "none"
    BY <1>15 DEF ServeChain
  <2>4. /\ \A i \in Captures : i # k => chains'[i] = chains[i]
        /\ chains'[k].at = chains[k].at /\ chains'[k].mine = chains[k].mine
        /\ chains'[k].answer = answer
    BY <2>1 DEF TypeOK, Chains
  <2>5. CASE chains[k].at = "upload" /\ answer = "ok"
    <3>1. stored' = k
      BY <2>1, <2>5 DEF Serve, Uploads
    <3>2. Unstored(k) /\ k # 0
      BY <2>3, <2>5 DEF Unstored
    <3>3. k \notin discarded
      BY <3>2 DEF UploadInv
    <3>4. QED
      BY <2>2, <3>1, <3>3
  <2>6. CASE ~(chains[k].at = "upload" /\ answer = "ok")
    <3>1. stored' = stored
      BY <2>1, <2>6 DEF Serve, Uploads, Evaluates, Processes
    <3>2. \A i \in Captures : HasStored(i)' /\ chains'[i].mine => HasStored(i) /\ chains[i].mine
      BY <2>3, <2>4, <2>6
    <3> HIDE DEF HasStored
    <3>3. QED
      BY <2>2, <3>1, <3>2
  <2>7. QED
    BY <2>5, <2>6
<1>16. ASSUME NEW j \in Submits, ServeSubmit(j) PROVE DiscardInv'
  <2>1. UNCHANGED <<chains, stored, discarded, review>>
    BY <1>16 DEF ServeSubmit
  <2>2. submits[j].at = "sent" /\ submits'[j].retried = submits[j].retried /\ submits'[j].at # "sent"
    BY <1>16, ServeSubmitSteps
  <2>3. \A i \in Submits : i # j => submits'[i] = submits[i]
    BY <1>16, ServeSubmitSteps
  <2>4. worker' = 0 \/ (worker' = j /\ submits'[j].payload = stored)
    BY <1>16, ServeSubmitSteps
  <2>5. QED
    BY <2>1, <2>2, <2>3, <2>4
<1>17. ASSUME NEW j \in Submits, PostAnswered(j) PROVE DiscardInv'
  <2>1. UNCHANGED <<chains, stored, discarded, review>>
    BY <1>17 DEF PostAnswered
  <2>2. /\ submits'[j].retried = submits[j].retried /\ submits'[j].payload = submits[j].payload
        /\ submits'[j].at # "sent" /\ worker' \in {worker, 0}
    BY <1>17, PostSteps
  <2>3. \A i \in Submits : i # j => submits'[i] = submits[i]
    BY <1>17, PostSteps
  <2>4. QED
    BY <2>1, <2>2, <2>3
<1>18. ASSUME NEW j \in Submits, PostLost(j) PROVE DiscardInv'
  <2>1. UNCHANGED <<chains, stored, discarded, review>>
    BY <1>18 DEF PostLost
  <2>2. /\ submits'[j].retried = submits[j].retried /\ submits'[j].payload = submits[j].payload
        /\ submits'[j].at # "sent" /\ worker' \in {worker, 0}
    BY <1>18, PostSteps
  <2>3. \A i \in Submits : i # j => submits'[i] = submits[i]
    BY <1>18, PostSteps
  <2>4. QED
    BY <2>1, <2>2, <2>3
<1>19. ASSUME NEW j \in Submits, PostRefused(j) PROVE DiscardInv'
  <2>1. UNCHANGED <<chains, stored, discarded, review>>
    BY <1>19 DEF PostRefused
  <2>2. /\ submits'[j].retried = submits[j].retried /\ submits'[j].payload = submits[j].payload
        /\ submits'[j].at # "sent" /\ worker' \in {worker, 0}
    BY <1>19, PostSteps
  <2>3. \A i \in Submits : i # j => submits'[i] = submits[i]
    BY <1>19, PostSteps
  <2>4. QED
    BY <2>1, <2>2, <2>3
<1>20. ASSUME NEW j \in Submits, Complete(j) PROVE DiscardInv'
  BY <1>20 DEF Complete
<1>21. ASSUME NEW j \in Submits, Crash(j) PROVE DiscardInv'
  BY <1>21 DEF Crash
<1>22. CASE UNCHANGED vars
  BY <1>22 DEF vars
<1>23. QED
  BY <1>1, <1>2, <1>3, <1>4, <1>5, <1>6, <1>7, <1>8, <1>9, <1>10, <1>11, <1>12,
     <1>13, <1>14, <1>15, <1>16, <1>17, <1>18, <1>19, <1>20, <1>21, <1>22
  DEF Next, PageSteps, ServiceSteps

\* The first state.
LEMMA InitInv == Init => JourneyInv
<1> SUFFICES ASSUME Init PROVE JourneyInv
  OBVIOUS
<1> USE JourneyAssumption DEF Init, Captures, Submits
<1>1. 0 \in Portrait /\ 0 \in 0..MaxRetries /\ 0 \in 0..MaxSubmits
  BY DEF Portrait
<1>2. PageTypes /\ ServiceTypes
  BY <1>1 DEF PageTypes, ServiceTypes
<1>3. chains \in [Captures -> Chains]
  BY DEF Chains
<1>4. submits \in [Submits -> Calls]
  BY <1>1 DEF Calls
<1>5. TypeOK
  BY <1>2, <1>3, <1>4 DEF TypeOK
<1>6. CallbackInv
  BY DEF CallbackInv
<1>7. ChainInv /\ ServedInv
  BY DEF ChainInv, ServedInv, HasStored, Running
<1>8. ReviewInv
  BY DEF ReviewInv, UnderWay
<1>9. SentOnInv
  BY DEF SentOnInv
<1>10. UploadInv
  BY DEF UploadInv
<1>11. DiscardInv
  BY DEF DiscardInv
<1>12. QED
  BY <1>5, <1>6, <1>7, <1>8, <1>9, <1>10, <1>11 DEF JourneyInv

\* Every step keeps the invariant.
LEMMA StepInv == JourneyInv /\ [Next]_vars => JourneyInv'
<1> SUFFICES ASSUME JourneyInv, [Next]_vars PROVE JourneyInv'
  OBVIOUS
<1>1. /\ TypeOK /\ CallbackInv /\ ChainInv /\ ServedInv /\ ReviewInv /\ SentOnInv
      /\ UploadInv /\ DiscardInv
  BY DEF JourneyInv
<1>2. TypeOK'
  BY <1>1, PageTypesNext, ServiceTypesNext, ChainTypes, CallTypes DEF TypeOK
<1>3. QED
  BY <1>1, <1>2, CallbackNext, ChainNext, ServedNext, ReviewNext, SentOnNext,
     UploadNext,
     DiscardNext DEF JourneyInv

\* The inductive invariant holds: whatever the gate, the customer, the network and
\* the consumer do (IntegrationPage.tsx, browser.py, callback.py).
THEOREM JourneyInvariant == Spec => []JourneyInv
  BY InitInv, StepInv, PTL DEF Spec

\* Every variable keeps its type.
THEOREM JourneyTypes == Spec => []TypeOK
<1>1. JourneyInv => TypeOK
  BY DEF JourneyInv
<1>2. QED
  BY <1>1, JourneyInvariant, PTL

\* The consumer took the portrait of a capture that was under review at a press of
\* Submit, unless a review was given up during a submit or a request overtook it
\* (IntegrationPage.tsx:125, 180, client.ts:36).
THEOREM DeliveredWasReviewedAlways == Spec => []DeliveredWasReviewed
<1>1. JourneyInv => DeliveredWasReviewed
  BY DEF JourneyInv, ReviewInv, Overtaken, DeliveredWasReviewed
<1>2. QED
  BY <1>1, JourneyInvariant, PTL

\* The image on the screen, once it is there, is of the portrait under review, unless a
\* request overtook the review or the browser reused an older image
\* (IntegrationPage.tsx:170-171, 245).
THEOREM ImageOfReview == Spec => []ImageIsOfReview
<1>1. JourneyInv => ImageIsOfReview
  BY DEF JourneyInv, ReviewInv, Overtaken, ImageIsOfReview
<1>2. QED
  BY <1>1, JourneyInvariant, PTL

\* The stored acknowledgement names what the consumer took, unless a submit failed
\* while the consumer held a portrait (callback.py:47).
THEOREM AcknowledgedIsAccepted == Spec => []AckedIsAcceptedIfKnown
<1>1. JourneyInv => AckedIsAcceptedIfKnown
  BY DEF JourneyInv, CallbackInv, AckedIsAcceptedIfKnown
<1>2. QED
  BY <1>1, JourneyInvariant, PTL

\* Without hazards, the customer is sent on while the delivered capture is under review
\* (IntegrationPage.tsx:191).
THEOREM SentOnFromReview == Spec => []SentOnWithReviewed
<1>1. JourneyInv => SentOnWithReviewed
  BY DEF JourneyInv, SentOnInv, SentOnWithReviewed
<1>2. QED
  BY <1>1, JourneyInvariant, PTL

\* The consumer takes a portrait in the steps of the callback only: the payload of
\* the submit that holds the lock.
LEMMA TakesPayload ==
  ASSUME JourneyInv, [Next]_vars, accepted' # accepted
  PROVE  accepted = 0 /\ \E j \in Submits : worker = j /\ accepted' = submits[j].payload
<1> USE DEF pageVars, image, serviceVars, callbackVars
<1>1. \A j \in Submits : PostAnswered(j) \/ PostLost(j) =>
         worker = j /\ (accepted' = accepted \/ Takes(submits[j].payload))
  BY DEF PostAnswered, PostLost
<1>2. PageSteps => UNCHANGED accepted
  BY DEF PageSteps, GateMoves, Load, Retry, GivesUp, ImageServed, ImageReused,
     NewCapture,
     ChainGoesOn, ChainFails, ChainLoses, Submit, SubmitStalls, SubmitSucceeds, SubmitGivenUp
<1>3. UNCHANGED vars \/ ServeLate \/ (\E k \in Captures : ServeChain(k)) => UNCHANGED accepted
  BY DEF vars, ServeLate, ServeChain
<1>4. (\E j \in Submits : ServeSubmit(j) \/ PostRefused(j) \/ Complete(j) \/ Crash(j))
         => UNCHANGED accepted
  BY DEF ServeSubmit, PostRefused, Complete, Crash
<1>5. PICK j \in Submits : PostAnswered(j) \/ PostLost(j)
  BY <1>2, <1>3, <1>4 DEF Next, ServiceSteps
<1>6. QED
  BY <1>1, <1>5 DEF Takes

\* What the customer has given up with Retry reaches the consumer through no submit
\* pressed after that Retry (IntegrationPage.tsx:180).
THEOREM GivenUpStays == Spec => GivenUpIsNotResubmitted
<1> DEFINE Step == accepted' # accepted /\ accepted' \in discarded => submits[worker].retried
<1>1. ASSUME JourneyInv, [Next]_vars PROVE Step
  BY <1>1, TakesPayload DEF JourneyInv, DiscardInv
<1>2. ASSUME JourneyInv, [Next]_vars PROVE [Step]_vars
  BY <1>1, <1>2
<1>3. QED
  BY <1>2, JourneyInvariant, PTL DEF Spec, GivenUpIsNotResubmitted

\* What a step does to the four facts of Delivery.
LEMMA DeliverySteps ==
  ASSUME JourneyInv, [Next]_vars
  PROVE  [D!Next]_<<accepted # 0, acked # 0, status = "COMPLETED", left>>
<1> USE DEF pageVars, image, serviceVars, callbackVars
<1> DEFINE Quiet == UNCHANGED <<accepted, acked, status, left>>
<1>1. TypeOK /\ CallbackInv
  BY DEF JourneyInv
<1>2. CASE Quiet
  BY <1>2
<1>3. ASSUME NEW j \in Submits, SubmitSucceeds(j)
      PROVE  [D!Next]_<<accepted # 0, acked # 0, status = "COMPLETED", left>>
  <2>1. left' /\ acked # 0 /\ UNCHANGED <<accepted, acked, status>>
    BY <1>1, <1>3 DEF SubmitSucceeds, CallbackInv
  <2>2. QED
    BY <2>1 DEF D!Next, D!Confirm
<1>4. ASSUME NEW j \in Submits, Complete(j)
      PROVE  [D!Next]_<<accepted # 0, acked # 0, status = "COMPLETED", left>>
  <2>1. status' = "COMPLETED" /\ acked # 0 /\ UNCHANGED <<accepted, acked, left>>
    BY <1>1, <1>4 DEF Complete, CallbackInv
  <2>2. QED
    BY <2>1 DEF D!Next, D!Complete
<1>5. ASSUME NEW j \in Submits, PostAnswered(j) \/ PostLost(j) \/ PostRefused(j)
      PROVE  [D!Next]_<<accepted # 0, acked # 0, status = "COMPLETED", left>>
  <2>1. worker = j /\ submits[j].at = "sending" /\ UNCHANGED left
    BY <1>1, <1>5, PostSteps DEF PostAnswered, PostLost, PostRefused
  <2>2. acked = 0 /\ status # "COMPLETED" /\ submits[j].payload # 0
    BY <1>1, <2>1, JourneyAssumption DEF CallbackInv, Submits
  <2>3. status' \in {status, "CALLBACK_FAILED"}
    BY <1>1, <1>5, PostSteps
  <2>4. accepted # 0 => accepted' = accepted
    BY <1>1, <1>5, PostSteps
  <2>5. acked' = 0 \/ accepted' # 0
    BY <1>1, <1>5, <2>2, PostSteps
  <2>6. CASE acked' # 0
    BY <2>1, <2>2, <2>3, <2>5, <2>6 DEF D!Next, D!Record
  <2>7. CASE acked' = 0
    BY <2>1, <2>2, <2>3, <2>4, <2>7 DEF D!Next, D!Take
  <2>8. QED
    BY <2>6, <2>7
<1>6. PageSteps => Quiet \/ \E j \in Submits : SubmitSucceeds(j)
  BY DEF PageSteps, GateMoves, Load, Retry, GivesUp, UserActs, ImageServed, ImageReused,
     NewCapture, ChainGoesOn, ChainFails, ChainLoses, Submit, SubmitStalls, SubmitGivenUp
<1>7. ServeLate \/ (\E k \in Captures : ServeChain(k))
        \/ (\E j \in Submits : ServeSubmit(j) \/ Crash(j)) \/ UNCHANGED vars => Quiet
  BY DEF ServeLate, ServeChain, ServeSubmit, Crash, vars
<1>8. QED
  BY <1>2, <1>3, <1>4, <1>5, <1>6, <1>7 DEF Next, ServiceSteps

\* The journey implements Delivery: an acknowledgement is recorded only of a portrait that
\* the consumer holds, the transaction is completed and the customer sent on only after
\* that, and none of it is taken back (IntegrationPage.tsx:191-201, browser.py:622-826).
THEOREM JourneyDelivers == Spec => ImplementsDelivery
<1>1. Init => D!Init
  BY DEF Init, D!Init
<1>2. QED
  BY <1>1, DeliverySteps, JourneyInvariant, PTL DEF Spec, ImplementsDelivery, D!Spec
================================================================================
