----------------------- MODULE CaptureTransaction_proofs -----------------------
(***************************************************************************)
(* Theorems about CaptureTransaction, for every set of requests, attempts  *)
(* and images, every attempt limit and every number of faults.  What has   *)
(* the hypothesis "capture_meta" \notin FaultPoints needs a worker that    *)
(* does not die between the image and capture.json; the rest holds         *)
(* wherever requests die.                                                  *)
(*                                                                         *)
(* Every invariant is preserved by every step: one case per handler, or    *)
(* per action where the handler needs more than its definition.            *)
(***************************************************************************)
EXTENDS CaptureTransactionInv, FiniteSetTheorems, TLAPS

\* How steps move control and which variables they leave alone.
USE DEF attemptVars, captureVars, evalVars, portraitVars, authVars, submitVars,
        statusVars, localVars, Return, Goto, Keep, KeepLock, Release, LockFree,
        Acquire, Admit, SetStatus, Register

-------------------------------------------------------------------------------
(* Invariants that hold wherever requests die *)

\* The lock is taken from no one and given up by its holder only.
LEMMA MutexNext ==
  ASSUME TypeOK, MutualExclusion, [Next]_vars
  PROVE  MutualExclusion'
<1> USE ConstantsAssumption DEF MutualExclusion, Locked
<1>1. /\ pc \in [Requests -> Labels] /\ lock \in Requests \cup {None}
  BY DEF TypeOK
<1>2. ASSUME NEW r \in Requests, Step(r) \/ Fault(r) PROVE MutualExclusion'
  <2>1. CASE RedeemCheck(r) \/ RedeemCreate(r)
    BY <1>1, <2>1 DEF RedeemCheck, RedeemCreate
  <2>2. CASE AttemptAdmit(r) \/ AttemptRegister(r) \/ AttemptSave(r)
    BY <1>1, <2>2 DEF AttemptAdmit, AttemptRegister, AttemptSave
  <2>3. CASE CaptureAdmit(r) \/ CaptureRefused(r) \/ CaptureRegister(r) \/
             CaptureSave(r)
    BY <1>1, <2>3 DEF CaptureAdmit, CaptureRefused, CaptureRegister, CaptureSave
  <2>4. CASE CaptureImage(r) \/ CaptureMeta(r) \/ CaptureInvalidate(r)
    BY <1>1, <2>4 DEF CaptureImage, CaptureMeta, CaptureInvalidate
  <2>5. CASE LivenessAdmit(r) \/ LivenessKey(r) \/ LivenessCached(r) \/
             LivenessClaim(r) \/ LivenessRead(r)
    BY <1>1, <2>5 DEF LivenessAdmit, LivenessKey, LivenessCached, LivenessClaim, LivenessRead
  <2>6. CASE LivenessRecord(r) \/ LivenessDecide(r)
    BY <1>1, <2>6 DEF LivenessRecord, LivenessDecide
  <2>7. CASE PortraitAdmit(r) \/ PortraitBox(r) \/ PortraitSettled(r) \/
             PortraitClaim(r)
    BY <1>1, <2>7 DEF PortraitAdmit, PortraitBox, PortraitSettled, PortraitClaim
  <2>8. CASE PortraitRead(r) \/ PortraitWrite(r) \/ PortraitFail(r) \/
             PortraitDiscard(r)
    BY <1>1, <2>8 DEF PortraitRead, PortraitWrite, PortraitFail, PortraitDiscard
  <2>9. CASE PortraitPromote(r) \/ PortraitAuthorize(r)
    BY <1>1, <2>9 DEF PortraitPromote, PortraitAuthorize
  <2>10. CASE SubmitAdmit(r) \/ SubmitSettled(r) \/ SubmitAccept(r)
    BY <1>1, <2>10 DEF SubmitAdmit, SubmitSettled, SubmitAccept
  <2>11. CASE SubmitSend(r) \/ SubmitFailed(r) \/ SubmitAcknowledge(r)
    BY <1>1, <2>11 DEF SubmitSend, SubmitFailed, SubmitAcknowledge
  <2>12. CASE SubmitComplete(r) \/ SubmitRevoke(r)
    BY <1>1, <2>12 DEF SubmitComplete, SubmitRevoke
  <2>13. CASE Fault(r)
    BY <1>1, <2>13 DEF Fault
  <2>14. QED
    BY <1>2, <2>1, <2>2, <2>3, <2>4, <2>5, <2>6, <2>7, <2>8, <2>9, <2>10, <2>11, <2>12,
       <2>13 DEF Step
<1>3. ASSUME NEW i \in Identities, EvalClaimExpires(i) \/ PortraitClaimExpires(i)
      PROVE  MutualExclusion'
  BY <1>1, <1>3 DEF EvalClaimExpires, PortraitClaimExpires
<1>4. CASE UNCHANGED vars
  BY <1>1, <1>4 DEF vars
<1>5. QED
  BY <1>2, <1>3, <1>4 DEF Next

\* Types: what a step writes is there and of its kind.
LEMMA TypeNext ==
  ASSUME TypeOK, MutualExclusion, LocalsInv, [Next]_vars
  PROVE  TypeOK'
<1> USE DEF TypeOK, LocalsInv, Registering, Keyed, Labels, Locked, Unlocked,
            Statuses, Terminal, Outcomes, Identities, Portraits, Decisions, Auths,
            Payloads
<1>1. ASSUME NEW r \in Requests, Step(r) \/ Fault(r) PROVE TypeOK'
  <2>1. CASE RedeemCheck(r)
    BY <2>1 DEF RedeemCheck
  <2>2. CASE RedeemCreate(r)
    BY <2>2 DEF RedeemCreate
  <2>3. CASE AttemptAdmit(r)
    BY <2>3 DEF AttemptAdmit
  <2>4. CASE AttemptRegister(r)
    BY <2>4 DEF AttemptRegister
  <2>5. CASE AttemptSave(r)
    BY <2>5 DEF AttemptSave
  <2>6. CASE CaptureAdmit(r)
    BY <2>6 DEF CaptureAdmit
  <2>7. CASE CaptureRefused(r)
    BY <2>7 DEF CaptureRefused
  <2>8. CASE CaptureRegister(r)
    BY <2>8 DEF CaptureRegister
  <2>9. CASE CaptureSave(r)
    BY <2>9 DEF CaptureSave
  <2>10. CASE CaptureImage(r)
    BY <2>10 DEF CaptureImage
  <2>11. CASE CaptureMeta(r)
    BY <2>11 DEF CaptureMeta
  <2>12. CASE CaptureInvalidate(r)
    BY <2>12 DEF CaptureInvalidate
  <2>13. CASE LivenessAdmit(r)
    BY <2>13 DEF LivenessAdmit
  <2>14. CASE LivenessKey(r)
    BY <2>14 DEF LivenessKey
  <2>15. CASE LivenessCached(r)
    BY <2>15 DEF LivenessCached
  <2>16. CASE LivenessClaim(r)
    BY <2>16 DEF LivenessClaim
  <2>17. CASE LivenessRead(r)
    BY <2>17 DEF LivenessRead
  <2>18. CASE LivenessRecord(r)
    BY SMTT(40), <2>18 DEF LivenessRecord
  <2>19. CASE LivenessDecide(r)
    BY <2>19 DEF LivenessDecide
  <2>20. CASE PortraitAdmit(r)
    BY <2>20 DEF PortraitAdmit
  <2>21. CASE PortraitBox(r)
    BY <2>21 DEF PortraitBox
  <2>22. CASE PortraitSettled(r)
    BY <2>22 DEF PortraitSettled
  <2>23. CASE PortraitClaim(r)
    BY <2>23 DEF PortraitClaim, CurrentPass
  <2>24. CASE PortraitRead(r)
    BY <2>24 DEF PortraitRead
  <2>25. CASE PortraitWrite(r)
    <3>1. key[r] \in Identities /\ [source |-> seen[r], box |-> box[r]] \in Portraits
      BY <2>25 DEF PortraitWrite
    <3>2. candidate' \in [Identities -> Portraits \cup {None}]
      BY ZenonT(60), <2>25, <3>1 DEF PortraitWrite
    <3>3. pc' \in [Requests -> Labels]
      BY <2>25 DEF PortraitWrite
    <3>4. QED
      BY <2>25, <3>2, <3>3 DEF PortraitWrite
  <2>26. CASE PortraitFail(r)
    BY <2>26 DEF PortraitFail
  <2>27. CASE PortraitDiscard(r)
    <3>1. candidate' \in [Identities -> Portraits \cup {None}]
      BY <2>27 DEF PortraitDiscard
    <3>2. portraitClaim' \in [Identities -> {"none", "fresh", "stale"}]
      BY <2>27 DEF PortraitDiscard
    <3>3. QED
      BY <2>27, <3>1, <3>2 DEF PortraitDiscard
  <2>28. CASE PortraitPromote(r)
    <3>1. portrait' \in Portraits \cup {None}
      BY <2>28 DEF PortraitPromote
    <3>2. portraitClaim' \in [Identities -> {"none", "fresh", "stale"}]
      BY <2>28 DEF PortraitPromote
    <3>3. pc' \in [Requests -> Labels] /\ lock' \in Requests \cup {None}
      BY <2>28 DEF PortraitPromote
    <3>4. QED
      BY <2>28, <3>1, <3>2, <3>3 DEF PortraitPromote
  <2>29. CASE PortraitAuthorize(r)
    BY <2>29 DEF PortraitAuthorize
  <2>30. CASE SubmitAdmit(r)
    BY <2>30 DEF SubmitAdmit
  <2>31. CASE SubmitSettled(r)
    BY <2>31 DEF SubmitSettled
  <2>32. CASE SubmitAccept(r)
    BY <2>32 DEF SubmitAccept
  <2>33. CASE SubmitSend(r)
    BY <2>33 DEF SubmitSend
  <2>34. CASE SubmitFailed(r)
    BY <2>34 DEF SubmitFailed
  <2>35. CASE SubmitAcknowledge(r)
    BY <2>35 DEF SubmitAcknowledge
  <2>36. CASE SubmitComplete(r)
    BY <2>36 DEF SubmitComplete
  <2>37. CASE SubmitRevoke(r)
    BY <2>37 DEF SubmitRevoke
  <2>38. CASE Fault(r)
    BY <2>38 DEF Fault
  <2>39. QED
    BY <1>1, <2>1, <2>2, <2>3, <2>4, <2>5, <2>6, <2>7, <2>8, <2>9, <2>10, <2>11, <2>12,
       <2>13, <2>14, <2>15, <2>16, <2>17, <2>18, <2>19, <2>20, <2>21, <2>22, <2>23,
       <2>24, <2>25, <2>26, <2>27, <2>28, <2>29, <2>30, <2>31, <2>32, <2>33, <2>34,
       <2>35, <2>36, <2>37, <2>38 DEF Step
<1>2. ASSUME NEW i \in Identities, EvalClaimExpires(i) \/ PortraitClaimExpires(i)
      PROVE  TypeOK'
  BY ZenonT(60), <1>2 DEF EvalClaimExpires, PortraitClaimExpires
<1>3. CASE UNCHANGED vars
  BY <1>3 DEF vars
<1>4. QED
  BY <1>1, <1>2, <1>3 DEF Next

\* What a request works on stays there: no image or capture is ever removed, and
\* what a locked section has checked is out of the reach of the others.
LEMMA LocalsNext ==
  ASSUME TypeOK, MutualExclusion, LocalsInv, [Next]_vars
  PROVE  LocalsInv'
<1> USE ConstantsAssumption DEF LocalsInv, MutualExclusion, Writing, CurrentPass, AuthorizationCurrent,
            SnapshotMatches, Submittable, Deliverable, Outcomes, Locked,
            Registering, Keyed
<1>1. /\ pc \in [Requests -> Labels] /\ lock \in Requests \cup {None}
     /\ key \in [Requests -> Identities \cup {None}]
     /\ seen \in [Requests -> Images \cup {None}] /\ meta \in Identities \cup {None}
     /\ image \in Images \cup {None}
     /\ evals \in [Identities -> Outcomes \cup {"ERROR", None}]
     /\ candidate \in [Identities -> Portraits \cup {None}]
  BY DEF TypeOK
<1>2. ASSUME NEW r \in Requests, Step(r) \/ Fault(r) PROVE LocalsInv'
  <2>1. CASE RedeemCheck(r) \/ RedeemCreate(r)
    BY <1>1, <2>1 DEF RedeemCheck, RedeemCreate
  <2>2. CASE AttemptRegister(r) \/ AttemptSave(r)
    BY <1>1, <2>2 DEF AttemptRegister, AttemptSave
  <2>3. CASE AttemptAdmit(r)
    BY <1>1, <2>3 DEF AttemptAdmit, Identities
  <2>4. CASE CaptureRefused(r) \/ CaptureRegister(r) \/ CaptureSave(r)
    BY <1>1, <2>4 DEF CaptureRefused, CaptureRegister, CaptureSave
  <2>5. CASE CaptureAdmit(r)
    BY <1>1, <2>5 DEF CaptureAdmit, Identities
  <2>6. CASE CaptureMeta(r) \/ CaptureInvalidate(r)
    BY <1>1, <2>6 DEF CaptureMeta, CaptureInvalidate
  <2>7. CASE CaptureImage(r)
    <3>1. key[r] # None /\ key[r].image # None
      BY <1>1, <2>7 DEF CaptureImage, Identities
    <3>2. QED
      BY <1>1, <2>7, <3>1 DEF CaptureImage
  <2>8. CASE LivenessAdmit(r) \/ LivenessKey(r) \/ LivenessCached(r) \/
             LivenessClaim(r) \/ LivenessRead(r)
    BY <1>1, <2>8 DEF LivenessAdmit, LivenessKey, LivenessCached, LivenessClaim, LivenessRead
  <2>9. CASE LivenessRecord(r) \/ LivenessDecide(r)
    BY <1>1, <2>9 DEF LivenessRecord, LivenessDecide
  <2>10. CASE PortraitAdmit(r) \/ PortraitBox(r) \/ PortraitSettled(r) \/
             PortraitClaim(r)
    BY <1>1, <2>10 DEF PortraitAdmit, PortraitBox, PortraitSettled, PortraitClaim
  <2>11. CASE PortraitRead(r) \/ PortraitWrite(r) \/ PortraitFail(r) \/
             PortraitDiscard(r)
    BY <1>1, <2>11 DEF PortraitRead, PortraitWrite, PortraitFail, PortraitDiscard
  <2>12. CASE PortraitPromote(r) \/ PortraitAuthorize(r)
    BY <1>1, <2>12 DEF PortraitPromote, PortraitAuthorize
  <2>13. CASE SubmitAdmit(r) \/ SubmitSettled(r) \/ SubmitAccept(r)
    BY <1>1, <2>13 DEF SubmitAdmit, SubmitSettled, SubmitAccept
  <2>14. CASE SubmitSend(r) \/ SubmitFailed(r) \/ SubmitAcknowledge(r)
    BY <1>1, <2>14 DEF SubmitSend, SubmitFailed, SubmitAcknowledge
  <2>15. CASE SubmitComplete(r) \/ SubmitRevoke(r)
    BY <1>1, <2>15 DEF SubmitComplete, SubmitRevoke
  <2>16. CASE Fault(r)
    BY <1>1, <2>16 DEF Fault
  <2>17. QED
    BY <1>2, <2>1, <2>2, <2>3, <2>4, <2>5, <2>6, <2>7, <2>8, <2>9, <2>10, <2>11, <2>12,
       <2>13, <2>14, <2>15, <2>16 DEF Step
<1>3. ASSUME NEW i \in Identities, EvalClaimExpires(i) \/ PortraitClaimExpires(i)
      PROVE  LocalsInv'
  BY <1>1, <1>3 DEF EvalClaimExpires, PortraitClaimExpires
<1>4. CASE UNCHANGED vars
  BY <1>1, <1>4 DEF vars
<1>5. QED
  BY <1>2, <1>3, <1>4 DEF Next

\* A capture becomes current once: its attempt was not uploaded before, and
\* attempts stay uploaded.
LEMMA FreshNext ==
  ASSUME TypeOK, MutualExclusion, LocalsInv, FreshInv, [Next]_vars
  PROVE  FreshInv'
<1> USE ConstantsAssumption DEF LocalsInv, MutualExclusion, FreshInv, Stored, AlreadyUploaded,
            CurrentPass, SnapshotMatches, Identities, Locked, Registering, Keyed
<1>1. /\ pc \in [Requests -> Labels] /\ lock \in Requests \cup {None}
     /\ key \in [Requests -> Identities \cup {None}]
     /\ meta \in Identities \cup {None}
     /\ evals \in [Identities -> Outcomes \cup {"ERROR", None}]
     /\ evalClaim \in [Identities -> {"none", "fresh", "stale"}]
     /\ candidate \in [Identities -> Portraits \cup {None}]
  BY DEF TypeOK
<1>2. ASSUME NEW r \in Requests, Step(r) \/ Fault(r) PROVE FreshInv'
  <2>1. CASE RedeemCheck(r) \/ RedeemCreate(r)
    BY <1>1, <2>1 DEF RedeemCheck, RedeemCreate
  <2>2. CASE AttemptAdmit(r) \/ AttemptRegister(r) \/ AttemptSave(r)
    BY <1>1, <2>2 DEF AttemptAdmit, AttemptRegister, AttemptSave
  <2>3. CASE CaptureAdmit(r) \/ CaptureRefused(r) \/ CaptureRegister(r) \/
             CaptureSave(r)
    BY <1>1, <2>3 DEF CaptureAdmit, CaptureRefused, CaptureRegister, CaptureSave
  <2>4. CASE CaptureImage(r) \/ CaptureMeta(r) \/ CaptureInvalidate(r)
    BY <1>1, <2>4 DEF CaptureImage, CaptureMeta, CaptureInvalidate
  <2>5. CASE LivenessAdmit(r) \/ LivenessKey(r) \/ LivenessCached(r) \/
             LivenessClaim(r) \/ LivenessRead(r)
    BY <1>1, <2>5 DEF LivenessAdmit, LivenessKey, LivenessCached, LivenessClaim, LivenessRead
  <2>6. CASE LivenessRecord(r) \/ LivenessDecide(r)
    BY <1>1, <2>6 DEF LivenessRecord, LivenessDecide
  <2>7. CASE PortraitAdmit(r) \/ PortraitBox(r) \/ PortraitSettled(r) \/
             PortraitClaim(r)
    BY <1>1, <2>7 DEF PortraitAdmit, PortraitBox, PortraitSettled, PortraitClaim
  <2>8. CASE PortraitRead(r) \/ PortraitWrite(r) \/ PortraitFail(r) \/
             PortraitDiscard(r)
    BY <1>1, <2>8 DEF PortraitRead, PortraitWrite, PortraitFail, PortraitDiscard
  <2>9. CASE PortraitPromote(r) \/ PortraitAuthorize(r)
    BY <1>1, <2>9 DEF PortraitPromote, PortraitAuthorize
  <2>10. CASE SubmitAdmit(r) \/ SubmitSettled(r) \/ SubmitAccept(r)
    BY <1>1, <2>10 DEF SubmitAdmit, SubmitSettled, SubmitAccept
  <2>11. CASE SubmitSend(r) \/ SubmitFailed(r) \/ SubmitAcknowledge(r)
    BY <1>1, <2>11 DEF SubmitSend, SubmitFailed, SubmitAcknowledge
  <2>12. CASE SubmitComplete(r) \/ SubmitRevoke(r)
    BY <1>1, <2>12 DEF SubmitComplete, SubmitRevoke
  <2>13. CASE Fault(r)
    BY <1>1, <2>13 DEF Fault
  <2>14. QED
    BY <1>2, <2>1, <2>2, <2>3, <2>4, <2>5, <2>6, <2>7, <2>8, <2>9, <2>10, <2>11, <2>12,
       <2>13 DEF Step
<1>3. ASSUME NEW i \in Identities, EvalClaimExpires(i) \/ PortraitClaimExpires(i)
      PROVE  FreshInv'
  BY <1>1, <1>3 DEF EvalClaimExpires, PortraitClaimExpires
<1>4. CASE UNCHANGED vars
  BY <1>1, <1>4 DEF vars
<1>5. QED
  BY <1>2, <1>3, <1>4 DEF Next

\* Nobody changes, between the checks of a submit and its callback, what was
\* checked: every writer of it holds the lock.
LEMMA SubmitNext ==
  ASSUME TypeOK, MutualExclusion, SubmitInv, [Next]_vars
  PROVE  SubmitInv'
<1> USE ConstantsAssumption DEF MutualExclusion, SubmitInv, CurrentPass, AuthorizationCurrent,
            SnapshotMatches, Submittable, Deliverable, Terminal, Locked
<1>1. /\ pc \in [Requests -> Labels] /\ lock \in Requests \cup {None}
     /\ key \in [Requests -> Identities \cup {None}]
  BY DEF TypeOK
<1>2. ASSUME NEW r \in Requests, Step(r) \/ Fault(r) PROVE SubmitInv'
  <2>1. CASE RedeemCheck(r) \/ RedeemCreate(r)
    BY <1>1, <2>1 DEF RedeemCheck, RedeemCreate
  <2>2. CASE AttemptAdmit(r) \/ AttemptRegister(r) \/ AttemptSave(r)
    BY <1>1, <2>2 DEF AttemptAdmit, AttemptRegister, AttemptSave
  <2>3. CASE CaptureAdmit(r) \/ CaptureRefused(r) \/ CaptureRegister(r) \/
             CaptureSave(r)
    BY <1>1, <2>3 DEF CaptureAdmit, CaptureRefused, CaptureRegister, CaptureSave
  <2>4. CASE CaptureImage(r) \/ CaptureMeta(r) \/ CaptureInvalidate(r)
    BY <1>1, <2>4 DEF CaptureImage, CaptureMeta, CaptureInvalidate
  <2>5. CASE LivenessAdmit(r) \/ LivenessKey(r) \/ LivenessCached(r) \/
             LivenessClaim(r) \/ LivenessRead(r)
    BY <1>1, <2>5 DEF LivenessAdmit, LivenessKey, LivenessCached, LivenessClaim, LivenessRead
  <2>6. CASE LivenessRecord(r) \/ LivenessDecide(r)
    BY <1>1, <2>6 DEF LivenessRecord, LivenessDecide
  <2>7. CASE PortraitAdmit(r) \/ PortraitBox(r) \/ PortraitSettled(r) \/
             PortraitClaim(r)
    BY <1>1, <2>7 DEF PortraitAdmit, PortraitBox, PortraitSettled, PortraitClaim
  <2>8. CASE PortraitRead(r) \/ PortraitWrite(r) \/ PortraitFail(r) \/
             PortraitDiscard(r)
    BY <1>1, <2>8 DEF PortraitRead, PortraitWrite, PortraitFail, PortraitDiscard
  <2>9. CASE PortraitPromote(r) \/ PortraitAuthorize(r)
    BY <1>1, <2>9 DEF PortraitPromote, PortraitAuthorize
  <2>10. CASE SubmitAdmit(r) \/ SubmitSettled(r) \/ SubmitAccept(r)
    BY <1>1, <2>10 DEF SubmitAdmit, SubmitSettled, SubmitAccept
  <2>11. CASE SubmitSend(r) \/ SubmitFailed(r) \/ SubmitAcknowledge(r)
    BY <1>1, <2>11 DEF SubmitSend, SubmitFailed, SubmitAcknowledge
  <2>12. CASE SubmitComplete(r) \/ SubmitRevoke(r)
    BY <1>1, <2>12 DEF SubmitComplete, SubmitRevoke
  <2>13. CASE Fault(r)
    BY <1>1, <2>13 DEF Fault
  <2>14. QED
    BY <1>2, <2>1, <2>2, <2>3, <2>4, <2>5, <2>6, <2>7, <2>8, <2>9, <2>10, <2>11, <2>12,
       <2>13 DEF Step
<1>3. ASSUME NEW i \in Identities, EvalClaimExpires(i) \/ PortraitClaimExpires(i)
      PROVE  SubmitInv'
  BY <1>1, <1>3 DEF EvalClaimExpires, PortraitClaimExpires
<1>4. CASE UNCHANGED vars
  BY <1>1, <1>4 DEF vars
<1>5. QED
  BY <1>2, <1>3, <1>4 DEF Next

\* The count that lets an upload go on is the one it has just stored.
LEMMA LimitNext ==
  ASSUME TypeOK, MutualExclusion, LocalsInv, LimitInv, [Next]_vars
  PROVE  LimitInv'
<1> USE ConstantsAssumption DEF MutualExclusion, LimitInv, Locked
<1>1. /\ pc \in [Requests -> Labels] /\ lock \in Requests \cup {None}
  BY DEF TypeOK
<1>2. ASSUME NEW r \in Requests, Step(r) \/ Fault(r) PROVE LimitInv'
  <2>1. CASE RedeemCheck(r) \/ RedeemCreate(r)
    BY <1>1, <2>1 DEF RedeemCheck, RedeemCreate
  <2>2. CASE AttemptAdmit(r) \/ AttemptRegister(r) \/ AttemptSave(r)
    BY <1>1, <2>2 DEF AttemptAdmit, AttemptRegister, AttemptSave
  <2>3. CASE CaptureAdmit(r) \/ CaptureRefused(r) \/ CaptureRegister(r)
    BY <1>1, <2>3 DEF CaptureAdmit, CaptureRefused, CaptureRegister
  <2>4. CASE CaptureSave(r)
    <3>1. consumed' \in SUBSET Attempts /\ consumed' = consumed \cup {key[r].attempt}
      BY <2>4 DEF CaptureSave, TypeOK, LocalsInv, Registering, Identities
    <3>2. Cardinality(consumed') \in Nat
      BY <3>1, FS_Subset, FS_CardinalityType, ConstantsAssumption
    <3>3. ~ReachesLimit(r) => Cardinality(consumed') < AttemptLimit
      BY <3>1, <3>2, ConstantsAssumption DEF ReachesLimit
    <3>4. \A q \in Requests \ {r} : pc[q] # "capture_image"
      BY <1>1, <2>4 DEF CaptureSave
    <3>5. QED
      BY <1>1, <2>4, <3>3, <3>4 DEF CaptureSave
  <2>5. CASE CaptureImage(r) \/ CaptureMeta(r) \/ CaptureInvalidate(r)
    BY <1>1, <2>5 DEF CaptureImage, CaptureMeta, CaptureInvalidate
  <2>6. CASE LivenessAdmit(r) \/ LivenessKey(r) \/ LivenessCached(r) \/
             LivenessClaim(r) \/ LivenessRead(r)
    BY <1>1, <2>6 DEF LivenessAdmit, LivenessKey, LivenessCached, LivenessClaim, LivenessRead
  <2>7. CASE LivenessRecord(r) \/ LivenessDecide(r)
    BY <1>1, <2>7 DEF LivenessRecord, LivenessDecide
  <2>8. CASE PortraitAdmit(r) \/ PortraitBox(r) \/ PortraitSettled(r) \/
             PortraitClaim(r)
    BY <1>1, <2>8 DEF PortraitAdmit, PortraitBox, PortraitSettled, PortraitClaim
  <2>9. CASE PortraitRead(r) \/ PortraitWrite(r) \/ PortraitFail(r) \/
             PortraitDiscard(r)
    BY <1>1, <2>9 DEF PortraitRead, PortraitWrite, PortraitFail, PortraitDiscard
  <2>10. CASE PortraitPromote(r) \/ PortraitAuthorize(r)
    BY <1>1, <2>10 DEF PortraitPromote, PortraitAuthorize
  <2>11. CASE SubmitAdmit(r) \/ SubmitSettled(r) \/ SubmitAccept(r)
    BY <1>1, <2>11 DEF SubmitAdmit, SubmitSettled, SubmitAccept
  <2>12. CASE SubmitSend(r) \/ SubmitFailed(r) \/ SubmitAcknowledge(r)
    BY <1>1, <2>12 DEF SubmitSend, SubmitFailed, SubmitAcknowledge
  <2>13. CASE SubmitComplete(r) \/ SubmitRevoke(r)
    BY <1>1, <2>13 DEF SubmitComplete, SubmitRevoke
  <2>14. CASE Fault(r)
    BY <1>1, <2>14 DEF Fault
  <2>15. QED
    BY <1>2, <2>1, <2>2, <2>3, <2>4, <2>5, <2>6, <2>7, <2>8, <2>9, <2>10, <2>11, <2>12,
       <2>13, <2>14 DEF Step
<1>3. ASSUME NEW i \in Identities, EvalClaimExpires(i) \/ PortraitClaimExpires(i)
      PROVE  LimitInv'
  BY <1>1, <1>3 DEF EvalClaimExpires, PortraitClaimExpires
<1>4. CASE UNCHANGED vars
  BY <1>1, <1>4 DEF vars
<1>5. QED
  BY <1>2, <1>3, <1>4 DEF Next

\* Nothing has happened yet.
LEMMA ControlInit == Init => ControlInv
<1> SUFFICES ASSUME Init PROVE ControlInv
  OBVIOUS
<1> USE ConstantsAssumption DEF Init
<1>1. TypeOK
  BY DEF TypeOK, Statuses, Labels, Unlocked
<1>2. MutualExclusion
  BY DEF MutualExclusion, Locked
<1>3. LocalsInv /\ FreshInv
  BY DEF LocalsInv, FreshInv, Writing, Registering, Keyed
<1>4. SubmitInv /\ LimitInv
  BY DEF SubmitInv, LimitInv
<1>5. QED
  BY <1>1, <1>2, <1>3, <1>4 DEF ControlInv

\* The control invariant, wherever requests die.
THEOREM ControlHolds == Spec => []ControlInv
<1>1. ControlInv /\ [Next]_vars => ControlInv'
  BY MutexNext, TypeNext, LocalsNext, FreshNext, SubmitNext, LimitNext DEF ControlInv
<1>2. QED
  BY ControlInit, <1>1, PTL DEF Spec

\* The types hold, and with them the locals of the requests.
THEOREM TypeCorrect == Spec => []TypeOK
<1>1. ControlInv => TypeOK
  BY DEF ControlInv
<1>2. QED
  BY ControlHolds, <1>1, PTL

\* No two requests are inside a locked section of the transaction.
THEOREM LockExcludes == Spec => []MutualExclusion
<1>1. ControlInv => MutualExclusion
  BY DEF ControlInv
<1>2. QED
  BY ControlHolds, <1>1, PTL

\* The consumer hears of the transaction from the callback of a submit only.
LEMMA DeliveryStep ==
  ASSUME [Next]_vars, delivered' # delivered
  PROVE  \E r \in Requests : SubmitSend(r)
<1>1. ASSUME NEW r \in Requests, Step(r) \/ Fault(r) PROVE \E s \in Requests : SubmitSend(s)
  BY <1>1 DEF Step, RedeemCheck, RedeemCreate, AttemptAdmit, AttemptRegister, AttemptSave,
              CaptureAdmit, CaptureRefused, CaptureRegister, CaptureSave,
              CaptureImage, CaptureMeta, CaptureInvalidate, LivenessAdmit,
              LivenessKey, LivenessCached, LivenessClaim, LivenessRead,
              LivenessRecord, LivenessDecide, PortraitAdmit, PortraitBox,
              PortraitSettled, PortraitClaim, PortraitRead, PortraitWrite,
              PortraitFail, PortraitDiscard, PortraitPromote, PortraitAuthorize,
              SubmitAdmit, SubmitSettled, SubmitAccept, SubmitSend, SubmitFailed,
              SubmitAcknowledge, SubmitComplete, SubmitRevoke, Fault
<1>2. ASSUME NEW i \in Identities, EvalClaimExpires(i) \/ PortraitClaimExpires(i)
      PROVE  FALSE
  BY <1>2 DEF EvalClaimExpires, PortraitClaimExpires
<1>3. QED
  BY <1>1, <1>2 DEF Next, vars

\* The stored image is replaced by a capture only.
LEMMA ImageStep ==
  ASSUME [Next]_vars, image' # image
  PROVE  \E r \in Requests : CaptureImage(r)
<1>1. ASSUME NEW r \in Requests, Step(r) \/ Fault(r) PROVE \E s \in Requests : CaptureImage(s)
  BY <1>1 DEF Step, RedeemCheck, RedeemCreate, AttemptAdmit, AttemptRegister, AttemptSave,
              CaptureAdmit, CaptureRefused, CaptureRegister, CaptureSave,
              CaptureImage, CaptureMeta, CaptureInvalidate, LivenessAdmit,
              LivenessKey, LivenessCached, LivenessClaim, LivenessRead,
              LivenessRecord, LivenessDecide, PortraitAdmit, PortraitBox,
              PortraitSettled, PortraitClaim, PortraitRead, PortraitWrite,
              PortraitFail, PortraitDiscard, PortraitPromote, PortraitAuthorize,
              SubmitAdmit, SubmitSettled, SubmitAccept, SubmitSend, SubmitFailed,
              SubmitAcknowledge, SubmitComplete, SubmitRevoke, Fault
<1>2. ASSUME NEW i \in Identities, EvalClaimExpires(i) \/ PortraitClaimExpires(i)
      PROVE  FALSE
  BY <1>2 DEF EvalClaimExpires, PortraitClaimExpires
<1>3. QED
  BY <1>1, <1>2 DEF Next, vars

\* capture.json is replaced by a capture only.
LEMMA MetaStep ==
  ASSUME [Next]_vars, meta' # meta
  PROVE  \E r \in Requests : CaptureMeta(r)
<1>1. ASSUME NEW r \in Requests, Step(r) \/ Fault(r) PROVE \E s \in Requests : CaptureMeta(s)
  BY <1>1 DEF Step, RedeemCheck, RedeemCreate, AttemptAdmit, AttemptRegister, AttemptSave,
              CaptureAdmit, CaptureRefused, CaptureRegister, CaptureSave,
              CaptureImage, CaptureMeta, CaptureInvalidate, LivenessAdmit,
              LivenessKey, LivenessCached, LivenessClaim, LivenessRead,
              LivenessRecord, LivenessDecide, PortraitAdmit, PortraitBox,
              PortraitSettled, PortraitClaim, PortraitRead, PortraitWrite,
              PortraitFail, PortraitDiscard, PortraitPromote, PortraitAuthorize,
              SubmitAdmit, SubmitSettled, SubmitAccept, SubmitSend, SubmitFailed,
              SubmitAcknowledge, SubmitComplete, SubmitRevoke, Fault
<1>2. ASSUME NEW i \in Identities, EvalClaimExpires(i) \/ PortraitClaimExpires(i)
      PROVE  FALSE
  BY <1>2 DEF EvalClaimExpires, PortraitClaimExpires
<1>3. QED
  BY <1>1, <1>2 DEF Next, vars

\* The callback state is written by a submit that has sent.
LEMMA CallbackStep ==
  ASSUME [Next]_vars, callback' # callback
  PROVE  \E r \in Requests : SubmitFailed(r) \/ SubmitAcknowledge(r)
<1>1. ASSUME NEW r \in Requests, Step(r) \/ Fault(r) PROVE \E s \in Requests : SubmitFailed(s) \/ SubmitAcknowledge(s)
  BY <1>1 DEF Step, RedeemCheck, RedeemCreate, AttemptAdmit, AttemptRegister, AttemptSave,
              CaptureAdmit, CaptureRefused, CaptureRegister, CaptureSave,
              CaptureImage, CaptureMeta, CaptureInvalidate, LivenessAdmit,
              LivenessKey, LivenessCached, LivenessClaim, LivenessRead,
              LivenessRecord, LivenessDecide, PortraitAdmit, PortraitBox,
              PortraitSettled, PortraitClaim, PortraitRead, PortraitWrite,
              PortraitFail, PortraitDiscard, PortraitPromote, PortraitAuthorize,
              SubmitAdmit, SubmitSettled, SubmitAccept, SubmitSend, SubmitFailed,
              SubmitAcknowledge, SubmitComplete, SubmitRevoke, Fault
<1>2. ASSUME NEW i \in Identities, EvalClaimExpires(i) \/ PortraitClaimExpires(i)
      PROVE  FALSE
  BY <1>2 DEF EvalClaimExpires, PortraitClaimExpires
<1>3. QED
  BY <1>1, <1>2 DEF Next, vars

\* A terminal transaction sends nothing, however its submits were admitted.
THEOREM TerminalSendsNothing == Spec => TerminalStopsSubmission
<1>1. ControlInv /\ [Next]_vars => [(status \in Terminal) => delivered' = delivered]_vars
  BY DeliveryStep DEF ControlInv, SubmitInv, SubmitSend
<1>2. QED
  BY ControlHolds, <1>1, PTL DEF Spec, TerminalStopsSubmission

\* The consumer is not called again once its acknowledgement is stored.
THEOREM AcknowledgementIsFinal == Spec => AcknowledgedOnce
<1>1. ControlInv /\ [Next]_vars =>
        [callback = "ACKNOWLEDGED" => delivered' = delivered /\ callback' = callback]_vars
  BY DeliveryStep, CallbackStep
     DEF ControlInv, SubmitInv, SubmitSend, SubmitFailed, SubmitAcknowledge
<1>2. QED
  BY ControlHolds, <1>1, PTL DEF Spec, AcknowledgedOnce

\* No image is stored by an attempt beyond the limit.
THEOREM LimitHolds == Spec => LimitStopsUploads
<1>1. ControlInv /\ [Next]_vars =>
        [image' # image => Cardinality(consumed) < AttemptLimit]_vars
  BY ImageStep DEF ControlInv, LimitInv, CaptureImage
<1>2. QED
  BY ControlHolds, <1>1, PTL DEF Spec, LimitStopsUploads

\* No capture has the identity of an earlier one.
THEOREM IdentitiesAreFresh == Spec => IdentityNeverRecurs
<1>1. ASSUME ControlInv, [Next]_vars, meta' # meta
      PROVE  evals[meta'] = None /\ candidate[meta'] = None /\ evalClaim[meta'] = "none"
  <2>1. PICK r \in Requests : CaptureMeta(r)
    BY <1>1, MetaStep
  <2>2. meta' \in Identities /\ meta'.attempt \notin Stored
    BY <1>1, <2>1 DEF CaptureMeta, ControlInv, TypeOK, LocalsInv, Registering, Stored
  <2>3. QED
    BY <1>1, <2>2 DEF ControlInv, FreshInv
<1>2. ControlInv /\ [Next]_vars =>
        [meta' # meta => evals[meta'] = None /\ candidate[meta'] = None
                         /\ evalClaim[meta'] = "none"]_vars
  BY <1>1
<1>3. QED
  BY ControlHolds, <1>2, PTL DEF Spec, IdentityNeverRecurs

-------------------------------------------------------------------------------
(* One provider call per capture, when no call outlives the claim timeout *)

\* A claim is cleared by its owner, or when nobody evaluates.
LEMMA ClaimNext ==
  ASSUME TypeOK, LocalsInv, ClaimInv, SlowProvider = FALSE, [Next]_vars
  PROVE  ClaimInv'
<1> USE ConstantsAssumption DEF ClaimInv, SingleFlight, LocalsInv, Registering, Keyed, Evaluating
<1>1. /\ pc \in [Requests -> Labels] /\ lock \in Requests \cup {None}
     /\ key \in [Requests -> Identities \cup {None}]
     /\ evalClaim \in [Identities -> {"none", "fresh", "stale"}]
  BY DEF TypeOK
<1>2. ASSUME NEW r \in Requests, Step(r) \/ Fault(r) PROVE ClaimInv'
  <2>1. CASE RedeemCheck(r) \/ RedeemCreate(r)
    BY <1>1, <2>1 DEF RedeemCheck, RedeemCreate
  <2>2. CASE AttemptAdmit(r) \/ AttemptRegister(r) \/ AttemptSave(r)
    BY <1>1, <2>2 DEF AttemptAdmit, AttemptRegister, AttemptSave
  <2>3. CASE CaptureAdmit(r) \/ CaptureRefused(r) \/ CaptureRegister(r) \/
             CaptureSave(r)
    BY <1>1, <2>3 DEF CaptureAdmit, CaptureRefused, CaptureRegister, CaptureSave
  <2>4. CASE CaptureImage(r) \/ CaptureMeta(r) \/ CaptureInvalidate(r)
    BY <1>1, <2>4 DEF CaptureImage, CaptureMeta, CaptureInvalidate
  <2>5. CASE LivenessAdmit(r) \/ LivenessKey(r) \/ LivenessCached(r) \/
             LivenessClaim(r) \/ LivenessRead(r)
    BY <1>1, <2>5 DEF LivenessAdmit, LivenessKey, LivenessCached, LivenessClaim, LivenessRead
  <2>6. CASE LivenessRecord(r) \/ LivenessDecide(r)
    BY <1>1, <2>6 DEF LivenessRecord, LivenessDecide
  <2>7. CASE PortraitAdmit(r) \/ PortraitBox(r) \/ PortraitSettled(r) \/
             PortraitClaim(r)
    BY <1>1, <2>7 DEF PortraitAdmit, PortraitBox, PortraitSettled, PortraitClaim
  <2>8. CASE PortraitRead(r) \/ PortraitWrite(r) \/ PortraitFail(r) \/
             PortraitDiscard(r)
    BY <1>1, <2>8 DEF PortraitRead, PortraitWrite, PortraitFail, PortraitDiscard
  <2>9. CASE PortraitPromote(r) \/ PortraitAuthorize(r)
    BY <1>1, <2>9 DEF PortraitPromote, PortraitAuthorize
  <2>10. CASE SubmitAdmit(r) \/ SubmitSettled(r) \/ SubmitAccept(r)
    BY <1>1, <2>10 DEF SubmitAdmit, SubmitSettled, SubmitAccept
  <2>11. CASE SubmitSend(r) \/ SubmitFailed(r) \/ SubmitAcknowledge(r)
    BY <1>1, <2>11 DEF SubmitSend, SubmitFailed, SubmitAcknowledge
  <2>12. CASE SubmitComplete(r) \/ SubmitRevoke(r)
    BY <1>1, <2>12 DEF SubmitComplete, SubmitRevoke
  <2>13. CASE Fault(r)
    BY <1>1, <2>13 DEF Fault
  <2>14. QED
    BY <1>2, <2>1, <2>2, <2>3, <2>4, <2>5, <2>6, <2>7, <2>8, <2>9, <2>10, <2>11, <2>12,
       <2>13 DEF Step
<1>3. ASSUME NEW i \in Identities, EvalClaimExpires(i) \/ PortraitClaimExpires(i)
      PROVE  ClaimInv'
  BY <1>1, <1>3 DEF EvalClaimExpires, PortraitClaimExpires
<1>4. CASE UNCHANGED vars
  BY <1>1, <1>4 DEF vars
<1>5. QED
  BY <1>2, <1>3, <1>4 DEF Next

\* At most one provider call is in flight for a capture.
THEOREM OneCallPerCapture ==
  ASSUME SlowProvider = FALSE
  PROVE  Spec => []SingleFlight
<1>1. Init => ClaimInv
  BY DEF Init, ClaimInv, SingleFlight
<1>2. ControlInv /\ ClaimInv /\ [Next]_vars => ClaimInv'
  BY ClaimNext DEF ControlInv
<1>3. ClaimInv => SingleFlight
  BY DEF ClaimInv
<1>4. QED
  BY ControlHolds, <1>1, <1>2, <1>3, PTL DEF Spec

-------------------------------------------------------------------------------
(* What is stored and what is authorized agree *)

\* Image and capture.json change together as far as other requests can see, and a
\* capture that is replaced never comes back.
LEMMA ImageNext ==
  ASSUME TypeOK, MutualExclusion, LocalsInv, FreshInv, ImageInv,
         "capture_meta" \notin FaultPoints, [Next]_vars
  PROVE  ImageInv'
<1> USE ConstantsAssumption DEF LocalsInv, MutualExclusion, FreshInv, ImageInv, Stored, Writing,
            SnapshotMatches, Locked, Registering, Keyed
<1>1. /\ pc \in [Requests -> Labels] /\ lock \in Requests \cup {None}
     /\ key \in [Requests -> Identities \cup {None}]
     /\ seen \in [Requests -> Images \cup {None}] /\ meta \in Identities \cup {None}
     /\ image \in Images \cup {None}
     /\ candidate \in [Identities -> Portraits \cup {None}]
  BY DEF TypeOK
<1>2. ASSUME NEW r \in Requests, Step(r) \/ Fault(r) PROVE ImageInv'
  <2>1. CASE RedeemCheck(r) \/ RedeemCreate(r)
    BY <1>1, <2>1 DEF RedeemCheck, RedeemCreate
  <2>2. CASE AttemptAdmit(r) \/ AttemptRegister(r) \/ AttemptSave(r)
    BY <1>1, <2>2 DEF AttemptAdmit, AttemptRegister, AttemptSave
  <2>3. CASE CaptureAdmit(r) \/ CaptureRefused(r) \/ CaptureRegister(r) \/
             CaptureSave(r)
    BY <1>1, <2>3 DEF CaptureAdmit, CaptureRefused, CaptureRegister, CaptureSave
  <2>4. CASE CaptureImage(r) \/ CaptureMeta(r) \/ CaptureInvalidate(r)
    BY <1>1, <2>4 DEF CaptureImage, CaptureMeta, CaptureInvalidate
  <2>5. CASE LivenessAdmit(r) \/ LivenessKey(r) \/ LivenessCached(r) \/
             LivenessClaim(r) \/ LivenessRead(r)
    BY <1>1, <2>5 DEF LivenessAdmit, LivenessKey, LivenessCached, LivenessClaim, LivenessRead
  <2>6. CASE LivenessRecord(r) \/ LivenessDecide(r)
    BY <1>1, <2>6 DEF LivenessRecord, LivenessDecide
  <2>7. CASE PortraitAdmit(r) \/ PortraitBox(r) \/ PortraitSettled(r) \/
             PortraitClaim(r)
    BY <1>1, <2>7 DEF PortraitAdmit, PortraitBox, PortraitSettled, PortraitClaim
  <2>8. CASE PortraitRead(r) \/ PortraitWrite(r) \/ PortraitFail(r) \/
             PortraitDiscard(r)
    BY <1>1, <2>8 DEF PortraitRead, PortraitWrite, PortraitFail, PortraitDiscard
  <2>9. CASE PortraitPromote(r) \/ PortraitAuthorize(r)
    BY <1>1, <2>9 DEF PortraitPromote, PortraitAuthorize
  <2>10. CASE SubmitAdmit(r) \/ SubmitSettled(r) \/ SubmitAccept(r)
    BY <1>1, <2>10 DEF SubmitAdmit, SubmitSettled, SubmitAccept
  <2>11. CASE SubmitSend(r) \/ SubmitFailed(r) \/ SubmitAcknowledge(r)
    BY <1>1, <2>11 DEF SubmitSend, SubmitFailed, SubmitAcknowledge
  <2>12. CASE SubmitComplete(r) \/ SubmitRevoke(r)
    BY <1>1, <2>12 DEF SubmitComplete, SubmitRevoke
  <2>13. CASE Fault(r)
    BY <1>1, <2>13 DEF Fault
  <2>14. QED
    BY <1>2, <2>1, <2>2, <2>3, <2>4, <2>5, <2>6, <2>7, <2>8, <2>9, <2>10, <2>11, <2>12,
       <2>13 DEF Step
<1>3. ASSUME NEW i \in Identities, EvalClaimExpires(i) \/ PortraitClaimExpires(i)
      PROVE  ImageInv'
  BY <1>1, <1>3 DEF EvalClaimExpires, PortraitClaimExpires
<1>4. CASE UNCHANGED vars
  BY <1>1, <1>4 DEF vars
<1>5. QED
  BY <1>2, <1>3, <1>4 DEF Next

\* A PASS is recorded for the image the provider saw, a portrait is authorized for
\* the capture it was made from.
LEMMA AuthNext ==
  ASSUME TypeOK, MutualExclusion, LocalsInv, ImageInv, AuthInv, [Next]_vars
  PROVE  AuthInv'
<1> USE ConstantsAssumption DEF LocalsInv, MutualExclusion, ImageInv, AuthInv, Writing, SnapshotMatches,
            CurrentPass, Outcomes, Locked, Registering, Keyed
<1>1. /\ pc \in [Requests -> Labels] /\ lock \in Requests \cup {None}
     /\ key \in [Requests -> Identities \cup {None}]
     /\ seen \in [Requests -> Images \cup {None}]
     /\ evals \in [Identities -> Outcomes \cup {"ERROR", None}]
     /\ candidate \in [Identities -> Portraits \cup {None}]
     /\ decision \in Decisions \cup {None} /\ auth \in Auths \cup {None}
  BY DEF TypeOK
<1>2. ASSUME NEW r \in Requests, Step(r) \/ Fault(r) PROVE AuthInv'
  <2>1. CASE RedeemCheck(r) \/ RedeemCreate(r)
    BY <1>1, <2>1 DEF RedeemCheck, RedeemCreate
  <2>2. CASE AttemptAdmit(r) \/ AttemptRegister(r) \/ AttemptSave(r)
    BY <1>1, <2>2 DEF AttemptAdmit, AttemptRegister, AttemptSave
  <2>3. CASE CaptureAdmit(r) \/ CaptureRefused(r) \/ CaptureRegister(r) \/
             CaptureSave(r)
    BY <1>1, <2>3 DEF CaptureAdmit, CaptureRefused, CaptureRegister, CaptureSave
  <2>4. CASE CaptureImage(r) \/ CaptureMeta(r) \/ CaptureInvalidate(r)
    BY <1>1, <2>4 DEF CaptureImage, CaptureMeta, CaptureInvalidate
  <2>5. CASE LivenessAdmit(r) \/ LivenessKey(r) \/ LivenessCached(r) \/
             LivenessClaim(r) \/ LivenessRead(r)
    BY <1>1, <2>5 DEF LivenessAdmit, LivenessKey, LivenessCached, LivenessClaim, LivenessRead
  <2>6. CASE LivenessRecord(r) \/ LivenessDecide(r)
    BY <1>1, <2>6 DEF LivenessRecord, LivenessDecide
  <2>7. CASE PortraitAdmit(r) \/ PortraitBox(r) \/ PortraitSettled(r) \/
             PortraitClaim(r)
    BY <1>1, <2>7 DEF PortraitAdmit, PortraitBox, PortraitSettled, PortraitClaim
  <2>8. CASE PortraitRead(r) \/ PortraitWrite(r) \/ PortraitFail(r) \/
             PortraitDiscard(r)
    BY <1>1, <2>8 DEF PortraitRead, PortraitWrite, PortraitFail, PortraitDiscard
  <2>9. CASE PortraitPromote(r) \/ PortraitAuthorize(r)
    BY <1>1, <2>9 DEF PortraitPromote, PortraitAuthorize
  <2>10. CASE SubmitAdmit(r) \/ SubmitSettled(r) \/ SubmitAccept(r)
    BY <1>1, <2>10 DEF SubmitAdmit, SubmitSettled, SubmitAccept
  <2>11. CASE SubmitSend(r) \/ SubmitFailed(r) \/ SubmitAcknowledge(r)
    BY <1>1, <2>11 DEF SubmitSend, SubmitFailed, SubmitAcknowledge
  <2>12. CASE SubmitComplete(r) \/ SubmitRevoke(r)
    BY <1>1, <2>12 DEF SubmitComplete, SubmitRevoke
  <2>13. CASE Fault(r)
    BY <1>1, <2>13 DEF Fault
  <2>14. QED
    BY <1>2, <2>1, <2>2, <2>3, <2>4, <2>5, <2>6, <2>7, <2>8, <2>9, <2>10, <2>11, <2>12,
       <2>13 DEF Step
<1>3. ASSUME NEW i \in Identities, EvalClaimExpires(i) \/ PortraitClaimExpires(i)
      PROVE  AuthInv'
  BY <1>1, <1>3 DEF EvalClaimExpires, PortraitClaimExpires
<1>4. CASE UNCHANGED vars
  BY <1>1, <1>4 DEF vars
<1>5. QED
  BY <1>2, <1>3, <1>4 DEF Next

\* What a submit sends is the authorized portrait of the current capture.
LEMMA DeliveredNext ==
  ASSUME TypeOK, AuthInv, SubmitInv, DeliveredApproved, [Next]_vars
  PROVE  DeliveredApproved'
<1> USE DEF AuthInv, SubmitInv, DeliveredApproved, CurrentPass, AuthorizationCurrent
<1>1. /\ pc \in [Requests -> Labels] /\ lock \in Requests \cup {None}
  BY DEF TypeOK
<1>2. ASSUME NEW r \in Requests, Step(r) \/ Fault(r) PROVE DeliveredApproved'
  <2>1. CASE RedeemCheck(r) \/ RedeemCreate(r)
    BY <1>1, <2>1 DEF RedeemCheck, RedeemCreate
  <2>2. CASE AttemptAdmit(r) \/ AttemptRegister(r) \/ AttemptSave(r)
    BY <1>1, <2>2 DEF AttemptAdmit, AttemptRegister, AttemptSave
  <2>3. CASE CaptureAdmit(r) \/ CaptureRefused(r) \/ CaptureRegister(r) \/
             CaptureSave(r)
    BY <1>1, <2>3 DEF CaptureAdmit, CaptureRefused, CaptureRegister, CaptureSave
  <2>4. CASE CaptureImage(r) \/ CaptureMeta(r) \/ CaptureInvalidate(r)
    BY <1>1, <2>4 DEF CaptureImage, CaptureMeta, CaptureInvalidate
  <2>5. CASE LivenessAdmit(r) \/ LivenessKey(r) \/ LivenessCached(r) \/
             LivenessClaim(r) \/ LivenessRead(r)
    BY <1>1, <2>5 DEF LivenessAdmit, LivenessKey, LivenessCached, LivenessClaim, LivenessRead
  <2>6. CASE LivenessRecord(r) \/ LivenessDecide(r)
    BY <1>1, <2>6 DEF LivenessRecord, LivenessDecide
  <2>7. CASE PortraitAdmit(r) \/ PortraitBox(r) \/ PortraitSettled(r) \/
             PortraitClaim(r)
    BY <1>1, <2>7 DEF PortraitAdmit, PortraitBox, PortraitSettled, PortraitClaim
  <2>8. CASE PortraitRead(r) \/ PortraitWrite(r) \/ PortraitFail(r) \/
             PortraitDiscard(r)
    BY <1>1, <2>8 DEF PortraitRead, PortraitWrite, PortraitFail, PortraitDiscard
  <2>9. CASE PortraitPromote(r) \/ PortraitAuthorize(r)
    BY <1>1, <2>9 DEF PortraitPromote, PortraitAuthorize
  <2>10. CASE SubmitAdmit(r) \/ SubmitSettled(r) \/ SubmitAccept(r)
    BY <1>1, <2>10 DEF SubmitAdmit, SubmitSettled, SubmitAccept
  <2>11. CASE SubmitSend(r) \/ SubmitFailed(r) \/ SubmitAcknowledge(r)
    BY <1>1, <2>11 DEF SubmitSend, SubmitFailed, SubmitAcknowledge
  <2>12. CASE SubmitComplete(r) \/ SubmitRevoke(r)
    BY <1>1, <2>12 DEF SubmitComplete, SubmitRevoke
  <2>13. CASE Fault(r)
    BY <1>1, <2>13 DEF Fault
  <2>14. QED
    BY <1>2, <2>1, <2>2, <2>3, <2>4, <2>5, <2>6, <2>7, <2>8, <2>9, <2>10, <2>11, <2>12,
       <2>13 DEF Step
<1>3. ASSUME NEW i \in Identities, EvalClaimExpires(i) \/ PortraitClaimExpires(i)
      PROVE  DeliveredApproved'
  BY <1>1, <1>3 DEF EvalClaimExpires, PortraitClaimExpires
<1>4. CASE UNCHANGED vars
  BY <1>1, <1>4 DEF vars
<1>5. QED
  BY <1>2, <1>3, <1>4 DEF Next

\* An acknowledgement is of the payload that was just sent.
LEMMA AckNext ==
  ASSUME TypeOK, MutualExclusion, LocalsInv, AuthInv, SubmitInv, AckInv, [Next]_vars
  PROVE  AckInv'
<1> USE ConstantsAssumption DEF LocalsInv, MutualExclusion, AckInv, Locked
<1>1. /\ pc \in [Requests -> Labels] /\ lock \in Requests \cup {None}
  BY DEF TypeOK
<1>2. ASSUME NEW r \in Requests, Step(r) \/ Fault(r) PROVE AckInv'
  <2>1. CASE RedeemCheck(r) \/ RedeemCreate(r)
    BY <1>1, <2>1 DEF RedeemCheck, RedeemCreate
  <2>2. CASE AttemptAdmit(r) \/ AttemptRegister(r) \/ AttemptSave(r)
    BY <1>1, <2>2 DEF AttemptAdmit, AttemptRegister, AttemptSave
  <2>3. CASE CaptureAdmit(r) \/ CaptureRefused(r) \/ CaptureRegister(r) \/
             CaptureSave(r)
    BY <1>1, <2>3 DEF CaptureAdmit, CaptureRefused, CaptureRegister, CaptureSave
  <2>4. CASE CaptureImage(r) \/ CaptureMeta(r) \/ CaptureInvalidate(r)
    BY <1>1, <2>4 DEF CaptureImage, CaptureMeta, CaptureInvalidate
  <2>5. CASE LivenessAdmit(r) \/ LivenessKey(r) \/ LivenessCached(r) \/
             LivenessClaim(r) \/ LivenessRead(r)
    BY <1>1, <2>5 DEF LivenessAdmit, LivenessKey, LivenessCached, LivenessClaim, LivenessRead
  <2>6. CASE LivenessRecord(r) \/ LivenessDecide(r)
    BY <1>1, <2>6 DEF LivenessRecord, LivenessDecide
  <2>7. CASE PortraitAdmit(r) \/ PortraitBox(r) \/ PortraitSettled(r) \/
             PortraitClaim(r)
    BY <1>1, <2>7 DEF PortraitAdmit, PortraitBox, PortraitSettled, PortraitClaim
  <2>8. CASE PortraitRead(r) \/ PortraitWrite(r) \/ PortraitFail(r) \/
             PortraitDiscard(r)
    BY <1>1, <2>8 DEF PortraitRead, PortraitWrite, PortraitFail, PortraitDiscard
  <2>9. CASE PortraitPromote(r) \/ PortraitAuthorize(r)
    BY <1>1, <2>9 DEF PortraitPromote, PortraitAuthorize
  <2>10. CASE SubmitAdmit(r) \/ SubmitSettled(r) \/ SubmitAccept(r)
    BY <1>1, <2>10 DEF SubmitAdmit, SubmitSettled, SubmitAccept
  <2>11. CASE SubmitFailed(r) \/ SubmitAcknowledge(r)
    BY <1>1, <2>11 DEF SubmitFailed, SubmitAcknowledge
  <2>12. CASE SubmitSend(r)
    <3>1. meta # None /\ portrait.source = meta.image
      BY <2>12 DEF SubmitSend, SubmitInv, AuthInv, CurrentPass, AuthorizationCurrent
    <3>2. \A q \in Requests \ {r} : pc'[q] # "submit_acknowledge"
      BY <1>1, <2>12 DEF SubmitSend
    <3>3. pc'[r] = "submit_acknowledge" =>
            [portrait |-> portrait, identity |-> meta] \in delivered'
      BY <1>1, <2>12 DEF SubmitSend
    <3>4. QED
      BY <1>1, <2>12, <3>1, <3>2, <3>3 DEF SubmitSend
  <2>13. CASE SubmitComplete(r) \/ SubmitRevoke(r)
    BY <1>1, <2>13 DEF SubmitComplete, SubmitRevoke
  <2>14. CASE Fault(r)
    BY <1>1, <2>14 DEF Fault
  <2>15. QED
    BY <1>2, <2>1, <2>2, <2>3, <2>4, <2>5, <2>6, <2>7, <2>8, <2>9, <2>10, <2>11, <2>12,
       <2>13, <2>14 DEF Step
<1>3. ASSUME NEW i \in Identities, EvalClaimExpires(i) \/ PortraitClaimExpires(i)
      PROVE  AckInv'
  BY <1>1, <1>3 DEF EvalClaimExpires, PortraitClaimExpires
<1>4. CASE UNCHANGED vars
  BY <1>1, <1>4 DEF vars
<1>5. QED
  BY <1>2, <1>3, <1>4 DEF Next

\* The inductive invariant.
THEOREM FolderHolds ==
  ASSUME "capture_meta" \notin FaultPoints
  PROVE  Spec => []IInv
<1>1. Init => IInv
  BY ControlInit, ConstantsAssumption
     DEF Init, IInv, ImageInv, AuthInv, AckInv, DeliveredApproved, Writing
<1>2. IInv /\ [Next]_vars /\ ControlInv' => IInv'
  BY ImageNext, AuthNext, AckNext, DeliveredNext DEF IInv, ControlInv
<1>3. QED
  BY ControlHolds, <1>1, <1>2, PTL DEF Spec

\* The consumer receives portraits of accepted captures only.
THEOREM DeliveredIsApproved ==
  ASSUME "capture_meta" \notin FaultPoints
  PROVE  Spec => []DeliveredApproved
<1>1. IInv => DeliveredApproved
  BY DEF IInv
<1>2. QED
  BY FolderHolds, <1>1, PTL

\* A PASS that authorizes the current capture was given for the stored image.
THEOREM PassFitsImage ==
  ASSUME "capture_meta" \notin FaultPoints
  PROVE  Spec => []PassIsForStoredImage
<1>1. ASSUME IInv, lock = None, CurrentPass
      PROVE  image = meta.image /\ image \in approved
  <2>1. ~Writing
    BY <1>1, ConstantsAssumption DEF IInv, ControlInv, MutualExclusion, Writing, Locked
  <2>2. QED
    BY <1>1, <2>1 DEF IInv, ImageInv, AuthInv, CurrentPass
<1>2. IInv => PassIsForStoredImage
  BY <1>1 DEF PassIsForStoredImage
<1>3. QED
  BY FolderHolds, <1>2, PTL

-------------------------------------------------------------------------------
(* A cached PASS is decided, when no request dies before its decision *)

\* The verdict and its decision are recorded under one acquisition of the lock.
LEMMA CacheNext ==
  ASSUME TypeOK, MutualExclusion, LocalsInv, FreshInv, CacheInv,
         "liveness_decide" \notin FaultPoints, [Next]_vars
  PROVE  CacheInv'
<1> USE ConstantsAssumption DEF CacheInv, MutualExclusion, CurrentPass, SnapshotMatches, Locked
<1>1. /\ pc \in [Requests -> Labels] /\ lock \in Requests \cup {None}
     /\ key \in [Requests -> Identities \cup {None}]
     /\ meta \in Identities \cup {None}
     /\ evals \in [Identities -> Outcomes \cup {"ERROR", None}]
  BY DEF TypeOK
<1>2. ASSUME NEW r \in Requests, Step(r) \/ Fault(r) PROVE CacheInv'
  <2>1. CASE RedeemCheck(r) \/ RedeemCreate(r)
    BY <1>1, <2>1 DEF RedeemCheck, RedeemCreate
  <2>2. CASE AttemptAdmit(r) \/ AttemptRegister(r) \/ AttemptSave(r)
    BY <1>1, <2>2 DEF AttemptAdmit, AttemptRegister, AttemptSave
  <2>3. CASE CaptureAdmit(r) \/ CaptureRefused(r) \/ CaptureRegister(r) \/
             CaptureSave(r)
    BY <1>1, <2>3 DEF CaptureAdmit, CaptureRefused, CaptureRegister, CaptureSave
  <2>4. CASE CaptureImage(r)
    BY <1>1, <2>4 DEF CaptureImage
  <2>5. CASE CaptureMeta(r)
    <3>1. key[r] \in Identities /\ evals[key[r]] = None
      BY <1>1, <2>5 DEF CaptureMeta, LocalsInv, FreshInv, Registering, Stored
    <3>2. \A q \in Requests : pc'[q] # "liveness_decide"
      BY <1>1, <2>5 DEF CaptureMeta
    <3>3. QED
      BY <1>1, <2>5, <3>1, <3>2 DEF CaptureMeta, Outcomes
  <2>6. CASE CaptureInvalidate(r)
    BY <1>1, <2>6 DEF CaptureInvalidate, Outcomes
  <2>7. CASE LivenessAdmit(r) \/ LivenessKey(r) \/ LivenessCached(r) \/
             LivenessClaim(r) \/ LivenessRead(r)
    BY <1>1, <2>7 DEF LivenessAdmit, LivenessKey, LivenessCached, LivenessClaim, LivenessRead
  <2>8. CASE LivenessRecord(r)
    BY <1>1, <2>8 DEF LivenessRecord, LocalsInv, Keyed, Outcomes
  <2>9. CASE LivenessDecide(r)
    <3>1. decision' \in Decisions
      BY <2>9 DEF LivenessDecide, TypeOK, LocalsInv, Keyed, Decisions
    <3>2. decision' # None /\ decision'.identity = meta /\ decision'.outcome = evals[meta]
      BY <2>9, <3>1 DEF LivenessDecide
    <3>3. QED
      BY <1>1, <2>9, <3>2 DEF LivenessDecide
  <2>10. CASE PortraitAdmit(r) \/ PortraitBox(r) \/ PortraitSettled(r) \/
             PortraitClaim(r)
    BY <1>1, <2>10 DEF PortraitAdmit, PortraitBox, PortraitSettled, PortraitClaim
  <2>11. CASE PortraitRead(r) \/ PortraitWrite(r) \/ PortraitFail(r) \/
             PortraitDiscard(r)
    BY <1>1, <2>11 DEF PortraitRead, PortraitWrite, PortraitFail, PortraitDiscard
  <2>12. CASE PortraitPromote(r) \/ PortraitAuthorize(r)
    BY <1>1, <2>12 DEF PortraitPromote, PortraitAuthorize
  <2>13. CASE SubmitAdmit(r) \/ SubmitSettled(r) \/ SubmitAccept(r)
    BY <1>1, <2>13 DEF SubmitAdmit, SubmitSettled, SubmitAccept
  <2>14. CASE SubmitSend(r) \/ SubmitFailed(r) \/ SubmitAcknowledge(r)
    BY <1>1, <2>14 DEF SubmitSend, SubmitFailed, SubmitAcknowledge
  <2>15. CASE SubmitComplete(r) \/ SubmitRevoke(r)
    BY <1>1, <2>15 DEF SubmitComplete, SubmitRevoke
  <2>16. CASE Fault(r)
    BY <1>1, <2>16 DEF Fault
  <2>17. QED
    BY <1>2, <2>1, <2>2, <2>3, <2>4, <2>5, <2>6, <2>7, <2>8, <2>9, <2>10, <2>11, <2>12,
       <2>13, <2>14, <2>15, <2>16 DEF Step
<1>3. ASSUME NEW i \in Identities, EvalClaimExpires(i) \/ PortraitClaimExpires(i)
      PROVE  CacheInv'
  BY <1>1, <1>3 DEF EvalClaimExpires, PortraitClaimExpires
<1>4. CASE UNCHANGED vars
  BY <1>1, <1>4 DEF vars
<1>5. QED
  BY <1>2, <1>3, <1>4 DEF Next

\* A browser that is answered from the cache can go on to the portrait.
THEOREM CacheIsDecided ==
  ASSUME "liveness_decide" \notin FaultPoints
  PROVE  Spec => []CachedPassIsDecided
<1>1. Init => CacheInv
  BY DEF Init, CacheInv
<1>2. ControlInv /\ CacheInv /\ [Next]_vars => CacheInv'
  BY CacheNext DEF ControlInv
<1>3. ControlInv /\ CacheInv => CachedPassIsDecided
  BY ConstantsAssumption DEF ControlInv, MutualExclusion, Locked, CacheInv, CachedPassIsDecided
<1>4. QED
  BY ControlHolds, <1>1, <1>2, <1>3, PTL DEF Spec

-------------------------------------------------------------------------------
(* The files and requests implement the contract *)

\* The provider accepts an image by an answer to a liveness request only.
LEMMA ApprovalStep ==
  ASSUME [Next]_vars, approved' # approved
  PROVE  \E r \in Requests : LivenessRecord(r)
<1>1. ASSUME NEW r \in Requests, Step(r) \/ Fault(r) PROVE \E s \in Requests : LivenessRecord(s)
  BY <1>1 DEF Step, RedeemCheck, RedeemCreate, AttemptAdmit, AttemptRegister, AttemptSave,
              CaptureAdmit, CaptureRefused, CaptureRegister, CaptureSave,
              CaptureImage, CaptureMeta, CaptureInvalidate, LivenessAdmit,
              LivenessKey, LivenessCached, LivenessClaim, LivenessRead,
              LivenessRecord, LivenessDecide, PortraitAdmit, PortraitBox,
              PortraitSettled, PortraitClaim, PortraitRead, PortraitWrite,
              PortraitFail, PortraitDiscard, PortraitPromote, PortraitAuthorize,
              SubmitAdmit, SubmitSettled, SubmitAccept, SubmitSend, SubmitFailed,
              SubmitAcknowledge, SubmitComplete, SubmitRevoke, Fault
<1>2. ASSUME NEW i \in Identities, EvalClaimExpires(i) \/ PortraitClaimExpires(i)
      PROVE  FALSE
  BY <1>2 DEF EvalClaimExpires, PortraitClaimExpires
<1>3. QED
  BY <1>1, <1>2 DEF Next, vars

\* A new capture.json supersedes the capture before it.
LEMMA SupersedeStep ==
  ASSUME IInv, [Next]_vars, meta' # meta
  PROVE  Contract!Supersede
<1>1. PICK r \in Requests : CaptureMeta(r)
  BY MetaStep
<1>2. meta' \in Identities
  BY <1>1 DEF CaptureMeta, IInv, ControlInv, TypeOK, LocalsInv, Registering
<1>3. UNCHANGED <<approved, delivered, callback>>
  BY <1>1 DEF CaptureMeta
<1>4. QED
  BY <1>2, <1>3 DEF Contract!Supersede

\* A PASS of the provider is an acceptance.
LEMMA AcceptStep ==
  ASSUME IInv, [Next]_vars, approved' # approved
  PROVE  Contract!Accept
<1>1. PICK r \in Requests : LivenessRecord(r)
  BY ApprovalStep
<1>2. seen[r] \in Images
  BY <1>1 DEF LivenessRecord, IInv, ControlInv, TypeOK, LocalsInv
<1>3. approved' = approved \cup {seen[r]}
  BY <1>1 DEF LivenessRecord
<1>4. UNCHANGED <<meta, delivered, callback>>
  BY <1>1 DEF LivenessRecord
<1>5. QED
  BY <1>2, <1>3, <1>4 DEF Contract!Accept

\* A callback delivers the current capture, which is accepted.
LEMMA DeliverStep ==
  ASSUME IInv, [Next]_vars, delivered' # delivered
  PROVE  Contract!Deliver
<1>1. PICK r \in Requests : SubmitSend(r)
  BY DeliveryStep
<1>2. callback # "ACKNOWLEDGED" /\ meta # None
  BY <1>1 DEF SubmitSend, IInv, ControlInv, SubmitInv, LocalsInv
<1>3. portrait.source = meta.image /\ meta.image \in approved
  BY <1>1 DEF SubmitSend, IInv, ControlInv, SubmitInv, AuthInv, CurrentPass,
              AuthorizationCurrent
<1>4. delivered' = delivered \cup {[portrait |-> portrait, identity |-> meta]}
  BY <1>1 DEF SubmitSend
<1>5. {p.portrait.source : p \in delivered'} =
        {p.portrait.source : p \in delivered} \cup {meta.image}
  BY <1>3, <1>4
<1>6. UNCHANGED <<meta, approved, callback>>
  BY <1>1 DEF SubmitSend
<1>7. QED
  BY <1>2, <1>3, <1>5, <1>6 DEF Contract!Deliver

\* The stored acknowledgement closes a transaction whose capture was sent.
LEMMA CloseStep ==
  ASSUME IInv, [Next]_vars, callback' # callback
  PROVE  Contract!Close \/ UNCHANGED Contract!cvars
<1>1. PICK r \in Requests : SubmitFailed(r) \/ SubmitAcknowledge(r)
  BY CallbackStep
<1>2. CASE SubmitFailed(r)
  BY <1>2 DEF SubmitFailed, IInv, ControlInv, SubmitInv, Contract!cvars
<1>3. CASE SubmitAcknowledge(r)
  <2>1. meta # None /\ meta.image \in {p.portrait.source : p \in delivered}
    BY <1>3 DEF SubmitAcknowledge, IInv, AckInv
  <2>2. callback' = "ACKNOWLEDGED" /\ UNCHANGED <<meta, approved, delivered>>
    BY <1>3 DEF SubmitAcknowledge
  <2>3. QED
    BY <2>1, <2>2 DEF Contract!Close
<1>4. QED
  BY <1>1, <1>2, <1>3

\* What the consumer sees of the transaction is a behaviour of the contract.
THEOREM ContractHolds ==
  ASSUME "capture_meta" \notin FaultPoints
  PROVE  Spec => ImplementsContract
<1>1. Init => Contract!CInit
  BY DEF Init, Contract!CInit
<1>2. ASSUME IInv, [Next]_vars
      PROVE  [Contract!CNext]_(Contract!cvars)
  <2>1. CASE UNCHANGED <<meta, approved, delivered, callback>>
    BY <2>1 DEF Contract!cvars
  <2>2. CASE meta' # meta \/ approved' # approved \/ delivered' # delivered
    BY <1>2, <2>2, SupersedeStep, AcceptStep, DeliverStep DEF Contract!CNext
  <2>3. CASE callback' # callback
    BY <1>2, <2>3, CloseStep DEF Contract!CNext
  <2>4. QED
    BY <2>1, <2>2, <2>3
<1>3. IInv /\ [Next]_vars => [Contract!CNext]_(Contract!cvars)
  BY <1>2
<1>4. QED
  BY FolderHolds, <1>1, <1>3, PTL DEF Spec, ImplementsContract, Contract!CSpec
===============================================================================
