------------------------- MODULE LaunchSession_proofs -------------------------
(***************************************************************************)
(* The claim of an external id, the links of its transaction and the       *)
(* active session, for every number of requests, ids and secrets.  The     *)
(* transaction of a link needs nothing but the locks; a single session and *)
(* a single link need the assumptions their theorems name.                 *)
(***************************************************************************)
EXTENDS LaunchSessionInv, TLAPS


\* Types: what a step writes is there and of its kind.
LEMMA TypeNext ==
  ASSUME TypeOK, LockInv, LocalsInv, [Next]_vars
  PROVE  TypeOK'
<1> USE ConstantsAssumption DEF indexVars, folderVars, lockVars, historyVars, localVars,
           TypeOK, LockInv, LocalsInv, Labels, Locked, Creating, Reissuing, Redeeming, Modes, Storing
<1>1. ASSUME NEW r \in Requests, Step(r) PROVE TypeOK'
  <2>1. CASE CreateStart(r)
    BY <2>1 DEF CreateStart, Goto, Return, Lock, Unlock
  <2>2. CASE CreateRefused(r)
    BY <2>2 DEF CreateRefused, Unclaimed, Goto, Return, Lock, Unlock
  <2>3. CASE CreateFolder(r)
    BY <2>3 DEF CreateFolder, Unclaimed, Goto, Return, Lock, Unlock
  <2>4. CASE CreateMap(r)
    BY <2>4 DEF CreateMap, Goto, Return, Lock, Unlock
  <2>5. CASE CreateStore(r)
    BY <2>5 DEF CreateStore, StoreToken, Goto, Return, Lock, Unlock
  <2>6. CASE CreateList(r)
    BY <2>6 DEF CreateList, ReadList, Goto, Return, Lock, Unlock
  <2>7. CASE CreateAppend(r)
    BY <2>7 DEF CreateAppend, WriteList, Listed, Goto, Return, Lock, Unlock
  <2>8. CASE ReissueStart(r)
    BY <2>8 DEF ReissueStart, Goto, Return, Lock, Unlock
  <2>9. CASE ReissueLock(r)
    BY <2>9 DEF ReissueLock, Goto, Return, Lock, Unlock
  <2>10. CASE ReissueDelete(r)
    BY <2>10 DEF ReissueDelete, Goto, Return, Lock, Unlock
  <2>11. CASE ReissueClear(r)
    BY <2>11 DEF ReissueClear, Goto, Return, Lock, Unlock
  <2>12. CASE ReissueStore(r)
    BY <2>12 DEF ReissueStore, StoreToken, Goto, Return, Lock, Unlock
  <2>13. CASE ReissueList(r)
    BY <2>13 DEF ReissueList, ReadList, Goto, Return, Lock, Unlock
  <2>14. CASE ReissueAppend(r)
    BY <2>14 DEF ReissueAppend, WriteList, Listed, Goto, Return, Lock, Unlock
  <2>15. CASE RedeemToken(r)
    BY <2>15 DEF RedeemToken, Goto, Return, Lock, Unlock
  <2>16. CASE RedeemStatus(r)
    BY <2>16 DEF RedeemStatus, Goto, Return, Lock, Unlock
  <2>17. CASE RedeemLock(r)
    BY <2>17 DEF RedeemLock, RemovePrevious, WithoutPrevious, Goto, Return, Lock, Unlock
  <2>18. CASE RedeemPut(r)
    <3>1. PICK s \in Sessions \ drawn :
              /\ drawn' = drawn \cup {s}
              /\ session' = [session EXCEPT ![s] = [tx |-> tx[r], mode |-> mode[r]]]
              /\ \/ /\ secret' = [secret EXCEPT ![r] = s]
                    /\ Goto(r, "redeem_point")
                    /\ UNCHANGED <<lock, given, tx, list, mode>>
                 \/ given' = given \cup {s} /\ Unlock(r) /\ Return(r)
      BY <2>18 DEF RedeemPut
    <3>2. UNCHANGED <<mapping, token, folderVars, extLock>>
      BY <2>18 DEF RedeemPut
    <3>3. [tx |-> tx[r], mode |-> mode[r]] \in [tx: Txs, mode: Modes]
      BY <2>18 DEF RedeemPut
    <3>4. session' \in [Sessions -> [tx: Txs, mode: Modes] \cup {None}]
      BY <3>1, <3>3
    <3>5. QED
      BY SMTT(20), <3>1, <3>2, <3>4 DEF Goto, Return, Unlock
  <2>19. CASE RedeemPoint(r)
    BY <2>19 DEF RedeemPoint, Goto, Return, Lock, Unlock
  <2>20. CASE SubmitStart(r)
    BY <2>20 DEF SubmitStart, Goto, Return, Lock, Unlock
  <2>21. CASE SubmitRefused(r)
    BY <2>21 DEF SubmitRefused, Goto, Return, Lock, Unlock
  <2>22. CASE SubmitComplete(r)
    BY <2>22 DEF SubmitComplete, Goto, Return, Lock, Unlock
  <2>23. CASE SubmitRevoke(r)
    BY <2>23 DEF SubmitRevoke, RemovePrevious, WithoutPrevious, Goto, Return, Lock,
      Unlock
  <2>24. QED
    BY <1>1, <2>1, <2>2, <2>3, <2>4, <2>5, <2>6, <2>7, <2>8, <2>9, <2>10, <2>11,
       <2>12, <2>13, <2>14, <2>15, <2>16, <2>17, <2>18, <2>19, <2>20, <2>21,
       <2>22, <2>23 DEF Step
<1>2. ASSUME NEW r \in Requests, Fault(r) PROVE TypeOK'
  BY <1>2 DEF Fault, Return, Unlock
<1>3. ASSUME NEW t \in Tokens, TokenExpires(t) PROVE TypeOK'
  BY <1>3 DEF TokenExpires
<1>4. ASSUME NEW s \in Sessions, SessionExpires(s) PROVE TypeOK'
  BY <1>4 DEF SessionExpires
<1>5. CASE UNCHANGED vars
  BY <1>5 DEF vars
<1>6. QED
  BY <1>1, <1>2, <1>3, <1>4, <1>5 DEF Next

\* A lock is taken from no one and given up by its holder only.
LEMMA LockNext ==
  ASSUME TypeOK, LockInv, [Next]_vars
  PROVE  LockInv'
<1> USE ConstantsAssumption DEF indexVars, folderVars, lockVars, historyVars, localVars,
           TypeOK, LockInv, Labels, Locked, Creating, Reissuing, Redeeming, Modes
<1>1. ASSUME NEW r \in Requests, Step(r) PROVE LockInv'
  <2>1. CASE CreateStart(r)
    BY <2>1 DEF CreateStart, Goto, Return, Lock, Unlock
  <2>2. CASE CreateRefused(r)
    BY <2>2 DEF CreateRefused, Unclaimed, Goto, Return, Lock, Unlock
  <2>3. CASE CreateFolder(r)
    BY <2>3 DEF CreateFolder, Unclaimed, Goto, Return, Lock, Unlock
  <2>4. CASE CreateMap(r)
    BY <2>4 DEF CreateMap, Goto, Return, Lock, Unlock
  <2>5. CASE CreateStore(r)
    BY <2>5 DEF CreateStore, StoreToken, Goto, Return, Lock, Unlock
  <2>6. CASE CreateList(r)
    BY <2>6 DEF CreateList, ReadList, Goto, Return, Lock, Unlock
  <2>7. CASE CreateAppend(r)
    BY <2>7 DEF CreateAppend, WriteList, Listed, Goto, Return, Lock, Unlock
  <2>8. CASE ReissueStart(r)
    BY <2>8 DEF ReissueStart, Goto, Return, Lock, Unlock
  <2>9. CASE ReissueLock(r)
    BY <2>9 DEF ReissueLock, Goto, Return, Lock, Unlock
  <2>10. CASE ReissueDelete(r)
    BY <2>10 DEF ReissueDelete, Goto, Return, Lock, Unlock
  <2>11. CASE ReissueClear(r)
    BY <2>11 DEF ReissueClear, Goto, Return, Lock, Unlock
  <2>12. CASE ReissueStore(r)
    BY <2>12 DEF ReissueStore, StoreToken, Goto, Return, Lock, Unlock
  <2>13. CASE ReissueList(r)
    BY <2>13 DEF ReissueList, ReadList, Goto, Return, Lock, Unlock
  <2>14. CASE ReissueAppend(r)
    BY <2>14 DEF ReissueAppend, WriteList, Listed, Goto, Return, Lock, Unlock
  <2>15. CASE RedeemToken(r)
    BY <2>15 DEF RedeemToken, Goto, Return, Lock, Unlock
  <2>16. CASE RedeemStatus(r)
    BY <2>16 DEF RedeemStatus, Goto, Return, Lock, Unlock
  <2>17. CASE RedeemLock(r)
    BY <2>17 DEF RedeemLock, RemovePrevious, WithoutPrevious, Goto, Return, Lock, Unlock
  <2>18. CASE RedeemPut(r)
    BY SMTT(20), <2>18 DEF RedeemPut, Goto, Return, Lock, Unlock
  <2>19. CASE RedeemPoint(r)
    BY <2>19 DEF RedeemPoint, Goto, Return, Lock, Unlock
  <2>20. CASE SubmitStart(r)
    BY <2>20 DEF SubmitStart, Goto, Return, Lock, Unlock
  <2>21. CASE SubmitRefused(r)
    BY <2>21 DEF SubmitRefused, Goto, Return, Lock, Unlock
  <2>22. CASE SubmitComplete(r)
    BY <2>22 DEF SubmitComplete, Goto, Return, Lock, Unlock
  <2>23. CASE SubmitRevoke(r)
    BY <2>23 DEF SubmitRevoke, RemovePrevious, WithoutPrevious, Goto, Return, Lock,
      Unlock
  <2>24. QED
    BY <1>1, <2>1, <2>2, <2>3, <2>4, <2>5, <2>6, <2>7, <2>8, <2>9, <2>10, <2>11,
       <2>12, <2>13, <2>14, <2>15, <2>16, <2>17, <2>18, <2>19, <2>20, <2>21,
       <2>22, <2>23 DEF Step
<1>2. ASSUME NEW r \in Requests, Fault(r) PROVE LockInv'
  BY <1>2 DEF Fault, Return, Unlock
<1>3. ASSUME NEW t \in Tokens, TokenExpires(t) PROVE LockInv'
  BY <1>3 DEF TokenExpires
<1>4. ASSUME NEW s \in Sessions, SessionExpires(s) PROVE LockInv'
  BY <1>4 DEF SessionExpires
<1>5. CASE UNCHANGED vars
  BY <1>5 DEF vars
<1>6. QED
  BY <1>1, <1>2, <1>3, <1>4, <1>5 DEF Next

\* The secret a request has drawn stays its own.
LEMMA LocalsNext ==
  ASSUME TypeOK, LockInv, LocalsInv, [Next]_vars
  PROVE  LocalsInv'
<1> USE ConstantsAssumption DEF indexVars, folderVars, lockVars, historyVars, localVars,
           TypeOK, LockInv, LocalsInv, Labels, Locked, Creating, Reissuing, Redeeming, Modes, Storing
<1>1. ASSUME NEW r \in Requests, Step(r) PROVE LocalsInv'
  <2>1. CASE CreateStart(r)
    BY <2>1 DEF CreateStart, Goto, Return, Lock, Unlock
  <2>2. CASE CreateRefused(r)
    BY <2>2 DEF CreateRefused, Unclaimed, Goto, Return, Lock, Unlock
  <2>3. CASE CreateFolder(r)
    BY <2>3 DEF CreateFolder, Unclaimed, Goto, Return, Lock, Unlock
  <2>4. CASE CreateMap(r)
    BY <2>4 DEF CreateMap, Goto, Return, Lock, Unlock
  <2>5. CASE CreateStore(r)
    BY <2>5 DEF CreateStore, StoreToken, Goto, Return, Lock, Unlock
  <2>6. CASE CreateList(r)
    BY <2>6 DEF CreateList, ReadList, Goto, Return, Lock, Unlock
  <2>7. CASE CreateAppend(r)
    BY <2>7 DEF CreateAppend, WriteList, Listed, Goto, Return, Lock, Unlock
  <2>8. CASE ReissueStart(r)
    BY <2>8 DEF ReissueStart, Goto, Return, Lock, Unlock
  <2>9. CASE ReissueLock(r)
    BY <2>9 DEF ReissueLock, Goto, Return, Lock, Unlock
  <2>10. CASE ReissueDelete(r)
    BY <2>10 DEF ReissueDelete, Goto, Return, Lock, Unlock
  <2>11. CASE ReissueClear(r)
    BY <2>11 DEF ReissueClear, Goto, Return, Lock, Unlock
  <2>12. CASE ReissueStore(r)
    BY <2>12 DEF ReissueStore, StoreToken, Goto, Return, Lock, Unlock
  <2>13. CASE ReissueList(r)
    BY <2>13 DEF ReissueList, ReadList, Goto, Return, Lock, Unlock
  <2>14. CASE ReissueAppend(r)
    BY <2>14 DEF ReissueAppend, WriteList, Listed, Goto, Return, Lock, Unlock
  <2>15. CASE RedeemToken(r)
    BY <2>15 DEF RedeemToken, Goto, Return, Lock, Unlock
  <2>16. CASE RedeemStatus(r)
    BY <2>16 DEF RedeemStatus, Goto, Return, Lock, Unlock
  <2>17. CASE RedeemLock(r)
    BY <2>17 DEF RedeemLock, RemovePrevious, WithoutPrevious, Goto, Return, Lock, Unlock
  <2>18. CASE RedeemPut(r)
    BY <2>18 DEF RedeemPut, Goto, Return, Lock, Unlock
  <2>19. CASE RedeemPoint(r)
    BY <2>19 DEF RedeemPoint, Goto, Return, Lock, Unlock
  <2>20. CASE SubmitStart(r)
    BY <2>20 DEF SubmitStart, Goto, Return, Lock, Unlock
  <2>21. CASE SubmitRefused(r)
    BY <2>21 DEF SubmitRefused, Goto, Return, Lock, Unlock
  <2>22. CASE SubmitComplete(r)
    BY <2>22 DEF SubmitComplete, Goto, Return, Lock, Unlock
  <2>23. CASE SubmitRevoke(r)
    BY <2>23 DEF SubmitRevoke, RemovePrevious, WithoutPrevious, Goto, Return, Lock,
      Unlock
  <2>24. QED
    BY <1>1, <2>1, <2>2, <2>3, <2>4, <2>5, <2>6, <2>7, <2>8, <2>9, <2>10, <2>11,
       <2>12, <2>13, <2>14, <2>15, <2>16, <2>17, <2>18, <2>19, <2>20, <2>21,
       <2>22, <2>23 DEF Step
<1>2. ASSUME NEW r \in Requests, Fault(r) PROVE LocalsInv'
  BY <1>2 DEF Fault, Return, Unlock
<1>3. ASSUME NEW t \in Tokens, TokenExpires(t) PROVE LocalsInv'
  BY <1>3 DEF TokenExpires
<1>4. ASSUME NEW s \in Sessions, SessionExpires(s) PROVE LocalsInv'
  BY <1>4 DEF SessionExpires
<1>5. CASE UNCHANGED vars
  BY <1>5 DEF vars
<1>6. QED
  BY <1>1, <1>2, <1>3, <1>4, <1>5 DEF Next

\* The external id is looked up and entered under one acquisition of its lock.
LEMMA ClaimNext ==
  ASSUME TypeOK, LockInv, LocalsInv, ClaimInv, [Next]_vars
  PROVE  ClaimInv'
<1> USE ConstantsAssumption DEF indexVars, folderVars, lockVars, historyVars, localVars,
           TypeOK, LockInv, LocalsInv, ClaimInv, OneTransaction, Labels, Locked, Creating, Reissuing, Redeeming, Modes, Storing
<1>1. ASSUME NEW r \in Requests, Step(r) PROVE ClaimInv'
  <2>1. CASE CreateStart(r)
    BY <2>1 DEF CreateStart, Goto, Return, Lock, Unlock
  <2>2. CASE CreateRefused(r)
    BY <2>2 DEF CreateRefused, Unclaimed, Goto, Return, Lock, Unlock
  <2>3. CASE CreateFolder(r)
    BY <2>3 DEF CreateFolder, Unclaimed, Goto, Return, Lock, Unlock
  <2>4. CASE CreateMap(r)
    BY <2>4 DEF CreateMap, Goto, Return, Lock, Unlock
  <2>5. CASE CreateStore(r)
    BY <2>5 DEF CreateStore, StoreToken, Goto, Return, Lock, Unlock
  <2>6. CASE CreateList(r)
    BY <2>6 DEF CreateList, ReadList, Goto, Return, Lock, Unlock
  <2>7. CASE CreateAppend(r)
    BY <2>7 DEF CreateAppend, WriteList, Listed, Goto, Return, Lock, Unlock
  <2>8. CASE ReissueStart(r)
    BY <2>8 DEF ReissueStart, Goto, Return, Lock, Unlock
  <2>9. CASE ReissueLock(r)
    BY <2>9 DEF ReissueLock, Goto, Return, Lock, Unlock
  <2>10. CASE ReissueDelete(r)
    BY <2>10 DEF ReissueDelete, Goto, Return, Lock, Unlock
  <2>11. CASE ReissueClear(r)
    BY <2>11 DEF ReissueClear, Goto, Return, Lock, Unlock
  <2>12. CASE ReissueStore(r)
    BY <2>12 DEF ReissueStore, StoreToken, Goto, Return, Lock, Unlock
  <2>13. CASE ReissueList(r)
    BY <2>13 DEF ReissueList, ReadList, Goto, Return, Lock, Unlock
  <2>14. CASE ReissueAppend(r)
    BY <2>14 DEF ReissueAppend, WriteList, Listed, Goto, Return, Lock, Unlock
  <2>15. CASE RedeemToken(r)
    BY <2>15 DEF RedeemToken, Goto, Return, Lock, Unlock
  <2>16. CASE RedeemStatus(r)
    BY <2>16 DEF RedeemStatus, Goto, Return, Lock, Unlock
  <2>17. CASE RedeemLock(r)
    BY <2>17 DEF RedeemLock, RemovePrevious, WithoutPrevious, Goto, Return, Lock, Unlock
  <2>18. CASE RedeemPut(r)
    BY SMTT(20), <2>18 DEF RedeemPut, Goto, Return, Lock, Unlock
  <2>19. CASE RedeemPoint(r)
    BY <2>19 DEF RedeemPoint, Goto, Return, Lock, Unlock
  <2>20. CASE SubmitStart(r)
    BY <2>20 DEF SubmitStart, Goto, Return, Lock, Unlock
  <2>21. CASE SubmitRefused(r)
    BY <2>21 DEF SubmitRefused, Goto, Return, Lock, Unlock
  <2>22. CASE SubmitComplete(r)
    BY <2>22 DEF SubmitComplete, Goto, Return, Lock, Unlock
  <2>23. CASE SubmitRevoke(r)
    BY <2>23 DEF SubmitRevoke, RemovePrevious, WithoutPrevious, Goto, Return, Lock,
      Unlock
  <2>24. QED
    BY <1>1, <2>1, <2>2, <2>3, <2>4, <2>5, <2>6, <2>7, <2>8, <2>9, <2>10, <2>11,
       <2>12, <2>13, <2>14, <2>15, <2>16, <2>17, <2>18, <2>19, <2>20, <2>21,
       <2>22, <2>23 DEF Step
<1>2. ASSUME NEW r \in Requests, Fault(r) PROVE ClaimInv'
  BY <1>2 DEF Fault, Return, Unlock
<1>3. ASSUME NEW t \in Tokens, TokenExpires(t) PROVE ClaimInv'
  BY <1>3 DEF TokenExpires
<1>4. ASSUME NEW s \in Sessions, SessionExpires(s) PROVE ClaimInv'
  BY <1>4 DEF SessionExpires
<1>5. CASE UNCHANGED vars
  BY <1>5 DEF vars
<1>6. QED
  BY <1>1, <1>2, <1>3, <1>4, <1>5 DEF Next

\* The previous session is removed, and the pointer moved, under one acquisition
\* of the lock.
LEMMA SessionNext ==
  ASSUME RemovalFails = FALSE, TypeOK, LockInv, LocalsInv, SessionInv, [Next]_vars
  PROVE  SessionInv'
<1> USE ConstantsAssumption DEF indexVars, folderVars, lockVars, historyVars, localVars,
           TypeOK, LockInv, LocalsInv, SessionInv, IsActive, Cookies, Storing,
           Labels, Locked, Creating, Reissuing, Redeeming, Modes
<1>1. ASSUME NEW r \in Requests, Step(r) PROVE SessionInv'
  <2>1. CASE CreateStart(r)
    BY <2>1 DEF CreateStart, Goto, Return, Lock, Unlock
  <2>2. CASE CreateRefused(r)
    BY <2>2 DEF CreateRefused, Unclaimed, Goto, Return, Lock, Unlock
  <2>3. CASE CreateFolder(r)
    BY <2>3 DEF CreateFolder, Unclaimed, Goto, Return, Lock, Unlock
  <2>4. CASE CreateMap(r)
    BY <2>4 DEF CreateMap, Goto, Return, Lock, Unlock
  <2>5. CASE CreateStore(r)
    BY <2>5 DEF CreateStore, StoreToken, Goto, Return, Lock, Unlock
  <2>6. CASE CreateList(r)
    BY <2>6 DEF CreateList, ReadList, Goto, Return, Lock, Unlock
  <2>7. CASE CreateAppend(r)
    BY <2>7 DEF CreateAppend, WriteList, Listed, Goto, Return, Lock, Unlock
  <2>8. CASE ReissueStart(r)
    BY <2>8 DEF ReissueStart, Goto, Return, Lock, Unlock
  <2>9. CASE ReissueLock(r)
    BY <2>9 DEF ReissueLock, Goto, Return, Lock, Unlock
  <2>10. CASE ReissueDelete(r)
    BY <2>10 DEF ReissueDelete, Goto, Return, Lock, Unlock
  <2>11. CASE ReissueClear(r)
    BY <2>11 DEF ReissueClear, Goto, Return, Lock, Unlock
  <2>12. CASE ReissueStore(r)
    BY <2>12 DEF ReissueStore, StoreToken, Goto, Return, Lock, Unlock
  <2>13. CASE ReissueList(r)
    BY <2>13 DEF ReissueList, ReadList, Goto, Return, Lock, Unlock
  <2>14. CASE ReissueAppend(r)
    BY <2>14 DEF ReissueAppend, WriteList, Listed, Goto, Return, Lock, Unlock
  <2>15. CASE RedeemToken(r)
    BY <2>15 DEF RedeemToken, Goto, Return, Lock, Unlock
  <2>16. CASE RedeemStatus(r)
    BY <2>16 DEF RedeemStatus, Goto, Return, Lock, Unlock
  <2>17. CASE RedeemLock(r)
    BY <2>17 DEF RedeemLock, RemovePrevious, WithoutPrevious, Goto, Return, Lock, Unlock
  <2>18. CASE RedeemPut(r)
    BY <2>18 DEF RedeemPut, Goto, Return, Lock, Unlock
  <2>19. CASE RedeemPoint(r)
    BY <2>19 DEF RedeemPoint, Goto, Return, Lock, Unlock
  <2>20. CASE SubmitStart(r)
    BY <2>20 DEF SubmitStart, Goto, Return, Lock, Unlock
  <2>21. CASE SubmitRefused(r)
    BY <2>21 DEF SubmitRefused, Goto, Return, Lock, Unlock
  <2>22. CASE SubmitComplete(r)
    BY <2>22 DEF SubmitComplete, Goto, Return, Lock, Unlock
  <2>23. CASE SubmitRevoke(r)
    BY <2>23 DEF SubmitRevoke, RemovePrevious, WithoutPrevious, Goto, Return, Lock,
      Unlock
  <2>24. QED
    BY <1>1, <2>1, <2>2, <2>3, <2>4, <2>5, <2>6, <2>7, <2>8, <2>9, <2>10, <2>11,
       <2>12, <2>13, <2>14, <2>15, <2>16, <2>17, <2>18, <2>19, <2>20, <2>21,
       <2>22, <2>23 DEF Step
<1>2. ASSUME NEW r \in Requests, Fault(r) PROVE SessionInv'
  BY <1>2 DEF Fault, Return, Unlock
<1>3. ASSUME NEW t \in Tokens, TokenExpires(t) PROVE SessionInv'
  BY <1>3 DEF TokenExpires
<1>4. ASSUME NEW s \in Sessions, SessionExpires(s) PROVE SessionInv'
  BY <1>4 DEF SessionExpires
<1>5. CASE UNCHANGED vars
  BY <1>5 DEF vars
<1>6. QED
  BY <1>1, <1>2, <1>3, <1>4, <1>5 DEF Next

\* A reissue finds every link in the list, and no create runs beside it.
LEMMA LinkNext ==
  ASSUME EarlyReissue = FALSE, TypeOK, LockInv, LocalsInv, ClaimInv, LinkInv, [Next]_vars
  PROVE  LinkInv'
<1> USE ConstantsAssumption DEF indexVars, folderVars, lockVars, historyVars, localVars,
           TypeOK, LockInv, LocalsInv, ClaimInv, LinkInv, OneLiveLaunch, Links,
           Replacing, Storing, Labels, Locked, Creating, Reissuing, Redeeming, Modes
<1>1. ASSUME NEW r \in Requests, Step(r) PROVE LinkInv'
  <2>1. CASE CreateStart(r)
    BY <2>1 DEF CreateStart, Goto, Return, Lock, Unlock
  <2>2. CASE CreateRefused(r)
    BY <2>2 DEF CreateRefused, Unclaimed, Goto, Return, Lock, Unlock
  <2>3. CASE CreateFolder(r)
    BY <2>3 DEF CreateFolder, Unclaimed, Goto, Return, Lock, Unlock
  <2>4. CASE CreateMap(r)
    BY <2>4 DEF CreateMap, Goto, Return, Lock, Unlock
  <2>5. CASE CreateStore(r)
    BY <2>5 DEF CreateStore, StoreToken, Goto, Return, Lock, Unlock
  <2>6. CASE CreateList(r)
    BY <2>6 DEF CreateList, ReadList, Goto, Return, Lock, Unlock
  <2>7. CASE CreateAppend(r)
    BY <2>7 DEF CreateAppend, WriteList, Listed, Goto, Return, Lock, Unlock
  <2>8. CASE ReissueStart(r)
    BY <2>8 DEF ReissueStart, Goto, Return, Lock, Unlock
  <2>9. CASE ReissueLock(r)
    BY <2>9 DEF ReissueLock, Goto, Return, Lock, Unlock
  <2>10. CASE ReissueDelete(r)
    BY <2>10 DEF ReissueDelete, Goto, Return, Lock, Unlock
  <2>11. CASE ReissueClear(r)
    BY <2>11 DEF ReissueClear, Goto, Return, Lock, Unlock
  <2>12. CASE ReissueStore(r)
    BY <2>12 DEF ReissueStore, StoreToken, Goto, Return, Lock, Unlock
  <2>13. CASE ReissueList(r)
    BY <2>13 DEF ReissueList, ReadList, Goto, Return, Lock, Unlock
  <2>14. CASE ReissueAppend(r)
    BY <2>14 DEF ReissueAppend, WriteList, Listed, Goto, Return, Lock, Unlock
  <2>15. CASE RedeemToken(r)
    BY <2>15 DEF RedeemToken, Goto, Return, Lock, Unlock
  <2>16. CASE RedeemStatus(r)
    BY <2>16 DEF RedeemStatus, Goto, Return, Lock, Unlock
  <2>17. CASE RedeemLock(r)
    BY <2>17 DEF RedeemLock, RemovePrevious, WithoutPrevious, Goto, Return, Lock, Unlock
  <2>18. CASE RedeemPut(r)
    BY <2>18 DEF RedeemPut, Goto, Return, Lock, Unlock
  <2>19. CASE RedeemPoint(r)
    BY <2>19 DEF RedeemPoint, Goto, Return, Lock, Unlock
  <2>20. CASE SubmitStart(r)
    BY <2>20 DEF SubmitStart, Goto, Return, Lock, Unlock
  <2>21. CASE SubmitRefused(r)
    BY <2>21 DEF SubmitRefused, Goto, Return, Lock, Unlock
  <2>22. CASE SubmitComplete(r)
    BY <2>22 DEF SubmitComplete, Goto, Return, Lock, Unlock
  <2>23. CASE SubmitRevoke(r)
    BY <2>23 DEF SubmitRevoke, RemovePrevious, WithoutPrevious, Goto, Return, Lock,
      Unlock
  <2>24. QED
    BY <1>1, <2>1, <2>2, <2>3, <2>4, <2>5, <2>6, <2>7, <2>8, <2>9, <2>10, <2>11,
       <2>12, <2>13, <2>14, <2>15, <2>16, <2>17, <2>18, <2>19, <2>20, <2>21,
       <2>22, <2>23 DEF Step
<1>2. ASSUME NEW r \in Requests, Fault(r) PROVE LinkInv'
  BY <1>2 DEF Fault, Return, Unlock
<1>3. ASSUME NEW t \in Tokens, TokenExpires(t) PROVE LinkInv'
  BY <1>3 DEF TokenExpires
<1>4. ASSUME NEW s \in Sessions, SessionExpires(s) PROVE LinkInv'
  BY <1>4 DEF SessionExpires
<1>5. CASE UNCHANGED vars
  BY <1>5 DEF vars
<1>6. QED
  BY <1>1, <1>2, <1>3, <1>4, <1>5 DEF Next

-------------------------------------------------------------------------------

\* Nothing is claimed, held or drawn at first.
LEMMA LaunchInit ==
  ASSUME Init
  PROVE  LaunchInv
<1> USE ConstantsAssumption DEF Init
<1>1. TypeOK
  BY DEF TypeOK, Labels, Creating, Reissuing, Redeeming
<1>2. LockInv /\ LocalsInv
  BY DEF LockInv, LocalsInv, Locked, Storing, Reissuing, Redeeming
<1>3. ClaimInv
  BY DEF ClaimInv, OneTransaction, Creating, Reissuing, Storing
<1>4. SessionInv
  BY DEF SessionInv, IsActive, Cookies, Redeeming
<1>5. LinkInv
  BY DEF LinkInv, OneLiveLaunch, Links, Creating, Reissuing, Replacing
<1>6. QED
  BY <1>1, <1>2, <1>3, <1>4, <1>5 DEF LaunchInv

\* The part of the invariant that needs no assumption: every lock is held by the
\* request inside its section, every drawn secret is its request's, and the
\* external id is claimed once.
THEOREM ClaimedOnce == Spec => [](TypeOK /\ LockInv /\ LocalsInv /\ ClaimInv)
<1>1. Init => TypeOK /\ LockInv /\ LocalsInv /\ ClaimInv
  BY LaunchInit DEF LaunchInv
<1>2. TypeOK /\ LockInv /\ LocalsInv /\ ClaimInv /\ [Next]_vars
      => (TypeOK /\ LockInv /\ LocalsInv /\ ClaimInv)'
  BY TypeNext, LockNext, LocalsNext, ClaimNext
<1>3. QED
  BY <1>1, <1>2, PTL DEF Spec

\* All links that an external id was ever answered lead to the one transaction
\* that the index names (launch.py create_launch under lock_external), wherever
\* requests die and whatever the bank sends when.
THEOREM LinksOfOneTransaction == Spec => []OneTransaction
<1>1. ClaimInv => OneTransaction
  BY DEF ClaimInv
<1>2. QED
  BY <1>1, ClaimedOnce, PTL

\* As long as the removal of the previous session's file does not fail, two
\* browsers never hold active sessions of one transaction (browser_session.py
\* _create_session).
THEOREM ActiveSessionUnique ==
  ASSUME RemovalFails = FALSE
  PROVE  Spec => []OneActiveSession
<1> DEFINE Inv == TypeOK /\ LockInv /\ LocalsInv /\ SessionInv
<1>1. Init => Inv
  BY LaunchInit DEF LaunchInv
<1>2. Inv /\ [Next]_vars => Inv'
  BY TypeNext, LockNext, LocalsNext, SessionNext
<1>3. Inv => OneActiveSession
  BY DEF SessionInv, OneActiveSession, IsActive, Cookies
<1>4. QED
  BY <1>1, <1>2, <1>3, PTL DEF Spec

\* As long as the bank waits for the answer of its create before it reissues, at
\* most one of the links it was answered works (launch.py reissue_launch).
THEOREM LiveLinkUnique ==
  ASSUME EarlyReissue = FALSE
  PROVE  Spec => []OneLiveLaunch
<1> DEFINE Inv == TypeOK /\ LockInv /\ LocalsInv /\ ClaimInv /\ LinkInv
<1>1. Init => Inv
  BY LaunchInit DEF LaunchInv
<1>2. Inv /\ [Next]_vars => Inv'
  BY TypeNext, LockNext, LocalsNext, ClaimNext, LinkNext
<1>3. Inv => OneLiveLaunch
  BY DEF LinkInv
<1>4. QED
  BY <1>1, <1>2, <1>3, PTL DEF Spec

\* The whole inductive invariant that the run checks, from both assumptions.
THEOREM LaunchInvariant ==
  ASSUME EarlyReissue = FALSE, RemovalFails = FALSE
  PROVE  Spec => []LaunchInv
<1>1. Init => LaunchInv
  BY LaunchInit
<1>2. LaunchInv /\ [Next]_vars => LaunchInv'
  BY TypeNext, LockNext, LocalsNext, ClaimNext, SessionNext, LinkNext DEF LaunchInv
<1>3. QED
  BY <1>1, <1>2, PTL DEF Spec
===============================================================================
