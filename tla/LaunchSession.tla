----------------------------- MODULE LaunchSession -----------------------------
(***************************************************************************)
(* Launch links and browser sessions of one external transaction of a      *)
(* bank (backend/app/integrations/launch.py, browser_session.py, store.py) *)
(* from the creation of the internal transaction to its completion.        *)
(*                                                                         *)
(* A step ends at an unlocked read and after every file that is written;   *)
(* a request may die between two steps.  A token or a session file that    *)
(* has expired is as good as removed: whoever finds it removes it.         *)
(***************************************************************************)
EXTENDS FiniteSets

CONSTANTS
    Requests,       \* request slots of all workers
    Txs,            \* internal transaction ids
    Tokens,         \* launch tokens, drawn at random: never twice
    Sessions,       \* session tokens, likewise
    EarlyReissue,   \* may the bank reissue before its create is answered?
    RemovalFails,   \* may the removal of a session file fail?
    FaultPoints,    \* steps at which a request may die
    None

VARIABLES
    mapping,     \* index/external: the internal transaction of the external id
    status,      \* transaction.json of each internal transaction
    launches,    \* launch/active-launches.json of each internal transaction
    token,       \* index/launch-tokens: a file's transaction
    session,     \* index/browser-sessions: a file's transaction and mode
    pointer,     \* browser/active-session.json of each internal transaction
    extLock,     \* holder of the lock of the external id
    lock,        \* holder of each transaction's lock
    drawn,       \* tokens and session tokens drawn so far
    given,       \* those of them that an answer has carried to a bank or browser
    pc, tx, secret, list, mode    \* per request: next step and locals

indexVars   == <<mapping, token, session>>
folderVars  == <<status, launches, pointer>>
lockVars    == <<extLock, lock>>
historyVars == <<drawn, given>>
localVars   == <<tx, secret, list, mode>>
vars == <<indexVars, folderVars, lockVars, historyVars, pc, localVars>>

Modes == {"ACTIVE", "TERMINAL"}

Creating  == {"create_map", "create_store", "create_list", "create_append"}
Reissuing == {"reissue_delete", "reissue_store", "reissue_list", "reissue_append"}
Redeeming == {"redeem_put", "redeem_point"}
Labels == Creating \cup Reissuing \cup Redeeming \cup
          {"idle", "create", "reissue", "redeem_status", "redeem_lock", "submit",
           "submit_revoke"}
\* Steps made while the lock of the transaction is held.
Locked == Reissuing \cup Redeeming \cup {"submit_revoke"}

ASSUME ConstantsAssumption ==
    /\ EarlyReissue \in BOOLEAN /\ RemovalFails \in BOOLEAN
    /\ FaultPoints \subseteq Labels \ {"idle"}
    /\ None \notin Requests \cup Txs \cup Tokens \cup Sessions \cup [tx: Txs, mode: Modes]
    /\ Tokens \cap Sessions = {}

-------------------------------------------------------------------------------

Goto(r, label) == pc' = [pc EXCEPT ![r] = label]
Lock(r)   == lock[tx[r]] = None /\ lock' = [lock EXCEPT ![tx[r]] = r]
Unlock(r) == lock' = [x \in Txs |-> IF lock[x] = r THEN None ELSE lock[x]]

\* The answer is sent.
Return(r) ==
    /\ pc'     = [pc EXCEPT ![r] = "idle"]
    /\ tx'     = [tx EXCEPT ![r] = None]
    /\ secret' = [secret EXCEPT ![r] = None]
    /\ list'   = [list EXCEPT ![r] = {}]
    /\ mode'   = [mode EXCEPT ![r] = None]

Init ==
    /\ mapping = None
    /\ status = [x \in Txs |-> "absent"]
    /\ launches = [x \in Txs |-> {}]
    /\ token = [t \in Tokens |-> None]
    /\ session = [s \in Sessions |-> None]
    /\ pointer = [x \in Txs |-> None]
    /\ extLock = None
    /\ lock = [x \in Txs |-> None]
    /\ drawn = {} /\ given = {}
    /\ pc = [r \in Requests |-> "idle"]
    /\ tx = [r \in Requests |-> None]
    /\ secret = [r \in Requests |-> None]
    /\ list = [r \in Requests |-> {}]
    /\ mode = [r \in Requests |-> None]

-------------------------------------------------------------------------------
(* A definition whose name starts with "Bug" is what a plausible mistake      *)
(* would make of the definition that follows it.                              *)

\* The external id is not looked up under its lock.
BugUnclaimed == TRUE
\* The external id has no transaction yet.
Unclaimed == mapping = None

\* A new token replaces the list that was read and is not added to it.
BugListed(r) == list[r]
\* The list that a new token is added to is the one read before.
Listed(r) == list[r] \cup {secret[r]}

\* The previous session is left to expire.
BugKeepPrevious(x) == session
\* The session the pointer names is removed; the pointer is not.
WithoutPrevious(x) ==
    IF pointer[x] = None THEN session ELSE [session EXCEPT ![pointer[x]] = None]

\* A removal that fails is passed over.
RemovePrevious(x) ==
    \/ session' = WithoutPrevious(x)
    \/ RemovalFails /\ UNCHANGED session

-------------------------------------------------------------------------------
(* POST /launch-sessions: the transaction and its entry in the index are made *)
(* under the lock of the external id, the token outside of any lock.          *)

CreateStart(r) ==
    /\ pc[r] = "idle"
    /\ Goto(r, "create")
    /\ UNCHANGED <<indexVars, folderVars, lockVars, historyVars, localVars>>

\* TRANSACTION_EXISTS
CreateRefused(r) ==
    /\ pc[r] = "create"
    /\ extLock = None
    /\ ~Unclaimed
    /\ Return(r)
    /\ UNCHANGED <<indexVars, folderVars, lockVars, historyVars>>

\* An id whose folder exists is drawn again.
CreateFolder(r) ==
    /\ pc[r] = "create"
    /\ extLock = None
    /\ Unclaimed
    /\ extLock' = r
    /\ \E x \in Txs :
          /\ status[x] = "absent"
          /\ status' = [status EXCEPT ![x] = "LAUNCHED"]
          /\ tx' = [tx EXCEPT ![r] = x]
    /\ Goto(r, "create_map")
    /\ UNCHANGED <<indexVars, launches, pointer, lock, historyVars, secret, list, mode>>

CreateMap(r) ==
    /\ pc[r] = "create_map"
    /\ mapping' = tx[r]
    /\ extLock' = None
    /\ Goto(r, "create_store")
    /\ UNCHANGED <<token, session, folderVars, lock, historyVars, localVars>>

\* _store_launch_token: the token file, then a read and a write of the list.
StoreToken(r, from, to) ==
    /\ pc[r] = from
    /\ \E t \in Tokens \ drawn :
          /\ drawn' = drawn \cup {t}
          /\ token' = [token EXCEPT ![t] = tx[r]]
          /\ secret' = [secret EXCEPT ![r] = t]
    /\ Goto(r, to)
    /\ UNCHANGED <<mapping, session, folderVars, lockVars, given, tx, list, mode>>

ReadList(r, from, to) ==
    /\ pc[r] = from
    /\ list' = [list EXCEPT ![r] = launches[tx[r]]]
    /\ Goto(r, to)
    /\ UNCHANGED <<indexVars, folderVars, lockVars, historyVars, tx, secret, mode>>

WriteList(r, from) ==
    /\ pc[r] = from
    /\ launches' = [launches EXCEPT ![tx[r]] = Listed(r)]
    /\ given' = given \cup {secret[r]}
    /\ Unlock(r) /\ Return(r)
    /\ UNCHANGED <<indexVars, status, pointer, extLock, drawn>>

CreateStore(r)  == StoreToken(r, "create_store", "create_list")
CreateList(r)   == ReadList(r, "create_list", "create_append")
CreateAppend(r) == WriteList(r, "create_append")

-------------------------------------------------------------------------------
(* POST /transactions/{id}/launch-sessions: under the lock of the transaction *)

\* Unknown external ids are NOT_FOUND.
ReissueStart(r) ==
    /\ pc[r] = "idle"
    /\ mapping # None
    /\ EarlyReissue \/ \A s \in Requests : pc[s] \notin Creating
    /\ tx' = [tx EXCEPT ![r] = mapping]
    /\ Goto(r, "reissue")
    /\ UNCHANGED <<indexVars, folderVars, lockVars, historyVars, secret, list, mode>>

ReissueLock(r) ==
    /\ pc[r] = "reissue"
    /\ Lock(r)
    /\ Goto(r, "reissue_delete")
    /\ UNCHANGED <<indexVars, folderVars, extLock, historyVars, localVars>>

ReissueDelete(r) ==
    /\ pc[r] = "reissue_delete"
    /\ \E t \in launches[tx[r]] :
          /\ token[t] # None
          /\ token' = [token EXCEPT ![t] = None]
    /\ UNCHANGED <<mapping, session, folderVars, lockVars, historyVars, pc, localVars>>

ReissueClear(r) ==
    /\ pc[r] = "reissue_delete"
    /\ \A t \in launches[tx[r]] : token[t] = None
    /\ launches' = [launches EXCEPT ![tx[r]] = {}]
    /\ Goto(r, "reissue_store")
    /\ UNCHANGED <<indexVars, status, pointer, lockVars, historyVars, localVars>>

ReissueStore(r)  == StoreToken(r, "reissue_store", "reissue_list")
ReissueList(r)   == ReadList(r, "reissue_list", "reissue_append")
ReissueAppend(r) == WriteList(r, "reissue_append")

-------------------------------------------------------------------------------
(* GET /xbiz/live_photo/l/{token}: token and status are read without a lock.  *)

RedeemToken(r) ==
    /\ pc[r] = "idle"
    /\ \E t \in given \cap Tokens :
          /\ token[t] # None
          /\ tx' = [tx EXCEPT ![r] = token[t]]
    /\ Goto(r, "redeem_status")
    /\ UNCHANGED <<indexVars, folderVars, lockVars, historyVars, secret, list, mode>>

RedeemStatus(r) ==
    /\ pc[r] = "redeem_status"
    /\ mode' = [mode EXCEPT ![r] =
                   IF status[tx[r]] = "COMPLETED" THEN "TERMINAL" ELSE "ACTIVE"]
    /\ Goto(r, "redeem_lock")
    /\ UNCHANGED <<indexVars, folderVars, lockVars, historyVars, tx, secret, list>>

RedeemLock(r) ==
    /\ pc[r] = "redeem_lock"
    /\ Lock(r)
    /\ IF mode[r] = "ACTIVE" THEN RemovePrevious(tx[r]) ELSE UNCHANGED session
    /\ Goto(r, "redeem_put")
    /\ UNCHANGED <<mapping, token, folderVars, extLock, historyVars, localVars>>

RedeemPut(r) ==
    /\ pc[r] = "redeem_put"
    /\ \E s \in Sessions \ drawn :
          /\ drawn' = drawn \cup {s}
          /\ session' = [session EXCEPT ![s] = [tx |-> tx[r], mode |-> mode[r]]]
          /\ IF mode[r] = "ACTIVE"
             THEN /\ secret' = [secret EXCEPT ![r] = s]
                  /\ Goto(r, "redeem_point")
                  /\ UNCHANGED <<lock, given, tx, list, mode>>
             ELSE given' = given \cup {s} /\ Unlock(r) /\ Return(r)
    /\ UNCHANGED <<mapping, token, folderVars, extLock>>

RedeemPoint(r) ==
    /\ pc[r] = "redeem_point"
    /\ pointer' = [pointer EXCEPT ![tx[r]] = secret[r]]
    /\ given' = given \cup {secret[r]}
    /\ Unlock(r) /\ Return(r)
    /\ UNCHANGED <<indexVars, status, launches, extLock, drawn>>

-------------------------------------------------------------------------------
(* POST /submit as far as sessions go; COMPLETED stands for every terminal    *)
(* status.                                                                    *)

SubmitStart(r) ==
    /\ pc[r] = "idle"
    /\ \E s \in given \cap Sessions :
          /\ session[s] # None /\ session[s].mode = "ACTIVE"
          /\ tx' = [tx EXCEPT ![r] = session[s].tx]
    /\ Goto(r, "submit")
    /\ UNCHANGED <<indexVars, folderVars, lockVars, historyVars, secret, list, mode>>

\* TRANSACTION_COMPLETED
SubmitRefused(r) ==
    /\ pc[r] = "submit"
    /\ lock[tx[r]] = None
    /\ status[tx[r]] = "COMPLETED"
    /\ Return(r)
    /\ UNCHANGED <<indexVars, folderVars, lockVars, historyVars>>

SubmitComplete(r) ==
    /\ pc[r] = "submit"
    /\ Lock(r)
    /\ status[tx[r]] # "COMPLETED"
    /\ status' = [status EXCEPT ![tx[r]] = "COMPLETED"]
    /\ Goto(r, "submit_revoke")
    /\ UNCHANGED <<indexVars, launches, pointer, extLock, historyVars, localVars>>

SubmitRevoke(r) ==
    /\ pc[r] = "submit_revoke"
    /\ RemovePrevious(tx[r])
    /\ Unlock(r) /\ Return(r)
    /\ UNCHANGED <<mapping, token, folderVars, extLock, historyVars>>

-------------------------------------------------------------------------------

TokenExpires(t) ==
    /\ token[t] # None
    /\ token' = [token EXCEPT ![t] = None]
    /\ UNCHANGED <<mapping, session, folderVars, lockVars, historyVars, pc, localVars>>

SessionExpires(s) ==
    /\ session[s] # None
    /\ session' = [session EXCEPT ![s] = None]
    /\ UNCHANGED <<mapping, token, folderVars, lockVars, historyVars, pc, localVars>>

\* A request dies: the kernel takes its locks back, nobody gets its secret.
Fault(r) ==
    /\ pc[r] \in FaultPoints
    /\ extLock' = IF extLock = r THEN None ELSE extLock
    /\ Unlock(r) /\ Return(r)
    /\ UNCHANGED <<indexVars, folderVars, historyVars>>

Step(r) ==
    \/ CreateStart(r) \/ CreateRefused(r) \/ CreateFolder(r) \/ CreateMap(r)
    \/ CreateStore(r) \/ CreateList(r) \/ CreateAppend(r)
    \/ ReissueStart(r) \/ ReissueLock(r) \/ ReissueDelete(r) \/ ReissueClear(r)
    \/ ReissueStore(r) \/ ReissueList(r) \/ ReissueAppend(r)
    \/ RedeemToken(r) \/ RedeemStatus(r) \/ RedeemLock(r) \/ RedeemPut(r) \/ RedeemPoint(r)
    \/ SubmitStart(r) \/ SubmitRefused(r) \/ SubmitComplete(r) \/ SubmitRevoke(r)

Next ==
    \/ \E r \in Requests : Step(r) \/ Fault(r)
    \/ \E t \in Tokens : TokenExpires(t)
    \/ \E s \in Sessions : SessionExpires(s)

Spec == Init /\ [][Next]_vars

-------------------------------------------------------------------------------
(* Properties *)

\* Every variable keeps its type.
TypeOK ==
    /\ mapping \in Txs \cup {None}
    /\ status \in [Txs -> {"absent", "LAUNCHED", "COMPLETED"}]
    /\ launches \in [Txs -> SUBSET Tokens]
    /\ token \in [Tokens -> Txs \cup {None}]
    /\ session \in [Sessions -> [tx: Txs, mode: Modes] \cup {None}]
    /\ pointer \in [Txs -> Sessions \cup {None}]
    /\ extLock \in Requests \cup {None}
    /\ lock \in [Txs -> Requests \cup {None}]
    /\ drawn \subseteq Tokens \cup Sessions
    /\ given \subseteq drawn
    /\ pc \in [Requests -> Labels]
    /\ tx \in [Requests -> Txs \cup {None}]
    /\ secret \in [Requests -> Tokens \cup Sessions \cup {None}]
    /\ list \in [Requests -> SUBSET Tokens]
    /\ mode \in [Requests -> Modes \cup {None}]

\* The bank's links for one external id all lead to one internal transaction, and
\* it is the one its status requests find: two creates at the same time do not
\* make two (launch.py create_launch, store.py lock_external).
OneTransaction ==
    \A t \in given \cap Tokens : token[t] # None => token[t] = mapping

\* "The newest successful redemption invalidates the previous active browser
\* session" (browser_session.py:4-5): no two browsers hold active sessions of one
\* transaction, however redemptions overlap and wherever one dies.
OneActiveSession ==
    \A s, u \in given \cap Sessions :
        /\ session[s] # None /\ session[s].mode = "ACTIVE"
        /\ session[u] # None /\ session[u].mode = "ACTIVE"
        /\ session[s].tx = session[u].tx
        => s = u

\* "Reissue ... revokes previous active launch tokens" (launch.py:5): when a
\* reissue is answered its link is the only one that works.  Holds if the bank
\* reissues after its create is answered; violated otherwise: the create stores
\* its token and enters it in the list without the lock, and a reissue in between
\* does not find it.
OneLiveLaunch ==
    \A t, u \in given \cap Tokens : token[t] # None /\ token[u] # None => t = u

\* "The workflow becomes COMPLETED and active launch/session state is revoked"
\* (docs/CALLBACK_CONTRACT.md:54): no browser holds an active session of a
\* transaction that was completed.  Violated: a redemption reads the status before
\* it waits for the lock, and makes an active session after the revocation.
CompletedIsRevoked ==
    \A s \in given \cap Sessions :
        session[s] # None /\ session[s].mode = "ACTIVE" =>
            status[session[s].tx] # "COMPLETED" \/ lock[session[s].tx] # None
===============================================================================
