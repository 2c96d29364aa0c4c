--------------------------- MODULE LaunchSessionInv ---------------------------
(***************************************************************************)
(* The inductive invariants of LaunchSession.  LockInv, LocalsInv and      *)
(* ClaimInv hold in every instance, SessionInv if the removal of a session *)
(* file does not fail, LinkInv if the bank waits for the answer of its     *)
(* create.                                                                 *)
(***************************************************************************)
EXTENDS LaunchSession

Storing   == {"create_list", "create_append", "reissue_list", "reissue_append"}
Replacing == {"reissue_store", "reissue_list", "reissue_append"}

IsActive(s) == session[s] # None /\ session[s].mode = "ACTIVE"
Links == given \cap Tokens
Cookies == given \cap Sessions

\* A lock is held by the request that is inside its section.
LockInv ==
    /\ \A r \in Requests : pc[r] \in Locked => tx[r] \in Txs /\ lock[tx[r]] = r
    /\ \A x \in Txs : lock[x] # None => pc[lock[x]] \in Locked /\ tx[lock[x]] = x
    /\ \A r \in Requests : pc[r] = "create_map" <=> extLock = r
    /\ \A r \in Requests : pc[r] \notin {"idle", "create"} => tx[r] \in Txs

\* What a request is about to answer, or to write, is the secret it has drawn.
LocalsInv ==
    /\ \A r \in Requests : pc[r] \in Storing => secret[r] \in Tokens \cap drawn
    /\ \A r \in Requests : pc[r] \in Redeeming \cup {"redeem_lock"} => mode[r] \in Modes
    /\ \A r \in Requests : pc[r] = "redeem_point" =>
           /\ mode[r] = "ACTIVE"
           /\ secret[r] \in Sessions \cap drawn
           /\ session[secret[r]] \in {None, [tx |-> tx[r], mode |-> "ACTIVE"]}

\* The external id is claimed once, and every token is of its transaction.
ClaimInv ==
    /\ \A r \in Requests : pc[r] = "create_map" => mapping = None
    /\ \A r \in Requests : pc[r] \in (Creating \ {"create_map"}) \cup Reissuing \cup {"reissue"} =>
           tx[r] = mapping
    /\ \A r \in Requests : pc[r] \in Storing => token[secret[r]] \in {None, tx[r]}
    /\ OneTransaction

\* The pointer names the active session, unless a redemption is replacing it.
SessionInv ==
    /\ \A s \in Cookies : IsActive(s) => pointer[session[s].tx] = s
    /\ \A r \in Requests : pc[r] \in Redeeming /\ mode[r] = "ACTIVE" =>
           \A s \in Cookies : IsActive(s) => session[s].tx # tx[r]

\* The link that works is in the list of the transaction; no link is out before
\* the create is answered, and none works while a reissue makes the next one.
LinkInv ==
    /\ \A t \in Links : token[t] # None => mapping # None /\ t \in launches[mapping]
    /\ \A r, s \in Requests : pc[r] \in Creating =>
           /\ Links = {}
           /\ pc[s] \notin Reissuing \cup {"reissue"}
           /\ pc[s] \in Creating => r = s
    /\ mapping = None => Links = {}
    /\ \A r \in Requests : pc[r] \in Replacing => \A t \in Links : token[t] = None
    /\ OneLiveLaunch

\* The inductive invariant.
LaunchInv == TypeOK /\ LockInv /\ LocalsInv /\ ClaimInv /\ SessionInv /\ LinkInv
===============================================================================
