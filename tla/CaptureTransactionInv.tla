------------------------ MODULE CaptureTransactionInv ------------------------
(***************************************************************************)
(* The inductive invariants of CaptureTransaction, and the contract it     *)
(* implements.  ControlInv holds wherever requests die; IInv when none     *)
(* dies between the write of the image and the write of capture.json.      *)
(***************************************************************************)
EXTENDS CaptureTransaction

\* The image is written, its capture.json is not: the folder is inconsistent.
Writing == \E r \in Requests : pc[r] = "capture_meta"

\* Attempts whose capture is, or was, the current one (or was lost in a fault).
Stored ==
    {a \in uploaded : \A r \in Requests :
        pc[r] \in {"capture_image", "capture_meta"} => key[r].attempt # a}

Registering == {"attempt", "attempt_save", "capture", "capture_save", "capture_image",
                "capture_meta", "capture_invalidate"}
Keyed == {"liveness_claim", "liveness_read", "liveness_provider", "liveness_decide",
          "portrait_read", "portrait_write", "portrait_fail", "portrait_promote",
          "portrait_authorize"}

\* What a request works on exists: a capture under way has a key, a capture that
\* is or was current has an image, and what a locked section has checked or
\* written is there until the section ends.
LocalsInv ==
    /\ \A r \in Requests : pc[r] \in Registering \cup Keyed => key[r] # None
    /\ meta # None \/ Writing => image # None
    /\ \A r \in Requests : pc[r] \in Keyed => image # None
    /\ \A r \in Requests : pc[r] \in {"liveness_provider", "portrait_write"} => seen[r] # None
    /\ \A r \in Requests : pc[r] = "liveness_decide" => evals[key[r]] \in Outcomes
    /\ \A r \in Requests : pc[r] = "portrait_authorize" => portrait # None
    /\ \A r \in Requests : pc[r] = "submit_send" => meta # None /\ portrait # None

\* Everything that refers to a capture refers to a stored one; an upload in
\* progress is of an attempt nothing refers to yet.
FreshInv ==
    /\ \A r \in Requests : pc[r] = "capture_save" => key[r].attempt \notin uploaded
    /\ \A r \in Requests : pc[r] \in {"capture_image", "capture_meta"} =>
                               key[r].attempt \in uploaded
    /\ meta # None => meta.attempt \in Stored
    /\ \A r \in Requests : pc[r] \in Keyed => key[r].attempt \in Stored
    /\ \A i \in Identities :
           evals[i] # None \/ candidate[i] # None \/ evalClaim[i] # "none"
               => i.attempt \in Stored

\* The stored image is that of capture.json, and so is every image read for it.
ImageInv ==
    /\ \A r \in Requests : pc[r] = "capture_meta" => image = key[r].image
    /\ ~Writing /\ meta # None => image = meta.image
    /\ \A r \in Requests :
           pc[r] \in {"liveness_provider", "portrait_write"} /\ meta = key[r] /\ ~Writing
               => seen[r] = key[r].image
    /\ \A i \in Identities :
           candidate[i] # None /\ meta = i /\ ~Writing => candidate[i].source = i.image

\* A PASS is of an accepted image, an authorization of a portrait of its capture.
AuthInv ==
    /\ \A r \in Requests : pc[r] = "liveness_decide" /\ evals[key[r]] = "PASS" =>
           key[r].image \in approved
    /\ decision # None /\ decision.outcome = "PASS" => decision.identity.image \in approved
    /\ \A r \in Requests : pc[r] = "portrait_authorize" => portrait.source = key[r].image
    /\ auth # None => auth.portrait.source = auth.identity.image

\* What a submit has checked stays true until it releases the lock.
SubmitInv ==
    /\ \A r \in Requests : pc[r] = "submit_send" => AuthorizationCurrent /\ status \notin Terminal
    /\ \A r \in Requests : pc[r] \in {"submit_send", "submit_failed", "submit_acknowledge"} =>
           callback # "ACKNOWLEDGED"

\* An upload that goes on has not used up the attempts.
LimitInv ==
    \A r \in Requests : pc[r] = "capture_image" => Cardinality(consumed) < AttemptLimit

\* Only what was sent is acknowledged.
AckInv ==
    \A r \in Requests : pc[r] = "submit_acknowledge" =>
        meta # None /\ \E p \in delivered : p.portrait.source = meta.image

\* The part that holds wherever requests die.
ControlInv ==
    TypeOK /\ MutualExclusion /\ LocalsInv /\ FreshInv /\ SubmitInv /\ LimitInv

\* The inductive invariant: with it, what is stored and what is authorized agree.
IInv == ControlInv /\ ImageInv /\ AuthInv /\ AckInv /\ DeliveredApproved

\* A provider call under way holds the claim of its capture, alone.
ClaimInv ==
    /\ SingleFlight
    /\ \A r \in Requests :
           pc[r] \in {"liveness_read", "liveness_provider"} => evalClaim[key[r]] = "fresh"

\* A cached PASS of the current capture is decided, or about to be; a capture that
\* has just become current has no verdict yet.
CacheInv ==
    /\ meta # None /\ evals[meta] = "PASS" =>
           CurrentPass \/ \E r \in Requests : pc[r] = "liveness_decide"
    /\ \A r \in Requests : pc[r] = "liveness_decide" => key[r] = meta
    /\ \A r \in Requests : pc[r] = "capture_invalidate" => meta # None /\ evals[meta] = None

\* The transaction as its consumer sees it.
Contract == INSTANCE CaptureContract WITH
    Captures <- Identities,
    current  <- meta,
    accepted <- approved,
    sent     <- {p.portrait.source : p \in delivered},
    closed   <- callback = "ACKNOWLEDGED"

\* Every behaviour of the files and requests is one the contract allows: what
\* the consumer receives comes from the current, accepted capture, and nothing
\* comes after the stored acknowledgement.
ImplementsContract == Contract!CSpec
===============================================================================
