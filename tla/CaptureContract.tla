--------------------------- MODULE CaptureContract ---------------------------
(***************************************************************************)
(* What a transaction promises to the consumer, without files, locks or    *)
(* requests: captures supersede one another, the provider accepts images,  *)
(* and only the image of the current, accepted capture is ever delivered,  *)
(* until the consumer's acknowledgement ends the deliveries.               *)
(***************************************************************************)

CONSTANTS Captures,   \* capture identities, records with a field image
          Images,
          None

VARIABLES current,    \* the capture the transaction stands for
          accepted,   \* images the provider has accepted
          sent,       \* images whose portrait the consumer may have received
          closed      \* the acknowledgement is stored

cvars == <<current, accepted, sent, closed>>

CInit ==
    /\ current = None
    /\ accepted = {}
    /\ sent = {}
    /\ closed = FALSE

Supersede ==
    /\ current' \in Captures \ {current}
    /\ UNCHANGED <<accepted, sent, closed>>

Accept ==
    /\ \E i \in Images : accepted' = accepted \cup {i}
    /\ UNCHANGED <<current, sent, closed>>

Deliver ==
    /\ ~closed
    /\ current # None
    /\ current.image \in accepted
    /\ sent' = sent \cup {current.image}
    /\ UNCHANGED <<current, accepted, closed>>

Close ==
    /\ current # None
    /\ current.image \in sent
    /\ closed' = TRUE
    /\ UNCHANGED <<current, accepted, sent>>

CNext == Supersede \/ Accept \/ Deliver \/ Close

CSpec == CInit /\ [][CNext]_cvars
===============================================================================
