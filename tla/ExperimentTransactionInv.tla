------------------------- MODULE ExperimentTransactionInv -------------------------
(* The inductive invariant of ExperimentTransaction: types, the time of a claim,  *)
(* claim and lock, the gate, the status.                                          *)
EXTENDS ExperimentTransaction

Places == {"idle", "call", "finish", "record", "vlm", "status", "evaluated", "portrait",
           "mark", "process", "metadata", "ready", "done", "dead"}
Statuses == {"CAPTURE_READY", "VLM_EVALUATED", "PORTRAIT_PROCESSING", "PORTRAIT_READY",
             "TECHNICAL_ERROR"}
Results == Assessments \cup {Error}

TypeOK ==
  /\ pc \in [Requests -> Places]
  /\ got \in [Requests -> Results \cup {None}]
  /\ previous \in [Requests -> Statuses]
  /\ tries \in [Requests -> 0..Retries]
  /\ elapsed \in [Requests -> Nat]
  /\ view \in [Requests -> Captures \cup {None}]
  /\ lock \in Requests \cup {None} /\ claim \in Requests \cup {None}
  /\ record \in Results \cup {None} /\ vlm \in Results \cup {None}
  /\ status \in Statuses
  /\ portrait \in [image : Boxes \cup {NoBox}, source : Captures \cup {None},
                   metadata : Boxes \cup {NoBox}]
  /\ capture \in Captures
  /\ told \subseteq {"PASS", "FAIL", "RETRY"}
  /\ met \subseteq {"experiment", "unsettled", "overlap", "noModel", "fault", "eligible",
                   "slow"}

\* What its calls and its delays have cost a request: the claim timeout is longer, while
\* every call keeps to its timeout.
TimeInv ==
  "slow" \notin met => \A r \in Requests :
    /\ pc[r] \in {"idle", "call"} =>
         elapsed[r] <= tries[r] * ProviderTimeout + Delay(tries[r]) - 1
    /\ elapsed[r] <= ClaimTimeout

\* Whoever writes has the lock; whoever calls the provider has the claim, and replaces no
\* verdict, while every call keeps to its timeout.
ClaimInv ==
  /\ \A r \in Requests :
       /\ pc[r] \in {"record", "vlm", "status"} <=> lock = r
       /\ pc[r] = "record" => claim = None
       /\ pc[r] \in {"finish", "record"} => got[r] \in Results
       /\ pc[r] \in {"vlm", "status"} => got[r] \in Assessments /\ record = got[r]
  /\ "slow" \notin met => \A r \in Requests :
       /\ pc[r] \in {"call", "finish"} => claim = r
       /\ pc[r] \in {"call", "finish", "record"} => ~Reusable(record)

GateInv ==
  /\ GateFollowsVerdict
  /\ "PASS" \in told /\ "slow" \notin met => Eligible(record)
  /\ "experiment" \notin met =>
       /\ \A r \in Requests : pc[r] = "status" => vlm = got[r]
       /\ met \cap {"fault", "slow"} = {} /\ Eligible(record) =>
            vlm = record \/ \E r \in Requests : pc[r] = "vlm"

\* The status before a run, which a rejected portrait restores, is no secret.
Overlapped == met \cap {"overlap", "noModel", "fault"} # {}
Unsettled == met \cap {"unsettled", "overlap", "fault"} # {}

StatusInv ==
  /\ \A r \in Requests :
       /\ pc[r] \in {"metadata", "ready"} => portrait.image # NoBox
       /\ pc[r] = "ready" => portrait.metadata # NoBox
       /\ previous[r] = "PORTRAIT_READY" => portrait.image # NoBox /\ portrait.metadata # NoBox
       /\ pc[r] \in Processing /\ previous[r] = "PORTRAIT_PROCESSING" => Overlapped
       /\ pc[r] \in Processing /\ previous[r] = "CAPTURE_READY" => Unsettled
       /\ pc[r] = "portrait" /\ status = "CAPTURE_READY" => Unsettled
  /\ status = "PORTRAIT_READY" => portrait.image # NoBox /\ portrait.metadata # NoBox
  /\ status = "PORTRAIT_PROCESSING" =>
       Overlapped \/ \E r \in Requests : pc[r] \in {"process", "metadata", "ready"}
  /\ status = "CAPTURE_READY" /\ vlm # None =>
       Unsettled \/ \E r \in Requests : pc[r] \in {"status", "evaluated"}

\* Before a provider says that a live person is there, nothing is eligible and
\* nothing follows from it.
Begun == {"PORTRAIT_PROCESSING", "PORTRAIT_READY"}
ClosedInv ==
  "eligible" \notin met =>
    /\ "PASS" \notin told /\ ~Eligible(record) /\ ~Eligible(vlm)
    /\ portrait.image = NoBox /\ status \notin Begun
    /\ \A r \in Requests :
         /\ ~Eligible(got[r]) /\ previous[r] \notin Begun
         /\ pc[r] \notin {"portrait"} \cup Processing

\* A run goes by a view of the picture, and a portrait is the frame of one.
PictureInv ==
  /\ \A r \in Requests :
       /\ pc[r] \in {"portrait"} \cup Processing => view[r] \in Views(capture)
       /\ pc[r] = "metadata" => Croppable(view[r])
  /\ portrait.image # NoBox =>
       /\ portrait.source \in Views(capture) /\ Croppable(portrait.source)
       /\ portrait.image = PassportCrop(portrait.source)

\* Without overlapping runs, a portrait that is ready has its own metadata, also if a
\* rejected run restores that status.
Told == portrait.metadata = portrait.image
FrameInv ==
  "overlap" \notin met =>
    /\ \A r, q \in Requests : pc[r] \in Processing /\ pc[q] \in Processing => r = q
    /\ \A r \in Requests :
         /\ pc[r] = "metadata" => portrait.source = view[r]
         /\ pc[r] = "ready" => Told
         /\ pc[r] \in {"process", "metadata", "ready"} => status # "PORTRAIT_READY"
         /\ pc[r] \in {"mark", "process"} /\ previous[r] = "PORTRAIT_READY" => Told
    /\ status = "PORTRAIT_READY" => Told

ExperimentInv ==
  /\ TypeOK /\ TimeInv /\ ClaimInv /\ GateInv /\ StatusInv
  /\ ClosedInv /\ PictureInv /\ FrameInv
===============================================================================
