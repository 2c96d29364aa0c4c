------------------------ MODULE MCCaptureTransaction ------------------------
(* Instances of CaptureTransaction for TLC. *)
EXTENDS CaptureTransactionInv, TLC

\* Requests, attempts and images are interchangeable.
Symmetry == Permutations(Requests) \cup Permutations(Attempts) \cup Permutations(Images)
\* Every step but the write of capture.json and of the decision may be the last.
SafeFaultPoints == Labels \ {"idle", "capture_meta", "liveness_decide"}
NoFaultPoints   == {}
CaptureFault    == {"capture_meta"}
===============================================================================
