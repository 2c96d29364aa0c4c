------------------------------ MODULE FlowPhases ------------------------------
(* The phases of the capture page and the table of its transitions:           *)
(* frontend/src/features/capture/state/captureFlow.ts.  The reducer throws     *)
(* when an action is not allowed in the current phase.                         *)

Phases == {"idle", "requestingPermission", "streaming", "switchingCamera",
           "capturing", "analyzing", "qualityRetry", "preview", "confirmed",
           "error"}

FlowActions == {"START_CAMERA", "PERMISSION_OK", "PERMISSION_ERROR",
                "SWITCH_CAMERA", "SWITCH_OK", "SWITCH_ERROR", "SWITCH_LOST",
                "CAPTURE", "BURST_COMPLETE", "ANALYSIS_READY",
                "ANALYSIS_RETRY", "ANALYSIS_ERROR", "RETRY_RETAKE", "RETAKE",
                "CONFIRM", "RESUME_STREAM", "RESET", "INTERRUPTED"}

AllowedFrom(a) ==
  CASE a = "START_CAMERA" -> {"idle", "error"}
    [] a \in {"PERMISSION_OK", "PERMISSION_ERROR"} -> {"requestingPermission"}
    [] a \in {"SWITCH_CAMERA", "CAPTURE"} -> {"streaming"}
    [] a \in {"SWITCH_OK", "SWITCH_ERROR", "SWITCH_LOST"} -> {"switchingCamera"}
    [] a = "BURST_COMPLETE" -> {"capturing"}
    [] a \in {"ANALYSIS_READY", "ANALYSIS_RETRY"} -> {"analyzing"}
    [] a = "ANALYSIS_ERROR" -> {"capturing", "analyzing"}
    [] a = "RETRY_RETAKE" -> {"qualityRetry"}
    [] a \in {"RETAKE", "CONFIRM"} -> {"preview"}
    [] a = "RESUME_STREAM" -> {"error"}
    [] a = "RESET" -> Phases
    [] a = "INTERRUPTED" -> Phases \ {"idle", "preview", "confirmed", "error"}

Target(a) ==
  CASE a \in {"START_CAMERA", "RETAKE"} -> "requestingPermission"
    [] a = "SWITCH_CAMERA" -> "switchingCamera"
    [] a \in {"PERMISSION_OK", "SWITCH_OK", "SWITCH_ERROR", "RETRY_RETAKE",
              "RESUME_STREAM"} -> "streaming"
    [] a \in {"PERMISSION_ERROR", "SWITCH_LOST", "ANALYSIS_ERROR",
              "INTERRUPTED"} -> "error"
    [] a = "CAPTURE" -> "capturing"
    [] a = "BURST_COMPLETE" -> "analyzing"
    [] a = "ANALYSIS_READY" -> "preview"
    [] a = "ANALYSIS_RETRY" -> "qualityRetry"
    [] a = "CONFIRM" -> "confirmed"
    [] a = "RESET" -> "idle"
===============================================================================
